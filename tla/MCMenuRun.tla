----------------------------- MODULE MCMenuRun -----------------------------
(***************************************************************************)
(* A small instance of MenuRun: two terminals, and every task there is.    *)
(***************************************************************************)
EXTENDS MenuRun

CONSTANTS w1, w2

MCTerminals == {w1, w2}
MCTasks == Tasks
=============================================================================
