---------------------------- MODULE MCFetchCache ----------------------------
(***************************************************************************)
(* FetchCache with every task, each of its steps cut short at will.        *)
(***************************************************************************)
EXTENDS FetchCache

MCTasks == AllTasks
=============================================================================
