---------------------------- MODULE MCBootChain ----------------------------
(***************************************************************************)
(* Small instances of BootChain: one run of each script after the other,   *)
(* two targets, the smallest disk sizes that work and one that does not,   *)
(* entries of two other programs.                                          *)
(***************************************************************************)
EXTENDS BootChain

CONSTANTS s1, t1, t2

MCRuns == {s1}
MCSizes == {1, 2, 3}
MCTargets == {t1, t2}
MCOthers == {2, 3}
MCBootNums == {1, 2, 3}
=============================================================================
