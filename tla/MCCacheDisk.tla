---------------------------- MODULE MCCacheDisk ----------------------------
(***************************************************************************)
(* A small instance of CacheDisk: one script after the other.              *)
(***************************************************************************)
EXTENDS CacheDisk

CONSTANTS s1, t1, t2

MCRuns == {s1}
MCSizes == {1, 2, 3}
MCTargets == {t1, t2}
=============================================================================
