----------------------------- MODULE MCIsoBuild -----------------------------
(***************************************************************************)
(* Small instances of IsoBuild: two processes with the requests in which   *)
(* builds differ by architecture, plan, bundle and directory.              *)
(***************************************************************************)
EXTENDS IsoBuild, TLC

CONSTANTS b1, b2, wd, wd2, iso

MCJobs == {b1, b2}
MCWorkDirs == {wd, wd2}
MCOuts == {iso}
MCArches == {"amd64", "arm64"}

Base == [arch |-> "amd64", kernel |-> "vmlinuz", stub |-> "stub",
         cmdline |-> "console", extra |-> Unset, image |-> "img", planRef |-> Unset,
         planFile |-> Unset, target |-> Unset, out |-> iso, work |-> Unset,
         relative |-> FALSE, keep |-> FALSE, insec |-> TRUE, verbose |-> FALSE,
         cosignKey |-> Unset, zfs |-> Unset]

Planned == [Base EXCEPT !.image = Unset, !.planFile = "plan"]
Arm == [Base EXCEPT !.arch = "arm64", !.kernel = "Image", !.image = Unset,
                    !.planRef = "ref", !.cosignKey = "key", !.zfs = "bundle"]

\* Each process with directories of its own, one output path for both.  The
\* second work directory is always named by a relative path.
OwnReqs == (b1 :> {[Planned EXCEPT !.work = wd], [Arm EXCEPT !.work = wd]})
        @@ (b2 :> {Planned, [Planned EXCEPT !.keep = TRUE], [Base EXCEPT !.stub = Unset],
                   [Planned EXCEPT !.work = wd2, !.relative = TRUE]})
=============================================================================
