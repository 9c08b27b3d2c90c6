----------------------------- MODULE FetchCache -----------------------------
(***************************************************************************)
(* The Taskfile's push:* and fetch:* tasks and label:debian:cloud: files   *)
(* of a cache directory that a task downloads, converts and hands on, and  *)
(* that a later run takes for good because they are there.                 *)
(*                                                                         *)
(* A task is a list of steps.  Each writes its files in place, so a step   *)
(* that is cut short leaves them torn; `set -e` ends the task.  Any step   *)
(* may be cut short.  Meanwhile the mirror may publish releases and the    *)
(* user may remove cached files.                                           *)
(***************************************************************************)
EXTENDS Integers, Sequences

CONSTANTS
    Tasks,      \* tasks that are run, of AllTasks
    MaxRelease  \* bound on the releases the mirror publishes

\* A file: the release it is of, 0 when it is not there; the <<task, step>>
\* pairs cut short while they wrote it or what it was made from, and until it
\* ends the step that writes it; whether it was labelled.
None == [release |-> 0, cut |-> {}, label |-> FALSE]

Step(do, from, to) == [do |-> do, from |-> from, to |-> to]
Fetch(f) == Step("fetch", {}, {f})

Images == {"kernel", "initrd", "squashfs"}

\* Mutant: what was extracted before is used again.
ExtractCached == Step("fetch", {"iso"}, Images)
Extract == Step("extract", {"iso"}, Images)

\* "fetch" is left out when its file is there and not empty, "refresh" when
\* its file is also not older than its source; "unless" ends the task when the
\* file is there.
AllTasks == {"push:alpine", "push:debian", "push:debian-live", "fetch:ubuntu:cloud",
             "label:debian:cloud"}

Recipe == [t \in AllTasks |->
    CASE t = "push:alpine" ->
            <<Fetch("kernel"), Fetch("initrd"), Fetch("modloop"),
              Step("make", {}, {"apkovl"}),
              Step("use", {"kernel", "initrd", "modloop", "apkovl"}, {})>>
      [] t = "push:debian" ->
            <<Fetch("kernel"), Fetch("initrd"), Step("use", {"kernel", "initrd"}, {})>>
      [] t = "push:debian-live" ->
            <<Fetch("iso"), Extract, Step("use", {"iso"} \cup Images, {})>>
      [] t = "fetch:ubuntu:cloud" ->
            <<Step("unless", {}, {"raw"}), Step("download", {}, {"qcow2"}),
              Step("convert", {"qcow2"}, {"raw"}), Step("remove", {}, {"qcow2"}),
              Step("use", {"raw"}, {})>>
      [] t = "label:debian:cloud" ->
            <<Fetch("qcow2"), Step("refresh", {"qcow2"}, {"raw"}), Step("stamp", {}, {"raw"}),
              Step("use", {"qcow2", "raw"}, {})>>]

Files == {"kernel", "initrd", "modloop", "apkovl", "iso", "squashfs", "qcow2", "raw"}

ASSUME TasksAssumption == Tasks \subseteq AllTasks

VARIABLES
    upstream,   \* the release the mirror serves now
    files,      \* the cache directory
    newer,      \* whether qcow2 was written after raw was
    task, at,   \* the task, and its step; 0 when it is not running
    busy,       \* whether the step has begun to write
    used        \* the files the last successful run handed on
vars == <<upstream, files, newer, task, at, busy, used>>

-----------------------------------------------------------------------------
Now == Recipe[task][at]
Running == at # 0

Init ==
    /\ upstream = 1 /\ files = [f \in Files |-> None] /\ newer = FALSE
    /\ task \in Tasks /\ at = 0 /\ busy = FALSE /\ used = [f \in {} |-> None]

Begin ==
    /\ ~Running
    /\ at' = 1
    /\ used' = [f \in {} |-> None]
    /\ UNCHANGED <<upstream, files, newer, task, busy>>

Present(f) == files[f].release # 0  \* [ -s file ]

\* Mutant: the age of the converted image is not looked at.
CachedAnyAge(step) == step.do \in {"fetch", "refresh"} /\ \A f \in step.to : Present(f)

\* The steps a task leaves out.
Cached(step) ==
    /\ step.do \in {"fetch", "refresh"}
    /\ \A f \in step.to : Present(f)
    /\ step.do = "refresh" => ~newer

Skip ==
    /\ Running /\ ~busy /\ Cached(Now)
    /\ at' = at + 1
    /\ UNCHANGED <<upstream, files, newer, task, busy, used>>

Done(result) == at' = 0 /\ busy' = FALSE /\ used' = [f \in result |-> files[f]]

Unless ==
    /\ Running /\ Now.do = "unless"
    /\ IF \A f \in Now.to : Present(f)
          THEN Done(Now.to)
          ELSE at' = at + 1 /\ UNCHANGED <<busy, used>>
    /\ UNCHANGED <<upstream, files, newer, task>>

Writes == {"fetch", "download", "refresh", "convert", "extract", "make"}

\* What a step writes: the mirror's release, its source's, or one that does not
\* change: that of the ISO is part of its name and of the cache directory's.
Origin(step) ==
    IF step.do = "make" \/ step.to = {"iso"} THEN 1
    ELSE IF step.from = {} THEN upstream
    ELSE files[CHOOSE f \in step.from : TRUE].release

Written(fs) == newer' = IF "raw" \in fs THEN FALSE
                        ELSE IF "qcow2" \in fs THEN TRUE ELSE newer

\* curl, qemu-img, xorriso and tar open their output and write into it.
StartWriting ==
    /\ Running /\ ~busy /\ Now.do \in Writes /\ ~Cached(Now)
    /\ \A f \in Now.from : Present(f)
    /\ files' = [f \in Files |->
                    IF f \in Now.to
                    THEN [release |-> Origin(Now), cut |-> {<<task, Now.do>>}, label |-> FALSE]
                    ELSE files[f]]
    /\ busy' = TRUE
    /\ Written(Now.to)
    /\ UNCHANGED <<upstream, task, at, used>>

\* xorriso finds no file in an image that is cut off; qemu-img may convert one.
FinishWriting ==
    /\ Running /\ busy
    /\ Now.do = "extract" => \A f \in Now.from : files[f].cut = {}
    /\ files' = [f \in Files |->
                    IF f \in Now.to
                    THEN [files[f] EXCEPT !.cut = UNION {files[g].cut : g \in Now.from}]
                    ELSE files[f]]
    /\ busy' = FALSE
    /\ at' = at + 1
    /\ Written(Now.to)
    /\ UNCHANGED <<upstream, task, used>>

\* rm -f of a download that was converted.
Remove ==
    /\ Running /\ Now.do = "remove"
    /\ files' = [f \in Files |-> IF f \in Now.to THEN None ELSE files[f]]
    /\ at' = at + 1
    /\ UNCHANGED <<upstream, newer, task, busy, used>>

\* cloud-boot label with two arguments writes the label into the image.
Stamp ==
    /\ Running /\ Now.do = "stamp"
    /\ files' = [f \in Files |->
                    IF f \in Now.to THEN [files[f] EXCEPT !.label = TRUE] ELSE files[f]]
    /\ Written(Now.to)
    /\ at' = at + 1
    /\ UNCHANGED <<upstream, task, busy, used>>

\* cloud-boot push artifact, or the caller of a fetch task.
Use ==
    /\ Running /\ Now.do = "use"
    /\ Done(Now.from)
    /\ UNCHANGED <<upstream, files, newer, task>>

\* A step fails before it writes: no network, no such file, no registry.
Fail ==
    /\ Running /\ ~busy
    /\ Done({})
    /\ UNCHANGED <<upstream, files, newer, task>>

\* A step fails while it writes, or is killed.
CutShort ==
    /\ Running /\ busy
    /\ Done({})
    /\ UNCHANGED <<upstream, files, newer, task>>

\* The mirror's "current" moves on.
Release ==
    /\ upstream < MaxRelease
    /\ upstream' = upstream + 1
    /\ UNCHANGED <<files, newer, task, at, busy, used>>

\* The user removes a cached file, to have it fetched anew.
Clean == \E f \in Files :
    /\ ~Running /\ Present(f)
    /\ files' = [files EXCEPT ![f] = None]
    /\ UNCHANGED <<upstream, newer, task, at, busy, used>>

Next == \/ Begin \/ Skip \/ Unless \/ StartWriting \/ FinishWriting \/ Remove \/ Stamp
        \/ Use \/ Fail \/ CutShort \/ Release \/ Clean

Spec == Init /\ [][Next]_vars

-----------------------------------------------------------------------------
(* Properties.                                                             *)

\* Steps whose torn output no later run takes: every run makes it anew, or, for
\* the download of Debian Live, a later step refuses it.
Harmless == {<<"push:debian-live", do>> : do \in Writes}
            \cup {<<t, "make">> : t \in AllTasks} \cup {<<t, "download">> : t \in AllTasks}

\* A task that hands on a torn file, or one made from a torn file, does so
\* because a step was cut short that takes its own output for good when it is
\* there (the downloads of push:alpine, push:debian and label:debian:cloud, and
\* the two conversions).  Any other step can be interrupted, as often as one
\* likes and with any runs in between, and nothing torn is handed on.
TornByCachedOnly == \A f \in DOMAIN used :
    used[f].release # 0 /\ used[f].cut \cap Harmless = {}

\* The image that label:debian:cloud hands on is of the release of the download
\* next to it and has its label, however often either was fetched, converted,
\* removed or left half-done.
UpToDate == task = "label:debian:cloud" /\ "raw" \in DOMAIN used =>
    used["raw"].label /\ used["raw"].release = used["qcow2"].release
=============================================================================
