------------------------------ MODULE IsoBuild ------------------------------
(***************************************************************************)
(* `cloud-boot build`: processes that assemble bootable ISOs through files *)
(* of a work directory, a fresh temporary one or the one --work names,     *)
(* which keeps what earlier builds left there.                             *)
(*                                                                         *)
(* A build may fail or be killed at any step; what it was writing is then  *)
(* as before or torn.                                                      *)
(***************************************************************************)
EXTENDS Sequences

CONSTANTS
    Jobs,       \* processes, each running one build after the other
    WorkDirs,   \* directories --work may name
    Outs,       \* paths -o may name
    Arches,     \* keys of ArchProfiles
    BuildReqs,  \* process -> set of requests
    Unset,      \* a flag that is not given
    Empty,      \* the content of an empty file
    Missing, Torn   \* what a path without a complete file holds

VARIABLES
    files,      \* what the files of each directory hold
    isos,       \* what the output paths hold
    pc,         \* the next step of each process
    req         \* the request it works on
vars == <<files, isos, pc, req>>

-----------------------------------------------------------------------------
(* Requests: the flags.  kernel, stub, planFile, cosignKey and zfs are the *)
(* contents of the files they name; `relative` tells whether --work was    *)
(* given as a relative path.                                               *)

Opts == {"arch", "kernel", "stub", "cmdline", "extra", "image", "planRef",
         "planFile", "target", "out", "work", "relative", "keep", "insec",
         "verbose", "cosignKey", "zfs"}

ASSUME RequestsAssumption == \A j \in Jobs : \A q \in BuildReqs[j] :
    /\ DOMAIN q = Opts
    /\ q.work \in WorkDirs \cup {Unset}
    /\ q.relative \in BOOLEAN /\ (q.relative => q.work # Unset)
    /\ q.keep \in BOOLEAN
    /\ q.out \in Outs

ASSUME NamesAssumption ==
    /\ Unset \notin WorkDirs /\ WorkDirs \cap Jobs = {}
    /\ Missing # Torn /\ Missing \notin Arches /\ Torn \notin Arches

\* The checks of the command, up to the call of Build.
Accepted(q) ==
    /\ q.arch \in Arches
    /\ q.kernel # Unset
    /\ {q.planFile, q.planRef, q.image} # {Unset}
    /\ Unset \in {q.planRef, q.image}
    /\ q.stub # Unset

\* cloudboot.<key>=<value>
Directive(key, value) == IF value = Unset THEN Unset ELSE <<key, value>>

BuildCmdline(q) ==
    LET given(word) == word # Unset IN
    SelectSeq(<<q.cmdline,
                IF q.verbose THEN Unset ELSE "quiet",
                Directive("plan", q.planRef),
                Directive("image", q.image),
                Directive("target", q.target),
                IF q.insec THEN "insecure" ELSE Unset,
                q.extra>>, given)

-----------------------------------------------------------------------------
(* Directories.  A relative work directory is resolved against the current *)
(* directory, but by `go build` against the init module it is started in.  *)

Dirs == {"cwd", "init"} \X (WorkDirs \cup Jobs)
Files == {"init", "initramfs", "uki", "esp"}
NoFiles == [f \in Files |-> Missing]

Place(j, q) == <<"cwd", IF q.work = Unset THEN j ELSE q.work>>
WorkDir(j) == Place(j, req[j])
InitDir(j) == IF req[j].relative THEN <<"init", req[j].work>> ELSE WorkDir(j)

\* Mutants: no RemoveAll; RemoveAll of every work directory.
CleanedUpNever(j, fs) == fs
CleanedUpAlways(j, fs) == [fs EXCEPT ![WorkDir(j)] = NoFiles]

\* What the deferred RemoveAll leaves of fs.
CleanedUp(j, fs) ==
    IF req[j].work = Unset /\ ~req[j].keep THEN [fs EXCEPT ![WorkDir(j)] = NoFiles]
    ELSE fs

Init ==
    /\ files = [d \in Dirs |-> NoFiles]
    /\ isos = [o \in Outs |-> Missing]
    /\ pc = [j \in Jobs |-> "idle"]
    /\ req = [j \in Jobs |-> Unset]

-----------------------------------------------------------------------------
(* The steps of a build, each with the file of the work directory it       *)
(* writes; "iso" writes the output instead.                                *)

Produces == [init |-> "init", pack |-> "initramfs", append |-> "initramfs",
             uki |-> "uki", esp |-> "esp"]
Running == DOMAIN Produces \cup {"iso"}

\* A temporary directory starts empty.
Start(j) == \E q \in BuildReqs[j] :
    /\ pc[j] \notin Running
    /\ req' = [req EXCEPT ![j] = q]
    /\ pc' = [pc EXCEPT ![j] = IF Accepted(q) THEN "init" ELSE "refused"]
    /\ files' = IF Accepted(q) /\ q.work = Unset
                THEN [files EXCEPT ![Place(j, q)] = NoFiles] ELSE files
    /\ UNCHANGED isos

\* Mutant: an output that exists is taken for the step's result.
WriteOnce(j, step, dir, content, next) ==
    /\ pc[j] = step
    /\ files' = IF files[dir][Produces[step]] # Missing THEN files
                ELSE [files EXCEPT ![dir][Produces[step]] = content]
    /\ pc' = [pc EXCEPT ![j] = next]
    /\ UNCHANGED <<isos, req>>

Write(j, step, dir, content, next) ==
    /\ pc[j] = step
    /\ files' = [files EXCEPT ![dir][Produces[step]] = content]
    /\ pc' = [pc EXCEPT ![j] = next]
    /\ UNCHANGED <<isos, req>>

BuildInit(j) == Write(j, "init", InitDir(j), req[j].arch, "pack")

\* Of a file without content nothing is packed.
Embedded(content) == IF content = Empty THEN Unset ELSE content

Archive(q, init) == [init |-> init, plan |-> Embedded(q.planFile),
                     key |-> Embedded(q.cosignKey)]

ASSUME TornAssumption == \A j \in Jobs : \A q \in BuildReqs[j] :
    Torn # <<Archive(q, q.arch)>>

BuildInitramfs(j) ==
    /\ pc[j] = "pack" /\ files[WorkDir(j)]["init"] # Missing
    /\ Write(j, "pack", WorkDir(j), <<Archive(req[j], files[WorkDir(j)]["init"])>>,
             IF req[j].zfs = Unset THEN "uki" ELSE "append")

\* The init that was built is not where it is looked for.
NoInit(j) ==
    /\ pc[j] = "pack" /\ files[WorkDir(j)]["init"] = Missing
    /\ files' = CleanedUp(j, files)
    /\ pc' = [pc EXCEPT ![j] = "failed"]
    /\ UNCHANGED <<isos, req>>

AppendZfs(j) ==
    LET archives == files[WorkDir(j)]["initramfs"] IN
    Write(j, "append", WorkDir(j),
          IF archives = Torn THEN Torn ELSE Append(archives, req[j].zfs), "uki")

\* The architecture stands for the name the firmware looks for.
BuildUki(j) ==
    Write(j, "uki", WorkDir(j),
          [name |-> req[j].arch, stub |-> req[j].stub, linux |-> req[j].kernel,
           cmdline |-> BuildCmdline(req[j]),
           initrd |-> files[WorkDir(j)]["initramfs"]], "esp")

\* A new FAT image with the UKI as its only file.
BuildESP(j) == Write(j, "esp", WorkDir(j), files[WorkDir(j)]["uki"], "iso")

BuildISO(j) ==
    /\ pc[j] = "iso"
    /\ isos' = [isos EXCEPT ![req[j].out] = files[WorkDir(j)]["esp"]]
    /\ files' = CleanedUp(j, files)
    /\ pc' = [pc EXCEPT ![j] = "ok"]
    /\ UNCHANGED req

\* What is on disk when the step under way stops.
Interrupted(j) ==
    {<<files, isos>>} \cup
    IF pc[j] = "iso" THEN {<<files, [isos EXCEPT ![req[j].out] = Torn]>>}
    ELSE LET dir == IF pc[j] = "init" THEN InitDir(j) ELSE WorkDir(j)
         IN {<<[files EXCEPT ![dir][Produces[pc[j]]] = Torn], isos>>}

\* A tool or a file that is missing, an error: Build cleans up.
Fail(j) ==
    /\ pc[j] \in Running
    /\ \E left \in Interrupted(j) :
          /\ files' = CleanedUp(j, left[1])
          /\ isos' = left[2]
    /\ pc' = [pc EXCEPT ![j] = "failed"]
    /\ UNCHANGED req

\* A signal: it does not.
Kill(j) ==
    /\ pc[j] \in Running
    /\ \E left \in Interrupted(j) :
          /\ files' = left[1]
          /\ isos' = left[2]
    /\ pc' = [pc EXCEPT ![j] = "killed"]
    /\ UNCHANGED req

Progress(j) ==
    \/ BuildInit(j)
    \/ BuildInitramfs(j)
    \/ NoInit(j)
    \/ AppendZfs(j)
    \/ BuildUki(j)
    \/ BuildESP(j)
    \/ BuildISO(j)

Next == \E j \in Jobs :
    \/ Start(j)
    \/ Progress(j)
    \/ Fail(j)
    \/ Kill(j)

Spec == Init /\ [][Next]_vars

-----------------------------------------------------------------------------
(* Properties.                                                             *)

\* What the firmware is to find, from the request alone.
WantedInitrd(q) ==
    LET primary == <<[init |-> q.arch, plan |-> q.planFile, key |-> q.cosignKey]>> IN
    IF q.zfs = Unset THEN primary ELSE Append(primary, q.zfs)

WantedImage(q) ==
    [name |-> q.arch, stub |-> q.stub, linux |-> q.kernel,
     cmdline |-> BuildCmdline(q), initrd |-> WantedInitrd(q)]

\* A process that runs works on a request the command accepted.
TypeOK ==
    /\ DOMAIN files = Dirs /\ \A d \in Dirs : DOMAIN files[d] = Files
    /\ DOMAIN isos = Outs
    /\ pc \in [Jobs -> Running \cup {"idle", "refused", "ok", "failed", "killed"}]
    /\ DOMAIN req = Jobs
    /\ \A j \in Jobs : pc[j] # "idle" => req[j] \in BuildReqs[j]
    /\ \A j \in Jobs : pc[j] \in Running \cup {"ok"} => Accepted(req[j])

\* The ISO of a build that succeeds is the one its own flags ask for: an init
\* for its architecture, its plan and key, the ZFS bundle exactly once, its
\* kernel and command line, whatever earlier builds that failed, were killed
\* or were for other architectures left in the work directory.
Built == [][\A j \in Jobs : pc[j] # "ok" /\ pc'[j] = "ok" =>
                isos'[req[j].out] = WantedImage(req[j])]_vars

\* A build that ended by itself leaves no temporary directory unless --keep
\* asks for it, on its error paths too.
ScratchGone == \A j \in Jobs :
    pc[j] \in {"ok", "failed"} /\ req[j].work = Unset /\ ~req[j].keep =>
        files[WorkDir(j)] = NoFiles

\* --work and --keep: after a success the directory has what the ISO was made
\* from, until its owner builds again.
Kept(j) ==
    pc[j] = "ok" /\ (req[j].work # Unset \/ req[j].keep) =>
        /\ files[WorkDir(j)]["init"] = req[j].arch
        /\ files[WorkDir(j)]["initramfs"] = WantedInitrd(req[j])
        /\ files[WorkDir(j)]["esp"] = WantedImage(req[j])

WorkKept == \A j \in Jobs : Kept(j)

\* Why these hold when no two processes share a work directory and none is
\* given as a relative path and as a full one: what the next steps of a build
\* read is what its last steps wrote.
Course(j) == LET has == files[WorkDir(j)] IN
    /\ pc[j] \in Running \ {"init"} /\ ~req[j].relative => has["init"] = req[j].arch
    /\ pc[j] = "append" =>
          req[j].zfs # Unset /\ has["initramfs"] = <<Archive(req[j], req[j].arch)>>
    /\ pc[j] \in {"uki", "esp", "iso"} => has["initramfs"] = WantedInitrd(req[j])
    /\ pc[j] = "esp" => has["uki"] = WantedImage(req[j])
    /\ pc[j] = "iso" => has["esp"] = WantedImage(req[j])

OnCourse == \A j \in Jobs : Course(j)
=============================================================================
