--------------------------- MODULE IsoBuildProofs ---------------------------
(***************************************************************************)
(* Builds in directories of their own make what their flags ask for,       *)
(* whatever earlier builds left there, for any number of processes,        *)
(* requests, directories and architectures.                                *)
(***************************************************************************)
EXTENDS IsoBuild, TLAPS

\* No two processes are given the same work directory, none by a relative
\* path, and no plan or key file is empty.
OwnDirectories ==
    /\ \A i, j \in Jobs : \A p \in BuildReqs[i], q \in BuildReqs[j] :
          p.work = q.work /\ p.work # Unset => i = j
    /\ \A j \in Jobs : \A q \in BuildReqs[j] :
          ~q.relative /\ q.planFile # Empty /\ q.cosignKey # Empty

\* A step of a process leaves the directories of the others alone.
LEMMA Apart ==
    ASSUME OwnDirectories, NEW i \in Jobs, NEW j \in Jobs, i # j,
           NEW p \in BuildReqs[i], NEW q \in BuildReqs[j]
    PROVE  Place(i, p) # Place(j, q)
BY NamesAssumption, RequestsAssumption DEF OwnDirectories, Place

\* Every place is a directory of the model.
LEMMA PlaceType == ASSUME NEW j \in Jobs, NEW q \in BuildReqs[j] PROVE Place(j, q) \in Dirs
BY RequestsAssumption DEF Place, Dirs

\* The effect of writing one file.
LEMMA Writing ==
    ASSUME TypeOK, NEW j \in Jobs, NEW step \in DOMAIN Produces, NEW dir \in Dirs,
           NEW content, NEW next, Write(j, step, dir, content, next)
    PROVE  /\ files'[dir][Produces[step]] = content
           /\ \A f \in Files : f # Produces[step] => files'[dir][f] = files[dir][f]
           /\ \A d \in Dirs : d # dir => files'[d] = files[d]
           /\ DOMAIN files' = Dirs /\ \A d \in Dirs : DOMAIN files'[d] = Files
           /\ pc' = [pc EXCEPT ![j] = next] /\ req' = req /\ isos' = isos
           /\ pc[j] = step
<1>1. Produces[step] \in Files
  BY DEF Produces, Files
<1> QED BY <1>1 DEF Write, TypeOK

\* The directories a running process works in.
LEMMA Working ==
    ASSUME TypeOK, NEW j \in Jobs, pc[j] # "idle"
    PROVE  /\ req[j] \in BuildReqs[j] /\ WorkDir(j) \in Dirs /\ InitDir(j) \in Dirs
           /\ OwnDirectories => InitDir(j) = WorkDir(j)
<1>1. req[j] \in BuildReqs[j]
  BY DEF TypeOK
<1>2. req[j].relative => req[j].work \in WorkDirs
  BY <1>1, RequestsAssumption
<1> QED BY <1>1, <1>2, PlaceType DEF WorkDir, InitDir, OwnDirectories, Dirs

\* What a process that stops leaves: one file torn at most, and no directory
\* but its own disturbed.
LEMMA Stopping ==
    ASSUME TypeOK, NEW j \in Jobs, pc[j] \in Running, NEW left \in Interrupted(j)
    PROVE  /\ DOMAIN left[1] = Dirs /\ \A d \in Dirs : DOMAIN left[1][d] = Files
           /\ DOMAIN left[2] = Outs
           /\ \A d \in Dirs \ {WorkDir(j), InitDir(j)} : left[1][d] = files[d]
<1>1. WorkDir(j) \in Dirs /\ InitDir(j) \in Dirs
  BY Working DEF Running, Produces
<1>2. CASE left = <<files, isos>>
  BY <1>2 DEF TypeOK
<1>3. CASE pc[j] = "iso" /\ left = <<files, [isos EXCEPT ![req[j].out] = Torn]>>
  BY <1>3 DEF TypeOK
<1>4. CASE pc[j] # "iso" /\ left # <<files, isos>>
  <2>1. PICK dir \in {InitDir(j), WorkDir(j)} :
          left = <<[files EXCEPT ![dir][Produces[pc[j]]] = Torn], isos>>
    BY <1>4 DEF Interrupted
  <2> QED BY <1>1, <2>1 DEF TypeOK
<1> QED BY <1>2, <1>3, <1>4 DEF Interrupted

\* Cleaning up changes nothing but the process's own directory.
LEMMA Cleaning ==
    ASSUME TypeOK, NEW j \in Jobs, pc[j] # "idle", NEW fs,
           DOMAIN fs = Dirs, \A d \in Dirs : DOMAIN fs[d] = Files
    PROVE  LET cleaned == CleanedUp(j, fs) IN
           /\ DOMAIN cleaned = Dirs /\ \A d \in Dirs : DOMAIN cleaned[d] = Files
           /\ \A d \in Dirs \ {WorkDir(j)} : cleaned[d] = fs[d]
           /\ req[j].work = Unset /\ ~req[j].keep => cleaned[WorkDir(j)] = NoFiles
           /\ req[j].work # Unset \/ req[j].keep => cleaned = fs
<1>1. WorkDir(j) \in Dirs /\ DOMAIN NoFiles = Files
  BY Working DEF NoFiles
<1> QED BY <1>1 DEF CleanedUp

-----------------------------------------------------------------------------
(* Types.                                                                  *)

FilesType == DOMAIN files = Dirs /\ \A d \in Dirs : DOMAIN files[d] = Files

\* Every action keeps the types.
LEMMA TypeStep == TypeOK /\ [Next]_vars => TypeOK'
<1> SUFFICES ASSUME TypeOK, [Next]_vars PROVE TypeOK'
  OBVIOUS
<1>1. CASE UNCHANGED vars
  BY <1>1 DEF vars, TypeOK
<1>a. ASSUME NEW j \in Jobs, NEW next \in Running \cup {"ok", "failed", "killed"},
             pc[j] \in Running, pc' = [pc EXCEPT ![j] = next], req' = req,
             DOMAIN isos' = Outs, FilesType'
      PROVE  TypeOK'
  BY <1>a DEF TypeOK, FilesType, Running, Produces
<1>2. ASSUME NEW j \in Jobs, Start(j) PROVE TypeOK'
  <2>1. PICK q \in BuildReqs[j] :
          /\ pc[j] \notin Running
          /\ req' = [req EXCEPT ![j] = q]
          /\ pc' = [pc EXCEPT ![j] = IF Accepted(q) THEN "init" ELSE "refused"]
          /\ files' = IF Accepted(q) /\ q.work = Unset
                      THEN [files EXCEPT ![Place(j, q)] = NoFiles] ELSE files
          /\ UNCHANGED isos
    BY <1>2 DEF Start
  <2>2. FilesType'
    BY <2>1, PlaceType DEF FilesType, TypeOK, NoFiles
  <2> QED BY <2>1, <2>2 DEF TypeOK, FilesType, Running, Produces
<1>3. ASSUME NEW j \in Jobs, NEW step \in DOMAIN Produces, NEW dir \in Dirs,
             NEW content, NEW next \in Running, Write(j, step, dir, content, next)
      PROVE  TypeOK'
  <2>1. FilesType' /\ isos' = isos /\ pc[j] \in Running
    BY <1>3, Writing DEF FilesType, Running
  <2> QED BY <1>3, <2>1, <1>a DEF Write, TypeOK
<1>4. ASSUME NEW j \in Jobs, Progress(j) PROVE TypeOK'
  <2>0. pc[j] \in Running /\ pc[j] # "idle"
    BY <1>4 DEF Progress, BuildInit, BuildInitramfs, NoInit, AppendZfs, BuildUki,
                BuildESP, BuildISO, Write, Running, Produces
  <2>1. WorkDir(j) \in Dirs /\ InitDir(j) \in Dirs
    BY <2>0, Working
  <2>2. CASE BuildInit(j) \/ BuildInitramfs(j) \/ AppendZfs(j) \/ BuildUki(j) \/ BuildESP(j)
    BY <2>1, <2>2, <1>3 DEF BuildInit, BuildInitramfs, AppendZfs, BuildUki, BuildESP,
                            Running, Produces
  <2>3. CASE NoInit(j) \/ BuildISO(j)
    <3>1. FilesType'
      BY <2>0, <2>3, Cleaning DEF NoInit, BuildISO, FilesType, TypeOK
    <3>2. DOMAIN isos' = Outs
      BY <2>3 DEF NoInit, BuildISO, TypeOK
    <3> QED BY <2>0, <2>3, <3>1, <3>2, <1>a DEF NoInit, BuildISO
  <2> QED BY <1>4, <2>2, <2>3 DEF Progress
<1>5. ASSUME NEW j \in Jobs, Fail(j) PROVE TypeOK'
  <2>1. PICK left \in Interrupted(j) :
          /\ files' = CleanedUp(j, left[1])
          /\ isos' = left[2]
          /\ pc' = [pc EXCEPT ![j] = "failed"]
          /\ UNCHANGED req
    BY <1>5 DEF Fail
  <2>2. pc[j] \in Running /\ pc[j] # "idle"
    BY <1>5 DEF Fail, Running, Produces
  <2>3. DOMAIN left[1] = Dirs /\ (\A d \in Dirs : DOMAIN left[1][d] = Files)
        /\ DOMAIN left[2] = Outs
    BY <2>2, Stopping
  <2>4. FilesType'
    BY <2>1, <2>2, <2>3, Cleaning DEF FilesType
  <2> QED BY <2>1, <2>2, <2>3, <2>4, <1>a
<1>6. ASSUME NEW j \in Jobs, Kill(j) PROVE TypeOK'
  <2>1. PICK left \in Interrupted(j) :
          /\ files' = left[1]
          /\ isos' = left[2]
          /\ pc' = [pc EXCEPT ![j] = "killed"]
          /\ UNCHANGED req
    BY <1>6 DEF Kill
  <2>2. pc[j] \in Running
    BY <1>6 DEF Kill
  <2>3. FilesType' /\ DOMAIN isos' = Outs
    BY <2>1, <2>2, Stopping DEF FilesType
  <2> QED BY <2>1, <2>2, <2>3, <1>a
<1> QED BY <1>1, <1>2, <1>4, <1>5, <1>6 DEF Next

\* A process of `cloud-boot build` that is past its flag checks works on a
\* request they accept, and directories only ever hold the four files.
THEOREM Typing == Spec => []TypeOK
<1>1. Init => TypeOK
  BY DEF Init, TypeOK, NoFiles, Running, Produces
<1> QED BY <1>1, TypeStep, PTL DEF Spec

-----------------------------------------------------------------------------
(* Own directories.                                                        *)

Step(j) == Start(j) \/ Progress(j) \/ Fail(j) \/ Kill(j)

\* A process disturbs no other that has a directory of its own.
LEMMA Others ==
    ASSUME TypeOK, NEW i \in Jobs, NEW j \in Jobs, i # j, pc[j] # "idle", Step(i),
           OwnDirectories \/ req[j].work = Unset
    PROVE  /\ pc'[j] = pc[j] /\ req'[j] = req[j]
           /\ files'[WorkDir(j)] = files[WorkDir(j)]
<1>j. req[j] \in BuildReqs[j] /\ WorkDir(j) \in Dirs
  BY Working
<1>q. ASSUME NEW q \in BuildReqs[i] PROVE Place(i, q) # WorkDir(j)
  BY <1>j, Apart, NamesAssumption, RequestsAssumption DEF WorkDir, Place
<1>1. CASE Start(i)
  <2>1. PICK q \in BuildReqs[i] :
          /\ req' = [req EXCEPT ![i] = q]
          /\ pc' = [pc EXCEPT ![i] = IF Accepted(q) THEN "init" ELSE "refused"]
          /\ files' = IF Accepted(q) /\ q.work = Unset
                      THEN [files EXCEPT ![Place(i, q)] = NoFiles] ELSE files
    BY <1>1 DEF Start
  <2> QED BY <1>j, <1>q, <2>1 DEF TypeOK
<1>a. ASSUME pc[i] # "idle"
      PROVE  /\ WorkDir(i) # WorkDir(j) /\ WorkDir(i) \in Dirs
             /\ InitDir(i) # WorkDir(j) /\ InitDir(i) \in Dirs
  <2>1. req[i] \in BuildReqs[i] /\ WorkDir(i) \in Dirs /\ InitDir(i) \in Dirs
    BY <1>a, Working
  <2>2. WorkDir(i) # WorkDir(j)
    BY <1>q, <2>1 DEF WorkDir
  <2>3. InitDir(i) # WorkDir(j)
    BY <2>2 DEF InitDir, WorkDir, Place
  <2> QED BY <2>1, <2>2, <2>3
<1>2. CASE Progress(i)
  <2>0. pc[i] # "idle"
    BY <1>2 DEF Progress, BuildInit, BuildInitramfs, NoInit, AppendZfs, BuildUki,
                BuildESP, BuildISO, Write
  <2>1. CASE NoInit(i) \/ BuildISO(i)
    <3>1. files' = CleanedUp(i, files) /\ req' = req
      BY <2>1 DEF NoInit, BuildISO
    <3>2. files'[WorkDir(j)] = files[WorkDir(j)]
      BY <1>j, <1>a, <2>0, <3>1, Cleaning DEF TypeOK
    <3> QED BY <2>1, <3>1, <3>2 DEF NoInit, BuildISO, TypeOK
  <2>2. ASSUME NEW step \in DOMAIN Produces, NEW content, NEW next,
               NEW dir \in {WorkDir(i), InitDir(i)}, Write(i, step, dir, content, next)
        PROVE  /\ pc'[j] = pc[j] /\ req'[j] = req[j]
               /\ files'[WorkDir(j)] = files[WorkDir(j)]
    BY <1>j, <1>a, <2>0, <2>2, Writing DEF TypeOK
  <2>3. CASE BuildInit(i) \/ BuildInitramfs(i) \/ AppendZfs(i) \/ BuildUki(i) \/ BuildESP(i)
    BY <1>a, <2>0, <2>2, <2>3 DEF BuildInit, BuildInitramfs, AppendZfs, BuildUki,
       BuildESP, Produces
  <2> QED BY <1>2, <2>1, <2>3 DEF Progress
<1>3. CASE Fail(i)
  <2>1. PICK left \in Interrupted(i) :
          /\ files' = CleanedUp(i, left[1])
          /\ pc' = [pc EXCEPT ![i] = "failed"]
          /\ UNCHANGED req
    BY <1>3 DEF Fail
  <2>2. pc[i] \in Running /\ pc[i] # "idle"
    BY <1>3 DEF Fail, Running, Produces
  <2>3. DOMAIN left[1] = Dirs /\ (\A d \in Dirs : DOMAIN left[1][d] = Files)
        /\ left[1][WorkDir(j)] = files[WorkDir(j)]
    BY <1>j, <1>a, <2>2, Stopping
  <2>4. files'[WorkDir(j)] = files[WorkDir(j)]
    BY <1>j, <1>a, <2>1, <2>2, <2>3, Cleaning
  <2> QED BY <2>1, <2>4 DEF TypeOK
<1>4. CASE Kill(i)
  <2>1. PICK left \in Interrupted(i) :
          /\ files' = left[1]
          /\ pc' = [pc EXCEPT ![i] = "killed"]
          /\ UNCHANGED req
    BY <1>4 DEF Kill
  <2>2. pc[i] \in Running /\ pc[i] # "idle"
    BY <1>4 DEF Kill, Running, Produces
  <2>3. left[1][WorkDir(j)] = files[WorkDir(j)]
    BY <1>j, <1>a, <2>2, Stopping
  <2> QED BY <2>1, <2>3 DEF TypeOK
<1> QED BY <1>1, <1>2, <1>3, <1>4 DEF Step

\* A process keeps to its course, and its success is a faithful ISO.
LEMMA Onward ==
    ASSUME TypeOK, OwnDirectories, NEW j \in Jobs, Course(j), Kept(j), Step(j)
    PROVE  /\ Course(j)' /\ Kept(j)'
           /\ pc[j] # "ok" /\ pc'[j] = "ok" => isos'[req[j].out] = WantedImage(req[j])
<1> DEFINE wd == WorkDir(j)
           q == req[j]
<1>a. ASSUME pc'[j] \notin Running \cup {"ok"}
      PROVE  Course(j)' /\ Kept(j)' /\ pc'[j] # "ok"
  BY <1>a DEF Course, Kept, Running, Produces
<1>b. ASSUME pc[j] # "idle"
      PROVE  /\ q \in BuildReqs[j] /\ wd \in Dirs /\ InitDir(j) = wd
             /\ q.planFile # Empty /\ q.cosignKey # Empty /\ q.out \in Outs /\ ~q.relative
             /\ Archive(q, q.arch) = [init |-> q.arch, plan |-> q.planFile,
                                      key |-> q.cosignKey]
  <2>1. q \in BuildReqs[j] /\ wd \in Dirs /\ InitDir(j) = wd
    BY <1>b, Working
  <2>2. q.planFile # Empty /\ q.cosignKey # Empty /\ q.out \in Outs /\ ~q.relative
    BY <2>1, RequestsAssumption DEF OwnDirectories
  <2> QED BY <2>1, <2>2 DEF Archive, Embedded
<1>1. CASE Start(j)
  <2>1. pc'[j] \in {"init", "refused"}
    BY <1>1 DEF Start, TypeOK
  <2> QED BY <2>1 DEF Course, Kept, Running, Produces
<1>2. CASE BuildInit(j)
  <2>1. Write(j, "init", wd, q.arch, "pack") /\ wd \in Dirs
    BY <1>2, <1>b DEF BuildInit, Write
  <2>2. files'[wd]["init"] = q.arch /\ pc'[j] = "pack" /\ req' = req
    BY <2>1, Writing DEF Produces, TypeOK
  <2> QED BY <2>2 DEF Course, Kept, WorkDir, Place
<1>3. CASE BuildInitramfs(j)
  <2>1. pc[j] = "pack" /\ files[wd]["init"] = q.arch
    BY <1>3, <1>b DEF BuildInitramfs, Course, Running, Produces
  <2>2. Write(j, "pack", wd, <<Archive(q, q.arch)>>,
              IF q.zfs = Unset THEN "uki" ELSE "append") /\ wd \in Dirs
    BY <1>3, <1>b, <2>1 DEF BuildInitramfs
  <2>3. /\ files'[wd]["init"] = q.arch
        /\ files'[wd]["initramfs"] = <<Archive(q, q.arch)>>
        /\ pc'[j] = (IF q.zfs = Unset THEN "uki" ELSE "append") /\ req' = req
    BY <2>1, <2>2, Writing DEF Produces, TypeOK, Files
  <2>4. q.zfs = Unset => <<Archive(q, q.arch)>> = WantedInitrd(q)
    BY <1>b, <2>1 DEF WantedInitrd
  <2> QED BY <2>3, <2>4 DEF Course, Kept, WorkDir, Place
<1>4. CASE NoInit(j)
  <2>1. pc'[j] = "failed"
    BY <1>4 DEF NoInit, TypeOK
  <2> QED BY <2>1, <1>a DEF Running, Produces
<1>5. CASE AppendZfs(j)
  <2>1. /\ pc[j] = "append" /\ files[wd]["init"] = q.arch /\ q.zfs # Unset
        /\ files[wd]["initramfs"] = <<Archive(q, q.arch)>>
    BY <1>5, <1>b DEF AppendZfs, Write, Course, Running, Produces
  <2>2. files[wd]["initramfs"] # Torn
    BY <1>b, <2>1, TornAssumption
  <2>3. Write(j, "append", wd, WantedInitrd(q), "uki") /\ wd \in Dirs
    BY <1>5, <1>b, <2>1, <2>2 DEF AppendZfs, WantedInitrd
  <2>4. /\ files'[wd]["init"] = q.arch /\ files'[wd]["initramfs"] = WantedInitrd(q)
        /\ pc'[j] = "uki" /\ req' = req
    BY <2>1, <2>3, Writing DEF Produces, TypeOK, Files
  <2> QED BY <2>4 DEF Course, Kept, WorkDir, Place
<1>6. CASE BuildUki(j)
  <2>1. /\ pc[j] = "uki" /\ files[wd]["init"] = q.arch
        /\ files[wd]["initramfs"] = WantedInitrd(q)
    BY <1>6, <1>b DEF BuildUki, Write, Course, Running, Produces
  <2>2. Write(j, "uki", wd, WantedImage(q), "esp") /\ wd \in Dirs
    BY <1>6, <1>b, <2>1 DEF BuildUki, WantedImage
  <2>3. /\ files'[wd]["init"] = q.arch /\ files'[wd]["initramfs"] = WantedInitrd(q)
        /\ files'[wd]["uki"] = WantedImage(q) /\ pc'[j] = "esp" /\ req' = req
    BY <2>1, <2>2, Writing DEF Produces, TypeOK, Files
  <2> QED BY <2>3 DEF Course, Kept, WorkDir, Place
<1>7. CASE BuildESP(j)
  <2>1. /\ pc[j] = "esp" /\ files[wd]["init"] = q.arch
        /\ files[wd]["initramfs"] = WantedInitrd(q) /\ files[wd]["uki"] = WantedImage(q)
    BY <1>7, <1>b DEF BuildESP, Write, Course, Running, Produces
  <2>2. Write(j, "esp", wd, WantedImage(q), "iso") /\ wd \in Dirs
    BY <1>7, <1>b, <2>1 DEF BuildESP
  <2>3. /\ files'[wd]["init"] = q.arch /\ files'[wd]["initramfs"] = WantedInitrd(q)
        /\ files'[wd]["esp"] = WantedImage(q) /\ pc'[j] = "iso" /\ req' = req
    BY <2>1, <2>2, Writing DEF Produces, TypeOK, Files
  <2> QED BY <2>3 DEF Course, Kept, WorkDir, Place
<1>8. CASE BuildISO(j)
  <2>1. /\ pc[j] = "iso" /\ files[wd]["init"] = q.arch
        /\ files[wd]["initramfs"] = WantedInitrd(q) /\ files[wd]["esp"] = WantedImage(q)
    BY <1>8, <1>b DEF BuildISO, Course, Running, Produces
  <2>2. isos'[q.out] = WantedImage(q) /\ pc'[j] = "ok" /\ req' = req
    BY <1>8, <1>b, <2>1 DEF BuildISO, TypeOK
  <2>3. q.work # Unset \/ q.keep => files' = files
    BY <1>8, <1>b, <2>1, Cleaning DEF BuildISO, TypeOK
  <2> QED BY <2>1, <2>2, <2>3 DEF Course, Kept, WorkDir, Place, Running, Produces
<1>9. CASE Fail(j) \/ Kill(j)
  <2>1. pc'[j] \in {"failed", "killed"}
    BY <1>9 DEF Fail, Kill, TypeOK
  <2> QED BY <2>1, <1>a DEF Running, Produces
<1> QED BY <1>1, <1>2, <1>3, <1>4, <1>5, <1>6, <1>7, <1>8, <1>9 DEF Step, Progress

\* The inductive invariant is kept.
LEMMA OwnStep ==
    ASSUME OwnDirectories
    PROVE  /\ TypeOK /\ OnCourse /\ WorkKept /\ [Next]_vars => (OnCourse /\ WorkKept)'
           /\ TypeOK /\ OnCourse /\ WorkKept /\ [Next]_vars =>
                [\A j \in Jobs : pc[j] # "ok" /\ pc'[j] = "ok" =>
                    isos'[req[j].out] = WantedImage(req[j])]_vars
<1> SUFFICES ASSUME TypeOK, OnCourse, WorkKept, [Next]_vars, NEW j \in Jobs
             PROVE  /\ Course(j)' /\ Kept(j)'
                    /\ pc[j] # "ok" /\ pc'[j] = "ok" =>
                          isos'[req[j].out] = WantedImage(req[j])
  BY DEF OnCourse, WorkKept
<1>0. Course(j) /\ Kept(j)
  BY DEF OnCourse, WorkKept
<1>1. CASE UNCHANGED vars
  BY <1>0, <1>1 DEF vars, Course, Kept, WorkDir, Place
<1>2. CASE Step(j)
  BY <1>0, <1>2, Onward
<1>3. ASSUME NEW i \in Jobs, i # j, Step(i)
      PROVE  /\ Course(j)' /\ Kept(j)'
             /\ pc[j] # "ok" /\ pc'[j] = "ok" =>
                   isos'[req[j].out] = WantedImage(req[j])
  <2>1. CASE pc[j] = "idle"
    <3>1. pc'[j] = "idle"
      BY <1>3, <2>1 DEF Step, Start, Progress, BuildInit, BuildInitramfs, NoInit,
         AppendZfs, BuildUki, BuildESP, BuildISO, Write, Fail, Kill, TypeOK
    <3> QED BY <3>1 DEF Course, Kept, Running, Produces
  <2>2. CASE pc[j] # "idle"
    <3>1. /\ pc'[j] = pc[j] /\ req'[j] = req[j]
          /\ files'[WorkDir(j)] = files[WorkDir(j)]
      BY <1>3, <2>2, Others
    <3> QED BY <1>0, <3>1 DEF Course, Kept, WorkDir, Place
  <2> QED BY <2>1, <2>2
<1> QED BY <1>1, <1>2, <1>3 DEF Next, Step

\* They hold at first: every process is idle.
LEMMA OwnInit == Init => OnCourse /\ WorkKept
BY DEF Init, OnCourse, WorkKept, Course, Kept, Running, Produces

\* With directories of their own, builds find in them what their earlier steps
\* wrote, whatever earlier builds left there.
THEOREM StaysOnCourse == ASSUME OwnDirectories PROVE Spec => []OnCourse
  BY OwnInit, OwnStep, Typing, PTL DEF Spec

\* However often `cloud-boot build` was interrupted in a directory before, and
\* whatever it built there, a build that succeeds has made the ISO its flags
\* ask for, provided no other process uses the directory, --work is absolute
\* and the plan and key files are not empty.
THEOREM FaithfulIso == ASSUME OwnDirectories PROVE Spec => Built
BY OwnInit, OwnStep, Typing, PTL DEF Spec, Built

\* Under the same conditions what --work and --keep leave is what the ISO was
\* made from.
THEOREM FaithfulWork == ASSUME OwnDirectories PROVE Spec => []WorkKept
BY OwnInit, OwnStep, Typing, PTL DEF Spec
-----------------------------------------------------------------------------
(* Temporary directories.                                                  *)

\* Cleaning up is the last thing that happens to a temporary directory.
LEMMA ScratchStep == TypeOK /\ ScratchGone /\ [Next]_vars => ScratchGone'
<1> SUFFICES ASSUME TypeOK, ScratchGone, [Next]_vars, NEW j \in Jobs,
                    pc'[j] \in {"ok", "failed"}, req'[j].work = Unset, ~req'[j].keep
             PROVE  files'[WorkDir(j)'] = NoFiles
  BY DEF ScratchGone
<1>a. ASSUME pc'[j] = pc[j], req'[j] = req[j], files'[WorkDir(j)] = files[WorkDir(j)]
      PROVE  files'[WorkDir(j)'] = NoFiles
  BY <1>a DEF ScratchGone, WorkDir, Place
<1>b. ASSUME pc[j] # "idle", req' = req, NEW fs, DOMAIN fs = Dirs,
             \A d \in Dirs : DOMAIN fs[d] = Files, files' = CleanedUp(j, fs)
      PROVE  files'[WorkDir(j)'] = NoFiles
  <2>1. CleanedUp(j, fs)[WorkDir(j)] = NoFiles
    BY <1>b, Cleaning
  <2> QED BY <1>b, <2>1 DEF WorkDir, Place
<1>1. CASE UNCHANGED vars
  BY <1>1, <1>a DEF vars
<1>2. CASE NoInit(j) \/ BuildISO(j)
  BY <1>2, <1>b DEF NoInit, BuildISO, TypeOK
<1>3. CASE Fail(j)
  <2>1. PICK left \in Interrupted(j) :
          files' = CleanedUp(j, left[1]) /\ UNCHANGED req /\ pc[j] \in Running
    BY <1>3 DEF Fail
  <2> QED BY <2>1, <1>b, Stopping DEF Running, Produces
<1>4. CASE Start(j) \/ Kill(j)
  BY <1>4 DEF Start, Kill, TypeOK
<1>5. CASE BuildInit(j) \/ BuildInitramfs(j) \/ AppendZfs(j) \/ BuildUki(j) \/ BuildESP(j)
  BY <1>5 DEF BuildInit, BuildInitramfs, AppendZfs, BuildUki, BuildESP, Write, TypeOK
<1>6. ASSUME NEW i \in Jobs, i # j, Step(i) PROVE files'[WorkDir(j)'] = NoFiles
  <2>1. pc'[j] = pc[j] /\ req'[j] = req[j]
    BY <1>6 DEF Step, Start, Progress, BuildInit, BuildInitramfs, NoInit, AppendZfs,
       BuildUki, BuildESP, BuildISO, Write, Fail, Kill, TypeOK
  <2> QED BY <1>6, <1>a, <2>1, Others
<1> QED BY <1>1, <1>2, <1>3, <1>4, <1>5, <1>6 DEF Next, Step, Progress

\* Without --work and --keep, a build that ends by itself, on whatever path,
\* leaves no file behind, for any mix of processes and requests.
THEOREM NoScratch == Spec => []ScratchGone
<1>1. Init => ScratchGone
  BY DEF Init, ScratchGone
<1> QED BY <1>1, ScratchStep, Typing, PTL DEF Spec
=============================================================================
