-------------------------- MODULE FetchCacheProofs --------------------------
(***************************************************************************)
(* What the cache directory of a push, fetch or label task holds between   *)
(* its steps, for any number of releases and whichever steps are cut short. *)
(***************************************************************************)
EXTENDS FetchCache, SequenceTheorems, TLAPS

\* The files that a task may find torn where it starts.
Doubtful == [t \in AllTasks |->
    CASE t = "push:alpine" -> {"apkovl"}
      [] t = "push:debian" -> {}
      [] t = "push:debian-live" -> {"iso"} \cup Images
      [] t = "fetch:ubuntu:cloud" -> {"qcow2"}
      [] t = "label:debian:cloud" -> {}]

\* The files that each of its steps relies on.
Trusted == [t \in AllTasks |->
    CASE t = "push:alpine" ->
            << {}, {"kernel"}, {"kernel", "initrd"}, {"kernel", "initrd", "modloop"},
               {"kernel", "initrd", "modloop", "apkovl"} >>
      [] t = "push:debian" -> << {}, {"kernel"}, {"kernel", "initrd"} >>
      [] t = "push:debian-live" -> << {}, {}, {"iso"} \cup Images >>
      [] t = "fetch:ubuntu:cloud" -> << {}, {}, {"qcow2"}, {"raw"}, {"raw"} >>
      [] t = "label:debian:cloud" -> << {}, {"qcow2"}, {"qcow2", "raw"}, {"qcow2", "raw"} >>]

FileState == [release : Nat, cut : SUBSET (AllTasks \X Writes), label : BOOLEAN]

InPlace ==
    /\ task \in AllTasks
    /\ at \in 0 .. Len(Recipe[task])
    /\ busy \in BOOLEAN /\ (busy => Running /\ Now.do \in Writes)
    /\ files \in [Files -> FileState]
    /\ upstream \in Nat \ {0}

\* No harmless step was cut short while it wrote the file or what it is made from.
Clear(f) == files[f].cut \cap Harmless = {}

\* Nothing that a harmless step tore is taken as it is.
Sound ==
    /\ Running => \A f \in Trusted[task][at] : Present(f) /\ Clear(f)
    /\ \A f \in Files \ Doubtful[task] : Clear(f)
    /\ busy => \A f \in Now.from \cup Now.to : Present(f)
    /\ TornByCachedOnly

\* The image with the label is of the release of the download, unless that one
\* is newer.
LabelDated == task = "label:debian:cloud" =>
    /\ Present("qcow2") /\ Present("raw") /\ ~newer =>
          files["raw"].release = files["qcow2"].release
    /\ at = 1 /\ busy => newer /\ Present("qcow2")
    /\ at >= 2 => Present("qcow2")
    /\ (at = 2 /\ busy) \/ at >= 3 =>
          ~newer /\ files["raw"].release = files["qcow2"].release
    /\ at = 4 => files["raw"].label
    /\ "raw" \in DOMAIN used => used["raw"].label
    /\ "raw" \in DOMAIN used => used["raw"].release = used["qcow2"].release

-----------------------------------------------------------------------------
(* The recipes.                                                            *)

\* What each step of a task relies on and what it leaves.
Sane(t, n) == LET s == Recipe[t][n]
                  now == Trusted[t][n]
                  next == Trusted[t][n + 1]
              IN
    /\ s.from \subseteq Files /\ s.to \subseteq Files /\ now \subseteq Files
    /\ s.do # "use" => n + 1 <= Len(Recipe[t])
    /\ s.do \in Writes => now \cap s.to = {} /\ next \subseteq now \cup s.from \cup s.to
    /\ s.do \in Writes \ {"extract"} => s.from \subseteq now
    /\ s.do \in {"fetch", "refresh"} => next \subseteq now \cup (s.to \ Doubtful[t])
    /\ s.do = "remove" => next \subseteq now \ s.to
    /\ s.do = "stamp" => next \subseteq now /\ s.to \subseteq now
    /\ s.do = "unless" => next = {} /\ s.to \cap Doubtful[t] = {}
    /\ s.do = "use" => s.from \subseteq now
    /\ <<t, s.do>> \in Harmless => s.to \subseteq Doubtful[t]

\* push:alpine hands on what its first four steps write.
LEMMA SaneAlpine == Len(Recipe["push:alpine"]) = 5 /\ \A n \in 1 .. 5 : Sane("push:alpine", n)
<1> DEFINE t == "push:alpine"
<1>1. Recipe[t] = << Step("fetch", {}, {"kernel"}), Step("fetch", {}, {"initrd"}),
                     Step("fetch", {}, {"modloop"}), Step("make", {}, {"apkovl"}),
                     Step("use", {"kernel", "initrd", "modloop", "apkovl"}, {}) >>
  BY DEF Recipe, AllTasks, Fetch
<1>2. Trusted[t] = << {}, {"kernel"}, {"kernel", "initrd"}, {"kernel", "initrd", "modloop"},
                      {"kernel", "initrd", "modloop", "apkovl"} >>
      /\ Doubtful[t] = {"apkovl"}
  BY DEF Trusted, Doubtful, AllTasks
<1>3. \A do \in {"fetch", "use"} : <<t, do>> \notin Harmless
  BY DEF Harmless
<1>4. Len(Recipe[t]) = 5
  BY <1>1
<1>5. Sane(t, 1)
  BY <1>1, <1>2, <1>3, <1>4 DEF Sane, Step, Writes, Files
<1>6. Sane(t, 2)
  BY <1>1, <1>2, <1>3, <1>4 DEF Sane, Step, Writes, Files
<1>7. Sane(t, 3)
  BY <1>1, <1>2, <1>3, <1>4 DEF Sane, Step, Writes, Files
<1>8. Sane(t, 4)
  BY <1>1, <1>2, <1>3, <1>4 DEF Sane, Step, Writes, Files
<1>9. Sane(t, 5)
  BY <1>1, <1>2, <1>3, <1>4 DEF Sane, Step, Writes, Files
<1> QED BY <1>4, <1>5, <1>6, <1>7, <1>8, <1>9

\* push:debian hands on its two downloads.
LEMMA SaneDebian == Len(Recipe["push:debian"]) = 3 /\ \A n \in 1 .. 3 : Sane("push:debian", n)
<1> DEFINE t == "push:debian"
<1>1. Recipe[t] = << Step("fetch", {}, {"kernel"}), Step("fetch", {}, {"initrd"}),
                     Step("use", {"kernel", "initrd"}, {}) >>
  BY DEF Recipe, AllTasks, Fetch, Extract
<1>2. Trusted[t] = << {}, {"kernel"}, {"kernel", "initrd"} >>
      /\ Doubtful[t] = {}
  BY DEF Trusted, Doubtful, AllTasks, Images
<1>3. \A do \in {"fetch", "use"} : <<t, do>> \notin Harmless
  BY DEF Harmless, Writes
<1>4. Len(Recipe[t]) = 3
  BY <1>1
<1>5. Sane(t, 1)
  BY <1>1, <1>2, <1>3, <1>4 DEF Sane, Step, Writes, Files, Images
<1>6. Sane(t, 2)
  BY <1>1, <1>2, <1>3, <1>4 DEF Sane, Step, Writes, Files, Images
<1>7. Sane(t, 3)
  BY <1>1, <1>2, <1>3, <1>4 DEF Sane, Step, Writes, Files, Images
<1> QED BY <1>4, <1>5, <1>6, <1>7

\* push:debian-live may find a torn ISO, and extracts only from a whole one.
LEMMA SaneDebianLive == Len(Recipe["push:debian-live"]) = 3 /\ \A n \in 1 .. 3 : Sane("push:debian-live", n)
<1> DEFINE t == "push:debian-live"
<1>1. Recipe[t] = << Step("fetch", {}, {"iso"}), Step("extract", {"iso"}, Images),
                     Step("use", {"iso"} \cup Images, {}) >>
  BY DEF Recipe, AllTasks, Fetch, Extract
<1>2. Trusted[t] = << {}, {}, {"iso"} \cup Images >>
      /\ Doubtful[t] = {"iso"} \cup Images
  BY DEF Trusted, Doubtful, AllTasks, Images
<1>3. \A do \in {"use"} : <<t, do>> \notin Harmless
  BY DEF Harmless, Writes
<1>4. Len(Recipe[t]) = 3
  BY <1>1
<1>5. Sane(t, 1)
  BY <1>1, <1>2, <1>3, <1>4 DEF Sane, Step, Writes, Files, Images
<1>6. Sane(t, 2)
  BY <1>1, <1>2, <1>3, <1>4 DEF Sane, Step, Writes, Files, Images
<1>7. Sane(t, 3)
  BY <1>1, <1>2, <1>3, <1>4 DEF Sane, Step, Writes, Files, Images
<1> QED BY <1>4, <1>5, <1>6, <1>7

\* fetch:ubuntu:cloud removes its download once that is converted.
LEMMA SaneUbuntu == Len(Recipe["fetch:ubuntu:cloud"]) = 5 /\ \A n \in 1 .. 5 : Sane("fetch:ubuntu:cloud", n)
<1> DEFINE t == "fetch:ubuntu:cloud"
<1>1. Recipe[t] = << Step("unless", {}, {"raw"}), Step("download", {}, {"qcow2"}),
                     Step("convert", {"qcow2"}, {"raw"}), Step("remove", {}, {"qcow2"}),
                     Step("use", {"raw"}, {}) >>
  BY DEF Recipe, AllTasks, Fetch, Extract
<1>2. Trusted[t] = << {}, {}, {"qcow2"}, {"raw"}, {"raw"} >>
      /\ Doubtful[t] = {"qcow2"}
  BY DEF Trusted, Doubtful, AllTasks, Images
<1>3. \A do \in {"unless", "convert", "remove", "use"} : <<t, do>> \notin Harmless
  BY DEF Harmless, Writes
<1>4. Len(Recipe[t]) = 5
  BY <1>1
<1>5. Sane(t, 1)
  BY <1>1, <1>2, <1>3, <1>4 DEF Sane, Step, Writes, Files, Images
<1>6. Sane(t, 2)
  BY <1>1, <1>2, <1>3, <1>4 DEF Sane, Step, Writes, Files, Images
<1>7. Sane(t, 3)
  BY <1>1, <1>2, <1>3, <1>4 DEF Sane, Step, Writes, Files, Images
<1>8. Sane(t, 4)
  BY <1>1, <1>2, <1>3, <1>4 DEF Sane, Step, Writes, Files, Images
<1>9. Sane(t, 5)
  BY <1>1, <1>2, <1>3, <1>4 DEF Sane, Step, Writes, Files, Images
<1> QED BY <1>4, <1>5, <1>6, <1>7, <1>8, <1>9

\* label:debian:cloud keeps its download next to the image it labels.
LEMMA SaneLabel == Len(Recipe["label:debian:cloud"]) = 4 /\ \A n \in 1 .. 4 : Sane("label:debian:cloud", n)
<1> DEFINE t == "label:debian:cloud"
<1>1. Recipe[t] = << Step("fetch", {}, {"qcow2"}), Step("refresh", {"qcow2"}, {"raw"}),
                     Step("stamp", {}, {"raw"}), Step("use", {"qcow2", "raw"}, {}) >>
  BY DEF Recipe, AllTasks, Fetch, Extract
<1>2. Trusted[t] = << {}, {"qcow2"}, {"qcow2", "raw"}, {"qcow2", "raw"} >>
      /\ Doubtful[t] = {}
  BY DEF Trusted, Doubtful, AllTasks, Images
<1>3. \A do \in {"fetch", "refresh", "stamp", "use"} : <<t, do>> \notin Harmless
  BY DEF Harmless, Writes
<1>4. Len(Recipe[t]) = 4
  BY <1>1
<1>5. Sane(t, 1)
  BY <1>1, <1>2, <1>3, <1>4 DEF Sane, Step, Writes, Files, Images
<1>6. Sane(t, 2)
  BY <1>1, <1>2, <1>3, <1>4 DEF Sane, Step, Writes, Files, Images
<1>7. Sane(t, 3)
  BY <1>1, <1>2, <1>3, <1>4 DEF Sane, Step, Writes, Files, Images
<1>8. Sane(t, 4)
  BY <1>1, <1>2, <1>3, <1>4 DEF Sane, Step, Writes, Files, Images
<1> QED BY <1>4, <1>5, <1>6, <1>7, <1>8

\* So it is in every recipe.
LEMMA SaneSteps ==
    ASSUME NEW t \in AllTasks, NEW n \in 1 .. Len(Recipe[t])
    PROVE  Sane(t, n)
<1>1. CASE t = "push:alpine"
  BY <1>1, SaneAlpine
<1>2. CASE t = "push:debian"
  BY <1>2, SaneDebian
<1>3. CASE t = "push:debian-live"
  BY <1>3, SaneDebianLive
<1>4. CASE t = "fetch:ubuntu:cloud"
  BY <1>4, SaneUbuntu
<1>5. CASE t = "label:debian:cloud"
  BY <1>5, SaneLabel
<1> QED BY <1>1, <1>2, <1>3, <1>4, <1>5 DEF AllTasks

\* A task begins with nothing it relies on.
LEMMA FirstStep ==
    ASSUME NEW t \in AllTasks
    PROVE  Trusted[t][1] = {} /\ 1 \in 1 .. Len(Recipe[t])
<1>1. CASE t = "push:alpine"
  BY <1>1, SaneAlpine DEF Trusted, AllTasks
<1>2. CASE t = "push:debian"
  BY <1>2, SaneDebian DEF Trusted, AllTasks
<1>3. CASE t = "push:debian-live"
  BY <1>3, SaneDebianLive DEF Trusted, AllTasks
<1>4. CASE t = "fetch:ubuntu:cloud"
  BY <1>4, SaneUbuntu DEF Trusted, AllTasks
<1>5. CASE t = "label:debian:cloud"
  BY <1>5, SaneLabel DEF Trusted, AllTasks
<1> QED BY <1>1, <1>2, <1>3, <1>4, <1>5 DEF AllTasks


-----------------------------------------------------------------------------
(* Where a task is.                                                        *)

\* Where a task is while it runs.
LEMMA AtStep ==
    ASSUME InPlace, Running
    PROVE  task \in AllTasks /\ at \in 1 .. Len(Recipe[task]) /\ Sane(task, at)
<1>1. task \in AllTasks /\ at \in 1 .. Len(Recipe[task])
  BY DEF InPlace, Running
<1> QED BY <1>1, SaneSteps

\* What a step writes has a release.
LEMMA OriginTypes ==
    ASSUME InPlace, Running, \A f \in Now.from : Present(f)
    PROVE  Origin(Now) \in Nat \ {0}
<1>1. Now.from \subseteq Files
  BY AtStep DEF Sane, Now
<1>2. CASE Now.from = {}
  BY <1>2 DEF Origin, InPlace
<1>3. CASE Now.from # {}
  <2>1. (CHOOSE g \in Now.from : TRUE) \in Now.from
    BY <1>3
  <2> QED BY <1>1, <1>3, <2>1 DEF Origin, InPlace, FileState, Present
<1> QED BY <1>2, <1>3

\* A task that goes on has a next step.
LEMMA NotLast ==
    ASSUME InPlace, Running, Now.do # "use"
    PROVE  at + 1 \in 0 .. Len(Recipe[task])
<1>1. at \in 1 .. Len(Recipe[task]) /\ at + 1 <= Len(Recipe[task])
  BY AtStep DEF Sane, Now
<1> QED BY <1>1

\* What is cut short does not matter to where a task is.
LEMMA InPlaceStep == InPlace /\ [Next]_vars => InPlace'
<1> SUFFICES ASSUME InPlace, [Next]_vars PROVE InPlace'
  OBVIOUS
<1>1. None \in FileState /\ 0 \in 0 .. Len(Recipe[task])
  <2>1. Len(Recipe[task]) \in Nat
    BY FirstStep DEF InPlace
  <2> QED BY <2>1 DEF None, FileState
<1>2. ASSUME at' \in 0 .. Len(Recipe[task]), busy' = FALSE, UNCHANGED <<task, upstream>>,
             files' \in [Files -> FileState]
      PROVE  InPlace'
  BY <1>2 DEF InPlace
<1>3. ASSUME NEW result, Done(result), UNCHANGED <<task, upstream, files>> PROVE InPlace'
  BY <1>1, <1>2, <1>3 DEF Done, InPlace
<1>4. CASE UNCHANGED vars
  BY <1>4 DEF vars, InPlace, Now, Running
<1>5. CASE Begin
  <2>1. 1 \in 0 .. Len(Recipe[task])
    BY FirstStep DEF InPlace
  <2> QED BY <1>2, <1>5, <2>1 DEF Begin, InPlace
<1>6. CASE Skip
  <2>1. Running /\ Now.do # "use" /\ ~busy
    BY <1>6 DEF Skip, Cached
  <2> QED BY <1>2, <1>6, <2>1, NotLast DEF Skip, InPlace
<1>7. CASE Unless
  <2>1. Running /\ Now.do # "use" /\ ~busy /\ UNCHANGED <<upstream, files, task>>
    BY <1>7 DEF Unless, InPlace, Writes
  <2>2. CASE Done(Now.to)
    BY <1>3, <2>1, <2>2
  <2>3. CASE at' = at + 1 /\ UNCHANGED busy
    BY <1>2, <2>1, <2>3, NotLast DEF InPlace
  <2> QED BY <1>7, <2>2, <2>3 DEF Unless
<1>8. CASE StartWriting
  <2>1. /\ Running /\ Now.do \in Writes /\ busy' = TRUE /\ UNCHANGED <<upstream, task, at>>
        /\ \A f \in Now.from : Present(f)
        /\ files' = [f \in Files |->
                        IF f \in Now.to
                        THEN [release |-> Origin(Now), cut |-> {<<task, Now.do>>}, label |-> FALSE]
                        ELSE files[f]]
    BY <1>8 DEF StartWriting
  <2>2. [release |-> Origin(Now), cut |-> {<<task, Now.do>>}, label |-> FALSE] \in FileState
    BY <2>1, OriginTypes DEF FileState, InPlace
  <2>3. files' \in [Files -> FileState]
    BY <2>1, <2>2 DEF InPlace
  <2>4. Now' = Now /\ Running'
    BY <2>1 DEF Now, Running
  <2> QED BY <2>1, <2>3, <2>4 DEF InPlace
<1>9. CASE FinishWriting
  <2> DEFINE cuts == UNION {files[g].cut : g \in Now.from}
  <2>1. /\ Running /\ Now.do # "use" /\ busy' = FALSE /\ at' = at + 1
        /\ files' = [f \in Files |-> IF f \in Now.to THEN [files[f] EXCEPT !.cut = cuts]
                                     ELSE files[f]]
        /\ UNCHANGED <<upstream, task>>
    BY <1>9 DEF FinishWriting, InPlace, Writes
  <2>2. cuts \in SUBSET (AllTasks \X Writes)
    <3>1. Now.from \subseteq Files
      BY <2>1, AtStep DEF Sane, Now
    <3>2. \A g \in Now.from : files[g].cut \in SUBSET (AllTasks \X Writes)
      BY <3>1 DEF InPlace, FileState
    <3> HIDE DEF FileState
    <3> QED BY <3>2
  <2> HIDE DEF cuts
  <2>3. files' \in [Files -> FileState]
    BY <2>1, <2>2 DEF InPlace, FileState
  <2> QED BY <1>2, <2>1, <2>3, NotLast
<1>10. CASE Remove
  <2>1. /\ Running /\ Now.do # "use" /\ busy' = FALSE /\ at' = at + 1
        /\ files' = [f \in Files |-> IF f \in Now.to THEN None ELSE files[f]]
        /\ UNCHANGED <<upstream, task>>
    BY <1>10 DEF Remove, InPlace, Writes
  <2>2. files' \in [Files -> FileState]
    BY <1>1, <2>1 DEF InPlace
  <2> QED BY <1>2, <2>1, <2>2, NotLast
<1>11. CASE Stamp
  <2>1. /\ Running /\ Now.do # "use" /\ busy' = FALSE /\ at' = at + 1
        /\ files' = [f \in Files |-> IF f \in Now.to THEN [files[f] EXCEPT !.label = TRUE]
                                     ELSE files[f]]
        /\ UNCHANGED <<upstream, task>>
    BY <1>11 DEF Stamp, InPlace, Writes
  <2>2. files' \in [Files -> FileState]
    BY <2>1 DEF InPlace, FileState
  <2> QED BY <1>2, <2>1, <2>2, NotLast
<1>12. CASE Use \/ Fail \/ CutShort
  <2>1. UNCHANGED <<upstream, files, task>> /\ \E result : Done(result)
    BY <1>12 DEF Use, Fail, CutShort
  <2> QED BY <1>3, <2>1
<1>13. CASE Release
  BY <1>13 DEF Release, InPlace, Now, Running
<1>14. CASE Clean
  <2>1. PICK f \in Files : /\ ~Running /\ files' = [files EXCEPT ![f] = None]
                           /\ UNCHANGED <<upstream, task, at, busy>>
    BY <1>14 DEF Clean
  <2>2. files' \in [Files -> FileState]
    BY <1>1, <2>1 DEF InPlace
  <2> QED BY <1>2, <2>1, <2>2 DEF InPlace
<1> QED BY <1>4, <1>5, <1>6, <1>7, <1>8, <1>9, <1>10, <1>11, <1>12, <1>13, <1>14 DEF Next

\* The types and the place in the recipe hold at the start.
LEMMA InPlaceInit == Init => InPlace
<1> SUFFICES ASSUME Init PROVE InPlace
  OBVIOUS
<1>1. task \in AllTasks
  BY TasksAssumption DEF Init
<1>2. at \in 0 .. Len(Recipe[task])
  <2>1. Len(Recipe[task]) \in Nat
    BY <1>1, FirstStep
  <2> QED BY <2>1 DEF Init
<1>3. files \in [Files -> FileState]
  <2>1. None \in FileState
    BY DEF None, FileState
  <2> QED BY <2>1 DEF Init
<1>4. busy = FALSE
  BY DEF Init
<1>5. upstream \in Nat \ {0}
  BY DEF Init
<1>6. busy \in BOOLEAN /\ ~busy
  BY <1>4
<1> QED BY <1>1, <1>2, <1>3, <1>5, <1>6 DEF InPlace

-----------------------------------------------------------------------------
(* Nothing that a harmless step tore is handed on.                         *)

\* A task that ends.
LEMMA StopKeeps ==
    ASSUME InPlace, Sound, NEW result, Done(result), UNCHANGED <<files, task>>,
           result \subseteq Files, \A f \in result : Present(f) /\ Clear(f)
    PROVE  Sound'
<1>1. at' = 0 /\ busy' = FALSE /\ used' = [f \in result |-> files[f]]
  BY DEF Done
<1>2. ~Running' /\ ~busy'
  BY <1>1 DEF Running
<1>3. TornByCachedOnly'
  BY <1>1 DEF TornByCachedOnly, Present, Clear
<1> QED BY <1>2, <1>3 DEF Sound, Clear

\* A task that goes on with its next step.
LEMMA AdvanceKeeps ==
    ASSUME InPlace, Sound, Running, at' = at + 1, busy' = FALSE,
           UNCHANGED <<task, used>>,
           \A f \in Trusted[task][at + 1] : Present(f)' /\ Clear(f)',
           \A f \in Files \ Doubtful[task] : Clear(f)'
    PROVE  Sound'
  BY DEF Sound, TornByCachedOnly

\* At its start a task trusts no file yet.
LEMMA BeginKeeps == InPlace /\ Sound /\ Begin => Sound'
<1> SUFFICES ASSUME InPlace, Sound, Begin PROVE Sound'
  OBVIOUS
<1>1. /\ ~busy /\ at' = 1 /\ used' = [f \in {} |-> None]
      /\ UNCHANGED <<files, task, busy>>
  BY DEF Begin, InPlace
<1>2. Trusted[task][1] = {}
  BY FirstStep DEF InPlace
<1> QED BY <1>1, <1>2 DEF Sound, TornByCachedOnly, Clear

\* What is skipped is there, and clear unless it is doubtful.
LEMMA SkipKeeps == InPlace /\ Sound /\ Skip => Sound'
<1> SUFFICES ASSUME InPlace, Sound, Skip PROVE Sound'
  OBVIOUS
<1>1. /\ Running /\ busy' = FALSE /\ at' = at + 1
      /\ Now.do \in {"fetch", "refresh"} /\ \A f \in Now.to : Present(f)
      /\ UNCHANGED <<files, task, used>>
  BY DEF Skip, Cached, InPlace
<1>2. /\ Trusted[task][at + 1] \subseteq Trusted[task][at] \cup (Now.to \ Doubtful[task])
      /\ Now.to \subseteq Files
  BY <1>1, AtStep DEF Sane, Now
<1>3. \A f \in Trusted[task][at + 1] : Present(f) /\ Clear(f)
  BY <1>1, <1>2 DEF Sound
<1>4. \A f : (Present(f) <=> Present(f)') /\ (Clear(f) <=> Clear(f)')
  BY <1>1 DEF Present, Clear
<1>5. \A f \in Files \ Doubtful[task] : Clear(f)
  BY DEF Sound
<1> QED BY <1>1, <1>3, <1>4, <1>5, AdvanceKeeps

\* An image that is there already is handed on: it is not doubtful.
LEMMA UnlessKeeps == InPlace /\ Sound /\ Unless => Sound'
<1> SUFFICES ASSUME InPlace, Sound, Unless PROVE Sound'
  OBVIOUS
<1>1. Running /\ Now.do = "unless" /\ busy = FALSE /\ UNCHANGED <<files, task>>
  BY DEF Unless, InPlace, Writes
<1>2. Trusted[task][at + 1] = {} /\ Now.to \cap Doubtful[task] = {} /\ Now.to \subseteq Files
  BY <1>1, AtStep DEF Sane, Now
<1>3. CASE \A f \in Now.to : Present(f)
  <2>1. Done(Now.to)
    BY <1>3 DEF Unless
  <2>2. \A f \in Now.to : Clear(f)
    BY <1>2 DEF Sound
  <2> QED BY <1>1, <1>2, <1>3, <2>1, <2>2, StopKeeps
<1>4. CASE ~ \A f \in Now.to : Present(f)
  <2>1. at' = at + 1 /\ UNCHANGED <<busy, used>>
    BY <1>4 DEF Unless
  <2>2. \A f \in Files \ Doubtful[task] : Clear(f)'
    BY <1>1 DEF Sound, Clear
  <2> QED BY <1>1, <1>2, <2>1, <2>2, AdvanceKeeps
<1> QED BY <1>3, <1>4

\* A step that writes tears no file it relies on, and a harmless one only
\* doubtful files.
LEMMA StartWritingKeeps == InPlace /\ Sound /\ StartWriting => Sound'
<1> SUFFICES ASSUME InPlace, Sound, StartWriting PROVE Sound'
  OBVIOUS
<1> DEFINE torn == [release |-> Origin(Now), cut |-> {<<task, Now.do>>}, label |-> FALSE]
<1>1. /\ Running /\ Now.do \in Writes /\ busy' = TRUE
      /\ \A f \in Now.from : Present(f)
      /\ files' = [f \in Files |-> IF f \in Now.to THEN torn ELSE files[f]]
      /\ UNCHANGED <<task, at, used>>
  BY DEF StartWriting
<1>2. /\ Trusted[task][at] \cap Now.to = {} /\ Trusted[task][at] \subseteq Files
      /\ Now.to \subseteq Files
      /\ <<task, Now.do>> \in Harmless => Now.to \subseteq Doubtful[task]
  BY <1>1, AtStep DEF Sane, Now
<1>3. Now' = Now /\ Running'
  BY <1>1 DEF Now, Running
<1>4. torn.release # 0 /\ torn.cut = {<<task, Now.do>>}
  BY <1>1, OriginTypes
<1> HIDE DEF torn
<1>5. \A f \in Trusted[task][at] : Present(f)' /\ Clear(f)'
  BY <1>1, <1>2 DEF Sound, Present, Clear
<1>6. \A f \in Files \ Doubtful[task] : Clear(f)'
  <2> TAKE f \in Files \ Doubtful[task]
  <2>1. CASE f \in Now.to
    BY <1>1, <1>2, <1>4, <2>1 DEF Clear
  <2>2. CASE f \notin Now.to
    BY <1>1, <2>2 DEF Clear, Sound
  <2> QED BY <2>1, <2>2
<1>7. \A f \in Now.from \cup Now.to : Present(f)'
  <2>1. Now.from \subseteq Files
    BY <1>1, AtStep DEF Sane, Now
  <2> QED BY <1>1, <1>2, <1>4, <2>1 DEF Present
<1>8. TornByCachedOnly'
  BY <1>1 DEF Sound, TornByCachedOnly
<1> QED BY <1>1, <1>3, <1>5, <1>6, <1>7, <1>8 DEF Sound

\* What was written is clear, since what it was made from is.
LEMMA FinishWritingKeeps == InPlace /\ Sound /\ FinishWriting => Sound'
<1> SUFFICES ASSUME InPlace, Sound, FinishWriting PROVE Sound'
  OBVIOUS
<1> DEFINE cuts == UNION {files[g].cut : g \in Now.from}
<1>1. /\ Running /\ busy /\ Now.do \in Writes /\ busy' = FALSE /\ at' = at + 1
      /\ (Now.do = "extract" => \A g \in Now.from : files[g].cut = {})
      /\ files' = [f \in Files |-> IF f \in Now.to THEN [files[f] EXCEPT !.cut = cuts]
                                   ELSE files[f]]
      /\ UNCHANGED <<task, used>>
  BY DEF FinishWriting, InPlace
<1>2. /\ Trusted[task][at + 1] \subseteq Trusted[task][at] \cup Now.from \cup Now.to
      /\ Now.do # "extract" => Now.from \subseteq Trusted[task][at]
      /\ Now.from \subseteq Files /\ Now.to \subseteq Files
      /\ Trusted[task][at] \subseteq Files
  BY <1>1, AtStep DEF Sane, Now
<1>3. \A g \in Now.from : Clear(g)
  BY <1>1, <1>2 DEF Sound, Clear
<1>4. cuts \cap Harmless = {}
  BY <1>3 DEF Clear
<1> HIDE DEF cuts
<1>5. \A f \in Now.to : Present(f)' /\ Clear(f)'
  <2>1. \A f \in Now.to : Present(f)
    BY <1>1 DEF Sound
  <2>2. \A f \in Now.to : files'[f].release = files[f].release /\ files'[f].cut = cuts
    BY <1>1, <1>2 DEF InPlace, FileState
  <2> QED BY <1>4, <2>1, <2>2 DEF Present, Clear
<1>6. \A f \in Files \ Now.to : files'[f] = files[f]
  BY <1>1
<1>7. \A f \in Files \ Doubtful[task] : Clear(f)'
  <2> TAKE f \in Files \ Doubtful[task]
  <2>1. CASE f \in Now.to
    BY <1>5, <2>1
  <2>2. CASE f \notin Now.to
    BY <1>6, <2>2 DEF Clear, Sound
  <2> QED BY <2>1, <2>2
<1>8. \A f \in Trusted[task][at + 1] : Present(f)' /\ Clear(f)'
  <2>1. \A f \in Trusted[task][at] \ Now.to : Present(f)' /\ Clear(f)'
    BY <1>1, <1>2, <1>6 DEF Sound, Present, Clear
  <2>2. \A f \in Now.from \ Now.to : Present(f)' /\ Clear(f)'
    <3>1. \A f \in Now.from : Present(f)
      BY <1>1 DEF Sound
    <3> QED BY <1>2, <1>3, <1>6, <3>1 DEF Present, Clear
  <2> QED BY <1>2, <1>5, <2>1, <2>2
<1> QED BY <1>1, <1>7, <1>8, AdvanceKeeps

\* A removed file is not trusted any more.
LEMMA RemoveKeeps == InPlace /\ Sound /\ Remove => Sound'
<1> SUFFICES ASSUME InPlace, Sound, Remove PROVE Sound'
  OBVIOUS
<1>1. /\ Running /\ Now.do = "remove" /\ busy' = FALSE /\ at' = at + 1
      /\ files' = [f \in Files |-> IF f \in Now.to THEN None ELSE files[f]]
      /\ UNCHANGED <<task, used>>
  BY DEF Remove, InPlace, Writes
<1>2. /\ Trusted[task][at + 1] \subseteq Trusted[task][at] \ Now.to
      /\ Trusted[task][at] \subseteq Files
  BY <1>1, AtStep DEF Sane, Now
<1>3. \A f \in Trusted[task][at + 1] : Present(f)' /\ Clear(f)'
  BY <1>1, <1>2 DEF Sound, Present, Clear
<1>4. \A f \in Files \ Doubtful[task] : Clear(f)'
  BY <1>1 DEF Sound, Clear, None
<1> QED BY <1>1, <1>3, <1>4, AdvanceKeeps

\* The label leaves the image as it was made.
LEMMA StampKeeps == InPlace /\ Sound /\ Stamp => Sound'
<1> SUFFICES ASSUME InPlace, Sound, Stamp PROVE Sound'
  OBVIOUS
<1>1. /\ Running /\ Now.do = "stamp" /\ busy' = FALSE /\ at' = at + 1
      /\ files' = [f \in Files |-> IF f \in Now.to THEN [files[f] EXCEPT !.label = TRUE]
                                   ELSE files[f]]
      /\ UNCHANGED <<task, used>>
  BY DEF Stamp, InPlace, Writes
<1>2. /\ Trusted[task][at + 1] \subseteq Trusted[task][at]
      /\ Trusted[task][at] \subseteq Files
  BY <1>1, AtStep DEF Sane, Now
<1>3. \A f \in Files : files'[f].cut = files[f].cut /\ files'[f].release = files[f].release
  BY <1>1 DEF InPlace, FileState
<1>4. \A f \in Trusted[task][at + 1] : Present(f)' /\ Clear(f)'
  BY <1>1, <1>2, <1>3 DEF Sound, Present, Clear
<1>5. \A f \in Files \ Doubtful[task] : Clear(f)'
  BY <1>3 DEF Sound, Clear
<1> QED BY <1>1, <1>4, <1>5, AdvanceKeeps

\* Only trusted files are handed on.
LEMMA UseKeeps == InPlace /\ Sound /\ Use => Sound'
<1> SUFFICES ASSUME InPlace, Sound, Use PROVE Sound'
  OBVIOUS
<1>1. Running /\ Now.do = "use" /\ Done(Now.from) /\ UNCHANGED <<files, task>>
  BY DEF Use
<1>2. Now.from \subseteq Trusted[task][at] /\ Now.from \subseteq Files
  BY <1>1, AtStep DEF Sane, Now
<1>3. \A f \in Now.from : Present(f) /\ Clear(f)
  BY <1>1, <1>2 DEF Sound
<1> QED BY <1>1, <1>2, <1>3, StopKeeps

\* A task that fails hands on nothing, wherever it stops.
LEMMA FailKeeps == InPlace /\ Sound /\ (Fail \/ CutShort) => Sound'
<1> SUFFICES ASSUME InPlace, Sound, Fail \/ CutShort PROVE Sound'
  OBVIOUS
<1>1. Done({}) /\ UNCHANGED <<files, task>>
  BY DEF Fail, CutShort
<1> QED BY <1>1, StopKeeps

\* A release of the mirror changes no file.
LEMMA ReleaseKeeps == InPlace /\ Sound /\ Release => Sound'
<1> SUFFICES ASSUME InPlace, Sound, Release PROVE Sound'
  OBVIOUS
<1>1. UNCHANGED <<files, task, at, busy, used>>
  BY DEF Release
<1>2. Now' = Now /\ Running' = Running
  BY <1>1 DEF Now, Running
<1> QED BY <1>1, <1>2 DEF Sound, TornByCachedOnly, Present, Clear

\* The user removes files while no task runs.
LEMMA CleanKeeps == InPlace /\ Sound /\ Clean => Sound'
<1> SUFFICES ASSUME InPlace, Sound, Clean PROVE Sound'
  OBVIOUS
<1>1. PICK f \in Files : /\ ~Running
                         /\ files' = [files EXCEPT ![f] = None]
                         /\ UNCHANGED <<task, at, busy, used>>
  BY DEF Clean
<1>2. ~Running' /\ ~busy'
  BY <1>1 DEF Running, InPlace
<1>3. \A g \in Files \ Doubtful[task] : Clear(g)'
  BY <1>1 DEF Clear, Sound, None, InPlace
<1> QED BY <1>1, <1>2, <1>3 DEF Sound, TornByCachedOnly

\* Every file is where the recipe says it is, and what a successful run hands on
\* is torn only by a step that takes its own output for good, whatever is cut
\* short, the mirror publishes and the user removes.
THEOREM NothingTorn == Spec => []TornByCachedOnly
<1>1. Init => InPlace /\ Sound
  <2> SUFFICES ASSUME Init PROVE Sound
    BY InPlaceInit
  <2>1. ~Running /\ busy = FALSE /\ DOMAIN used = {} /\ files = [f \in Files |-> None]
    BY DEF Init, Running
  <2> QED BY <2>1 DEF Sound, TornByCachedOnly, Clear, None
<1>2. InPlace /\ Sound /\ [Next]_vars => InPlace' /\ Sound'
  <2> SUFFICES ASSUME InPlace, Sound, [Next]_vars PROVE Sound'
    BY InPlaceStep
  <2>1. CASE UNCHANGED vars
    BY <2>1 DEF vars, Sound, Now, Running, Present, Clear, TornByCachedOnly
  <2> QED BY <2>1, BeginKeeps, SkipKeeps, UnlessKeeps, StartWritingKeeps, FinishWritingKeeps,
             RemoveKeeps, StampKeeps, UseKeeps, FailKeeps, ReleaseKeeps, CleanKeeps
          DEF Next
<1>3. Sound => TornByCachedOnly
  BY DEF Sound
<1> QED BY <1>1, <1>2, <1>3, PTL DEF Spec

-----------------------------------------------------------------------------
(* The image that label:debian:cloud hands on.                             *)

\* The steps of label:debian:cloud.
LEMMA LabelSteps ==
    ASSUME InPlace, task = "label:debian:cloud", Running
    PROVE  \/ at = 1 /\ Now = Step("fetch", {}, {"qcow2"})
           \/ at = 2 /\ Now = Step("refresh", {"qcow2"}, {"raw"})
           \/ at = 3 /\ Now = Step("stamp", {}, {"raw"})
           \/ at = 4 /\ Now = Step("use", {"qcow2", "raw"}, {})
<1>1. Recipe[task] = << Step("fetch", {}, {"qcow2"}), Step("refresh", {"qcow2"}, {"raw"}),
                        Step("stamp", {}, {"raw"}), Step("use", {"qcow2", "raw"}, {}) >>
  BY DEF Recipe, AllTasks, Fetch
<1>2. at \in 1 .. 4
  BY <1>1, AtStep
<1> QED BY <1>1, <1>2 DEF Now

\* The release of what is written.
LEMMA OriginOfOne ==
    ASSUME NEW f, NEW step, step.do # "make", step.to # {"iso"}, step.from = {f}
    PROVE  Origin(step) = files[f].release
<1>1. (CHOOSE g \in {f} : TRUE) = f
  OBVIOUS
<1> QED BY <1>1 DEF Origin

\* One task is run again and again.
LEMMA TaskFixed == [Next]_vars => task' = task
  BY DEF Next, vars, Begin, Skip, Unless, StartWriting, FinishWriting, Remove, Stamp, Use,
         Fail, CutShort, Release, Clean

\* Whoever writes the download makes it newer than the image, and the conversion makes them of one release again.
LEMMA LabelStep == InPlace /\ LabelDated /\ [Next]_vars => LabelDated'
<1> SUFFICES ASSUME InPlace, LabelDated, [Next]_vars, task = "label:debian:cloud"
             PROVE  LabelDated'
  BY TaskFixed DEF LabelDated
<1>1. DOMAIN files = Files /\ {"qcow2", "raw"} \subseteq Files
  BY DEF InPlace, Files
<1>2. ASSUME NEW result, result = {} \/ (result = {"qcow2", "raw"} /\ at = 4),
             Done(result), UNCHANGED <<files, task, newer>>
      PROVE  LabelDated'
  <2>1. at' = 0 /\ used' = [f \in result |-> files[f]]
    BY <1>2 DEF Done
  <2> QED BY <1>2, <2>1 DEF LabelDated, Present
<1>3. CASE UNCHANGED vars \/ Release
  BY <1>3 DEF vars, Release, LabelDated, Present
<1>4. CASE Begin
  <2>1. ~busy
    BY <1>4 DEF Begin, InPlace
  <2> QED BY <1>4, <2>1 DEF Begin, LabelDated, Present
<1>5. CASE Skip
  <2>1. /\ Running /\ ~busy /\ at' = at + 1 /\ \A f \in Now.to : Present(f)
        /\ (Now.do = "refresh" => ~newer) /\ Now.do \in {"fetch", "refresh"}
        /\ UNCHANGED <<files, newer, task, busy, used>>
    BY <1>5 DEF Skip, Cached
  <2>2. CASE at = 1 /\ Now.to = {"qcow2"}
    BY <2>1, <2>2 DEF LabelDated, Present
  <2>3. CASE at = 2 /\ Now.to = {"raw"} /\ Now.do = "refresh"
    BY <2>1, <2>3 DEF LabelDated, Present
  <2> QED BY <2>1, <2>2, <2>3, LabelSteps DEF Step
<1>6. CASE Unless \/ Remove
  BY <1>6, LabelSteps DEF Unless, Remove, Step
<1>7. CASE StartWriting
  <2>1. /\ Running /\ Now.do \in Writes /\ ~busy /\ busy' = TRUE
        /\ files' = [f \in Files |->
                        IF f \in Now.to
                        THEN [release |-> Origin(Now), cut |-> {<<task, Now.do>>}, label |-> FALSE]
                        ELSE files[f]]
        /\ Written(Now.to)
        /\ \A f \in Now.from : Present(f)
        /\ UNCHANGED <<task, at, used>>
    BY <1>7 DEF StartWriting
  <2>2. CASE at = 1 /\ Now.to = {"qcow2"}
    <3>1. newer' = TRUE
      BY <2>1, <2>2 DEF Written
    <3>2. files'["qcow2"].release # 0
      BY <1>1, <2>1, <2>2, OriginTypes
    <3> QED BY <2>1, <2>2, <3>1, <3>2 DEF LabelDated, Present
  <2>3. CASE at = 2 /\ Now = Step("refresh", {"qcow2"}, {"raw"})
    <3>1. Origin(Now) = files["qcow2"].release
      BY <2>3, OriginOfOne DEF Step
    <3>2. Now.to = {"raw"}
      BY <2>3 DEF Step
    <3>3. files'["raw"].release = files["qcow2"].release /\ files'["qcow2"] = files["qcow2"]
      BY <1>1, <2>1, <3>1, <3>2
    <3>4. newer' = FALSE
      BY <2>1, <3>2 DEF Written
    <3>5. /\ at' = 2 /\ busy' = TRUE /\ task' = task /\ used' = used
          /\ files'["raw"].release = files'["qcow2"].release
          /\ Present("qcow2")'
      <4>1. files["qcow2"].release # 0
        BY <2>3 DEF LabelDated, Present
      <4>2. at' = 2 /\ busy' = TRUE /\ task' = task /\ used' = used
        BY <2>1, <2>3
      <4> QED BY <3>3, <4>1, <4>2 DEF Present
    <3> QED BY <3>4, <3>5 DEF LabelDated
  <2> QED BY <2>1, <2>2, <2>3, LabelSteps DEF Step, Writes
<1>8. CASE FinishWriting
  <2> DEFINE cuts == UNION {files[g].cut : g \in Now.from}
  <2>1. /\ Running /\ busy /\ busy' = FALSE /\ at' = at + 1
        /\ files' = [f \in Files |-> IF f \in Now.to THEN [files[f] EXCEPT !.cut = cuts]
                                     ELSE files[f]]
        /\ Written(Now.to) /\ Now.do \in Writes
        /\ UNCHANGED <<task, used>>
    BY <1>8 DEF FinishWriting, InPlace
  <2>2. CASE at = 1 /\ Now = Step("fetch", {}, {"qcow2"})
    <3>1. Now.to = {"qcow2"}
      BY <2>2 DEF Step
    <3> HIDE DEF cuts
    <3>2. files'["qcow2"].release = files["qcow2"].release
      BY <1>1, <2>1, <3>1 DEF InPlace, FileState
    <3>3. files'["qcow2"].release # 0 /\ newer' = TRUE
      BY <2>1, <2>2, <3>1, <3>2 DEF Written, LabelDated, Present
    <3> QED BY <2>1, <2>2, <3>3 DEF LabelDated, Present
  <2>3. CASE at = 2 /\ Now = Step("refresh", {"qcow2"}, {"raw"})
    <3>1. Now.to = {"raw"}
      BY <2>3 DEF Step
    <3> HIDE DEF cuts
    <3>2. files'["raw"].release = files["raw"].release /\ files'["qcow2"] = files["qcow2"]
      BY <1>1, <2>1, <3>1 DEF InPlace, FileState
    <3>3. newer' = FALSE
      BY <2>1, <3>1 DEF Written
    <3> QED BY <2>1, <2>3, <3>2, <3>3 DEF LabelDated, Present
  <2> QED BY <2>1, <2>2, <2>3, LabelSteps DEF Step, Writes
<1>9. CASE Stamp
  <2>1. /\ Running /\ Now.do = "stamp" /\ ~busy /\ at' = at + 1
        /\ files' = [f \in Files |-> IF f \in Now.to THEN [files[f] EXCEPT !.label = TRUE]
                                     ELSE files[f]]
        /\ Written(Now.to) /\ UNCHANGED <<task, busy, used>>
    BY <1>9 DEF Stamp, InPlace, Writes
  <2>2. at = 3 /\ Now.to = {"raw"}
    BY <2>1, LabelSteps DEF Step
  <2>3. /\ files'["raw"].release = files["raw"].release /\ files'["raw"].label
        /\ files'["qcow2"] = files["qcow2"]
    BY <1>1, <2>1, <2>2 DEF InPlace, FileState
  <2>4. newer' = FALSE
    BY <2>1, <2>2 DEF Written
  <2> QED BY <2>1, <2>2, <2>3, <2>4 DEF LabelDated, Present
<1>10. CASE Use
  <2>1. at = 4 /\ Now.from = {"qcow2", "raw"}
    BY <1>10, LabelSteps DEF Use, Step
  <2> QED BY <1>2, <1>10, <2>1 DEF Use
<1>11. CASE Fail \/ CutShort
  BY <1>2, <1>11 DEF Fail, CutShort
<1>12. CASE Clean
  <2>1. PICK f \in Files : /\ at = 0 /\ files' = [files EXCEPT ![f] = None]
                           /\ UNCHANGED <<task, at, busy, used, newer>>
    BY <1>12 DEF Clean, Running
  <2>2. \A g \in Files : files'[g] = None \/ files'[g] = files[g]
    BY <1>1, <2>1
  <2> QED BY <1>1, <2>1, <2>2 DEF LabelDated, Present, None
<1> QED BY <1>3, <1>4, <1>5, <1>6, <1>7, <1>8, <1>9, <1>10, <1>11, <1>12 DEF Next

\* The image label:debian:cloud hands on is of the release of the download next
\* to it and has its label, whichever steps are cut short.
THEOREM OneRelease == Spec => []UpToDate
<1>1. Init => InPlace /\ LabelDated
  <2> SUFFICES ASSUME Init PROVE LabelDated
    BY InPlaceInit
  <2>1. at = 0 /\ DOMAIN used = {} /\ files["qcow2"] = None
    BY DEF Init, Files
  <2> QED BY <2>1 DEF LabelDated, Present, None
<1>2. InPlace /\ LabelDated /\ [Next]_vars => InPlace' /\ LabelDated'
  BY InPlaceStep, LabelStep
<1>3. LabelDated => UpToDate
  BY DEF LabelDated, UpToDate
<1> QED BY <1>1, <1>2, <1>3, PTL DEF Spec
=============================================================================
