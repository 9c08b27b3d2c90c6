--------------------------- MODULE MenuRunProofs ---------------------------
(***************************************************************************)
(* What the menu tasks leave in the registry they share with the push      *)
(* tasks, for any number of terminals, any of the tasks in each of them,   *)
(* and any way a container that is not kept goes away.                     *)
(***************************************************************************)
EXTENDS MenuRun, SequenceTheorems, TLAPS

\* Every step a task can have.
Steps == {"ensure", "await", "boot", "run", "stop", "alpine:3.21", "alpine:3.21-amd64",
          "alpine:3.21-arm64", "debian:13", "debian:13-amd64", "debian:13-arm64",
          "debian-live:13.5.0-standard-amd64", "plan:vz-test"}

\* What task t pushes in its first n steps.
PushedIn(t, n) == {Recipe[t][i] : i \in 1 .. n} \cap References

\* Terminal s has done the first n steps of its task.
Done(s, n) ==
    /\ n \in 0 .. Len(Recipe[task[s]])
    /\ todo[s] = SubSeq(Recipe[task[s]], n + 1, Len(Recipe[task[s]]))
    /\ calm => PushedIn(task[s], n) \subseteq tags

\* A terminal is somewhere in its task.
At(s) == IF task[s] = None THEN todo[s] = << >> ELSE \E n \in Nat : Done(s, n)

MenuTypeOK ==
    /\ task \in [Terminals -> Tasks \cup {None}]
    /\ DOMAIN todo = Terminals
    /\ calm \in BOOLEAN
    /\ finished \subseteq Tasks

\* What a terminal has looked up of the index it assembles is in the registry,
\* or was in one that has gone.
LookedUp(s) == looked[s] # 0 =>
    /\ Assembling(s) /\ looked[s] <= Len(Parts[Head(todo[s])])
    /\ s \in outlived \/ \A n \in 1 .. looked[s] : Parts[Head(todo[s])][n] \in tags

Assembly ==
    /\ tags \subseteq References
    /\ looked \in [Terminals -> Nat]
    /\ \A s \in Terminals : LookedUp(s)

\* The inductive invariant: a terminal is somewhere in its task, and unless the
\* registry may go, all that was pushed on the way is still there.
InStep ==
    /\ MenuTypeOK
    /\ Assembly
    /\ \A s \in Terminals : At(s)
    /\ calm => \A s \in Terminals : task[s] # "registry:stop"
    /\ calm => \A t \in finished : PushedIn(t, Len(Recipe[t])) \subseteq tags

-----------------------------------------------------------------------------
(* The tasks.                                                              *)

\* A task begins with Prepare.
LEMMA AfterPrepare ==
    ASSUME NEW s \in Seq(Steps), NEW all, all = Prepare \o s
    PROVE  /\ all \in Seq(Steps) /\ Len(all) = Len(s) + 2
           /\ all[1] = Ensure /\ all[2] = Await
           /\ \A i \in 1 .. Len(s) : all[i + 2] = s[i]
<1>1. /\ Prepare \in Seq(Steps) /\ Len(Prepare) = 2 /\ Len(s) \in Nat
      /\ Prepare[1] = Ensure /\ Prepare[2] = Await
  BY DEF Prepare, Ensure, Await, Steps
<1>2. /\ all \in Seq(Steps) /\ Len(all) = Len(Prepare) + Len(s)
      /\ \A i \in 1 .. Len(Prepare) + Len(s) :
            all[i] = IF i <= Len(Prepare) THEN Prepare[i] ELSE s[i - Len(Prepare)]
  BY <1>1, ConcatProperties
<1>3. \A i \in 1 .. Len(s) :
        /\ i + 2 \in 1 .. Len(Prepare) + Len(s) /\ ~(i + 2 <= Len(Prepare))
        /\ i + 2 - Len(Prepare) = i
  BY <1>1
<1>4. \A i \in {1, 2} : i \in 1 .. Len(Prepare) + Len(s) /\ i <= Len(Prepare)
  BY <1>1
<1> QED BY <1>1, <1>2, <1>3, <1>4

\* The steps of each task.
LEMMA RecipeParts ==
    /\ DOMAIN Recipe = Tasks
    /\ Recipe["qemu:arm64:menu"] =
          Prepare \o << "alpine:3.21-arm64", "debian:13-arm64", Live, Plan, Boot >>
    /\ Recipe["vfkit:arm64:menu"] = (Prepare \o AlpineMulti) \o << "debian:13-arm64", Live, Boot >>
    /\ Recipe["push:alpine:multi"] = AlpineMulti
    /\ Recipe["push:debian:multi"] = DebianMulti
    /\ Recipe["registry"] = << "run" >>
    /\ Recipe["registry:stop"] = << "stop" >>
  BY DEF Recipe, Tasks, Menus, Multis

\* The two indexes and their parts.
LEMMA PartsOf ==
    /\ DOMAIN Parts = {"alpine:3.21", "debian:13"}
    /\ Parts["alpine:3.21"] = << "alpine:3.21-amd64", "alpine:3.21-arm64" >>
    /\ Parts["debian:13"] = << "debian:13-amd64", "debian:13-arm64" >>
  BY DEF Parts

\* Both list two artifacts.
LEMMA TwoListed ==
    ASSUME NEW i \in DOMAIN Parts
    PROVE  /\ Len(Parts[i]) = 2 /\ DOMAIN Parts[i] = 1 .. 2
           /\ Listed(i) = {Parts[i][1], Parts[i][2]}
           /\ Parts[i][1] \in Steps /\ Parts[i][2] \in Steps
<1>1. CASE i = "alpine:3.21"
  BY <1>1, PartsOf DEF Steps, Listed
<1>2. CASE i = "debian:13"
  BY <1>2, PartsOf DEF Steps, Listed
<1> QED BY <1>1, <1>2, PartsOf

\* The menu tasks, step by step.
LEMMA QemuSteps ==
    LET r == Recipe["qemu:arm64:menu"]
    IN  /\ r \in Seq(Steps) /\ Len(r) = 7
        /\ r[1] = Ensure /\ r[2] = Await /\ r[3] = "alpine:3.21-arm64"
        /\ r[4] = "debian:13-arm64" /\ r[5] = Live /\ r[6] = Plan /\ r[7] = Boot
<1> DEFINE rest == << "alpine:3.21-arm64", "debian:13-arm64", Live, Plan, Boot >>
<1>1. rest \in Seq(Steps) /\ Len(rest) = 5
  BY DEF Steps, Live, Plan, Boot
<1>2. /\ rest[1] = "alpine:3.21-arm64" /\ rest[2] = "debian:13-arm64"
      /\ rest[3] = Live /\ rest[4] = Plan /\ rest[5] = Boot
  OBVIOUS
<1> HIDE DEF rest
<1> DEFINE all == Prepare \o rest
<1>4. all = Prepare \o rest
  OBVIOUS
<1> HIDE DEF all
<1>5. /\ all \in Seq(Steps) /\ Len(all) = Len(rest) + 2
      /\ all[1] = Ensure /\ all[2] = Await
      /\ \A i \in 1 .. Len(rest) : all[i + 2] = rest[i]
  BY <1>1, <1>4, AfterPrepare
<1>6. Recipe["qemu:arm64:menu"] = all
  BY <1>4, RecipeParts DEF rest
<1> QED BY <1>1, <1>2, <1>5, <1>6

\* The menu task for vfkit, step by step.
LEMMA VfkitSteps ==
    LET r == Recipe["vfkit:arm64:menu"]
    IN  /\ r \in Seq(Steps) /\ Len(r) = 8
        /\ r[1] = Ensure /\ r[2] = Await /\ r[3] = "alpine:3.21-amd64"
        /\ r[4] = "alpine:3.21-arm64" /\ r[5] = "alpine:3.21"
        /\ r[6] = "debian:13-arm64" /\ r[7] = Live /\ r[8] = Boot
<1> DEFINE end == << "debian:13-arm64", Live, Boot >>
           rest == AlpineMulti \o end
<1>1. end \in Seq(Steps) /\ Len(end) = 3
      /\ end[1] = "debian:13-arm64" /\ end[2] = Live /\ end[3] = Boot
  BY DEF Steps, Live, Boot
<1>2. /\ AlpineMulti \in Seq(Steps) /\ Len(AlpineMulti) = 3
      /\ AlpineMulti[1] = "alpine:3.21-amd64" /\ AlpineMulti[2] = "alpine:3.21-arm64"
      /\ AlpineMulti[3] = "alpine:3.21"
  BY DEF Steps, AlpineMulti
<1>3. Prepare \in Seq(Steps)
  BY DEF Steps, Prepare, Ensure, Await
<1> HIDE DEF end
<1>4. /\ rest \in Seq(Steps) /\ Len(rest) = 6
      /\ \A i \in 1 .. 6 : rest[i] = IF i <= 3 THEN AlpineMulti[i] ELSE end[i - 3]
  <2>1. /\ rest \in Seq(Steps) /\ Len(rest) = Len(AlpineMulti) + Len(end)
        /\ \A i \in 1 .. Len(AlpineMulti) + Len(end) : rest[i] =
              IF i <= Len(AlpineMulti) THEN AlpineMulti[i] ELSE end[i - Len(AlpineMulti)]
    BY <1>1, <1>2, ConcatProperties
  <2>2. Len(AlpineMulti) = 3 /\ Len(end) = 3
    BY <1>1, <1>2
  <2> HIDE DEF rest
  <2> QED BY <2>1, <2>2
<1>5. (Prepare \o AlpineMulti) \o end = Prepare \o rest
  BY <1>1, <1>2, <1>3, ConcatAssociative
<1> HIDE DEF rest
<1> DEFINE all == Prepare \o rest
<1>6. all = Prepare \o rest
  OBVIOUS
<1> HIDE DEF all
<1>7. /\ all \in Seq(Steps) /\ Len(all) = Len(rest) + 2
      /\ all[1] = Ensure /\ all[2] = Await
      /\ \A i \in 1 .. Len(rest) : all[i + 2] = rest[i]
  BY <1>4, <1>6, AfterPrepare
<1>8. Recipe["vfkit:arm64:menu"] = all
  BY RecipeParts, <1>3, <1>5, <1>6 DEF end
<1>9. /\ rest[1] = AlpineMulti[1] /\ rest[2] = AlpineMulti[2] /\ rest[3] = AlpineMulti[3]
      /\ rest[4] = end[1] /\ rest[5] = end[2] /\ rest[6] = end[3]
  BY <1>4
<1> QED BY <1>1, <1>2, <1>4, <1>7, <1>8, <1>9

\* A step that boots is the last one of a menu task, and only registry:stop stops
\* the registry.
LEMMA RecipeSteps ==
    ASSUME NEW t \in Tasks
    PROVE  /\ Recipe[t] \in Seq(Steps)
           /\ \A i \in 1 .. Len(Recipe[t]) :
                 /\ Recipe[t][i] = Boot => i = Len(Recipe[t]) /\ t \in Menus
                 /\ Recipe[t][i] = "stop" => t = "registry:stop"
<1>1. CASE t = "qemu:arm64:menu"
  BY <1>1, QemuSteps DEF Ensure, Await, Live, Plan, Boot, Menus
<1>2. CASE t = "vfkit:arm64:menu"
  BY <1>2, VfkitSteps DEF Ensure, Await, Live, Boot, Menus
<1>3. CASE t = "push:alpine:multi"
  BY <1>3, RecipeParts DEF AlpineMulti, Boot, Steps
<1>4. CASE t = "push:debian:multi"
  BY <1>4, RecipeParts DEF DebianMulti, Boot, Steps
<1>5. CASE t = "registry"
  BY <1>5, RecipeParts DEF Boot, Steps
<1>6. CASE t = "registry:stop"
  BY <1>6, RecipeParts DEF Boot, Steps
<1> QED BY <1>1, <1>2, <1>3, <1>4, <1>5, <1>6 DEF Tasks, Menus, Multis

\* Where the references that plan-vz-test.hcl names are pushed.
LEMMA PushesOfPlan ==
    /\ \A t \in Menus : Live \in PushedIn(t, Len(Recipe[t]))
    /\ "alpine:3.21" \in PushedIn("push:alpine:multi", Len(Recipe["push:alpine:multi"]))
    /\ "debian:13" \in PushedIn("push:debian:multi", Len(Recipe["push:debian:multi"]))
<1>1. {"alpine:3.21", "debian:13", Live} \subseteq References
  <2>1. "alpine:3.21" \in DOMAIN Parts /\ "debian:13" \in DOMAIN Parts
    BY PartsOf
  <2>2. \A x \in DOMAIN Parts \cup {Live} : x \in References
    BY DEF References
  <2> QED BY <2>1, <2>2
<1>2. Live \in PushedIn("qemu:arm64:menu", Len(Recipe["qemu:arm64:menu"]))
  BY <1>1, QemuSteps DEF PushedIn
<1>3. Live \in PushedIn("vfkit:arm64:menu", Len(Recipe["vfkit:arm64:menu"]))
  BY <1>1, VfkitSteps DEF PushedIn
<1>4. /\ Len(Recipe["push:alpine:multi"]) = 3
      /\ Recipe["push:alpine:multi"][3] = "alpine:3.21"
      /\ Len(Recipe["push:debian:multi"]) = 3
      /\ Recipe["push:debian:multi"][3] = "debian:13"
  BY RecipeParts DEF AlpineMulti, DebianMulti
<1>5. 3 \in 1 .. 3
  OBVIOUS
<1> QED BY <1>1, <1>2, <1>3, <1>4, <1>5 DEF Menus, PushedIn

-----------------------------------------------------------------------------
(* The steps.                                                              *)

\* None is no task.
LEMMA NoTask == None \notin Tasks
  BY DEF None, Tasks, Menus, Multis

\* Where a terminal is that has something to do.
LEMMA NextStep ==
    ASSUME InStep, NEW s \in Terminals, todo[s] # << >>
    PROVE  /\ task[s] \in Tasks
           /\ \E n \in Nat :
                 /\ n + 1 \in 1 .. Len(Recipe[task[s]]) /\ Done(s, n)
                 /\ Head(todo[s]) = Recipe[task[s]][n + 1]
                 /\ Tail(todo[s]) = SubSeq(Recipe[task[s]], n + 2, Len(Recipe[task[s]]))
<1>1. task[s] # None /\ task[s] \in Tasks /\ \E n \in Nat : Done(s, n)
  BY DEF InStep, MenuTypeOK, At
<1>2. PICK n \in Nat : Done(s, n)
  BY <1>1
<1> DEFINE r == Recipe[task[s]]
<1>3. r \in Seq(Steps) /\ Len(r) \in Nat
  BY <1>1, RecipeSteps
<1>4. n \in 0 .. Len(r) /\ todo[s] = SubSeq(r, n + 1, Len(r))
  BY <1>2 DEF Done
<1> HIDE DEF r
<1>5. n # Len(r)
  <2> SUFFICES ASSUME n = Len(r) PROVE FALSE
    OBVIOUS
  <2>1. n + 1 \in Int /\ Len(r) \in Int /\ Len(r) < n + 1
    BY <1>3
  <2>2. SubSeq(r, n + 1, Len(r)) = << >>
    BY <2>1, SubSeqEmpty
  <2> QED BY <1>4, <2>2
<1>6. n + 1 \in 1 .. Len(r) /\ Len(r) \in (n + 1) .. Len(r) /\ (n + 1) + 1 = n + 2
  BY <1>3, <1>4, <1>5
<1>7. Head(todo[s]) = r[n + 1] /\ Tail(todo[s]) = SubSeq(r, n + 2, Len(r))
  BY <1>3, <1>4, <1>6, HeadTailOfSubSeq
<1> QED BY <1>1, <1>2, <1>6, <1>7 DEF r

\* A terminal that does not move is where it was, as long as nothing that
\* matters leaves the registry.
LEMMA Elsewhere ==
    ASSUME InStep, NEW s \in Terminals, task'[s] = task[s], todo'[s] = todo[s],
           calm' = calm, calm => tags \subseteq tags'
    PROVE  At(s)'
<1>1. CASE task[s] = None
  BY <1>1 DEF InStep, At
<1>2. CASE task[s] # None
  <2>1. PICK n \in Nat : Done(s, n)
    BY <1>2 DEF InStep, At
  <2>2. Done(s, n)'
    BY <2>1 DEF Done, PushedIn
  <2> QED BY <1>2, <2>2 DEF At
<1> QED BY <1>1, <1>2

\* The tasks that have succeeded, too.
LEMMA StillFinished ==
    ASSUME InStep, calm' = calm, calm => tags \subseteq tags', finished' = finished
    PROVE  calm' => \A t \in finished' : PushedIn(t, Len(Recipe[t])) \subseteq tags'
  BY DEF InStep, PushedIn

\* A step that a terminal takes and that leaves a push behind it in the registry.
LEMMA GoKeeps ==
    ASSUME InStep, NEW s \in Terminals, todo[s] # << >>, Go(s),
           calm' = calm, finished' = finished, Assembly',
           calm => /\ tags \subseteq tags'
                   /\ Head(todo[s]) \in References => Head(todo[s]) \in tags'
    PROVE  InStep'
<1>1. task' = task /\ DOMAIN todo' = Terminals /\ todo'[s] = Tail(todo[s])
      /\ \A i \in Terminals \ {s} : todo'[i] = todo[i]
  BY DEF Go, InStep, MenuTypeOK
<1>2. task[s] \in Tasks
  BY NextStep
<1>3. PICK n \in Nat :
        /\ n + 1 \in 1 .. Len(Recipe[task[s]]) /\ Done(s, n)
        /\ Head(todo[s]) = Recipe[task[s]][n + 1]
        /\ Tail(todo[s]) = SubSeq(Recipe[task[s]], n + 2, Len(Recipe[task[s]]))
  BY NextStep
<1>4. Done(s, n + 1)'
  <2>1. n + 1 \in 0 .. Len(Recipe[task[s]]) /\ (n + 1) + 1 = n + 2
    BY <1>3
  <2>2. ASSUME calm PROVE PushedIn(task[s], n + 1) \subseteq tags'
    <3>1. PushedIn(task[s], n) \subseteq tags'
      BY <1>3, <2>2 DEF Done
    <3>2. ASSUME NEW i \in 1 .. (n + 1), Recipe[task[s]][i] \in References
          PROVE  Recipe[task[s]][i] \in tags'
      <4>1. CASE i = n + 1
        BY <1>3, <2>2, <3>2, <4>1
      <4>2. CASE i # n + 1
        <5>1. i \in 1 .. n
          BY <4>2
        <5> QED BY <3>1, <3>2, <5>1 DEF PushedIn
      <4> QED BY <4>1, <4>2
    <3> QED BY <3>2 DEF PushedIn
  <2>3. todo'[s] = SubSeq(Recipe[task[s]], (n + 1) + 1, Len(Recipe[task[s]]))
    BY <1>1, <1>3, <2>1
  <2> QED BY <1>1, <2>1, <2>2, <2>3 DEF Done, PushedIn
<1>5. \A i \in Terminals : At(i)'
  <2>1. At(s)'
    <3>1. n + 1 \in Nat
      OBVIOUS
    <3> QED BY <1>1, <1>2, <1>4, <3>1, NoTask DEF At
  <2>2. ASSUME NEW i \in Terminals \ {s} PROVE At(i)'
    BY <1>1, Elsewhere
  <2> QED BY <2>1, <2>2
<1>6. MenuTypeOK'
  BY <1>1 DEF InStep, MenuTypeOK
<1>7. calm' => \A i \in Terminals : task'[i] # "registry:stop"
  BY <1>1 DEF InStep
<1> QED BY <1>5, <1>6, <1>7, StillFinished DEF InStep

\* A terminal that leaves its task, finished or not.
LEMMA ReturnKeeps ==
    ASSUME InStep, NEW s \in Terminals, Return(s), calm' = calm, Assembly',
           calm => tags \subseteq tags',
           finished' \subseteq Tasks,
           \A t \in finished' \ finished : calm => PushedIn(t, Len(Recipe[t])) \subseteq tags'
    PROVE  InStep'
<1>1. /\ DOMAIN task' = Terminals /\ DOMAIN todo' = Terminals
      /\ task'[s] = None /\ todo'[s] = << >>
      /\ \A i \in Terminals \ {s} : task'[i] = task[i] /\ todo'[i] = todo[i]
      /\ task' \in [Terminals -> Tasks \cup {None}]
  BY DEF Return, InStep, MenuTypeOK
<1>2. \A i \in Terminals : At(i)'
  <2>1. At(s)'
    BY <1>1 DEF At
  <2>2. ASSUME NEW i \in Terminals \ {s} PROVE At(i)'
    BY <1>1, Elsewhere
  <2> QED BY <2>1, <2>2
<1>3. MenuTypeOK'
  BY <1>1 DEF InStep, MenuTypeOK
<1>4. calm' => \A i \in Terminals : task'[i] # "registry:stop"
  BY <1>1 DEF InStep, None
<1>5. calm' => \A t \in finished' : PushedIn(t, Len(Recipe[t])) \subseteq tags'
  <2> SUFFICES ASSUME calm, NEW t \in finished'
               PROVE  PushedIn(t, Len(Recipe[t])) \subseteq tags'
    BY DEF PushedIn
  <2>1. CASE t \in finished
    BY <2>1 DEF InStep
  <2>2. CASE t \notin finished
    BY <2>2
  <2> QED BY <2>1, <2>2
<1> QED BY <1>2, <1>3, <1>4, <1>5 DEF InStep

\* What happens to the container between the steps of the tasks.
LEMMA ContainerKeeps ==
    ASSUME InStep, UNCHANGED <<finished, task, todo, calm>>, Assembly',
           calm => tags \subseteq tags'
    PROVE  InStep'
<1>1. \A i \in Terminals : At(i)'
  BY Elsewhere
<1>2. MenuTypeOK'
  BY DEF InStep, MenuTypeOK
<1>3. calm' => \A i \in Terminals : task'[i] # "registry:stop"
  BY DEF InStep
<1> QED BY <1>1, <1>2, <1>3, StillFinished DEF InStep

-----------------------------------------------------------------------------
(* The actions.                                                            *)

\* The steps that prepare for the registry are no pushes, and nobody pushes
\* primary and rescue.
LEMMA NotPushed == \A x \in {Ensure, Await, Boot, "run", "stop", "linux:6.6", "rescue:latest"} :
    x \notin References
<1>1. ASSUME NEW x \in References
      PROVE  x \in DOMAIN Parts \cup {Live, Plan} \/ \E i \in DOMAIN Parts : x \in Listed(i)
  BY DEF References
<1>2. ASSUME NEW i \in DOMAIN Parts, NEW x \in Listed(i)
      PROVE  x \in {"alpine:3.21-amd64", "alpine:3.21-arm64", "debian:13-amd64", "debian:13-arm64"}
  <2>1. x = Parts[i][1] \/ x = Parts[i][2]
    BY TwoListed
  <2> QED BY <2>1, PartsOf
<1>3. DOMAIN Parts = {"alpine:3.21", "debian:13"}
  BY PartsOf
<1> QED BY <1>1, <1>2, <1>3 DEF Live, Plan, Ensure, Await, Boot

\* A step that is no push assembles no index.
LEMMA NotAssembling ==
    ASSUME NEW s, Assembling(s), NEW x \in {Ensure, Await, Boot, "run", "stop"}
    PROVE  ~Does(s, x)
<1>1. Head(todo[s]) \in References
  BY DEF Assembling, References
<1> QED BY <1>1, NotPushed DEF Does

\* What a terminal has looked up stays so while it does nothing about it.
LEMMA StillLooked ==
    ASSUME InStep, NEW s \in Terminals,
           todo'[s] = todo[s] \/ looked[s] = 0, looked'[s] = looked[s],
           s \in outlived => s \in outlived',
           tags \subseteq tags' \/ (looked[s] # 0 => s \in outlived')
    PROVE  LookedUp(s)'
<1>1. LookedUp(s)
  BY DEF InStep, Assembly
<1>2. CASE looked[s] = 0
  BY <1>2 DEF LookedUp
<1>3. CASE looked[s] # 0
  <2>1. todo'[s] = todo[s]
    BY <1>3
  <2>2. Assembling(s)' /\ looked'[s] <= Len(Parts[Head(todo'[s])])
    BY <1>1, <1>3, <2>1 DEF LookedUp, Assembling
  <2>3. s \in outlived' \/ \A n \in 1 .. looked'[s] : Parts[Head(todo'[s])][n] \in tags'
    BY <1>1, <1>3, <2>1 DEF LookedUp
  <2> QED BY <2>2, <2>3 DEF LookedUp
<1> QED BY <1>2, <1>3

\* A step of a terminal that assembles no index leaves all assembly alone.
LEMMA OtherSteps ==
    ASSUME InStep, NEW s \in Terminals, ~Assembling(s),
           UNCHANGED <<tags, pushing>>, \A i \in Terminals \ {s} : todo'[i] = todo[i]
    PROVE  Assembly'
<1>1. looked[s] = 0
  BY DEF InStep, Assembly, LookedUp
<1>2. looked' = looked /\ outlived' = outlived /\ tags' = tags
  BY DEF pushing
<1>3. \A i \in Terminals : LookedUp(i)'
  <2> TAKE i \in Terminals
  <2>1. todo'[i] = todo[i] \/ looked[i] = 0
    BY <1>1
  <2> QED BY <1>2, <2>1, StillLooked
<1> QED BY <1>2, <1>3 DEF InStep, Assembly

\* Nor does it matter to the assembly what the container does.
LEMMA NoSteps ==
    ASSUME InStep, UNCHANGED <<tags, todo, pushing>>
    PROVE  Assembly'
<1>1. looked' = looked /\ outlived' = outlived /\ tags' = tags /\ todo' = todo
  BY DEF pushing
<1>2. \A i \in Terminals : LookedUp(i)'
  BY <1>1, StillLooked
<1> QED BY <1>1, <1>2 DEF InStep, Assembly

\* Nothing that a terminal has looked up outlives the registry.
LEMMA LostKeeps ==
    ASSUME InStep, NEW s \in Terminals, ~Assembling(s) \/ todo' = todo, Lost,
           \A i \in Terminals \ {s} : todo'[i] = todo[i]
    PROVE  Assembly'
<1>1. /\ tags' = {} /\ looked' = looked
      /\ outlived' = outlived \cup {i \in Terminals : looked[i] > 0}
  BY DEF Lost
<1>2. ASSUME NEW i \in Terminals PROVE LookedUp(i)'
  <2>1. looked[i] \in Nat /\ (~Assembling(s) => looked[s] = 0)
    BY DEF InStep, Assembly, LookedUp
  <2>2. looked[i] # 0 => i \in outlived'
    BY <1>1, <2>1
  <2>3. todo'[i] = todo[i] \/ looked[i] = 0
    BY <2>1
  <2> QED BY <1>1, <2>2, <2>3, StillLooked
<1> QED BY <1>1, <1>2 DEF InStep, Assembly

\* The end of a push, of which at most a reference remains.
LEMMA EndPushKeeps ==
    ASSUME InStep, NEW s \in Terminals, EndPush(s), tags \subseteq tags',
           tags' \subseteq References, \A i \in Terminals \ {s} : todo'[i] = todo[i]
    PROVE  Assembly'
<1>1. /\ looked' \in [Terminals -> Nat] /\ looked'[s] = 0
      /\ \A i \in Terminals \ {s} : looked'[i] = looked[i]
      /\ outlived' = outlived \ {s}
  BY DEF EndPush, InStep, Assembly
<1>2. ASSUME NEW i \in Terminals PROVE LookedUp(i)'
  <2>1. CASE i = s
    BY <1>1, <2>1 DEF LookedUp
  <2>2. CASE i # s
    BY <1>1, <2>2, StillLooked
  <2> QED BY <2>1, <2>2
<1> QED BY <1>1, <1>2 DEF Assembly

\* A task that starts has pushed nothing yet.
LEMMA CallKeeps ==
    ASSUME InStep, NEW s \in Terminals, NEW t \in Given, Call(s, t)
    PROVE  InStep'
<1>1. t \in Tasks /\ t # None
  BY GivenAssumption, NoTask
<1>2. /\ DOMAIN task' = Terminals /\ DOMAIN todo' = Terminals
      /\ task'[s] = t /\ todo'[s] = Recipe[t]
      /\ \A i \in Terminals \ {s} : task'[i] = task[i] /\ todo'[i] = todo[i]
      /\ task' \in [Terminals -> Tasks \cup {None}]
      /\ UNCHANGED <<tags, finished, pushing, calm>> /\ (calm => t # "registry:stop")
  BY <1>1 DEF Call, InStep, MenuTypeOK
<1>3. Done(s, 0)'
  <2>1. Recipe[t] \in Seq(Steps) /\ 0 \in 0 .. Len(Recipe[t]) /\ 0 + 1 = 1
    BY <1>1, RecipeSteps
  <2>2. Recipe[t] = SubSeq(Recipe[t], 0 + 1, Len(Recipe[t]))
    BY <2>1, SubSeqFull
  <2>3. PushedIn(t, 0) = {}
    BY DEF PushedIn
  <2> QED BY <1>2, <2>1, <2>2, <2>3 DEF Done, PushedIn
<1>4. \A i \in Terminals : At(i)'
  <2>1. At(s)'
    BY <1>1, <1>2, <1>3 DEF At
  <2>2. ASSUME NEW i \in Terminals \ {s} PROVE At(i)'
    BY <1>2, Elsewhere
  <2> QED BY <2>1, <2>2
<1>5. MenuTypeOK' /\ Assembly'
  <2>1. todo[s] = << >>
    BY DEF Call, InStep, At
  <2>2. Assembly'
    BY <1>2, <2>1, OtherSteps DEF Assembling
  <2> QED BY <1>2, <2>2 DEF InStep, MenuTypeOK
<1>6. calm' => \A i \in Terminals : task'[i] # "registry:stop"
  BY <1>2 DEF InStep
<1> QED BY <1>2, <1>4, <1>5, <1>6, StillFinished DEF InStep

\* Looking for the registry loses nothing on a calm machine.
LEMMA EnsureKeeps ==
    ASSUME InStep, NEW s \in Terminals, EnsureRegistry(s) PROVE InStep'
<1>1. /\ todo[s] # << >> /\ Head(todo[s]) = Ensure /\ Go(s) /\ ~Assembling(s)
      /\ UNCHANGED <<tags, finished, pushing, calm>>
  BY NotAssembling DEF EnsureRegistry, Does, Started
<1>2. Assembly'
  BY <1>1, OtherSteps DEF Go, InStep, MenuTypeOK
<1> QED BY <1>1, <1>2, NotPushed, GoKeeps

\* Waiting changes no tag.
LEMMA AwaitKeeps ==
    ASSUME InStep, NEW s \in Terminals, AwaitRegistry(s) PROVE InStep'
<1>1. /\ todo[s] # << >> /\ Head(todo[s]) = Await /\ Go(s) /\ ~Assembling(s)
      /\ UNCHANGED <<tags, finished, pushing, calm>>
  BY NotAssembling DEF AwaitRegistry, Does
<1>2. Assembly'
  BY <1>1, OtherSteps DEF Go, InStep, MenuTypeOK
<1> QED BY <1>1, <1>2, NotPushed, GoKeeps

\* The menu appears at the end of a task.
LEMMA BootKeeps ==
    ASSUME InStep, NEW s \in Terminals, BootMenu(s) PROVE InStep'
<1>1. /\ todo[s] # << >> /\ Head(todo[s]) = Boot /\ Go(s) /\ ~Assembling(s)
      /\ UNCHANGED <<tags, finished, pushing, calm>>
  BY NotAssembling DEF BootMenu, Does
<1>2. Assembly'
  BY <1>1, OtherSteps DEF Go, InStep, MenuTypeOK
<1> QED BY <1>1, <1>2, NotPushed, GoKeeps

\* A push adds its tag.
LEMMA PushArtifactKeeps ==
    ASSUME InStep, NEW s \in Terminals, PushArtifact(s) PROVE InStep'
<1>1. /\ todo[s] # << >> /\ Head(todo[s]) \in References /\ ~Assembling(s)
      /\ tags' = tags \cup {Head(todo[s])} /\ Go(s)
      /\ UNCHANGED <<finished, pushing, calm>>
  BY DEF PushArtifact, Assembling
<1>2. Assembly'
  <2>1. looked[s] = 0 /\ looked' = looked /\ outlived' = outlived
    BY <1>1 DEF InStep, Assembly, LookedUp, pushing
  <2>2. \A i \in Terminals \ {s} : todo'[i] = todo[i]
    BY <1>1 DEF Go, InStep, MenuTypeOK
  <2>3. \A i \in Terminals : LookedUp(i)'
    <3> TAKE i \in Terminals
    <3>1. todo'[i] = todo[i] \/ looked[i] = 0
      BY <2>1, <2>2
    <3> QED BY <1>1, <2>1, <3>1, StillLooked
  <2> QED BY <1>1, <2>1, <2>3 DEF InStep, Assembly
<1> QED BY <1>1, <1>2, GoKeeps

\* What is looked up is there.
LEMMA DescribeKeeps ==
    ASSUME InStep, NEW s \in Terminals, Describe(s) PROVE InStep'
<1> DEFINE ref == Head(todo[s])
<1>1. /\ Assembling(s) /\ looked[s] < Len(Parts[ref]) /\ Parts[ref][looked[s] + 1] \in tags
      /\ looked' = [looked EXCEPT ![s] = @ + 1]
      /\ UNCHANGED <<tags, finished, task, todo, outlived, calm>>
  BY DEF Describe, Found
<1>2. /\ looked[s] \in Nat /\ looked' \in [Terminals -> Nat] /\ looked'[s] = looked[s] + 1
      /\ \A i \in Terminals \ {s} : looked'[i] = looked[i]
  BY <1>1 DEF InStep, Assembly
<1>3. LookedUp(s)'
  <2>1. ref \in DOMAIN Parts
    BY <1>1 DEF Assembling
  <2>2. Len(Parts[ref]) \in Nat
    BY <2>1, TwoListed
  <2>3. looked'[s] <= Len(Parts[ref])
    BY <1>1, <1>2, <2>2
  <2>4. ASSUME s \notin outlived, NEW n \in 1 .. (looked[s] + 1)
        PROVE  Parts[ref][n] \in tags
    <3>1. CASE n = looked[s] + 1
      BY <1>1, <3>1
    <3>2. CASE n # looked[s] + 1
      <4>1. n \in 1 .. looked[s] /\ looked[s] # 0
        BY <1>2, <3>2
      <4> QED BY <2>4, <4>1 DEF InStep, Assembly, LookedUp
    <3> QED BY <3>1, <3>2
  <2>5. Assembling(s)' /\ todo' = todo /\ tags' = tags /\ outlived' = outlived
    BY <1>1 DEF Assembling
  <2>6. s \in outlived' \/ \A n \in 1 .. looked'[s] : Parts[Head(todo'[s])][n] \in tags'
    BY <1>2, <2>4, <2>5
  <2> QED BY <2>3, <2>5, <2>6 DEF LookedUp
<1>4. \A i \in Terminals : LookedUp(i)'
  <2> TAKE i \in Terminals
  <2>1. CASE i # s
    BY <1>1, <1>2, <2>1, StillLooked
  <2> QED BY <1>3, <2>1
<1>5. Assembly'
  BY <1>1, <1>2, <1>4 DEF InStep, Assembly
<1> QED BY <1>1, <1>5, ContainerKeeps

\* An index is pushed, a push fails.
LEMMA PushIndexKeeps ==
    ASSUME InStep, NEW s \in Terminals, PushIndex(s) PROVE InStep'
<1>1. /\ todo[s] # << >> /\ Head(todo[s]) \in References
      /\ tags' = tags \cup {Head(todo[s])} /\ Go(s) /\ EndPush(s)
      /\ UNCHANGED <<finished, calm>>
  BY DEF PushIndex, Assembling, References
<1>2. Assembly'
  <2>1. tags' \subseteq References /\ \A i \in Terminals \ {s} : todo'[i] = todo[i]
    BY <1>1 DEF Go, InStep, MenuTypeOK, Assembly
  <2> QED BY <1>1, <2>1, EndPushKeeps
<1> QED BY <1>1, <1>2, GoKeeps

LEMMA PushFailsKeeps ==
    ASSUME InStep, NEW s \in Terminals, PushFails(s) PROVE InStep'
<1>1. Return(s) /\ EndPush(s) /\ UNCHANGED <<tags, finished, calm>>
  BY DEF PushFails, Refused
<1>2. Assembly'
  <2>1. tags' \subseteq References /\ \A i \in Terminals \ {s} : todo'[i] = todo[i]
    BY <1>1 DEF Return, InStep, MenuTypeOK, Assembly
  <2> QED BY <1>1, <2>1, EndPushKeeps
<1>3. finished' \subseteq Tasks
  BY <1>1 DEF InStep, MenuTypeOK
<1> QED BY <1>1, <1>2, <1>3, ReturnKeeps

\* docker run starts a registry only where none is.
LEMMA RunKeeps ==
    ASSUME InStep, NEW s \in Terminals, RunRegistry(s) PROVE InStep'
<1>1. /\ todo[s] # << >> /\ Head(todo[s]) = "run" /\ (Go(s) \/ Return(s))
      /\ ~Assembling(s) /\ UNCHANGED <<tags, finished, pushing, calm>>
  BY NotAssembling DEF RunRegistry, Does, Started
<1>2. Assembly' /\ finished' \subseteq Tasks
  <2>1. \A i \in Terminals \ {s} : todo'[i] = todo[i]
    BY <1>1 DEF Go, Return, InStep, MenuTypeOK
  <2> QED BY <1>1, <2>1, OtherSteps DEF InStep, MenuTypeOK
<1>3. CASE Go(s)
  BY <1>1, <1>2, <1>3, NotPushed, GoKeeps
<1>4. CASE Return(s)
  BY <1>1, <1>2, <1>4, ReturnKeeps
<1> QED BY <1>1, <1>3, <1>4

\* A calm machine's registry is not stopped.
LEMMA StopKeeps ==
    ASSUME InStep, NEW s \in Terminals, StopRegistry(s) PROVE InStep'
<1>1. /\ todo[s] # << >> /\ Head(todo[s]) = "stop" /\ Return(s) /\ ~Assembling(s)
      /\ Lost /\ UNCHANGED <<finished, calm>>
  BY NotAssembling DEF StopRegistry, Does
<1>2. task[s] = "registry:stop"
  <2>1. task[s] \in Tasks
    BY <1>1, NextStep
  <2>2. PICK n \in Nat : n + 1 \in 1 .. Len(Recipe[task[s]])
                          /\ Head(todo[s]) = Recipe[task[s]][n + 1]
    BY <1>1, NextStep
  <2> QED BY <1>1, <2>1, <2>2, RecipeSteps
<1>3. ~calm
  BY <1>2 DEF InStep
<1>4. Assembly' /\ finished' \subseteq Tasks
  <2>1. \A i \in Terminals \ {s} : todo'[i] = todo[i]
    BY <1>1 DEF Return, InStep, MenuTypeOK
  <2> QED BY <1>1, <2>1, LostKeeps DEF InStep, MenuTypeOK
<1> QED BY <1>1, <1>3, <1>4, ReturnKeeps

\* A task that ends well has pushed all its references.
LEMMA FinishKeeps ==
    ASSUME InStep, NEW s \in Terminals, Finish(s) PROVE InStep'
<1>1. /\ task[s] # None /\ todo[s] = << >> /\ Return(s)
      /\ finished' = finished \cup ({task[s]} \cap Multis) /\ ~Assembling(s)
      /\ UNCHANGED <<tags, pushing, calm>>
  BY DEF Finish, Assembling
<1>2. task[s] \in Tasks
  BY <1>1 DEF InStep, MenuTypeOK
<1>3. PICK n \in Nat : Done(s, n)
  BY <1>1 DEF InStep, At
<1>4. n = Len(Recipe[task[s]])
  <2> DEFINE r == Recipe[task[s]]
  <2>1. r \in Seq(Steps) /\ Len(r) \in Nat
    BY <1>2, RecipeSteps
  <2>2. n \in 0 .. Len(r) /\ SubSeq(r, n + 1, Len(r)) = << >>
    BY <1>1, <1>3 DEF Done
  <2> HIDE DEF r
  <2>3. SUFFICES ASSUME n < Len(r) PROVE FALSE
    BY <2>1, <2>2 DEF r
  <2>4. n + 1 \in 1 .. Len(r)
    BY <2>1, <2>2, <2>3
  <2>5. Len(SubSeq(r, n + 1, Len(r))) = Len(r) - n
    <3>1. \A i \in (n + 1) .. Len(r) : r[i] \in Steps
      BY <2>1, <2>2
    <3>2. n + 1 \in Int /\ Len(r) \in Int /\ n + 1 <= Len(r)
          /\ Len(r) - (n + 1) + 1 = Len(r) - n
      BY <2>1, <2>4
    <3> QED BY <3>1, <3>2, SubSeqProperties
  <2> DEFINE rest == SubSeq(r, n + 1, Len(r))
  <2>6. rest = << >> /\ Len(rest) = Len(r) - n
    BY <2>2, <2>5
  <2> HIDE DEF rest
  <2>7. Len(rest) = 0
    BY <2>6
  <2> QED BY <2>1, <2>2, <2>3, <2>6, <2>7
<1>5. Assembly' /\ finished' \subseteq Tasks
  <2>1. \A i \in Terminals \ {s} : todo'[i] = todo[i]
    BY <1>1 DEF Return, InStep, MenuTypeOK
  <2> QED BY <1>1, <1>2, <2>1, OtherSteps DEF InStep, MenuTypeOK
<1>6. \A t \in finished' \ finished : calm => PushedIn(t, Len(Recipe[t])) \subseteq tags'
  BY <1>1, <1>3, <1>4 DEF Done
<1> QED BY <1>1, <1>5, <1>6, ReturnKeeps

\* Every step of every terminal keeps the invariant.
LEMMA InStepStep == InStep /\ [Next]_vars => InStep'
<1> SUFFICES ASSUME InStep, [Next]_vars PROVE InStep'
  OBVIOUS
<1>1. CASE UNCHANGED vars
  <2>1. UNCHANGED <<tags, finished, task, todo, pushing, calm>>
    BY <1>1 DEF vars
  <2> QED BY <2>1, NoSteps, ContainerKeeps
<1>2. ASSUME NEW s \in Terminals, TaskStep(s) PROVE InStep'
  BY <1>2, EnsureKeeps, AwaitKeeps, PushArtifactKeeps, DescribeKeeps, PushIndexKeeps,
     PushFailsKeeps, BootKeeps, RunKeeps, StopKeeps, FinishKeeps DEF TaskStep
<1>3. ASSUME NEW s \in Terminals, NEW t \in Given, Call(s, t) PROVE InStep'
  BY <1>3, CallKeeps
<1>4. CASE Serve
  <2>1. UNCHANGED <<tags, finished, task, todo, pushing, calm>>
    BY <1>4 DEF Serve
  <2> QED BY <2>1, NoSteps, ContainerKeeps
<1>5. CASE GoAway
  <2>1. ~calm /\ Lost /\ UNCHANGED <<finished, task, todo, calm>>
    BY <1>5 DEF GoAway
  <2>2. CASE Terminals = {}
    <3>1. Assembly'
      BY <2>1, <2>2 DEF Lost, InStep, Assembly
    <3> QED BY <2>1, <3>1, ContainerKeeps
  <2>3. CASE Terminals # {}
    <3>1. Assembly'
      BY <2>1, <2>3, LostKeeps
    <3> QED BY <2>1, <3>1, ContainerKeeps
  <2> QED BY <2>2, <2>3
<1> QED BY <1>1, <1>2, <1>3, <1>4, <1>5 DEF Next

\* It holds where nothing runs yet.
LEMMA InStepInit == Init => InStep
<1> SUFFICES ASSUME Init PROVE InStep
  OBVIOUS
<1>1. MenuTypeOK /\ \A s \in Terminals : task[s] = None /\ todo[s] = << >>
  BY DEF Init, MenuTypeOK
<1>2. Assembly /\ finished = {}
  BY DEF Init, Assembly, LookedUp
<1> QED BY <1>1, <1>2 DEF InStep, At, None

-----------------------------------------------------------------------------
(* The theorems.                                                           *)

\* Every terminal is at some step of its task, and what was pushed on the way
\* is there until the registry goes.
THEOREM Steady == Spec => []InStep
<1>1. InStep /\ [Next]_vars => InStep'
  BY InStepStep
<1> QED BY <1>1, InStepInit, PTL DEF Spec

\* A terminal that boots a menu has taken every other step of a menu task.
LEMMA BootIsLast ==
    ASSUME InStep, NEW s \in Terminals, Booting(s)
    PROVE  /\ task[s] \in Menus
           /\ calm => PushedIn(task[s], Len(Recipe[task[s]])) \subseteq tags
<1>1. todo[s] # << >> /\ Head(todo[s]) = Boot
  BY DEF Booting, Does
<1>2. task[s] \in Tasks
  BY <1>1, NextStep
<1> DEFINE r == Recipe[task[s]]
<1>3. PICK n \in Nat : n + 1 \in 1 .. Len(r) /\ Done(s, n) /\ r[n + 1] = Boot
  BY <1>1, NextStep
<1>4. task[s] \in Menus /\ n + 1 = Len(r)
  BY <1>2, <1>3, RecipeSteps
<1>5. ASSUME calm, NEW i \in 1 .. Len(r), r[i] \in References PROVE r[i] \in tags
  <2>1. i # n + 1
    BY <1>3, <1>5, NotPushed
  <2>2. i \in 1 .. n
    BY <1>3, <1>4, <2>1
  <2> QED BY <1>3, <1>5, <2>2 DEF Done, PushedIn
<1> QED BY <1>4, <1>5 DEF PushedIn

\* A menu that appears finds whatever its own task has pushed, whatever the
\* tasks in other terminals do, as long as the registry is not stopped.
THEOREM OwnPushes == Spec => []OwnPushesThere
<1>1. InStep => OwnPushesThere
  <2> SUFFICES ASSUME InStep, calm, NEW s \in Terminals, Booting(s),
                      NEW i \in DOMAIN Recipe[task[s]], Recipe[task[s]][i] \in References
               PROVE  Recipe[task[s]][i] \in tags
    BY DEF OwnPushesThere
  <2>1. task[s] \in Tasks /\ PushedIn(task[s], Len(Recipe[task[s]])) \subseteq tags
    BY BootIsLast DEF Tasks
  <2>2. Recipe[task[s]] \in Seq(Steps)
    BY <2>1, RecipeSteps
  <2>3. i \in 1 .. Len(Recipe[task[s]])
    BY <2>2
  <2> QED BY <2>1, <2>3 DEF PushedIn
<1> QED BY <1>1, Steady, PTL

\* A menu that appears after both push:*:multi tasks have succeeded offers two
\* OCI targets that name nothing, primary and rescue, as long as the registry is
\* not stopped.
THEOREM PlanResolves == Spec => []ResolvedAfterMulti
<1>1. InStep => ResolvedAfterMulti
  <2> SUFFICES ASSUME InStep, calm, NEW s \in Terminals, Booting(s), finished = Multis
               PROVE  PlanReferences \ tags = {"linux:6.6", "rescue:latest"}
    BY DEF ResolvedAfterMulti
  <2>1. Live \in tags
    BY BootIsLast, PushesOfPlan
  <2>2. "alpine:3.21" \in tags /\ "debian:13" \in tags
    BY PushesOfPlan DEF InStep, Multis
  <2>3. "linux:6.6" \notin tags /\ "rescue:latest" \notin tags
    BY NotPushed DEF InStep, Assembly
  <2> QED BY <2>1, <2>2, <2>3 DEF PlanReferences, Distros
<1> QED BY <1>1, Steady, PTL

\* What a push adds to a registry.
LEMMA NewIndex ==
    ASSUME InStep, [Next]_vars, NEW i \in DOMAIN Parts \cap (tags' \ tags)
    PROVE  Listed(i) \subseteq tags \/ \E s \in outlived : Does(s, i)
<1>1. PICK s \in Terminals : PushArtifact(s) \/ PushIndex(s)
  BY DEF Next, vars, Call, TaskStep, EnsureRegistry, Started, AwaitRegistry, Describe,
         PushFails, BootMenu, RunRegistry, StopRegistry, Finish, Serve, GoAway, Lost
<1>2. CASE PushArtifact(s)
  BY <1>2 DEF PushArtifact
<1>3. CASE PushIndex(s)
  <2>1. i = Head(todo[s]) /\ Does(s, i) /\ looked[s] = Len(Parts[i])
    BY <1>3 DEF PushIndex, Assembling, Does
  <2>2. looked[s] = 2
    BY <2>1, TwoListed
  <2>3. s \in outlived \/ (Parts[i][1] \in tags /\ Parts[i][2] \in tags)
    BY <2>1, <2>2 DEF InStep, Assembly, LookedUp
  <2> QED BY <2>1, <2>3, TwoListed
<1> QED BY <1>1, <1>2, <1>3

\* A registry gets an index without the artifacts it lists only from a push that
\* looked some of them up in a registry that has gone since.
THEOREM WholeIndexes == Spec => IndexesWhole
<1>1. InStep /\ [Next]_vars =>
        [\A i \in DOMAIN Parts \cap (tags' \ tags) :
            Listed(i) \subseteq tags \/ \E s \in outlived : Does(s, i)]_vars
  BY NewIndex
<1> QED BY <1>1, Steady, PTL DEF Spec, IndexesWhole
=============================================================================
