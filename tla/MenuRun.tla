------------------------------ MODULE MenuRun ------------------------------
(***************************************************************************)
(* The Taskfile's qemu:arm64:menu and vfkit:arm64:menu tasks, next to the  *)
(* tasks that push multi-arch indexes and stop the registry: terminals in  *)
(* which tasks run, and the registry container they share, which keeps     *)
(* what is pushed only as long as it runs (docker run --rm, no volume).    *)
(* The steps that concern neither the registry nor the boot are left out.  *)
(***************************************************************************)
EXTENDS Integers, Sequences, FiniteSets

CONSTANTS
    Terminals,      \* shells in which the user runs tasks
    Given           \* tasks the user runs, of Tasks

Menus == {"qemu:arm64:menu", "vfkit:arm64:menu"}
Multis == {"push:alpine:multi", "push:debian:multi"}
Tasks == Menus \cup Multis \cup {"registry", "registry:stop"}

\* The per-arch tags an index is assembled from, in the order they are given.
Parts == [i \in {"alpine:3.21", "debian:13"} |->
    CASE i = "alpine:3.21" -> <<"alpine:3.21-amd64", "alpine:3.21-arm64">>
      [] i = "debian:13" -> <<"debian:13-amd64", "debian:13-arm64">>]
Listed(i) == {Parts[i][n] : n \in DOMAIN Parts[i]}
Live == "debian-live:13.5.0-standard-amd64"
Plan == "plan:vz-test"

\* What the OCI targets of examples/plan-vz-test.hcl name: alpine and
\* alpine-debug, debian, debian-live; primary and rescue.
Distros == {"alpine:3.21", "debian:13", Live}
PlanReferences == Distros \cup {"linux:6.6", "rescue:latest"}

Ensure == "ensure"
Await == "await"
Boot == "boot"

\* Mutant: the index is left out of push:debian:multi.
DebianMultiNoIndex == <<"debian:13-amd64", "debian:13-arm64">>

Prepare == <<Ensure, Await>>
AlpineMulti == <<"alpine:3.21-amd64", "alpine:3.21-arm64", "alpine:3.21">>
DebianMulti == <<"debian:13-amd64", "debian:13-arm64", "debian:13">>

\* A step in References is a push.
Recipe == [t \in Tasks |->
    CASE t = "qemu:arm64:menu" ->
            Prepare \o <<"alpine:3.21-arm64", "debian:13-arm64", Live, Plan, Boot>>
      [] t = "vfkit:arm64:menu" ->
            Prepare \o AlpineMulti \o <<"debian:13-arm64", Live, Boot>>
      [] t = "push:alpine:multi" -> AlpineMulti
      [] t = "push:debian:multi" -> DebianMulti
      [] t = "registry" -> <<"run">>
      [] t = "registry:stop" -> <<"stop">>]

References == DOMAIN Parts \cup (UNION {Listed(i) : i \in DOMAIN Parts}) \cup {Live, Plan}

ASSUME GivenAssumption == Given \subseteq Tasks

VARIABLES
    container,  \* of the registry: "none", "starting" or "up"
    tags,       \* the references it holds
    finished,   \* history: the tasks of Multis that have succeeded
    task, todo, \* of each terminal: its task, and the steps left of it
    looked,     \* of each terminal: how many parts of the index it assembles it
                \* has looked up
    outlived,   \* history: the terminals that looked some up in a registry that
                \* has gone
    calm        \* rigid: `docker run` does not fail, a port being taken say, and
                \* nobody stops the registry
pushing == <<looked, outlived>>
vars == <<container, tags, finished, task, todo, pushing, calm>>

None == "none"

Init ==
    /\ container = "none" /\ tags = {} /\ finished = {}
    /\ task = [s \in Terminals |-> None]
    /\ todo = [s \in Terminals |-> <<>>]
    /\ looked = [s \in Terminals |-> 0] /\ outlived = {}
    /\ calm \in BOOLEAN

Call(s, t) ==
    /\ task[s] = None /\ (calm => t # "registry:stop")
    /\ task' = [task EXCEPT ![s] = t]
    /\ todo' = [todo EXCEPT ![s] = Recipe[t]]
    /\ UNCHANGED <<container, tags, finished, pushing, calm>>

Does(s, step) == todo[s] # <<>> /\ Head(todo[s]) = step
Go(s) == todo' = [todo EXCEPT ![s] = Tail(@)] /\ UNCHANGED task
Return(s) ==
    /\ task' = [task EXCEPT ![s] = None]
    /\ todo' = [todo EXCEPT ![s] = <<>>]
EndPush(s) == looked' = [looked EXCEPT ![s] = 0] /\ outlived' = outlived \ {s}

\* Mutant: the container is run although it is there.
StartedAlways == container' = "starting" /\ tags' = {}

\* docker ps | grep || docker run
Started ==
    /\ container' = IF container = "none" THEN "starting" ELSE container
    /\ UNCHANGED tags

\* The status of `docker run` is not looked at.
EnsureRegistry(s) ==
    /\ Does(s, Ensure)
    /\ \/ Started
       \/ ~calm /\ container = "none" /\ UNCHANGED <<container, tags>>
    /\ Go(s)
    /\ UNCHANGED <<finished, pushing, calm>>

\* until curl; do sleep 1; done
AwaitRegistry(s) ==
    /\ Does(s, Await) /\ container = "up"
    /\ Go(s)
    /\ UNCHANGED <<container, tags, finished, pushing, calm>>

\* cloud-boot push artifact and plan.
PushArtifact(s) ==
    /\ todo[s] # <<>> /\ Head(todo[s]) \in References \ DOMAIN Parts
    /\ container = "up"
    /\ tags' = tags \cup {Head(todo[s])}
    /\ Go(s)
    /\ UNCHANGED <<container, finished, pushing, calm>>

Assembling(s) == todo[s] # <<>> /\ Head(todo[s]) \in DOMAIN Parts

\* Mutant: whatever is given is put into the index.
FoundUnseen(ref) == container = "up"

\* GET of a manifest
Found(ref) == container = "up" /\ ref \in tags

\* cloud-boot push index looks its parts up one after the other
Describe(s) ==
    /\ Assembling(s) /\ looked[s] < Len(Parts[Head(todo[s])])
    /\ Found(Parts[Head(todo[s])][looked[s] + 1])
    /\ looked' = [looked EXCEPT ![s] = @ + 1]
    /\ UNCHANGED <<container, tags, finished, task, todo, outlived, calm>>

\* and stores the index, wherever they were found.
PushIndex(s) ==
    /\ Assembling(s) /\ looked[s] = Len(Parts[Head(todo[s])])
    /\ container = "up"
    /\ tags' = tags \cup {Head(todo[s])}
    /\ Go(s) /\ EndPush(s)
    /\ UNCHANGED <<container, finished, calm>>

\* Mutant: a push that fails is repeated.
RefusedRepeated(s) == UNCHANGED <<task, todo>>

\* A command that fails ends the task.
Refused(s) == Return(s)

\* A download, a lookup or a request of a push fails.
PushFails(s) ==
    /\ todo[s] # <<>> /\ Head(todo[s]) \in References
    /\ Refused(s) /\ EndPush(s)
    /\ UNCHANGED <<container, tags, finished, calm>>

\* qemu-system-aarch64, vfkit: the menu appears, and its targets are pulled.
BootMenu(s) ==
    /\ Does(s, Boot)
    /\ Go(s)
    /\ UNCHANGED <<container, tags, finished, pushing, calm>>

\* docker run, which fails when there is a container of that name.
RunRegistry(s) ==
    /\ Does(s, "run")
    /\ \/ container = "none" /\ Started /\ Go(s)
       \/ /\ container # "none" \/ ~calm
          /\ UNCHANGED <<container, tags>>
          /\ Return(s)
    /\ UNCHANGED <<finished, pushing, calm>>

\* The container and all it holds are gone.
Lost ==
    /\ container' = "none" /\ tags' = {}
    /\ outlived' = outlived \cup {s \in Terminals : looked[s] > 0}
    /\ UNCHANGED looked

\* docker stop
StopRegistry(s) ==
    /\ Does(s, "stop")
    /\ Lost
    /\ Return(s)
    /\ UNCHANGED <<finished, calm>>

Finish(s) ==
    /\ task[s] # None /\ todo[s] = <<>>
    /\ finished' = finished \cup ({task[s]} \cap Multis)
    /\ Return(s)
    /\ UNCHANGED <<container, tags, pushing, calm>>

\* The container's registry begins to answer; the container goes away.
Serve ==
    /\ container = "starting" /\ container' = "up"
    /\ UNCHANGED <<tags, finished, task, todo, pushing, calm>>

GoAway ==
    /\ ~calm /\ container # "none"
    /\ Lost
    /\ UNCHANGED <<finished, task, todo, calm>>

TaskStep(s) == EnsureRegistry(s) \/ AwaitRegistry(s)
               \/ PushArtifact(s) \/ Describe(s) \/ PushIndex(s) \/ PushFails(s)
               \/ BootMenu(s) \/ RunRegistry(s) \/ StopRegistry(s) \/ Finish(s)

Next ==
    \/ \E s \in Terminals : TaskStep(s)
    \/ \E s \in Terminals, t \in Given : Call(s, t)
    \/ Serve \/ GoAway

\* Shells run their scripts on, and a container that was started serves.
Spec == Init /\ [][Next]_vars /\ WF_vars(Serve) /\ \A s \in Terminals : WF_vars(TaskStep(s))

-----------------------------------------------------------------------------
(* Properties.                                                             *)

Booting(s) == Does(s, Boot)

\* As long as the registry is not stopped, a menu that appears finds whatever
\* its own task has pushed, whichever tasks run in the other terminals.
OwnPushesThere == calm => \A s \in Terminals : Booting(s) =>
    {Recipe[task[s]][i] : i \in DOMAIN Recipe[task[s]]} \cap References \subseteq tags

\* As long as the registry is not stopped, a menu that appears after both
\* push:*:multi tasks offers only two OCI targets that name nothing: primary and
\* rescue, which no task pushes.
ResolvedAfterMulti == calm => \A s \in Terminals :
    Booting(s) /\ finished = Multis =>
        PlanReferences \ tags = {"linux:6.6", "rescue:latest"}

\* A registry gets an index without the artifacts it lists only from a push that
\* looked some of them up in a registry that has gone since.  A registry that is
\* replaced before the first lookup or between the tasks gets none.
IndexesWhole == [][\A i \in DOMAIN Parts \cap (tags' \ tags) :
    Listed(i) \subseteq tags \/ \E s \in outlived : Does(s, i)]_vars

\* The comment on qemu:arm64:menu: it pushes the artifacts of alpine,
\* alpine-debug, debian and debian-live, which the registry then serves.
TargetsServed == calm => \A s \in Terminals :
    Booting(s) /\ task[s] = "qemu:arm64:menu" => Distros \subseteq tags

\* Whatever happens to the registry, a task ends or waits for it to answer.
WaitsOnlyForRegistry == \A s \in Terminals :
    task[s] # None ~> task[s] = None \/ (Does(s, Await) /\ container # "up")

\* As long as the registry is not stopped, every task comes to an end: the menu
\* to its boot.
TasksEnd == \A s \in Terminals : calm /\ task[s] # None ~> task[s] = None
=============================================================================
