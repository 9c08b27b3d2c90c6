------------------------------ MODULE FakeReg ------------------------------
(***************************************************************************)
(* internal/fakereg: the in-process registries the tests of the push       *)
(* subcommands run against, Start's and StatefulFailReg's, and a test that *)
(* pushes one artifact after the other and asks for manifests.             *)
(*                                                                         *)
(* Start's registry is compared with Registry, the module the push model   *)
(* uses: it keeps what was PUT last under each tag and nothing else.       *)
(***************************************************************************)
EXTENDS Naturals, Sequences, FiniteSets

CONSTANTS
    Tags,       \* tags the test pushes and asks for
    Artifacts,  \* what it pushes: sequences of the blobs, config first
    FailOns,    \* values of StatefulFailReg's failOn; 0 is the registry of Start
    None        \* no manifest: an empty body

Digests == UNION {{a[i] : i \in DOMAIN a} : a \in Artifacts}

ASSUME FailOnsAssumption == FailOns \subseteq Nat
ASSUME ArtifactsAssumption == Artifacts \subseteq Seq(Digests)

VARIABLES
    failOn,     \* rigid: which registry it is
    Blobs,      \* digests uploaded
    Manifest,   \* the manifest PUT last
    Manifests,  \* tag in the URL path -> the manifest PUT there last
    calls,      \* StatefulFailReg: upload POSTs so far, not counted past failOn
    pc, art, tag, todo, \* the client: its next request, its push, blobs left
    first       \* whether the client is in its first push
server == <<failOn, Blobs, Manifest, Manifests, calls>>
vars == <<failOn, Blobs, Manifest, Manifests, calls, pc, art, tag, todo, first>>

Init ==
    /\ failOn \in FailOns
    /\ Blobs = {} /\ Manifest = None /\ Manifests = [t \in {} |-> None] /\ calls = 0
    /\ pc = "new" /\ art \in Artifacts /\ tag \in Tags /\ todo = <<>> /\ first = TRUE

-----------------------------------------------------------------------------
(* The handlers.                                                           *)

\* Mutant: StatefulFailReg remembers what was uploaded.
HasBlobAlways(d) == d \in Blobs

\* HEAD of a blob.
HasBlob(d) == failOn = 0 /\ d \in Blobs

\* PUT of an upload; the blobs of StatefulFailReg are a ghost.
KeepBlob(d) == Blobs' = Blobs \cup {d}

\* Mutant: only the last manifest is kept.
KeepManifestLast(t, m) ==
    /\ Manifest' = m
    /\ Manifests' = [u \in {t} |-> m]

\* PUT of a manifest.
KeepManifest(t, m) ==
    /\ Manifest' = m
    /\ Manifests' = [u \in DOMAIN Manifests \cup {t} |-> IF u = t THEN m ELSE Manifests[u]]

\* Mutant: the manifest PUT last answers every GET.
AnswerLast(t) == Manifest

\* GET of a manifest.
Answer(t) == IF t \in DOMAIN Manifests THEN Manifests[t] ELSE Manifest

-----------------------------------------------------------------------------
(* A test: artifact.Run, and the requests the client library makes.        *)

Begin(t, a) ==
    /\ pc \in {"new", "idle", "failed"}
    /\ pc' = "head" /\ tag' = t /\ art' = a /\ todo' = a
    /\ first' = (pc = "new")
    /\ UNCHANGED server

\* A blob the registry has is not uploaded again.
HeadBlob ==
    /\ pc = "head" /\ todo # <<>>
    /\ IF HasBlob(Head(todo)) THEN todo' = Tail(todo) /\ UNCHANGED pc
       ELSE pc' = "post" /\ UNCHANGED todo
    /\ UNCHANGED <<server, art, tag, first>>

\* The counter and the failing answer of StatefulFailReg.
PostUpload ==
    /\ pc = "post"
    /\ calls' = IF calls > failOn THEN calls ELSE calls + 1
    /\ pc' = IF calls' = failOn THEN "failed" ELSE "put"
    /\ UNCHANGED <<failOn, Blobs, Manifest, Manifests, art, tag, todo, first>>

PutBlob ==
    /\ pc = "put"
    /\ KeepBlob(Head(todo))
    /\ todo' = Tail(todo) /\ pc' = "head"
    /\ UNCHANGED <<failOn, Manifest, Manifests, calls, art, tag, first>>

PutManifest ==
    /\ pc = "head" /\ todo = <<>>
    /\ IF failOn = 0 THEN KeepManifest(tag, art) ELSE UNCHANGED <<Manifest, Manifests>>
    /\ pc' = "idle"
    /\ UNCHANGED <<failOn, Blobs, calls, art, tag, todo, first>>

Next ==
    \/ \E t \in Tags, a \in Artifacts : Begin(t, a)
    \/ HeadBlob \/ PostUpload \/ PutBlob \/ PutManifest

Spec == Init /\ [][Next]_vars

-----------------------------------------------------------------------------
(* Properties.                                                             *)

\* The registry of Start seen as a Registry with the single repository r: its
\* manifests are those the map still holds, one under each tag.
R == INSTANCE Registry WITH
        Repos <- {"r"}, Contents <- Digests,
        Platforms <- {}, NoPlatform <- None,
        ImageTags <- [repo : {"r"}, tag : Tags], IndexTags <- {},
        blobs <- [r \in {"r"} |-> Blobs],
        manifests <- [r \in {"r"} |-> {Manifests[t] : t \in DOMAIN Manifests}],
        tags <- [ref \in [repo : {"r"}, tag : DOMAIN Manifests] |-> Manifests[ref.tag]]

\* To a test that pushes each tag once the registry of Start is a Registry:
\* every request is one of its writes or none.  Only a PUT to a tag that has a
\* manifest is not, since that manifest is lost, which a Registry would keep.
WritesOfRegistry ==
    /\ R!RegistryInit
    /\ [][\/ failOn # 0
          \/ pc = "head" /\ todo = <<>> /\ tag \in DOMAIN Manifests
          \/ \E d \in R!Blob : R!StoreBlob("r", d)
          \/ \E ref \in R!TagRef, m \in Artifacts : R!StoreManifest(ref, m)]_R!registryVars

\* A tag that was pushed is described as a registry would describe it, however
\* many other tags were pushed since, and its blobs are there: the tests of
\* push multi look at each tag by itself.
ReadsOfRegistry == failOn = 0 => \A t \in DOMAIN Manifests :
    /\ R!Resolve([repo |-> "r", tag |-> t]) = {Answer(t)}
    /\ \A i \in DOMAIN Answer(t) : HasBlob(Answer(t)[i])

\* StatefulFailReg fails the stage of the push a test names by its number, also
\* when two stages upload the same bytes.
FailsAtStage ==
    pc = "failed" /\ first => Len(art) - Len(todo) + 1 = failOn

=============================================================================
