-------------------------------- MODULE Push --------------------------------
(***************************************************************************)
(* `cloud-boot push artifact | plan | index | multi`: processes that       *)
(* assemble artifacts in a shared registry, one request at a time, with no *)
(* coordination between processes and no undo.                             *)
(*                                                                         *)
(* Every subcommand is a walk through the same steps: push each artifact   *)
(* (config blob, layer blobs, manifest), then, for index and multi,        *)
(* describe each per-arch manifest and push the index.  A process may stop *)
(* at any step (unreadable file, registry error, kill), and a request may  *)
(* take effect although its answer never arrives.                          *)
(***************************************************************************)
EXTENDS Registry, FiniteSets

CONSTANTS
    Jobs,           \* processes, each running one command after the other
    PlatformRank,   \* Platforms -> Nat, the order sort.Strings gives them
    NoRef,          \* a reference oci.ParseRef rejects; "no index wanted"
    ArtifactReqs,   \* process -> set of [platform, files, ref] it may be given
    PlanReqs,       \* process -> set of [file, ref]
    IndexReqs,      \* process -> set of [specs, out]
    MultiReqs       \* process -> set of [files, shared, ref]

VARIABLE job
vars == <<blobs, manifests, tags, job>>

-----------------------------------------------------------------------------
(* Requests.                                                               *)

\* The content of each file flag that is set.
IsFiles(f) == DOMAIN f \subseteq Kinds /\ f \in [DOMAIN f -> Contents]

\* Mutant: the suffix of every platform is the same.
DerivePerArchRefNoArch(ref, p) == [ref EXCEPT !.tag = Append(@, "")]

\* <<"6.6">> and linux/arm64 give <<"6.6", "arm64">>, whatever the OS.
DerivePerArchRef(ref, p) == [ref EXCEPT !.tag = Append(@, p.arch)]

ASSUME NamesAssumption ==
    /\ NoRef \notin TagRef \cup DigestRef
    /\ NoPlatform \notin Platforms
    /\ Platforms \subseteq [os : STRING, arch : STRING]
    /\ PlatformRank \in [Platforms \cup {NoPlatform} -> Nat]
    /\ \A p, q \in Platforms \cup {NoPlatform} :
          PlatformRank[p] = PlatformRank[q] => p = q

ASSUME RequestsAssumption == \A j \in Jobs :
    /\ \A q \in ArtifactReqs[j] : q.platform \in Platforms /\ IsFiles(q.files)
                              /\ q.ref \in ImageTags \cup {NoRef}
    /\ \A q \in PlanReqs[j] : q.file \in Contents /\ q.ref \in ImageTags \cup {NoRef}
    /\ \A q \in IndexReqs[j] :
          /\ q.specs \in Seq([platform : Platforms, ref : ImageTags \cup {NoRef}])
          /\ q.out \in IndexTags \cup {NoRef}
    /\ \A q \in MultiReqs[j] :
          /\ DOMAIN q.files \subseteq Platforms /\ IsFiniteSet(DOMAIN q.files)
          /\ IsFiles(q.shared) /\ DOMAIN q.shared \subseteq {"cmdline"}
          /\ q.ref \in IndexTags \cup {NoRef}
          /\ \A p \in DOMAIN q.files :
                /\ IsFiles(q.files[p]) /\ DOMAIN q.files[p] # {}
                /\ q.ref # NoRef => DerivePerArchRef(q.ref, p) \in ImageTags

\* "os/arch" with both parts present.
ParsePlatform(p) == p.os # "" /\ p.arch # ""

-----------------------------------------------------------------------------
(* The state of a process.  `arts` is the work the request asks for, by    *)
(* platform, `left` the platforms not done; `todo` and `layers` are the    *)
(* layer kinds to push and the descriptors collected for the current one;  *)
(* `specs`, `out` and `entries` belong to the index.                       *)

Running == {"config", "layer", "manifest", "describe", "putindex"}

AtRest(pc) == [pc |-> pc, arts |-> [p \in {} |-> {}], left |-> {}, todo |-> {},
               layers |-> <<>>, specs |-> <<>>, out |-> NoRef, entries |-> <<>>]
Idle == AtRest("idle")
Failed == AtRest("failed")

\* Mutant: the index is forgotten once the artifacts are pushed.
ResumeWithoutIndex(r) == [r EXCEPT !.pc = IF r.left # {} THEN "config" ELSE "ok"]

\* What a process does when its current artifact, if any, is finished.
Resume(r) ==
    [r EXCEPT !.pc = IF r.left # {} THEN "config"
                     ELSE IF r.out = NoRef THEN "ok"
                     ELSE IF Len(r.entries) < Len(r.specs) THEN "describe"
                     ELSE "putindex"]

Work(arts, specs, out) ==
    Resume([Idle EXCEPT !.arts = arts, !.left = DOMAIN arts,
                        !.specs = specs, !.out = out])

Init == RegistryInit /\ job = [j \in Jobs |-> Idle]

-----------------------------------------------------------------------------
(* The command line: a request is refused before it touches the registry,  *)
(* or becomes work.                                                        *)

Start(j, accepted, r) ==
    /\ job[j].pc \notin Running
    /\ job' = [job EXCEPT ![j] = IF accepted THEN r ELSE Failed]
    /\ UNCHANGED registryVars

ArtifactRun(j) == \E q \in ArtifactReqs[j] :
    Start(j, ParsePlatform(q.platform) /\ DOMAIN q.files # {} /\ q.ref # NoRef,
          Work([p \in {q.platform} |->
                    [ref |-> q.ref, config |-> p, files |-> q.files]],
               <<>>, NoRef))

\* A plan is an artifact of one layer, with a config of no platform.
PlanArtifact(q) == [ref |-> q.ref, config |-> NoPlatform, files |-> [k \in {"plan"} |-> q.file]]

PlanRun(j) == \E q \in PlanReqs[j] :
    Start(j, q.ref # NoRef,
          Work([p \in {NoPlatform} |-> PlanArtifact(q)], <<>>, NoRef))

\* A spec the user pins: the tag replaced by the digest it resolves to.
Pinned(spec) ==
    IF spec.ref # NoRef /\ Resolve(spec.ref) # {}
    THEN [spec EXCEPT !.ref = [repo |-> @.repo,
                               digest |-> CHOOSE m \in Resolve(@) : TRUE]]
    ELSE spec

IndexRun(j) == \E q \in IndexReqs[j], pin \in BOOLEAN :
    Start(j, q.specs # <<>> /\ q.out # NoRef,
          Work([p \in {} |-> {}],
               [i \in DOMAIN q.specs |->
                    IF pin THEN Pinned(q.specs[i]) ELSE q.specs[i]],
               q.out))

\* Mutant: every platform's artifact goes under the tag of the index.
MultiArtifactOneTag(q, p) ==
    [ref |-> q.ref, config |-> p,
     files |-> [k \in DOMAIN q.files[p] \cup DOMAIN q.shared |->
                    IF k \in DOMAIN q.shared THEN q.shared[k] ELSE q.files[p][k]]]

\* q.files[p] holds what pathFor(p) finds in --kernel, --initrd, --modules;
\* --cmdline, when given, is shared by all platforms.
MultiArtifact(q, p) ==
    [ref |-> DerivePerArchRef(q.ref, p), config |-> p,
     files |-> [k \in DOMAIN q.files[p] \cup DOMAIN q.shared |->
                    IF k \in DOMAIN q.shared THEN q.shared[k]
                    ELSE q.files[p][k]]]

MultiRun(j) == \E q \in MultiReqs[j] :
    Start(j, DOMAIN q.files # {} /\ q.ref # NoRef,
          Work([p \in DOMAIN q.files |-> MultiArtifact(q, p)], <<>>, q.ref))

-----------------------------------------------------------------------------
(* One step of a running process.  Its request to the registry has taken   *)
(* effect when the step ends, but the answer may be lost, and then the     *)
(* process has failed.                                                     *)

Settle(j, r) == job' \in {[job EXCEPT ![j] = r], [job EXCEPT ![j] = Failed]}

\* The platform multi.Run handles next; the only one for artifact and plan.
IsCurrent(r, p) ==
    /\ p \in r.left
    /\ \A q \in r.left : PlatformRank[p] <= PlatformRank[q]

\* Mutant: the loop tries a malformed platform again.
RejectRetried(j) == \E p \in Platforms :
    /\ job[j].pc = "config" /\ IsCurrent(job[j], p) /\ ~ParsePlatform(p)
    /\ UNCHANGED vars

\* In multi.Run a malformed platform is noticed only when its turn comes.
RejectPlatform(j) == \E p \in Platforms :
    /\ job[j].pc = "config" /\ IsCurrent(job[j], p) /\ ~ParsePlatform(p)
    /\ job' = [job EXCEPT ![j] = Failed]
    /\ UNCHANGED registryVars

\* Kinds are pushed in the order of the add calls; without any, artifact.Run
\* refuses the request.
LayerRank == [kernel |-> 1, initrd |-> 2, modules |-> 3, modloop |-> 4,
              apkovl |-> 5, squashfs |-> 6, cmdline |-> 7, plan |-> 8]

PushConfig(j) == \E p \in Platforms \cup {NoPlatform} :
    LET a == job[j].arts[p] IN
    /\ job[j].pc = "config" /\ IsCurrent(job[j], p)
    /\ p # NoPlatform => ParsePlatform(p)
    /\ StoreBlob(a.ref.repo, a.config)
    /\ Settle(j, [job[j] EXCEPT !.pc = "layer", !.todo = DOMAIN a.files,
                                !.layers = <<>>])

PushLayer(j) == \E p \in Platforms \cup {NoPlatform}, k \in Kinds :
    LET a == job[j].arts[p] IN
    /\ job[j].pc = "layer" /\ IsCurrent(job[j], p)
    /\ k \in job[j].todo
    /\ \A l \in job[j].todo : LayerRank[k] <= LayerRank[l]
    /\ StoreBlob(a.ref.repo, a.files[k])
    /\ Settle(j, [job[j] EXCEPT
                    !.todo = @ \ {k},
                    !.layers = Append(@, [kind |-> k, blob |-> a.files[k]]),
                    !.pc = IF job[j].todo = {k} THEN "manifest" ELSE "layer"])

\* artifact.Run is done; multi.Run notes the tag as the index entry's source.
PushManifest(j) == \E p \in Platforms \cup {NoPlatform} :
    LET a == job[j].arts[p] IN
    /\ job[j].pc = "manifest" /\ IsCurrent(job[j], p)
    /\ StoreManifest(a.ref, [type |-> "image", config |-> a.config,
                             layers |-> job[j].layers])
    /\ Settle(j, Resume([job[j] EXCEPT
                    !.left = @ \ {p}, !.layers = <<>>,
                    !.specs = IF job[j].out = NoRef THEN @
                              ELSE Append(@, [platform |-> p, ref |-> a.ref])]))

\* The next spec is parsed and looked up; the answer is the entry's digest.
Describe(j) ==
    LET spec == job[j].specs[Len(job[j].entries) + 1] IN
    /\ job[j].pc = "describe"
    /\ IF ParsePlatform(spec.platform) /\ spec.ref # NoRef
          THEN \/ \E m \in Resolve(spec.ref) :
                    job' = [job EXCEPT ![j] = Resume([job[j] EXCEPT !.entries =
                        Append(@, [platform |-> spec.platform, manifest |-> m])])]
               \/ Resolve(spec.ref) = {} /\ job' = [job EXCEPT ![j] = Failed]
          ELSE job' = [job EXCEPT ![j] = Failed]
    /\ UNCHANGED registryVars

PutIndex(j) ==
    /\ job[j].pc = "putindex"
    /\ StoreManifest(job[j].out, [type |-> "index", entries |-> job[j].entries])
    /\ Settle(j, [job[j] EXCEPT !.pc = "ok"])

\* A file that cannot be read, an error from the registry, a kill.
Fail(j) ==
    /\ job[j].pc \in Running
    /\ job' = [job EXCEPT ![j] = Failed]
    /\ UNCHANGED registryVars

-----------------------------------------------------------------------------
Progress(j) ==
    \/ RejectPlatform(j)
    \/ PushConfig(j)
    \/ PushLayer(j)
    \/ PushManifest(j)
    \/ Describe(j)
    \/ PutIndex(j)

Next == \E j \in Jobs :
    \/ ArtifactRun(j)
    \/ PlanRun(j)
    \/ IndexRun(j)
    \/ MultiRun(j)
    \/ Progress(j)
    \/ Fail(j)

Spec == Init /\ [][Next]_vars

\* A process that runs keeps running: every call it makes returns.
FairSpec == Spec /\ \A j \in Jobs : WF_vars(Progress(j))

-----------------------------------------------------------------------------
(* Properties.                                                             *)

PlatformSpec == [platform : Platforms, ref : Ref \cup {NoRef}]

IsArtifact(a) ==
    /\ DOMAIN a = {"ref", "config", "files"}
    /\ a.ref \in ImageTags
    /\ a.config \in Platforms \cup {NoPlatform}
    /\ IsFiles(a.files) /\ DOMAIN a.files # {}

JobTypeOK(r) ==
    /\ DOMAIN r = {"pc", "arts", "left", "todo", "layers", "specs", "out", "entries"}
    /\ r.pc \in Running \cup {"idle", "ok", "failed"}
    /\ DOMAIN r.arts \subseteq Platforms \cup {NoPlatform}
    /\ \A p \in DOMAIN r.arts : IsArtifact(r.arts[p])
    /\ r.left \subseteq DOMAIN r.arts
    /\ r.todo \in SUBSET Kinds
    /\ r.layers \in Seq(Layer)
    /\ r.specs \in Seq(PlatformSpec)
    /\ r.out \in IndexTags \cup {NoRef}
    /\ r.out # NoRef => r.left \subseteq Platforms
    /\ r.entries \in Seq(Entry)

\* Every variable has its type.
TypeOK ==
    /\ RegistryTypeOK
    /\ DOMAIN job = Jobs
    /\ \A j \in Jobs : JobTypeOK(job[j])

\* A manifest in the registry never names a blob its repository lacks,
\* wherever a push was interrupted: the registry does not check this, only
\* the order of the calls in artifact.Run and plan.Run ensures it.
StoredComplete == \A r \in Repos : \A m \in manifests[r] \cap Image :
    /\ m.config \in blobs[r]
    /\ \A i \in DOMAIN m.layers : m.layers[i].blob \in blobs[r]

\* Every entry of a stored index is a manifest some repository holds:
\* index.Run lists only digests it got an answer for.
IndexesPointAtExisting ==
    \A r \in Repos : \A m \in manifests[r] \cap Index : \A i \in DOMAIN m.entries :
        \E s \in Repos : m.entries[i].manifest \in manifests[s]

\* What a process relies on between two of its steps: the blobs of the
\* artifact it is assembling are there, its next layer and next spec exist,
\* and the manifests it was told about are stored.
ProcessInv(j) == LET r == job[j] IN
    /\ r.pc \in {"layer", "manifest"} => \A p \in r.left : IsCurrent(r, p) =>
          /\ r.arts[p].config \in blobs[r.arts[p].ref.repo]
          /\ \A i \in DOMAIN r.layers : r.layers[i].blob \in blobs[r.arts[p].ref.repo]
    /\ r.pc = "layer" => \A p \in r.left : IsCurrent(r, p) =>
          r.todo \subseteq DOMAIN r.arts[p].files
    /\ r.pc = "describe" => Len(r.entries) < Len(r.specs)
    /\ r.pc = "putindex" => r.out # NoRef
    /\ \A i \in DOMAIN r.entries : \E s \in Repos : r.entries[i].manifest \in manifests[s]

\* The inductive invariant: with the types, what every process relies on,
\* and that a tag names a manifest of its repository.
TagsStored == \A t \in DOMAIN tags : tags[t] \in manifests[t.repo]

Inductive ==
    /\ TypeOK
    /\ StoredComplete
    /\ IndexesPointAtExisting
    /\ TagsStored
    /\ \A j \in Jobs : ProcessInv(j)

\* The platform an index gives an entry is the one the manifest was built
\* for, so a machine that selects by platform gets its own kernel.
PlatformsMatch ==
    \A r \in Repos : \A m \in manifests[r] \cap Index : \A i \in DOMAIN m.entries :
        m.entries[i].manifest.config = m.entries[i].platform

\* The elements of S in the order of rank.
Sorted(S, rank) ==
    [i \in 1 .. Cardinality(S) |->
        CHOOSE x \in S : Cardinality({y \in S : rank[y] <= rank[x]}) = i]

\* The manifest a request for artifact a asks for.
WantedImage(a) ==
    LET kinds == Sorted(DOMAIN a.files, LayerRank) IN
    [type |-> "image", config |-> a.config,
     layers |-> [i \in DOMAIN kinds |->
                    [kind |-> kinds[i], blob |-> a.files[kinds[i]]]]]

\* A command that reports success has published all it was asked for: each
\* artifact with exactly its files in the fixed order, and an index with one
\* entry per requested platform, in order.
OkMeansPublished == \A j \in Jobs : job[j].pc = "ok" =>
    /\ \A p \in DOMAIN job[j].arts :
          WantedImage(job[j].arts[p]) \in manifests[job[j].arts[p].ref.repo]
    /\ job[j].out # NoRef =>
          \E m \in manifests[job[j].out.repo] \cap Index :
             /\ DOMAIN m.entries = DOMAIN job[j].specs
             /\ \A i \in DOMAIN m.entries :
                   m.entries[i].platform = job[j].specs[i].platform
    /\ job[j].out # NoRef /\ job[j].arts # Idle.arts =>
          [i \in DOMAIN job[j].specs |-> job[j].specs[i].platform]
              = Sorted(DOMAIN job[j].arts, PlatformRank)

\* The index of a successful multi run lists exactly the manifests that run
\* pushed, although it finds them again by tag: true as long as no other
\* process pushes to these tags.
MultiIndexOwn == \A j \in Jobs :
    job[j].pc = "ok" /\ job[j].out # NoRef /\ job[j].arts # Idle.arts =>
        \A i \in DOMAIN job[j].entries :
            job[j].entries[i].manifest
                = WantedImage(job[j].arts[job[j].entries[i].platform])

\* Every command ends, in success or failure.
EveryRunEnds == \A j \in Jobs :
    (job[j].pc \in Running) ~> (job[j].pc \notin Running)
=============================================================================
