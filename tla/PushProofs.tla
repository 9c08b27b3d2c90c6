----------------------------- MODULE PushProofs -----------------------------
(***************************************************************************)
(* What the push subcommands keep true of the registry, for any number of  *)
(* processes, requests, platforms and repositories.                        *)
(*                                                                         *)
(* The proof of Inductive separates the registry from the processes: three *)
(* lemmas say that each kind of write keeps StoreInv, given what the       *)
(* writing process knows, one lemma that a step of one process keeps what  *)
(* the others rely on because the registry only grows, and one lemma per   *)
(* action that the process that moves satisfies its own part again.        *)
(***************************************************************************)
EXTENDS PushCatalogue, SequenceTheorems, FiniteSetTheorems, TLAPS

\* The part of Inductive that is about the registry alone.
StoreInv ==
    /\ RegistryTypeOK
    /\ StoredComplete
    /\ IndexesPointAtExisting
    /\ TagsStored

\* A step takes nothing out of a repository.
Grows == \A r \in Repos :
    /\ blobs[r] \subseteq blobs'[r]
    /\ manifests[r] \subseteq manifests'[r]

\* Only process j moves.
Moves(j) == DOMAIN job' = Jobs /\ \A i \in Jobs \ {j} : job'[i] = job[i]

-----------------------------------------------------------------------------
(* The registry.                                                           *)

\* An image is not an index.
LEMMA KindsDisjoint == Image \cap Index = {}
BY DEF Image, Index

\* A tag belongs to a repository of the model.
LEMMA Repository ==
    ASSUME NEW t \in TagRef PROVE t.repo \in Repos
BY TagsAssumption

\* Storing a blob keeps the registry's invariant.
LEMMA StoreBlobKeeps ==
    ASSUME StoreInv, NEW repo \in Repos, NEW b \in Blob, StoreBlob(repo, b)
    PROVE  StoreInv' /\ Grows /\ b \in blobs'[repo]
<1>1. /\ blobs' \in [Repos -> SUBSET Blob]
      /\ \A r \in Repos : blobs[r] \subseteq blobs'[r]
      /\ b \in blobs'[repo]
  BY DEF StoreInv, RegistryTypeOK, StoreBlob
<1>2. manifests' = manifests /\ tags' = tags
  BY DEF StoreBlob
<1>3. RegistryTypeOK' /\ TagsStored'
  BY <1>1, <1>2 DEF StoreInv, RegistryTypeOK, TagsStored
<1>4. StoredComplete'
  BY <1>1, <1>2 DEF StoreInv, StoredComplete
<1>5. IndexesPointAtExisting'
  BY <1>2 DEF StoreInv, IndexesPointAtExisting
<1> QED BY <1>1, <1>2, <1>3, <1>4, <1>5 DEF StoreInv, Grows

\* What a PUT of a manifest does to each part of the registry.
LEMMA StoreManifestEffect ==
    ASSUME RegistryTypeOK, TagsStored, NEW ref \in TagRef, NEW m,
           StoreManifest(ref, m)
    PROVE  /\ blobs' = blobs
           /\ DOMAIN manifests' = Repos
           /\ \A r \in Repos : manifests'[r] =
                 IF r = ref.repo THEN manifests[r] \cup {m} ELSE manifests[r]
           /\ DOMAIN tags' = DOMAIN tags \cup {ref}
           /\ \A t \in DOMAIN tags' : tags'[t] = IF t = ref THEN m ELSE tags[t]
           /\ Grows
           /\ TagsStored'
<1>1. ref.repo \in Repos
  BY Repository
<1>2. /\ blobs' = blobs
      /\ DOMAIN manifests' = Repos
      /\ \A r \in Repos : manifests'[r] =
            IF r = ref.repo THEN manifests[r] \cup {m} ELSE manifests[r]
      /\ DOMAIN tags' = DOMAIN tags \cup {ref}
      /\ \A t \in DOMAIN tags' : tags'[t] = IF t = ref THEN m ELSE tags[t]
  BY <1>1 DEF RegistryTypeOK, StoreManifest
<1>3. \A t \in DOMAIN tags : t.repo \in Repos
  BY Repository DEF RegistryTypeOK
<1>4. TagsStored'
  BY <1>1, <1>2, <1>3 DEF TagsStored
<1> QED BY <1>2, <1>4 DEF Grows

\* Storing an image whose blobs are there keeps the registry's invariant.
LEMMA StoreImageKeeps ==
    ASSUME StoreInv, NEW ref \in ImageTags, NEW m \in Image,
           m.config \in blobs[ref.repo],
           \A i \in DOMAIN m.layers : m.layers[i].blob \in blobs[ref.repo],
           StoreManifest(ref, m)
    PROVE  StoreInv' /\ Grows
<1>1. ref \in TagRef /\ RegistryTypeOK /\ TagsStored
  BY DEF TagRef, StoreInv
<1>2. /\ blobs' = blobs /\ DOMAIN manifests' = Repos
      /\ \A r \in Repos : manifests'[r] =
            IF r = ref.repo THEN manifests[r] \cup {m} ELSE manifests[r]
      /\ DOMAIN tags' = DOMAIN tags \cup {ref}
      /\ \A t \in DOMAIN tags' : tags'[t] = IF t = ref THEN m ELSE tags[t]
      /\ Grows /\ TagsStored'
  BY <1>1, StoreManifestEffect
<1>3. manifests' \in [Repos -> SUBSET Manifest]
  BY <1>2 DEF StoreInv, RegistryTypeOK, Manifest, StoreManifest
<1>4. RegistryTypeOK'
  BY <1>1, <1>2, <1>3 DEF RegistryTypeOK
<1>5. StoredComplete'
  BY <1>2 DEF StoreInv, StoredComplete
<1>6. IndexesPointAtExisting'
  BY <1>2, KindsDisjoint DEF StoreInv, IndexesPointAtExisting
<1> QED BY <1>2, <1>4, <1>5, <1>6 DEF StoreInv

\* Every entry of m is a stored manifest.
PointsAtExisting(m) == \A i \in DOMAIN m.entries :
    \E s \in Repos : m.entries[i].manifest \in manifests[s]

\* Storing an index of stored manifests keeps the registry's invariant.
LEMMA StoreIndexKeeps ==
    ASSUME StoreInv, NEW ref \in IndexTags, NEW m \in Index, PointsAtExisting(m),
           StoreManifest(ref, m)
    PROVE  StoreInv' /\ Grows
<1>1. ref \in TagRef /\ RegistryTypeOK /\ TagsStored /\ ref \notin ImageTags
  BY TagsAssumption DEF TagRef, StoreInv
<1>2. /\ blobs' = blobs /\ DOMAIN manifests' = Repos
      /\ \A r \in Repos : manifests'[r] =
            IF r = ref.repo THEN manifests[r] \cup {m} ELSE manifests[r]
      /\ DOMAIN tags' = DOMAIN tags \cup {ref}
      /\ \A t \in DOMAIN tags' : tags'[t] = IF t = ref THEN m ELSE tags[t]
      /\ Grows /\ TagsStored'
  BY <1>1, StoreManifestEffect
<1>3. manifests' \in [Repos -> SUBSET Manifest]
  BY <1>2 DEF StoreInv, RegistryTypeOK, Manifest, StoreManifest
<1>4. RegistryTypeOK'
  BY <1>1, <1>2, <1>3 DEF RegistryTypeOK
<1>5. StoredComplete'
  BY <1>2, KindsDisjoint DEF StoreInv, StoredComplete
<1>6. IndexesPointAtExisting'
  <2> SUFFICES ASSUME NEW r \in Repos, NEW x \in manifests'[r] \cap Index,
                      NEW i \in DOMAIN x.entries
               PROVE  \E s \in Repos : x.entries[i].manifest \in manifests'[s]
    BY DEF IndexesPointAtExisting
  <2>1. \E s \in Repos : x.entries[i].manifest \in manifests[s]
    BY <1>2 DEF StoreInv, IndexesPointAtExisting, PointsAtExisting
  <2> QED BY <2>1, <1>2 DEF Grows
<1> QED BY <1>2, <1>4, <1>5, <1>6 DEF StoreInv

\* A step that leaves the registry alone.
LEMMA RegistryUnchanged ==
    ASSUME StoreInv, UNCHANGED registryVars
    PROVE  StoreInv' /\ Grows
BY DEF StoreInv, registryVars, RegistryTypeOK, StoredComplete,
       IndexesPointAtExisting, TagsStored, Grows

-----------------------------------------------------------------------------
(* The processes.                                                          *)

\* The request lists hold records of the right type.
LEMMA RequestTypes ==
    ASSUME NEW j \in Jobs
    PROVE  /\ \A q \in ArtifactReqs[j] :
                 q.platform \in Platforms /\ IsFiles(q.files) /\ q.ref \in ImageTags \cup {NoRef}
           /\ \A q \in PlanReqs[j] : q.file \in Contents /\ q.ref \in ImageTags \cup {NoRef}
           /\ \A q \in IndexReqs[j] :
                 /\ q.specs \in Seq([platform : Platforms, ref : ImageTags \cup {NoRef}])
                 /\ q.out \in IndexTags \cup {NoRef}
           /\ \A q \in MultiReqs[j] :
                 /\ DOMAIN q.files \subseteq Platforms
                 /\ IsFiles(q.shared)
                 /\ q.ref \in IndexTags \cup {NoRef}
                 /\ \A p \in DOMAIN q.files :
                       /\ IsFiles(q.files[p]) /\ DOMAIN q.files[p] # {}
                       /\ q.ref # NoRef => DerivePerArchRef(q.ref, p) \in ImageTags
BY RequestsAssumption

\* At most one platform is the current one.
LEMMA OneCurrent ==
    ASSUME NEW r, NEW p \in r.left, NEW q \in r.left,
           r.left \subseteq Platforms \cup {NoPlatform},
           IsCurrent(r, p), IsCurrent(r, q)
    PROVE  p = q
<1>1. PlatformRank[p] <= PlatformRank[q] /\ PlatformRank[q] <= PlatformRank[p]
  BY DEF IsCurrent
<1>2. PlatformRank[p] \in Nat /\ PlatformRank[q] \in Nat
  BY NamesAssumption
<1>3. PlatformRank[p] = PlatformRank[q]
  BY <1>1, <1>2
<1> QED BY <1>3, NamesAssumption

\* The fields of Resume(r): only pc changes, to what the rest of the work asks.
LEMMA ResumeFields ==
    ASSUME NEW r, JobTypeOK(r)
    PROVE  LET s == Resume(r) IN
           /\ JobTypeOK(s)
           /\ s.pc \notin {"layer", "manifest"}
           /\ s.pc = "describe" => Len(s.entries) < Len(s.specs)
           /\ s.pc = "putindex" => s.out # NoRef
           /\ s.entries = r.entries
<1> DEFINE s == Resume(r)
<1>1. /\ DOMAIN s = DOMAIN r
      /\ s.arts = r.arts /\ s.left = r.left /\ s.todo = r.todo /\ s.layers = r.layers
      /\ s.specs = r.specs /\ s.out = r.out /\ s.entries = r.entries
      /\ s.pc = IF r.left # {} THEN "config"
                 ELSE IF r.out = NoRef THEN "ok"
                 ELSE IF Len(r.entries) < Len(r.specs) THEN "describe"
                 ELSE "putindex"
  BY DEF Resume, JobTypeOK
<1>2. s.pc \in Running \cup {"idle", "ok", "failed"}
  BY <1>1 DEF Running
<1>3. JobTypeOK(s)
  BY <1>1, <1>2 DEF JobTypeOK
<1> QED BY <1>1, <1>3

\* A process that is idle or has failed relies on nothing.
LEMMA RestTypes ==
    ASSUME NEW r \in {Idle, Failed}
    PROVE  JobTypeOK(r) /\ r.pc \in {"idle", "failed"} /\ r.entries = <<>>
<1>1. PICK pc \in {"idle", "failed"} : r = AtRest(pc)
  BY DEF Idle, Failed
<1>2. r.arts = [p \in {} |-> {}] /\ DOMAIN r.arts = {}
  BY <1>1 DEF AtRest
<1>3. /\ r.pc = pc /\ r.left = {} /\ r.todo = {} /\ r.layers = <<>>
      /\ r.specs = <<>> /\ r.out = NoRef /\ r.entries = <<>>
      /\ DOMAIN r = {"pc", "arts", "left", "todo", "layers", "specs", "out", "entries"}
  BY <1>1 DEF AtRest
<1> QED BY <1>1, <1>2, <1>3 DEF JobTypeOK

\* A process that stands still keeps what it relies on while others write.
LEMMA ProcessInvGrows ==
    ASSUME TypeOK, NEW i \in Jobs, ProcessInv(i), Grows, job'[i] = job[i]
    PROVE  ProcessInv(i)'
<1>1. JobTypeOK(job[i])
  BY DEF TypeOK
<1>2. ASSUME NEW p \in job[i].left PROVE job[i].arts[p].ref.repo \in Repos
  BY <1>1, Repository DEF JobTypeOK, IsArtifact, TagRef
<1> QED BY <1>2 DEF ProcessInv, Grows, IsCurrent

\* One process moves, the rest of Inductive follows from the parts.
LEMMA Step ==
    ASSUME Inductive, NEW j \in Jobs, Moves(j), StoreInv', Grows,
           JobTypeOK(job'[j]), ProcessInv(j)'
    PROVE  Inductive'
<1>1. TypeOK'
  BY DEF Inductive, TypeOK, StoreInv, Moves
<1>2. \A i \in Jobs : ProcessInv(i)'
  BY ProcessInvGrows DEF Inductive, Moves
<1> QED BY <1>1, <1>2 DEF Inductive, StoreInv

\* What Settle leaves behind: the given record or a failed process.
LEMMA SettleMoves ==
    ASSUME TypeOK, NEW j \in Jobs, NEW r, Settle(j, r)
    PROVE  Moves(j) /\ job'[j] \in {r, Failed}
BY DEF TypeOK, Settle, Moves

\* A process that comes to rest.
LEMMA RestKeeps ==
    ASSUME NEW j \in Jobs, job'[j] = Failed
    PROVE  JobTypeOK(job'[j]) /\ ProcessInv(j)'
BY RestTypes DEF ProcessInv

\* A process that has finished an artifact, a lookup or its command line.
LEMMA ResumeKeeps ==
    ASSUME NEW j \in Jobs, NEW r, JobTypeOK(r), job'[j] = Resume(r),
           \A i \in DOMAIN r.entries :
              \E s \in Repos : r.entries[i].manifest \in manifests'[s]
    PROVE  JobTypeOK(job'[j]) /\ ProcessInv(j)'
BY ResumeFields DEF ProcessInv

-----------------------------------------------------------------------------
(* The command line.                                                       *)

\* The work of a well-typed request is well typed.
LEMMA WorkTypes ==
    ASSUME NEW arts, NEW specs, NEW out,
           DOMAIN arts \subseteq Platforms \cup {NoPlatform},
           \A p \in DOMAIN arts : IsArtifact(arts[p]),
           specs \in Seq(PlatformSpec),
           out \in IndexTags \cup {NoRef},
           out # NoRef => DOMAIN arts \subseteq Platforms
    PROVE  \E r : JobTypeOK(r) /\ r.entries = <<>> /\ Work(arts, specs, out) = Resume(r)
<1> DEFINE r == [Idle EXCEPT !.arts = arts, !.left = DOMAIN arts,
                             !.specs = specs, !.out = out]
<1>1. JobTypeOK(Idle) /\ Idle.entries = <<>>
  BY RestTypes
<1>2. /\ DOMAIN r = DOMAIN Idle
      /\ r.arts = arts /\ r.left = DOMAIN arts /\ r.specs = specs /\ r.out = out
      /\ r.pc = Idle.pc /\ r.todo = Idle.todo /\ r.layers = Idle.layers
      /\ r.entries = Idle.entries
  BY <1>1 DEF JobTypeOK
<1>3. JobTypeOK(r)
  BY <1>1, <1>2 DEF JobTypeOK
<1> QED BY <1>1, <1>2, <1>3 DEF Work

\* A command that starts, or is refused, keeps the invariant.
LEMMA StartKeeps ==
    ASSUME Inductive, NEW j \in Jobs, NEW accepted \in BOOLEAN, NEW w,
           accepted => \E r : JobTypeOK(r) /\ r.entries = <<>> /\ w = Resume(r),
           Start(j, accepted, w)
    PROVE  Inductive'
<1>1. StoreInv' /\ Grows
  BY RegistryUnchanged DEF Inductive, StoreInv, TypeOK, Start
<1>2. Moves(j) /\ job'[j] = IF accepted THEN w ELSE Failed
  BY DEF Inductive, TypeOK, Start, Moves
<1>3. CASE accepted
  <2>1. PICK r : JobTypeOK(r) /\ r.entries = <<>> /\ w = Resume(r)
    BY <1>3
  <2>2. JobTypeOK(job'[j]) /\ ProcessInv(j)'
    BY <1>2, <1>3, <2>1, ResumeKeeps
  <2> QED BY <1>1, <1>2, <2>2, Step
<1>4. CASE ~accepted
  <2>1. JobTypeOK(job'[j]) /\ ProcessInv(j)'
    BY <1>2, <1>4, RestKeeps
  <2> QED BY <1>1, <1>2, <2>1, Step
<1> QED BY <1>3, <1>4

\* `push artifact`: the request becomes one artifact, or is refused.
LEMMA ArtifactRunKeeps ==
    ASSUME Inductive, NEW j \in Jobs, ArtifactRun(j) PROVE Inductive'
<1>1. PICK q \in ArtifactReqs[j] :
        Start(j, ParsePlatform(q.platform) /\ DOMAIN q.files # {} /\ q.ref # NoRef,
              Work([p \in {q.platform} |->
                       [ref |-> q.ref, config |-> p, files |-> q.files]],
                   <<>>, NoRef))
  BY DEF ArtifactRun
<1> DEFINE accepted == ParsePlatform(q.platform) /\ DOMAIN q.files # {} /\ q.ref # NoRef
           arts == [p \in {q.platform} |->
                       [ref |-> q.ref, config |-> p, files |-> q.files]]
<1>2. q.platform \in Platforms /\ IsFiles(q.files) /\ q.ref \in ImageTags \cup {NoRef}
  BY RequestTypes
<1>3. accepted \in BOOLEAN
  BY DEF ParsePlatform
<1>4. ASSUME accepted
      PROVE \E r : JobTypeOK(r) /\ r.entries = <<>> /\ Work(arts, <<>>, NoRef) = Resume(r)
  <2>1. DOMAIN arts \subseteq Platforms \cup {NoPlatform}
    BY <1>2
  <2>2. \A p \in DOMAIN arts : IsArtifact(arts[p])
    BY <1>2, <1>4 DEF IsArtifact
  <2> HIDE DEF arts
  <2>3. <<>> \in Seq(PlatformSpec)
    OBVIOUS
  <2> QED BY <2>1, <2>2, <2>3, WorkTypes
<1> HIDE DEF accepted, arts
<1>5. Start(j, accepted, Work(arts, <<>>, NoRef))
  BY <1>1 DEF accepted, arts
<1> QED BY <1>3, <1>4, <1>5, StartKeeps

\* `push plan`: the same with a plan layer and no platform.
LEMMA PlanRunKeeps ==
    ASSUME Inductive, NEW j \in Jobs, PlanRun(j) PROVE Inductive'
<1>1. PICK q \in PlanReqs[j] :
        Start(j, q.ref # NoRef,
              Work([p \in {NoPlatform} |-> PlanArtifact(q)], <<>>, NoRef))
  BY DEF PlanRun
<1> DEFINE accepted == q.ref # NoRef
           arts == [p \in {NoPlatform} |-> PlanArtifact(q)]
<1>2. q.file \in Contents /\ q.ref \in ImageTags \cup {NoRef}
  BY RequestTypes
<1>3. accepted \in BOOLEAN
  OBVIOUS
<1>4. ASSUME accepted
      PROVE \E r : JobTypeOK(r) /\ r.entries = <<>> /\ Work(arts, <<>>, NoRef) = Resume(r)
  <2>1. DOMAIN arts \subseteq Platforms \cup {NoPlatform}
    OBVIOUS
  <2>2. IsFiles([k \in {"plan"} |-> q.file]) /\ DOMAIN [k \in {"plan"} |-> q.file] # {}
    BY <1>2 DEF IsFiles, Kinds
  <2>3. \A p \in DOMAIN arts : IsArtifact(arts[p])
    BY <1>2, <1>4, <2>2 DEF IsArtifact, PlanArtifact
  <2> HIDE DEF arts
  <2>4. <<>> \in Seq(PlatformSpec)
    OBVIOUS
  <2> QED BY <2>1, <2>3, <2>4, WorkTypes
<1> HIDE DEF accepted, arts
<1>5. Start(j, accepted, Work(arts, <<>>, NoRef))
  BY <1>1 DEF accepted, arts
<1> QED BY <1>3, <1>4, <1>5, StartKeeps

\* A reference resolves to an image that is stored where it is looked up.
LEMMA ResolveFinds ==
    ASSUME RegistryTypeOK, TagsStored, NEW ref \in Ref, NEW m \in Resolve(ref)
    PROVE  ref.repo \in Repos /\ m \in Image /\ m \in manifests[ref.repo]
<1>1. CASE ref \in ImageTags
  <2>1. ref \in TagRef /\ ref \in [repo : Repos, tag : Seq(STRING)]
    BY <1>1, TagsAssumption DEF TagRef
  <2>2. ~IsDigest(ref) /\ ref.repo \in Repos
    BY <2>1 DEF IsDigest
  <2>3. ref \in DOMAIN tags /\ m = tags[ref]
    BY <2>2 DEF Resolve
  <2> QED BY <1>1, <2>2, <2>3 DEF RegistryTypeOK, TagsStored
<1>2. CASE ref \in DigestRef
  <2>1. IsDigest(ref) /\ ref.repo \in Repos /\ ref.digest \in Image
    BY <1>2 DEF DigestRef, IsDigest
  <2> QED BY <2>1 DEF Resolve
<1> QED BY <1>1, <1>2 DEF Ref

\* Pinning a spec keeps it a spec.
LEMMA PinnedTypes ==
    ASSUME RegistryTypeOK, TagsStored,
           NEW spec \in [platform : Platforms, ref : ImageTags \cup {NoRef}]
    PROVE  Pinned(spec) \in PlatformSpec
<1>1. CASE spec.ref # NoRef /\ Resolve(spec.ref) # {}
  <2> DEFINE m == CHOOSE x \in Resolve(spec.ref) : TRUE
             d == [repo |-> spec.ref.repo, digest |-> m]
  <2>1. spec.ref \in Ref
    BY <1>1 DEF Ref
  <2>2. m \in Resolve(spec.ref)
    BY <1>1
  <2>3. spec.ref.repo \in Repos /\ m \in Image
    BY <2>1, <2>2, ResolveFinds
  <2>4. d \in Ref
    BY <2>3 DEF DigestRef, Ref
  <2>5. Pinned(spec) = [spec EXCEPT !.ref = d]
    BY <1>1 DEF Pinned
  <2> HIDE DEF d
  <2> QED BY <2>4, <2>5 DEF PlatformSpec
<1>2. CASE ~(spec.ref # NoRef /\ Resolve(spec.ref) # {})
  BY <1>2 DEF Pinned, Ref, PlatformSpec
<1> QED BY <1>1, <1>2

\* The specs of a request, pinned or not, are specs.
LEMMA PinnedSpecs ==
    ASSUME Inductive, NEW j \in Jobs, NEW q \in IndexReqs[j], NEW pin \in BOOLEAN
    PROVE  [i \in DOMAIN q.specs |-> IF pin THEN Pinned(q.specs[i]) ELSE q.specs[i]]
              \in Seq(PlatformSpec)
<1> DEFINE given == q.specs
           Given == [platform : Platforms, ref : ImageTags \cup {NoRef}]
           specs == [i \in DOMAIN given |-> IF pin THEN Pinned(given[i]) ELSE given[i]]
<1>1. given \in Seq(Given)
  BY RequestTypes
<1>2. Given \subseteq PlatformSpec
  BY DEF Ref, PlatformSpec
<1>3. \A x \in Given : Pinned(x) \in PlatformSpec
  BY PinnedTypes DEF Inductive, TypeOK
<1> HIDE DEF given, Given
<1>4. DOMAIN given = 1 .. Len(given) /\ Len(given) \in Nat
      /\ \A i \in DOMAIN given : given[i] \in Given
  BY <1>1, LenProperties
<1>5. specs \in [1 .. Len(given) -> PlatformSpec]
  BY <1>2, <1>3, <1>4
<1> HIDE DEF specs
<1>6. specs \in Seq(PlatformSpec)
  BY <1>4, <1>5, SeqDef
<1> QED BY <1>6 DEF specs, given

\* `push index`: specs are references, or the digests they resolve to now.
LEMMA IndexRunKeeps ==
    ASSUME Inductive, NEW j \in Jobs, IndexRun(j) PROVE Inductive'
<1>1. PICK q \in IndexReqs[j], pin \in BOOLEAN :
        Start(j, q.specs # <<>> /\ q.out # NoRef,
              Work([p \in {} |-> {}],
                   [i \in DOMAIN q.specs |->
                        IF pin THEN Pinned(q.specs[i]) ELSE q.specs[i]],
                   q.out))
  BY DEF IndexRun
<1> DEFINE given == q.specs
           out == q.out
           accepted == given # <<>> /\ out # NoRef
           arts == [p \in {} |-> {}]
           specs == [i \in DOMAIN given |-> IF pin THEN Pinned(given[i]) ELSE given[i]]
<1>2. out \in IndexTags \cup {NoRef}
  BY RequestTypes
<1>3. specs \in Seq(PlatformSpec)
  BY PinnedSpecs
<1> HIDE DEF given, out, arts, specs
<1>4. \E r : JobTypeOK(r) /\ r.entries = <<>> /\ Work(arts, specs, out) = Resume(r)
  <2>1. DOMAIN arts = {}
    BY DEF arts
  <2>2. /\ DOMAIN arts \subseteq Platforms \cup {NoPlatform}
        /\ DOMAIN arts \subseteq Platforms
        /\ \A p \in DOMAIN arts : IsArtifact(arts[p])
    BY <2>1
  <2> QED BY ONLY <1>2, <1>3, <2>2, WorkTypes
<1>5. accepted \in BOOLEAN
  OBVIOUS
<1>6. Start(j, accepted, Work(arts, specs, out))
  BY <1>1 DEF accepted, arts, specs, out, given
<1> HIDE DEF accepted
<1> QED BY <1>4, <1>5, <1>6, StartKeeps

\* The artifact multi.Run derives for a platform is one artifact.Run can push.
LEMMA MultiArtifactTypes ==
    ASSUME NEW j \in Jobs, NEW q \in MultiReqs[j], q.ref # NoRef,
           NEW p \in DOMAIN q.files
    PROVE  IsArtifact(MultiArtifact(q, p))
<1> DEFINE kinds == DOMAIN q.files[p] \cup DOMAIN q.shared
           files == [k \in kinds |-> IF k \in DOMAIN q.shared THEN q.shared[k]
                                     ELSE q.files[p][k]]
<1>1. /\ DOMAIN q.files \subseteq Platforms
      /\ IsFiles(q.shared) /\ IsFiles(q.files[p])
      /\ DOMAIN q.files[p] # {}
      /\ DerivePerArchRef(q.ref, p) \in ImageTags
  BY RequestTypes
<1>2. kinds \subseteq Kinds /\ kinds # {}
  BY <1>1 DEF IsFiles
<1>3. \A k \in kinds : files[k] \in Contents
  BY <1>1 DEF IsFiles
<1>4. IsFiles(files) /\ DOMAIN files # {}
  BY <1>2, <1>3 DEF IsFiles
<1>5. MultiArtifact(q, p) = [ref |-> DerivePerArchRef(q.ref, p), config |-> p, files |-> files]
  BY DEF MultiArtifact
<1> HIDE DEF files
<1> QED BY <1>1, <1>4, <1>5 DEF IsArtifact

\* `push multi`: one artifact per platform under a tag derived from the index's.
LEMMA MultiRunKeeps ==
    ASSUME Inductive, NEW j \in Jobs, MultiRun(j) PROVE Inductive'
<1>1. PICK q \in MultiReqs[j] :
        Start(j, DOMAIN q.files # {} /\ q.ref # NoRef,
              Work([p \in DOMAIN q.files |-> MultiArtifact(q, p)], <<>>, q.ref))
  BY DEF MultiRun
<1> DEFINE out == q.ref
           accepted == DOMAIN q.files # {} /\ q.ref # NoRef
           arts == [p \in DOMAIN q.files |-> MultiArtifact(q, p)]
<1>2. DOMAIN q.files \subseteq Platforms /\ out \in IndexTags \cup {NoRef}
  BY RequestTypes
<1>3. accepted \in BOOLEAN
  OBVIOUS
<1>4. ASSUME accepted
      PROVE \E r : JobTypeOK(r) /\ r.entries = <<>> /\ Work(arts, <<>>, out) = Resume(r)
  <2>1. DOMAIN arts \subseteq Platforms
    BY <1>2
  <2>2. \A p \in DOMAIN arts : IsArtifact(arts[p])
    BY <1>4, MultiArtifactTypes
  <2> HIDE DEF arts, out
  <2>3. <<>> \in Seq(PlatformSpec)
    OBVIOUS
  <2> QED BY <1>2, <2>1, <2>2, <2>3, WorkTypes
<1> HIDE DEF accepted, arts, out
<1>5. Start(j, accepted, Work(arts, <<>>, out))
  BY <1>1 DEF accepted, arts, out
<1> QED BY <1>3, <1>4, <1>5, StartKeeps

-----------------------------------------------------------------------------
(* The steps of a running process.                                         *)

\* Inductive gives the registry's part.
LEMMA InductiveStore == Inductive => StoreInv
BY DEF Inductive, TypeOK, StoreInv

\* The artifact a process is assembling.
LEMMA CurrentArtifact ==
    ASSUME Inductive, NEW j \in Jobs, NEW p, IsCurrent(job[j], p)
    PROVE  /\ JobTypeOK(job[j]) /\ ProcessInv(j)
           /\ p \in job[j].left /\ p \in DOMAIN job[j].arts
           /\ job[j].left \subseteq Platforms \cup {NoPlatform}
           /\ IsArtifact(job[j].arts[p])
           /\ job[j].arts[p].ref.repo \in Repos
<1>1. JobTypeOK(job[j]) /\ ProcessInv(j) /\ p \in job[j].left
  BY DEF Inductive, TypeOK, IsCurrent
<1>2. p \in DOMAIN job[j].arts /\ IsArtifact(job[j].arts[p])
  BY <1>1 DEF JobTypeOK
<1>3. job[j].arts[p].ref \in TagRef
  BY <1>2 DEF IsArtifact, TagRef
<1> QED BY <1>1, <1>2, <1>3, Repository DEF JobTypeOK

\* A process that stopped although the registry took its write.
LEMMA FailedStep ==
    ASSUME Inductive, NEW j \in Jobs, Moves(j), StoreInv', Grows, job'[j] = Failed
    PROVE  Inductive'
BY RestKeeps, Step

\* After the config blob the process may rely on it.
LEMMA PushConfigKeeps ==
    ASSUME Inductive, NEW j \in Jobs, PushConfig(j) PROVE Inductive'
<1> DEFINE a(p) == job[j].arts[p]
           r(p) == [job[j] EXCEPT !.pc = "layer", !.todo = DOMAIN a(p).files,
                                  !.layers = <<>>]
<1>1. PICK p : /\ IsCurrent(job[j], p)
               /\ StoreBlob(a(p).ref.repo, a(p).config)
               /\ Settle(j, r(p))
  BY DEF PushConfig
<1>2. /\ JobTypeOK(job[j]) /\ ProcessInv(j) /\ p \in job[j].left
      /\ job[j].left \subseteq Platforms \cup {NoPlatform}
      /\ IsArtifact(a(p)) /\ a(p).ref.repo \in Repos
  BY <1>1, CurrentArtifact
<1>3. a(p).config \in Blob /\ DOMAIN a(p).files \subseteq Kinds
  BY <1>2 DEF IsArtifact, IsFiles, Blob
<1>4. StoreInv' /\ Grows /\ a(p).config \in blobs'[a(p).ref.repo]
  BY <1>1, <1>2, <1>3, InductiveStore, StoreBlobKeeps
<1>5. Moves(j) /\ job'[j] \in {r(p), Failed}
  BY <1>1, SettleMoves DEF Inductive
<1>6. CASE job'[j] = Failed
  BY <1>4, <1>5, <1>6, FailedStep
<1>7. CASE job'[j] = r(p)
  <2>1. /\ DOMAIN job'[j] = DOMAIN job[j]
        /\ job'[j].arts = job[j].arts /\ job'[j].left = job[j].left
        /\ job'[j].specs = job[j].specs /\ job'[j].out = job[j].out
        /\ job'[j].entries = job[j].entries
        /\ job'[j].pc = "layer" /\ job'[j].todo = DOMAIN a(p).files
        /\ job'[j].layers = <<>>
    BY <1>2, <1>7 DEF JobTypeOK
  <2>2. JobTypeOK(job'[j])
    BY <1>2, <1>3, <2>1 DEF JobTypeOK, Running
  <2>3. ASSUME NEW q \in job'[j].left, IsCurrent(job'[j], q) PROVE q = p
    <3>1. q \in job[j].left /\ IsCurrent(job[j], q)
      BY <2>1, <2>3 DEF IsCurrent
    <3> QED BY <1>1, <1>2, <3>1, OneCurrent
  <2>4. \A i \in DOMAIN job'[j].entries :
          \E s \in Repos : job'[j].entries[i].manifest \in manifests'[s]
    BY <1>2, <1>4, <2>1 DEF ProcessInv, Grows
  <2>5. ProcessInv(j)'
    BY <1>4, <2>1, <2>3, <2>4 DEF ProcessInv
  <2> QED BY <1>4, <1>5, <2>2, <2>5, Step
<1> QED BY <1>5, <1>6, <1>7

\* A layer's descriptor is collected in the step that stores its blob.
LEMMA PushLayerKeeps ==
    ASSUME Inductive, NEW j \in Jobs, PushLayer(j) PROVE Inductive'
<1> DEFINE a(p) == job[j].arts[p]
           d(p, k) == [kind |-> k, blob |-> a(p).files[k]]
           r(p, k) == [job[j] EXCEPT
                    !.todo = @ \ {k},
                    !.layers = Append(@, d(p, k)),
                    !.pc = IF job[j].todo = {k} THEN "manifest" ELSE "layer"]
<1>1. PICK p \in Platforms \cup {NoPlatform}, k \in Kinds :
               /\ job[j].pc = "layer" /\ IsCurrent(job[j], p)
               /\ k \in job[j].todo
               /\ \A l \in job[j].todo : LayerRank[k] <= LayerRank[l]
               /\ StoreBlob(a(p).ref.repo, a(p).files[k])
               /\ Settle(j, r(p, k))
  BY DEF PushLayer
<1> DEFINE x == d(p, k)
<1>2. /\ JobTypeOK(job[j]) /\ ProcessInv(j) /\ p \in job[j].left
      /\ job[j].left \subseteq Platforms \cup {NoPlatform}
      /\ IsArtifact(a(p)) /\ a(p).ref.repo \in Repos
  BY <1>1, CurrentArtifact
<1>3. /\ a(p).config \in blobs[a(p).ref.repo]
      /\ \A i \in DOMAIN job[j].layers : job[j].layers[i].blob \in blobs[a(p).ref.repo]
      /\ job[j].todo \subseteq DOMAIN a(p).files
  BY <1>1, <1>2 DEF ProcessInv
<1>4. a(p).files[k] \in Contents
  BY <1>1, <1>2, <1>3 DEF IsArtifact, IsFiles
<1>5. StoreInv' /\ Grows /\ a(p).files[k] \in blobs'[a(p).ref.repo]
  BY <1>1, <1>2, <1>4, InductiveStore, StoreBlobKeeps DEF Blob
<1>6. Moves(j) /\ job'[j] \in {r(p, k), Failed}
  BY <1>1, SettleMoves DEF Inductive
<1>7. CASE job'[j] = Failed
  BY <1>5, <1>6, <1>7, FailedStep
<1>8. CASE job'[j] = r(p, k)
  <2>1. x \in Layer /\ x.blob = a(p).files[k]
    BY <1>1, <1>4 DEF Layer
  <2> HIDE DEF x
  <2>2. /\ DOMAIN job'[j] = DOMAIN job[j]
        /\ job'[j].arts = job[j].arts /\ job'[j].left = job[j].left
        /\ job'[j].specs = job[j].specs /\ job'[j].out = job[j].out
        /\ job'[j].entries = job[j].entries
        /\ job'[j].pc \in {"layer", "manifest"}
        /\ job'[j].todo = job[j].todo \ {k}
        /\ job'[j].layers = Append(job[j].layers, x)
    BY <1>2, <1>8 DEF JobTypeOK, x
  <2>3. /\ job'[j].layers \in Seq(Layer)
        /\ Len(job'[j].layers) = Len(job[j].layers) + 1
        /\ \A i \in 1 .. Len(job[j].layers) : job'[j].layers[i] = job[j].layers[i]
        /\ job'[j].layers[Len(job[j].layers) + 1] = x
        /\ DOMAIN job'[j].layers = 1 .. Len(job[j].layers) + 1
        /\ DOMAIN job[j].layers = 1 .. Len(job[j].layers)
        /\ Len(job[j].layers) \in Nat
    <3>1. job[j].layers \in Seq(Layer)
      BY <1>2 DEF JobTypeOK
    <3>2. job'[j].layers \in Seq(Layer)
      BY <2>1, <2>2, <3>1, AppendProperties
    <3> QED BY <2>1, <2>2, <3>1, <3>2, AppendProperties, LenProperties
  <2>4. JobTypeOK(job'[j])
    BY <1>2, <2>2, <2>3 DEF JobTypeOK, Running
  <2>5. ASSUME NEW q \in job'[j].left, IsCurrent(job'[j], q) PROVE q = p
    <3>1. q \in job[j].left /\ IsCurrent(job[j], q)
      BY <2>2, <2>5 DEF IsCurrent
    <3> QED BY <1>1, <1>2, <3>1, OneCurrent
  <2>6. a(p).config \in blobs'[a(p).ref.repo]
    BY <1>2, <1>3, <1>5 DEF Grows
  <2>7. ASSUME NEW i \in DOMAIN job'[j].layers
        PROVE  job'[j].layers[i].blob \in blobs'[a(p).ref.repo]
    <3>1. i \in DOMAIN job[j].layers \/ i = Len(job[j].layers) + 1
      BY <2>3
    <3>2. CASE i \in DOMAIN job[j].layers
      BY <1>2, <1>3, <1>5, <2>3, <3>2 DEF Grows
    <3>3. CASE i = Len(job[j].layers) + 1
      BY <1>5, <2>1, <2>3, <3>3
    <3> QED BY <3>1, <3>2, <3>3
  <2>8. \A i \in DOMAIN job'[j].entries :
          \E s \in Repos : job'[j].entries[i].manifest \in manifests'[s]
    BY <1>2, <1>5, <2>2 DEF ProcessInv, Grows
  <2>9. ASSUME NEW q \in job'[j].left, IsCurrent(job'[j], q)
        PROVE  /\ job'[j].arts[q].config \in blobs'[job'[j].arts[q].ref.repo]
               /\ \A i \in DOMAIN job'[j].layers :
                     job'[j].layers[i].blob \in blobs'[job'[j].arts[q].ref.repo]
               /\ job'[j].todo \subseteq DOMAIN job'[j].arts[q].files
    <3>1. q = p /\ job'[j].arts[q] = a(p)
      BY <2>2, <2>5, <2>9
    <3> QED BY <1>3, <2>2, <2>6, <2>7, <3>1
  <2>10. ProcessInv(j)'
    BY <2>2, <2>8, <2>9 DEF ProcessInv
  <2> QED BY <1>5, <1>6, <2>4, <2>10, Step
<1> QED BY <1>6, <1>7, <1>8

\* The manifest names the config and the layers the process relied on.
LEMMA PushManifestKeeps ==
    ASSUME Inductive, NEW j \in Jobs, PushManifest(j) PROVE Inductive'
<1> DEFINE a(p) == job[j].arts[p]
           m(p) == [type |-> "image", config |-> a(p).config, layers |-> job[j].layers]
           e(p) == [platform |-> p, ref |-> a(p).ref]
           r(p) == [job[j] EXCEPT
                    !.left = @ \ {p}, !.layers = <<>>,
                    !.specs = IF job[j].out = NoRef THEN @ ELSE Append(@, e(p))]
<1>1. PICK p \in Platforms \cup {NoPlatform} :
               /\ job[j].pc = "manifest" /\ IsCurrent(job[j], p)
               /\ StoreManifest(a(p).ref, m(p))
               /\ Settle(j, Resume(r(p)))
  BY DEF PushManifest
<1>2. /\ JobTypeOK(job[j]) /\ ProcessInv(j) /\ p \in job[j].left
      /\ IsArtifact(a(p)) /\ a(p).ref.repo \in Repos
  BY <1>1, CurrentArtifact
<1>3. /\ a(p).config \in blobs[a(p).ref.repo]
      /\ \A i \in DOMAIN job[j].layers : job[j].layers[i].blob \in blobs[a(p).ref.repo]
  BY <1>1, <1>2 DEF ProcessInv
<1>4. StoreInv' /\ Grows
  <2> DEFINE x == m(p)
  <2>1. /\ x \in Image /\ x.config = a(p).config /\ x.layers = job[j].layers
    BY <1>2 DEF IsArtifact, JobTypeOK, Image
  <2>2. StoreManifest(a(p).ref, x) /\ a(p).ref \in ImageTags
    BY <1>1, <1>2 DEF IsArtifact
  <2> HIDE DEF x
  <2> QED BY <1>3, <2>1, <2>2, InductiveStore, StoreImageKeeps
<1>5. Moves(j) /\ job'[j] \in {Resume(r(p)), Failed}
  BY <1>1, SettleMoves DEF Inductive
<1>6. CASE job'[j] = Failed
  BY <1>4, <1>5, <1>6, FailedStep
<1>7. CASE job'[j] = Resume(r(p))
  <2> DEFINE s == r(p)
             x == e(p)
  <2>1. job[j].out # NoRef => x \in PlatformSpec
    BY <1>2 DEF IsArtifact, PlatformSpec, Ref, JobTypeOK
  <2> HIDE DEF x
  <2>2. /\ DOMAIN s = DOMAIN job[j]
        /\ s.arts = job[j].arts /\ s.left = job[j].left \ {p}
        /\ s.todo = job[j].todo /\ s.out = job[j].out
        /\ s.entries = job[j].entries /\ s.pc = job[j].pc
        /\ s.layers = <<>>
        /\ s.specs = IF job[j].out = NoRef THEN job[j].specs
                     ELSE Append(job[j].specs, x)
    BY <1>2 DEF JobTypeOK, x
  <2> HIDE DEF s
  <2>3. s.specs \in Seq(PlatformSpec)
    BY <1>2, <2>1, <2>2, AppendProperties DEF JobTypeOK
  <2>4. s.layers \in Seq(Layer)
    BY <2>2
  <2>5. JobTypeOK(s)
    BY <1>2, <2>2, <2>3, <2>4 DEF JobTypeOK
  <2>6. \A i \in DOMAIN s.entries : \E t \in Repos : s.entries[i].manifest \in manifests'[t]
    BY <1>2, <1>4, <2>2 DEF ProcessInv, Grows
  <2>7. job'[j] = Resume(s)
    BY <1>7 DEF s
  <2> QED BY <1>4, <1>5, <2>5, <2>6, <2>7, ResumeKeeps, Step
<1> QED BY <1>5, <1>6, <1>7

\* A step that only marks the process as failed.
LEMMA GiveUpKeeps ==
    ASSUME Inductive, NEW j \in Jobs, job' = [job EXCEPT ![j] = Failed],
           UNCHANGED registryVars
    PROVE  Inductive'
<1>1. StoreInv' /\ Grows
  BY InductiveStore, RegistryUnchanged
<1>2. Moves(j) /\ job'[j] = Failed
  BY DEF Inductive, TypeOK, Moves
<1> QED BY <1>1, <1>2, FailedStep

\* The digest that answers the lookup is the digest of a stored manifest.
LEMMA DescribeKeeps ==
    ASSUME Inductive, NEW j \in Jobs, Describe(j) PROVE Inductive'
<1> DEFINE n == Len(job[j].entries) + 1
           spec == job[j].specs[n]
           e(m) == [platform |-> spec.platform, manifest |-> m]
           r(m) == [job[j] EXCEPT !.entries = Append(@, e(m))]
<1>1. JobTypeOK(job[j]) /\ ProcessInv(j) /\ StoreInv
  BY InductiveStore DEF Inductive, TypeOK
<1>2. job[j].pc = "describe" /\ UNCHANGED registryVars
  BY DEF Describe
<1>3. job[j].specs \in Seq(PlatformSpec) /\ job[j].entries \in Seq(Entry)
  BY <1>1 DEF JobTypeOK
<1>4. spec \in PlatformSpec
  <2>1. Len(job[j].entries) < Len(job[j].specs)
    BY <1>1, <1>2 DEF ProcessInv
  <2>2. Len(job[j].entries) \in Nat /\ Len(job[j].specs) \in Nat
    BY <1>3, LenProperties
  <2>3. n \in 1 .. Len(job[j].specs)
    BY <2>1, <2>2
  <2> HIDE DEF n
  <2> QED BY <1>3, <2>3, ElementOfSeq
<1>5. CASE job' = [job EXCEPT ![j] = Failed]
  BY <1>2, <1>5, GiveUpKeeps
<1>6. CASE /\ spec.ref # NoRef
           /\ \E m \in Resolve(spec.ref) : job' = [job EXCEPT ![j] = Resume(r(m))]
  <2>1. PICK m \in Resolve(spec.ref) : job' = [job EXCEPT ![j] = Resume(r(m))]
    BY <1>6
  <2>2. spec.ref \in Ref /\ spec.platform \in Platforms
    BY <1>4, <1>6 DEF PlatformSpec
  <2>3. m \in Image /\ \E t \in Repos : m \in manifests[t]
    BY <1>1, <2>2, ResolveFinds DEF StoreInv
  <2>4. StoreInv' /\ Grows
    BY <1>1, <1>2, RegistryUnchanged
  <2> DEFINE x == e(m)
             s == r(m)
  <2>5. x \in Entry /\ x.manifest = m
    BY <2>2, <2>3 DEF Entry
  <2> HIDE DEF x
  <2>6. /\ DOMAIN s = DOMAIN job[j]
        /\ s.arts = job[j].arts /\ s.left = job[j].left /\ s.todo = job[j].todo
        /\ s.layers = job[j].layers /\ s.specs = job[j].specs
        /\ s.out = job[j].out /\ s.pc = job[j].pc
        /\ s.entries = Append(job[j].entries, x)
    BY <1>1 DEF JobTypeOK, x
  <2> HIDE DEF s
  <2>7. /\ s.entries \in Seq(Entry)
        /\ \A i \in 1 .. Len(job[j].entries) : s.entries[i] = job[j].entries[i]
        /\ s.entries[Len(job[j].entries) + 1] = x
        /\ DOMAIN s.entries = 1 .. Len(job[j].entries) + 1
        /\ DOMAIN job[j].entries = 1 .. Len(job[j].entries)
        /\ Len(job[j].entries) \in Nat
    <3>1. s.entries \in Seq(Entry)
      BY <1>3, <2>5, <2>6, AppendProperties
    <3> QED BY <1>3, <2>5, <2>6, <3>1, AppendProperties, LenProperties
  <2>8. JobTypeOK(s)
    BY <1>1, <2>6, <2>7 DEF JobTypeOK
  <2>9. ASSUME NEW i \in DOMAIN s.entries
        PROVE  \E t \in Repos : s.entries[i].manifest \in manifests'[t]
    <3>1. i \in DOMAIN job[j].entries \/ i = Len(job[j].entries) + 1
      BY <2>7
    <3>2. manifests' = manifests
      BY <1>2 DEF registryVars
    <3>3. CASE i \in DOMAIN job[j].entries
      BY <1>1, <2>7, <3>2, <3>3 DEF ProcessInv
    <3>4. CASE i = Len(job[j].entries) + 1
      BY <2>3, <2>5, <2>7, <3>2, <3>4
    <3> QED BY <3>1, <3>3, <3>4
  <2>10. Moves(j) /\ job'[j] = Resume(s)
    BY <2>1 DEF Inductive, TypeOK, Moves, s
  <2> QED BY <2>4, <2>8, <2>9, <2>10, ResumeKeeps, Step
<1> QED BY <1>5, <1>6 DEF Describe

\* The index names the manifests the process was told about.
LEMMA PutIndexKeeps ==
    ASSUME Inductive, NEW j \in Jobs, PutIndex(j) PROVE Inductive'
<1> DEFINE x == [type |-> "index", entries |-> job[j].entries]
           r == [job[j] EXCEPT !.pc = "ok"]
<1>1. /\ job[j].pc = "putindex" /\ StoreManifest(job[j].out, x) /\ Settle(j, r)
  BY DEF PutIndex
<1>2. JobTypeOK(job[j]) /\ ProcessInv(j)
  BY DEF Inductive, TypeOK
<1>3. job[j].out \in IndexTags
  BY <1>1, <1>2 DEF JobTypeOK, ProcessInv
<1>4. x \in Index /\ x.entries = job[j].entries
  BY <1>2 DEF JobTypeOK, Index
<1>5. StoreInv' /\ Grows
  <2> HIDE DEF x
  <2> QED BY <1>1, <1>2, <1>3, <1>4, InductiveStore, StoreIndexKeeps
      DEF ProcessInv, PointsAtExisting
<1>6. Moves(j) /\ job'[j] \in {r, Failed}
  BY <1>1, SettleMoves DEF Inductive
<1>7. CASE job'[j] = Failed
  BY <1>5, <1>6, <1>7, FailedStep
<1>8. CASE job'[j] = r
  <2>1. /\ DOMAIN job'[j] = DOMAIN job[j]
        /\ job'[j].arts = job[j].arts /\ job'[j].left = job[j].left
        /\ job'[j].todo = job[j].todo /\ job'[j].layers = job[j].layers
        /\ job'[j].specs = job[j].specs /\ job'[j].out = job[j].out
        /\ job'[j].entries = job[j].entries /\ job'[j].pc = "ok"
    BY <1>2, <1>8 DEF JobTypeOK
  <2>2. JobTypeOK(job'[j])
    BY <1>2, <2>1 DEF JobTypeOK
  <2>3. ProcessInv(j)'
    BY <1>2, <1>5, <2>1 DEF ProcessInv, Grows
  <2> QED BY <1>5, <1>6, <2>2, <2>3, Step
<1> QED BY <1>6, <1>7, <1>8

-----------------------------------------------------------------------------
(* The theorems.                                                           *)

\* Nothing is stored and nobody runs at first.
LEMMA InductiveInit == Init => Inductive
<1> SUFFICES ASSUME Init PROVE Inductive
  OBVIOUS
<1>1. RegistryTypeOK /\ StoredComplete /\ IndexesPointAtExisting /\ TagsStored
  BY DEF Init, RegistryInit, RegistryTypeOK, StoredComplete,
         IndexesPointAtExisting, TagsStored
<1>2. DOMAIN job = Jobs /\ \A j \in Jobs : job[j] = Idle
  BY DEF Init
<1>3. \A j \in Jobs : JobTypeOK(job[j]) /\ ProcessInv(j)
  BY <1>2, RestTypes DEF ProcessInv
<1> QED BY <1>1, <1>2, <1>3 DEF Inductive, TypeOK

\* Every step of every process keeps the inductive invariant.
LEMMA InductiveStep == Inductive /\ [Next]_vars => Inductive'
<1> SUFFICES ASSUME Inductive, [Next]_vars PROVE Inductive'
  OBVIOUS
<1>1. CASE UNCHANGED vars
  BY <1>1 DEF vars, Inductive, TypeOK, RegistryTypeOK, StoredComplete,
     IndexesPointAtExisting, TagsStored, ProcessInv
<1>2. ASSUME NEW j \in Jobs, ArtifactRun(j) PROVE Inductive'
  BY <1>2, ArtifactRunKeeps
<1>3. ASSUME NEW j \in Jobs, PlanRun(j) PROVE Inductive'
  BY <1>3, PlanRunKeeps
<1>4. ASSUME NEW j \in Jobs, IndexRun(j) PROVE Inductive'
  BY <1>4, IndexRunKeeps
<1>5. ASSUME NEW j \in Jobs, MultiRun(j) PROVE Inductive'
  BY <1>5, MultiRunKeeps
<1>6. ASSUME NEW j \in Jobs, PushConfig(j) PROVE Inductive'
  BY <1>6, PushConfigKeeps
<1>7. ASSUME NEW j \in Jobs, PushLayer(j) PROVE Inductive'
  BY <1>7, PushLayerKeeps
<1>8. ASSUME NEW j \in Jobs, PushManifest(j) PROVE Inductive'
  BY <1>8, PushManifestKeeps
<1>9. ASSUME NEW j \in Jobs, Describe(j) PROVE Inductive'
  BY <1>9, DescribeKeeps
<1>10. ASSUME NEW j \in Jobs, PutIndex(j) PROVE Inductive'
  BY <1>10, PutIndexKeeps
<1>11. ASSUME NEW j \in Jobs, RejectPlatform(j) \/ Fail(j) PROVE Inductive'
  BY <1>11, GiveUpKeeps DEF RejectPlatform, Fail
<1> QED BY <1>1, <1>2, <1>3, <1>4, <1>5, <1>6, <1>7, <1>8, <1>9, <1>10, <1>11
        DEF Next, Progress

\* Inductive holds in every reachable state.
THEOREM Invariance == Spec => []Inductive
BY InductiveInit, InductiveStep, PTL DEF Spec

\* Every variable keeps its type, whatever the processes do.
THEOREM Typing == Spec => []TypeOK
<1>1. Inductive => TypeOK
  BY DEF Inductive
<1> QED BY <1>1, Invariance, PTL

\* Interrupted, repeated and concurrent pushes never leave a manifest in the
\* registry whose blobs are not there: the order of the calls in artifact.Run
\* and plan.Run is enough, without any check by the registry.
THEOREM Completeness == Spec => []StoredComplete
<1>1. Inductive => StoredComplete
  BY DEF Inductive
<1> QED BY <1>1, Invariance, PTL

\* index.Run never lists a manifest that no repository holds, even when the
\* tags it looks up are moved by others between its calls.
THEOREM NoDanglingEntry == Spec => []IndexesPointAtExisting
<1>1. Inductive => IndexesPointAtExisting
  BY DEF Inductive
<1> QED BY <1>1, Invariance, PTL

-----------------------------------------------------------------------------
(***************************************************************************)
(* When an index tells the truth about platforms.  An index entry pairs a  *)
(* platform that index.Run was given with the manifest a tag named at that *)
(* moment; nothing compares the two.  They agree for any number of         *)
(* processes and any interleaving if every tag of an artifact has one      *)
(* owner: the platform for which all requests push to it or list it.       *)
(***************************************************************************)


\* All requests agree about the platform of each tag.
OneOwner(owner) == \A j \in Jobs :
    /\ \A q \in ArtifactReqs[j] :
          ParsePlatform(q.platform) /\ q.ref # NoRef => owner[q.ref] = q.platform
    /\ \A q \in PlanReqs[j] : q.ref # NoRef => owner[q.ref] = NoPlatform
    /\ \A q \in IndexReqs[j] : \A i \in DOMAIN q.specs :
          q.specs[i].ref # NoRef => owner[q.specs[i].ref] = q.specs[i].platform
    /\ \A q \in MultiReqs[j] : \A p \in DOMAIN q.files :
          q.ref # NoRef => owner[DerivePerArchRef(q.ref, p)] = p

\* A reference that is listed for its platform, by tag or by digest.
SpecTrue(s, owner) == s.ref # NoRef =>
    s.platform = IF IsDigest(s.ref) THEN s.ref.digest.config ELSE owner[s.ref]

\* What a process has in hand agrees with the owners.
Claims(r, owner) ==
    /\ \A p \in DOMAIN r.arts : r.arts[p].config = p /\ owner[r.arts[p].ref] = p
    /\ \A i \in DOMAIN r.specs : SpecTrue(r.specs[i], owner)
    /\ \A i \in DOMAIN r.entries : r.entries[i].manifest.config = r.entries[i].platform

TagsOwned(owner) == \A t \in DOMAIN tags \cap ImageTags : tags[t].config = owner[t]

\* The inductive invariant, beside Inductive.
Matching(owner) ==
    /\ TagsOwned(owner)
    /\ PlatformsMatch
    /\ \A j \in Jobs : Claims(job[j], owner)

-----------------------------------------------------------------------------
(* The registry.                                                           *)

\* A tag is no digest.
LEMMA TagNoDigest ==
    ASSUME NEW t \in ImageTags PROVE ~IsDigest(t)
<1>1. t \in [repo : Repos, tag : Seq(STRING)]
  BY TagsAssumption DEF TagRef
<1> QED BY <1>1 DEF IsDigest

\* What a true spec resolves to is of its platform.
LEMMA FoundMatches ==
    ASSUME NEW owner, TagsOwned(owner), NEW s \in PlatformSpec, SpecTrue(s, owner),
           s.ref # NoRef, NEW m \in Resolve(s.ref)
    PROVE  m.config = s.platform
<1>1. s.ref \in ImageTags \/ s.ref \in DigestRef
  BY DEF PlatformSpec, Ref
<1>2. CASE s.ref \in ImageTags
  <2>1. ~IsDigest(s.ref)
    BY <1>2, TagNoDigest
  <2>2. s.ref \in DOMAIN tags /\ m = tags[s.ref]
    BY <2>1 DEF Resolve
  <2> QED BY <1>2, <2>1, <2>2 DEF TagsOwned, SpecTrue
<1>3. CASE s.ref \in DigestRef
  <2>1. IsDigest(s.ref)
    BY <1>3 DEF DigestRef, IsDigest
  <2> QED BY <2>1 DEF Resolve, SpecTrue
<1> QED BY <1>1, <1>2, <1>3

\* A pinned spec is as true as the spec was.
LEMMA PinnedTrue ==
    ASSUME NEW owner, TagsOwned(owner),
           NEW s \in [platform : Platforms, ref : ImageTags \cup {NoRef}], SpecTrue(s, owner)
    PROVE  SpecTrue(Pinned(s), owner)
<1>1. CASE s.ref # NoRef /\ Resolve(s.ref) # {}
  <2> DEFINE m == CHOOSE x \in Resolve(s.ref) : TRUE
             d == [repo |-> s.ref.repo, digest |-> m]
  <2>1. m \in Resolve(s.ref)
    BY <1>1
  <2>2. s \in PlatformSpec
    BY DEF PlatformSpec, Ref
  <2> HIDE DEF m
  <2>3. m.config = s.platform
    BY <1>1, <2>1, <2>2, FoundMatches
  <2>4. IsDigest(d) /\ d.digest = m
    BY DEF IsDigest
  <2>5. Pinned(s) = [s EXCEPT !.ref = d]
    BY <1>1 DEF Pinned, m
  <2> HIDE DEF d
  <2>6. Pinned(s).ref = d /\ Pinned(s).platform = s.platform
    BY <2>5
  <2> QED BY <2>3, <2>4, <2>6 DEF SpecTrue
<1>2. CASE ~(s.ref # NoRef /\ Resolve(s.ref) # {})
  BY <1>2 DEF Pinned
<1> QED BY <1>1, <1>2

\* A manifest of the owner's platform may be stored under its tag.
LEMMA ImageMatches ==
    ASSUME Inductive, NEW owner, TagsOwned(owner), PlatformsMatch,
           NEW ref \in ImageTags, NEW m \in Image, m.config = owner[ref], StoreManifest(ref, m)
    PROVE  TagsOwned(owner)' /\ PlatformsMatch'
<1>1. RegistryTypeOK /\ TagsStored /\ ref \in TagRef
  BY DEF Inductive, TypeOK, TagRef
<1>2. /\ \A r \in Repos : manifests'[r] =
            IF r = ref.repo THEN manifests[r] \cup {m} ELSE manifests[r]
      /\ DOMAIN tags' = DOMAIN tags \cup {ref}
      /\ \A t \in DOMAIN tags' : tags'[t] = IF t = ref THEN m ELSE tags[t]
  BY <1>1, StoreManifestEffect
<1>3. TagsOwned(owner)'
  BY <1>2 DEF TagsOwned
<1>4. ASSUME NEW r \in Repos, NEW x \in manifests'[r] \cap Index PROVE x \in manifests[r]
  BY <1>2, <1>4, KindsDisjoint
<1>5. PlatformsMatch'
  BY <1>4 DEF PlatformsMatch
<1> QED BY <1>3, <1>5

\* The entries of an index are of their platforms.
Paired(m) == \A i \in DOMAIN m.entries : m.entries[i].manifest.config = m.entries[i].platform

\* Such an index may be stored.
LEMMA IndexMatches ==
    ASSUME Inductive, NEW owner, TagsOwned(owner), PlatformsMatch,
           NEW ref \in IndexTags, NEW m \in Index, StoreManifest(ref, m), Paired(m)
    PROVE  TagsOwned(owner)' /\ PlatformsMatch'
<1>1. RegistryTypeOK /\ TagsStored /\ ref \in TagRef /\ ref \notin ImageTags
  BY TagsAssumption DEF Inductive, TypeOK, TagRef
<1>2. /\ \A r \in Repos : manifests'[r] =
            IF r = ref.repo THEN manifests[r] \cup {m} ELSE manifests[r]
      /\ DOMAIN tags' = DOMAIN tags \cup {ref}
      /\ \A t \in DOMAIN tags' : tags'[t] = IF t = ref THEN m ELSE tags[t]
  BY <1>1, StoreManifestEffect
<1>3. TagsOwned(owner)'
  BY <1>1, <1>2 DEF TagsOwned
<1>4. ASSUME NEW r \in Repos, NEW x \in manifests'[r] \cap Index
      PROVE  x \in manifests[r] \/ x = m
  <2>1. manifests'[r] = IF r = ref.repo THEN manifests[r] \cup {m} ELSE manifests[r]
    BY <1>2
  <2>2. manifests'[r] \subseteq manifests[r] \cup {m}
    BY <2>1
  <2> QED BY <1>4, <2>2
<1>5. PlatformsMatch'
  BY <1>4 DEF PlatformsMatch, Paired
<1> QED BY <1>3, <1>5

\* Everything else leaves manifests and tags alone.
LEMMA SameManifests ==
    ASSUME NEW owner, TagsOwned(owner), PlatformsMatch, UNCHANGED <<manifests, tags>>
    PROVE  TagsOwned(owner)' /\ PlatformsMatch'
BY DEF TagsOwned, PlatformsMatch

-----------------------------------------------------------------------------
(* The processes.                                                          *)

\* A process at rest claims nothing.
LEMMA RestClaims ==
    ASSUME NEW owner, NEW r \in {Idle, Failed}
    PROVE  Claims(r, owner)
<1>1. PICK pc \in {"idle", "failed"} : r = AtRest(pc)
  BY DEF Idle, Failed
<1>2. DOMAIN r.arts = {} /\ r.specs = <<>> /\ r.entries = <<>>
  BY <1>1 DEF AtRest
<1> QED BY <1>2 DEF Claims

\* Going on to the next phase claims nothing new.
LEMMA ResumeClaims ==
    ASSUME NEW owner, NEW r, JobTypeOK(r), Claims(r, owner)
    PROVE  Claims(Resume(r), owner)
<1> DEFINE s == Resume(r)
<1>1. s.arts = r.arts /\ s.specs = r.specs /\ s.entries = r.entries
  BY DEF Resume, JobTypeOK
<1> HIDE DEF s
<1>2. Claims(s, owner)
  BY <1>1 DEF Claims
<1> QED BY <1>2 DEF s

\* One process moves, with true claims.
LEMMA OneMoves ==
    ASSUME NEW owner, Matching(owner), NEW j \in Jobs, Moves(j),
           TagsOwned(owner)', PlatformsMatch', Claims(job'[j], owner)
    PROVE  Matching(owner)'
BY DEF Matching, Moves, Claims, SpecTrue

\* A command that starts with true claims, or is refused.
LEMMA StartMatches ==
    ASSUME Inductive, NEW owner, Matching(owner), NEW j \in Jobs, NEW accepted \in BOOLEAN,
           NEW arts, NEW specs, NEW out, Start(j, accepted, Work(arts, specs, out)),
           accepted =>
              /\ \A p \in DOMAIN arts : arts[p].config = p /\ owner[arts[p].ref] = p
              /\ \A i \in DOMAIN specs : SpecTrue(specs[i], owner)
    PROVE  Matching(owner)'
<1> DEFINE w == Work(arts, specs, out)
<1>1. Moves(j) /\ job'[j] = IF accepted THEN w ELSE Failed
  BY DEF Inductive, TypeOK, Start, Moves
<1>2. TagsOwned(owner)' /\ PlatformsMatch'
  BY SameManifests DEF Matching, Start, registryVars
<1>3. w.arts = arts /\ w.specs = specs /\ w.entries = <<>>
  BY DEF Work, Resume, Idle, AtRest
<1> HIDE DEF w
<1>4. accepted => Claims(w, owner)
  BY <1>3 DEF Claims
<1>5. Claims(job'[j], owner)
  BY <1>1, <1>4, RestClaims
<1> QED BY <1>1, <1>2, <1>5, OneMoves

-----------------------------------------------------------------------------
(* The command line.                                                       *)

\* A request starts with what the owners say of its tags.
LEMMA RequestMatches ==
    ASSUME Inductive, NEW owner, OneOwner(owner), Matching(owner), NEW j \in Jobs,
           ArtifactRun(j) \/ PlanRun(j) \/ IndexRun(j) \/ MultiRun(j)
    PROVE  Matching(owner)'
<1>1. CASE ArtifactRun(j)
  <2>1. PICK q \in ArtifactReqs[j] :
          Start(j, ParsePlatform(q.platform) /\ DOMAIN q.files # {} /\ q.ref # NoRef,
                Work([p \in {q.platform} |->
                         [ref |-> q.ref, config |-> p, files |-> q.files]],
                     <<>>, NoRef))
    BY <1>1 DEF ArtifactRun
  <2> DEFINE accepted == ParsePlatform(q.platform) /\ DOMAIN q.files # {} /\ q.ref # NoRef
             arts == [p \in {q.platform} |-> [ref |-> q.ref, config |-> p, files |-> q.files]]
  <2>2. accepted \in BOOLEAN
    BY DEF ParsePlatform
  <2>3. accepted => \A p \in DOMAIN arts : arts[p].config = p /\ owner[arts[p].ref] = p
    BY DEF OneOwner
  <2>4. \A i \in DOMAIN <<>> : SpecTrue(<<>>[i], owner)
    OBVIOUS
  <2> HIDE DEF accepted, arts
  <2>5. Start(j, accepted, Work(arts, <<>>, NoRef))
    BY <2>1 DEF accepted, arts
  <2> QED BY <2>2, <2>3, <2>4, <2>5, StartMatches
<1>2. CASE PlanRun(j)
  <2>1. PICK q \in PlanReqs[j] :
          Start(j, q.ref # NoRef,
                Work([p \in {NoPlatform} |-> PlanArtifact(q)], <<>>, NoRef))
    BY <1>2 DEF PlanRun
  <2> DEFINE accepted == q.ref # NoRef
             arts == [p \in {NoPlatform} |-> PlanArtifact(q)]
  <2>2. accepted => \A p \in DOMAIN arts : arts[p].config = p /\ owner[arts[p].ref] = p
    BY DEF OneOwner, PlanArtifact
  <2>3. \A i \in DOMAIN <<>> : SpecTrue(<<>>[i], owner)
    OBVIOUS
  <2> HIDE DEF arts
  <2>4. Start(j, accepted, Work(arts, <<>>, NoRef))
    BY <2>1 DEF arts
  <2> QED BY <2>2, <2>3, <2>4, StartMatches
<1>3. CASE IndexRun(j)
  <2>1. PICK q \in IndexReqs[j], pin \in BOOLEAN :
          Start(j, q.specs # <<>> /\ q.out # NoRef,
                Work([p \in {} |-> {}],
                     [i \in DOMAIN q.specs |->
                          IF pin THEN Pinned(q.specs[i]) ELSE q.specs[i]],
                     q.out))
    BY <1>3 DEF IndexRun
  <2> DEFINE given == q.specs
             out == q.out
             Given == [platform : Platforms, ref : ImageTags \cup {NoRef}]
             accepted == given # <<>> /\ out # NoRef
             arts == [p \in {} |-> {}]
             specs == [i \in DOMAIN given |-> IF pin THEN Pinned(given[i]) ELSE given[i]]
  <2>2. given \in Seq(Given)
    BY RequestTypes
  <2>3. \A i \in DOMAIN given : given[i] \in Given
    <3> HIDE DEF given, Given
    <3> QED BY <2>2, LenProperties, ElementOfSeq
  <2>4. ASSUME NEW i \in DOMAIN given PROVE SpecTrue(given[i], owner)
    <3>1. given[i] \in Given
      BY <2>3
    <3>2. given[i].ref # NoRef => given[i].ref \in ImageTags
      BY <3>1
    <3>3. given[i].ref # NoRef => owner[given[i].ref] = given[i].platform
      BY DEF OneOwner
    <3> QED BY <3>2, <3>3, TagNoDigest DEF SpecTrue
  <2>5. \A i \in DOMAIN specs : SpecTrue(specs[i], owner)
    BY <2>3, <2>4, PinnedTrue DEF Matching
  <2>6. \A p \in DOMAIN arts : arts[p].config = p /\ owner[arts[p].ref] = p
    OBVIOUS
  <2>7. Start(j, accepted, Work(arts, specs, out))
    BY <2>1
  <2> HIDE DEF given, out, arts, specs
  <2> QED BY <2>5, <2>6, <2>7, StartMatches
<1>4. CASE MultiRun(j)
  <2>1. PICK q \in MultiReqs[j] :
          Start(j, DOMAIN q.files # {} /\ q.ref # NoRef,
                Work([p \in DOMAIN q.files |-> MultiArtifact(q, p)], <<>>, q.ref))
    BY <1>4 DEF MultiRun
  <2> DEFINE out == q.ref
             accepted == DOMAIN q.files # {} /\ q.ref # NoRef
             arts == [p \in DOMAIN q.files |-> MultiArtifact(q, p)]
  <2>2. accepted => \A p \in DOMAIN arts : arts[p].config = p /\ owner[arts[p].ref] = p
    BY DEF OneOwner, MultiArtifact
  <2>3. \A i \in DOMAIN <<>> : SpecTrue(<<>>[i], owner)
    OBVIOUS
  <2>4. Start(j, accepted, Work(arts, <<>>, out)) /\ accepted \in BOOLEAN
    BY <2>1
  <2> HIDE DEF arts, accepted, out
  <2> QED BY <2>2, <2>3, <2>4, StartMatches
<1> QED BY <1>1, <1>2, <1>3, <1>4

-----------------------------------------------------------------------------
(* The steps of a running process.                                         *)

\* A blob is of no platform.
LEMMA BlobStepMatches ==
    ASSUME Inductive, NEW owner, Matching(owner), NEW j \in Jobs,
           PushConfig(j) \/ PushLayer(j) \/ RejectPlatform(j) \/ Fail(j)
    PROVE  Matching(owner)'
<1>1. /\ UNCHANGED <<manifests, tags>>
      /\ Moves(j)
      /\ \/ job'[j] = Failed
         \/ /\ job'[j].arts = job[j].arts /\ job'[j].specs = job[j].specs
            /\ job'[j].entries = job[j].entries
  <2>0. JobTypeOK(job[j]) /\ TypeOK
    BY DEF Inductive, TypeOK
  <2>1. CASE PushConfig(j)
    <3>1. PICK p \in Platforms \cup {NoPlatform} :
            /\ StoreBlob(job[j].arts[p].ref.repo, job[j].arts[p].config)
            /\ Settle(j, [job[j] EXCEPT !.pc = "layer", !.todo = DOMAIN job[j].arts[p].files,
                                        !.layers = <<>>])
      BY <2>1 DEF PushConfig
    <3> DEFINE r == [job[j] EXCEPT !.pc = "layer", !.todo = DOMAIN job[j].arts[p].files,
                                   !.layers = <<>>]
    <3>2. r.arts = job[j].arts /\ r.specs = job[j].specs /\ r.entries = job[j].entries
      BY <2>0 DEF JobTypeOK
    <3>3. Settle(j, r)
      BY <3>1
    <3> HIDE DEF r
    <3>4. Moves(j) /\ job'[j] \in {r, Failed}
      BY <2>0, <3>3, SettleMoves
    <3>5. UNCHANGED <<manifests, tags>>
      BY <3>1 DEF StoreBlob
    <3> QED BY <3>2, <3>4, <3>5
  <2>2. CASE PushLayer(j)
    <3>1. PICK p \in Platforms \cup {NoPlatform}, k \in Kinds :
            /\ StoreBlob(job[j].arts[p].ref.repo, job[j].arts[p].files[k])
            /\ Settle(j, [job[j] EXCEPT
                    !.todo = @ \ {k},
                    !.layers = Append(@, [kind |-> k, blob |-> job[j].arts[p].files[k]]),
                    !.pc = IF job[j].todo = {k} THEN "manifest" ELSE "layer"])
      BY <2>2 DEF PushLayer
    <3> DEFINE r == [job[j] EXCEPT
                    !.todo = @ \ {k},
                    !.layers = Append(@, [kind |-> k, blob |-> job[j].arts[p].files[k]]),
                    !.pc = IF job[j].todo = {k} THEN "manifest" ELSE "layer"]
    <3>2. r.arts = job[j].arts /\ r.specs = job[j].specs /\ r.entries = job[j].entries
      BY <2>0 DEF JobTypeOK
    <3>3. Settle(j, r)
      BY <3>1
    <3> HIDE DEF r
    <3>4. Moves(j) /\ job'[j] \in {r, Failed}
      BY <2>0, <3>3, SettleMoves
    <3>5. UNCHANGED <<manifests, tags>>
      BY <3>1 DEF StoreBlob
    <3> QED BY <3>2, <3>4, <3>5
  <2>3. CASE RejectPlatform(j) \/ Fail(j)
    <3>1. job' = [job EXCEPT ![j] = Failed] /\ UNCHANGED registryVars
      BY <2>3 DEF RejectPlatform, Fail
    <3> QED BY <2>0, <3>1 DEF TypeOK, Moves, registryVars
  <2> QED BY <2>1, <2>2, <2>3
<1>2. TagsOwned(owner)' /\ PlatformsMatch'
  BY <1>1, SameManifests DEF Matching
<1>3. Claims(job'[j], owner)
  <2>1. Claims(job[j], owner)
    BY DEF Matching
  <2> QED BY <1>1, <2>1, RestClaims DEF Claims
<1> QED BY <1>1, <1>2, <1>3, OneMoves

\* An artifact is pushed to the tag of its platform, and listed for it.
LEMMA PushManifestMatches ==
    ASSUME Inductive, NEW owner, Matching(owner), NEW j \in Jobs, PushManifest(j)
    PROVE  Matching(owner)'
<1> DEFINE a(p) == job[j].arts[p]
           m(p) == [type |-> "image", config |-> a(p).config, layers |-> job[j].layers]
           e(p) == [platform |-> p, ref |-> a(p).ref]
           r(p) == [job[j] EXCEPT
                    !.left = @ \ {p}, !.layers = <<>>,
                    !.specs = IF job[j].out = NoRef THEN @ ELSE Append(@, e(p))]
<1>1. PICK p \in Platforms \cup {NoPlatform} :
               /\ job[j].pc = "manifest" /\ IsCurrent(job[j], p)
               /\ StoreManifest(a(p).ref, m(p))
               /\ Settle(j, Resume(r(p)))
  BY DEF PushManifest
<1>2. /\ JobTypeOK(job[j]) /\ p \in job[j].left /\ p \in DOMAIN job[j].arts
      /\ IsArtifact(a(p)) /\ a(p).ref \in ImageTags
  BY <1>1, CurrentArtifact DEF IsArtifact
<1>3. Claims(job[j], owner) /\ a(p).config = p /\ owner[a(p).ref] = p
  BY <1>2 DEF Matching, Claims
<1>4. TagsOwned(owner)' /\ PlatformsMatch'
  <2> DEFINE x == m(p)
  <2>1. x \in Image /\ x.config = owner[a(p).ref]
    BY <1>2, <1>3 DEF IsArtifact, JobTypeOK, Image
  <2> HIDE DEF x
  <2> QED BY <1>1, <1>2, <2>1, ImageMatches DEF Matching, x
<1>5. Moves(j) /\ job'[j] \in {Resume(r(p)), Failed}
  BY <1>1, SettleMoves DEF Inductive
<1>6. Claims(Resume(r(p)), owner)
  <2> DEFINE s == r(p)
             x == e(p)
  <2>1. x.ref = a(p).ref /\ x.platform = p
    OBVIOUS
  <2>2. SpecTrue(x, owner)
    BY <1>2, <1>3, <2>1, TagNoDigest DEF SpecTrue
  <2>3. job[j].out # NoRef => x \in PlatformSpec
    BY <1>2 DEF IsArtifact, PlatformSpec, Ref, JobTypeOK
  <2> HIDE DEF x
  <2>4. /\ DOMAIN s = DOMAIN job[j]
        /\ s.arts = job[j].arts /\ s.entries = job[j].entries
        /\ s.specs = IF job[j].out = NoRef THEN job[j].specs ELSE Append(job[j].specs, x)
    BY <1>2 DEF JobTypeOK, x
  <2> HIDE DEF s
  <2>5. \A i \in DOMAIN s.specs : SpecTrue(s.specs[i], owner)
    <3>1. CASE job[j].out = NoRef
      BY <1>3, <2>4, <3>1 DEF Claims
    <3>2. CASE job[j].out # NoRef
      <4>1. job[j].specs \in Seq(PlatformSpec) /\ s.specs = Append(job[j].specs, x)
        BY <1>2, <2>4, <3>2 DEF JobTypeOK
      <4>2. /\ s.specs \in Seq(PlatformSpec)
            /\ Len(s.specs) = Len(job[j].specs) + 1
            /\ \A i \in 1 .. Len(job[j].specs) : s.specs[i] = job[j].specs[i]
            /\ s.specs[Len(job[j].specs) + 1] = x
        BY <2>3, <3>2, <4>1, AppendProperties
      <4>3. /\ Len(job[j].specs) \in Nat /\ DOMAIN job[j].specs = 1 .. Len(job[j].specs)
            /\ DOMAIN s.specs = 1 .. Len(job[j].specs) + 1
        BY <4>1, <4>2, LenProperties
      <4>4. ASSUME NEW i \in DOMAIN s.specs
            PROVE  s.specs[i] = x \/ (i \in DOMAIN job[j].specs /\ s.specs[i] = job[j].specs[i])
        BY <4>2, <4>3
      <4> QED BY <1>3, <2>2, <4>4 DEF Claims
    <3> QED BY <3>1, <3>2
  <2>6. Claims(s, owner)
    BY <1>3, <2>4, <2>5 DEF Claims
  <2>7. Resume(s).arts = s.arts /\ Resume(s).specs = s.specs /\ Resume(s).entries = s.entries
    BY <1>2, <2>4 DEF Resume, JobTypeOK
  <2>8. Claims(Resume(s), owner)
    BY <2>6, <2>7 DEF Claims
  <2> QED BY <2>8 DEF s
<1>7. Claims(job'[j], owner)
  BY <1>5, <1>6, RestClaims
<1> QED BY <1>4, <1>5, <1>7, OneMoves

\* What a lookup finds is of the platform it is listed for.
LEMMA DescribeMatches ==
    ASSUME Inductive, NEW owner, Matching(owner), NEW j \in Jobs, Describe(j)
    PROVE  Matching(owner)'
<1> DEFINE n == Len(job[j].entries) + 1
           spec == job[j].specs[n]
           e(m) == [platform |-> spec.platform, manifest |-> m]
           r(m) == [job[j] EXCEPT !.entries = Append(@, e(m))]
<1>1. JobTypeOK(job[j]) /\ ProcessInv(j) /\ StoreInv /\ Claims(job[j], owner)
  BY InductiveStore DEF Inductive, TypeOK, Matching
<1>2. job[j].pc = "describe" /\ UNCHANGED registryVars
  BY DEF Describe
<1>3. TagsOwned(owner)' /\ PlatformsMatch'
  BY <1>2, SameManifests DEF Matching, registryVars
<1>4. job[j].specs \in Seq(PlatformSpec) /\ job[j].entries \in Seq(Entry)
  BY <1>1 DEF JobTypeOK
<1>5. spec \in PlatformSpec /\ SpecTrue(spec, owner)
  <2>1. Len(job[j].entries) < Len(job[j].specs)
    BY <1>1, <1>2 DEF ProcessInv
  <2>2. Len(job[j].entries) \in Nat /\ Len(job[j].specs) \in Nat
        /\ DOMAIN job[j].specs = 1 .. Len(job[j].specs)
    BY <1>4, LenProperties
  <2>3. n \in 1 .. Len(job[j].specs)
    BY <2>1, <2>2
  <2> HIDE DEF n
  <2> QED BY <1>1, <1>4, <2>2, <2>3, ElementOfSeq DEF Claims
<1>6. CASE job' = [job EXCEPT ![j] = Failed]
  <2>1. Moves(j) /\ job'[j] = Failed
    BY <1>6 DEF Inductive, TypeOK, Moves
  <2> QED BY <1>3, <2>1, RestClaims, OneMoves
<1>7. CASE /\ spec.ref # NoRef
           /\ \E m \in Resolve(spec.ref) : job' = [job EXCEPT ![j] = Resume(r(m))]
  <2>1. PICK m \in Resolve(spec.ref) : job' = [job EXCEPT ![j] = Resume(r(m))]
    BY <1>7
  <2>2. spec.ref \in Ref /\ spec.platform \in Platforms
    BY <1>5, <1>7 DEF PlatformSpec
  <2>3. m.config = spec.platform /\ m \in Image
    BY <1>1, <1>5, <1>7, <2>2, FoundMatches, ResolveFinds DEF StoreInv, Matching
  <2> DEFINE x == e(m)
             s == r(m)
  <2>4. x \in Entry /\ x.manifest.config = x.platform
    BY <2>2, <2>3 DEF Entry
  <2> HIDE DEF x
  <2>5. /\ DOMAIN s = DOMAIN job[j]
        /\ s.arts = job[j].arts /\ s.specs = job[j].specs
        /\ s.entries = Append(job[j].entries, x)
    BY <1>1 DEF JobTypeOK, x
  <2> HIDE DEF s
  <2>6. ASSUME NEW i \in DOMAIN s.entries
        PROVE  s.entries[i] = x \/ (i \in DOMAIN job[j].entries /\ s.entries[i] = job[j].entries[i])
    <3>1. /\ s.entries \in Seq(Entry)
          /\ Len(s.entries) = Len(job[j].entries) + 1
          /\ \A k \in 1 .. Len(job[j].entries) : s.entries[k] = job[j].entries[k]
          /\ s.entries[Len(job[j].entries) + 1] = x
      BY <1>4, <2>4, <2>5, AppendProperties
    <3>2. /\ Len(job[j].entries) \in Nat /\ DOMAIN job[j].entries = 1 .. Len(job[j].entries)
          /\ DOMAIN s.entries = 1 .. Len(job[j].entries) + 1
      BY <1>4, <3>1, LenProperties
    <3>3. i = Len(job[j].entries) + 1 \/ i \in 1 .. Len(job[j].entries)
      BY <2>6, <3>2
    <3> QED BY <3>1, <3>2, <3>3
  <2>7. Claims(s, owner)
    BY <1>1, <2>4, <2>5, <2>6 DEF Claims
  <2>8. Resume(s).arts = s.arts /\ Resume(s).specs = s.specs /\ Resume(s).entries = s.entries
    BY <1>1, <2>5 DEF Resume, JobTypeOK
  <2>9. Claims(Resume(s), owner)
    BY <2>7, <2>8 DEF Claims
  <2>10. Moves(j) /\ job'[j] = Resume(s)
    BY <2>1 DEF Inductive, TypeOK, Moves, s
  <2> QED BY <1>3, <2>9, <2>10, OneMoves
<1> QED BY <1>6, <1>7 DEF Describe

\* The index repeats what the lookups found.
LEMMA PutIndexMatches ==
    ASSUME Inductive, NEW owner, Matching(owner), NEW j \in Jobs, PutIndex(j)
    PROVE  Matching(owner)'
<1> DEFINE x == [type |-> "index", entries |-> job[j].entries]
           r == [job[j] EXCEPT !.pc = "ok"]
<1>1. /\ job[j].pc = "putindex" /\ StoreManifest(job[j].out, x) /\ Settle(j, r)
  BY DEF PutIndex
<1>2. JobTypeOK(job[j]) /\ ProcessInv(j) /\ Claims(job[j], owner)
  BY DEF Inductive, TypeOK, Matching
<1>3. job[j].out \in IndexTags
  BY <1>1, <1>2 DEF JobTypeOK, ProcessInv
<1>4. x \in Index /\ x.entries = job[j].entries
  BY <1>2 DEF JobTypeOK, Index
<1>5. TagsOwned(owner)' /\ PlatformsMatch'
  <2>1. \A i \in DOMAIN x.entries : x.entries[i].manifest.config = x.entries[i].platform
    BY <1>2, <1>4 DEF Claims
  <2> HIDE DEF x
  <2> QED BY <1>1, <1>3, <1>4, <2>1, IndexMatches DEF Matching, Paired
<1>6. r.arts = job[j].arts /\ r.specs = job[j].specs /\ r.entries = job[j].entries
  BY <1>2 DEF JobTypeOK
<1> HIDE DEF r
<1>7. Moves(j) /\ job'[j] \in {r, Failed}
  BY <1>1, SettleMoves DEF Inductive
<1>8. Claims(r, owner)
  BY <1>2, <1>6 DEF Claims
<1>9. Claims(job'[j], owner)
  BY <1>7, <1>8, RestClaims
<1> QED BY <1>5, <1>7, <1>9, OneMoves

-----------------------------------------------------------------------------
(* The theorem.                                                            *)

\* An empty registry holds no wrong platform.
LEMMA MatchingInit ==
    ASSUME NEW owner PROVE Init => Matching(owner)
<1> SUFFICES ASSUME Init PROVE Matching(owner)
  OBVIOUS
<1>1. DOMAIN tags = {} /\ (\A r \in Repos : manifests[r] = {}) /\ (\A j \in Jobs : job[j] = Idle)
  BY DEF Init, RegistryInit
<1>2. TagsOwned(owner) /\ PlatformsMatch
  BY <1>1 DEF TagsOwned, PlatformsMatch
<1>3. Claims(Idle, owner)
  BY RestClaims
<1> QED BY <1>1, <1>2, <1>3 DEF Matching

\* Every step keeps an index's platforms right.
LEMMA MatchingStep ==
    ASSUME NEW owner, OneOwner(owner)
    PROVE  Inductive /\ Matching(owner) /\ [Next]_vars => Matching(owner)'
<1> SUFFICES ASSUME Inductive, Matching(owner), [Next]_vars PROVE Matching(owner)'
  OBVIOUS
<1>1. CASE UNCHANGED vars
  BY <1>1 DEF vars, Matching, TagsOwned, PlatformsMatch, Claims, SpecTrue
<1>2. ASSUME NEW j \in Jobs, ArtifactRun(j) \/ PlanRun(j) \/ IndexRun(j) \/ MultiRun(j)
      PROVE  Matching(owner)'
  BY <1>2, RequestMatches
<1>3. ASSUME NEW j \in Jobs, Progress(j) \/ Fail(j) PROVE Matching(owner)'
  BY <1>3, BlobStepMatches, PushManifestMatches, DescribeMatches, PutIndexMatches DEF Progress
<1> QED BY <1>1, <1>2, <1>3 DEF Next

\* If all requests agree which platform each tag is for, a machine that picks
\* an index entry by its platform gets a kernel of that platform, although
\* every lookup is by a tag that others may move.
THEOREM PlatformsAgree ==
    ASSUME NEW CONSTANT owner, OneOwner(owner)
    PROVE  Spec => []PlatformsMatch
<1>1. Init => Inductive /\ Matching(owner)
  BY InductiveInit, MatchingInit
<1>2. Inductive /\ Matching(owner) /\ [Next]_vars => (Inductive /\ Matching(owner))'
  BY InductiveStep, MatchingStep
<1>3. Matching(owner) => PlatformsMatch
  BY DEF Matching
<1> QED BY <1>1, <1>2, <1>3, PTL DEF Spec

-----------------------------------------------------------------------------
(***************************************************************************)
(* What a push that reports success has published, and what whoever pulls  *)
(* from the registry sees of the pushes that run.                          *)
(***************************************************************************)


-----------------------------------------------------------------------------
(* Sorted.                                                                 *)

\* rank orders S: no two members have the same rank.
Ranks(rank, S) ==
    /\ \A x \in S : rank[x] \in Nat
    /\ \A x, y \in S : rank[x] = rank[y] => x = y

\* Every member of done comes before every other member of S.
Precede(done, S, rank) == \A x \in done, y \in S \ done : rank[x] < rank[y]

\* A sorted sequence has as many elements as its set.
LEMMA SortedDomain ==
    ASSUME NEW S, NEW rank
    PROVE  /\ DOMAIN Sorted(S, rank) = 1 .. Cardinality(S)
           /\ Sorted(S, rank) = [i \in 1 .. Cardinality(S) |-> Sorted(S, rank)[i]]
<1> DEFINE pick(i) == CHOOSE x \in S : Cardinality({y \in S : rank[y] <= rank[x]}) = i
<1>1. Sorted(S, rank) = [i \in 1 .. Cardinality(S) |-> pick(i)]
  BY DEF Sorted
<1> HIDE DEF pick
<1> QED BY <1>1

\* If done is what comes before k, then k is the next in order.
LEMMA SortedNext ==
    ASSUME NEW S, IsFiniteSet(S), NEW rank, Ranks(rank, S),
           NEW done \in SUBSET S, Precede(done, S, rank),
           NEW k \in S \ done, \A y \in S \ done : rank[k] <= rank[y]
    PROVE  /\ Cardinality(done) \in Nat
           /\ Cardinality(done \cup {k}) = Cardinality(done) + 1
           /\ Cardinality(done) + 1 \in 1 .. Cardinality(S)
           /\ Sorted(S, rank)[Cardinality(done) + 1] = k
           /\ Precede(done \cup {k}, S, rank)
<1> DEFINE below(x) == {y \in S : rank[y] <= rank[x]}
           n == Cardinality(done) + 1
<1>1. IsFiniteSet(done) /\ Cardinality(done) \in Nat /\ Cardinality(S) \in Nat
  BY FS_Subset, FS_CardinalityType
<1>2. Cardinality(done \cup {k}) = n /\ done \cup {k} \in SUBSET S
  BY <1>1, FS_AddElement
<1>3. n <= Cardinality(S)
  BY <1>2, FS_Subset
<1>4. below(k) = done \cup {k}
  BY DEF Ranks, Precede
<1>5. ASSUME NEW x \in S, Cardinality(below(x)) = n PROVE x = k
  <2>1. below(x) \in SUBSET S /\ below(k) \in SUBSET S
    OBVIOUS
  <2>2. below(x) \subseteq below(k) \/ below(k) \subseteq below(x)
    BY DEF Ranks
  <2>3. Cardinality(below(k)) = n
    BY <1>2, <1>4
  <2>4. IsFiniteSet(below(x)) /\ IsFiniteSet(below(k))
    BY <2>1, FS_Subset
  <2>5. below(x) = below(k)
    <3> HIDE DEF below
    <3>1. CASE below(x) \subseteq below(k)
      BY <1>5, <2>3, <2>4, <3>1, FS_Subset
    <3>2. CASE below(k) \subseteq below(x)
      BY <1>5, <2>3, <2>4, <3>2, FS_Subset
    <3> QED BY <2>2, <3>1, <3>2
  <2>6. x \in below(k) /\ k \in below(x)
    BY <2>5 DEF Ranks
  <2> QED BY <2>6 DEF Ranks
<1>6. Cardinality(below(k)) = n
  BY <1>2, <1>4
<1>7. Sorted(S, rank)[n] = CHOOSE x \in S : Cardinality(below(x)) = n
  <2>1. n \in 1 .. Cardinality(S)
    BY <1>1, <1>3
  <2> HIDE DEF n
  <2> QED BY <2>1, Zenon DEF Sorted
<1> HIDE DEF below, n
<1>8. Sorted(S, rank)[n] = k
  BY <1>5, <1>6, <1>7
<1>9. Precede(done \cup {k}, S, rank)
  BY DEF Precede, Ranks
<1> QED BY <1>1, <1>2, <1>3, <1>8, <1>9 DEF n

\* The kinds of layers are eight, in a fixed order.
LEMMA FilesRanked ==
    ASSUME NEW files, IsFiles(files)
    PROVE  IsFiniteSet(DOMAIN files) /\ Ranks(LayerRank, DOMAIN files)
<1>1. DOMAIN files \subseteq Kinds
  BY DEF IsFiles
<1>2. \A k \in Kinds : LayerRank[k] \in 1 .. 8
  BY DEF Kinds, LayerRank
<1>3. \A k, l \in Kinds : LayerRank[k] = LayerRank[l] => k = l
  BY DEF Kinds, LayerRank
<1>4. IsFiniteSet(Kinds)
  <2> DEFINE rank == [k \in Kinds |-> LayerRank[k]]
  <2>1. rank \in Injection(Kinds, 1 .. 8)
    BY <1>2, <1>3 DEF Injection, IsInjective
  <2> HIDE DEF rank
  <2>2. IsFiniteSet(1 .. 8)
    <3>1. 1 \in Int /\ 8 \in Int
      OBVIOUS
    <3> QED BY <3>1, FS_Interval
  <2> QED BY <2>1, <2>2, FS_Injection
<1>5. IsFiniteSet(DOMAIN files)
  BY <1>1, <1>4, FS_Subset
<1>6. Ranks(LayerRank, DOMAIN files)
  BY <1>1, <1>2, <1>3 DEF Ranks
<1> QED BY <1>5, <1>6

\* The platforms of a request are in the order of their names.
LEMMA PlatformsRanked ==
    ASSUME NEW S \in SUBSET (Platforms \cup {NoPlatform})
    PROVE  Ranks(PlatformRank, S)
BY NamesAssumption DEF Ranks

-----------------------------------------------------------------------------
(* What a step does to the process that takes it.                          *)

SameWork(r, s) ==
    /\ s.arts = r.arts /\ s.left = r.left
    /\ s.specs = r.specs /\ s.out = r.out /\ s.entries = r.entries

\* Where a process goes on when an artifact, a lookup or its start is done.
GoesOn(s) == s.pc = IF s.left # {} THEN "config"
                    ELSE IF s.out = NoRef THEN "ok"
                    ELSE IF Len(s.entries) < Len(s.specs) THEN "describe"
                    ELSE "putindex"

\* multi.Run turns to its next platform, or to the index, with its work unchanged.
LEMMA ResumeGoesOn ==
    ASSUME NEW r, JobTypeOK(r)
    PROVE  /\ SameWork(r, Resume(r)) /\ GoesOn(Resume(r))
           /\ Resume(r).layers = r.layers /\ Resume(r).todo = r.todo
<1> DEFINE s == Resume(r)
<1>1. /\ s.arts = r.arts /\ s.left = r.left /\ s.todo = r.todo /\ s.layers = r.layers
      /\ s.specs = r.specs /\ s.out = r.out /\ s.entries = r.entries
      /\ s.pc = IF r.left # {} THEN "config"
                 ELSE IF r.out = NoRef THEN "ok"
                 ELSE IF Len(r.entries) < Len(r.specs) THEN "describe"
                 ELSE "putindex"
  BY DEF Resume, JobTypeOK
<1> HIDE DEF s
<1>2. SameWork(r, s) /\ GoesOn(s) /\ s.layers = r.layers /\ s.todo = r.todo
  BY <1>1 DEF SameWork, GoesOn
<1> QED BY <1>2 DEF s

\* A command begins with all of its work left, or is refused.
LEMMA StartEffect ==
    ASSUME Inductive, NEW j \in Jobs, NEW accepted \in BOOLEAN,
           NEW arts, NEW specs, NEW out, Start(j, accepted, Work(arts, specs, out))
    PROVE  /\ UNCHANGED registryVars /\ Moves(j)
           /\ \/ job'[j] = Failed
              \/ /\ accepted
                 /\ job'[j].arts = arts /\ job'[j].left = DOMAIN arts
                 /\ job'[j].specs = specs /\ job'[j].out = out
                 /\ job'[j].entries = <<>> /\ GoesOn(job'[j])
<1> DEFINE w == Work(arts, specs, out)
<1>1. Moves(j) /\ job'[j] = IF accepted THEN w ELSE Failed
  BY DEF Inductive, TypeOK, Start, Moves
<1>2. /\ w.arts = arts /\ w.left = DOMAIN arts /\ w.specs = specs /\ w.out = out
      /\ w.entries = <<>>
      /\ w.pc = IF DOMAIN arts # {} THEN "config"
                 ELSE IF out = NoRef THEN "ok"
                 ELSE IF Len(<<>>) < Len(specs) THEN "describe"
                 ELSE "putindex"
  BY DEF Work, Resume, Idle, AtRest
<1> HIDE DEF w
<1>3. GoesOn(w)
  BY <1>2 DEF GoesOn
<1>4. UNCHANGED registryVars
  BY DEF Start
<1> QED BY <1>1, <1>2, <1>3, <1>4

\* The config blob is pushed.
LEMMA PushConfigEffect ==
    ASSUME Inductive, NEW j \in Jobs, PushConfig(j)
    PROVE  /\ UNCHANGED <<manifests, tags>> /\ Moves(j)
           /\ \/ job'[j] = Failed
              \/ /\ SameWork(job[j], job'[j])
                 /\ job'[j].pc = "layer" /\ job'[j].layers = <<>>
                 /\ \E p \in job[j].left :
                       /\ IsCurrent(job[j], p)
                       /\ job'[j].todo = DOMAIN job[j].arts[p].files
<1> DEFINE r(p) == [job[j] EXCEPT !.pc = "layer", !.todo = DOMAIN job[j].arts[p].files,
                                  !.layers = <<>>]
<1>1. PICK p : /\ IsCurrent(job[j], p)
               /\ StoreBlob(job[j].arts[p].ref.repo, job[j].arts[p].config)
               /\ Settle(j, r(p))
  BY DEF PushConfig
<1>2. JobTypeOK(job[j]) /\ p \in job[j].left
  BY <1>1, CurrentArtifact
<1>3. Moves(j) /\ job'[j] \in {r(p), Failed}
  BY <1>1, SettleMoves DEF Inductive
<1>4. UNCHANGED <<manifests, tags>>
  BY <1>1 DEF StoreBlob
<1>5. CASE job'[j] = r(p)
  <2>1. /\ SameWork(job[j], job'[j])
        /\ job'[j].pc = "layer" /\ job'[j].layers = <<>>
        /\ job'[j].todo = DOMAIN job[j].arts[p].files
    BY <1>2, <1>5 DEF JobTypeOK, SameWork
  <2> QED BY <1>1, <1>2, <1>3, <1>4, <2>1
<1> QED BY <1>3, <1>4, <1>5

\* A layer blob is pushed.
LEMMA PushLayerEffect ==
    ASSUME Inductive, NEW j \in Jobs, PushLayer(j)
    PROVE  /\ UNCHANGED <<manifests, tags>> /\ Moves(j) /\ job[j].pc = "layer"
           /\ \/ job'[j] = Failed
              \/ \E p \in job[j].left, k \in job[j].todo :
                    /\ IsCurrent(job[j], p)
                    /\ \A l \in job[j].todo : LayerRank[k] <= LayerRank[l]
                    /\ SameWork(job[j], job'[j])
                    /\ job'[j].todo = job[j].todo \ {k}
                    /\ job'[j].layers = Append(job[j].layers,
                                              [kind |-> k, blob |-> job[j].arts[p].files[k]])
                    /\ job'[j].pc = IF job[j].todo = {k} THEN "manifest" ELSE "layer"
<1> DEFINE d(p, k) == [kind |-> k, blob |-> job[j].arts[p].files[k]]
           r(p, k) == [job[j] EXCEPT
                    !.todo = @ \ {k},
                    !.layers = Append(@, d(p, k)),
                    !.pc = IF job[j].todo = {k} THEN "manifest" ELSE "layer"]
<1>1. PICK p \in Platforms \cup {NoPlatform}, k \in Kinds :
               /\ job[j].pc = "layer" /\ IsCurrent(job[j], p)
               /\ k \in job[j].todo
               /\ \A l \in job[j].todo : LayerRank[k] <= LayerRank[l]
               /\ StoreBlob(job[j].arts[p].ref.repo, job[j].arts[p].files[k])
               /\ Settle(j, r(p, k))
  BY DEF PushLayer
<1> DEFINE x == d(p, k)
<1>2. JobTypeOK(job[j]) /\ p \in job[j].left
  BY <1>1, CurrentArtifact
<1>3. Moves(j) /\ job'[j] \in {r(p, k), Failed}
  BY <1>1, SettleMoves DEF Inductive
<1>4. UNCHANGED <<manifests, tags>>
  BY <1>1 DEF StoreBlob
<1>5. CASE job'[j] = r(p, k)
  <2> HIDE DEF x
  <2>1. /\ SameWork(job[j], job'[j])
        /\ job'[j].todo = job[j].todo \ {k}
        /\ job'[j].layers = Append(job[j].layers, x)
        /\ job'[j].pc = IF job[j].todo = {k} THEN "manifest" ELSE "layer"
    BY <1>2, <1>5 DEF JobTypeOK, SameWork, x
  <2> QED BY <1>1, <1>2, <1>3, <1>4, <2>1 DEF x
<1> QED BY <1>1, <1>3, <1>4, <1>5

\* The manifest is pushed; for an index the artifact becomes a spec.
LEMMA PushManifestEffect ==
    ASSUME Inductive, NEW j \in Jobs, PushManifest(j)
    PROVE  /\ Moves(j) /\ job[j].pc = "manifest"
           /\ \E p \in job[j].left :
                 LET a == job[j].arts[p] IN
                 /\ IsCurrent(job[j], p)
                 /\ StoreManifest(a.ref, [type |-> "image", config |-> a.config,
                                          layers |-> job[j].layers])
                 /\ \/ job'[j] = Failed
                    \/ /\ job'[j].arts = job[j].arts /\ job'[j].out = job[j].out
                       /\ job'[j].left = job[j].left \ {p}
                       /\ job'[j].entries = job[j].entries /\ GoesOn(job'[j])
                       /\ job'[j].specs = IF job[j].out = NoRef THEN job[j].specs
                              ELSE Append(job[j].specs, [platform |-> p, ref |-> a.ref])
<1> DEFINE a(p) == job[j].arts[p]
           m(p) == [type |-> "image", config |-> a(p).config, layers |-> job[j].layers]
           e(p) == [platform |-> p, ref |-> a(p).ref]
           r(p) == [job[j] EXCEPT
                    !.left = @ \ {p}, !.layers = <<>>,
                    !.specs = IF job[j].out = NoRef THEN @ ELSE Append(@, e(p))]
<1>1. PICK p \in Platforms \cup {NoPlatform} :
               /\ job[j].pc = "manifest" /\ IsCurrent(job[j], p)
               /\ StoreManifest(a(p).ref, m(p))
               /\ Settle(j, Resume(r(p)))
  BY DEF PushManifest
<1>2. JobTypeOK(job[j]) /\ p \in job[j].left /\ IsArtifact(a(p))
  BY <1>1, CurrentArtifact
<1>3. Moves(j) /\ job'[j] \in {Resume(r(p)), Failed}
  BY <1>1, SettleMoves DEF Inductive
<1>4. CASE job'[j] = Resume(r(p))
  <2> DEFINE s == r(p)
             x == e(p)
  <2>1. job[j].out # NoRef => x \in PlatformSpec
    BY <1>2 DEF IsArtifact, PlatformSpec, Ref, JobTypeOK
  <2> HIDE DEF x
  <2>2. /\ DOMAIN s = DOMAIN job[j]
        /\ s.arts = job[j].arts /\ s.left = job[j].left \ {p}
        /\ s.todo = job[j].todo /\ s.out = job[j].out
        /\ s.entries = job[j].entries /\ s.pc = job[j].pc
        /\ s.layers = <<>>
        /\ s.specs = IF job[j].out = NoRef THEN job[j].specs
                     ELSE Append(job[j].specs, x)
    BY <1>2 DEF JobTypeOK, x
  <2> HIDE DEF s
  <2>3. s.specs \in Seq(PlatformSpec)
    BY <1>2, <2>1, <2>2, AppendProperties DEF JobTypeOK
  <2>4. s.layers \in Seq(Layer)
    BY <2>2
  <2>5. JobTypeOK(s)
    BY <1>2, <2>2, <2>3, <2>4 DEF JobTypeOK
  <2>6. job'[j] = Resume(s)
    BY <1>4 DEF s
  <2>7. SameWork(s, job'[j]) /\ GoesOn(job'[j])
    BY <2>5, <2>6, ResumeGoesOn
  <2>8. /\ job'[j].arts = job[j].arts /\ job'[j].out = job[j].out
        /\ job'[j].left = job[j].left \ {p}
        /\ job'[j].entries = job[j].entries /\ GoesOn(job'[j])
        /\ job'[j].specs = IF job[j].out = NoRef THEN job[j].specs
                           ELSE Append(job[j].specs, x)
    BY <2>2, <2>7 DEF SameWork
  <2> QED BY <1>1, <1>2, <1>3, <2>8 DEF x
<1>5. CASE job'[j] = Failed
  BY <1>1, <1>2, <1>3, <1>5
<1> QED BY <1>3, <1>4, <1>5

\* A spec is looked up, and what it resolves to becomes an entry.
LEMMA DescribeEffect ==
    ASSUME Inductive, NEW j \in Jobs, Describe(j)
    PROVE  /\ UNCHANGED registryVars /\ Moves(j) /\ job[j].pc = "describe"
           /\ \/ job'[j] = Failed
              \/ LET spec == job[j].specs[Len(job[j].entries) + 1] IN
                 /\ spec \in PlatformSpec /\ spec.ref # NoRef
                 /\ \E m \in Resolve(spec.ref) :
                       /\ m \in Image
                       /\ job'[j].entries = Append(job[j].entries,
                                          [platform |-> spec.platform, manifest |-> m])
                 /\ job'[j].arts = job[j].arts /\ job'[j].left = job[j].left
                 /\ job'[j].specs = job[j].specs /\ job'[j].out = job[j].out
                 /\ GoesOn(job'[j])
<1> DEFINE n == Len(job[j].entries) + 1
           spec == job[j].specs[n]
           e(m) == [platform |-> spec.platform, manifest |-> m]
           r(m) == [job[j] EXCEPT !.entries = Append(@, e(m))]
<1>1. JobTypeOK(job[j]) /\ ProcessInv(j) /\ StoreInv
  BY InductiveStore DEF Inductive, TypeOK
<1>2. job[j].pc = "describe" /\ UNCHANGED registryVars
  BY DEF Describe
<1>3. job[j].specs \in Seq(PlatformSpec) /\ job[j].entries \in Seq(Entry)
  BY <1>1 DEF JobTypeOK
<1>4. spec \in PlatformSpec
  <2>1. Len(job[j].entries) < Len(job[j].specs)
    BY <1>1, <1>2 DEF ProcessInv
  <2>2. Len(job[j].entries) \in Nat /\ Len(job[j].specs) \in Nat
    BY <1>3, LenProperties
  <2>3. n \in 1 .. Len(job[j].specs)
    BY <2>1, <2>2
  <2> HIDE DEF n
  <2> QED BY <1>3, <2>3, ElementOfSeq
<1>5. CASE job' = [job EXCEPT ![j] = Failed]
  BY <1>2, <1>5 DEF Inductive, TypeOK, Moves
<1>6. CASE /\ spec.ref # NoRef
           /\ \E m \in Resolve(spec.ref) : job' = [job EXCEPT ![j] = Resume(r(m))]
  <2>1. PICK m \in Resolve(spec.ref) : job' = [job EXCEPT ![j] = Resume(r(m))]
    BY <1>6
  <2>2. spec.ref \in Ref /\ spec.platform \in Platforms
    BY <1>4, <1>6 DEF PlatformSpec
  <2>3. m \in Image
    BY <1>1, <2>2, ResolveFinds DEF StoreInv
  <2> DEFINE x == e(m)
             s == r(m)
  <2>4. x \in Entry
    BY <2>2, <2>3 DEF Entry
  <2> HIDE DEF x
  <2>5. /\ DOMAIN s = DOMAIN job[j]
        /\ s.arts = job[j].arts /\ s.left = job[j].left /\ s.todo = job[j].todo
        /\ s.layers = job[j].layers /\ s.specs = job[j].specs
        /\ s.out = job[j].out /\ s.pc = job[j].pc
        /\ s.entries = Append(job[j].entries, x)
    BY <1>1 DEF JobTypeOK, x
  <2> HIDE DEF s
  <2>6. s.entries \in Seq(Entry)
    BY <1>3, <2>4, <2>5, AppendProperties
  <2>7. JobTypeOK(s)
    BY <1>1, <2>5, <2>6 DEF JobTypeOK
  <2>8. Moves(j) /\ job'[j] = Resume(s)
    BY <2>1 DEF Inductive, TypeOK, Moves, s
  <2>9. SameWork(s, job'[j]) /\ GoesOn(job'[j])
    BY <2>7, <2>8, ResumeGoesOn
  <2>10. /\ job'[j].entries = Append(job[j].entries, x)
         /\ job'[j].arts = job[j].arts /\ job'[j].left = job[j].left
         /\ job'[j].specs = job[j].specs /\ job'[j].out = job[j].out
    BY <2>5, <2>9 DEF SameWork
  <2> QED BY <1>2, <1>4, <1>6, <2>3, <2>8, <2>9, <2>10 DEF x
<1> QED BY <1>5, <1>6 DEF Describe

\* The index is pushed.
LEMMA PutIndexEffect ==
    ASSUME Inductive, NEW j \in Jobs, PutIndex(j)
    PROVE  /\ Moves(j) /\ job[j].pc = "putindex" /\ job[j].out \in IndexTags
           /\ StoreManifest(job[j].out, [type |-> "index", entries |-> job[j].entries])
           /\ job'[j] = Failed \/ (SameWork(job[j], job'[j]) /\ job'[j].pc = "ok")
<1> DEFINE r == [job[j] EXCEPT !.pc = "ok"]
<1>1. /\ job[j].pc = "putindex" /\ Settle(j, r)
      /\ StoreManifest(job[j].out, [type |-> "index", entries |-> job[j].entries])
  BY DEF PutIndex
<1>2. JobTypeOK(job[j]) /\ ProcessInv(j)
  BY DEF Inductive, TypeOK
<1>3. job[j].out \in IndexTags
  BY <1>1, <1>2 DEF JobTypeOK, ProcessInv
<1>4. SameWork(job[j], r) /\ r.pc = "ok"
  BY <1>2 DEF JobTypeOK, SameWork
<1> HIDE DEF r
<1>5. Moves(j) /\ job'[j] \in {r, Failed}
  BY <1>1, SettleMoves DEF Inductive
<1> QED BY <1>1, <1>3, <1>4, <1>5

\* A process gives up.
LEMMA GiveUpEffect ==
    ASSUME Inductive, NEW j \in Jobs, RejectPlatform(j) \/ Fail(j)
    PROVE  UNCHANGED registryVars /\ Moves(j) /\ job'[j] = Failed
BY DEF Inductive, TypeOK, Moves, RejectPlatform, Fail

-----------------------------------------------------------------------------
(* What a process knows of the work it has done.                           *)

\* The layers collected are the kinds pushed so far, in the fixed order.
Assembled(r) == r.pc \in {"layer", "manifest"} => \A p \in r.left : IsCurrent(r, p) =>
    LET files == r.arts[p].files
        done == DOMAIN files \ r.todo
    IN /\ r.todo \subseteq DOMAIN files
       /\ r.pc = "manifest" => r.todo = {}
       /\ Precede(done, DOMAIN files, LayerRank)
       /\ Len(r.layers) = Cardinality(done)
       /\ \A i \in DOMAIN r.layers :
             LET k == Sorted(DOMAIN files, LayerRank)[i] IN
             r.layers[i] = [kind |-> k, blob |-> files[k]]

\* The specs of multi.Run are the platforms done so far, in order, each with
\* the tag its artifact was pushed under.
Listed(r) == r.out # NoRef /\ r.arts # Idle.arts =>
    LET done == DOMAIN r.arts \ r.left IN
    /\ IsFiniteSet(DOMAIN r.arts)
    /\ Precede(done, DOMAIN r.arts, PlatformRank)
    /\ Len(r.specs) = Cardinality(done)
    /\ \A i \in DOMAIN r.specs :
          /\ r.specs[i].platform = Sorted(DOMAIN r.arts, PlatformRank)[i]
          /\ r.specs[i].platform \in done
          /\ r.specs[i].ref = r.arts[r.specs[i].platform].ref

\* The entries are the specs looked up so far, in order.
EntriesFollow(r) ==
    /\ Len(r.entries) <= Len(r.specs)
    /\ \A i \in DOMAIN r.entries : r.entries[i].platform = r.specs[i].platform

\* The index comes after the artifacts, and the PUT after the last lookup.
Ordered(r) ==
    /\ r.pc \in {"describe", "putindex", "ok"} => r.left = {}
    /\ r.pc \in {"putindex", "ok"} /\ r.out # NoRef => Len(r.entries) = Len(r.specs)

\* What process j has done is in the registry.
Stored(j) == LET r == job[j] IN
    /\ \A p \in DOMAIN r.arts \ r.left :
          WantedImage(r.arts[p]) \in manifests[r.arts[p].ref.repo]
    /\ r.pc = "ok" /\ r.out # NoRef =>
          [type |-> "index", entries |-> r.entries] \in manifests[r.out.repo]

Works(r) == Assembled(r) /\ Listed(r) /\ EntriesFollow(r) /\ Ordered(r)

PublishedInv == \A j \in Jobs : Works(job[j]) /\ Stored(j)

\* A process at rest has nothing to account for.
LEMMA RestPublished ==
    ASSUME NEW r \in {Idle, Failed}
    PROVE  Works(r) /\ DOMAIN r.arts \ r.left = {} /\ r.pc # "ok"
<1>1. r.pc \in {"idle", "failed"} /\ r.entries = <<>>
  BY RestTypes
<1>2. DOMAIN r.arts = {} /\ r.out = NoRef /\ r.specs = <<>>
  BY DEF Idle, Failed, AtRest
<1> QED BY <1>1, <1>2 DEF Works, Assembled, Listed, EntriesFollow, Ordered

\* A step takes no manifest out of a repository.
ManifestsGrow == \A r \in Repos : manifests[r] \subseteq manifests'[r]

\* A manifest that is stored is there, and so are all that were.
LEMMA StoreGrows ==
    ASSUME Inductive, NEW ref \in TagRef, NEW m, StoreManifest(ref, m)
    PROVE  ManifestsGrow /\ m \in manifests'[ref.repo]
<1>1. RegistryTypeOK /\ TagsStored
  BY DEF Inductive, TypeOK
<1>2. Grows /\ \A r \in Repos : manifests'[r] =
                  IF r = ref.repo THEN manifests[r] \cup {m} ELSE manifests[r]
  BY <1>1, StoreManifestEffect
<1> QED BY <1>2, Repository DEF Grows, ManifestsGrow

\* What is stored stays stored.
LEMMA StaysStored ==
    ASSUME NEW r, NEW s, JobTypeOK(r), s.arts = r.arts, s.left = r.left,
           s.out = r.out, s.entries = r.entries, s.pc = "ok" => r.pc = "ok",
           ManifestsGrow,
           \A p \in DOMAIN r.arts \ r.left :
              WantedImage(r.arts[p]) \in manifests[r.arts[p].ref.repo],
           r.pc = "ok" /\ r.out # NoRef =>
              [type |-> "index", entries |-> r.entries] \in manifests[r.out.repo]
    PROVE  /\ \A p \in DOMAIN s.arts \ s.left :
                 WantedImage(s.arts[p]) \in manifests'[s.arts[p].ref.repo]
           /\ s.pc = "ok" /\ s.out # NoRef =>
                 [type |-> "index", entries |-> s.entries] \in manifests'[s.out.repo]
<1>1. ASSUME NEW p \in DOMAIN r.arts PROVE r.arts[p].ref.repo \in Repos
  BY Repository DEF JobTypeOK, IsArtifact, TagRef
<1>2. r.out # NoRef => r.out.repo \in Repos
  BY Repository DEF JobTypeOK, TagRef
<1> QED BY <1>1, <1>2 DEF ManifestsGrow

\* One process moves; the others' part follows from what they had stored.
LEMMA PublishedStep ==
    ASSUME Inductive, PublishedInv, NEW j \in Jobs, Moves(j), ManifestsGrow,
           Works(job'[j]), Stored(j)'
    PROVE  PublishedInv'
<1>1. ASSUME NEW i \in Jobs \ {j} PROVE Works(job[i])' /\ Stored(i)'
  <2>1. job'[i] = job[i] /\ JobTypeOK(job[i]) /\ Works(job[i]) /\ Stored(i)
    BY DEF Moves, Inductive, TypeOK, PublishedInv
  <2>2. Stored(i)'
    BY <2>1, StaysStored DEF Stored
  <2> QED BY <2>1, <2>2
<1> QED BY <1>1 DEF PublishedInv

\* A process that failed, whatever the registry took from it.
LEMMA PublishedFailed ==
    ASSUME Inductive, PublishedInv, NEW j \in Jobs, Moves(j), ManifestsGrow,
           job'[j] = Failed
    PROVE  PublishedInv'
<1>1. Works(job'[j]) /\ Stored(j)'
  BY RestPublished DEF Stored
<1> QED BY <1>1, PublishedStep

\* Where the process goes on, everything in order so far stays in order.
LEMMA GoesOnOrdered ==
    ASSUME NEW s, JobTypeOK(s), GoesOn(s), EntriesFollow(s), Listed(s)
    PROVE  Works(s) /\ (s.pc = "ok" => s.out = NoRef)
<1>1. Len(s.entries) \in Nat /\ Len(s.specs) \in Nat
  BY LenProperties DEF JobTypeOK
<1>2. Ordered(s) /\ Assembled(s) /\ (s.pc = "ok" => s.out = NoRef)
  BY <1>1 DEF GoesOn, Ordered, Assembled, EntriesFollow
<1> QED BY <1>2 DEF Works

-----------------------------------------------------------------------------
(* Each step.                                                              *)

\* A command starts with everything still to do.
LEMMA StartPublishes ==
    ASSUME Inductive, Inductive', PublishedInv, NEW j \in Jobs,
           NEW accepted \in BOOLEAN, NEW arts, NEW specs, NEW out,
           Start(j, accepted, Work(arts, specs, out)), specs \in Seq(PlatformSpec),
           accepted /\ out # NoRef /\ arts # Idle.arts
               => specs = <<>> /\ IsFiniteSet(DOMAIN arts)
    PROVE  PublishedInv'
<1> DEFINE s == job'[j]
<1>1. UNCHANGED registryVars /\ Moves(j)
  BY StartEffect
<1>2. ManifestsGrow
  BY <1>1 DEF registryVars, ManifestsGrow
<1>3. CASE s = Failed
  BY <1>1, <1>2, <1>3, PublishedFailed
<1>4. CASE /\ accepted
           /\ s.arts = arts /\ s.left = DOMAIN arts /\ s.specs = specs /\ s.out = out
           /\ s.entries = <<>> /\ GoesOn(s)
  <2>1. JobTypeOK(s)
    BY DEF Inductive, TypeOK
  <2>2. EntriesFollow(s)
    <3>1. Len(specs) \in Nat
      BY LenProperties
    <3> QED BY <1>4, <3>1 DEF EntriesFollow
  <2>3. Listed(s)
    <3> SUFFICES ASSUME s.out # NoRef, s.arts # Idle.arts PROVE Listed(s)
      BY DEF Listed
    <3>1. DOMAIN s.arts \ s.left = {} /\ IsFiniteSet(DOMAIN s.arts) /\ s.specs = <<>>
      BY <1>4
    <3>2. DOMAIN s.specs = {} /\ Len(s.specs) = Cardinality({})
      BY <3>1, FS_EmptySet
    <3> HIDE DEF s
    <3>3. Precede({}, DOMAIN s.arts, PlatformRank)
      BY DEF Precede
    <3> QED BY <3>1, <3>2, <3>3 DEF Listed
  <2> HIDE DEF s
  <2>4. Works(s) /\ (s.pc = "ok" => s.out = NoRef)
    BY <1>4, <2>1, <2>2, <2>3, GoesOnOrdered
  <2>5. Stored(j)'
    BY <1>4, <2>4 DEF Stored, s
  <2> QED BY <1>1, <1>2, <2>4, <2>5, PublishedStep DEF s
<1> QED BY <1>3, <1>4, StartEffect

\* The four ways to start.
LEMMA RunPublishes ==
    ASSUME Inductive, Inductive', PublishedInv, NEW j \in Jobs,
           ArtifactRun(j) \/ PlanRun(j) \/ IndexRun(j) \/ MultiRun(j)
    PROVE  PublishedInv'
<1>0. << >> \in Seq(PlatformSpec)
  OBVIOUS
<1>1. CASE ArtifactRun(j)
  <2>1. PICK q \in ArtifactReqs[j] :
          Start(j, ParsePlatform(q.platform) /\ DOMAIN q.files # {} /\ q.ref # NoRef,
                Work([p \in {q.platform} |->
                         [ref |-> q.ref, config |-> p, files |-> q.files]],
                     <<>>, NoRef))
    BY <1>1 DEF ArtifactRun
  <2> DEFINE accepted == ParsePlatform(q.platform) /\ DOMAIN q.files # {} /\ q.ref # NoRef
             arts == [p \in {q.platform} |->
                         [ref |-> q.ref, config |-> p, files |-> q.files]]
  <2>2. accepted \in BOOLEAN
    BY DEF ParsePlatform
  <2>3. Start(j, accepted, Work(arts, <<>>, NoRef))
    BY <2>1
  <2> HIDE DEF accepted, arts
  <2> QED BY <1>0, <2>2, <2>3, StartPublishes
<1>2. CASE PlanRun(j)
  <2>1. PICK q \in PlanReqs[j] :
          Start(j, q.ref # NoRef, Work([p \in {NoPlatform} |-> PlanArtifact(q)], <<>>, NoRef))
    BY <1>2 DEF PlanRun
  <2> DEFINE accepted == q.ref # NoRef
             arts == [p \in {NoPlatform} |-> PlanArtifact(q)]
  <2>2. accepted \in BOOLEAN /\ Start(j, accepted, Work(arts, <<>>, NoRef))
    BY <2>1
  <2> HIDE DEF accepted, arts
  <2> QED BY <1>0, <2>2, StartPublishes
<1>3. CASE IndexRun(j)
  <2>1. PICK q \in IndexReqs[j], pin \in BOOLEAN :
          Start(j, q.specs # <<>> /\ q.out # NoRef,
                Work([p \in {} |-> {}],
                     [i \in DOMAIN q.specs |->
                          IF pin THEN Pinned(q.specs[i]) ELSE q.specs[i]],
                     q.out))
    BY <1>3 DEF IndexRun
  <2> DEFINE accepted == q.specs # <<>> /\ q.out # NoRef
             arts == [p \in {} |-> {}]
             specs == [i \in DOMAIN q.specs |->
                          IF pin THEN Pinned(q.specs[i]) ELSE q.specs[i]]
             out == q.out
  <2>2. arts = Idle.arts
    BY DEF Idle, AtRest
  <2>3. specs \in Seq(PlatformSpec)
    BY PinnedSpecs
  <2>4. accepted \in BOOLEAN /\ Start(j, accepted, Work(arts, specs, out))
    BY <2>1
  <2> HIDE DEF accepted, arts, specs, out
  <2> QED BY <2>2, <2>3, <2>4, StartPublishes
<1>4. CASE MultiRun(j)
  <2>1. PICK q \in MultiReqs[j] :
          Start(j, DOMAIN q.files # {} /\ q.ref # NoRef,
                Work([p \in DOMAIN q.files |-> MultiArtifact(q, p)], <<>>, q.ref))
    BY <1>4 DEF MultiRun
  <2> DEFINE accepted == DOMAIN q.files # {} /\ q.ref # NoRef
             arts == [p \in DOMAIN q.files |-> MultiArtifact(q, p)]
             out == q.ref
  <2>2. IsFiniteSet(DOMAIN arts)
    BY RequestsAssumption
  <2>3. accepted \in BOOLEAN /\ Start(j, accepted, Work(arts, <<>>, out))
    BY <2>1
  <2> HIDE DEF accepted, arts, out
  <2> QED BY <1>0, <2>2, <2>3, StartPublishes
<1> QED BY <1>1, <1>2, <1>3, <1>4

\* The config is up: no layer is.
LEMMA PushConfigPublishes ==
    ASSUME Inductive, PublishedInv, NEW j \in Jobs, PushConfig(j)
    PROVE  PublishedInv'
<1> DEFINE r == job[j]
           s == job'[j]
<1>1. ManifestsGrow /\ Moves(j)
  BY PushConfigEffect DEF ManifestsGrow
<1>2. CASE s = Failed
  BY <1>1, <1>2, PublishedFailed
<1>3. CASE /\ SameWork(r, s) /\ s.pc = "layer" /\ s.layers = <<>>
           /\ \E p \in r.left : IsCurrent(r, p) /\ s.todo = DOMAIN r.arts[p].files
  <2>1. PICK p \in r.left : IsCurrent(r, p) /\ s.todo = DOMAIN r.arts[p].files
    BY <1>3
  <2>2. JobTypeOK(r) /\ r.left \subseteq Platforms \cup {NoPlatform}
    BY <2>1, CurrentArtifact
  <2>3. Works(r) /\ Stored(j)
    BY DEF PublishedInv
  <2> HIDE DEF s
  <2>4. ASSUME NEW q \in s.left, IsCurrent(s, q) PROVE q = p
    <3>1. q \in r.left /\ IsCurrent(r, q)
      BY <1>3, <2>4 DEF IsCurrent, SameWork
    <3> HIDE DEF r
    <3> QED BY <2>1, <2>2, <3>1, OneCurrent
  <2>5. Assembled(s)
    <3>1. DOMAIN s.layers = {} /\ Len(s.layers) = Cardinality({})
      BY <1>3, FS_EmptySet
    <3>2. ASSUME NEW q \in s.left, IsCurrent(s, q)
          PROVE  /\ s.todo = DOMAIN s.arts[q].files
                 /\ DOMAIN s.arts[q].files \ s.todo = {}
                 /\ Precede({}, DOMAIN s.arts[q].files, LayerRank)
      BY <1>3, <2>1, <2>4, <3>2 DEF SameWork, Precede
    <3> QED BY <1>3, <3>1, <3>2 DEF Assembled
  <2>6. Listed(s) /\ EntriesFollow(s) /\ Ordered(s)
    BY <1>3, <2>3 DEF Works, SameWork, Listed, EntriesFollow, Ordered
  <2>7. Stored(j)'
    BY <1>1, <1>3, <2>2, <2>3, StaysStored DEF Stored, SameWork, s
  <2> QED BY <1>1, <2>5, <2>6, <2>7, PublishedStep DEF Works, s
<1> QED BY <1>2, <1>3, PushConfigEffect

\* One more layer is up, the next in the order of kinds.
LEMMA PushLayerPublishes ==
    ASSUME Inductive, Inductive', PublishedInv, NEW j \in Jobs, PushLayer(j)
    PROVE  PublishedInv'
<1> DEFINE r == job[j]
           s == job'[j]
           x(p, k) == [kind |-> k, blob |-> r.arts[p].files[k]]
<1>1. ManifestsGrow /\ Moves(j) /\ r.pc = "layer"
  BY PushLayerEffect DEF ManifestsGrow
<1>2. CASE s = Failed
  BY <1>1, <1>2, PublishedFailed
<1>3. ASSUME NEW p \in r.left, NEW k \in r.todo,
             IsCurrent(r, p), \A l \in r.todo : LayerRank[k] <= LayerRank[l],
             SameWork(r, s), s.todo = r.todo \ {k},
             s.layers = Append(r.layers, x(p, k)),
             s.pc = IF r.todo = {k} THEN "manifest" ELSE "layer"
      PROVE  PublishedInv'
  <2> DEFINE files == r.arts[p].files
             done == DOMAIN files \ r.todo
             kinds == Sorted(DOMAIN files, LayerRank)
             d == x(p, k)
  <2>1. /\ JobTypeOK(r) /\ r.left \subseteq Platforms \cup {NoPlatform}
        /\ IsFiles(files)
    BY <1>3, CurrentArtifact DEF IsArtifact
  <2>2. Works(r) /\ Stored(j)
    BY DEF PublishedInv
  <2>3. /\ r.todo \subseteq DOMAIN files
        /\ Precede(done, DOMAIN files, LayerRank)
        /\ Len(r.layers) = Cardinality(done)
        /\ \A i \in DOMAIN r.layers :
              r.layers[i] = [kind |-> kinds[i], blob |-> files[kinds[i]]]
    BY <1>1, <1>3, <2>2 DEF Works, Assembled
  <2>4. d = [kind |-> k, blob |-> files[k]]
    OBVIOUS
  <2>5. IsFiniteSet(DOMAIN files) /\ Ranks(LayerRank, DOMAIN files)
    BY <2>1, FilesRanked
  <2> HIDE DEF s, r, kinds, d, files, done
  <2>6. /\ done \in SUBSET DOMAIN files /\ k \in DOMAIN files \ done
        /\ \A l \in DOMAIN files \ done : LayerRank[k] <= LayerRank[l]
    BY <1>3, <2>3 DEF done
  <2>7. /\ Cardinality(done) \in Nat
        /\ Cardinality(done \cup {k}) = Cardinality(done) + 1
        /\ kinds[Cardinality(done) + 1] = k
        /\ Precede(done \cup {k}, DOMAIN files, LayerRank)
    BY <2>3, <2>5, <2>6, SortedNext DEF kinds
  <2>8. DOMAIN files \ s.todo = done \cup {k}
    BY <1>3, <2>3 DEF done
  <2>9. /\ Len(s.layers) = Cardinality(done) + 1
        /\ \A i \in DOMAIN s.layers :
              s.layers[i] = [kind |-> kinds[i], blob |-> files[kinds[i]]]
    <3>1. r.layers \in Seq(Layer) /\ s.layers \in Seq(Layer) /\ s.layers = Append(r.layers, d)
      BY <1>3, <2>1 DEF JobTypeOK, Inductive, TypeOK, s, d
    <3>2. /\ DOMAIN r.layers = 1 .. Len(r.layers) /\ Len(r.layers) \in Nat
          /\ DOMAIN s.layers = 1 .. Len(r.layers) + 1
          /\ Len(s.layers) = Len(r.layers) + 1
          /\ \A i \in 1 .. Len(r.layers) : s.layers[i] = r.layers[i]
          /\ s.layers[Len(r.layers) + 1] = d
      BY <3>1, AppendProperties, LenProperties
    <3>3. ASSUME NEW i \in DOMAIN s.layers
          PROVE  s.layers[i] = [kind |-> kinds[i], blob |-> files[kinds[i]]]
      <4>1. i \in DOMAIN r.layers \/ i = Len(r.layers) + 1
        BY <3>2
      <4>2. CASE i \in DOMAIN r.layers
        BY <2>3, <3>2, <4>2
      <4>3. CASE i = Len(r.layers) + 1
        <5>1. s.layers[i] = d /\ kinds[i] = k
          BY <2>3, <2>7, <3>2, <4>3
        <5> QED BY <2>4, <5>1
      <4> QED BY <4>1, <4>2, <4>3
    <3> QED BY <2>3, <3>2, <3>3
  <2>10. ASSUME NEW q \in s.left, IsCurrent(s, q) PROVE q = p
    <3>1. q \in r.left /\ IsCurrent(r, q)
      BY <1>3, <2>10 DEF IsCurrent, SameWork
    <3> QED BY <1>3, <2>1, <3>1, OneCurrent
  <2>11. Assembled(s)
    <3>1. ASSUME NEW q \in s.left, IsCurrent(s, q)
          PROVE  s.arts[q].files = files
      BY <1>3, <2>10, <3>1 DEF SameWork, files
    <3>2. s.todo \subseteq DOMAIN files /\ (s.pc = "manifest" => s.todo = {})
      BY <1>3, <2>3
    <3> QED BY <2>7, <2>8, <2>9, <3>1, <3>2 DEF Assembled, kinds
  <2>12. Listed(s) /\ EntriesFollow(s) /\ Ordered(s)
    BY <1>3, <2>2 DEF Works, SameWork, Listed, EntriesFollow, Ordered
  <2>13. Stored(j)'
    BY <1>1, <1>3, <2>1, <2>2, StaysStored DEF Stored, SameWork, r, s
  <2> QED BY <1>1, <2>11, <2>12, <2>13, PublishedStep DEF Works, s
<1> QED BY <1>2, <1>3, PushLayerEffect

\* The manifest that is pushed is the one the request asks for.
LEMMA ManifestWanted ==
    ASSUME Inductive, PublishedInv, NEW j \in Jobs, job[j].pc = "manifest",
           NEW p \in job[j].left, IsCurrent(job[j], p)
    PROVE  [type |-> "image", config |-> job[j].arts[p].config, layers |-> job[j].layers]
              = WantedImage(job[j].arts[p])
<1> DEFINE r == job[j]
           files == r.arts[p].files
           kinds == Sorted(DOMAIN files, LayerRank)
           wanted == [i \in DOMAIN kinds |-> [kind |-> kinds[i], blob |-> files[kinds[i]]]]
<1>1. JobTypeOK(r) /\ IsFiles(files)
  BY CurrentArtifact DEF IsArtifact
<1>2. /\ Len(r.layers) = Cardinality(DOMAIN files)
      /\ \A i \in DOMAIN r.layers :
            r.layers[i] = [kind |-> kinds[i], blob |-> files[kinds[i]]]
  <2>1. Assembled(r)
    BY DEF PublishedInv, Works
  <2>2. r.todo = {}
    BY <2>1 DEF Assembled
  <2>3. DOMAIN files \ r.todo = DOMAIN files
    BY <2>2
  <2> HIDE DEF kinds
  <2> QED BY <2>1, <2>3 DEF Assembled, kinds
<1>3. DOMAIN kinds = 1 .. Cardinality(DOMAIN files)
  BY DEF Sorted
<1> HIDE DEF kinds
<1>4. r.layers \in Seq(Layer) /\ wanted = [i \in DOMAIN kinds |-> wanted[i]]
  BY <1>1 DEF JobTypeOK
<1>5. r.layers = [i \in 1 .. Len(r.layers) |-> r.layers[i]]
  BY <1>4, LenProperties
<1>6. DOMAIN r.layers = 1 .. Len(r.layers)
  BY <1>4, LenProperties
<1>7. wanted = r.layers
  BY <1>2, <1>3, <1>5, <1>6
<1>8. WantedImage(r.arts[p]) = [type |-> "image", config |-> r.arts[p].config,
                                layers |-> wanted]
  BY DEF WantedImage, kinds
<1> HIDE DEF wanted
<1> QED BY <1>7, <1>8

\* An artifact is done: its manifest is stored, and multi.Run notes its tag.
LEMMA PushManifestPublishes ==
    ASSUME Inductive, Inductive', PublishedInv, NEW j \in Jobs, PushManifest(j)
    PROVE  PublishedInv'
<1> DEFINE r == job[j]
           s == job'[j]
           a(p) == r.arts[p]
           e(p) == [platform |-> p, ref |-> r.arts[p].ref]
<1>1. PICK p \in r.left :
         /\ IsCurrent(r, p)
         /\ StoreManifest(a(p).ref, [type |-> "image", config |-> a(p).config,
                                     layers |-> r.layers])
         /\ \/ s = Failed
            \/ /\ s.arts = r.arts /\ s.out = r.out
               /\ s.left = r.left \ {p}
               /\ s.entries = r.entries /\ GoesOn(s)
               /\ s.specs = IF r.out = NoRef THEN r.specs ELSE Append(r.specs, e(p))
  BY PushManifestEffect
<1>2. Moves(j) /\ r.pc = "manifest"
  BY PushManifestEffect
<1>3. /\ JobTypeOK(r) /\ r.left \subseteq Platforms \cup {NoPlatform}
      /\ IsArtifact(a(p)) /\ p \in DOMAIN r.arts
  BY <1>1, CurrentArtifact
<1>4. ManifestsGrow /\ WantedImage(a(p)) \in manifests'[a(p).ref.repo]
  <2>1. StoreManifest(a(p).ref, WantedImage(a(p)))
    BY <1>1, <1>2, ManifestWanted
  <2>2. a(p).ref \in TagRef
    BY <1>3 DEF IsArtifact, TagRef
  <2> QED BY <2>1, <2>2, StoreGrows
<1>5. CASE s = Failed
  BY <1>2, <1>4, <1>5, PublishedFailed
<1>6. CASE /\ s.arts = r.arts /\ s.out = r.out /\ s.left = r.left \ {p}
           /\ s.entries = r.entries /\ GoesOn(s)
           /\ s.specs = IF r.out = NoRef THEN r.specs ELSE Append(r.specs, e(p))
  <2>1. Works(r) /\ Stored(j)
    BY DEF PublishedInv
  <2>2. /\ JobTypeOK(s) /\ r.specs \in Seq(PlatformSpec) /\ s.specs \in Seq(PlatformSpec)
        /\ r.entries \in Seq(Entry)
    BY <1>3 DEF Inductive, TypeOK, JobTypeOK
  <2> DEFINE x == e(p)
             done == DOMAIN r.arts \ r.left
             order == Sorted(DOMAIN r.arts, PlatformRank)
  <2>3. x.platform = p /\ x.ref = r.arts[p].ref
    OBVIOUS
  <2>4. r.out # NoRef => s.specs = Append(r.specs, x)
    BY <1>6
  <2>5. r.out # NoRef =>
           /\ Len(s.specs) = Len(r.specs) + 1 /\ Len(r.specs) \in Nat
           /\ DOMAIN r.specs = 1 .. Len(r.specs) /\ DOMAIN s.specs = 1 .. Len(r.specs) + 1
           /\ \A i \in 1 .. Len(r.specs) : s.specs[i] = r.specs[i]
           /\ s.specs[Len(r.specs) + 1] = x
    <3> HIDE DEF x, s, r
    <3> QED BY <2>2, <2>4, AppendProperties, LenProperties
  <2>6. /\ Len(r.entries) \in Nat /\ DOMAIN r.entries = 1 .. Len(r.entries)
    BY <2>2, LenProperties
  <2> HIDE DEF x, s, r
  <2>7. EntriesFollow(s)
    <3>1. EntriesFollow(r)
      BY <2>1 DEF Works
    <3>2. CASE r.out = NoRef
      BY <1>6, <3>1, <3>2 DEF EntriesFollow
    <3>3. CASE r.out # NoRef
      BY <1>6, <2>5, <2>6, <3>1, <3>3 DEF EntriesFollow
    <3> QED BY <3>2, <3>3
  <2>8. Listed(s)
    <3> SUFFICES ASSUME s.out # NoRef, s.arts # Idle.arts PROVE Listed(s)
      BY DEF Listed
    <3>1. /\ IsFiniteSet(DOMAIN r.arts) /\ Precede(done, DOMAIN r.arts, PlatformRank)
          /\ Len(r.specs) = Cardinality(done)
          /\ \A i \in DOMAIN r.specs :
                /\ r.specs[i].platform = order[i] /\ r.specs[i].platform \in done
                /\ r.specs[i].ref = r.arts[r.specs[i].platform].ref
      BY <1>6, <2>1 DEF Works, Listed
    <3>2. /\ r.out # NoRef /\ DOMAIN s.arts \ s.left = done \cup {p}
      BY <1>1, <1>3, <1>6
    <3>3. /\ done \in SUBSET DOMAIN r.arts /\ p \in DOMAIN r.arts \ done
          /\ \A q \in DOMAIN r.arts \ done : PlatformRank[p] <= PlatformRank[q]
      BY <1>1, <1>3 DEF IsCurrent
    <3>4. Ranks(PlatformRank, DOMAIN r.arts)
      BY <1>3, PlatformsRanked DEF JobTypeOK
    <3> HIDE DEF done, order
    <3>5. /\ Cardinality(done) \in Nat
          /\ Cardinality(done \cup {p}) = Cardinality(done) + 1
          /\ order[Cardinality(done) + 1] = p
          /\ Precede(done \cup {p}, DOMAIN r.arts, PlatformRank)
      BY <3>1, <3>3, <3>4, SortedNext DEF order
    <3>6. ASSUME NEW i \in DOMAIN s.specs
          PROVE  /\ s.specs[i].platform = order[i]
                 /\ s.specs[i].platform \in done \cup {p}
                 /\ s.specs[i].ref = r.arts[s.specs[i].platform].ref
      <4>1. i \in DOMAIN r.specs \/ i = Len(r.specs) + 1
        BY <2>5, <3>2
      <4>2. CASE i \in DOMAIN r.specs
        BY <2>5, <3>1, <3>2, <4>2
      <4>3. CASE i = Len(r.specs) + 1
        <5>1. s.specs[i] = x /\ order[i] = p
          BY <2>5, <3>1, <3>2, <3>5, <4>3
        <5> QED BY <2>3, <5>1
      <4> QED BY <4>1, <4>2, <4>3
    <3>7. Len(s.specs) = Cardinality(done \cup {p})
      BY <2>5, <3>1, <3>2, <3>5
    <3> QED BY <1>6, <3>1, <3>2, <3>5, <3>6, <3>7 DEF Listed, order
  <2>9. Works(s) /\ (s.pc = "ok" => s.out = NoRef)
    BY <1>6, <2>2, <2>7, <2>8, GoesOnOrdered
  <2>10. Stored(j)'
    <3>1. ASSUME NEW q \in DOMAIN s.arts \ s.left
          PROVE  WantedImage(s.arts[q]) \in manifests'[s.arts[q].ref.repo]
      <4>1. CASE q = p
        BY <1>4, <1>6, <4>1
      <4>2. CASE q # p
        <5>1. q \in DOMAIN r.arts \ r.left
          BY <1>6, <4>2
        <5>2. WantedImage(r.arts[q]) \in manifests[r.arts[q].ref.repo]
          BY <2>1, <5>1 DEF Stored, r
        <5>3. r.arts[q].ref.repo \in Repos
          BY <1>3, <5>1, Repository DEF JobTypeOK, IsArtifact, TagRef
        <5> QED BY <1>4, <1>6, <5>2, <5>3 DEF ManifestsGrow
      <4> QED BY <4>1, <4>2
    <3> QED BY <2>9, <3>1 DEF Stored, s
  <2> QED BY <1>2, <1>4, <2>9, <2>10, PublishedStep DEF s
<1> QED BY <1>1, <1>5, <1>6

\* A spec has been looked up.
LEMMA DescribePublishes ==
    ASSUME Inductive, Inductive', PublishedInv, NEW j \in Jobs, Describe(j)
    PROVE  PublishedInv'
<1> DEFINE r == job[j]
           s == job'[j]
           spec == r.specs[Len(r.entries) + 1]
           e(m) == [platform |-> spec.platform, manifest |-> m]
<1>1. /\ UNCHANGED registryVars /\ Moves(j) /\ r.pc = "describe"
      /\ \/ s = Failed
         \/ /\ \E m \in Resolve(spec.ref) : s.entries = Append(r.entries, e(m))
            /\ s.arts = r.arts /\ s.left = r.left
            /\ s.specs = r.specs /\ s.out = r.out /\ GoesOn(s)
  BY DescribeEffect
<1>2. ManifestsGrow
  BY <1>1 DEF registryVars, ManifestsGrow
<1>3. CASE s = Failed
  BY <1>1, <1>2, <1>3, PublishedFailed
<1>4. ASSUME NEW m, s.entries = Append(r.entries, e(m)),
             s.arts = r.arts, s.left = r.left, s.specs = r.specs, s.out = r.out, GoesOn(s)
      PROVE  PublishedInv'
  <2>1. Works(r) /\ Stored(j) /\ ProcessInv(j)
    BY DEF PublishedInv, Inductive
  <2>2. /\ JobTypeOK(r) /\ JobTypeOK(s) /\ r.specs \in Seq(PlatformSpec)
        /\ r.entries \in Seq(Entry) /\ s.entries \in Seq(Entry)
    BY DEF Inductive, TypeOK, JobTypeOK
  <2> DEFINE x == e(m)
  <2>3. x.platform = spec.platform /\ s.entries = Append(r.entries, x)
    BY <1>4
  <2> HIDE DEF x
  <2>4. /\ Len(s.entries) = Len(r.entries) + 1 /\ Len(r.entries) \in Nat
        /\ DOMAIN r.entries = 1 .. Len(r.entries) /\ DOMAIN s.entries = 1 .. Len(r.entries) + 1
        /\ \A i \in 1 .. Len(r.entries) : s.entries[i] = r.entries[i]
        /\ s.entries[Len(r.entries) + 1] = x
    <3> HIDE DEF s, r
    <3> QED BY <2>2, <2>3, AppendProperties, LenProperties
  <2>5. Len(r.entries) < Len(r.specs) /\ Len(r.specs) \in Nat
    BY <1>1, <2>1, <2>2, LenProperties DEF ProcessInv
  <2>6. EntriesFollow(s)
    <3>1. EntriesFollow(r)
      BY <2>1 DEF Works
    <3>2. Len(s.entries) <= Len(s.specs)
      BY <1>4, <2>4, <2>5
    <3>3. ASSUME NEW i \in DOMAIN s.entries PROVE s.entries[i].platform = s.specs[i].platform
      <4>1. i \in DOMAIN r.entries \/ i = Len(r.entries) + 1
        BY <2>4
      <4>2. CASE i \in DOMAIN r.entries
        BY <1>4, <2>4, <3>1, <4>2 DEF EntriesFollow
      <4>3. CASE i = Len(r.entries) + 1
        BY <1>4, <2>3, <2>4, <4>3
      <4> QED BY <4>1, <4>2, <4>3
    <3> HIDE DEF s
    <3> QED BY <3>2, <3>3 DEF EntriesFollow
  <2>7. Listed(s)
    <3>1. Listed(r)
      BY <2>1 DEF Works
    <3> HIDE DEF r, s
    <3> QED BY <1>4, <3>1 DEF Listed
  <2> HIDE DEF s
  <2>8. Works(s) /\ (s.pc = "ok" => s.out = NoRef)
    BY <1>4, <2>2, <2>6, <2>7, GoesOnOrdered
  <2>9. Stored(j)'
    BY <1>1, <1>4, <2>1, <2>8 DEF Stored, s, registryVars
  <2> QED BY <1>1, <1>2, <2>8, <2>9, PublishedStep DEF s
<1> QED BY <1>1, <1>3, <1>4

\* The index is stored.
LEMMA PutIndexPublishes ==
    ASSUME Inductive, PublishedInv, NEW j \in Jobs, PutIndex(j)
    PROVE  PublishedInv'
<1> DEFINE r == job[j]
           s == job'[j]
           m == [type |-> "index", entries |-> r.entries]
<1>1. /\ Moves(j) /\ r.pc = "putindex" /\ r.out \in IndexTags
      /\ StoreManifest(r.out, m)
      /\ s = Failed \/ (SameWork(r, s) /\ s.pc = "ok")
  BY PutIndexEffect
<1>2. ManifestsGrow /\ m \in manifests'[r.out.repo]
  <2> HIDE DEF m
  <2> QED BY <1>1, StoreGrows DEF TagRef
<1>3. CASE s = Failed
  BY <1>1, <1>2, <1>3, PublishedFailed
<1>4. CASE SameWork(r, s) /\ s.pc = "ok"
  <2>1. Works(r) /\ Stored(j) /\ JobTypeOK(r)
    BY DEF PublishedInv, Inductive, TypeOK
  <2>2. Works(s)
    BY <1>1, <1>4, <2>1 DEF Works, Assembled, Listed, EntriesFollow, Ordered, SameWork
  <2>3. ASSUME NEW q \in DOMAIN r.arts \ r.left
        PROVE  WantedImage(r.arts[q]) \in manifests'[r.arts[q].ref.repo]
    <3>1. r.arts[q].ref.repo \in Repos
      BY <2>1, Repository DEF JobTypeOK, IsArtifact, TagRef
    <3> QED BY <1>2, <2>1, <3>1 DEF Stored, ManifestsGrow
  <2>4. Stored(j)'
    BY <1>2, <1>4, <2>3 DEF Stored, SameWork
  <2> QED BY <1>1, <1>2, <2>2, <2>4, PublishedStep
<1> QED BY <1>1, <1>3, <1>4

\* Every step keeps track of the work done.
LEMMA PublishedNext == Inductive /\ Inductive' /\ PublishedInv /\ [Next]_vars => PublishedInv'
<1> SUFFICES ASSUME Inductive, Inductive', PublishedInv, [Next]_vars PROVE PublishedInv'
  OBVIOUS
<1>1. CASE UNCHANGED vars
  BY <1>1 DEF vars, PublishedInv, Stored
<1>2. ASSUME NEW j \in Jobs, ArtifactRun(j) \/ PlanRun(j) \/ IndexRun(j) \/ MultiRun(j)
      PROVE  PublishedInv'
  BY <1>2, RunPublishes
<1>3. ASSUME NEW j \in Jobs, Progress(j) \/ Fail(j) PROVE PublishedInv'
  <2>1. CASE RejectPlatform(j) \/ Fail(j)
    <3>1. ManifestsGrow /\ Moves(j) /\ job'[j] = Failed
      BY <2>1, GiveUpEffect DEF registryVars, ManifestsGrow
    <3> QED BY <3>1, PublishedFailed
  <2> QED BY <1>3, <2>1, PushConfigPublishes, PushLayerPublishes, PushManifestPublishes,
             DescribePublishes, PutIndexPublishes DEF Progress
<1> QED BY <1>1, <1>2, <1>3 DEF Next

\* What each process has done is in the registry, in every reachable state.
THEOREM Publication == Spec => []PublishedInv
<1>1. Init => PublishedInv
  BY RestPublished DEF Init, PublishedInv, Stored
<1> QED BY <1>1, Invariance, PublishedNext, PTL DEF Spec

\* A push that reports success has published all it was asked for: artifact.Run
\* and plan.Run the manifest with exactly the request's files in the fixed
\* order, index.Run an index with one entry per spec, multi.Run both, with one
\* entry per platform in the order of their names.
THEOREM SuccessPublishes == Spec => []OkMeansPublished
<1>1. ASSUME Inductive, PublishedInv PROVE OkMeansPublished
  <2> SUFFICES ASSUME NEW j \in Jobs, job[j].pc = "ok"
               PROVE  /\ \A p \in DOMAIN job[j].arts :
                            WantedImage(job[j].arts[p]) \in manifests[job[j].arts[p].ref.repo]
                      /\ job[j].out # NoRef =>
                            \E m \in manifests[job[j].out.repo] \cap Index :
                               /\ DOMAIN m.entries = DOMAIN job[j].specs
                               /\ \A i \in DOMAIN m.entries :
                                     m.entries[i].platform = job[j].specs[i].platform
                      /\ job[j].out # NoRef /\ job[j].arts # Idle.arts =>
                            [i \in DOMAIN job[j].specs |-> job[j].specs[i].platform]
                                = Sorted(DOMAIN job[j].arts, PlatformRank)
    BY DEF OkMeansPublished
  <2> DEFINE r == job[j]
             m == [type |-> "index", entries |-> r.entries]
             order == Sorted(DOMAIN r.arts, PlatformRank)
  <2>1. /\ JobTypeOK(r) /\ Works(r) /\ Stored(j) /\ r.pc = "ok"
    BY <1>1 DEF Inductive, TypeOK, PublishedInv
  <2>2. /\ r.specs \in Seq(PlatformSpec) /\ DOMAIN r.specs = 1 .. Len(r.specs)
        /\ r.entries \in Seq(Entry) /\ DOMAIN r.entries = 1 .. Len(r.entries)
    BY <2>1, LenProperties DEF JobTypeOK
  <2>3. r.left = {} /\ DOMAIN r.arts \ r.left = DOMAIN r.arts
    BY <2>1 DEF Works, Ordered
  <2>4. ASSUME r.out # NoRef
        PROVE  /\ m \in manifests[r.out.repo] \cap Index
               /\ DOMAIN m.entries = DOMAIN r.specs
               /\ \A i \in DOMAIN m.entries : m.entries[i].platform = r.specs[i].platform
    <3>1. m \in Index /\ m.entries = r.entries
      BY <2>2 DEF Index
    <3>2. m \in manifests[r.out.repo]
      BY <2>1, <2>4 DEF Stored
    <3>3. Len(r.entries) = Len(r.specs)
      BY <2>1, <2>4 DEF Works, Ordered
    <3> HIDE DEF m
    <3> QED BY <2>1, <2>2, <3>1, <3>2, <3>3 DEF Works, EntriesFollow
  <2>5. ASSUME r.out # NoRef, r.arts # Idle.arts
        PROVE  [i \in DOMAIN r.specs |-> r.specs[i].platform] = order
    <3>1. order = [i \in 1 .. Cardinality(DOMAIN r.arts) |-> order[i]]
      BY SortedDomain
    <3> HIDE DEF order
    <3>2. Len(r.specs) = Cardinality(DOMAIN r.arts)
          /\ \A i \in DOMAIN r.specs : r.specs[i].platform = order[i]
      BY <2>1, <2>3, <2>5 DEF Works, Listed, order
    <3> QED BY <2>2, <3>1, <3>2
  <2> HIDE DEF m
  <2> QED BY <2>1, <2>3, <2>4, <2>5 DEF Stored
<1> QED BY <1>1, Invariance, Publication, PTL

-----------------------------------------------------------------------------
(* What the request of a running process was.                              *)

\* The specs are those of the request, pinned or not.
FromIndex(r, q) ==
    /\ r.arts = Idle.arts
    /\ q.specs # <<>> /\ r.out = q.out
    /\ DOMAIN r.specs = DOMAIN q.specs
    /\ \A i \in DOMAIN r.specs :
          /\ r.specs[i].platform = q.specs[i].platform
          /\ r.specs[i].ref # NoRef =>
                q.specs[i].ref # NoRef /\ r.specs[i].ref.repo = q.specs[i].ref.repo

FromMulti(r, q) ==
    /\ q.ref # NoRef /\ r.out = q.ref
    /\ DOMAIN q.files # {}
    /\ r.arts = [p \in DOMAIN q.files |-> MultiArtifact(q, p)]

\* A process does what one of its requests asks.
ComesFrom(r, j) ==
    /\ \A p \in DOMAIN r.arts : r.arts[p] \in RequestedBy(j)
    /\ r.out # NoRef => \/ \E q \in IndexReqs[j] : FromIndex(r, q)
                        \/ \E q \in MultiReqs[j] : FromMulti(r, q)

RequestInv == \A j \in Jobs : ComesFrom(job[j], j)

\* A process at rest has no artifact.
LEMMA NoArtifacts == DOMAIN Idle.arts = {}
BY DEF Idle, AtRest

\* A process at rest carries out no request.
LEMMA RestComesFrom ==
    ASSUME NEW r \in {Idle, Failed}, NEW j PROVE ComesFrom(r, j)
<1>1. DOMAIN r.arts = {} /\ r.out = NoRef
  BY DEF Idle, Failed, AtRest
<1> QED BY <1>1 DEF ComesFrom

\* The request does not change while it is carried out.
LEMMA SameRequest ==
    ASSUME NEW r, NEW s, NEW j, ComesFrom(r, j),
           s.arts = r.arts, s.out = r.out,
           s.specs = r.specs \/ r.arts # Idle.arts
    PROVE  ComesFrom(s, j)
BY DEF ComesFrom, FromIndex, FromMulti

\* Only the process that moves can change its request.
LEMMA RequestStep ==
    ASSUME RequestInv, NEW j \in Jobs, Moves(j), ComesFrom(job'[j], j)
    PROVE  RequestInv'
BY DEF RequestInv, Moves

\* A pinned spec keeps its platform and its repository.
LEMMA PinnedSame ==
    ASSUME NEW spec \in [platform : Platforms, ref : ImageTags \cup {NoRef}]
    PROVE  /\ Pinned(spec).platform = spec.platform
           /\ Pinned(spec).ref # NoRef =>
                 spec.ref # NoRef /\ Pinned(spec).ref.repo = spec.ref.repo
<1>1. CASE spec.ref # NoRef /\ Resolve(spec.ref) # {}
  <2> DEFINE d == [repo |-> spec.ref.repo, digest |-> CHOOSE m \in Resolve(spec.ref) : TRUE]
  <2>1. Pinned(spec) = [spec EXCEPT !.ref = d] /\ d.repo = spec.ref.repo
    BY <1>1 DEF Pinned
  <2> HIDE DEF d
  <2> QED BY <1>1, <2>1
<1>2. CASE ~(spec.ref # NoRef /\ Resolve(spec.ref) # {})
  BY <1>2 DEF Pinned
<1> QED BY <1>1, <1>2

\* Every command starts with what its request asks.
LEMMA RunComesFrom ==
    ASSUME Inductive, RequestInv, NEW j \in Jobs,
           ArtifactRun(j) \/ PlanRun(j) \/ IndexRun(j) \/ MultiRun(j)
    PROVE  RequestInv'
<1> DEFINE s == job'[j]
<1>0. ASSUME s = Failed PROVE ComesFrom(s, j)
  BY <1>0, RestComesFrom
<1>1. CASE ArtifactRun(j)
  <2>1. PICK q \in ArtifactReqs[j] :
          Start(j, ParsePlatform(q.platform) /\ DOMAIN q.files # {} /\ q.ref # NoRef,
                Work([p \in {q.platform} |->
                         [ref |-> q.ref, config |-> p, files |-> q.files]],
                     <<>>, NoRef))
    BY <1>1 DEF ArtifactRun
  <2> DEFINE accepted == ParsePlatform(q.platform) /\ DOMAIN q.files # {} /\ q.ref # NoRef
             arts == [p \in {q.platform} |->
                         [ref |-> q.ref, config |-> p, files |-> q.files]]
  <2>2. accepted \in BOOLEAN /\ Start(j, accepted, Work(arts, <<>>, NoRef))
    BY <2>1 DEF ParsePlatform
  <2>3. \A p \in DOMAIN arts : arts[p] \in RequestedBy(j)
    BY DEF RequestedBy
  <2> HIDE DEF accepted, arts
  <2>4. Moves(j) /\ (s = Failed \/ (s.arts = arts /\ s.out = NoRef))
    BY <2>2, StartEffect
  <2> QED BY <1>0, <2>3, <2>4, RequestStep DEF ComesFrom
<1>2. CASE PlanRun(j)
  <2>1. PICK q \in PlanReqs[j] :
          Start(j, q.ref # NoRef, Work([p \in {NoPlatform} |-> PlanArtifact(q)], <<>>, NoRef))
    BY <1>2 DEF PlanRun
  <2> DEFINE accepted == q.ref # NoRef
             arts == [p \in {NoPlatform} |-> PlanArtifact(q)]
  <2>2. accepted \in BOOLEAN /\ Start(j, accepted, Work(arts, <<>>, NoRef))
    BY <2>1
  <2>3. \A p \in DOMAIN arts : arts[p] \in RequestedBy(j)
    BY DEF RequestedBy
  <2> HIDE DEF accepted, arts
  <2>4. Moves(j) /\ (s = Failed \/ (s.arts = arts /\ s.out = NoRef))
    BY <2>2, StartEffect
  <2> QED BY <1>0, <2>3, <2>4, RequestStep DEF ComesFrom
<1>3. CASE IndexRun(j)
  <2>1. PICK q \in IndexReqs[j], pin \in BOOLEAN :
          Start(j, q.specs # <<>> /\ q.out # NoRef,
                Work([p \in {} |-> {}],
                     [i \in DOMAIN q.specs |->
                          IF pin THEN Pinned(q.specs[i]) ELSE q.specs[i]],
                     q.out))
    BY <1>3 DEF IndexRun
  <2> DEFINE accepted == q.specs # <<>> /\ q.out # NoRef
             arts == [p \in {} |-> {}]
             specs == [i \in DOMAIN q.specs |->
                          IF pin THEN Pinned(q.specs[i]) ELSE q.specs[i]]
             out == q.out
  <2>2. arts = Idle.arts
    BY DEF Idle, AtRest
  <2>3. accepted \in BOOLEAN /\ Start(j, accepted, Work(arts, specs, out))
    BY <2>1
  <2>4. ASSUME NEW i \in DOMAIN specs
        PROVE  /\ specs[i].platform = q.specs[i].platform
               /\ specs[i].ref # NoRef =>
                     q.specs[i].ref # NoRef /\ specs[i].ref.repo = q.specs[i].ref.repo
    <3> DEFINE given == q.specs
               Given == [platform : Platforms, ref : ImageTags \cup {NoRef}]
    <3>1. given \in Seq(Given) /\ i \in DOMAIN given
      BY RequestTypes
    <3>2. given[i] \in Given
      <4> HIDE DEF given, Given
      <4> QED BY <3>1, LenProperties, ElementOfSeq
    <3> QED BY <3>2, PinnedSame
  <2>5. DOMAIN specs = DOMAIN q.specs /\ (accepted => q.specs # <<>>)
    OBVIOUS
  <2> HIDE DEF accepted, arts, specs
  <2>6. /\ Moves(j)
        /\ s = Failed \/ (accepted /\ s.arts = arts /\ s.specs = specs /\ s.out = out)
    BY <2>3, StartEffect
  <2>7. CASE accepted /\ s.arts = arts /\ s.specs = specs /\ s.out = out
    <3>1. FromIndex(s, q)
      BY <2>2, <2>4, <2>5, <2>7 DEF FromIndex
    <3>2. \A p \in DOMAIN s.arts : s.arts[p] \in RequestedBy(j)
      BY <2>2, <2>7, NoArtifacts
    <3> QED BY <2>6, <3>1, <3>2, RequestStep DEF ComesFrom
  <2> QED BY <1>0, <2>6, <2>7, RequestStep
<1>4. CASE MultiRun(j)
  <2>1. PICK q \in MultiReqs[j] :
          Start(j, DOMAIN q.files # {} /\ q.ref # NoRef,
                Work([p \in DOMAIN q.files |-> MultiArtifact(q, p)], <<>>, q.ref))
    BY <1>4 DEF MultiRun
  <2> DEFINE accepted == DOMAIN q.files # {} /\ q.ref # NoRef
             arts == [p \in DOMAIN q.files |-> MultiArtifact(q, p)]
             out == q.ref
  <2>2. accepted \in BOOLEAN /\ Start(j, accepted, Work(arts, <<>>, out))
    BY <2>1
  <2>3. accepted => \A p \in DOMAIN arts : arts[p] \in RequestedBy(j)
    BY DEF RequestedBy
  <2> HIDE DEF accepted, arts
  <2>4. Moves(j) /\ (s = Failed \/ (accepted /\ s.arts = arts /\ s.out = out))
    BY <2>2, StartEffect
  <2>5. CASE accepted /\ s.arts = arts /\ s.out = out
    <3>1. FromMulti(s, q)
      BY <2>5 DEF FromMulti, accepted, arts
    <3> QED BY <2>3, <2>4, <2>5, <3>1, RequestStep DEF ComesFrom
  <2> QED BY <1>0, <2>4, <2>5, RequestStep
<1> QED BY <1>1, <1>2, <1>3, <1>4

\* The registry does not notice that a command starts.
LEMMA RunStarts ==
    ASSUME Inductive, NEW j \in Jobs,
           ArtifactRun(j) \/ PlanRun(j) \/ IndexRun(j) \/ MultiRun(j)
    PROVE  /\ UNCHANGED registryVars /\ Moves(j)
           /\ \/ job'[j] = Failed
              \/ job'[j].left = DOMAIN job'[j].arts /\ job'[j].entries = <<>>
<1>1. ASSUME NEW accepted \in BOOLEAN, NEW arts, NEW specs, NEW out,
             Start(j, accepted, Work(arts, specs, out))
      PROVE  /\ UNCHANGED registryVars /\ Moves(j)
             /\ \/ job'[j] = Failed
                \/ job'[j].left = DOMAIN job'[j].arts /\ job'[j].entries = <<>>
  BY <1>1, StartEffect
<1>2. CASE ArtifactRun(j)
  <2>1. PICK q \in ArtifactReqs[j] :
          Start(j, ParsePlatform(q.platform) /\ DOMAIN q.files # {} /\ q.ref # NoRef,
                Work([p \in {q.platform} |->
                         [ref |-> q.ref, config |-> p, files |-> q.files]],
                     <<>>, NoRef))
    BY <1>2 DEF ArtifactRun
  <2>2. (ParsePlatform(q.platform) /\ DOMAIN q.files # {} /\ q.ref # NoRef) \in BOOLEAN
    BY DEF ParsePlatform
  <2> QED BY <1>1, <2>1, <2>2
<1>3. CASE PlanRun(j)
  <2>1. PICK q \in PlanReqs[j] :
          Start(j, q.ref # NoRef, Work([p \in {NoPlatform} |-> PlanArtifact(q)], <<>>, NoRef))
    BY <1>3 DEF PlanRun
  <2> QED BY <1>1, <2>1
<1>4. CASE IndexRun(j)
  <2>1. PICK q \in IndexReqs[j], pin \in BOOLEAN :
          Start(j, q.specs # <<>> /\ q.out # NoRef,
                Work([p \in {} |-> {}],
                     [i \in DOMAIN q.specs |->
                          IF pin THEN Pinned(q.specs[i]) ELSE q.specs[i]],
                     q.out))
    BY <1>4 DEF IndexRun
  <2> QED BY <1>1, <2>1
<1>5. CASE MultiRun(j)
  <2>1. PICK q \in MultiReqs[j] :
          Start(j, DOMAIN q.files # {} /\ q.ref # NoRef,
                Work([p \in DOMAIN q.files |-> MultiArtifact(q, p)], <<>>, q.ref))
    BY <1>5 DEF MultiRun
  <2> QED BY <1>1, <2>1
<1> QED BY <1>2, <1>3, <1>4, <1>5

\* Every step carries a request on, or ends it.
LEMMA RequestNext == Inductive /\ RequestInv /\ [Next]_vars => RequestInv'
<1> SUFFICES ASSUME Inductive, RequestInv, [Next]_vars PROVE RequestInv'
  OBVIOUS
<1>1. CASE UNCHANGED vars
  BY <1>1 DEF vars, RequestInv
<1>2. ASSUME NEW j \in Jobs, ArtifactRun(j) \/ PlanRun(j) \/ IndexRun(j) \/ MultiRun(j)
      PROVE  RequestInv'
  BY <1>2, RunComesFrom
<1>3. ASSUME NEW j \in Jobs, Progress(j) \/ Fail(j) PROVE RequestInv'
  <2> DEFINE r == job[j]
             s == job'[j]
  <2>1. ComesFrom(r, j) /\ JobTypeOK(r)
    BY DEF RequestInv, Inductive, TypeOK
  <2>2. /\ Moves(j)
        /\ \/ s = Failed
           \/ s.arts = r.arts /\ s.out = r.out /\ (s.specs = r.specs \/ r.left # {})
    <3>1. CASE RejectPlatform(j) \/ Fail(j)
      BY <3>1, GiveUpEffect
    <3>2. CASE PushConfig(j)
      BY <3>2, PushConfigEffect DEF SameWork
    <3>3. CASE PushLayer(j)
      BY <3>3, PushLayerEffect DEF SameWork
    <3>4. CASE PushManifest(j)
      BY <3>4, PushManifestEffect
    <3>5. CASE Describe(j)
      BY <3>5, DescribeEffect
    <3>6. CASE PutIndex(j)
      BY <3>6, PutIndexEffect DEF SameWork
    <3> QED BY <1>3, <3>1, <3>2, <3>3, <3>4, <3>5, <3>6 DEF Progress
  <2>3. r.left # {} => r.arts # Idle.arts
    BY <2>1, NoArtifacts DEF JobTypeOK
  <2>4. ComesFrom(s, j)
    BY <2>1, <2>2, <2>3, SameRequest, RestComesFrom
  <2> QED BY <2>2, <2>4, RequestStep
<1> QED BY <1>1, <1>2, <1>3 DEF Next

\* At the start no process carries out a request.
LEMMA RequestInit == Init => RequestInv
BY RestComesFrom DEF Init, RequestInv

-----------------------------------------------------------------------------
(* Nobody else pushes to the tags of a multi-arch release.                 *)

\* Between its pushes and its lookups the tags still name what a multi run
\* pushed, and the lookups found that.
KeepsTags(j) == LET r == job[j] IN r.out # NoRef /\ r.arts # Idle.arts =>
    /\ \A p \in DOMAIN r.arts \ r.left :
          r.arts[p].ref \in DOMAIN tags /\ tags[r.arts[p].ref] = WantedImage(r.arts[p])
    /\ \A i \in DOMAIN r.entries :
          r.entries[i].manifest = WantedImage(r.arts[r.entries[i].platform])

KeepsTagsInv == \A j \in Jobs : KeepsTags(j)

\* A tag is not a digest.
LEMMA TagResolves ==
    ASSUME NEW ref \in ImageTags, ref \in DOMAIN tags
    PROVE  Resolve(ref) = {tags[ref]}
<1>1. ref \in [repo : Repos, tag : Seq(STRING)]
  BY TagsAssumption DEF TagRef
<1>2. ~IsDigest(ref)
  BY <1>1 DEF IsDigest
<1> QED BY <1>2 DEF Resolve

\* The tag of an artifact of multi.Run is the derived one.
LEMMA MultiArtifactRef ==
    ASSUME NEW q, NEW p PROVE MultiArtifact(q, p).ref = DerivePerArchRef(q.ref, p)
<1> DEFINE files == [k \in DOMAIN q.files[p] \cup DOMAIN q.shared |->
                        IF k \in DOMAIN q.shared THEN q.shared[k] ELSE q.files[p][k]]
           ref == DerivePerArchRef(q.ref, p)
<1>1. MultiArtifact(q, p) = [ref |-> ref, config |-> p, files |-> files]
  BY DEF MultiArtifact
<1> HIDE DEF files, ref
<1>2. MultiArtifact(q, p).ref = ref
  BY <1>1
<1> QED BY <1>2 DEF ref

\* The artifacts of a multi run have tags of their own.
LEMMA MultiTags ==
    ASSUME OwnTags, RequestInv, NEW j \in Jobs,
           job[j].out # NoRef, job[j].arts # Idle.arts, NEW p \in DOMAIN job[j].arts
    PROVE  /\ \A k \in DOMAIN job[j].arts \ {p} : job[j].arts[k].ref # job[j].arts[p].ref
           /\ \A i \in Jobs \ {j} : \A a \in RequestedBy(i) : a.ref # job[j].arts[p].ref
<1> DEFINE arts == job[j].arts
<1>1. PICK q \in MultiReqs[j] : FromMulti(job[j], q)
  BY DEF RequestInv, ComesFrom, FromIndex
<1>2. DOMAIN arts = DOMAIN q.files /\ q.ref # NoRef
      /\ \A k \in DOMAIN arts : arts[k] = MultiArtifact(q, k)
  BY <1>1 DEF FromMulti
<1>3. \A k \in DOMAIN arts : arts[k].ref = DerivePerArchRef(q.ref, k)
  BY <1>2, MultiArtifactRef
<1> HIDE DEF arts
<1>4. \A k \in DOMAIN arts \ {p} : arts[k].ref # arts[p].ref
  BY <1>2, <1>3 DEF OwnTags, arts
<1>5. \A i \in Jobs \ {j} : \A a \in RequestedBy(i) : a.ref # arts[p].ref
  BY <1>2, <1>3 DEF OwnTags, arts
<1> QED BY <1>4, <1>5 DEF arts

\* A process that does not move keeps its tags, if the step moves none of them.
LEMMA KeepsTagsStill ==
    ASSUME NEW j \in Jobs, KeepsTags(j), job'[j] = job[j],
           job[j].out # NoRef /\ job[j].arts # Idle.arts =>
              \A p \in DOMAIN job[j].arts \ job[j].left :
                 job[j].arts[p].ref \in DOMAIN tags =>
                     /\ job[j].arts[p].ref \in DOMAIN tags'
                     /\ tags'[job[j].arts[p].ref] = tags[job[j].arts[p].ref]
    PROVE  KeepsTags(j)'
BY DEF KeepsTags

\* A step that moves no tag.
LEMMA KeepsTagsStep ==
    ASSUME KeepsTagsInv, NEW j \in Jobs, Moves(j), tags' = tags, KeepsTags(j)'
    PROVE  KeepsTagsInv'
<1>1. \A i \in Jobs \ {j} : KeepsTags(i)'
  BY KeepsTagsStill DEF KeepsTagsInv, Moves
<1> QED BY <1>1 DEF KeepsTagsInv

\* A process that has nothing done has no tags to keep.
LEMMA NothingDone ==
    ASSUME NEW j \in Jobs,
           \/ job'[j] = Failed
           \/ job'[j].left = DOMAIN job'[j].arts /\ job'[j].entries = <<>>
    PROVE  KeepsTags(j)'
<1>1. CASE job'[j] = Failed
  <2>1. job'[j].out = NoRef
    BY <1>1 DEF Failed, AtRest
  <2> QED BY <2>1 DEF KeepsTags
<1>2. CASE job'[j].left = DOMAIN job'[j].arts /\ job'[j].entries = <<>>
  BY <1>2 DEF KeepsTags
<1> QED BY <1>1, <1>2

\* A run that starts has pushed nothing.
LEMMA KeepsTagsStart ==
    ASSUME Inductive, KeepsTagsInv, NEW j \in Jobs,
           ArtifactRun(j) \/ PlanRun(j) \/ IndexRun(j) \/ MultiRun(j)
    PROVE  KeepsTagsInv'
BY RunStarts, NothingDone, KeepsTagsStep DEF registryVars

\* The manifest goes under the artifact's own tag.
LEMMA KeepsTagsPushed ==
    ASSUME OwnTags, Inductive, PublishedInv, RequestInv, KeepsTagsInv,
           NEW j \in Jobs, PushManifest(j)
    PROVE  KeepsTagsInv'
<1> DEFINE r == job[j]
           s == job'[j]
           a(p) == r.arts[p]
<1>1. PICK p \in r.left :
         /\ IsCurrent(r, p)
         /\ StoreManifest(a(p).ref, [type |-> "image", config |-> a(p).config,
                                     layers |-> r.layers])
         /\ \/ s = Failed
            \/ /\ s.arts = r.arts /\ s.out = r.out /\ s.left = r.left \ {p}
               /\ s.entries = r.entries
  BY PushManifestEffect
<1>2. Moves(j) /\ r.pc = "manifest"
  BY PushManifestEffect
<1>3. p \in DOMAIN r.arts /\ IsArtifact(a(p))
  BY <1>1, CurrentArtifact
<1>4. /\ DOMAIN tags' = DOMAIN tags \cup {a(p).ref}
      /\ \A t \in DOMAIN tags' :
            tags'[t] = IF t = a(p).ref THEN WantedImage(a(p)) ELSE tags[t]
  <2>1. StoreManifest(a(p).ref, WantedImage(a(p)))
    BY <1>1, <1>2, ManifestWanted
  <2>2. a(p).ref \in TagRef /\ RegistryTypeOK /\ TagsStored
    BY <1>3 DEF IsArtifact, TagRef, Inductive, TypeOK
  <2> QED BY <2>1, <2>2, StoreManifestEffect
<1>5. ASSUME NEW i \in Jobs \ {j} PROVE KeepsTags(i)'
  <2>1. a(p) \in RequestedBy(j)
    BY <1>3 DEF RequestInv, ComesFrom
  <2>2. ASSUME job[i].out # NoRef, job[i].arts # Idle.arts, NEW k \in DOMAIN job[i].arts
        PROVE  job[i].arts[k].ref # a(p).ref
    BY <2>1, <2>2, MultiTags
  <2>3. KeepsTags(i) /\ job'[i] = job[i]
    BY <1>2 DEF KeepsTagsInv, Moves
  <2> HIDE DEF r
  <2> QED BY <1>4, <2>2, <2>3, KeepsTagsStill
<1>6. KeepsTags(j)'
  <2>1. CASE s = Failed
    BY <2>1, NothingDone
  <2>2. CASE s.arts = r.arts /\ s.out = r.out /\ s.left = r.left \ {p} /\ s.entries = r.entries
    <3> SUFFICES ASSUME r.out # NoRef, r.arts # Idle.arts PROVE KeepsTags(j)'
      BY <2>2 DEF KeepsTags
    <3>1. \A k \in DOMAIN r.arts \ {p} : r.arts[k].ref # a(p).ref
      BY <1>3, MultiTags
    <3>2. KeepsTags(j)
      BY DEF KeepsTagsInv
    <3>3. ASSUME NEW k \in DOMAIN r.arts \ s.left
          PROVE  r.arts[k].ref \in DOMAIN tags' /\ tags'[r.arts[k].ref] = WantedImage(r.arts[k])
      <4>1. CASE k = p
        BY <1>4, <4>1
      <4>2. CASE k # p
        <5>1. k \in DOMAIN r.arts \ r.left
          BY <2>2, <4>2
        <5> QED BY <1>4, <3>1, <3>2, <4>2, <5>1 DEF KeepsTags
      <4> QED BY <4>1, <4>2
    <3> QED BY <2>2, <3>2, <3>3 DEF KeepsTags
  <2> QED BY <1>1, <2>1, <2>2
<1> QED BY <1>5, <1>6 DEF KeepsTagsInv

\* The tag looked up still names what was pushed.
LEMMA KeepsTagsDescribe ==
    ASSUME Inductive, Inductive', PublishedInv, KeepsTagsInv, NEW j \in Jobs, Describe(j)
    PROVE  KeepsTagsInv'
<1> DEFINE r == job[j]
           s == job'[j]
           spec == r.specs[Len(r.entries) + 1]
           e(m) == [platform |-> spec.platform, manifest |-> m]
<1>1. /\ tags' = tags /\ Moves(j) /\ r.pc = "describe"
      /\ \/ s = Failed
         \/ /\ \E m \in Resolve(spec.ref) : s.entries = Append(r.entries, e(m))
            /\ s.arts = r.arts /\ s.left = r.left /\ s.out = r.out
  BY DescribeEffect DEF registryVars
<1>2. CASE s = Failed
  BY <1>1, <1>2, NothingDone, KeepsTagsStep
<1>3. ASSUME NEW m \in Resolve(spec.ref), s.entries = Append(r.entries, e(m)),
             s.arts = r.arts, s.left = r.left, s.out = r.out
      PROVE  KeepsTagsInv'
  <2> SUFFICES ASSUME r.out # NoRef, r.arts # Idle.arts PROVE KeepsTags(j)'
    BY <1>1, <1>3, KeepsTagsStep DEF KeepsTags
  <2>1. Works(r) /\ ProcessInv(j) /\ JobTypeOK(r) /\ KeepsTags(j)
    BY DEF PublishedInv, Inductive, TypeOK, KeepsTagsInv
  <2>2. /\ r.specs \in Seq(PlatformSpec) /\ DOMAIN r.specs = 1 .. Len(r.specs)
        /\ r.entries \in Seq(Entry) /\ DOMAIN r.entries = 1 .. Len(r.entries)
        /\ Len(r.entries) \in Nat /\ Len(r.specs) \in Nat
        /\ Len(r.entries) < Len(r.specs)
    BY <1>1, <2>1, LenProperties DEF JobTypeOK, ProcessInv
  <2>3. Len(r.entries) + 1 \in DOMAIN r.specs
    BY <2>2
  <2> HIDE DEF r
  <2>4. spec.platform \in DOMAIN r.arts \ r.left /\ spec.ref = r.arts[spec.platform].ref
    BY <2>1, <2>3 DEF Works, Listed
  <2> HIDE DEF spec
  <2>5. m = WantedImage(r.arts[spec.platform])
    <3>1. spec.ref \in ImageTags
      BY <2>1, <2>4 DEF JobTypeOK, IsArtifact
    <3>2. spec.ref \in DOMAIN tags /\ tags[spec.ref] = WantedImage(r.arts[spec.platform])
      BY <2>1, <2>4 DEF KeepsTags, r
    <3> QED BY <1>3, <3>1, <3>2, TagResolves
  <2> DEFINE x == e(m)
  <2>6. x.platform = spec.platform /\ x.manifest = m /\ s.entries = Append(r.entries, x)
    BY <1>3
  <2> HIDE DEF x
  <2>7. /\ DOMAIN s.entries = 1 .. Len(r.entries) + 1
        /\ \A i \in 1 .. Len(r.entries) : s.entries[i] = r.entries[i]
        /\ s.entries[Len(r.entries) + 1] = x
    <3>1. s.entries \in Seq(Entry)
      BY DEF Inductive, TypeOK, JobTypeOK
    <3> HIDE DEF s
    <3> QED BY <2>2, <2>6, <3>1, AppendProperties, LenProperties
  <2>8. ASSUME NEW i \in DOMAIN s.entries
        PROVE  s.entries[i].manifest = WantedImage(r.arts[s.entries[i].platform])
    <3>1. i \in DOMAIN r.entries \/ i = Len(r.entries) + 1
      BY <2>2, <2>7
    <3>2. CASE i \in DOMAIN r.entries
      BY <2>1, <2>2, <2>7, <3>2 DEF KeepsTags, r
    <3>3. CASE i = Len(r.entries) + 1
      BY <2>5, <2>6, <2>7, <3>3
    <3> QED BY <3>1, <3>2, <3>3
  <2> QED BY <1>1, <1>3, <2>1, <2>8 DEF KeepsTags, r
<1> QED BY <1>1, <1>2, <1>3

\* The index has a tag that no artifact has.
LEMMA KeepsTagsIndex ==
    ASSUME Inductive, KeepsTagsInv, NEW j \in Jobs, PutIndex(j)
    PROVE  KeepsTagsInv'
<1> DEFINE r == job[j]
           s == job'[j]
           m == [type |-> "index", entries |-> r.entries]
<1>1. /\ Moves(j) /\ r.out \in IndexTags /\ StoreManifest(r.out, m)
      /\ s = Failed \/ SameWork(r, s)
  BY PutIndexEffect
<1>2. /\ DOMAIN tags' = DOMAIN tags \cup {r.out}
      /\ \A t \in DOMAIN tags' : tags'[t] = IF t = r.out THEN m ELSE tags[t]
  <2>1. RegistryTypeOK /\ TagsStored /\ r.out \in TagRef
    BY <1>1 DEF Inductive, TypeOK, TagRef
  <2> HIDE DEF m
  <2> QED BY <1>1, <2>1, StoreManifestEffect
<1>3. ASSUME NEW i \in Jobs, NEW p \in DOMAIN job[i].arts PROVE job[i].arts[p].ref # r.out
  BY <1>1, TagsAssumption DEF Inductive, TypeOK, JobTypeOK, IsArtifact
<1>4. ASSUME NEW i \in Jobs \ {j} PROVE KeepsTags(i)'
  <2>1. KeepsTags(i) /\ job'[i] = job[i]
    BY <1>1 DEF KeepsTagsInv, Moves
  <2> HIDE DEF r
  <2> QED BY <1>2, <1>3, <2>1, KeepsTagsStill
<1>5. KeepsTags(j)'
  <2>1. CASE s = Failed
    BY <2>1, NothingDone
  <2>2. CASE SameWork(r, s)
    BY <1>2, <1>3, <2>2 DEF KeepsTags, KeepsTagsInv, SameWork
  <2> QED BY <1>1, <2>1, <2>2
<1> QED BY <1>4, <1>5 DEF KeepsTagsInv

\* Every step of every process leaves the tags of a multi run to it.
LEMMA KeepsTagsNext ==
    ASSUME OwnTags
    PROVE  Inductive /\ Inductive' /\ PublishedInv /\ RequestInv /\ KeepsTagsInv /\ [Next]_vars
               => KeepsTagsInv'
<1> SUFFICES ASSUME Inductive, Inductive', PublishedInv, RequestInv, KeepsTagsInv, [Next]_vars
             PROVE  KeepsTagsInv'
  OBVIOUS
<1>1. CASE UNCHANGED vars
  BY <1>1 DEF vars, KeepsTagsInv, KeepsTags
<1>2. ASSUME NEW j \in Jobs, ArtifactRun(j) \/ PlanRun(j) \/ IndexRun(j) \/ MultiRun(j)
      PROVE  KeepsTagsInv'
  BY <1>2, KeepsTagsStart
<1>3. ASSUME NEW j \in Jobs, Progress(j) \/ Fail(j) PROVE KeepsTagsInv'
  <2>1. CASE RejectPlatform(j) \/ Fail(j)
    BY <2>1, GiveUpEffect, NothingDone, KeepsTagsStep DEF registryVars
  <2>2. CASE PushConfig(j) \/ PushLayer(j)
    <3>1. Moves(j) /\ tags' = tags /\ (job'[j] = Failed \/ SameWork(job[j], job'[j]))
      BY <2>2, PushConfigEffect, PushLayerEffect
    <3>2. SameWork(job[j], job'[j]) => KeepsTags(j)'
      BY <3>1 DEF KeepsTagsInv, KeepsTags, SameWork
    <3> QED BY <3>1, <3>2, NothingDone, KeepsTagsStep
  <2> QED BY <1>3, <2>1, <2>2, KeepsTagsPushed, KeepsTagsDescribe, KeepsTagsIndex DEF Progress
<1> QED BY <1>1, <1>2, <1>3 DEF Next

\* If no other process pushes to the tags multi.Run derives, and they differ,
\* the index of a successful multi run lists exactly the manifests that run
\* pushed, although it finds them again by tag.
THEOREM MultiIndexIsOwn ==
    ASSUME OwnTags
    PROVE  Spec => []MultiIndexOwn
<1>1. Init => KeepsTagsInv
  BY DEF Init, KeepsTagsInv, KeepsTags, Idle, AtRest
<1>2. KeepsTagsInv => MultiIndexOwn
  BY DEF KeepsTagsInv, KeepsTags, MultiIndexOwn
<1> QED BY <1>1, <1>2, RequestInit, RequestNext, KeepsTagsNext, Invariance, Publication, PTL
        DEF Spec

-----------------------------------------------------------------------------
(* What whoever pulls sees: every image, every image tag, and the tags of  *)
(* the indexes that are next to their images.                              *)

\* The index of a process lists what the repository it goes to holds.
EntriesHome(r) == r.out # NoRef => Bare(r.out.repo) \/
    \A i \in DOMAIN r.entries : r.entries[i].manifest \in manifests[r.out.repo]

\* A repository no artifact goes to holds none, so that an index there, which
\* lists at least one, cannot be pulled whole; any other index can.
Shown ==
    /\ \A r \in Repos : Bare(r) => manifests[r] \cap Image = {}
    /\ \A t \in IndexTags \cap DOMAIN tags :
          IF Bare(t.repo) THEN DOMAIN tags[t].entries # {}
          ELSE \A i \in DOMAIN tags[t].entries :
                  tags[t].entries[i].manifest \in manifests[t.repo]
    /\ \A j \in Jobs : EntriesHome(job[j])

Images == UNION {manifests[r] \cap Image : r \in Repos}
Seen == {t \in DOMAIN tags : t \in ImageTags \/ ~Bare(t.repo)}
AsSeen ==
    /\ Released = Images
    /\ DOMAIN Shelf = Seen
    /\ \A t \in Seen : Shelf[t] = tags[t]
    /\ Shelf = [t \in Seen |-> Shelf[t]]

\* Whatever is stored is complete, so it can be pulled.
LEMMA CanBeSeen == Inductive /\ Shown => AsSeen
<1> SUFFICES ASSUME Inductive, Shown PROVE AsSeen
  OBVIOUS
<1>1. ASSUME NEW r \in Repos, NEW m \in Image
      PROVE  ImageAvailable(r, m) <=> m \in manifests[r]
  BY <1>1 DEF Inductive, StoredComplete, ImageAvailable
<1>2. Released = Images
  <2>1. \A r \in Repos : {m \in manifests[r] \cap Image : ImageAvailable(r, m)}
                            = manifests[r] \cap Image
    BY <1>1
  <2> QED BY <2>1 DEF Released, Images
<1>3. ASSUME NEW t \in DOMAIN tags PROVE Available(t.repo, tags[t]) <=> t \in Seen
  <2>1. /\ t \in TagRef /\ t.repo \in Repos /\ tags[t] \in manifests[t.repo]
        /\ tags[t] \in IF t \in ImageTags THEN Image ELSE Index
    BY <1>3, Repository DEF Inductive, TypeOK, RegistryTypeOK, TagsStored
  <2>2. CASE t \in ImageTags
    <3>1. tags[t] \in Image /\ tags[t].type = "image"
      BY <2>1, <2>2 DEF Image
    <3> QED BY <1>1, <2>1, <2>2, <3>1 DEF Available, Seen
  <2>3. CASE t \notin ImageTags
    <3>1. tags[t] \in Index /\ tags[t].type = "index" /\ t \in IndexTags
      BY <2>1, <2>3 DEF Index, TagRef
    <3>2. \A i \in DOMAIN tags[t].entries : tags[t].entries[i].manifest \in Image
      <4>1. tags[t].entries \in Seq(Entry)
        BY <3>1 DEF Index
      <4>2. DOMAIN tags[t].entries = 1 .. Len(tags[t].entries)
        BY <4>1, LenProperties
      <4>3. \A i \in DOMAIN tags[t].entries : tags[t].entries[i] \in Entry
        BY <4>1, <4>2, ElementOfSeq
      <4> QED BY <4>3 DEF Entry
    <3>3. Available(t.repo, tags[t]) <=>
             \A i \in DOMAIN tags[t].entries : tags[t].entries[i].manifest \in manifests[t.repo]
      BY <1>1, <2>1, <3>1, <3>2 DEF Available
    <3>4. CASE Bare(t.repo)
      <4>1. manifests[t.repo] \cap Image = {} /\ DOMAIN tags[t].entries # {}
        BY <1>3, <2>1, <3>1, <3>4 DEF Shown
      <4> QED BY <2>3, <3>2, <3>3, <3>4, <4>1 DEF Seen
    <3>5. CASE ~Bare(t.repo)
      BY <1>3, <3>1, <3>3, <3>5 DEF Shown, Seen
    <3> QED BY <3>4, <3>5
  <2> QED BY <2>2, <2>3
<1>4. {u \in DOMAIN tags : Available(u.repo, tags[u])} = Seen
  BY <1>3 DEF Seen
<1>5. Shelf = [t \in Seen |-> tags[t]]
  BY <1>4 DEF Shelf
<1> QED BY <1>2, <1>5 DEF AsSeen

\* An artifact goes to a repository that some request names.
LEMMA NotBare ==
    ASSUME Inductive, RequestInv, NEW j \in Jobs, NEW p \in DOMAIN job[j].arts
    PROVE  /\ job[j].arts[p] \in RequestedBy(j) /\ job[j].arts[p].ref \in ImageTags
           /\ job[j].arts[p].ref.repo \in Repos /\ ~Bare(job[j].arts[p].ref.repo)
<1>1. job[j].arts[p] \in RequestedBy(j) /\ job[j].arts[p].ref \in ImageTags
  BY DEF RequestInv, ComesFrom, Inductive, TypeOK, JobTypeOK, IsArtifact
<1>2. job[j].arts[p].ref.repo \in Repos /\ job[j].arts[p].ref # NoRef
  BY <1>1, Repository, NamesAssumption DEF TagRef
<1> QED BY <1>1, <1>2 DEF Bare

\* What is next to an index stays next to it.
LEMMA EntriesStayHome ==
    ASSUME Inductive, ManifestsGrow, NEW j \in Jobs, EntriesHome(job[j]), NEW s,
           s.out = job[j].out, s.entries = job[j].entries
    PROVE  s.out # NoRef => Bare(s.out.repo) \/
              \A i \in DOMAIN s.entries : s.entries[i].manifest \in manifests'[s.out.repo]
<1>1. job[j].out # NoRef => job[j].out.repo \in Repos
  BY Repository DEF Inductive, TypeOK, JobTypeOK, TagRef
<1> QED BY <1>1 DEF EntriesHome, ManifestsGrow

\* A process without entries, or without an index.
LEMMA NoEntries ==
    ASSUME NEW j, job'[j] = Failed \/ job'[j].entries = <<>>
    PROVE  EntriesHome(job[j])'
<1>1. CASE job'[j] = Failed
  <2>1. job'[j].out = NoRef
    BY <1>1 DEF Failed, AtRest
  <2> QED BY <2>1 DEF EntriesHome
<1>2. CASE job'[j].entries = <<>>
  BY <1>2 DEF EntriesHome
<1> QED BY <1>1, <1>2

\* Nobody else's entries are touched.
LEMMA OthersHome ==
    ASSUME Inductive, Shown, NEW j \in Jobs, Moves(j), ManifestsGrow, EntriesHome(job[j])'
    PROVE  \A i \in Jobs : EntriesHome(job[i])'
<1>1. ASSUME NEW i \in Jobs \ {j} PROVE EntriesHome(job[i])'
  <2>1. job'[i] = job[i] /\ EntriesHome(job[i])
    BY DEF Moves, Shown
  <2> QED BY <2>1, EntriesStayHome DEF EntriesHome
<1> QED BY <1>1

\* A step that leaves manifests and tags alone cannot be seen.
LEMMA Unseen ==
    ASSUME Inductive, Shown, NEW j \in Jobs, Moves(j), UNCHANGED <<manifests, tags>>,
           EntriesHome(job[j])'
    PROVE  Shown'
<1>1. ManifestsGrow
  BY DEF ManifestsGrow
<1>2. \A i \in Jobs : EntriesHome(job[i])'
  BY <1>1, OthersHome
<1> QED BY <1>2 DEF Shown

\* A manifest goes where artifacts go.
LEMMA ImageShown ==
    ASSUME Inductive, RequestInv, Shown, NEW j \in Jobs, PushManifest(j)
    PROVE  Shown'
<1> DEFINE r == job[j]
           s == job'[j]
           a(p) == r.arts[p]
           image(p) == [type |-> "image", config |-> a(p).config, layers |-> r.layers]
<1>1. PICK p \in r.left :
         /\ IsCurrent(r, p) /\ StoreManifest(a(p).ref, image(p))
         /\ s = Failed \/ (s.out = r.out /\ s.entries = r.entries)
  BY PushManifestEffect
<1>2. Moves(j) /\ p \in DOMAIN r.arts
  BY <1>1, PushManifestEffect, CurrentArtifact
<1> DEFINE ref == a(p).ref
           m == image(p)
<1>3. ref \in ImageTags /\ ref \in TagRef /\ ref.repo \in Repos /\ ~Bare(ref.repo)
  BY <1>2, NotBare DEF TagRef
<1>4. StoreManifest(ref, m)
  BY <1>1
<1> HIDE DEF ref, m
<1>5. /\ \A x \in Repos : manifests'[x] =
            IF x = ref.repo THEN manifests[x] \cup {m} ELSE manifests[x]
      /\ DOMAIN tags' = DOMAIN tags \cup {ref}
      /\ \A t \in DOMAIN tags' : tags'[t] = IF t = ref THEN m ELSE tags[t]
  <2>1. RegistryTypeOK /\ TagsStored
    BY DEF Inductive, TypeOK
  <2> QED BY <1>3, <1>4, <2>1, StoreManifestEffect
<1>6. ManifestsGrow
  BY <1>3, <1>4, StoreGrows
<1>7. \A x \in Repos : Bare(x) => manifests'[x] \cap Image = {}
  BY <1>3, <1>5 DEF Shown
<1>8. ASSUME NEW t \in IndexTags \cap DOMAIN tags'
      PROVE  IF Bare(t.repo) THEN DOMAIN tags'[t].entries # {}
             ELSE \A i \in DOMAIN tags'[t].entries :
                     tags'[t].entries[i].manifest \in manifests'[t.repo]
  <2>1. t # ref /\ t \in DOMAIN tags /\ tags'[t] = tags[t] /\ t.repo \in Repos
    BY <1>3, <1>5, TagsAssumption, Repository DEF TagRef
  <2> QED BY <1>6, <2>1 DEF Shown, ManifestsGrow
<1>9. EntriesHome(job[j])'
  <2>1. CASE s = Failed
    BY <2>1, NoEntries
  <2>2. CASE s.out = r.out /\ s.entries = r.entries
    <3>1. EntriesHome(job[j])
      BY DEF Shown
    <3> QED BY <1>6, <2>2, <3>1, EntriesStayHome DEF EntriesHome
  <2> QED BY <1>1, <2>1, <2>2
<1>10. \A i \in Jobs : EntriesHome(job[i])'
  BY <1>2, <1>6, <1>9, OthersHome
<1> QED BY <1>7, <1>8, <1>10 DEF Shown

\* The derived tag is in the repository of the index.
LEMMA DerivedRepo ==
    ASSUME NEW ref \in TagRef, NEW p PROVE DerivePerArchRef(ref, p).repo = ref.repo
<1>1. ref \in [repo : Repos, tag : Seq(STRING)]
  BY TagsAssumption
<1> QED BY <1>1 DEF DerivePerArchRef

\* The next spec is looked up in the repository the index goes to.
LEMMA LookupHome ==
    ASSUME IndexesAtHome, Inductive, RequestInv, PublishedInv, NEW j \in Jobs,
           job[j].out # NoRef, NEW n \in DOMAIN job[j].specs, job[j].specs[n].ref # NoRef
    PROVE  Bare(job[j].out.repo) \/ job[j].specs[n].ref.repo = job[j].out.repo
<1> DEFINE r == job[j]
<1>1. CASE \E q \in IndexReqs[j] : FromIndex(r, q)
  <2>1. PICK q \in IndexReqs[j] : FromIndex(r, q)
    BY <1>1
  <2>2. /\ q.out = r.out /\ n \in DOMAIN q.specs
        /\ q.specs[n].ref # NoRef /\ r.specs[n].ref.repo = q.specs[n].ref.repo
    BY <2>1 DEF FromIndex
  <2> QED BY <2>2 DEF IndexesAtHome
<1>2. CASE \E q \in MultiReqs[j] : FromMulti(r, q)
  <2>1. PICK q \in MultiReqs[j] : FromMulti(r, q)
    BY <1>2
  <2> DEFINE p == r.specs[n].platform
  <2>2. r.arts # Idle.arts
    BY <2>1, NoArtifacts DEF FromMulti
  <2>3. Listed(r)
    BY DEF PublishedInv, Works
  <2>4. p \in DOMAIN r.arts /\ r.specs[n].ref = r.arts[p].ref
    <3> HIDE DEF r
    <3> QED BY <2>2, <2>3 DEF Listed, r
  <2> HIDE DEF p
  <2>5. r.arts[p] = MultiArtifact(q, p) /\ r.out = q.ref
    BY <2>1, <2>4 DEF FromMulti
  <2>6. r.out \in TagRef
    BY DEF Inductive, TypeOK, JobTypeOK, TagRef
  <2> QED BY <2>4, <2>5, <2>6, MultiArtifactRef, DerivedRepo
<1> QED BY <1>1, <1>2 DEF RequestInv, ComesFrom

\* What a lookup finds is where the index goes.
LEMMA LookupShown ==
    ASSUME IndexesAtHome, Inductive, Inductive', RequestInv, PublishedInv, Shown,
           NEW j \in Jobs, Describe(j)
    PROVE  Shown'
<1> DEFINE r == job[j]
           s == job'[j]
           spec == r.specs[Len(r.entries) + 1]
           e(m) == [platform |-> spec.platform, manifest |-> m]
<1>1. /\ UNCHANGED registryVars /\ Moves(j) /\ r.pc = "describe"
      /\ \/ s = Failed
         \/ /\ spec \in PlatformSpec /\ spec.ref # NoRef
            /\ \E m \in Resolve(spec.ref) : s.entries = Append(r.entries, e(m))
            /\ s.out = r.out
  BY DescribeEffect
<1>2. UNCHANGED <<manifests, tags>> /\ ManifestsGrow
  BY <1>1 DEF registryVars, ManifestsGrow
<1>3. CASE s = Failed
  BY <1>1, <1>2, <1>3, NoEntries, Unseen
<1>4. ASSUME spec \in PlatformSpec, spec.ref # NoRef, NEW m \in Resolve(spec.ref),
             s.entries = Append(r.entries, e(m)), s.out = r.out
      PROVE  EntriesHome(job[j])'
  <2> SUFFICES ASSUME r.out # NoRef, ~Bare(r.out.repo),
                      NEW i \in DOMAIN s.entries
               PROVE  s.entries[i].manifest \in manifests'[r.out.repo]
    BY <1>4 DEF EntriesHome
  <2>1. EntriesHome(r) /\ ProcessInv(j) /\ JobTypeOK(r)
    BY DEF Shown, Inductive, TypeOK
  <2>2. /\ r.specs \in Seq(PlatformSpec) /\ DOMAIN r.specs = 1 .. Len(r.specs)
        /\ r.entries \in Seq(Entry) /\ DOMAIN r.entries = 1 .. Len(r.entries)
        /\ Len(r.entries) \in Nat /\ Len(r.specs) \in Nat
        /\ Len(r.entries) < Len(r.specs)
    BY <1>1, <2>1, LenProperties DEF JobTypeOK, ProcessInv
  <2>3. Len(r.entries) + 1 \in DOMAIN r.specs
    BY <2>2
  <2>4. spec.ref.repo = r.out.repo
    BY <1>4, <2>3, LookupHome
  <2>5. m \in manifests[spec.ref.repo]
    <3>1. spec.ref \in Ref /\ RegistryTypeOK /\ TagsStored
      BY <1>4 DEF PlatformSpec, Inductive, TypeOK
    <3> QED BY <3>1, ResolveFinds
  <2> DEFINE x == e(m)
  <2>6. x.manifest = m /\ s.entries = Append(r.entries, x)
    BY <1>4
  <2> HIDE DEF x, spec
  <2>7. /\ DOMAIN s.entries = 1 .. Len(r.entries) + 1
        /\ \A k \in 1 .. Len(r.entries) : s.entries[k] = r.entries[k]
        /\ s.entries[Len(r.entries) + 1] = x
    <3>1. s.entries \in Seq(Entry)
      BY DEF Inductive, TypeOK, JobTypeOK
    <3> HIDE DEF s, r
    <3> QED BY <2>2, <2>6, <3>1, AppendProperties, LenProperties
  <2>8. i \in DOMAIN r.entries \/ i = Len(r.entries) + 1
    BY <2>2, <2>7
  <2>9. CASE i \in DOMAIN r.entries
    BY <1>2, <2>1, <2>2, <2>7, <2>9 DEF EntriesHome
  <2>10. CASE i = Len(r.entries) + 1
    BY <1>2, <2>4, <2>5, <2>6, <2>7, <2>10
  <2> QED BY <2>8, <2>9, <2>10
<1>5. CASE ~(s = Failed)
  BY <1>1, <1>2, <1>4, <1>5, Unseen
<1> QED BY <1>3, <1>5

\* The index that is pushed is one that was asked for, and not empty.
LEMMA IndexAsked ==
    ASSUME Inductive, RequestInv, PublishedInv, NEW j \in Jobs, job[j].pc = "putindex"
    PROVE  /\ DOMAIN job[j].entries # {}
           /\ PlatformsOf(job[j].entries) \in AskedPlatforms[job[j].out]
<1> DEFINE r == job[j]
<1>1. JobTypeOK(r) /\ ProcessInv(j) /\ Works(r) /\ r.pc = "putindex"
  BY DEF Inductive, TypeOK, PublishedInv
<1>2. r.out \in IndexTags /\ r.out # NoRef
  BY <1>1 DEF JobTypeOK, ProcessInv
<1>3. /\ r.specs \in Seq(PlatformSpec) /\ DOMAIN r.specs = 1 .. Len(r.specs)
      /\ r.entries \in Seq(Entry) /\ DOMAIN r.entries = 1 .. Len(r.entries)
  BY <1>1, LenProperties DEF JobTypeOK
<1>4. /\ r.left = {} /\ Len(r.entries) = Len(r.specs)
      /\ DOMAIN r.entries = DOMAIN r.specs
      /\ \A i \in DOMAIN r.entries : r.entries[i].platform = r.specs[i].platform
  BY <1>1, <1>2, <1>3 DEF Works, Ordered, EntriesFollow
<1>5. CASE \E q \in IndexReqs[j] : FromIndex(r, q)
  <2>1. PICK q \in IndexReqs[j] : FromIndex(r, q)
    BY <1>5
  <2> DEFINE given == q.specs
  <2>2. given \in Seq([platform : Platforms, ref : ImageTags \cup {NoRef}]) /\ given # <<>>
    BY <2>1, RequestTypes DEF FromIndex
  <2>3. /\ DOMAIN r.specs = DOMAIN given /\ q.out = r.out
        /\ \A i \in DOMAIN r.specs : r.specs[i].platform = given[i].platform
    BY <2>1 DEF FromIndex
  <2>4. DOMAIN given # {}
    <3> HIDE DEF given
    <3>1. Len(given) # 0 /\ Len(given) \in Nat /\ DOMAIN given = 1 .. Len(given)
      BY <2>2, EmptySeq, LenProperties
    <3> QED BY <3>1
  <2>5. PlatformsOf(r.entries) = PlatformsOf(given)
    BY <1>4, <2>3 DEF PlatformsOf
  <2>6. q \in {x \in Every(IndexReqs) : x.out = r.out}
    BY <2>3 DEF Every
  <2>7. PlatformsOf(q.specs) \in AskedPlatforms[r.out]
    BY <1>2, <2>6, Zenon DEF AskedPlatforms
  <2> QED BY <1>4, <2>3, <2>4, <2>5, <2>7
<1>6. CASE \E q \in MultiReqs[j] : FromMulti(r, q)
  <2>1. PICK q \in MultiReqs[j] : FromMulti(r, q)
    BY <1>6
  <2> DEFINE order == Sorted(DOMAIN r.arts, PlatformRank)
  <2>2. DOMAIN r.arts = DOMAIN q.files /\ DOMAIN r.arts # {} /\ q.ref = r.out
    BY <2>1 DEF FromMulti
  <2>3. r.arts # Idle.arts /\ DOMAIN r.arts \ r.left = DOMAIN r.arts
    BY <1>4, <2>2, NoArtifacts
  <2>4. /\ IsFiniteSet(DOMAIN r.arts) /\ Len(r.specs) = Cardinality(DOMAIN r.arts)
        /\ \A i \in DOMAIN r.specs : r.specs[i].platform = order[i]
    BY <1>1, <1>2, <2>3 DEF Works, Listed
  <2>5. order = [i \in 1 .. Cardinality(DOMAIN r.arts) |-> order[i]]
    BY SortedDomain
  <2> HIDE DEF order
  <2>6. PlatformsOf(r.entries) = order
    BY <1>3, <1>4, <2>4, <2>5 DEF PlatformsOf
  <2>7. DOMAIN r.entries # {}
    <3>1. Cardinality(DOMAIN r.arts) # 0 /\ Cardinality(DOMAIN r.arts) \in Nat
      BY <2>2, <2>4, FS_EmptySet, FS_CardinalityType
    <3> QED BY <1>3, <1>4, <2>4, <3>1
  <2>8. q \in {x \in Every(MultiReqs) : x.ref = r.out}
    BY <2>2 DEF Every
  <2>9. Sorted(DOMAIN q.files, PlatformRank) \in AskedPlatforms[r.out]
    BY <1>2, <2>8, Zenon DEF AskedPlatforms
  <2> QED BY <2>2, <2>6, <2>7, <2>9 DEF order
<1> QED BY <1>2, <1>5, <1>6 DEF RequestInv, ComesFrom

\* What pushing the index does to the registry.
LEMMA IndexStored ==
    ASSUME Inductive, NEW j \in Jobs, PutIndex(j)
    PROVE  LET out == job[j].out
               m == [type |-> "index", entries |-> job[j].entries]
           IN /\ job[j].pc = "putindex" /\ Moves(j) /\ ManifestsGrow
              /\ out \in IndexTags /\ out.repo \in Repos /\ out # NoRef
              /\ m \in Index /\ m \notin Image
              /\ \A r \in Repos : manifests'[r] =
                    IF r = out.repo THEN manifests[r] \cup {m} ELSE manifests[r]
              /\ DOMAIN tags' = DOMAIN tags \cup {out}
              /\ \A t \in DOMAIN tags' : tags'[t] = IF t = out THEN m ELSE tags[t]
              /\ job'[j] = Failed \/ SameWork(job[j], job'[j])
<1> DEFINE out == job[j].out
           m == [type |-> "index", entries |-> job[j].entries]
<1>1. /\ job[j].pc = "putindex" /\ Moves(j) /\ out \in IndexTags /\ StoreManifest(out, m)
      /\ job'[j] = Failed \/ SameWork(job[j], job'[j])
  BY PutIndexEffect
<1>2. out \in TagRef /\ out.repo \in Repos /\ out # NoRef
  BY <1>1, Repository, NamesAssumption DEF TagRef
<1>3. m \in Index /\ m \notin Image
  <2>1. job[j].entries \in Seq(Entry)
    BY DEF Inductive, TypeOK, JobTypeOK
  <2> QED BY <2>1, KindsDisjoint DEF Index
<1> HIDE DEF m, out
<1>4. /\ \A r \in Repos : manifests'[r] =
            IF r = out.repo THEN manifests[r] \cup {m} ELSE manifests[r]
      /\ DOMAIN tags' = DOMAIN tags \cup {out}
      /\ \A t \in DOMAIN tags' : tags'[t] = IF t = out THEN m ELSE tags[t]
  <2>1. RegistryTypeOK /\ TagsStored
    BY DEF Inductive, TypeOK
  <2> QED BY <1>1, <1>2, <2>1, StoreManifestEffect
<1>5. ManifestsGrow
  BY <1>1, <1>2, StoreGrows
<1> QED BY <1>1, <1>2, <1>3, <1>4, <1>5 DEF m, out

\* The index goes where its entries are, or where nobody can see it.
LEMMA IndexShown ==
    ASSUME Inductive, RequestInv, PublishedInv, Shown, NEW j \in Jobs, PutIndex(j)
    PROVE  Shown'
<1> DEFINE out == job[j].out
           m == [type |-> "index", entries |-> job[j].entries]
<1>1. /\ job[j].pc = "putindex" /\ Moves(j) /\ ManifestsGrow
      /\ out \in IndexTags /\ out.repo \in Repos /\ out # NoRef
      /\ m \in Index /\ m \notin Image
      /\ \A r \in Repos : manifests'[r] =
            IF r = out.repo THEN manifests[r] \cup {m} ELSE manifests[r]
      /\ DOMAIN tags' = DOMAIN tags \cup {out}
      /\ \A t \in DOMAIN tags' : tags'[t] = IF t = out THEN m ELSE tags[t]
      /\ job'[j] = Failed \/ SameWork(job[j], job'[j])
  BY IndexStored
<1>2. m.entries = job[j].entries /\ DOMAIN job[j].entries # {}
  BY <1>1, IndexAsked
<1>3. EntriesHome(job[j])
  BY DEF Shown
<1> HIDE DEF m, out
<1>4. \A r \in Repos : Bare(r) => manifests'[r] \cap Image = {}
  BY <1>1 DEF Shown
<1>5. ASSUME NEW t \in IndexTags \cap DOMAIN tags'
      PROVE  IF Bare(t.repo) THEN DOMAIN tags'[t].entries # {}
             ELSE \A i \in DOMAIN tags'[t].entries :
                     tags'[t].entries[i].manifest \in manifests'[t.repo]
  <2>1. t.repo \in Repos
    BY Repository DEF TagRef
  <2>2. CASE t = out
    <3>1. tags'[t] = m
      BY <1>1, <2>2
    <3>2. Bare(out.repo) \/ \A i \in DOMAIN m.entries : m.entries[i].manifest \in manifests[out.repo]
      BY <1>1, <1>2, <1>3 DEF EntriesHome, out
    <3> QED BY <1>1, <1>2, <2>2, <3>1, <3>2 DEF ManifestsGrow
  <2>3. CASE t # out
    <3>1. t \in DOMAIN tags /\ tags'[t] = tags[t]
      BY <1>1, <2>3
    <3> QED BY <1>1, <2>1, <3>1 DEF Shown, ManifestsGrow
  <2> QED BY <2>2, <2>3
<1>6. EntriesHome(job[j])'
  <2>1. CASE job'[j] = Failed
    BY <2>1, NoEntries
  <2>2. CASE SameWork(job[j], job'[j])
    BY <1>1, <1>3, <2>2, EntriesStayHome DEF EntriesHome, SameWork
  <2> QED BY <1>1, <2>1, <2>2
<1>7. \A i \in Jobs : EntriesHome(job[i])'
  BY <1>1, <1>6, OthersHome
<1> QED BY <1>4, <1>5, <1>7 DEF Shown

\* The steps that touch no manifest and no tag.
Quiet(j) ==
    \/ ArtifactRun(j) \/ PlanRun(j) \/ IndexRun(j) \/ MultiRun(j)
    \/ RejectPlatform(j) \/ Fail(j) \/ PushConfig(j) \/ PushLayer(j) \/ Describe(j)

\* Checks, lookups, blobs and failures are invisible to who pulls.
LEMMA QuietSteps ==
    ASSUME Inductive, NEW j \in Jobs, Quiet(j)
    PROVE  UNCHANGED <<manifests, tags>>
<1>1. ASSUME UNCHANGED registryVars PROVE UNCHANGED <<manifests, tags>>
  BY <1>1 DEF registryVars
<1> QED BY <1>1, RunStarts, GiveUpEffect, PushConfigEffect, PushLayerEffect, DescribeEffect
        DEF Quiet

\* Every step keeps what is released whole.
LEMMA ShownNext ==
    ASSUME IndexesAtHome
    PROVE  Inductive /\ Inductive' /\ PublishedInv /\ RequestInv /\ Shown /\ [Next]_vars
               => Shown'
<1> SUFFICES ASSUME Inductive, Inductive', PublishedInv, RequestInv, Shown, [Next]_vars
             PROVE  Shown'
  OBVIOUS
<1>1. CASE UNCHANGED vars
  BY <1>1 DEF vars, Shown, EntriesHome
<1>2. ASSUME NEW j \in Jobs, Quiet(j) PROVE Shown'
  <2>1. UNCHANGED <<manifests, tags>>
    BY <1>2, QuietSteps
  <2>2. CASE Describe(j)
    BY <2>2, LookupShown
  <2>3. CASE PushConfig(j) \/ PushLayer(j)
    <3>1. Moves(j) /\ (job'[j] = Failed \/ SameWork(job[j], job'[j]))
      BY <2>3, PushConfigEffect, PushLayerEffect
    <3>2. EntriesHome(job[j])
      BY DEF Shown
    <3>3. SameWork(job[j], job'[j]) => EntriesHome(job[j])'
      BY <2>1, <3>2 DEF EntriesHome, SameWork
    <3> QED BY <2>1, <3>1, <3>3, NoEntries, Unseen
  <2>4. CASE \/ ArtifactRun(j) \/ PlanRun(j) \/ IndexRun(j) \/ MultiRun(j)
             \/ RejectPlatform(j) \/ Fail(j)
    <3>1. Moves(j) /\ (job'[j] = Failed \/ job'[j].entries = <<>>)
      BY <2>4, RunStarts, GiveUpEffect
    <3> QED BY <2>1, <3>1, NoEntries, Unseen
  <2> QED BY <1>2, <2>2, <2>3, <2>4 DEF Quiet
<1>3. ASSUME NEW j \in Jobs, PushManifest(j) \/ PutIndex(j) PROVE Shown'
  BY <1>3, ImageShown, IndexShown
<1> QED BY <1>1, <1>2, <1>3 DEF Next, Progress, Quiet

-----------------------------------------------------------------------------
(* Push implements Catalogue.                                              *)

\* A tag comes to name m on the shelf.
LEMMA PlacedOnShelf ==
    ASSUME AsSeen, AsSeen', NEW t, NEW m, Seen' = Seen \cup {t}, tags'[t] = m,
           \A u \in Seen \ {t} : tags'[u] = tags[u]
    PROVE  Promise!Place(t, m)
<1>1. Shelf' = [u \in Seen' |-> Shelf'[u]] /\ DOMAIN Shelf = Seen
  BY DEF AsSeen
<1>2. \A u \in Seen' : Shelf'[u] = IF u = t THEN m ELSE Shelf[u]
  BY DEF AsSeen
<1>3. Shelf' = [u \in Seen \cup {t} |-> IF u = t THEN m ELSE Shelf[u]]
  BY <1>1, <1>2
<1> QED BY <1>1, <1>3 DEF Promise!Place

\* While no tag that can be seen moves, neither does the shelf.
LEMMA StillOnShelf ==
    ASSUME AsSeen, AsSeen', Seen' = Seen, \A u \in Seen : tags'[u] = tags[u]
    PROVE  Shelf' = Shelf
<1>1. /\ Shelf' = [u \in Seen' |-> Shelf'[u]] /\ Shelf = [u \in Seen |-> Shelf[u]]
      /\ \A u \in Seen : Shelf[u] = tags[u]
      /\ \A u \in Seen' : Shelf'[u] = tags'[u]
  BY DEF AsSeen
<1> QED BY <1>1

\* The last step of artifact.Run and plan.Run is the release of an image.
LEMMA ImageReleased ==
    ASSUME Inductive, PublishedInv, RequestInv, AsSeen, AsSeen',
           NEW j \in Jobs, PushManifest(j)
    PROVE  \E t \in ImageTags : Promise!ReleaseImage(t)
<1> DEFINE r == job[j]
           a(p) == r.arts[p]
           image(p) == [type |-> "image", config |-> a(p).config, layers |-> r.layers]
<1>1. PICK p \in r.left : IsCurrent(r, p) /\ StoreManifest(a(p).ref, image(p))
  BY PushManifestEffect
<1>2. r.pc = "manifest" /\ p \in DOMAIN r.arts /\ JobTypeOK(r) /\ IsArtifact(a(p))
  BY <1>1, PushManifestEffect, CurrentArtifact
<1> DEFINE t == a(p).ref
           m == image(p)
<1>3. t \in ImageTags /\ t \in TagRef /\ t.repo \in Repos /\ a(p) \in RequestedBy(j)
  BY <1>2, NotBare DEF TagRef
<1>4. m = WantedImage(a(p))
  BY <1>1, <1>2, ManifestWanted
<1>5. m \in Image
  BY <1>2 DEF IsArtifact, JobTypeOK, Image
<1>6. m \in OfferedImages[t]
  <2>1. a(p) \in {b \in UNION {RequestedBy(i) : i \in Jobs} : b.ref = t}
    BY <1>3
  <2> HIDE DEF m, t
  <2> QED BY <1>3, <1>4, <2>1 DEF OfferedImages
<1>7. StoreManifest(t, m)
  BY <1>1
<1> HIDE DEF m, t
<1>8. /\ \A x \in Repos : manifests'[x] =
            IF x = t.repo THEN manifests[x] \cup {m} ELSE manifests[x]
      /\ DOMAIN tags' = DOMAIN tags \cup {t}
      /\ \A u \in DOMAIN tags' : tags'[u] = IF u = t THEN m ELSE tags[u]
  <2>1. RegistryTypeOK /\ TagsStored
    BY DEF Inductive, TypeOK
  <2> QED BY <1>3, <1>7, <2>1, StoreManifestEffect
<1>9. Released' = Released \cup {m}
  <2>1. \A x \in Repos : manifests'[x] \cap Image =
            IF x = t.repo THEN (manifests[x] \cap Image) \cup {m} ELSE manifests[x] \cap Image
    BY <1>5, <1>8
  <2>2. ASSUME NEW i PROVE i \in Images' <=> i \in Images \/ i = m
    <3>1. i \in Images' => i \in Images \/ i = m
      BY <1>3, <2>1 DEF Images
    <3>2. i \in Images => i \in Images'
      BY <1>3, <2>1 DEF Images
    <3>3. m \in Images'
      BY <1>3, <2>1 DEF Images
    <3> QED BY <3>1, <3>2, <3>3
  <2>3. Images' = Images \cup {m}
    BY <2>2
  <2> QED BY <2>3 DEF AsSeen
<1>10. Promise!Place(t, m)
  <2>1. Seen' = Seen \cup {t}
    BY <1>3, <1>8 DEF Seen
  <2>2. tags'[t] = m /\ \A u \in Seen \ {t} : tags'[u] = tags[u]
    BY <1>8 DEF Seen
  <2> QED BY <2>1, <2>2, PlacedOnShelf
<1> QED BY <1>3, <1>6, <1>9, <1>10 DEF Promise!ReleaseImage

\* The last step of index.Run and multi.Run is the release of an index, or
\* goes to a repository whose indexes nobody can pull whole.
LEMMA IndexReleased ==
    ASSUME Inductive, PublishedInv, RequestInv, AsSeen, AsSeen',
           NEW j \in Jobs, PutIndex(j)
    PROVE  (\E t \in IndexTags : Promise!ReleaseIndex(t)) \/ (Released' = Released /\ Shelf' = Shelf)
<1> DEFINE out == job[j].out
           entries == job[j].entries
           m == [type |-> "index", entries |-> entries]
<1>1. /\ job[j].pc = "putindex" /\ out \in IndexTags /\ out.repo \in Repos
      /\ m \in Index /\ m \notin Image
      /\ \A r \in Repos : manifests'[r] =
            IF r = out.repo THEN manifests[r] \cup {m} ELSE manifests[r]
      /\ DOMAIN tags' = DOMAIN tags \cup {out}
      /\ \A t \in DOMAIN tags' : tags'[t] = IF t = out THEN m ELSE tags[t]
  BY IndexStored
<1>2. PlatformsOf(entries) \in AskedPlatforms[out]
  BY <1>1, IndexAsked
<1>3. entries \in Seq(Entry) /\ ProcessInv(j)
  BY DEF Inductive, TypeOK, JobTypeOK
<1> HIDE DEF m, out, entries
<1>4. Released' = Released
  <2>1. \A r \in Repos : manifests'[r] \cap Image = manifests[r] \cap Image
    BY <1>1
  <2>2. Images' = Images
    BY <2>1 DEF Images
  <2> QED BY <2>2 DEF AsSeen
<1>5. out \notin ImageTags
  BY <1>1, TagsAssumption
<1>6. CASE Bare(out.repo)
  <2>1. Seen' = Seen /\ \A u \in Seen : tags'[u] = tags[u]
    BY <1>1, <1>5, <1>6 DEF Seen
  <2> QED BY <1>4, <2>1, StillOnShelf
<1>7. CASE ~Bare(out.repo)
  <2> DEFINE platforms == PlatformsOf(entries)
             chosen == [i \in DOMAIN platforms |-> entries[i].manifest]
             listed == [i \in DOMAIN platforms |->
                           [platform |-> platforms[i], manifest |-> chosen[i]]]
  <2>1. DOMAIN platforms = DOMAIN entries /\ DOMAIN entries = 1 .. Len(entries)
        /\ \A i \in DOMAIN entries : entries[i] \in Entry
    <3>1. DOMAIN entries = 1 .. Len(entries)
      BY <1>3, LenProperties
    <3> QED BY <1>3, <3>1, ElementOfSeq DEF PlatformsOf
  <2>2. \A i \in DOMAIN entries : platforms[i] = entries[i].platform
    BY DEF PlatformsOf
  <2>3. chosen \in [DOMAIN platforms -> Released]
    <3>1. ASSUME NEW i \in DOMAIN entries PROVE entries[i].manifest \in Released
      <4>1. entries[i].manifest \in Image
        BY <2>1 DEF Entry
      <4>2. \E s \in Repos : entries[i].manifest \in manifests[s]
        BY <1>3 DEF ProcessInv, entries
      <4> QED BY <4>1, <4>2 DEF AsSeen, Images
    <3> QED BY <2>1, <3>1
  <2>4. entries = listed
    <3> HIDE DEF platforms
    <3>1. \A i \in DOMAIN entries : listed[i] = entries[i]
      BY <2>1, <2>2 DEF Entry
    <3>2. entries = [i \in 1 .. Len(entries) |-> entries[i]]
      BY <1>3, LenProperties
    <3> QED BY <2>1, <3>1, <3>2
  <2>5. m = [type |-> "index", entries |-> listed]
    BY <2>4 DEF m
  <2>6. Promise!Place(out, m)
    <3>1. Seen' = Seen \cup {out}
      BY <1>1, <1>7 DEF Seen
    <3>2. tags'[out] = m /\ \A u \in Seen \ {out} : tags'[u] = tags[u]
      BY <1>1 DEF Seen
    <3> QED BY <3>1, <3>2, PlacedOnShelf
  <2>7. Promise!ReleaseIndex(out)
    <3>1. Promise!Place(out, [type |-> "index", entries |-> listed])
      BY <2>5, <2>6
    <3> HIDE DEF platforms
    <3>2. platforms \in AskedPlatforms[out]
      BY <1>2 DEF platforms
    <3> QED BY <1>4, <2>3, <3>1, <3>2 DEF Promise!ReleaseIndex
  <2> QED BY <1>1, <2>7
<1> QED BY <1>6, <1>7

\* A step of a push is a step of the catalogue or cannot be seen.
LEMMA CatalogueStep ==
    Inductive /\ PublishedInv /\ RequestInv /\ AsSeen /\ AsSeen' /\ [Next]_vars
        => [Promise!Next]_(Promise!catalogueVars)
<1> SUFFICES ASSUME Inductive, PublishedInv, RequestInv, AsSeen, AsSeen', [Next]_vars
             PROVE  Promise!Next \/ (Released' = Released /\ Shelf' = Shelf)
  BY DEF Promise!catalogueVars
<1>1. ASSUME UNCHANGED <<manifests, tags>>
      PROVE  Released' = Released /\ Shelf' = Shelf
  <2>1. Images' = Images /\ Seen' = Seen /\ \A u \in Seen : tags'[u] = tags[u]
    BY <1>1 DEF Images, Seen
  <2> QED BY <2>1, StillOnShelf DEF AsSeen
<1>2. CASE UNCHANGED vars
  BY <1>1, <1>2 DEF vars
<1>3. ASSUME NEW j \in Jobs, Quiet(j) PROVE Released' = Released /\ Shelf' = Shelf
  BY <1>1, <1>3, QuietSteps
<1>4. ASSUME NEW j \in Jobs, PushManifest(j) PROVE Promise!Next
  <2>1. DOMAIN OfferedImages = ImageTags
    BY DEF OfferedImages
  <2> QED BY <1>4, <2>1, ImageReleased DEF Promise!Next
<1>5. ASSUME NEW j \in Jobs, PutIndex(j)
      PROVE  Promise!Next \/ (Released' = Released /\ Shelf' = Shelf)
  <2>1. DOMAIN AskedPlatforms = IndexTags
    BY DEF AskedPlatforms
  <2> QED BY <1>5, <2>1, IndexReleased DEF Promise!Next
<1> QED BY <1>2, <1>3, <1>4, <1>5 DEF Next, Progress, Quiet

\* Nothing is stored at first, and the catalogue is empty.
LEMMA CatalogueInit == Init => Shown /\ Promise!Init
<1> SUFFICES ASSUME Init PROVE Shown /\ Promise!Init
  OBVIOUS
<1>1. /\ DOMAIN tags = {} /\ \A r \in Repos : manifests[r] = {}
      /\ \A j \in Jobs : job[j] = Idle
  BY DEF Init, RegistryInit
<1>2. Idle.entries = <<>> /\ Idle.out = NoRef
  BY DEF Idle, AtRest
<1>3. Shown
  BY <1>1, <1>2 DEF Shown, EntriesHome
<1>4. AsSeen /\ Images = {} /\ Seen = {}
  BY <1>1, <1>3, InductiveInit, CanBeSeen DEF Images, Seen
<1>5. Released = {} /\ Shelf = [t \in {} |-> {}]
  BY <1>4 DEF AsSeen
<1> QED BY <1>3, <1>5 DEF Promise!Init

\* As long as an index is pushed next to the artifacts it lists, or where no
\* artifact ever is, any number of concurrent, repeated and interrupted pushes
\* look, to whoever pulls from the registry, like a sequence of whole releases.
THEOREM PushesAreReleases ==
    ASSUME IndexesAtHome
    PROVE  Spec => ReleasesAreWhole
<1>1. Inductive' /\ Shown' => AsSeen'
  BY CanBeSeen, PTL
<1>2. Init => Shown /\ Promise!Init
  BY CatalogueInit
<1> QED BY <1>1, <1>2, CanBeSeen, CatalogueStep, RequestInit, RequestNext, ShownNext,
           Invariance, Publication, PTL
        DEF Spec, ReleasesAreWhole, Promise!Spec
=============================================================================
