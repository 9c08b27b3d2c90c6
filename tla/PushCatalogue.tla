---------------------------- MODULE PushCatalogue ----------------------------
(***************************************************************************)
(* Push implements Catalogue: what can be pulled completely from the       *)
(* registry changes only by whole releases.                                *)
(***************************************************************************)
EXTENDS Push

\* All requests of one kind.
Every(reqs) == UNION {reqs[j] : j \in Jobs}

\* The artifacts the requests of j describe, as the subcommands read them.
RequestedBy(j) ==
    {[ref |-> q.ref, config |-> q.platform, files |-> q.files] : q \in ArtifactReqs[j]}
    \cup {PlanArtifact(q) : q \in PlanReqs[j]}
    \cup UNION {{MultiArtifact(q, p) : p \in DOMAIN q.files}
                 : q \in {r \in MultiReqs[j] : r.ref # NoRef}}

PlatformsOf(specs) == [i \in DOMAIN specs |-> specs[i].platform]

OfferedImages == [t \in ImageTags |->
    {WantedImage(a) : a \in {b \in UNION {RequestedBy(j) : j \in Jobs} : b.ref = t}}]

AskedPlatforms == [t \in IndexTags |->
    {PlatformsOf(q.specs) : q \in {r \in Every(IndexReqs) : r.out = t}}
    \cup {Sorted(DOMAIN q.files, PlatformRank)
          : q \in {r \in Every(MultiReqs) : r.ref = t}}]

\* Everything repository r needs to serve m is there.
ImageAvailable(r, m) ==
    /\ m \in manifests[r]
    /\ m.config \in blobs[r]
    /\ \A i \in DOMAIN m.layers : m.layers[i].blob \in blobs[r]

Available(r, m) ==
    IF m.type = "image" THEN ImageAvailable(r, m)
    ELSE \A i \in DOMAIN m.entries : ImageAvailable(r, m.entries[i].manifest)

Released == UNION {{m \in manifests[r] \cap Image : ImageAvailable(r, m)} : r \in Repos}

Shelf == [t \in {u \in DOMAIN tags : Available(u.repo, tags[u])} |-> tags[t]]

Promise == INSTANCE Catalogue WITH
    Offered <- OfferedImages, Asked <- AskedPlatforms,
    released <- Released, shelf <- Shelf

\* Every step of any number of pushes, failed ones included, is a whole
\* release under one tag, or invisible to who pulls from the registry.
ReleasesAreWhole == Promise!Spec

-----------------------------------------------------------------------------
(* What a team can arrange so that its pushes do not disturb each other.   *)

\* No request pushes an artifact into repository r.
Bare(r) == \A j \in Jobs : \A a \in RequestedBy(j) : a.ref = NoRef \/ a.ref.repo # r

\* An index is pushed next to the artifacts it lists, or into a repository
\* that never holds an artifact: index.Run keeps only their digests.
IndexesAtHome == \A j \in Jobs : \A q \in IndexReqs[j] : q.out # NoRef =>
    \/ Bare(q.out.repo)
    \/ \A i \in DOMAIN q.specs :
          q.specs[i].ref # NoRef => q.specs[i].ref.repo = q.out.repo

\* The tags multi.Run derives are different from each other and from those of
\* every other process.
OwnTags == \A j \in Jobs : \A q \in MultiReqs[j] : q.ref # NoRef =>
    /\ \A p1, p2 \in DOMAIN q.files :
          DerivePerArchRef(q.ref, p1) = DerivePerArchRef(q.ref, p2) => p1 = p2
    /\ \A p \in DOMAIN q.files, i \in Jobs \ {j} : \A a \in RequestedBy(i) :
          a.ref # DerivePerArchRef(q.ref, p)
=============================================================================
