------------------------------ MODULE Registry ------------------------------
(***************************************************************************)
(* The OCI registry the push subcommands talk to: per repository a set of  *)
(* blobs and a set of manifests, both addressed by content, and tags, the  *)
(* only names that can be moved.  A digest is modelled by the content it   *)
(* identifies.                                                             *)
(*                                                                         *)
(* The registry is external.  As in fakereg, the stand-in the tests use, a  *)
(* PUT is stored unconditionally: nobody checks that the blobs a manifest  *)
(* names exist.  Unlike fakereg, which keeps one manifest per URL path and *)
(* answers every GET, a manifest stays available by digest when its tag    *)
(* moves on, and a reference that names nothing is an error.               *)
(***************************************************************************)
EXTENDS Naturals, Sequences

CONSTANTS
    Repos,      \* repositories, "<host>/<repo>"
    Contents,   \* contents of files and of command lines
    Platforms,  \* [os, arch] records, as --platform spells them
    NoPlatform, \* config of an artifact that has no platform: a boot plan
    ImageTags,  \* [repo, tag] references that name manifests
    IndexTags   \* [repo, tag] references that name indexes

VARIABLES
    blobs,      \* repo -> set of blobs stored
    manifests,  \* repo -> set of manifests and indexes stored
    tags        \* [repo, tag] -> manifest or index the tag names now

registryVars == <<blobs, manifests, tags>>

Blob == Contents \cup Platforms \cup {NoPlatform}

\* A tag is its parts joined by "-": <<"6.6">> or <<"6.6", "arm64">>.
\* Nobody gives an index a tag that an artifact also has.
TagRef == ImageTags \cup IndexTags

ASSUME TagsAssumption ==
    /\ TagRef \subseteq [repo : Repos, tag : Seq(STRING)]
    /\ ImageTags \cap IndexTags = {}

Kinds == {"kernel", "initrd", "modules", "modloop", "apkovl", "squashfs",
          "cmdline", "plan"}
Layer == [kind : Kinds, blob : Contents]

Image == [type : {"image"}, config : Platforms \cup {NoPlatform},
          layers : Seq(Layer)]
Entry == [platform : Platforms, manifest : Image]
Index == [type : {"index"}, entries : Seq(Entry)]
Manifest == Image \cup Index

DigestRef == [repo : Repos, digest : Image]
Ref == ImageTags \cup DigestRef     \* what an index entry may be given as

RegistryTypeOK ==
    /\ blobs \in [Repos -> SUBSET Blob]
    /\ manifests \in [Repos -> SUBSET Manifest]
    /\ DOMAIN tags \subseteq TagRef
    /\ \A t \in DOMAIN tags :
          tags[t] \in IF t \in ImageTags THEN Image ELSE Index

RegistryInit ==
    /\ blobs = [r \in Repos |-> {}]
    /\ manifests = [r \in Repos |-> {}]
    /\ tags = [t \in {} |-> {}]

-----------------------------------------------------------------------------
(* Writes.                                                                 *)

\* Mutant: an upload is answered but not kept.
StoreBlobForgotten(repo, b) == UNCHANGED registryVars

StoreBlob(repo, b) ==
    /\ blobs' = [blobs EXCEPT ![repo] = @ \cup {b}]
    /\ UNCHANGED <<manifests, tags>>

\* Mutant: one manifest per tag, the old one is gone when the tag moves.
StoreManifestInPlace(ref, m) ==
    /\ manifests' = [manifests EXCEPT ![ref.repo] =
                        (@ \ {tags[t] : t \in {ref} \cap DOMAIN tags}) \cup {m}]
    /\ tags' = [t \in DOMAIN tags \cup {ref} |-> IF t = ref THEN m ELSE tags[t]]
    /\ UNCHANGED blobs

\* A PUT under a tag stores the manifest and moves the tag to it.
StoreManifest(ref, m) ==
    /\ manifests' = [manifests EXCEPT ![ref.repo] = @ \cup {m}]
    /\ tags' = [t \in DOMAIN tags \cup {ref} |->
                    IF t = ref THEN m ELSE tags[t]]
    /\ UNCHANGED blobs

-----------------------------------------------------------------------------
(* Reads: the set of manifests a reference names, empty for a 404.         *)

IsDigest(ref) == "digest" \in DOMAIN ref

Resolve(ref) ==
    IF IsDigest(ref) THEN {ref.digest} \cap manifests[ref.repo]
    ELSE {tags[t] : t \in {ref} \cap DOMAIN tags}
=============================================================================
