----------------------------- MODULE CacheDisk -----------------------------
(***************************************************************************)
(* scripts/make-cache-disk.sh: runs of the script that create the GPT disk *)
(* the reboot sink stages kernels on, or recognise one and leave it alone. *)
(*                                                                         *)
(* Every part of the disk carries the run and the size it was written by,  *)
(* which stands for the random GUIDs and the block addresses that have to  *)
(* agree.  A run may die between any two writes.                           *)
(***************************************************************************)
EXTENDS Integers

CONSTANTS
    Runs,       \* processes running the script
    Sizes,      \* values of SIZE_MiB it is called with
    Targets,    \* boot targets a guest may stage
    Blank, Foreign, Torn    \* contents that are no complete part of ours

Tags == [by : Runs, size : Sizes]

ASSUME SizesAssumption == Sizes \subseteq Nat \ {0}
ASSUME ContentsAssumption == Blank \notin Tags /\ Foreign \notin Tags /\ Torn \notin Tags

VARIABLES
    size,       \* size in MiB of the file at PATH; 0 when there is none
    disk,       \* what each part of it holds
    pc, asked,  \* of each run: its next write, and the SIZE_MiB it was given
    staged,     \* targets whose kernel is on the disk's ESP
    cut         \* history: whether a run died after it wrote the partition's name
vars == <<size, disk, pc, asked, staged, cut>>

-----------------------------------------------------------------------------
(* Geometry, in sectors of 512 bytes.                                      *)

EspFirst == 2048
\* Mutant: no room is left for the secondary GPT.
EspLbasUnreserved(mib) == mib * 2048 - EspFirst
EspLbas(mib) == mib * 2048 - EspFirst - 33
TotalLba(mib) == EspFirst + EspLbas(mib) + 33
PteLba == 2
FirstUsable == PteLba + (128 * 128) \div 512
LastUsable(mib) == TotalLba(mib) - 34
SecPteLba(mib) == TotalLba(mib) - 33
SecHdrLba(mib) == TotalLba(mib) - 1
EspLast(mib) == EspFirst + EspLbas(mib) - 1

\* First and last sector of everything the script writes.
Areas(mib) == [mbr  |-> <<0, 0>>,
                hdr  |-> <<1, 1>>,
                pte  |-> <<PteLba, PteLba + 31>>,
                esp  |-> <<EspFirst, EspLast(mib)>>,
                pte2 |-> <<SecPteLba(mib), SecPteLba(mib) + 31>>,
                hdr2 |-> <<SecHdrLba(mib), SecHdrLba(mib)>>]

-----------------------------------------------------------------------------
\* Mutants: dd before the GPT; dd not waited for; a step nobody takes.
AfterStampFirst == [mbr |-> "stamp", stamp |-> "stamping", stamping |-> "hdr",
                    hdr |-> "pte", pte |-> "pte2", pte2 |-> "hdr2", hdr2 |-> "ok"]
AfterNoWait == [mbr |-> "hdr", hdr |-> "pte", pte |-> "pte2", pte2 |-> "hdr2",
                hdr2 |-> "stamp", stamp |-> "ok"]
AfterLost == [mbr |-> "hdr", hdr |-> "pte", pte |-> "pte2", pte2 |-> "hdr2",
              hdr2 |-> "sync", stamp |-> "stamping", stamping |-> "ok"]

\* The writes of the script, each with its successor; "stamp" starts dd and
\* "stamping" ends it.
After == [mbr |-> "hdr", hdr |-> "pte", pte |-> "pte2", pte2 |-> "hdr2",
          hdr2 |-> "stamp", stamp |-> "stamping", stamping |-> "ok"]
Running == {"format", "truncate"} \cup DOMAIN After
AfterEntries == {"pte2", "hdr2", "stamp", "stamping"}

Parts == {"mbr", "hdr", "pte", "pte2", "hdr2"}

Filled(c) == [part \in Parts \cup {"esp"} |-> c]

\* At first nothing, an empty file or somebody else's GPT disk is at PATH.
Init ==
    /\ \/ size = 0 /\ disk = Filled(Blank)
       \/ size \in Sizes /\ disk \in {Filled(Blank), Filled(Foreign)}
    /\ pc = [j \in Runs |-> "idle"]
    /\ asked = [j \in Runs |-> 0]
    /\ staged = {}
    /\ cut = FALSE

\* The idempotency check: a GPT header and the name of its first partition.
HasCachePartition == size # 0 /\ disk["hdr"] # Blank /\ disk["pte"] \in Tags

\* Mutant: no idempotency check.
StartUnchecked(j) == \E mib \in Sizes :
    /\ pc[j] \notin Running
    /\ pc' = [pc EXCEPT ![j] = "format"]
    /\ asked' = [asked EXCEPT ![j] = mib]
    /\ UNCHANGED <<size, disk, staged, cut>>

Start(j) == \E mib \in Sizes :
    /\ pc[j] \notin Running
    /\ pc' = [pc EXCEPT ![j] = IF HasCachePartition THEN "ok" ELSE "format"]
    /\ asked' = [asked EXCEPT ![j] = mib]
    /\ UNCHANGED <<size, disk, staged, cut>>

\* The FAT image is built in a temporary file; mformat refuses an empty one.
Format(j) ==
    /\ pc[j] = "format"
    /\ pc' = [pc EXCEPT ![j] = IF EspLbas(asked[j]) > 0 THEN "truncate" ELSE "failed"]
    /\ UNCHANGED <<size, disk, asked, staged, cut>>

\* truncate -s keeps what an existing file holds, but not its end in place.
Moved == [disk EXCEPT !["pte2"] = Blank, !["hdr2"] = Blank,
                      !["esp"] = IF @ \in Tags THEN Torn ELSE @]

Truncate(j) ==
    /\ pc[j] = "truncate"
    /\ pc' = [pc EXCEPT ![j] = "mbr"]
    /\ size' = asked[j]
    /\ disk' = IF asked[j] = size THEN disk ELSE Moved
    /\ UNCHANGED <<asked, staged, cut>>

\* The five structures python writes into the file.
WritePart(j) ==
    /\ pc[j] \in Parts
    /\ disk' = [disk EXCEPT ![pc[j]] = [by |-> j, size |-> asked[j]]]
    /\ pc' = [pc EXCEPT ![j] = After[pc[j]]]
    /\ UNCHANGED <<size, asked, staged, cut>>

\* dd copies the FAT image over whatever the partition holds.
StampBegin(j) ==
    /\ pc[j] = "stamp"
    /\ disk' = [disk EXCEPT !["esp"] = Torn]
    /\ staged' = {}
    /\ pc' = [pc EXCEPT ![j] = After["stamp"]]
    /\ UNCHANGED <<size, asked, cut>>

StampEnd(j) ==
    /\ pc[j] = "stamping"
    /\ disk' = [disk EXCEPT !["esp"] = [by |-> j, size |-> asked[j]]]
    /\ pc' = [pc EXCEPT ![j] = After["stamping"]]
    /\ UNCHANGED <<size, asked, staged, cut>>

\* A signal, a full disk, a missing tool: set -e ends the run.
Die(j) ==
    /\ pc[j] \in Running
    /\ pc' = [pc EXCEPT ![j] = "failed"]
    /\ cut' = (cut \/ pc[j] \in AfterEntries)
    /\ UNCHANGED <<size, disk, asked, staged>>

\* A guest started after a successful run stages a target on the ESP it finds
\* by the partition's name.
Stage(t) ==
    /\ \E j \in Runs : pc[j] = "ok"
    /\ HasCachePartition /\ disk["esp"] \in Tags
    /\ staged' = staged \cup {t}
    /\ UNCHANGED <<size, disk, pc, asked, cut>>

Next ==
    \/ \E j \in Runs : \/ Start(j)
                       \/ Format(j)
                       \/ Truncate(j)
                       \/ WritePart(j)
                       \/ StampBegin(j)
                       \/ StampEnd(j)
                       \/ Die(j)
    \/ \E t \in Targets : Stage(t)

Spec == Init /\ [][Next]_vars

-----------------------------------------------------------------------------
(* Properties.                                                             *)

Content == Tags \cup {Blank, Foreign, Torn}

\* Every variable has its type, and a run that writes knows its size.
TypeOK ==
    /\ size \in Sizes \cup {0}
    /\ disk \in [Parts \cup {"esp"} -> Content]
    /\ pc \in [Runs -> Running \cup {"idle", "ok", "failed"}]
    /\ asked \in [Runs -> Sizes \cup {0}]
    /\ \A j \in Runs : pc[j] \in Running => asked[j] \in Sizes
    /\ staged \subseteq Targets
    /\ cut \in BOOLEAN

\* Primary and secondary GPT agree with each other and with the size of the
\* file, and the partition holds a FAT file system.
Whole == \E t \in Tags : size = t.size /\ disk = Filled(t)

\* Whenever the script has succeeded the disk can be used: the header comment
\* lets every vfkit run call it as a precondition.
ReadyMeansWhole == (\E j \in Runs : pc[j] = "ok") => Whole

\* As long as no run has died after it wrote the partition's name: what a run
\* that died before leaves, a later one of any size repairs.
ReadyUnlessCut == cut \/ ReadyMeansWhole

\* A disk that is ready stays ready, and no staged target is ever lost: later
\* runs of the script, whatever SIZE_MiB they ask for, leave it untouched.
CacheSurvives == [][/\ Whole => Whole'
                    /\ staged \subseteq staged']_vars

Rank == [mbr |-> 1, hdr |-> 2, pte |-> 3, pte2 |-> 4, hdr2 |-> 5, stamp |-> 6,
         stamping |-> 7]

\* Why the order of the writes protects a disk in use, with one script run at
\* a time: the name the check looks for is there before a file system is, and
\* a run that has passed the check works on a disk without that name until it
\* writes it itself.
WriteOrder ==
    /\ disk["pte"] \in Tags => disk["hdr"] \in Tags /\ size # 0
    /\ disk["esp"] \in Tags => disk["pte"] \in Tags
    /\ staged # {} => disk["esp"] \in Tags
    /\ \A j \in Runs :
          /\ pc[j] \in Running \ AfterEntries => disk["pte"] \notin Tags
          /\ pc[j] \in AfterEntries => disk["esp"] \notin Tags
          /\ pc[j] \in DOMAIN After =>
                /\ size = asked[j]
                /\ \A part \in Parts : Rank[part] < Rank[pc[j]] =>
                      disk[part] = [by |-> j, size |-> asked[j]]

Disjoint(a, b) == a[2] < b[1] \/ b[2] < a[1]

\* All areas lie within the disk and apart from each other, and the partition
\* lies within the sectors the headers declare usable.
Fits(mib) ==
    /\ LET areas == Areas(mib) IN
       \A x, y \in DOMAIN areas :
          /\ 0 <= areas[x][1] /\ areas[x][1] <= areas[x][2]
          /\ areas[x][2] < mib * 2048
          /\ x # y => Disjoint(areas[x], areas[y])
    /\ FirstUsable <= EspFirst /\ EspLast(mib) <= LastUsable(mib)

\* No run writes two structures over each other or past the end of the disk,
\* or declares a partition its own headers rule out, for any size mformat
\* accepts.
NoOverlap == \A j \in Runs : pc[j] \in Running \ {"format"} => Fits(asked[j])
=============================================================================
