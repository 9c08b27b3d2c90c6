-------------------------- MODULE BootChainProofs --------------------------
(***************************************************************************)
(* The geometry of the cache disk for every size, and what one script run  *)
(* after the other, killed anywhere, never destroys.                       *)
(***************************************************************************)
EXTENDS BootChain, SequenceTheorems, TLAPS

\* The structures fit next to each other whenever the partition has a sector.
LEMMA Layout ==
    ASSUME NEW mib \in Nat, EspLbas(mib) > 0
    PROVE  Fits(mib)
<1>1. mib >= 2
  BY DEF EspLbas, EspFirst
<1>2. /\ TotalLba(mib) = mib * 2048 /\ mib * 2048 \in Nat /\ mib * 2048 >= 4096
      /\ EspLast(mib) = mib * 2048 - 34 /\ SecPteLba(mib) = mib * 2048 - 33
      /\ SecHdrLba(mib) = mib * 2048 - 1
  BY <1>1 DEF TotalLba, EspLbas, EspFirst, EspLast, SecPteLba, SecHdrLba
<1>3. FirstUsable <= EspFirst /\ EspLast(mib) <= LastUsable(mib)
  BY <1>2 DEF FirstUsable, LastUsable, PteLba, EspFirst
<1> QED BY <1>2, <1>3 DEF Fits, Areas, Disjoint, PteLba, EspFirst

\* Every action keeps the types.
LEMMA TypeStep == TypeOK /\ [Next]_vars => TypeOK'
<1> SUFFICES ASSUME TypeOK, [Next]_vars PROVE TypeOK'
  OBVIOUS
<1> USE DEF TypeOK
<1>1. CASE UNCHANGED vars
  BY <1>1 DEF vars
<1>2. ASSUME NEW j \in Runs, Start(j) PROVE TypeOK'
  BY <1>2 DEF Start, Running
<1>3. ASSUME NEW j \in Runs, Format(j) PROVE TypeOK'
  BY <1>3 DEF Format, Running
<1>4. ASSUME NEW j \in Runs, Truncate(j) PROVE TypeOK'
  <2>1. Moved \in [Parts \cup {"esp"} -> Content]
    BY DEF Moved, Content
  <2>2. asked[j] \in Sizes /\ "mbr" \in Running
    BY <1>4 DEF Truncate, Running, After
  <2> QED BY <1>4, <2>1, <2>2 DEF Truncate
<1>5. ASSUME NEW j \in Runs, WritePart(j) PROVE TypeOK'
  <2>1. pc[j] \in Running /\ After[pc[j]] \in Running
    BY <1>5 DEF WritePart, Running, Parts, After
  <2>2. [by |-> j, size |-> asked[j]] \in Content
    BY <2>1 DEF Content, Tags
  <2> QED BY <1>5, <2>1, <2>2 DEF WritePart
<1>6. ASSUME NEW j \in Runs, StampBegin(j) PROVE TypeOK'
  BY <1>6 DEF StampBegin, Running, Content, After
<1>7. ASSUME NEW j \in Runs, StampEnd(j) PROVE TypeOK'
  BY <1>7 DEF StampEnd, Running, Content, Tags, After
<1>8. ASSUME NEW j \in Runs, Die(j) PROVE TypeOK'
  BY <1>8 DEF Die, Running
<1>9. ASSUME NEW t \in Targets, Stage(t) PROVE TypeOK'
  BY <1>9 DEF Stage
<1> QED BY <1>1, <1>2, <1>3, <1>4, <1>5, <1>6, <1>7, <1>8, <1>9 DEF Next

\* The types hold at first.
LEMMA TypeInit == Init => TypeOK
  BY DEF Init, TypeOK, Filled, Content, Running, After

\* Every variable of the script and of the disk keeps its type, however many
\* runs of make-cache-disk.sh interleave and wherever they are killed.
THEOREM Typing == Spec => []TypeOK
  BY TypeInit, TypeStep, PTL DEF Spec

-----------------------------------------------------------------------------
(* The geometry.                                                           *)

\* A run that writes has passed mformat, which refused an empty partition.
Formatted == \A j \in Runs : pc[j] \in Running \ {"format"} => EspLbas(asked[j]) > 0

\* No action but Format lets a run past "format".
LEMMA FormattedStep == TypeOK /\ Formatted /\ [Next]_vars => Formatted'
<1> SUFFICES ASSUME TypeOK, Formatted, [Next]_vars PROVE Formatted'
  OBVIOUS
<1> USE DEF TypeOK, Formatted, Running, After
<1>1. CASE UNCHANGED vars
  BY <1>1 DEF vars
<1>2. ASSUME NEW j \in Runs, Start(j) PROVE Formatted'
  BY <1>2 DEF Start
<1>3. ASSUME NEW j \in Runs, Format(j) PROVE Formatted'
  BY <1>3 DEF Format
<1>4. ASSUME NEW j \in Runs, Truncate(j) PROVE Formatted'
  BY <1>4 DEF Truncate
<1>5. ASSUME NEW j \in Runs, WritePart(j) PROVE Formatted'
  BY <1>5 DEF WritePart, Parts
<1>6. ASSUME NEW j \in Runs, StampBegin(j) PROVE Formatted'
  BY <1>6 DEF StampBegin
<1>7. ASSUME NEW j \in Runs, StampEnd(j) PROVE Formatted'
  BY <1>7 DEF StampEnd
<1>8. ASSUME NEW j \in Runs, Die(j) PROVE Formatted'
  BY <1>8 DEF Die
<1>9. ASSUME NEW t \in Targets, Stage(t) PROVE Formatted'
  BY <1>9 DEF Stage
<1> QED BY <1>1, <1>2, <1>3, <1>4, <1>5, <1>6, <1>7, <1>8, <1>9 DEF Next

\* For every disk size the arithmetic of make-cache-disk.sh keeps the two
\* GPTs and the file system apart and inside the file.
THEOREM Geometry == Spec => []NoOverlap
<1>1. Init => Formatted
  BY DEF Init, Formatted, Running, After
<1>2. TypeOK /\ Formatted => NoOverlap
  <2> SUFFICES ASSUME TypeOK, Formatted, NEW j \in Runs, pc[j] \in Running \ {"format"}
               PROVE  Fits(asked[j])
    BY DEF NoOverlap
  <2>1. asked[j] \in Nat /\ EspLbas(asked[j]) > 0
    BY SizesAssumption DEF TypeOK, Formatted
  <2> QED BY <2>1, Layout
<1> QED BY <1>1, <1>2, FormattedStep, Typing, PTL DEF Spec

-----------------------------------------------------------------------------
(* One run at a time.                                                      *)

Alone == \A i, j \in Runs : i = j

\* The order of the writes is kept by every step of a lone run.
LEMMA WriteOrderStep ==
    ASSUME Alone PROVE TypeOK /\ WriteOrder /\ [Next]_vars => WriteOrder'
<1> SUFFICES ASSUME TypeOK, WriteOrder, [Next]_vars PROVE WriteOrder'
  OBVIOUS
<1> USE Alone, SizesAssumption, ContentsAssumption
    DEF Alone, TypeOK, WriteOrder, Running, AfterEntries
<1>0. DOMAIN After = Parts \cup {"stamp", "stamping"}
  BY DEF After, Parts
<1>1. CASE UNCHANGED vars
  BY <1>1 DEF vars
<1>2. ASSUME NEW j \in Runs, Start(j) PROVE WriteOrder'
  BY <1>0, <1>2 DEF Start, HasCachePartition, Parts
<1>3. ASSUME NEW j \in Runs, Format(j) PROVE WriteOrder'
  BY <1>0, <1>3 DEF Format, Parts
<1>4. ASSUME NEW j \in Runs, Truncate(j) PROVE WriteOrder'
  BY <1>0, <1>4 DEF Truncate, Moved, Parts, Rank
<1>5. ASSUME NEW j \in Runs, WritePart(j) PROVE WriteOrder'
  <2>1. [by |-> j, size |-> asked[j]] \in Tags
    BY <1>0, <1>5 DEF WritePart, Tags
  <2>2. CASE pc[j] = "mbr"
    BY <1>0, <1>5, <2>1, <2>2 DEF WritePart, Parts, Rank, After
  <2>3. CASE pc[j] = "hdr"
    BY <1>0, <1>5, <2>1, <2>3 DEF WritePart, Parts, Rank, After
  <2>4. CASE pc[j] = "pte"
    BY <1>0, <1>5, <2>1, <2>4 DEF WritePart, Parts, Rank, After
  <2>5. CASE pc[j] = "pte2"
    BY <1>0, <1>5, <2>1, <2>5 DEF WritePart, Parts, Rank, After
  <2>6. CASE pc[j] = "hdr2"
    BY <1>0, <1>5, <2>1, <2>6 DEF WritePart, Parts, Rank, After
  <2> QED BY <1>5, <2>2, <2>3, <2>4, <2>5, <2>6 DEF WritePart, Parts
<1>6. ASSUME NEW j \in Runs, StampBegin(j) PROVE WriteOrder'
  BY <1>0, <1>6 DEF StampBegin, Parts, Rank, After
<1>7. ASSUME NEW j \in Runs, StampEnd(j) PROVE WriteOrder'
  BY <1>0, <1>7 DEF StampEnd, Parts, Rank, After
<1>8. ASSUME NEW j \in Runs, Die(j) PROVE WriteOrder'
  BY <1>0, <1>8 DEF Die, Parts
<1>9. ASSUME NEW t \in Targets, Stage(t) PROVE WriteOrder'
  BY <1>0, <1>9 DEF Stage
<1> QED BY <1>1, <1>2, <1>3, <1>4, <1>5, <1>6, <1>7, <1>8, <1>9 DEF Next

\* It holds at first: nothing on the disk is the script's.
LEMMA WriteOrderInit == Init => WriteOrder
  BY ContentsAssumption DEF Init, WriteOrder, Filled, Running, AfterEntries, After, Parts

\* With one run at a time the writes of the script keep the order that protects
\* a disk in use, wherever a run dies.
THEOREM Ordered == ASSUME Alone PROVE Spec => []WriteOrder
  BY WriteOrderInit, WriteOrderStep, Typing, PTL DEF Spec

\* A lone run that writes works on a disk that is not complete, and on which
\* nothing is staged.
LEMMA SurvivalStep ==
    ASSUME Alone
    PROVE  TypeOK /\ WriteOrder /\ [Next]_vars =>
               ((Whole => Whole') /\ staged \subseteq staged') \/ UNCHANGED vars
<1> SUFFICES ASSUME TypeOK, WriteOrder, [Next]_vars
             PROVE  ((Whole => Whole') /\ staged \subseteq staged') \/ UNCHANGED vars
  OBVIOUS
<1>1. ASSUME NEW j \in Runs, pc[j] \in Running PROVE ~Whole /\ staged = {}
  BY <1>1 DEF WriteOrder, Whole, Filled, Parts
<1>2. CASE UNCHANGED <<size, disk>>
  <2>1. Whole => Whole'
    BY <1>2 DEF Whole
  <2>2. staged \subseteq staged'
    BY <1>1 DEF Next, Start, Format, Truncate, WritePart, StampBegin, StampEnd, Die,
                Stage, vars, Running, After
  <2> QED BY <2>1, <2>2
<1>3. CASE ~UNCHANGED <<size, disk>>
  <2>1. PICK j \in Runs : Truncate(j) \/ WritePart(j) \/ StampBegin(j) \/ StampEnd(j)
    BY <1>3 DEF Next, Start, Format, Die, Stage, vars
  <2>2. pc[j] \in Running
    BY <2>1 DEF Truncate, WritePart, StampBegin, StampEnd, Running, After, Parts
  <2> QED BY <1>1, <2>2
<1> QED BY <1>2, <1>3

\* With one run of make-cache-disk.sh at a time, whatever its argument and
\* wherever it is killed, a run never spoils a disk that is complete and never
\* costs a staged target.
THEOREM Survival == ASSUME Alone PROVE Spec => CacheSurvives
<1>1. TypeOK /\ WriteOrder /\ [Next]_vars =>
      [(Whole => Whole') /\ staged \subseteq staged']_vars
  BY SurvivalStep
<1> QED BY <1>1, WriteOrderInit, WriteOrderStep, Typing, PTL DEF Spec, CacheSurvives

-----------------------------------------------------------------------------
(* Deaths before the partition entries.                                    *)

\* What a lone run leaves behind when none has died after it wrote the name
\* the check looks for: a disk that bears the name is complete, or the run
\* that will complete it is still at work.
Named == cut \/
    /\ disk["pte"] \in Tags => Whole \/ \E j \in Runs : pc[j] \in AfterEntries
    /\ ReadyMeansWhole

\* Every step keeps it.
LEMMA NamedStep ==
    ASSUME Alone
    PROVE  TypeOK /\ WriteOrder /\ Named /\ [Next]_vars => Named'
<1> SUFFICES ASSUME TypeOK, WriteOrder, Named, [Next]_vars PROVE Named'
  OBVIOUS
<1>0. ASSUME NEW j \in Runs PROVE \A i \in Runs : i = j
  BY Alone DEF Alone
<1>b. cut => cut'
  BY DEF Next, Start, Format, Truncate, WritePart, StampBegin, StampEnd, Die, Stage, vars
<1>a. CASE UNCHANGED <<size, disk>> /\ UNCHANGED pc
  BY <1>a, <1>b DEF Named, ReadyMeansWhole, Whole, AfterEntries
<1>1. CASE UNCHANGED vars
  BY <1>1, <1>a DEF vars
<1>2. ASSUME NEW j \in Runs, Start(j) PROVE Named'
  <2>1. Whole' <=> Whole
    BY <1>2 DEF Start, Whole
  <2>2. pc[j] \notin AfterEntries /\ disk' = disk
    BY <1>2 DEF Start, Running, AfterEntries, After
  <2>3. pc'[j] = "ok" => cut \/ Whole
    BY <1>0, <1>2, <2>2 DEF Start, HasCachePartition, Named, TypeOK
  <2> QED BY <1>0, <1>b, <2>1, <2>2, <2>3 DEF Named, ReadyMeansWhole
<1>3. ASSUME NEW j \in Runs, Format(j) PROVE Named'
  <2>1. disk["pte"] \notin Tags /\ disk' = disk /\ pc'[j] # "ok"
    BY <1>3 DEF Format, WriteOrder, Running, AfterEntries, TypeOK
  <2> QED BY <1>0, <2>1 DEF Named, ReadyMeansWhole
<1>4. ASSUME NEW j \in Runs, Truncate(j) PROVE Named'
  <2>1. disk'["pte"] \notin Tags /\ pc'[j] # "ok"
    BY <1>4 DEF Truncate, Moved, WriteOrder, Running, AfterEntries, TypeOK, Parts
  <2> QED BY <1>0, <2>1 DEF Named, ReadyMeansWhole
<1>5. ASSUME NEW j \in Runs, WritePart(j) PROVE Named'
  <2>1. pc'[j] # "ok" /\ (pc'[j] \in AfterEntries \/ pc[j] \in {"mbr", "hdr"})
    BY <1>5 DEF WritePart, Parts, After, AfterEntries, TypeOK
  <2>2. pc[j] \in {"mbr", "hdr"} => disk'["pte"] \notin Tags
    BY <1>5 DEF WritePart, WriteOrder, Running, AfterEntries, TypeOK, Parts, After
  <2> QED BY <1>0, <2>1, <2>2 DEF Named, ReadyMeansWhole
<1>6. ASSUME NEW j \in Runs, StampBegin(j) PROVE Named'
  <2>1. pc'[j] = "stamping"
    BY <1>6 DEF StampBegin, After, TypeOK
  <2> QED BY <1>0, <2>1 DEF Named, ReadyMeansWhole, AfterEntries
<1>7. ASSUME NEW j \in Runs, StampEnd(j) PROVE Named'
  <2> DEFINE t == [by |-> j, size |-> asked[j]]
  <2>1. t \in Tags /\ t.size = asked[j]
    BY <1>7 DEF StampEnd, TypeOK, Tags, Running, After
  <2>2. size' = t.size /\ \A part \in Parts : disk[part] = t
    BY <1>7, <2>1 DEF StampEnd, WriteOrder, After, Rank, Parts
  <2>3. disk' = Filled(t)
    BY <1>7, <2>2 DEF StampEnd, Filled, TypeOK, Parts
  <2> QED BY <2>1, <2>2, <2>3 DEF Named, ReadyMeansWhole, Whole
<1>8. ASSUME NEW j \in Runs, Die(j) PROVE Named'
  <2>1. CASE pc[j] \in AfterEntries
    BY <1>8, <2>1 DEF Die, Named
  <2>2. CASE pc[j] \notin AfterEntries
    <3>1. disk["pte"] \notin Tags /\ disk' = disk /\ pc'[j] # "ok"
      BY <1>8, <2>2 DEF Die, WriteOrder, TypeOK
    <3> QED BY <1>0, <3>1 DEF Named, ReadyMeansWhole
  <2> QED BY <2>1, <2>2
<1>9. ASSUME NEW t \in Targets, Stage(t) PROVE Named'
  BY <1>9, <1>a DEF Stage
<1> QED BY <1>1, <1>2, <1>3, <1>4, <1>5, <1>6, <1>7, <1>8, <1>9 DEF Next

\* With one run of make-cache-disk.sh at a time, whenever a run reports success
\* the disk is complete, unless one has died after it wrote the partition
\* entries: a retry repairs what was left before that.
THEOREM Retry == ASSUME Alone PROVE Spec => []ReadyUnlessCut
<1>1. Init => Named
  BY ContentsAssumption DEF Init, Named, ReadyMeansWhole, Filled, Parts
<1>2. Named => ReadyUnlessCut
  BY DEF Named, ReadyUnlessCut
<1> QED BY <1>1, <1>2, NamedStep, WriteOrderInit, WriteOrderStep, Typing, PTL DEF Spec

-----------------------------------------------------------------------------
(***************************************************************************)
(* What reset-cloud-boot.sh announces comes true where it edits the NVRAM  *)
(* by itself, and the boot entry never names a target that is not on the   *)
(* disk, for any entries, targets, sizes and numbers.                      *)
(***************************************************************************)

\* From the removal of BootOrder to the reboot there is no BootOrder.
OrderGone ==
    /\ at = "efibootmgr" => tool
    /\ at \in {"rm entry", "rm order"} => ~said
    /\ ~tool /\ (said \/ at = "say") => order = <<>>

\* Without an order the firmware takes the default loader.
LEMMA NoOrder == order = <<>> => NextBoot = "menu"
  BY DEF NextBoot, First, Bootable

\* Nothing writes BootOrder between its removal and the reboot.
LEMMA OrderGoneStep == OrderGone /\ [BootNext]_bootVars => OrderGone'
<1> SUFFICES ASSUME OrderGone, [BootNext]_bootVars PROVE OrderGone'
  OBVIOUS
<1>1. CASE UNCHANGED bootVars
  BY <1>1 DEF bootVars, OrderGone
<1>2. ASSUME NEW t \in Targets, Redirect(t) PROVE OrderGone'
  BY <1>2 DEF Redirect, OrderGone
<1>3. CASE Reboot \/ Wipe
  BY <1>3 DEF Reboot, Wipe, OrderGone
<1>4. ASSUME NEW n \in Others, Install(n) PROVE OrderGone'
  BY <1>4 DEF Install, OrderGone
<1>5. ASSUME NEW n \in BootNums, NEW has \in Tools, StartReset(n, has) PROVE OrderGone'
  BY <1>5 DEF StartReset, OrderGone
<1>6. CASE UseEfibootmgr
  BY <1>6 DEF UseEfibootmgr, OrderGone
<1>7. CASE RemoveEntry
  BY <1>7 DEF RemoveEntry, OrderGone
<1>8. CASE RemoveOrder
  BY <1>8 DEF RemoveOrder, Cleared, OrderGone
<1>9. CASE Say
  BY <1>9 DEF Say, OrderGone
<1>10. CASE Stop
  BY <1>10 DEF Stop, OrderGone
<1> QED BY <1>1, <1>2, <1>3, <1>4, <1>5, <1>6, <1>7, <1>8, <1>9, <1>10 DEF BootNext

\* Both scripts are what the modules of the chain say, one step at a time.
LEMMA Chained == [ChainNext]_<<vars, bootVars>> => [Next]_vars /\ [BootNext]_bootVars
  BY DEF ChainNext, DiskNext

\* Without efibootmgr the script's last message is true: whatever boot entries
\* there are, whoever wrote them and whichever runs of the script stopped
\* before, the next boot is the default loader of the boot media.
THEOREM Announced == ChainSpec => []AnnouncedBoot
<1>1. ChainInit => OrderGone
  BY DEF ChainInit, BootInit, OrderGone
<1>2. OrderGone => AnnouncedBoot
  BY NoOrder DEF OrderGone, AnnouncedBoot
<1>3. OrderGone /\ [ChainNext]_<<vars, bootVars>> => OrderGone'
  BY Chained, OrderGoneStep
<1> QED BY <1>1, <1>2, <1>3, PTL DEF ChainSpec

-----------------------------------------------------------------------------
(* BootOrder: what it names, and how often.                                *)

OrderOnce == order \in Seq(Numbers) /\ OnlyOnce

\* One more element at the front, or at the end, of a sequence.
LEMMA Longer ==
    ASSUME NEW S, NEW a \in S, NEW s \in Seq(S)
    PROVE  /\ \A t \in {<<a>> \o s, Append(s, a)} : t \in Seq(S) /\ DOMAIN t = 1..Len(s) + 1
           /\ DOMAIN s = 1..Len(s) /\ Len(s) \in Nat
           /\ (<<a>> \o s)[1] = a /\ \A i \in DOMAIN s : (<<a>> \o s)[i + 1] = s[i]
           /\ Append(s, a)[Len(s) + 1] = a /\ \A i \in DOMAIN s : Append(s, a)[i] = s[i]
  OBVIOUS

\* What is in the longer sequence and is not the new element was there before.
LEMMA WasThere ==
    ASSUME NEW S, NEW a \in S, NEW s \in Seq(S), NEW n, n # a,
           NEW t \in {<<a>> \o s, Append(s, a)}, \E i \in DOMAIN t : t[i] = n
    PROVE  \E i \in DOMAIN s : s[i] = n
<1>1. PICK i \in DOMAIN t : t[i] = n
  OBVIOUS
<1>2. DOMAIN t = 1..Len(s) + 1 /\ DOMAIN s = 1..Len(s) /\ Len(s) \in Nat
  BY Longer
<1>3. CASE t = <<a>> \o s
  <2>1. i # 1 /\ i - 1 \in DOMAIN s
    BY <1>1, <1>2, <1>3, Longer
  <2>2. s[i - 1] = n
    BY <1>1, <1>3, <2>1, Longer
  <2> QED BY <2>1, <2>2
<1>4. CASE t = Append(s, a)
  <2>1. i \in DOMAIN s
    BY <1>1, <1>2, <1>4, Longer
  <2> QED BY <1>1, <1>4, <2>1, Longer
<1> QED BY <1>3, <1>4

\* Without(n) is BootOrder without n: nothing comes in, and nothing twice.
LEMMA WithoutFacts ==
    ASSUME OrderOnce, NEW n
    PROVE  /\ Without(n) \in Seq(Numbers)
           /\ \A i \in DOMAIN Without(n) : Without(n)[i] # n
           /\ \A i \in DOMAIN Without(n) : \E k \in DOMAIN order : order[k] = Without(n)[i]
           /\ \A i, k \in DOMAIN Without(n) : Without(n)[i] = Without(n)[k] => i = k
<1>1. CASE Places(n) = {}
  BY <1>1 DEF OrderOnce, OnlyOnce, Without, Places
<1>2. CASE Places(n) # {}
  <2> DEFINE p == CHOOSE i \in Places(n) : TRUE
             W == Without(n)
             at0 == Len(order)
  <2>1. p \in 1..at0 /\ order[p] = n /\ at0 \in Nat
    BY <1>2 DEF Places, OrderOnce
  <2>2. W = SubSeq(order, 1, p - 1) \o SubSeq(order, p + 1, at0)
    BY <1>2 DEF Without
  <2> HIDE DEF W, p
  <2>c. \A i \in 1..at0 : order[i] \in Numbers
    BY DEF OrderOnce
  <2> DEFINE A == SubSeq(order, 1, p - 1)
             B == SubSeq(order, p + 1, at0)
  <2>a. /\ A \in Seq(Numbers) /\ Len(A) = p - 1
        /\ \A i \in 1..p - 1 : A[i] = order[i]
    <3>1. p - 1 \in Int /\ \A i \in 1..p - 1 : order[i] \in Numbers
      BY <2>1, <2>c
    <3>2. /\ A \in Seq(Numbers) /\ Len(A) = IF 1 <= p - 1 THEN p - 1 - 1 + 1 ELSE 0
          /\ \A i \in 1..p - 1 - 1 + 1 : A[i] = order[1 + i - 1]
      BY <3>1, SubSeqProperties
    <3> HIDE DEF A
    <3> QED BY <2>1, <3>2
  <2>b. /\ B \in Seq(Numbers) /\ Len(B) = at0 - p
        /\ \A i \in 1..at0 - p : B[i] = order[p + i]
    <3>1. p + 1 \in Int /\ at0 \in Int /\ \A i \in p + 1..at0 : order[i] \in Numbers
      BY <2>1, <2>c
    <3>2. /\ B \in Seq(Numbers) /\ Len(B) = IF p + 1 <= at0 THEN at0 - (p + 1) + 1 ELSE 0
          /\ \A i \in 1..at0 - (p + 1) + 1 : B[i] = order[p + 1 + i - 1]
      BY <3>1, SubSeqProperties
    <3> HIDE DEF B
    <3> QED BY <2>1, <3>2
  <2> HIDE DEF A, B
  <2>d. W = A \o B
    BY <2>2 DEF A, B
  <2>3. W \in Seq(Numbers) /\ Len(W) = at0 - 1
    BY <2>1, <2>a, <2>b, <2>d, ConcatProperties
  <2>4. \A i \in 1..at0 - 1 : W[i] = order[IF i < p THEN i ELSE i + 1]
    <3>1. \A i \in 1..Len(A) + Len(B) : W[i] = IF i <= Len(A) THEN A[i] ELSE B[i - Len(A)]
      <4>1. \A i \in 1..Len(A) + Len(B) :
                (A \o B)[i] = IF i <= Len(A) THEN A[i] ELSE B[i - Len(A)]
        BY <2>a, <2>b, ConcatProperties
      <4> QED BY <2>d, <4>1
    <3> TAKE i \in 1..at0 - 1
    <3>2. CASE i < p
      <4>1. i \in 1..p - 1 /\ i \in 1..Len(A) + Len(B) /\ i <= Len(A)
        BY <2>1, <2>a, <2>b, <3>2
      <4>2. W[i] = A[i] /\ A[i] = order[i]
        BY <2>a, <3>1, <4>1
      <4> QED BY <3>2, <4>2
    <3>3. CASE i >= p
      <4>1. i - Len(A) \in 1..at0 - p /\ p + (i - Len(A)) = i + 1
        BY <2>1, <2>a, <3>3
      <4> QED BY <2>1, <2>a, <2>b, <3>1, <3>3, <4>1
    <3> QED BY <2>1, <3>2, <3>3
  <2>5. DOMAIN W = 1..at0 - 1 /\ DOMAIN order = 1..at0
    BY <2>1, <2>3 DEF OrderOnce
  <2>6. \A i \in DOMAIN W : W[i] # n
    BY <2>1, <2>4, <2>5 DEF OrderOnce, OnlyOnce
  <2>7. \A i \in DOMAIN W : \E k \in DOMAIN order : order[k] = W[i]
    BY <2>1, <2>4, <2>5
  <2>8. \A i, k \in DOMAIN W : W[i] = W[k] => i = k
    BY <2>1, <2>4, <2>5 DEF OrderOnce, OnlyOnce
  <2> QED BY <2>3, <2>6, <2>7, <2>8 DEF W
<1> QED BY <1>1, <1>2

\* Who puts a number into BootOrder takes it out first.
LEMMA OrderOnceStep == OrderOnce /\ [BootNext]_bootVars => OrderOnce'
<1> SUFFICES ASSUME OrderOnce, [BootNext]_bootVars PROVE OrderOnce'
  OBVIOUS
<1>1. CASE UNCHANGED order
  BY <1>1 DEF OrderOnce, OnlyOnce
<1>2. ASSUME NEW t \in Targets, Redirect(t) PROVE OrderOnce'
  <2> DEFINE W == Without(Own)
  <2>1. order' = <<Own>> \o W /\ Own \in Numbers
    BY <1>2 DEF Redirect, Numbers
  <2>2. /\ W \in Seq(Numbers)
        /\ \A i \in DOMAIN W : W[i] # Own
        /\ \A i, k \in DOMAIN W : W[i] = W[k] => i = k
    BY WithoutFacts
  <2> HIDE DEF W
  <2>3. /\ order' \in Seq(Numbers)
        /\ DOMAIN order' = 1..Len(W) + 1 /\ DOMAIN W = 1..Len(W) /\ Len(W) \in Nat
        /\ order'[1] = Own /\ \A i \in DOMAIN W : order'[i + 1] = W[i]
    BY <2>1, <2>2, Longer
  <2>4. \A i \in 2..Len(W) + 1 : i - 1 \in DOMAIN W /\ order'[i] = W[i - 1]
    BY <2>3
  <2>5. ASSUME NEW i \in 1..Len(W) + 1, NEW k \in 1..Len(W) + 1, order'[i] = order'[k]
        PROVE  i = k
    <3>1. CASE i = 1 /\ k \in 2..Len(W) + 1
      BY <2>2, <2>3, <2>4, <2>5, <3>1
    <3>2. CASE k = 1 /\ i \in 2..Len(W) + 1
      BY <2>2, <2>3, <2>4, <2>5, <3>2
    <3>3. CASE i \in 2..Len(W) + 1 /\ k \in 2..Len(W) + 1
      <4>1. i - 1 = k - 1
        BY <2>2, <2>4, <2>5, <3>3
      <4> QED BY <2>3, <4>1
    <3> QED BY <2>3, <3>1, <3>2, <3>3
  <2> QED BY <2>3, <2>5 DEF OrderOnce, OnlyOnce
<1>3. ASSUME NEW n \in Others, Install(n) PROVE OrderOnce'
  <2> DEFINE W == Without(n)
  <2>1. order' = Append(W, n) /\ n \in Numbers
    BY <1>3 DEF Install, Numbers
  <2>2. /\ W \in Seq(Numbers)
        /\ \A i \in DOMAIN W : W[i] # n
        /\ \A i, k \in DOMAIN W : W[i] = W[k] => i = k
    BY WithoutFacts
  <2> HIDE DEF W
  <2>3. /\ order' \in Seq(Numbers)
        /\ DOMAIN order' = 1..Len(W) + 1 /\ DOMAIN W = 1..Len(W) /\ Len(W) \in Nat
        /\ order'[Len(W) + 1] = n /\ \A i \in DOMAIN W : order'[i] = W[i]
    BY <2>1, <2>2, Longer
  <2> QED BY <2>2, <2>3 DEF OrderOnce, OnlyOnce
<1>4. ASSUME Efibootmgr PROVE OrderOnce'
  BY <1>4, WithoutFacts DEF Efibootmgr, OrderOnce, OnlyOnce
<1>5. CASE order' = <<>>
  BY <1>5 DEF OrderOnce, OnlyOnce
<1> QED
  BY <1>1, <1>2, <1>3, <1>4, <1>5
     DEF BootNext, bootVars, Reboot, Wipe, StartReset, UseEfibootmgr, RemoveEntry,
         RemoveOrder, Cleared, Say, Stop

\* A step that removes no entry but the ones it takes out of BootOrder, and puts
\* no number there without an entry, leaves no reference behind.
LEMMA DanglingStep ==
    OrderOnce /\ [BootNext]_bootVars => Dangling' \subseteq Dangling \/ at = "rm entry"
<1> SUFFICES ASSUME OrderOnce, [BootNext]_bootVars, ~RemoveEntry,
                    NEW n \in Numbers,
                    n \notin DOMAIN entries', \E i \in DOMAIN order' : order'[i] = n
             PROVE  n \in Dangling
  BY DEF Dangling, RemoveEntry
<1>1. n \in Numbers \ DOMAIN entries' /\ \E i \in DOMAIN order' : order'[i] = n
  OBVIOUS
<1>2. CASE UNCHANGED <<entries, order>>
  BY <1>1, <1>2 DEF Dangling
<1>3. ASSUME NEW t \in Targets, Redirect(t) PROVE n \in Dangling
  <2> DEFINE W == Without(Own)
  <2>1. order' = <<Own>> \o W /\ Own \in Numbers /\ n # Own /\ n \notin DOMAIN entries
    BY <1>1, <1>3 DEF Redirect, Numbers
  <2>2. W \in Seq(Numbers)
    BY WithoutFacts
  <2>a. \A i \in DOMAIN W : \E k \in DOMAIN order : order[k] = W[i]
    BY WithoutFacts
  <2> HIDE DEF W
  <2>3. \E i \in DOMAIN W : W[i] = n
    BY <1>1, <2>1, <2>2, WasThere
  <2> QED BY <1>1, <2>1, <2>a, <2>3 DEF Dangling
<1>4. ASSUME NEW m \in Others, Install(m) PROVE n \in Dangling
  <2> DEFINE W == Without(m)
  <2>1. order' = Append(W, m) /\ m \in Numbers /\ n # m /\ n \notin DOMAIN entries
    BY <1>1, <1>4 DEF Install, Numbers
  <2>2. W \in Seq(Numbers)
    BY WithoutFacts
  <2>a. \A i \in DOMAIN W : \E k \in DOMAIN order : order[k] = W[i]
    BY WithoutFacts
  <2> HIDE DEF W
  <2>3. \E i \in DOMAIN W : W[i] = n
    BY <1>1, <2>1, <2>2, WasThere
  <2> QED BY <1>1, <2>1, <2>a, <2>3 DEF Dangling
<1>5. ASSUME Efibootmgr PROVE n \in Dangling
  <2> DEFINE W == Without(num)
  <2>0. /\ \A i \in DOMAIN W : W[i] # num
        /\ \A i \in DOMAIN W : \E k \in DOMAIN order : order[k] = W[i]
    BY WithoutFacts
  <2>a. order' = W
    BY <1>5 DEF Efibootmgr
  <2> HIDE DEF W
  <2>1. n # num /\ \E k \in DOMAIN order : order[k] = n
    BY <1>1, <2>0, <2>a
  <2>2. n \notin DOMAIN entries
    BY <1>1, <1>5, <2>1 DEF Efibootmgr
  <2> QED BY <1>1, <2>1, <2>2 DEF Dangling
<1>6. CASE order' = <<>>
  BY <1>1, <1>6
<1>7. CASE UseEfibootmgr
  BY <1>2, <1>5, <1>7 DEF UseEfibootmgr
<1>8. CASE UNCHANGED bootVars \/ Reboot \/ Say \/ Stop
  BY <1>2, <1>8 DEF bootVars, Reboot, Say, Stop
<1>9. ASSUME NEW k \in BootNums, NEW has \in Tools, StartReset(k, has) PROVE n \in Dangling
  BY <1>2, <1>9 DEF StartReset
<1>10. CASE Wipe \/ RemoveOrder
  BY <1>6, <1>10 DEF Wipe, RemoveOrder, Cleared
<1> QED BY <1>3, <1>4, <1>7, <1>8, <1>9, <1>10 DEF BootNext

\* Whatever numbers the entries have and whoever writes them: BootOrder comes to
\* name a missing entry only between the two removals of the script without
\* efibootmgr.
THEOREM Halfway == ChainSpec => DanglesOnlyHalfway
<1>1. ChainInit => OrderOnce
  <2> SUFFICES ASSUME ChainInit PROVE OrderOnce
    OBVIOUS
  <2>1. PICK had \in SUBSET Others, k \in 0..2 : order \in [1..k -> had]
    BY DEF ChainInit, BootInit
  <2>2. order \in Seq(Numbers)
    BY <2>1 DEF Numbers
  <2> QED BY <2>2 DEF ChainInit, BootInit, OrderOnce
<1>2. OrderOnce /\ [ChainNext]_<<vars, bootVars>> => OrderOnce'
  BY Chained, OrderOnceStep
<1>3. OrderOnce /\ [ChainNext]_<<vars, bootVars>>
          => [Dangling' \subseteq Dangling \/ at = "rm entry"]_bootVars
  BY Chained, DanglingStep
<1> QED BY <1>1, <1>2, <1>3, PTL DEF ChainSpec, DanglesOnlyHalfway

-----------------------------------------------------------------------------
(* The boot entry and the disk.                                            *)

\* A disk with a complete file system is complete.
Stamped == disk["esp"] \in Tags \/ staged # {} => Whole

\* With one run at a time no write disturbs a complete file system, and dd is
\* the last write of a run.
LEMMA StampedStep ==
    ASSUME Alone PROVE TypeOK /\ WriteOrder /\ Stamped /\ [Next]_vars => Stamped'
<1> SUFFICES ASSUME TypeOK, WriteOrder, Stamped, [Next]_vars PROVE Stamped'
  OBVIOUS
<1>0. staged # {} => disk["esp"] \in Tags
  BY DEF WriteOrder
<1>1. CASE UNCHANGED <<size, disk, staged>>
  BY <1>1 DEF Stamped, Whole
<1>2. ASSUME NEW j \in Runs, Start(j) \/ Format(j) \/ Die(j) PROVE Stamped'
  BY <1>1, <1>2 DEF Start, Format, Die
<1>3. ASSUME NEW j \in Runs, Truncate(j) PROVE Stamped'
  <2>1. disk["esp"] \notin Tags /\ staged = {}
    BY <1>0, <1>3 DEF Truncate, WriteOrder, Running, AfterEntries
  <2>2. disk'["esp"] \notin Tags /\ staged' = {}
    BY <1>3, <2>1 DEF Truncate, Moved, TypeOK
  <2> QED BY <2>2 DEF Stamped
<1>4. ASSUME NEW j \in Runs, WritePart(j) PROVE Stamped'
  <2>1. pc[j] \in Parts /\ pc[j] \in Running /\ pc[j] # "esp"
    BY <1>4 DEF WritePart, Running, After, Parts
  <2>2. disk["esp"] \notin Tags /\ staged = {}
    BY <1>0, <2>1 DEF WriteOrder
  <2>3. disk'["esp"] \notin Tags /\ staged' = {}
    BY <1>4, <2>1, <2>2 DEF WritePart, TypeOK
  <2> QED BY <2>3 DEF Stamped
<1>5. ASSUME NEW j \in Runs, StampBegin(j) PROVE Stamped'
  BY <1>5, ContentsAssumption DEF StampBegin, Stamped, TypeOK
<1>6. ASSUME NEW j \in Runs, StampEnd(j) PROVE Stamped'
  <2> DEFINE t == [by |-> j, size |-> asked[j]]
  <2>1. t \in Tags /\ t.size = asked[j]
    BY <1>6 DEF StampEnd, TypeOK, Tags, Running, After
  <2>2. size' = t.size /\ \A part \in Parts : disk[part] = t
    BY <1>6, <2>1 DEF StampEnd, WriteOrder, After, Rank, Parts
  <2>3. disk' = Filled(t)
    BY <1>6, <2>2 DEF StampEnd, Filled, TypeOK, Parts
  <2> QED BY <2>1, <2>2, <2>3 DEF Stamped, Whole
<1>7. ASSUME NEW t \in Targets, Stage(t) PROVE Stamped'
  BY <1>7 DEF Stage, Stamped, Whole
<1>8. CASE UNCHANGED vars
  BY <1>1, <1>8 DEF vars
<1> QED BY <1>2, <1>3, <1>4, <1>5, <1>6, <1>7, <1>8 DEF Next

\* Every target in a boot entry is staged.
EntriesStaged == \A n \in DOMAIN entries : entries[n] \in Targets => entries[n] \in staged

\* The menu writes an entry for what it has staged, and what is staged stays.
LEMMA EntriesStep ==
    ASSUME EntriesStaged, [BootNext]_bootVars, staged \subseteq staged'
    PROVE  EntriesStaged'
<1> USE DEF EntriesStaged
<1>1. CASE UNCHANGED bootVars
  BY <1>1 DEF bootVars
<1>2. ASSUME NEW t \in Targets, Redirect(t) PROVE EntriesStaged'
  BY <1>2 DEF Redirect
<1>3. CASE Reboot \/ Wipe
  BY <1>3 DEF Reboot, Wipe
<1>4. ASSUME NEW n \in Others, Install(n) PROVE EntriesStaged'
  BY <1>4, TargetsAssumption DEF Install
<1>5. ASSUME NEW n \in BootNums, NEW has \in Tools, StartReset(n, has) PROVE EntriesStaged'
  BY <1>5 DEF StartReset
<1>6. CASE UseEfibootmgr
  BY <1>6 DEF UseEfibootmgr, Efibootmgr
<1>7. CASE RemoveEntry
  BY <1>7 DEF RemoveEntry
<1>8. CASE RemoveOrder \/ Say \/ Stop
  BY <1>8 DEF RemoveOrder, Say, Stop
<1> QED BY <1>1, <1>2, <1>3, <1>4, <1>5, <1>6, <1>7, <1>8 DEF BootNext

\* With one run of make-cache-disk.sh at a time, what the firmware boots next
\* is the menu, another program's entry, or a target on a complete disk.
THEOREM BootsStaged == ASSUME Alone PROVE ChainSpec => []NextBootStaged
<1> DEFINE Held == TypeOK /\ WriteOrder /\ Stamped /\ EntriesStaged
<1>1. ChainInit => Held
  <2> SUFFICES ASSUME ChainInit PROVE Held
    OBVIOUS
  <2>1. TypeOK /\ WriteOrder
    BY TypeInit, WriteOrderInit DEF ChainInit
  <2>2. Stamped
    BY ContentsAssumption DEF ChainInit, Init, Stamped, Filled
  <2>3. EntriesStaged
    BY TargetsAssumption DEF ChainInit, BootInit, EntriesStaged
  <2> QED BY <2>1, <2>2, <2>3
<1>2. Held /\ [ChainNext]_<<vars, bootVars>> => Held'
  <2> SUFFICES ASSUME Held, [ChainNext]_<<vars, bootVars>> PROVE Held'
    OBVIOUS
  <2>1. [Next]_vars /\ [BootNext]_bootVars
    BY Chained
  <2>2. TypeOK' /\ WriteOrder' /\ Stamped' /\ staged \subseteq staged'
    BY <2>1, TypeStep, WriteOrderStep, StampedStep, SurvivalStep DEF vars
  <2> QED BY <2>1, <2>2, EntriesStep
<1>3. Held => NextBootStaged
  <2> SUFFICES ASSUME Held, NextBoot \in Targets PROVE NextBoot \in staged /\ Whole
    BY DEF NextBootStaged
  <2>1. First # {}
    BY TargetsAssumption DEF NextBoot
  <2> DEFINE i == CHOOSE i \in First : TRUE
  <2>2. i \in First /\ NextBoot = entries[order[i]]
    BY <2>1 DEF NextBoot
  <2>3. order[i] \in DOMAIN entries
    BY <2>2 DEF First, Bootable
  <2> QED BY <2>2, <2>3 DEF EntriesStaged, Stamped
<1> QED BY <1>1, <1>2, <1>3, PTL DEF ChainSpec
=============================================================================
