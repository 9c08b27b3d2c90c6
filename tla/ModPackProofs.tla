---------------------------- MODULE ModPackProofs ----------------------------
(***************************************************************************)
(* What push modpack keeps true of its archive, for any directory tree,    *)
(* any changes other programs make to it, and any buffering.               *)
(*                                                                         *)
(* Their order and facts about paths come first; then what a record does   *)
(* to the archive; then the invariants, one action at a time.              *)
(***************************************************************************)
EXTENDS ModPack, SequenceTheorems, WellFoundedInduction, TLAPS

-----------------------------------------------------------------------------
(* The order of texts and paths is strict and total.                       *)

\* A set of natural numbers has a least element.
Less == {x \in Nat \X Nat : x[1] < x[2]}

LEMMA LeastNat ==
    ASSUME NEW T \in SUBSET Nat, T # {}
    PROVE  \E x \in T : \A y \in T : x <= y
<1>1. IsWellFoundedOn(Less, Nat)
  <2>1. Less = OpToRel(<, Nat)
    BY DEF Less, OpToRel
  <2> QED BY <2>1, NatLessThanWellFounded
<1>2. PICK x \in T : \A y \in T : ~(<<y, x>> \in Less)
  BY <1>1, WFMin
<1>3. ASSUME NEW y \in T PROVE x <= y
  <2>1. ~(<<y, x>> \in Less) /\ x \in Nat /\ y \in Nat
    BY <1>2
  <2> QED BY <2>1 DEF Less
<1> QED BY <1>3

\* The numbers of a sequence.
LEMMA Numbers ==
    ASSUME NEW v \in Seq(Nat)
    PROVE  Len(v) \in Nat /\ \A i \in 1 .. Len(v) : v[i] \in Nat
BY LenProperties, ElementOfSeq

\* What is longer comes after what it begins with.
LEMMA Longer ==
    ASSUME NEW v \in Seq(Nat), NEW w \in Seq(Nat), Len(v) < Len(w),
           \A i \in 1 .. Len(v) : v[i] = w[i]
    PROVE  Before(v, w)
<1> DEFINE m == Len(v)
           n == Len(w)
<1>1. m \in Nat /\ n \in Nat /\ m < n
  BY Numbers
<1>2. \A k \in 1 .. m : v[k] = w[k]
  OBVIOUS
<1>3. ASSUME NEW i \in 1 .. n, i = m + 1, \A k \in 1 .. (i - 1) : v[k] = w[k]
      PROVE  Before(v, w)
  BY <1>1, <1>3 DEF Before
<1> HIDE DEF m, n
<1>4. PICK i \in 1 .. n : i = m + 1
  BY <1>1
<1>5. \A k \in 1 .. (i - 1) : v[k] = w[k]
  BY <1>1, <1>2, <1>4
<1> QED BY <1>3, <1>4, <1>5

\* Of two different sequences one comes before the other.
THEOREM Total ==
    ASSUME NEW v \in Seq(Nat), NEW w \in Seq(Nat), v # w
    PROVE  Before(v, w) \/ Before(w, v)
<1> DEFINE m == Len(v)
           n == Len(w)
           D == {i \in Nat : 1 <= i /\ i <= m /\ i <= n /\ v[i] # w[i]}
<1>1. /\ m \in Nat /\ \A i \in 1 .. m : v[i] \in Nat
      /\ n \in Nat /\ \A i \in 1 .. n : w[i] \in Nat
  BY Numbers
<1>2. /\ Before(v, w) <=> \E i \in 1 .. n : /\ i <= m + 1
                                            /\ \A k \in 1 .. (i - 1) : v[k] = w[k]
                                            /\ i <= m => v[i] < w[i]
      /\ Before(w, v) <=> \E i \in 1 .. m : /\ i <= n + 1
                                            /\ \A k \in 1 .. (i - 1) : w[k] = v[k]
                                            /\ i <= n => w[i] < v[i]
  BY DEF Before
<1>3. m = n /\ (\A i \in 1 .. m : v[i] = w[i]) => v = w
  BY SeqEqual
<1> HIDE DEF m, n
<1>4. CASE D # {}
  <2>1. PICK i \in D : \A k \in D : i <= k
    BY <1>4, LeastNat
  <2>2. \A k \in 1 .. (i - 1) : v[k] = w[k]
    BY <1>1, <2>1
  <2>3. v[i] < w[i] \/ w[i] < v[i]
    BY <1>1
  <2> QED BY <1>1, <1>2, <2>2, <2>3
<1>5. CASE D = {}
  <2>1. ASSUME NEW k \in Nat, 1 <= k, k <= m, k <= n PROVE v[k] = w[k]
    BY <1>5, <2>1
  <2>2. CASE m < n
    <3>1. \A i \in 1 .. m : v[i] = w[i]
      BY <1>1, <2>1, <2>2
    <3> QED BY <2>2, <3>1, Longer DEF m, n
  <2>3. CASE n < m
    <3>1. \A i \in 1 .. n : w[i] = v[i]
      BY <1>1, <2>1, <2>3
    <3> QED BY <2>3, <3>1, Longer DEF m, n
  <2>4. CASE m = n
    BY <1>1, <1>3, <2>1, <2>4
  <2> QED BY <1>1, <2>2, <2>3, <2>4
<1> QED BY <1>4, <1>5

\* What comes before something comes before all that comes after it.
THEOREM Transitive ==
    ASSUME NEW v \in Seq(Nat), NEW w \in Seq(Nat), NEW u \in Seq(Nat),
           Before(v, w), Before(w, u)
    PROVE  Before(v, u)
<1> DEFINE l == Len(v)
           m == Len(w)
           n == Len(u)
<1>1. /\ l \in Nat /\ \A i \in 1 .. l : v[i] \in Nat
      /\ m \in Nat /\ \A i \in 1 .. m : w[i] \in Nat
      /\ n \in Nat /\ \A i \in 1 .. n : u[i] \in Nat
  BY Numbers
<1>2. PICK i \in 1 .. m : /\ i <= l + 1
                          /\ \A k \in 1 .. (i - 1) : v[k] = w[k]
                          /\ i <= l => v[i] < w[i]
  BY DEF Before
<1>3. PICK j \in 1 .. n : /\ j <= m + 1
                          /\ \A k \in 1 .. (j - 1) : w[k] = u[k]
                          /\ j <= m => w[j] < u[j]
  BY DEF Before
<1>4. (\E k \in 1 .. n : /\ k <= l + 1
                         /\ \A o \in 1 .. (k - 1) : v[o] = u[o]
                         /\ k <= l => v[k] < u[k]) => Before(v, u)
  BY DEF Before
<1> HIDE DEF l, m, n
<1>5. CASE i < j
  <2>1. i \in 1 .. n /\ \A o \in 1 .. (i - 1) : v[o] = u[o]
    BY <1>1, <1>2, <1>3, <1>5
  <2>2. i <= l => v[i] < u[i]
    BY <1>1, <1>2, <1>3, <1>5
  <2> QED BY <1>2, <1>4, <2>1, <2>2
<1>6. CASE i = j
  <2>1. i \in 1 .. n /\ \A o \in 1 .. (i - 1) : v[o] = u[o]
    BY <1>1, <1>2, <1>3, <1>6
  <2>2. i <= l => v[i] < u[i]
    <3>1. i <= l => v[i] \in Nat /\ w[i] \in Nat /\ u[i] \in Nat /\ v[i] < w[i] /\ w[i] < u[i]
      BY <1>1, <1>2, <1>3, <1>6, <2>1
    <3> QED BY <3>1
  <2> QED BY <1>2, <1>4, <2>1, <2>2
<1>7. CASE j < i
  <2>1. j <= l + 1 /\ \A o \in 1 .. (j - 1) : v[o] = u[o]
    BY <1>1, <1>2, <1>3, <1>7
  <2>2. j <= l => v[j] < u[j]
    BY <1>1, <1>2, <1>3, <1>7
  <2> QED BY <1>3, <1>4, <2>1, <2>2
<1> QED BY <1>1, <1>2, <1>3, <1>5, <1>6, <1>7

-----------------------------------------------------------------------------
(* Paths.                                                                  *)

\* The directory of a path of n > 0 names has n - 1 of them.
LEMMA ParentOf ==
    ASSUME NEW p \in Seq(Nat), p # <<>>
    PROVE  /\ Parent(p) \in Seq(Nat)
           /\ Len(p) \in Nat \ {0} /\ Len(Parent(p)) = Len(p) - 1
           /\ \A i \in 1 .. Len(p) - 1 : Parent(p)[i] = p[i]
<1>1. Len(p) \in Nat \ {0} /\ \A i \in 1 .. Len(p) : p[i] \in Nat
  BY EmptySeq, ElementOfSeq
<1>2. Len(p) - 1 \in Int /\ \A i \in 1 .. Len(p) - 1 : p[i] \in Nat
  BY <1>1
<1>3. /\ SubSeq(p, 1, Len(p) - 1) \in Seq(Nat)
      /\ Len(SubSeq(p, 1, Len(p) - 1)) = IF 1 <= Len(p) - 1 THEN Len(p) - 1 - 1 + 1 ELSE 0
      /\ \A i \in 1 .. Len(p) - 1 - 1 + 1 : SubSeq(p, 1, Len(p) - 1)[i] = p[1 + i - 1]
  BY <1>2, SubSeqProperties
<1>4. ASSUME NEW i \in 1 .. Len(p) - 1 PROVE SubSeq(p, 1, Len(p) - 1)[i] = p[i]
  <2>1. i \in 1 .. Len(p) - 1 - 1 + 1 /\ 1 + i - 1 = i
    BY <1>1
  <2> QED BY <1>3, <2>1
<1>5. Len(SubSeq(p, 1, Len(p) - 1)) = Len(p) - 1
  <2> DEFINE l == Len(SubSeq(p, 1, Len(p) - 1))
             m == Len(p)
  <2>1. l = (IF 1 <= m - 1 THEN m - 1 - 1 + 1 ELSE 0) /\ m \in Nat \ {0}
    BY <1>1, <1>3
  <2> HIDE DEF l, m
  <2>2. l = m - 1
    BY <2>1
  <2> QED BY <2>2 DEF l, m
<1> QED BY <1>1, <1>3, <1>4, <1>5 DEF Parent

\* A name is its path with three names in front.
LEMMA NameOf ==
    ASSUME NEW p \in Seq(Nat)
    PROVE  /\ Name(p) \in Seq(Nat)
           /\ Len(p) \in Nat /\ Len(Name(p)) = Len(p) + 3
           /\ \A i \in 1 .. 3 : Name(p)[i] = 0
           /\ \A i \in 1 .. Len(p) : Name(p)[i + 3] = p[i]
<1>1. RootInCpio \in Seq(Nat) /\ Len(RootInCpio) = 3 /\ \A i \in 1 .. 3 : RootInCpio[i] = 0
  BY DEF RootInCpio
<1>2. /\ RootInCpio \o p \in Seq(Nat)
      /\ Len(RootInCpio \o p) = Len(RootInCpio) + Len(p)
      /\ \A i \in 1 .. Len(RootInCpio) + Len(p) :
            (RootInCpio \o p)[i] = IF i <= Len(RootInCpio) THEN RootInCpio[i]
                                   ELSE p[i - Len(RootInCpio)]
  <2> HIDE DEF RootInCpio
  <2> QED BY <1>1, ConcatProperties
<1>3. Len(p) \in Nat
  BY LenProperties
<1> HIDE DEF RootInCpio
<1>4. \A i \in 1 .. Len(p) : (RootInCpio \o p)[i + 3] = p[i]
  BY <1>1, <1>2, <1>3
<1> QED BY <1>1, <1>2, <1>3, <1>4 DEF Name

\* Two paths have different names.
LEMMA NamesDiffer ==
    ASSUME NEW p \in Seq(Nat), NEW q \in Seq(Nat), Name(p) = Name(q)
    PROVE  p = q
<1>1. Len(p) = Len(q)
  BY NameOf
<1>2. \A i \in 1 .. Len(p) : p[i] = q[i]
  BY <1>1, NameOf
<1> QED BY <1>1, <1>2, SeqEqual

\* The name of a path's directory is the directory of its name.
LEMMA NameOfParent ==
    ASSUME NEW p \in Seq(Nat), p # <<>>
    PROVE  Parent(Name(p)) = Name(Parent(p))
<1> DEFINE n == Name(p)
           d == Parent(p)
           e == Name(Parent(p))
<1>1. /\ n \in Seq(Nat) /\ Len(n) = Len(p) + 3 /\ n # <<>>
      /\ \A i \in 1 .. 3 : n[i] = 0
      /\ \A i \in 1 .. Len(p) : n[i + 3] = p[i]
  BY NameOf, EmptySeq
<1>2. /\ d \in Seq(Nat) /\ Len(p) \in Nat \ {0} /\ Len(d) = Len(p) - 1
      /\ \A i \in 1 .. Len(p) - 1 : d[i] = p[i]
  BY ParentOf
<1>3. /\ e \in Seq(Nat) /\ Len(e) = Len(p) + 2
      /\ \A i \in 1 .. 3 : e[i] = 0
      /\ \A i \in 1 .. Len(p) - 1 : e[i + 3] = d[i]
  <2> HIDE DEF d
  <2>1. /\ Name(d) \in Seq(Nat) /\ Len(Name(d)) = Len(d) + 3
        /\ \A i \in 1 .. 3 : Name(d)[i] = 0
        /\ \A i \in 1 .. Len(d) : Name(d)[i + 3] = d[i]
    BY <1>2, NameOf
  <2> QED BY <1>2, <2>1 DEF d
<1>4. /\ Parent(n) \in Seq(Nat) /\ Len(Parent(n)) = Len(p) + 2
      /\ \A i \in 1 .. Len(p) + 2 : Parent(n)[i] = n[i]
  <2> HIDE DEF n
  <2>1. /\ Parent(n) \in Seq(Nat) /\ Len(Parent(n)) = Len(n) - 1
        /\ \A i \in 1 .. Len(n) - 1 : Parent(n)[i] = n[i]
    BY <1>1, ParentOf
  <2>2. Len(n) - 1 = Len(p) + 2
    BY <1>1, <1>2
  <2> QED BY <2>1, <2>2
<1> HIDE DEF n, d, e
<1>5. ASSUME NEW i \in 1 .. Len(p) + 2 PROVE Parent(n)[i] = e[i]
  <2>1. CASE i \in 1 .. 3
    BY <1>1, <1>3, <1>4, <2>1
  <2>2. CASE i \notin 1 .. 3
    <3>1. i - 3 \in 1 .. Len(p) - 1 /\ i - 3 \in 1 .. Len(p) /\ i = (i - 3) + 3
      BY <1>2, <2>2
    <3>2. n[i] = p[i - 3]
      BY <1>1, <3>1
    <3>3. e[i] = d[i - 3]
      BY <1>3, <3>1
    <3> QED BY <1>2, <1>4, <3>1, <3>2, <3>3
  <2> QED BY <2>1, <2>2
<1>6. Parent(n) = e
  BY <1>3, <1>4, <1>5, SeqEqual
<1> QED BY <1>6 DEF n, e

\* The directory of the root's name is "lib/modules".
LEMMA NameOfRoot == Name(<<>>) = <<0, 0, 0>> /\ Parent(Name(<<>>)) = <<0, 0>>
<1>1. Name(<<>>) = <<0, 0, 0>>
  BY ConcatEmptySeq DEF Name, RootInCpio
<1>2. ASSUME NEW n \in Seq(Nat), Len(n) = 3, n[1] = 0, n[2] = 0
      PROVE  Parent(n) = <<0, 0>>
  <2>1. /\ Parent(n) \in Seq(Nat) /\ Len(Parent(n)) = 2
        /\ \A i \in 1 .. 2 : Parent(n)[i] = n[i]
    <3>0. Len(<<>>) # 3
      BY EmptySeq
    <3>1. n # <<>>
      BY <1>2, <3>0, Zenon
    <3>2. /\ Parent(n) \in Seq(Nat) /\ Len(Parent(n)) = Len(n) - 1
          /\ \A i \in 1 .. Len(n) - 1 : Parent(n)[i] = n[i]
      BY <3>1, ParentOf
    <3> QED BY <1>2, <3>2
  <2>2. <<0, 0>> \in Seq(Nat) /\ Len(<<0, 0>>) = 2
    OBVIOUS
  <2>3. \A i \in 1 .. 2 : Parent(n)[i] = <<0, 0>>[i]
    BY <1>2, <2>1
  <2> QED BY <2>1, <2>2, <2>3, SeqEqual
<1>3. <<0, 0, 0>> \in Seq(Nat) /\ Len(<<0, 0, 0>>) = 3 /\ <<0, 0, 0>>[1] = 0 /\ <<0, 0, 0>>[2] = 0
  OBVIOUS
<1> QED BY <1>1, <1>2, <1>3

\* The first k names of a path.
LEMMA Prefix ==
    ASSUME NEW p \in Seq(Nat), NEW k \in 0 .. Len(p)
    PROVE  /\ SubSeq(p, 1, k) \in Seq(Nat)
           /\ Len(SubSeq(p, 1, k)) = k
           /\ \A i \in 1 .. k : SubSeq(p, 1, k)[i] = p[i]
<1>1. Len(p) \in Nat /\ \A i \in 1 .. Len(p) : p[i] \in Nat
  BY LenProperties, ElementOfSeq
<1>2. k \in Int /\ \A i \in 1 .. k : p[i] \in Nat
  BY <1>1
<1> DEFINE s == SubSeq(p, 1, k)
           l == Len(s)
<1>3. /\ s \in Seq(Nat)
      /\ l = IF 1 <= k THEN k - 1 + 1 ELSE 0
      /\ \A i \in 1 .. k - 1 + 1 : s[i] = p[1 + i - 1]
  BY <1>2, SubSeqProperties
<1>4. ASSUME NEW i \in 1 .. k PROVE s[i] = p[i]
  <2>1. i \in 1 .. k - 1 + 1 /\ 1 + i - 1 = i
    BY <1>2
  <2> QED BY <1>3, <2>1
<1> HIDE DEF l
<1>5. l = k
  BY <1>1, <1>3
<1> QED BY <1>3, <1>4, <1>5 DEF l

\* Prefixes of prefixes are prefixes.
LEMMA PrefixOfPrefix ==
    ASSUME NEW p \in Seq(Nat), NEW l \in 0 .. Len(p), NEW k \in 0 .. l
    PROVE  SubSeq(SubSeq(p, 1, l), 1, k) = SubSeq(p, 1, k)
<1> DEFINE q == SubSeq(p, 1, l)
<1>1. q \in Seq(Nat) /\ Len(q) = l /\ \A i \in 1 .. l : q[i] = p[i]
  BY Prefix
<1> HIDE DEF q
<1>2. k \in 0 .. Len(q) /\ k \in 0 .. Len(p)
  BY <1>1, LenProperties
<1> DEFINE a == SubSeq(q, 1, k)
           b == SubSeq(p, 1, k)
<1>3. a \in Seq(Nat) /\ Len(a) = k /\ \A i \in 1 .. k : a[i] = q[i]
  BY <1>1, <1>2, Prefix
<1>4. b \in Seq(Nat) /\ Len(b) = k /\ \A i \in 1 .. k : b[i] = p[i]
  BY <1>2, Prefix
<1> HIDE DEF a, b
<1>5. a = b
  BY <1>1, <1>3, <1>4, SeqEqual
<1> QED BY <1>5 DEF a, b, q

\* A path extends its prefixes name by name.
LEMMA ParentOfPrefix ==
    ASSUME NEW p \in Seq(Nat), NEW k \in 0 .. Len(p) - 1
    PROVE  /\ SubSeq(p, 1, k + 1) # <<>>
           /\ Parent(SubSeq(p, 1, k + 1)) = SubSeq(p, 1, k)
<1>1. k + 1 \in 0 .. Len(p) /\ k \in 0 .. k + 1 /\ k + 1 # 0
  BY LenProperties
<1>2. Len(SubSeq(p, 1, k + 1)) = k + 1
  BY <1>1, Prefix
<1>3. Len(<<>>) = 0
  BY EmptySeq
<1>4. SubSeq(p, 1, k + 1) # <<>>
  BY <1>1, <1>2, <1>3, Zenon
<1>5. Len(SubSeq(p, 1, k + 1)) - 1 = k
  BY <1>1, <1>2
<1> QED BY <1>1, <1>4, <1>5, PrefixOfPrefix DEF Parent

-----------------------------------------------------------------------------
(* Records.                                                                *)

Record == [path : Seq(Nat), node : Nodes]

\* The fields of a record.
LEMMA Fields ==
    ASSUME NEW p, NEW n
    PROVE  /\ At(p, n).path = p /\ At(p, n).node = n
           /\ p \in Seq(Nat) /\ n \in Nodes => At(p, n) \in Record
  BY DEF At, Record

\* What the archive is once a record is written.
LEMMA Appended ==
    ASSUME NEW r \in Record, written \in Seq(Record), written' = Append(written, r)
    PROVE  /\ written' \in Seq(Record)
           /\ Len(written) \in Nat /\ Len(written') = Len(written) + 1
           /\ DOMAIN written = 1 .. Len(written)
           /\ DOMAIN written' = 1 .. Len(written) + 1
           /\ \A i \in 1 .. Len(written) : written'[i] = written[i]
           /\ written'[Len(written) + 1] = r
           /\ Archive' = Archive \cup {r}
<1>1. /\ written' \in Seq(Record) /\ Len(written') = Len(written) + 1
      /\ \A i \in 1 .. Len(written) : written'[i] = written[i]
      /\ written'[Len(written) + 1] = r
  BY AppendProperties
<1>2. /\ Len(written) \in Nat /\ DOMAIN written = 1 .. Len(written)
      /\ DOMAIN written' = 1 .. Len(written')
  BY <1>1, LenProperties
<1>3. Archive' = Archive \cup {r}
  <2>1. Archive' = {written'[i] : i \in 1 .. Len(written) + 1}
    BY <1>1, <1>2 DEF Archive
  <2>2. Archive = {written[i] : i \in 1 .. Len(written)}
    BY <1>2 DEF Archive
  <2> QED BY <1>1, <1>2, <2>1, <2>2
<1> QED BY <1>1, <1>2, <1>3

-----------------------------------------------------------------------------
(* Types.                                                                  *)

\* A tree has paths and nodes of the model.
LEMMA TreeTypes ==
    ASSUME NEW t, IsTree(t)
    PROVE  /\ \A p \in DOMAIN t : p \in Paths /\ p \in Seq(Nat) /\ t[p] \in Nodes /\ t[p].kind \in Kinds
           /\ <<>> \in DOMAIN t /\ t[<<>>] = Dir
           /\ Records(t) \subseteq [path : Paths, node : Nodes]
<1>1. ASSUME NEW p \in DOMAIN t
      PROVE  p \in Paths /\ p \in Seq(Nat) /\ t[p] \in Nodes /\ t[p].kind \in Kinds
  BY <1>1, PathsAssumption, NodesAssumption DEF IsTree, Kinds
<1>2. Records(t) \subseteq [path : Paths, node : Nodes]
  BY <1>1 DEF Records, At
<1> QED BY <1>1, <1>2 DEF IsTree

\* A node that is a directory is Dir; the file that is written is none.
LEMMA Nodes_Kinds ==
    /\ Dir \in Nodes /\ Partial \in Nodes /\ Partial # Dir
    /\ Dir.kind = "dir" /\ Partial.kind = "file"
    /\ \A n \in Nodes : n.kind = "dir" <=> n = Dir
  BY NodesAssumption DEF Dir, Partial

\* Creating the output in the tree, in place of a file or of nothing, leaves a
\* tree.
LEMMA CreatedTree ==
    ASSUME IsTree(tree), NEW out \in Outs, NEW t,
           \A p \in out : /\ Parent(p) \in DOMAIN tree /\ tree[Parent(p)] = Dir
                          /\ p \in DOMAIN tree => tree[p].kind = "file",
           t = [p \in DOMAIN tree \cup out |-> IF p \in out THEN Partial ELSE tree[p]]
    PROVE  IsTree(t)
<1>1. /\ out \subseteq Paths \ {<<>>} /\ Paths \subseteq Seq(Nat)
      /\ DOMAIN t = DOMAIN tree \cup out
      /\ \A p \in DOMAIN t : t[p] = IF p \in out THEN Partial ELSE tree[p]
  BY OutsAssumption, PathsAssumption
<1>2. \A p \in DOMAIN tree : p \in Seq(Nat) /\ p \in Paths /\ tree[p] \in Nodes
  BY TreeTypes
<1>3. \A p \in DOMAIN tree : tree[p] = Dir => p \notin out
  BY Nodes_Kinds
<1>4. ASSUME NEW p \in DOMAIN t, NEW k \in 0 .. (Len(p) - 1)
      PROVE  SubSeq(p, 1, k) \in DOMAIN tree /\ tree[SubSeq(p, 1, k)] = Dir
  <2>1. CASE p \in DOMAIN tree
    BY <1>4, <2>1 DEF IsTree
  <2>2. CASE p \in out
    <3>1. p \in Seq(Nat) /\ p # <<>>
      BY <1>1, <2>2
    <3>2. /\ Len(p) \in Nat \ {0} /\ Parent(p) \in Seq(Nat)
          /\ Len(Parent(p)) = Len(p) - 1
      BY <3>1, ParentOf
    <3>3. Len(p) - 1 \in 0 .. Len(p) /\ k \in 0 .. Len(p) - 1
      BY <3>2
    <3>4. SubSeq(Parent(p), 1, k) = SubSeq(p, 1, k)
      BY <3>1, <3>3, PrefixOfPrefix DEF Parent
    <3>5. Parent(p) \in DOMAIN tree /\ tree[Parent(p)] = Dir
      BY <2>2
    <3>6. CASE k = Len(p) - 1
      BY <3>5, <3>6 DEF Parent
    <3>7. CASE k # Len(p) - 1
      <4>1. k \in 0 .. (Len(Parent(p)) - 1)
        BY <3>2, <3>3, <3>7
      <4> QED BY <3>4, <3>5, <4>1 DEF IsTree
    <3> QED BY <3>6, <3>7
  <2> QED BY <1>1, <2>1, <2>2
<1>5. t \in [DOMAIN t -> Nodes] /\ DOMAIN t \subseteq Paths
  BY <1>1, <1>2, Nodes_Kinds
<1>6. \A p \in DOMAIN t : \A k \in 0 .. (Len(p) - 1) :
         SubSeq(p, 1, k) \in DOMAIN t /\ t[SubSeq(p, 1, k)] = Dir
  BY <1>1, <1>3, <1>4
<1>7. <<>> \in DOMAIN t /\ t[<<>>] = Dir
  BY <1>1 DEF IsTree
<1> QED BY <1>5, <1>6, <1>7 DEF IsTree

\* What handing a record to the writer does.
LEMMA Emitted ==
    ASSUME TypeOK, NEW r \in Record, NEW then, Emit(r, then)
    PROVE  /\ written' = Append(written, r) /\ written' \in Seq(Record)
           /\ stored' \in 0 .. (Len(written') + 1)
           /\ pc' \in {then, "giving up"}
           /\ ~full => pc' = then
           /\ stored <= Len(written) => stored' <= Len(written')
           /\ full /\ stored <= Len(written) => stored' < Len(written')
<1>1. written \in Seq(Record) /\ stored \in 0 .. (Len(written) + 1) /\ written' = Append(written, r)
  BY DEF TypeOK, Emit, Record
<1>2. written' \in Seq(Record) /\ Len(written) \in Nat /\ Len(written') = Len(written) + 1
  BY <1>1, Appended
<1>3. \/ pc' = then /\ stored' \in IF full THEN {stored} ELSE stored .. Len(written')
      \/ full /\ pc' = "giving up" /\ stored' = stored
  BY DEF Emit
<1> DEFINE m == Len(written)
           n == Len(written')
<1>4. m \in Nat /\ n = m + 1 /\ stored \in 0 .. (m + 1)
  BY <1>1, <1>2
<1>5. stored' = stored \/ (~full /\ stored' \in stored .. n)
  BY <1>3
<1> HIDE DEF m, n
<1>6. /\ stored' \in 0 .. (n + 1)
      /\ stored <= m => stored' <= n
      /\ full /\ stored <= m => stored' < n
  BY <1>4, <1>5
<1> QED BY <1>1, <1>2, <1>3, <1>6 DEF m, n

\* The records of Leading and the trailer.
LEMMA Leaders ==
    /\ Len(Leading) = 2 /\ Leading[1] = <<0>> /\ Leading[2] = <<0, 0>>
    /\ At(<<0>>, Dir) \in Record /\ At(<<0, 0>>, Dir) \in Record
    /\ Trailer \in Record /\ Trailer.path = <<1>>
<1>1. Len(Leading) = 2 /\ Leading[1] = <<0>> /\ Leading[2] = <<0, 0>>
  BY DEF Leading
<1>2. <<0>> \in Seq(Nat) /\ <<0, 0>> \in Seq(Nat) /\ <<1>> \in Seq(Nat)
  OBVIOUS
<1>3. Dir \in Nodes /\ Partial \in Nodes
  BY NodesAssumption
<1>4. At(<<0>>, Dir) \in Record /\ At(<<0, 0>>, Dir) \in Record
  BY <1>2, <1>3, Fields
<1>5. Trailer \in Record /\ Trailer.path = <<1>>
  BY <1>2, <1>3, Fields DEF Trailer
<1> QED BY <1>1, <1>4, <1>5

\* A record for a path of the tree.
LEMMA NamedRecord ==
    ASSUME NEW p \in Paths, NEW n \in Nodes
    PROVE  At(Name(p), n) \in Record
  BY NameOf, PathsAssumption, Fields

\* A path is the first Len(p) names of itself.
LEMMA WholePrefix ==
    ASSUME NEW p \in Seq(Nat)
    PROVE  Len(p) \in 0 .. Len(p) /\ SubSeq(p, 1, Len(p)) = p
<1>1. Len(p) \in Nat /\ Len(p) \in 0 .. Len(p)
  BY LenProperties
<1>2. /\ SubSeq(p, 1, Len(p)) \in Seq(Nat) /\ Len(SubSeq(p, 1, Len(p))) = Len(p)
      /\ \A i \in 1 .. Len(p) : SubSeq(p, 1, Len(p))[i] = p[i]
  BY <1>1, Prefix
<1>3. SubSeq(p, 1, Len(p)) = p
  BY <1>2, SeqEqual
<1> QED BY <1>1, <1>3

\* What may be listed at a path is below it, and is what the tree has there
\* unless a link is followed.
LEMMA Listable ==
    ASSUME TypeOK, NEW p \in Paths, NEW more \in Entries(p)
    PROVE  /\ \A q \in DOMAIN more : /\ q \in Paths /\ q \in Seq(Nat) /\ q # <<>>
                                     /\ Parent(q) = p /\ more[q] \in Kinds
           /\ \/ p \in DOMAIN tree /\ tree[p] = Dir /\ more = Listing(tree, p)
              \/ Through(p)
<1>1. CASE p \in DOMAIN tree /\ tree[p] = Dir
  <2>1. more = Listing(tree, p)
    BY <1>1 DEF Entries
  <2>2. ASSUME NEW q \in DOMAIN more
        PROVE  /\ q \in DOMAIN tree /\ q # <<>> /\ Parent(q) = p
               /\ more[q] = tree[q].kind
    BY <2>1, <2>2 DEF Listing
  <2> QED BY <1>1, <2>1, <2>2, TreeTypes DEF TypeOK
<1>2. CASE ~(p \in DOMAIN tree /\ tree[p] = Dir)
  <2>1. Through(p)
    BY <1>2 DEF Entries
  <2>2. PICK s \in SUBSET {q \in Paths \ {<<>>} : Parent(q) = p} : more \in [s -> Kinds]
    BY <1>2, <2>1 DEF Entries
  <2> QED BY <2>1, <2>2, PathsAssumption
<1> QED BY <1>1, <1>2

\* Where a node n that is packed at p comes from.
Origin(p, n) ==
    \/ todo[p] = "dir" /\ n = Dir
    \/ p = <<>> /\ todo[p] # "dir"
    \/ p \in DOMAIN tree /\ n = tree[p]
    \/ Through(p)

\* What is read at a path is what is there unless a link is followed.
LEMMA Readable ==
    ASSUME TypeOK, NEW p \in Paths, NEW kind, NEW m \in Found(p), NEW n \in Contents(kind, m)
    PROVE  n \in Nodes /\ Origin(p, n)
<1>1. CASE p \in DOMAIN tree
  <2>1. m = tree[p] /\ m \in Nodes
    BY <1>1, TreeTypes DEF Found, TypeOK
  <2>2. n \in Nodes /\ (n = m \/ m.kind = "link")
    BY <2>1 DEF Contents
  <2>3. CASE m.kind = "link"
    <3>1. p \in Seq(Nat)
      BY PathsAssumption
    <3>2. Len(p) \in 0 .. Len(p) /\ SubSeq(p, 1, Len(p)) = p
      BY <3>1, WholePrefix
    <3>3. Through(p)
      BY <1>1, <2>1, <2>3, <3>2 DEF Through
    <3> QED BY <2>2, <3>3 DEF Origin
  <2> QED BY <1>1, <2>1, <2>2, <2>3 DEF Origin
<1>2. CASE p \notin DOMAIN tree
  <2>1. Through(p) /\ m \in Nodes
    BY <1>2 DEF Found
  <2>2. n \in Nodes
    BY <2>1 DEF Contents
  <2> QED BY <2>1, <2>2 DEF Origin
<1> QED BY <1>1, <1>2

\* A regular file or a link is packed as what was read there.
LEMMA VisitedLeaf ==
    ASSUME TypeOK, NEW p \in Paths, VisitLeaf(p)
    PROVE  \E n \in Nodes : Emit(At(Name(p), n), "walk") /\ Origin(p, n)
<1>1. PICK n \in IF p = <<>> THEN {m \in Nodes : m.kind = "link"}
                 ELSE UNION {Contents(todo[p], m) : m \in Found(p)} :
           Emit(At(Name(p), n), "walk")
  BY DEF VisitLeaf
<1>2. CASE p = <<>>
  <2>1. n \in Nodes
    BY <1>1, <1>2
  <2>2. todo[p] # "dir"
    BY DEF VisitLeaf
  <2> QED BY <1>1, <1>2, <2>1, <2>2 DEF Origin
<1>3. CASE p # <<>>
  <2>1. PICK m \in Found(p) : n \in Contents(todo[p], m)
    BY <1>1, <1>3
  <2>2. n \in Nodes /\ Origin(p, n)
    BY <2>1, Readable
  <2> QED BY <1>1, <2>2
<1> QED BY <1>2, <1>3

\* Visiting a path: what is left to do keeps its type, what is added is below
\* the path, and at most one record is written, of what was found there.
LEMMA Visited ==
    ASSUME TypeOK, NEW p \in Paths, IsNext(p),
           VisitDir(p) \/ VisitLeaf(p) \/ VisitOther(p) \/ VisitFails(p)
    PROVE  /\ DOMAIN todo' \subseteq Paths /\ \A q \in DOMAIN todo' : todo'[q] \in Kinds
           /\ \A q \in DOMAIN todo' :
                 \/ q \in DOMAIN todo /\ q # p
                 \/ q \in Paths \ {<<>>} /\ Parent(q) = p
           /\ \/ UNCHANGED <<written, stored>> /\ pc' \in {pc, "giving up"}
              \/ \E n \in Nodes, then \in {"walk", "giving up"} :
                    Emit(At(Name(p), n), then) /\ Origin(p, n)
<1>1. /\ \A q \in DOMAIN Rest(p) : q \in DOMAIN todo /\ q # p /\ Rest(p)[q] = todo[q]
      /\ DOMAIN todo \subseteq Paths /\ \A q \in DOMAIN todo : todo[q] \in Kinds
  BY DEF Rest, TypeOK
<1>2. CASE VisitDir(p)
  <2>1. \/ todo' = Rest(p)
        \/ \E more \in Entries(p) :
              todo' = [q \in DOMAIN Rest(p) \cup DOMAIN more |->
                          IF q \in DOMAIN more THEN more[q] ELSE todo[q]]
    BY <1>2 DEF VisitDir
  <2>2. ASSUME NEW q \in DOMAIN todo'
        PROVE  /\ q \in Paths /\ todo'[q] \in Kinds
               /\ (q \in DOMAIN todo /\ q # p) \/ (q \in Paths \ {<<>>} /\ Parent(q) = p)
    <3>1. CASE todo' = Rest(p)
      <4>1. q \in DOMAIN Rest(p) /\ todo'[q] = Rest(p)[q]
        BY <2>2, <3>1
      <4> QED BY <1>1, <4>1
    <3>2. ASSUME NEW more \in Entries(p),
                 todo' = [r \in DOMAIN Rest(p) \cup DOMAIN more |->
                             IF r \in DOMAIN more THEN more[r] ELSE todo[r]]
          PROVE  /\ q \in Paths /\ todo'[q] \in Kinds
                 /\ (q \in DOMAIN todo /\ q # p) \/ (q \in Paths \ {<<>>} /\ Parent(q) = p)
      <4>1. CASE q \in DOMAIN more
        <5>1. q \in Paths /\ q # <<>> /\ Parent(q) = p /\ more[q] \in Kinds
          BY <4>1, Listable
        <5>2. todo'[q] = more[q]
          BY <2>2, <3>2, <4>1
        <5> QED BY <5>1, <5>2
      <4>2. CASE q \notin DOMAIN more
        <5>1. q \in DOMAIN Rest(p) /\ todo'[q] = todo[q]
          BY <2>2, <3>2, <4>2
        <5> QED BY <1>1, <5>1
      <4> QED BY <4>1, <4>2
    <3> QED BY <2>1, <3>1, <3>2
  <2>3. Dir \in Nodes /\ Origin(p, Dir)
    BY <1>2, NodesAssumption DEF VisitDir, Origin
  <2>4. Emit(At(Name(p), Dir), "walk") \/ Emit(At(Name(p), Dir), "giving up")
    BY <1>2 DEF VisitDir
  <2> QED BY <2>2, <2>3, <2>4
<1>3. CASE VisitLeaf(p)
  <2>1. PICK n \in Nodes : Emit(At(Name(p), n), "walk") /\ Origin(p, n)
    BY <1>3, VisitedLeaf
  <2>2. todo' = Rest(p)
    BY <1>3 DEF VisitLeaf
  <2> QED BY <1>1, <2>1, <2>2
<1>4. CASE VisitOther(p) \/ VisitFails(p)
  <2>1. todo' = Rest(p) /\ UNCHANGED <<written, stored>> /\ pc' \in {pc, "giving up"}
    BY <1>4 DEF VisitOther, VisitFails, Abandon
  <2> QED BY <1>1, <2>1
<1> QED BY <1>2, <1>3, <1>4

\* Until the walk begins only "lib" is written, and the root is to be visited.
Beginning == pc = "lead" =>
    /\ DOMAIN todo = {<<>>}
    /\ written \in {<<>>, <<At(<<0>>, Dir)>>}

Typed == TypeOK /\ Beginning

\* The two leading directories.
LEMMA Led ==
    ASSUME Typed, Lead
    PROVE  \/ written = <<>> /\ Emit(At(<<0>>, Dir), "lead")
           \/ written = <<At(<<0>>, Dir)>> /\ Emit(At(<<0, 0>>, Dir), "walk")
<1>1. CASE written = <<>>
  <2>1. Len(written) + 1 = 1
    BY <1>1
  <2> QED BY <1>1, <2>1, Leaders DEF Lead
<1>2. CASE written = <<At(<<0>>, Dir)>>
  <2>1. Len(written) + 1 = 2
    BY <1>2
  <2> QED BY <1>2, <2>1, Leaders DEF Lead
<1> QED BY <1>1, <1>2 DEF Typed, Beginning, Lead

\* Every step keeps the types.
LEMMA TypeStep == Typed /\ [Next]_vars => Typed'
<1> SUFFICES ASSUME Typed, [Next]_vars PROVE Typed'
  OBVIOUS
<1>0. TypeOK
  BY DEF Typed
<1>1. CASE UNCHANGED vars
  BY <1>1 DEF vars, Typed, TypeOK, Beginning
<1>2. CASE Refuse
  BY <1>2 DEF Refuse, Typed, TypeOK, Idle, Beginning
<1>3. CASE Create
  <2>1. PICK src \in Sources \cap {"dir", "link"}, out \in Outs :
          /\ \A p \in out : /\ Parent(p) \in DOMAIN tree /\ tree[Parent(p)] = Dir
                            /\ p \in DOMAIN tree => tree[p].kind = "file"
          /\ tree' = [p \in DOMAIN tree \cup out |-> IF p \in out THEN Partial ELSE tree[p]]
          /\ todo' = [p \in {<<>>} |-> src]
          /\ pc' = "lead"
          /\ written' = <<>> /\ stored' = 0 /\ full' = FALSE
          /\ seen' = Records(tree')
          /\ lasting' = {r \in Records(tree') : r.path \notin out}
          /\ UNCHANGED changes
    BY <1>3 DEF Create
  <2>2. IsTree(tree')
    BY <1>0, <2>1, CreatedTree DEF TypeOK
  <2>3. lasting' \subseteq seen' /\ seen' \subseteq [path : Paths, node : Nodes]
    BY <2>1, <2>2, TreeTypes
  <2>4. DOMAIN todo' = {<<>>} /\ <<>> \in Paths /\ \A p \in DOMAIN todo' : todo'[p] \in Kinds
    BY <2>1, PathsAssumption DEF Kinds
  <2>5. written' \in Seq(Record) /\ stored' \in 0 .. (Len(written') + 1)
    BY <2>1
  <2> QED BY <1>0, <2>1, <2>2, <2>3, <2>4, <2>5 DEF Typed, TypeOK, Record, Beginning
<1>4. CASE Lead
  <2>1. \/ written = <<>> /\ Emit(At(<<0>>, Dir), "lead")
        \/ written = <<At(<<0>>, Dir)>> /\ Emit(At(<<0, 0>>, Dir), "walk")
    BY <1>4, Led
  <2>2. /\ pc = "lead" /\ UNCHANGED <<tree, changes, todo, full, seen, lasting>>
    BY <1>4 DEF Lead
  <2>3. /\ written' \in Seq(Record) /\ stored' \in 0 .. (Len(written') + 1)
        /\ pc' \in {"lead", "walk", "giving up"}
    BY <1>0, <2>1, Emitted, Leaders
  <2>4. pc' = "lead" => written' = <<At(<<0>>, Dir)>>
    <3>1. Append(<<>>, At(<<0>>, Dir)) = <<At(<<0>>, Dir)>>
      OBVIOUS
    <3> QED BY <2>1, <3>1, <1>0, Emitted, Leaders
  <2> QED BY <1>0, <2>2, <2>3, <2>4 DEF Typed, TypeOK, Record, Beginning
<1>5. CASE Visit
  <2>1. PICK p \in Paths :
          /\ pc = "walk" /\ IsNext(p)
          /\ VisitDir(p) \/ VisitLeaf(p) \/ VisitOther(p) \/ VisitFails(p)
    BY <1>5 DEF Visit
  <2>2. UNCHANGED <<tree, changes, full, seen, lasting>>
    BY <1>5 DEF Visit
  <2>3. /\ DOMAIN todo' \subseteq Paths /\ \A q \in DOMAIN todo' : todo'[q] \in Kinds
        /\ \/ UNCHANGED <<written, stored>> /\ pc' \in {pc, "giving up"}
           \/ \E n \in Nodes, then \in {"walk", "giving up"} : Emit(At(Name(p), n), then)
    <3>1. IsNext(p) /\ (VisitDir(p) \/ VisitLeaf(p) \/ VisitOther(p) \/ VisitFails(p))
      BY <2>1
    <3>2. /\ DOMAIN todo' \subseteq Paths /\ \A q \in DOMAIN todo' : todo'[q] \in Kinds
          /\ \/ UNCHANGED <<written, stored>> /\ pc' \in {pc, "giving up"}
             \/ \E n \in Nodes, then \in {"walk", "giving up"} :
                   Emit(At(Name(p), n), then) /\ Origin(p, n)
      BY <1>0, <3>1, Visited
    <3> QED BY <3>2, Zenon
  <2>4. /\ written' \in Seq(Record) /\ stored' \in 0 .. (Len(written') + 1)
        /\ pc' \in {"walk", "giving up"}
    BY <1>0, <2>1, <2>3, Emitted, NamedRecord DEF TypeOK, Record
  <2> QED BY <1>0, <2>2, <2>3, <2>4 DEF Typed, TypeOK, Record, Beginning
<1>6. CASE End
  <2>1. /\ Emit(Trailer, "returning")
        /\ UNCHANGED <<tree, changes, todo, full, seen, lasting>>
    BY <1>6 DEF End
  <2>2. /\ written' \in Seq(Record) /\ stored' \in 0 .. (Len(written') + 1)
        /\ pc' \in {"returning", "giving up"}
    BY <1>0, <2>1, Emitted, Leaders
  <2> QED BY <1>0, <2>1, <2>2 DEF Typed, TypeOK, Record, Beginning
<1>7. CASE Close
  <2> DEFINE n == Len(written)
  <2>0. written' = written /\ stored \in 0 .. (n + 1) /\ n \in Nat
        /\ stored' = IF full THEN stored ELSE n + 1
    BY <1>0, <1>7, LenProperties DEF Close, TypeOK
  <2> HIDE DEF n
  <2>1. stored' \in 0 .. (n + 1)
    BY <2>0
  <2>2. stored' \in 0 .. (Len(written') + 1)
    BY <2>0, <2>1 DEF n
  <2> QED BY <1>0, <1>7, <2>2 DEF Close, Typed, TypeOK, Idle, Beginning
<1>8. CASE DiskFills
  BY <1>0, <1>8 DEF DiskFills, Typed, TypeOK, Beginning
<1>9. CASE Change
  <2>1. /\ changes < MaxChanges /\ IsTree(tree') /\ changes' = changes + 1
        /\ seen' = seen \cup Records(tree') /\ lasting' = lasting \cap Records(tree')
        /\ UNCHANGED <<pc, todo, written, stored, full>>
    BY <1>9 DEF Change
  <2>2. Records(tree') \subseteq [path : Paths, node : Nodes]
    BY <2>1, TreeTypes
  <2>3. changes' \in 0 .. MaxChanges
    <3>1. changes \in 0 .. MaxChanges
      BY <1>0 DEF TypeOK
    <3> QED BY <2>1, <3>1, MaxChangesAssumption
  <2> QED BY <1>0, <2>1, <2>2, <2>3 DEF Typed, TypeOK, Beginning
<1> QED BY <1>1, <1>2, <1>3, <1>4, <1>5, <1>6, <1>7, <1>8, <1>9 DEF Next

\* The command does not run at first.
LEMMA TypeInit == Init => Typed
<1> SUFFICES ASSUME Init PROVE Typed
  OBVIOUS
<1>1. IsTree(tree)
  BY TreesAssumption DEF Init
<1>2. /\ changes \in 0 .. MaxChanges
      /\ written \in Seq(Record) /\ stored \in 0 .. (Len(written) + 1)
  BY MaxChangesAssumption DEF Init
<1>3. todo = <<>> /\ DOMAIN todo = {} /\ pc = "idle"
  BY EmptySeq DEF Init
<1>4. full \in BOOLEAN /\ lasting \subseteq seen /\ seen \subseteq [path : Paths, node : Nodes]
  BY DEF Init
<1>5. TypeOK
  BY <1>1, <1>2, <1>3, <1>4 DEF TypeOK, Idle, Record
<1> QED BY <1>3, <1>5 DEF Typed, Beginning

\* Every variable keeps its type: in particular --src stays a tree when the
\* output is created in it, whatever is there.
THEOREM Typing == Spec => []TypeOK
<1>1. Typed => TypeOK
  BY DEF Typed
<1> QED BY <1>1, TypeInit, TypeStep, PTL DEF Spec

-----------------------------------------------------------------------------
(* The end of the archive.                                                 *)

Names == {r.path : r \in Archive}

\* While the walk lasts nothing has ended the archive.
Underway == pc \in {"lead", "walk"} => <<1>> \notin Names /\ stored <= Len(written)

\* A run that gives up after its trailer has no room left to store it.
Ended == pc = "giving up" /\ Trailer \in Archive => full /\ stored < Len(written)

\* Of one more record the names are one more.
LEMMA NewName ==
    ASSUME TypeOK, NEW r \in Record, written' = Append(written, r)
    PROVE  /\ Names' = Names \cup {r.path} /\ Archive' = Archive \cup {r}
           /\ r.path # <<1>> /\ <<1>> \notin Names => <<1>> \notin Names'
<1>1. Archive' = Archive \cup {r}
  BY Appended DEF TypeOK, Record
<1> QED BY <1>1 DEF Names

\* The trailer is a record of its name, and no record of the walk has it.
LEMMA TrailerName ==
    /\ Trailer \in Archive => <<1>> \in Names
    /\ \A p \in Paths : Name(p) # <<1>>
    /\ <<0>> # <<1>> /\ <<0, 0>> # <<1>>
<1>1. Trailer \in Archive => <<1>> \in Names
  BY Leaders DEF Names
<1>2. ASSUME NEW p \in Paths PROVE Name(p) # <<1>>
  <2>1. Name(p)[1] = 0
    BY NameOf, PathsAssumption
  <2>2. <<1>>[1] = 1
    OBVIOUS
  <2> QED BY <2>1, <2>2
<1>3. <<0>> # <<1>> /\ <<0, 0>> # <<1>>
  <2>1. <<0>>[1] = 0 /\ <<0, 0>>[1] = 0 /\ <<1>>[1] = 1
    OBVIOUS
  <2> QED BY <2>1
<1> QED BY <1>1, <1>2, <1>3

\* One record of the two leading directories or of the walk.
LEMMA EmittedUnderway ==
    ASSUME TypeOK, Underway, pc \in {"lead", "walk"},
           NEW r \in Record, r.path # << 1 >>, NEW then, Emit(r, then)
    PROVE  <<1>> \notin Names' /\ stored' <= Len(written')
  BY NewName, Emitted DEF Underway

Ending == Underway /\ Ended /\ FailureShows

\* Every step keeps the end of the archive apart.
LEMMA EndStep == Typed /\ Typed' /\ Ending /\ [Next]_vars => Ending'
<1> SUFFICES ASSUME Typed, Typed', Ending, [Next]_vars PROVE Ending'
  OBVIOUS
<1>0. TypeOK /\ Underway /\ Ended /\ FailureShows
  BY DEF Typed, Ending
<1>1. CASE UNCHANGED vars
  BY <1>0, <1>1 DEF vars, Ending, Underway, Ended, FailureShows, Names, Archive
<1>2. CASE Refuse
  BY <1>2 DEF Refuse, Ending, Underway, Ended, FailureShows
<1>3. CASE Create
  <2>1. pc' = "lead" /\ written' = <<>> /\ stored' = 0
    BY <1>3 DEF Create
  <2>2. Archive' = {} /\ Names' = {} /\ stored' <= Len(written')
    BY <2>1 DEF Archive, Names
  <2> QED BY <2>1, <2>2 DEF Ending, Underway, Ended, FailureShows
<1>4. CASE Lead
  <2>1. PICK r \in {At(<<0>>, Dir), At(<<0, 0>>, Dir)}, then \in {"lead", "walk"} : Emit(r, then)
    BY <1>4, Led
  <2>2. r \in Record /\ r.path # <<1>> /\ pc \in {"lead", "walk"}
    BY <1>4, Leaders, Fields, TrailerName DEF Lead
  <2>3. pc' \in {"lead", "walk", "giving up"} /\ <<1>> \notin Names' /\ stored' <= Len(written')
    BY <1>0, <2>1, <2>2, Emitted, EmittedUnderway
  <2>4. Trailer \notin Archive'
    BY <2>3, Leaders DEF Names
  <2> QED BY <2>3, <2>4 DEF Ending, Underway, Ended, FailureShows
<1>5. CASE Visit
  <2>1. PICK p \in Paths :
          /\ pc = "walk" /\ IsNext(p)
          /\ VisitDir(p) \/ VisitLeaf(p) \/ VisitOther(p) \/ VisitFails(p)
    BY <1>5 DEF Visit
  <2>2. pc' \in {"walk", "giving up"} /\ <<1>> \notin Names' /\ stored' <= Len(written')
    <3>1. CASE UNCHANGED <<written, stored>> /\ pc' \in {pc, "giving up"}
      BY <1>0, <2>1, <3>1 DEF Underway, Names, Archive
    <3>2. ASSUME NEW n \in Nodes, NEW then \in {"walk", "giving up"}, Emit(At(Name(p), n), then)
          PROVE  pc' \in {"walk", "giving up"} /\ <<1>> \notin Names' /\ stored' <= Len(written')
      <4>1. At(Name(p), n) \in Record
        BY NamedRecord
      <4>2. At(Name(p), n).path = Name(p) /\ Name(p) # <<1>>
        BY Fields, TrailerName
      <4>3. At(Name(p), n).path # <<1>>
        BY <4>2
      <4> QED BY <1>0, <2>1, <3>2, <4>1, <4>3, Emitted, EmittedUnderway
    <3>3. \/ UNCHANGED <<written, stored>> /\ pc' \in {pc, "giving up"}
          \/ \E n \in Nodes, then \in {"walk", "giving up"} :
                Emit(At(Name(p), n), then) /\ Origin(p, n)
      BY <1>0, <2>1, Visited
    <3> QED BY <3>1, <3>2, <3>3
  <2>3. Trailer \notin Archive'
    BY <2>2, Leaders DEF Names
  <2> QED BY <2>2, <2>3 DEF Ending, Underway, Ended, FailureShows
<1>6. CASE End
  <2>1. Emit(Trailer, "returning") /\ pc = "walk" /\ full' = full
    BY <1>6 DEF End
  <2>2. /\ pc' \in {"returning", "giving up"}
        /\ pc' = "giving up" => full
        /\ full => stored' < Len(written')
    <3>1. Trailer \in Record /\ stored <= Len(written) /\ full \in BOOLEAN
      BY <1>0, <2>1, Leaders DEF Underway, TypeOK
    <3>2. /\ pc' \in {"returning", "giving up"}
          /\ ~full => pc' = "returning"
          /\ full => stored' < Len(written')
      BY <1>0, <2>1, <3>1, Emitted
    <3> QED BY <3>1, <3>2
  <2>3. pc' = "giving up" => full' /\ stored' < Len(written')
    BY <2>1, <2>2
  <2>4. pc' # "lead" /\ pc' # "walk" /\ pc' # "failed"
    BY <2>2
  <2> QED BY <2>3, <2>4 DEF Ending, Underway, Ended, FailureShows
<1>7. CASE Close
  <2>1. /\ pc' = IF pc = "returning" THEN "ok" ELSE "failed"
        /\ pc \in {"returning", "giving up"}
        /\ full => stored' = stored
        /\ written' = written /\ Archive' = Archive
    BY <1>7 DEF Close, Archive
  <2>2. Trailer \in Archive /\ pc = "giving up" => stored' < Len(written')
    BY <1>0, <2>1 DEF Ended
  <2>3. FailureShows'
    <3> SUFFICES ASSUME pc' = "failed", Trailer \in Archive' PROVE ~(stored' >= Len(written'))
      BY DEF FailureShows
    <3>1. stored' < Len(written')
      BY <2>1, <2>2
    <3>2. written' \in Seq(Record) /\ stored' \in 0 .. Len(written') + 1
      BY DEF Typed, TypeOK, Record
    <3>3. Len(written') \in Nat
      BY <3>2, LenProperties
    <3> DEFINE l == Len(written')
    <3>4. l \in Nat /\ stored' \in 0 .. l + 1 /\ stored' < l
      BY <3>1, <3>2, <3>3
    <3> HIDE DEF l
    <3>5. ~(stored' >= l)
      BY <3>4
    <3> QED BY <3>5 DEF l
  <2> QED BY <2>1, <2>3 DEF Ending, Underway, Ended
<1>8. CASE DiskFills
  BY <1>0, <1>8 DEF DiskFills, Ending, Underway, Ended, FailureShows, Names, Archive
<1>9. CASE Change
  <2>1. UNCHANGED <<pc, written, stored, full>>
    BY <1>9 DEF Change
  <2> QED BY <1>0, <2>1 DEF Ending, Underway, Ended, FailureShows, Names, Archive
<1> QED BY <1>1, <1>2, <1>3, <1>4, <1>5, <1>6, <1>7, <1>8, <1>9 DEF Next

\* A run that fails never leaves a stored trailer, whatever fails: the walk, a
\* write into a full disk, or the trailer itself.
THEOREM Failing == Spec => []FailureShows
<1>1. Init => Typed /\ Ending
  BY TypeInit DEF Init, Ending, Underway, Ended, FailureShows
<1>2. Typed /\ Ending /\ [Next]_vars => (Typed /\ Ending)'
  BY TypeStep, EndStep
<1>3. Ending => FailureShows
  BY DEF Ending
<1> QED BY <1>1, <1>2, <1>3, PTL DEF Spec

-----------------------------------------------------------------------------
(* The order of the archive.                                               *)

\* What is listed is not packed yet, and the directory that holds it is.
Listed == pc = "walk" => \A p \in DOMAIN todo :
    Name(p) \notin Names /\ At(Parent(Name(p)), Dir) \in Archive

\* A record of a new name, after its directory, keeps the archive unpackable.
LEMMA OneMore ==
    ASSUME TypeOK, Unpackable, NEW r \in Record, written' = Append(written, r),
           r.path \notin Names, Len(r.path) > 1 => At(Parent(r.path), Dir) \in Archive
    PROVE  Unpackable'
<1>1. /\ Len(written) \in Nat
      /\ DOMAIN written = 1 .. Len(written) /\ DOMAIN written' = 1 .. Len(written) + 1
      /\ \A i \in 1 .. Len(written) : written'[i] = written[i]
      /\ written'[Len(written) + 1] = r
  BY Appended DEF TypeOK, Record
<1> DEFINE m == Len(written)
<1>2. /\ m \in Nat
      /\ DOMAIN written = 1 .. m /\ DOMAIN written' = 1 .. m + 1
      /\ \A i \in 1 .. m : written'[i] = written[i]
      /\ written'[m + 1] = r
  BY <1>1
<1> HIDE DEF m
<1> SUFFICES ASSUME NEW i \in 1 .. m + 1
             PROVE  /\ \A k \in 1 .. (i - 1) : written'[k].path # written'[i].path
                    /\ Len(written'[i].path) > 1 =>
                          \E k \in 1 .. (i - 1) : written'[k] = At(Parent(written'[i].path), Dir)
  BY <1>2 DEF Unpackable
<1>3. CASE i \in 1 .. m
  <2>1. written'[i] = written[i] /\ \A k \in 1 .. (i - 1) : written'[k] = written[k]
    BY <1>2, <1>3
  <2> QED BY <1>2, <1>3, <2>1 DEF Unpackable
<1>4. CASE i = m + 1
  <2>1. \A k \in 1 .. m : written'[k].path # r.path
    BY <1>2 DEF Names, Archive
  <2>2. ASSUME Len(r.path) > 1 PROVE \E k \in 1 .. m : written'[k] = At(Parent(r.path), Dir)
    <3>1. PICK k \in DOMAIN written : written[k] = At(Parent(r.path), Dir)
      BY <2>2 DEF Archive
    <3> QED BY <1>2, <3>1
  <2>3. written'[i] = r /\ 1 .. (i - 1) = 1 .. m
    BY <1>2, <1>4
  <2> QED BY <2>1, <2>2, <2>3
<1>5. i \in 1 .. m \/ i = m + 1
  BY <1>2
<1> QED BY <1>3, <1>4, <1>5

\* What stands below a path that is not packed is not packed either.
LEMMA Below ==
    ASSUME TypeOK, Unpackable, NEW p \in Paths, Name(p) \notin Names,
           NEW q \in Paths, q # <<>>, Parent(q) = p
    PROVE  Name(q) \notin Names
<1> SUFFICES ASSUME Name(q) \in Names PROVE FALSE
  OBVIOUS
<1>0. p \in Seq(Nat) /\ q \in Seq(Nat)
  BY PathsAssumption
<1>1. PICK i \in DOMAIN written : written[i].path = Name(q)
  BY DEF Names, Archive
<1>2. Len(Name(q)) > 1
  BY <1>0, NameOf
<1>3. PICK k \in 1 .. (i - 1) : written[k] = At(Parent(Name(q)), Dir)
  BY <1>1, <1>2 DEF Unpackable
<1>4. Parent(Name(q)) = Name(p)
  BY <1>0, NameOfParent
<1>5. k \in DOMAIN written
  <2>1. DOMAIN written = 1 .. Len(written) /\ Len(written) \in Nat
    BY LenProperties DEF TypeOK
  <2> QED BY <2>1
<1>6. At(Name(p), Dir) \in Archive /\ At(Name(p), Dir).path = Name(p)
  BY <1>3, <1>4, <1>5, Fields DEF Archive
<1> QED BY <1>6 DEF Names

\* A path is not its own directory.
LEMMA NotItsParent ==
    ASSUME NEW q \in Seq(Nat), q # <<>>
    PROVE  Parent(q) # q
  BY ParentOf

\* The walk packs what is listed in an order that can be unpacked.
LEMMA VisitOrder ==
    ASSUME Typed, Unpackable, Listed, Visit
    PROVE  Unpackable' /\ Listed'
<1>0. TypeOK
  BY DEF Typed
<1>1. PICK p \in Paths :
        /\ pc = "walk" /\ IsNext(p)
        /\ VisitDir(p) \/ VisitLeaf(p) \/ VisitOther(p) \/ VisitFails(p)
  BY DEF Visit
<1>2. /\ p \in DOMAIN todo /\ p \in Seq(Nat)
      /\ Name(p) \notin Names /\ At(Parent(Name(p)), Dir) \in Archive
      /\ DOMAIN todo \subseteq Paths /\ Paths \subseteq Seq(Nat)
  BY <1>0, <1>1, PathsAssumption DEF IsNext, Listed, TypeOK
<1>3. ASSUME NEW n \in Nodes, written' = Append(written, At(Name(p), n))
      PROVE  /\ Unpackable'
             /\ Names' = Names \cup {Name(p)} /\ Archive' = Archive \cup {At(Name(p), n)}
  <2>1. At(Name(p), n) \in Record /\ At(Name(p), n).path = Name(p)
    BY NamedRecord, Fields
  <2> QED BY <1>0, <1>2, <1>3, <2>1, NewName, OneMore
<1>4. ASSUME NEW q \in DOMAIN todo, q # p, NEW n \in Nodes,
             written' = Append(written, At(Name(p), n)) \/ written' = written
      PROVE  Name(q) \notin Names' /\ At(Parent(Name(q)), Dir) \in Archive'
  <2>1. Name(q) \notin Names /\ At(Parent(Name(q)), Dir) \in Archive
    BY <1>1 DEF Listed
  <2>2. Name(q) # Name(p)
    BY <1>2, <1>4, NamesDiffer
  <2>3. CASE written' = written
    BY <2>1, <2>3 DEF Names, Archive
  <2>4. CASE written' = Append(written, At(Name(p), n))
    BY <1>3, <2>1, <2>2, <2>4
  <2> QED BY <1>4, <2>3, <2>4
<1>5. CASE VisitDir(p)
  <2>1. written' = Append(written, At(Name(p), Dir)) /\ Dir \in Nodes
    BY <1>5, NodesAssumption DEF VisitDir, Emit
  <2>2. ASSUME NEW q \in Paths \ {<<>>}, Parent(q) = p
        PROVE  Name(q) \notin Names' /\ At(Parent(Name(q)), Dir) \in Archive'
    <3>1. q \in Paths /\ q \in Seq(Nat)
      BY PathsAssumption
    <3>2. Name(q) \notin Names
      BY <1>0, <1>2, <2>2, <3>1, Below
    <3>3. Name(q) # Name(p)
      BY <1>2, <2>2, <3>1, NamesDiffer, NotItsParent
    <3>4. Parent(Name(q)) = Name(p)
      BY <2>2, <3>1, NameOfParent
    <3> QED BY <1>3, <2>1, <3>2, <3>3, <3>4
  <2>3. \A q \in DOMAIN todo' : \/ q \in DOMAIN todo /\ q # p
                                \/ q \in Paths \ {<<>>} /\ Parent(q) = p
    BY <1>0, <1>1, Visited
  <2>4. Listed'
    BY <1>4, <2>1, <2>2, <2>3 DEF Listed
  <2> QED BY <1>3, <2>1, <2>4
<1>6. CASE VisitLeaf(p)
  <2>1. PICK n \in Nodes : written' = Append(written, At(Name(p), n))
    BY <1>0, <1>6, VisitedLeaf DEF Emit
  <2>2. DOMAIN todo' = DOMAIN todo \ {p}
    BY <1>6 DEF VisitLeaf, Rest
  <2> QED BY <1>3, <1>4, <2>1, <2>2 DEF Listed
<1>7. CASE VisitOther(p) \/ VisitFails(p)
  <2>1. written' = written /\ DOMAIN todo' = DOMAIN todo \ {p}
    BY <1>7 DEF VisitOther, VisitFails, Abandon, Rest
  <2>2. Unpackable'
    BY <2>1 DEF Unpackable
  <2>3. Dir \in Nodes
    BY NodesAssumption
  <2> QED BY <1>4, <2>1, <2>2, <2>3 DEF Listed
<1> QED BY <1>1, <1>5, <1>6, <1>7

\* So does the beginning: "lib", then "lib/modules", then the release.
LEMMA LeadOrder ==
    ASSUME Typed, Unpackable, Lead
    PROVE  Unpackable' /\ Listed'
<1>0. TypeOK
  BY DEF Typed
<1>1. DOMAIN todo' = {<<>>}
  BY DEF Typed, Beginning, Lead
<1>2. /\ At(<<0>>, Dir) \in Record /\ At(<<0>>, Dir).path = <<0>>
      /\ At(<<0, 0>>, Dir) \in Record /\ At(<<0, 0>>, Dir).path = <<0, 0>>
      /\ Len(<<0>>) = 1 /\ Len(<<0, 0>>) = 2 /\ Len(<<0, 0, 0>>) = 3
  BY Leaders, Fields
<1>3. CASE written = <<>> /\ Emit(At(<<0>>, Dir), "lead")
  <2>1. written' = Append(written, At(<<0>>, Dir)) /\ pc' # "walk"
    BY <1>3 DEF Emit
  <2>2. Names = {}
    BY <1>3 DEF Names, Archive
  <2>3. ~(Len(<<0>>) > 1)
    BY <1>2
  <2>4. Unpackable'
    BY <1>0, <1>2, <2>1, <2>2, <2>3, OneMore
  <2> QED BY <2>1, <2>4 DEF Listed
<1>4. CASE written = <<At(<<0>>, Dir)>> /\ Emit(At(<<0, 0>>, Dir), "walk")
  <2>1. written' = Append(written, At(<<0, 0>>, Dir))
    BY <1>4 DEF Emit
  <2>2. Archive = {At(<<0>>, Dir)} /\ Names = {<<0>>}
    <3>1. DOMAIN written = {1} /\ written[1] = At(<<0>>, Dir)
      BY <1>4
    <3>2. Archive = {At(<<0>>, Dir)}
      BY <3>1 DEF Archive
    <3> QED BY <1>2, <3>2 DEF Names
  <2>3. Parent(<<0, 0>>) = <<0>>
    <3>1. <<0, 0>> \in Seq(Nat) /\ <<0, 0>> # <<>> /\ <<0, 0>>[1] = 0
      OBVIOUS
    <3>2. /\ Parent(<<0, 0>>) \in Seq(Nat) /\ Len(Parent(<<0, 0>>)) = Len(<<0, 0>>) - 1
          /\ \A i \in 1 .. Len(<<0, 0>>) - 1 : Parent(<<0, 0>>)[i] = <<0, 0>>[i]
      BY <3>1, ParentOf
    <3>3. Len(Parent(<<0, 0>>)) = 1 /\ Parent(<<0, 0>>)[1] = 0
      BY <1>2, <3>1, <3>2
    <3>4. <<0>> \in Seq(Nat) /\ Len(<<0>>) = 1 /\ <<0>>[1] = 0
      OBVIOUS
    <3>5. \A i \in 1 .. 1 : Parent(<<0, 0>>)[i] = <<0>>[i]
      BY <3>3, <3>4
    <3> QED BY <3>2, <3>3, <3>4, <3>5, SeqEqual
  <2>4. <<0, 0>> # <<0>> /\ <<0, 0, 0>> # <<0>> /\ <<0, 0, 0>> # <<0, 0>>
    BY <1>2
  <2>5. Unpackable'
    BY <1>0, <1>2, <2>1, <2>2, <2>3, <2>4, OneMore
  <2>6. Names' = {<<0>>, <<0, 0>>} /\ At(<<0, 0>>, Dir) \in Archive'
    BY <1>0, <1>2, <2>1, <2>2, NewName
  <2>7. Listed'
    BY <1>1, <2>4, <2>6, NameOfRoot DEF Listed
  <2> QED BY <2>5, <2>7
<1> QED BY <1>3, <1>4, Led

\* The trailer has a name of its own.
LEMMA EndOrder ==
    ASSUME Typed, Underway, Unpackable, End
    PROVE  Unpackable' /\ Listed'
<1>1. /\ pc = "walk" /\ written' = Append(written, Trailer)
      /\ pc' \in {"returning", "giving up"}
  BY DEF End, Emit
<1>2. Trailer \in Record /\ Trailer.path = <<1>> /\ Len(<<1>>) = 1
  BY Leaders
<1>3. <<1>> \notin Names
  BY <1>1 DEF Underway
<1>4. ~(Len(Trailer.path) > 1) /\ Trailer.path \notin Names
  BY <1>2, <1>3
<1>5. Unpackable'
  BY <1>1, <1>2, <1>4, OneMore DEF Typed
<1> QED BY <1>1, <1>5 DEF Listed

\* Every step keeps the archive in an order that can be unpacked.
LEMMA OrderStep ==
    Typed /\ Underway /\ Unpackable /\ Listed /\ [Next]_vars => (Unpackable /\ Listed)'
<1> SUFFICES ASSUME Typed, Underway, Unpackable, Listed, [Next]_vars PROVE Unpackable' /\ Listed'
  OBVIOUS
<1>1. CASE UNCHANGED <<pc, todo, written>>
  BY <1>1 DEF Unpackable, Listed, Names, Archive
<1>2. CASE Refuse
  BY <1>2 DEF Refuse, Unpackable, Listed
<1>3. CASE Create
  <2>1. pc' = "lead" /\ DOMAIN written' = {}
    BY <1>3, EmptySeq DEF Create
  <2> QED BY <2>1 DEF Unpackable, Listed
<1>4. CASE Close
  <2>1. written' = written /\ pc' # "walk"
    BY <1>4 DEF Close
  <2> QED BY <2>1 DEF Unpackable, Listed
<1>5. CASE UNCHANGED vars \/ DiskFills \/ Change
  BY <1>1, <1>5 DEF vars, DiskFills, Change
<1> QED BY <1>2, <1>3, <1>4, <1>5, LeadOrder, VisitOrder, EndOrder DEF Next

\* The kernel can unpack the archive in one pass, whatever happens to the tree
\* between two steps of the walk: every name occurs once, after its directory.
THEOREM Unpacking == Spec => []Unpackable
<1>1. Init => Typed /\ Ending /\ Unpackable /\ Listed
  <2>1. Init => DOMAIN written = {} /\ pc = "idle"
    BY EmptySeq DEF Init
  <2>2. Init => Typed /\ Ending
    BY TypeInit DEF Init, Ending, Underway, Ended, FailureShows
  <2> QED BY <2>1, <2>2 DEF Unpackable, Listed
<1>2. Typed /\ Ending /\ Unpackable /\ Listed /\ [Next]_vars
      => (Typed /\ Ending /\ Unpackable /\ Listed)'
  BY TypeStep, EndStep, OrderStep DEF Ending
<1> QED BY <1>1, <1>2, PTL DEF Spec

-----------------------------------------------------------------------------
(* The archive mirrors the tree.                                           *)

\* --src is a directory, not a link to one.
Plain == "link" \notin Sources

\* What was in the tree from the start is there, under directories that were.
Lasting ==
    /\ lasting \subseteq Records(tree)
    /\ \A r \in lasting : \A k \in 0 .. Len(r.path) - 1 : At(SubSeq(r.path, 1, k), Dir) \in lasting
    /\ pc \notin Idle => Records(tree) \subseteq seen

InArchive(r) == At(Name(r.path), r.node) \in Archive
Awaited(r) == \E k \in 0 .. Len(r.path) : SubSeq(r.path, 1, k) \in DOMAIN todo

\* It is packed, or it waits in the list, itself or a directory above it; and
\* it was listed as what it is.
Covered == pc \in {"lead", "walk"} => \A r \in lasting :
    /\ r.node.kind # "other" => InArchive(r) \/ Awaited(r)
    /\ r.path \in DOMAIN todo => todo[r.path] = r.node.kind

\* A walk that came to its end packed all of it.
Complete ==
    /\ pc \in {"returning", "ok"} =>
          Trailer \in Archive /\ \A r \in lasting : r.node.kind # "other" => InArchive(r)
    /\ pc = "ok" /\ ~full => stored = Len(written) + 1

\* The tree held n at p at some time, or there was a link on the way.
Held(p, n) == At(p, n) \in seen \/ Linked(p)

\* Nothing is packed that the tree did not hold at some time, links apart.
Genuine == \A r \in Archive \ {Trailer} :
    \/ \E i \in DOMAIN Leading : r.path = Leading[i]
    \/ \E p \in Paths : r.path = Name(p) /\ Held(p, r.node)

\* What is listed as a directory was one, and so is what the walk begins with.
Listings == pc \in {"lead", "walk"} => \A p \in DOMAIN todo :
    /\ todo[p] = "dir" => Held(p, Dir)
    /\ p = <<>> => todo[p] = "dir"

Mirroring == Lasting /\ Covered /\ Complete /\ Genuine /\ Listings

\* A record of the tree.
LEMMA OfTree ==
    ASSUME NEW t, NEW r \in Records(t)
    PROVE  r.path \in DOMAIN t /\ r.node = t[r.path]
  BY DEF Records, At

\* What lasts, lasts with the directories above it.
LEMMA CreateLasting ==
    ASSUME Typed, Create
    PROVE  Lasting'
<1>1. PICK out \in Outs :
        /\ tree' = [p \in DOMAIN tree \cup out |-> IF p \in out THEN Partial ELSE tree[p]]
        /\ seen' = Records(tree')
        /\ lasting' = {r \in Records(tree') : r.path \notin out}
  BY DEF Create
<1>2. IsTree(tree')
  <2>1. Typed'
    BY TypeStep DEF Next
  <2> QED BY <2>1 DEF Typed, TypeOK
<1>3. \A p \in out : p \in DOMAIN tree' => tree'[p] = Partial
  BY <1>1
<1>4. ASSUME NEW r \in lasting', NEW k \in 0 .. Len(r.path) - 1
      PROVE  At(SubSeq(r.path, 1, k), Dir) \in lasting'
  <2>1. r.path \in DOMAIN tree'
    BY <1>1, OfTree
  <2>2. SubSeq(r.path, 1, k) \in DOMAIN tree' /\ tree'[SubSeq(r.path, 1, k)] = Dir
    BY <1>2, <1>4, <2>1 DEF IsTree
  <2> DEFINE q == SubSeq(r.path, 1, k)
  <2> HIDE DEF q
  <2>3. q \in DOMAIN tree' /\ tree'[q] = Dir
    BY <2>2 DEF q
  <2>4. q \notin out
    BY <1>3, <2>3, Nodes_Kinds
  <2>5. At(q, Dir) \in Records(tree') /\ At(q, Dir).path = q
    BY <2>3, Fields DEF Records
  <2> QED BY <1>1, <2>4, <2>5 DEF q
<1> QED BY <1>1, <1>4 DEF Lasting

\* A change of the tree only ends lives of nodes.
LEMMA ChangeLasting ==
    ASSUME Lasting, Change
    PROVE  Lasting' /\ lasting' \subseteq lasting /\ seen \subseteq seen'
<1>1. /\ IsTree(tree') /\ pc' = pc
      /\ seen' = seen \cup Records(tree') /\ lasting' = lasting \cap Records(tree')
  BY DEF Change
<1>2. ASSUME NEW r \in lasting', NEW k \in 0 .. Len(r.path) - 1
      PROVE  At(SubSeq(r.path, 1, k), Dir) \in lasting'
  <2>1. At(SubSeq(r.path, 1, k), Dir) \in lasting
    BY <1>1, <1>2 DEF Lasting
  <2>2. r.path \in DOMAIN tree'
    BY <1>1, OfTree
  <2>3. SubSeq(r.path, 1, k) \in DOMAIN tree' /\ tree'[SubSeq(r.path, 1, k)] = Dir
    BY <1>1, <1>2, <2>2 DEF IsTree
  <2>4. At(SubSeq(r.path, 1, k), Dir) \in Records(tree')
    BY <2>3 DEF Records
  <2> QED BY <1>1, <2>1, <2>4
<1> QED BY <1>1, <1>2 DEF Lasting

\* What waits below a path that is visited was listed with it as a directory;
\* when it is entered, the next path on the way is listed.
LEMMA OnTheWay ==
    ASSUME Typed, Lasting, Covered, pc = "walk", NEW p \in DOMAIN todo,
           NEW r \in lasting, NEW k \in 0 .. Len(r.path), p = SubSeq(r.path, 1, k)
    PROVE  \/ p = r.path
           \/ /\ todo[p] = "dir"
              /\ \E l \in 0 .. Len(r.path) : SubSeq(r.path, 1, l) \in DOMAIN Listing(tree, p)
<1>0. IsTree(tree) /\ r \in Records(tree)
  BY DEF Typed, TypeOK, Lasting
<1>1. r.path \in Seq(Nat) /\ r.path \in DOMAIN tree /\ Len(r.path) \in Nat
  BY <1>0, OfTree, TreeTypes, LenProperties
<1>2. CASE k = Len(r.path)
  <2>1. /\ p \in Seq(Nat) /\ Len(p) = Len(r.path)
        /\ \A i \in 1 .. Len(r.path) : p[i] = r.path[i]
    BY <1>1, <1>2, Prefix
  <2>2. p = r.path
    BY <1>1, <2>1, SeqEqual
  <2> QED BY <2>2
<1>3. CASE k # Len(r.path)
  <2>1. k \in 0 .. Len(r.path) - 1 /\ k + 1 \in 0 .. Len(r.path)
    BY <1>1, <1>3
  <2>2. At(p, Dir) \in lasting
    BY <2>1 DEF Lasting
  <2>3. todo[p] = "dir"
    BY <2>2, Fields, Nodes_Kinds DEF Covered
  <2> DEFINE q == SubSeq(r.path, 1, k + 1)
  <2>4. q # <<>> /\ Parent(q) = p
    BY <1>1, <2>1, ParentOfPrefix
  <2>5. q \in DOMAIN tree
    <3>1. CASE k + 1 = Len(r.path)
      <4>1. q \in Seq(Nat) /\ Len(q) = k + 1 /\ \A i \in 1 .. k + 1 : q[i] = r.path[i]
        BY <1>1, <2>1, Prefix
      <4>2. q = r.path
        BY <1>1, <3>1, <4>1, SeqEqual
      <4> QED BY <1>1, <4>2
    <3>2. CASE k + 1 # Len(r.path)
      <4>1. k + 1 \in 0 .. Len(r.path) - 1
        BY <1>1, <2>1, <3>2
      <4> QED BY <1>0, <1>1, <4>1 DEF IsTree
    <3> QED BY <3>1, <3>2
  <2>6. q \in DOMAIN Listing(tree, p)
    BY <2>4, <2>5 DEF Listing
  <2> QED BY <2>1, <2>3, <2>6
<1> QED BY <1>2, <1>3

\* A path that leads through a link is below a link; so is what is below it.
LEMMA NowLinked ==
    ASSUME Records(tree) \subseteq seen, NEW p, Through(p)
    PROVE  Linked(p)
<1>1. PICK k \in 0 .. Len(p) :
        SubSeq(p, 1, k) \in DOMAIN tree /\ tree[SubSeq(p, 1, k)].kind = "link"
  BY DEF Through
<1> DEFINE q == SubSeq(p, 1, k)
<1>2. At(q, tree[q]) \in seen
  BY <1>1 DEF Records
<1>3. At(q, tree[q]).path = q /\ At(q, tree[q]).node = tree[q]
  BY DEF At
<1> QED BY <1>1, <1>2, <1>3 DEF Linked

LEMMA LinkedBelow ==
    ASSUME NEW q \in Seq(Nat), q # <<>>, Linked(Parent(q))
    PROVE  Linked(q)
<1>1. PICK k \in 0 .. Len(Parent(q)), r \in seen :
        r.path = SubSeq(Parent(q), 1, k) /\ r.node.kind = "link"
  BY DEF Linked
<1>2. Len(q) \in Nat \ {0} /\ Len(Parent(q)) = Len(q) - 1
  BY ParentOf
<1>3. Len(q) - 1 \in 0 .. Len(q) /\ k \in 0 .. Len(q) - 1 /\ k \in 0 .. Len(q)
  BY <1>2
<1>4. SubSeq(Parent(q), 1, k) = SubSeq(q, 1, k)
  BY <1>3, PrefixOfPrefix DEF Parent
<1> QED BY <1>1, <1>3, <1>4 DEF Linked

\* What was held is still said to have been when more has been.
LEMMA StillHeld ==
    ASSUME seen \subseteq seen'
    PROVE  \A p, n : Held(p, n) => Held(p, n)'
BY DEF Held, Linked

\* What a visit packs, and what it lists, was there or behind a link.
LEMMA VisitHeld ==
    ASSUME TypeOK, Records(tree) \subseteq seen, Listings, NEW p \in Paths, pc = "walk", IsNext(p)
    PROVE  /\ \A n : Origin(p, n) => Held(p, n)
           /\ \A more \in Entries(p) : \A q \in DOMAIN more :
                 /\ q # <<>>
                 /\ more[q] = "dir" => Held(q, Dir)
<1>1. /\ todo[p] = "dir" => Held(p, Dir)
      /\ p = <<>> => todo[p] = "dir"
  BY DEF Listings, IsNext
<1>2. Through(p) => Linked(p)
  BY NowLinked
<1>3. ASSUME NEW n, Origin(p, n) PROVE Held(p, n)
  <2>1. p \in DOMAIN tree => At(p, tree[p]) \in seen
    BY DEF Records
  <2> QED BY <1>1, <1>2, <1>3, <2>1 DEF Origin, Held
<1>4. ASSUME NEW more \in Entries(p), NEW q \in DOMAIN more
      PROVE  q # <<>> /\ (more[q] = "dir" => Held(q, Dir))
  <2>1. /\ q \in Seq(Nat) /\ q # <<>> /\ Parent(q) = p
        /\ more = Listing(tree, p) \/ Through(p)
    BY <1>4, Listable
  <2>2. CASE Through(p)
    BY <1>2, <2>1, <2>2, LinkedBelow DEF Held
  <2>3. CASE more = Listing(tree, p)
    <3>1. q \in DOMAIN tree /\ more[q] = tree[q].kind
      BY <1>4, <2>3 DEF Listing
    <3>2. tree[q].kind = "dir" => tree[q] = Dir
      BY <3>1, TreeTypes, Nodes_Kinds DEF TypeOK
    <3>3. At(q, tree[q]) \in seen
      BY <3>1 DEF Records
    <3> QED BY <2>1, <3>1, <3>2, <3>3 DEF Held
  <2> QED BY <2>1, <2>2, <2>3
<1> QED BY <1>3, <1>4

\* So the list stays one of directories that were there.
LEMMA VisitListings ==
    ASSUME TypeOK, Records(tree) \subseteq seen, Listings, NEW p \in Paths, pc = "walk", IsNext(p),
           VisitDir(p) \/ VisitLeaf(p) \/ VisitOther(p) \/ VisitFails(p), seen' = seen
    PROVE  Listings'
<1>1. \/ todo' = Rest(p)
      \/ \E more \in Entries(p) :
            todo' = [q \in DOMAIN Rest(p) \cup DOMAIN more |->
                        IF q \in DOMAIN more THEN more[q] ELSE todo[q]]
  BY DEF VisitDir, VisitLeaf, VisitOther, VisitFails
<1>2. /\ DOMAIN Rest(p) = DOMAIN todo \ {p}
      /\ \A q \in DOMAIN todo \ {p} : Rest(p)[q] = todo[q]
  BY DEF Rest
<1>3. \A q \in DOMAIN todo : /\ todo[q] = "dir" => Held(q, Dir)
                             /\ q = <<>> => todo[q] = "dir"
  BY DEF Listings
<1>4. ASSUME NEW q \in DOMAIN todo'
      PROVE  (todo'[q] = "dir" => Held(q, Dir)) /\ (q = <<>> => todo'[q] = "dir")
  <2>1. CASE todo' = Rest(p)
    BY <1>2, <1>3, <1>4, <2>1
  <2>2. ASSUME NEW more \in Entries(p),
               todo' = [r \in DOMAIN Rest(p) \cup DOMAIN more |->
                           IF r \in DOMAIN more THEN more[r] ELSE todo[r]]
        PROVE  (todo'[q] = "dir" => Held(q, Dir)) /\ (q = <<>> => todo'[q] = "dir")
    <3>1. CASE q \in DOMAIN more
      <4>1. todo'[q] = more[q]
        BY <1>4, <2>2, <3>1
      <4>2. q # <<>> /\ (more[q] = "dir" => Held(q, Dir))
        BY <3>1, VisitHeld
      <4> QED BY <4>1, <4>2
    <3>2. CASE q \notin DOMAIN more
      <4>1. q \in DOMAIN todo /\ todo'[q] = todo[q]
        BY <1>2, <1>4, <2>2, <3>2
      <4> QED BY <1>3, <4>1
    <3> QED BY <3>1, <3>2
  <2> QED BY <1>1, <2>1, <2>2
<1>5. \A q : Held(q, Dir) => Held(q, Dir)'
  BY DEF Held, Linked
<1> QED BY <1>4, <1>5 DEF Listings

\* A visit that goes on packs the path it visits, or lists what is below it.
LEMMA VisitCovers ==
    ASSUME Typed, Lasting, Covered, NEW p \in Paths, pc = "walk", IsNext(p), pc' = "walk",
           VisitDir(p) \/ VisitLeaf(p) \/ VisitOther(p) \/ VisitFails(p),
           UNCHANGED <<tree, lasting>>
    PROVE  Covered'
<1>0. TypeOK /\ p \in DOMAIN todo
  BY DEF Typed, IsNext
<1>1. Archive \subseteq Archive'
  <2>1. CASE written' = written
    BY <2>1 DEF Archive
  <2>2. ASSUME NEW n \in Nodes, NEW then, Emit(At(Name(p), n), then) PROVE Archive \subseteq Archive'
    BY <1>0, <2>2, NamedRecord, NewName DEF Emit
  <2> QED BY <1>0, <2>1, <2>2, Visited
<1>2. \A q \in DOMAIN todo \ {p} : q \in DOMAIN todo'
  BY DEF VisitDir, VisitLeaf, VisitOther, VisitFails, Rest
<1> SUFFICES ASSUME NEW r \in lasting
             PROVE  /\ r.node.kind # "other" => InArchive(r)' \/ Awaited(r)'
                    /\ r.path \in DOMAIN todo' => todo'[r.path] = r.node.kind
  BY DEF Covered, InArchive, Awaited
<1>3. r \in Records(tree) /\ r.path \in DOMAIN tree /\ r.node = tree[r.path]
  BY OfTree DEF Lasting
<1>4. r.path \in DOMAIN todo' => todo'[r.path] = r.node.kind
  <2>1. r.path \in DOMAIN todo => todo[r.path] = r.node.kind
    BY DEF Covered
  <2>2. \A q \in DOMAIN Rest(p) : q \in DOMAIN todo /\ Rest(p)[q] = todo[q]
    BY DEF Rest
  <2>3. ASSUME NEW more \in Entries(p), r.path \in DOMAIN more
        PROVE  more[r.path] = r.node.kind
    <3>1. r.path \in Seq(Nat) /\ r.path # <<>> /\ Parent(r.path) = p
      BY <1>0, <2>3, Listable
    <3>2. Len(r.path) \in Nat \ {0}
      BY <3>1, ParentOf
    <3>3. Len(r.path) - 1 \in 0 .. Len(r.path) - 1
      BY <3>2
    <3>4. p \in DOMAIN tree /\ tree[p] = Dir
      BY <1>0, <1>3, <3>1, <3>3 DEF TypeOK, IsTree, Parent
    <3>5. more = Listing(tree, p)
      BY <2>3, <3>4 DEF Entries
    <3> QED BY <1>3, <2>3, <3>5 DEF Listing
  <2>4. \/ todo' = Rest(p)
        \/ \E more \in Entries(p) :
              todo' = [q \in DOMAIN Rest(p) \cup DOMAIN more |->
                          IF q \in DOMAIN more THEN more[q] ELSE todo[q]]
    BY DEF VisitDir, VisitLeaf, VisitOther, VisitFails
  <2> QED BY <2>1, <2>2, <2>3, <2>4
<1>5. ASSUME r.node.kind # "other" PROVE InArchive(r)' \/ Awaited(r)'
  <2>1. CASE InArchive(r)
    BY <1>1, <2>1 DEF InArchive
  <2>2. ASSUME NEW k \in 0 .. Len(r.path), SubSeq(r.path, 1, k) \in DOMAIN todo,
               SubSeq(r.path, 1, k) # p
        PROVE  Awaited(r)'
    BY <1>2, <2>2 DEF Awaited
  <2>3. ASSUME NEW k \in 0 .. Len(r.path), SubSeq(r.path, 1, k) = p
        PROVE  InArchive(r)' \/ Awaited(r)'
    <3>0. \/ p = r.path
          \/ /\ todo[p] = "dir"
             /\ \E l \in 0 .. Len(r.path) : SubSeq(r.path, 1, l) \in DOMAIN Listing(tree, p)
      BY <1>0, <2>3, OnTheWay
    <3>1. p = r.path => todo[p] = r.node.kind
      BY <1>0 DEF Covered
    <3>2. CASE VisitDir(p)
      <4>0. p \in DOMAIN tree /\ tree[p] = Dir
        <5>1. CASE p = r.path
          <6>1. tree[p].kind = "dir" /\ tree[p] \in Nodes
            BY <1>0, <1>3, <3>1, <3>2, <5>1, TreeTypes DEF VisitDir, TypeOK
          <6> QED BY <1>3, <5>1, <6>1, Nodes_Kinds
        <5>2. CASE p # r.path
          <6>1. r.path \in Seq(Nat) /\ Len(r.path) \in Nat
            BY <1>0, <1>3, TreeTypes, LenProperties DEF TypeOK
          <6>2. k # Len(r.path)
            BY <2>3, <5>2, <6>1, WholePrefix
          <6>3. k \in 0 .. Len(r.path) - 1
            BY <6>1, <6>2
          <6> QED BY <1>0, <1>3, <2>3, <6>3 DEF TypeOK, IsTree
        <5> QED BY <5>1, <5>2
      <4>1. Emit(At(Name(p), Dir), "walk") /\ DOMAIN Listing(tree, p) \subseteq DOMAIN todo'
        <5>1. Entries(p) = {Listing(tree, p)}
          BY <4>0 DEF Entries
        <5>2. pc' # "giving up"
          OBVIOUS
        <5>3. /\ Emit(At(Name(p), Dir), "walk")
              /\ \E more \in Entries(p) :
                    todo' = [q \in DOMAIN Rest(p) \cup DOMAIN more |->
                                IF q \in DOMAIN more THEN more[q] ELSE todo[q]]
          BY <3>2, <5>2 DEF VisitDir, Emit
        <5> QED BY <5>1, <5>3
      <4>2. At(Name(p), Dir) \in Archive'
        BY <1>0, <4>1, Nodes_Kinds, NamedRecord, NewName DEF Emit
      <4> QED BY <1>3, <3>0, <4>0, <4>1, <4>2 DEF InArchive, Awaited
    <3>3. CASE VisitLeaf(p)
      <4>1. p = r.path /\ todo[p] = r.node.kind /\ todo[p] \in {"file", "link"}
        BY <3>0, <3>1, <3>3 DEF VisitLeaf
      <4>2. p # <<>>
        BY <1>0, <1>3, <4>1, Nodes_Kinds DEF TypeOK, IsTree
      <4>3. Emit(At(Name(p), r.node), "walk") /\ r.node \in Nodes
        <5>1. r.node \in Nodes
          BY <1>0, <1>3, TreeTypes DEF TypeOK
        <5>2. Contents(todo[p], tree[p]) = {r.node} /\ Found(p) = {tree[p]}
          BY <1>3, <4>1 DEF Contents, Found
        <5>3. UNION {Contents(todo[p], m) : m \in Found(p)} = {r.node}
          BY <5>2
        <5> QED BY <3>3, <4>2, <5>1, <5>3 DEF VisitLeaf
      <4>4. At(Name(p), r.node) \in Archive'
        BY <1>0, <4>3, NamedRecord, NewName DEF Emit
      <4> QED BY <4>1, <4>4 DEF InArchive
    <3>4. ~VisitOther(p) /\ ~VisitFails(p)
      BY <1>5, <3>0, <3>1 DEF VisitOther, VisitFails, Abandon
    <3> QED BY <3>2, <3>3, <3>4
  <2> QED BY <2>1, <2>2, <2>3, <1>5 DEF Covered, Awaited
<1> QED BY <1>4, <1>5

\* A record for a path the tree holds is genuine.
LEMMA MoreGenuine ==
    ASSUME TypeOK, Genuine, NEW r \in Record, written' = Append(written, r), seen' = seen,
           \/ r = Trailer
           \/ \E i \in DOMAIN Leading : r.path = Leading[i]
           \/ \E p \in Paths : r.path = Name(p) /\ Held(p, r.node)
    PROVE  Genuine'
<1>1. Archive' = Archive \cup {r}
  BY NewName
<1>2. \A p, n : Held(p, n) => Held(p, n)'
  BY StillHeld
<1> QED BY <1>1, <1>2 DEF Genuine

\* Every step of the walk keeps its promise, or gives up.
LEMMA MirrorStep ==
    ASSUME Plain
    PROVE  Typed /\ Mirroring /\ [Next]_vars => Mirroring'
<1> SUFFICES ASSUME Typed, Mirroring, [Next]_vars PROVE Mirroring'
  OBVIOUS
<1>0. TypeOK /\ Lasting /\ Covered /\ Complete /\ Genuine /\ Listings
  BY DEF Typed, Mirroring
<1>1. CASE UNCHANGED vars \/ Refuse
  <2>1. /\ UNCHANGED <<tree, changes, todo, written, stored, full, seen, lasting>>
        /\ pc' = pc \/ pc' = "idle"
    BY <1>1 DEF vars, Refuse
  <2> QED BY <1>0, <2>1 DEF Mirroring, Lasting, Covered, Complete, Genuine, Listings, Held, Linked,
                            InArchive, Awaited, Archive, Idle
<1>2. CASE Create
  <2>1. /\ pc' = "lead" /\ full' = FALSE /\ written' = <<>> /\ IsTree(tree')
        /\ lasting' \subseteq Records(tree') /\ DOMAIN todo' = {<<>>}
        /\ todo'[<<>>] = "dir" /\ seen' = Records(tree')
    <3>1. Typed'
      BY <1>2, TypeStep DEF Next
    <3> QED BY <1>2, <3>1 DEF Create, Plain, Typed, TypeOK
  <2>2. Archive' = {}
    BY <2>1 DEF Archive
  <2>3. ASSUME NEW r \in lasting'
        PROVE  Awaited(r)' /\ (r.path = <<>> => r.node.kind = "dir")
    <3>1. r.path \in DOMAIN tree' /\ r.node = tree'[r.path]
      BY <2>1, OfTree
    <3>2. r.path \in Seq(Nat) /\ Len(r.path) \in Nat
      BY <2>1, <3>1, TreeTypes, LenProperties
    <3>3. 0 \in 0 .. Len(r.path) /\ SubSeq(r.path, 1, 0) = <<>>
      <4>1. 0 \in 0 .. Len(r.path)
        BY <3>2
      <4>2. SubSeq(r.path, 1, 0) \in Seq(Nat) /\ Len(SubSeq(r.path, 1, 0)) = 0
        BY <3>2, <4>1, Prefix
      <4> QED BY <4>1, <4>2, EmptySeq
    <3>4. r.path = <<>> => r.node.kind = "dir"
      BY <2>1, <3>1, Nodes_Kinds DEF IsTree
    <3> QED BY <2>1, <3>3, <3>4 DEF Awaited
  <2>4. Covered'
    BY <2>1, <2>3 DEF Covered, InArchive, Awaited
  <2>5. Lasting'
    BY <1>0, <1>2, CreateLasting DEF Mirroring, Typed
  <2>6. At(<<>>, Dir) \in seen'
    BY <2>1 DEF IsTree, Records
  <2>7. Listings'
    BY <2>1, <2>6 DEF Listings, Held
  <2> QED BY <2>1, <2>2, <2>4, <2>5, <2>7 DEF Mirroring, Complete, Genuine
<1>3. CASE Lead
  <2>1. PICK r \in {At(<<0>>, Dir), At(<<0, 0>>, Dir)}, then \in {"lead", "walk"} : Emit(r, then)
    BY <1>3, Led
  <2>2. UNCHANGED <<tree, changes, todo, full, seen, lasting>> /\ pc = "lead"
    BY <1>3 DEF Lead
  <2>3. r \in Record /\ \E i \in DOMAIN Leading : r.path = Leading[i]
    <3>1. 1 \in DOMAIN Leading /\ 2 \in DOMAIN Leading
      BY DEF Leading
    <3> QED BY <3>1, Leaders, Fields
  <2>4. written' = Append(written, r) /\ pc' \in {"lead", "walk", "giving up"}
    BY <1>0, <2>1 DEF Emit
  <2>5. Genuine' /\ Archive' = Archive \cup {r}
    BY <1>0, <2>2, <2>3, <2>4, MoreGenuine, NewName
  <2>6. Lasting'
    BY <1>0, <2>2, <2>4 DEF Lasting, Idle
  <2>7. Covered'
    BY <1>0, <2>2, <2>5 DEF Covered, InArchive, Awaited
  <2>8. Listings'
    BY <1>0, <2>2, <2>4 DEF Listings, Held, Linked
  <2> QED BY <1>0, <2>2, <2>4, <2>5, <2>6, <2>7, <2>8 DEF Mirroring, Complete
<1>4. CASE Visit
  <2>1. PICK p \in Paths :
          /\ pc = "walk" /\ IsNext(p)
          /\ VisitDir(p) \/ VisitLeaf(p) \/ VisitOther(p) \/ VisitFails(p)
    BY <1>4 DEF Visit
  <2>2. UNCHANGED <<tree, changes, full, seen, lasting>>
    BY <1>4 DEF Visit
  <2>0. TypeOK /\ Records(tree) \subseteq seen
    BY <1>0, <2>1 DEF Lasting, Idle
  <2>3. pc' \in {"walk", "giving up"} /\ Genuine'
    <3>1. CASE UNCHANGED <<written, stored>> /\ pc' \in {pc, "giving up"}
      BY <1>0, <2>1, <2>2, <3>1 DEF Genuine, Archive, Held, Linked
    <3>2. ASSUME NEW n \in Nodes, NEW then \in {"walk", "giving up"},
                 Emit(At(Name(p), n), then), Origin(p, n)
          PROVE  pc' \in {"walk", "giving up"} /\ Genuine'
      <4>1. Held(p, n)
        BY <1>0, <2>0, <2>1, <3>2, VisitHeld
      <4>2. At(Name(p), n) \in Record /\ At(Name(p), n).path = Name(p) /\ At(Name(p), n).node = n
        BY NamedRecord, Fields
      <4>3. written' = Append(written, At(Name(p), n)) /\ pc' \in {then, "giving up"}
        BY <3>2 DEF Emit
      <4> DEFINE r == At(Name(p), n)
      <4>4. r \in Record /\ r.path = Name(p) /\ Held(p, r.node) /\ written' = Append(written, r)
        BY <4>1, <4>2, <4>3
      <4> HIDE DEF r
      <4>5. Genuine'
        BY <1>0, <2>2, <4>4, MoreGenuine
      <4> QED BY <4>3, <4>5
    <3>3. \/ UNCHANGED <<written, stored>> /\ pc' \in {pc, "giving up"}
          \/ \E n \in Nodes, then \in {"walk", "giving up"} :
                Emit(At(Name(p), n), then) /\ Origin(p, n)
      BY <1>0, <2>1, Visited
    <3> QED BY <3>1, <3>2, <3>3
  <2>4. Lasting'
    BY <1>0, <2>1, <2>2 DEF Lasting, Idle
  <2>5. Covered'
    <3>1. CASE pc' = "walk"
      BY <1>0, <2>1, <2>2, <3>1, VisitCovers
    <3> QED BY <2>3, <3>1 DEF Covered
  <2>6. Listings'
    BY <1>0, <2>0, <2>1, <2>2, VisitListings
  <2> QED BY <1>0, <2>2, <2>3, <2>4, <2>5, <2>6 DEF Mirroring, Complete
<1>5. CASE End
  <2>1. /\ pc = "walk" /\ DOMAIN todo = {} /\ Emit(Trailer, "returning")
        /\ UNCHANGED <<tree, changes, todo, full, seen, lasting>>
    BY <1>5 DEF End
  <2>2. written' = Append(written, Trailer) /\ pc' \in {"returning", "giving up"}
    BY <1>0, <2>1 DEF Emit
  <2>3. Genuine' /\ Archive' = Archive \cup {Trailer}
    BY <1>0, <2>1, <2>2, Leaders, MoreGenuine, NewName
  <2>4. \A r \in lasting : r.node.kind # "other" => InArchive(r)
    BY <1>0, <2>1 DEF Covered, Awaited
  <2>5. Complete'
    BY <2>1, <2>2, <2>3, <2>4 DEF Complete, InArchive
  <2>6. Lasting'
    BY <1>0, <2>1, <2>2 DEF Lasting, Idle
  <2> QED BY <1>0, <2>1, <2>2, <2>3, <2>5, <2>6 DEF Mirroring, Covered, Listings
<1>6. CASE Close
  <2>1. /\ UNCHANGED <<tree, changes, todo, written, full, seen, lasting>>
        /\ pc' = IF pc = "returning" THEN "ok" ELSE "failed"
        /\ pc \in {"returning", "giving up"}
        /\ ~full => stored' = Len(written) + 1
    BY <1>6 DEF Close
  <2>2. Archive' = Archive
    BY <2>1 DEF Archive
  <2>3. Genuine'
    BY <1>0, <2>1, <2>2 DEF Genuine, Held, Linked
  <2>4. Lasting' /\ Complete'
    BY <1>0, <2>1, <2>2 DEF Lasting, Complete, InArchive, Idle
  <2>5. Covered' /\ Listings'
    BY <2>1 DEF Covered, Listings
  <2> QED BY <2>3, <2>4, <2>5 DEF Mirroring
<1>7. CASE DiskFills
  <2>1. /\ UNCHANGED <<tree, changes, pc, todo, written, stored, seen, lasting>>
        /\ pc \notin Idle /\ Archive' = Archive
    BY <1>7 DEF DiskFills, Archive
  <2> QED BY <1>0, <2>1 DEF Mirroring, Lasting, Covered, Complete, Genuine, Listings, Held, Linked,
                            InArchive, Awaited, Idle
<1>8. CASE Change
  <2>1. UNCHANGED <<pc, todo, written, stored, full>> /\ Archive' = Archive
    BY <1>8 DEF Change, Archive
  <2>2. Lasting' /\ lasting' \subseteq lasting /\ seen \subseteq seen'
    BY <1>0, <1>8, ChangeLasting
  <2>3. \A p, n : Held(p, n) => Held(p, n)'
    BY <2>2, StillHeld
  <2>4. Genuine' /\ Listings'
    BY <1>0, <2>1, <2>3 DEF Genuine, Listings
  <2> QED BY <1>0, <2>1, <2>2, <2>4 DEF Mirroring, Covered, Complete, InArchive, Awaited
<1> QED BY <1>1, <1>2, <1>3, <1>4, <1>5, <1>6, <1>7, <1>8 DEF Next

\* For a directory, and unless the disk is full, success means the whole archive
\* in the file, with all that was there all the time as it was, whatever other
\* programs do to the rest; nothing is packed that was there at no time, except
\* where the tree had a link at some time, which the walk may have followed.
THEOREM Mirrors == ASSUME Plain PROVE Spec => []Mirrored
<1>1. Init => Typed /\ Mirroring
  <2>1. Init => Archive = {} /\ lasting = {} /\ pc = "idle"
    BY EmptySeq DEF Init, Archive
  <2> QED BY <2>1, TypeInit DEF Mirroring, Lasting, Covered, Complete, Genuine, Listings, Idle
<1>2. Typed /\ Mirroring /\ [Next]_vars => (Typed /\ Mirroring)'
  BY TypeStep, MirrorStep
<1>3. Mirroring => Mirrored
  BY DEF Mirroring, Complete, Genuine, Held, InArchive, Mirrored
<1> QED BY <1>1, <1>2, <1>3, PTL DEF Spec

-----------------------------------------------------------------------------
(* The order of the names.                                                 *)

\* What is packed comes before what waits, and all of it before the trailer.
InOrder ==
    /\ pc \in {"lead", "walk"} => \A i \in DOMAIN written : Before(written[i].path, <<1>>)
    /\ pc = "walk" => \A i \in DOMAIN written : \A p \in DOMAIN todo :
          Before(written[i].path, Name(p))

\* The order of names is the order of paths.
LEMMA NameBefore ==
    ASSUME NEW p \in Seq(Nat), NEW q \in Seq(Nat), Before(p, q)
    PROVE  Before(Name(p), Name(q))
<1> DEFINE m == Len(p)
           n == Len(q)
           v == Name(p)
           w == Name(q)
<1>1. /\ m \in Nat /\ n \in Nat
      /\ Len(v) = m + 3 /\ Len(w) = n + 3
      /\ \A k \in 1 .. 3 : v[k] = w[k]
      /\ \A k \in 1 .. m : v[k + 3] = p[k]
      /\ \A k \in 1 .. n : w[k + 3] = q[k]
  BY NameOf
<1>2. PICK i \in 1 .. n : /\ i <= m + 1
                          /\ \A k \in 1 .. (i - 1) : p[k] = q[k]
                          /\ i <= m => p[i] < q[i]
  BY DEF Before
<1>3. ASSUME NEW j \in 1 .. Len(w), j <= Len(v) + 1,
             \A k \in 1 .. (j - 1) : v[k] = w[k], j <= Len(v) => v[j] < w[j]
      PROVE  Before(v, w)
  BY <1>3 DEF Before
<1> HIDE DEF m, n, v, w
<1>4. PICK j \in 1 .. Len(w) : j = i + 3
  BY <1>1
<1>5. j <= Len(v) + 1 /\ (j <= Len(v) => v[j] < w[j])
  <2>1. i <= m => i \in 1 .. m
    BY <1>1
  <2> QED BY <1>1, <1>2, <1>4, <2>1
<1>6. ASSUME NEW k \in 1 .. (j - 1) PROVE v[k] = w[k]
  <2>1. CASE k \in 1 .. 3
    BY <1>1, <2>1
  <2>2. CASE k \notin 1 .. 3
    <3>1. PICK o \in 1 .. (i - 1) : k = o + 3
      <4>1. k - 3 \in 1 .. (i - 1) /\ k = (k - 3) + 3
        BY <1>1, <1>4, <2>2
      <4> QED BY <4>1
    <3>2. o \in 1 .. m /\ o \in 1 .. n
      BY <1>1, <1>2, <3>1
    <3> QED BY <1>1, <1>2, <3>1, <3>2
  <2> QED BY <2>1, <2>2
<1>7. Before(v, w)
  BY <1>3, <1>5, <1>6
<1> QED BY <1>7 DEF v, w

\* A name comes after the directory's, and before the trailer's.
LEMMA ParentBefore ==
    ASSUME NEW q \in Seq(Nat), q # <<>>
    PROVE  Before(Parent(q), q)
<1> DEFINE p == Parent(q)
<1>1. /\ p \in Seq(Nat) /\ Len(q) \in Nat \ {0} /\ Len(p) = Len(q) - 1
      /\ \A i \in 1 .. Len(q) - 1 : p[i] = q[i]
  BY ParentOf
<1> HIDE DEF p
<1>2. Len(p) < Len(q) /\ \A i \in 1 .. Len(p) : p[i] = q[i]
  BY <1>1
<1>3. Before(p, q)
  BY <1>1, <1>2, Longer
<1> QED BY <1>3 DEF p

\* A path that begins with 0 comes before the path 1.
LEMMA ZeroBefore ==
    ASSUME NEW v \in Seq(Nat), v # <<>>, v[1] = 0
    PROVE  Before(v, <<1>>)
<1>1. Len(<<1>>) = 1 /\ <<1>>[1] = 1 /\ Len(v) \in Nat /\ 1 <= Len(v) + 1
  BY LenProperties
<1>2. 1 \in 1 .. Len(<<1>>) /\ \A k \in 1 .. (1 - 1) : v[k] = <<1>>[k]
  BY <1>1
<1>3. v[1] < <<1>>[1]
  BY <1>1
<1> QED BY <1>1, <1>2, <1>3 DEF Before

\* One more record after all others keeps their order.
LEMMA OneAfter ==
    ASSUME TypeOK, Reproducible, NEW r \in Record, written' = Append(written, r),
           \A i \in DOMAIN written : Before(written[i].path, r.path)
    PROVE  Reproducible'
<1> DEFINE m == Len(written)
<1>1. /\ m \in Nat
      /\ DOMAIN written = 1 .. m /\ DOMAIN written' = 1 .. m + 1
      /\ \A i \in 1 .. m : written'[i] = written[i]
      /\ written'[m + 1] = r
  BY Appended DEF TypeOK, Record
<1> HIDE DEF m
<1> SUFFICES ASSUME NEW i \in 1 .. m + 1, NEW k \in 1 .. m + 1, i < k
             PROVE  Before(written'[i].path, written'[k].path)
  BY <1>1 DEF Reproducible
<1>2. i \in 1 .. m /\ written'[i] = written[i]
  BY <1>1
<1>3. CASE k \in 1 .. m
  <2>1. written'[k] = written[k]
    BY <1>1, <1>3
  <2> QED BY <1>1, <1>2, <1>3, <2>1 DEF Reproducible
<1>4. CASE k = m + 1
  BY <1>1, <1>2, <1>4
<1>5. k \in 1 .. m \/ k = m + 1
  BY <1>1
<1> QED BY <1>3, <1>4, <1>5

\* Which records there are after a step.
LEMMA WrittenThen ==
    ASSUME TypeOK, NEW r \in Record, written' = Append(written, r), NEW i \in DOMAIN written'
    PROVE  written'[i] = r \/ (i \in DOMAIN written /\ written'[i] = written[i])
<1>1. /\ Len(written) \in Nat
      /\ DOMAIN written = 1 .. Len(written) /\ DOMAIN written' = 1 .. Len(written) + 1
      /\ \A k \in 1 .. Len(written) : written'[k] = written[k]
      /\ written'[Len(written) + 1] = r
  BY Appended DEF TypeOK, Record
<1>2. i = Len(written) + 1 \/ i \in 1 .. Len(written)
  BY <1>1
<1> QED BY <1>1, <1>2

\* The paths that are written are sequences.
LEMMA WrittenPaths ==
    ASSUME TypeOK
    PROVE  \A i \in DOMAIN written : written[i].path \in Seq(Nat)
<1>1. written \in Seq(Record)
  BY DEF TypeOK, Record
<1>2. \A i \in DOMAIN written : written[i] \in Record
  BY <1>1, LenProperties, ElementOfSeq
<1> QED BY <1>2 DEF Record

\* The walk packs what comes next.
LEMMA VisitSorted ==
    ASSUME Typed, Reproducible, InOrder, Visit
    PROVE  Reproducible' /\ InOrder'
<1>0. TypeOK
  BY DEF Typed
<1>1. PICK p \in Paths :
        /\ pc = "walk" /\ IsNext(p)
        /\ VisitDir(p) \/ VisitLeaf(p) \/ VisitOther(p) \/ VisitFails(p)
  BY DEF Visit
<1>2. /\ p \in DOMAIN todo /\ p \in Seq(Nat) /\ Name(p) \in Seq(Nat)
      /\ DOMAIN todo \subseteq Seq(Nat)
      /\ \A i \in DOMAIN written : written[i].path \in Seq(Nat)
      /\ \A i \in DOMAIN written : Before(written[i].path, Name(p))
      /\ \A i \in DOMAIN written : Before(written[i].path, <<1>>)
  BY <1>0, <1>1, PathsAssumption, NameOf, WrittenPaths DEF IsNext, InOrder, TypeOK
<1>3. pc' \in {"walk", "giving up"}
  BY <1>1 DEF VisitDir, VisitLeaf, VisitOther, VisitFails, Abandon, Emit
<1>4. ASSUME NEW q \in DOMAIN todo, q # p
      PROVE  Before(Name(p), Name(q)) /\ \A i \in DOMAIN written : Before(written[i].path, Name(q))
  <2>1. ~Before(q, p)
    BY <1>1 DEF IsNext
  <2>2. Before(p, q)
    BY <1>2, <1>4, <2>1, Total
  <2> QED BY <1>1, <1>2, <2>2, NameBefore DEF InOrder
<1>5. ASSUME NEW q \in Paths \ {<<>>}, Parent(q) = p
      PROVE  Before(Name(p), Name(q)) /\ \A i \in DOMAIN written : Before(written[i].path, Name(q))
  <2>1. q \in Seq(Nat) /\ q # <<>> /\ Name(q) \in Seq(Nat)
    BY PathsAssumption, NameOf
  <2>2. Before(Name(p), Name(q))
    BY <1>2, <1>5, <2>1, ParentBefore, NameBefore
  <2> QED BY <1>2, <2>1, <2>2, Transitive
<1>6. \A q \in DOMAIN todo' : \/ q \in DOMAIN todo /\ q # p
                              \/ q \in Paths \ {<<>>} /\ Parent(q) = p
  BY <1>0, <1>1, Visited
<1>7. CASE written' = written
  BY <1>1, <1>2, <1>3, <1>4, <1>5, <1>6, <1>7 DEF Reproducible, InOrder
<1>8. ASSUME NEW n \in Nodes, written' = Append(written, At(Name(p), n))
      PROVE  Reproducible' /\ InOrder'
  <2> DEFINE r == At(Name(p), n)
  <2>1. r \in Record /\ r.path = Name(p)
    BY NamedRecord, Fields
  <2> HIDE DEF r
  <2>2. written' = Append(written, r)
    BY <1>8 DEF r
  <2>3. Reproducible'
    BY <1>0, <1>2, <2>1, <2>2, OneAfter
  <2>4. ASSUME NEW i \in DOMAIN written'
        PROVE  \/ written'[i].path = Name(p)
               \/ i \in DOMAIN written /\ written'[i].path = written[i].path
    BY <1>0, <2>1, <2>2, WrittenThen
  <2>5. Before(Name(p), <<1>>)
    <3>1. Name(p) # <<>> /\ Name(p)[1] = 0
      BY <1>2, NameOf, EmptySeq
    <3> QED BY <1>2, <3>1, ZeroBefore
  <2>6. \A i \in DOMAIN written' : Before(written'[i].path, <<1>>)
    BY <1>2, <2>4, <2>5
  <2>7. \A i \in DOMAIN written' : \A q \in DOMAIN todo' : Before(written'[i].path, Name(q))
    BY <1>4, <1>5, <1>6, <2>4
  <2> QED BY <1>3, <2>3, <2>6, <2>7 DEF InOrder
<1>9. written' = written \/ \E n \in Nodes : written' = Append(written, At(Name(p), n))
  BY <1>0, <1>1, Visited DEF Emit
<1> QED BY <1>7, <1>8, <1>9

\* The two leading directories come first.
LEMMA LeadSorted ==
    ASSUME Typed, Reproducible, InOrder, Lead
    PROVE  Reproducible' /\ InOrder'
<1>0. TypeOK /\ DOMAIN todo' = {<<>>}
  BY DEF Typed, Beginning, Lead
<1>1. /\ At(<<0>>, Dir) \in Record /\ At(<<0>>, Dir).path = <<0>>
      /\ At(<<0, 0>>, Dir) \in Record /\ At(<<0, 0>>, Dir).path = <<0, 0>>
  BY Leaders, Fields
<1>2. Before(<<0>>, <<1>>) /\ Before(<<0, 0>>, <<1>>)
  <2>1. <<0>> \in Seq(Nat) /\ <<0>> # <<>> /\ <<0>>[1] = 0
    OBVIOUS
  <2>2. <<0, 0>> \in Seq(Nat) /\ <<0, 0>> # <<>> /\ <<0, 0>>[1] = 0
    OBVIOUS
  <2> QED BY <2>1, <2>2, ZeroBefore
<1>3. Before(<<0>>, <<0, 0>>) /\ Before(<<0>>, <<0, 0, 0>>) /\ Before(<<0, 0>>, <<0, 0, 0>>)
  <2>1. /\ Len(<<0>>) = 1 /\ Len(<<0, 0>>) = 2 /\ Len(<<0, 0, 0>>) = 3
        /\ <<0>>[1] = 0 /\ <<0, 0>>[1] = 0 /\ <<0, 0>>[2] = 0
        /\ <<0, 0, 0>>[1] = 0 /\ <<0, 0, 0>>[2] = 0
        /\ <<0>> \in Seq(Nat) /\ <<0, 0>> \in Seq(Nat) /\ <<0, 0, 0>> \in Seq(Nat)
    OBVIOUS
  <2>2. /\ \A i \in 1 .. Len(<<0>>) : <<0>>[i] = <<0, 0>>[i] /\ <<0>>[i] = <<0, 0, 0>>[i]
        /\ \A i \in 1 .. Len(<<0, 0>>) : <<0, 0>>[i] = <<0, 0, 0>>[i]
    BY <2>1
  <2>3. Len(<<0>>) < Len(<<0, 0>>) /\ Len(<<0>>) < Len(<<0, 0, 0>>) /\ Len(<<0, 0>>) < Len(<<0, 0, 0>>)
    BY <2>1
  <2> QED BY <2>1, <2>2, <2>3, Longer
<1>4. CASE written = <<>> /\ Emit(At(<<0>>, Dir), "lead")
  <2>0. DOMAIN written = {}
    BY <1>4, EmptySeq
  <2>1. written' = Append(written, At(<<0>>, Dir)) /\ pc' # "walk"
    BY <1>4 DEF Emit
  <2>2. Reproducible'
    BY <1>0, <1>1, <2>0, <2>1, OneAfter
  <2>3. \A i \in DOMAIN written' : written'[i].path = <<0>>
    BY <1>0, <1>1, <2>0, <2>1, WrittenThen
  <2> QED BY <1>2, <2>1, <2>2, <2>3 DEF InOrder
<1>5. CASE written = <<At(<<0>>, Dir)>> /\ Emit(At(<<0, 0>>, Dir), "walk")
  <2>1. written' = Append(written, At(<<0, 0>>, Dir))
    BY <1>5 DEF Emit
  <2>2. \A i \in DOMAIN written : written[i].path = <<0>>
    BY <1>1, <1>5
  <2>3. Reproducible'
    BY <1>0, <1>1, <1>3, <2>1, <2>2, OneAfter
  <2>4. \A i \in DOMAIN written' : written'[i].path = <<0, 0>> \/ written'[i].path = <<0>>
    BY <1>0, <1>1, <2>1, <2>2, WrittenThen
  <2> QED BY <1>0, <1>2, <1>3, <2>3, <2>4, NameOfRoot DEF InOrder
<1> QED BY <1>4, <1>5, Led

\* Every step keeps the order.
LEMMA SortedStep ==
    Typed /\ Reproducible /\ InOrder /\ [Next]_vars => (Reproducible /\ InOrder)'
<1> SUFFICES ASSUME Typed, Reproducible, InOrder, [Next]_vars PROVE Reproducible' /\ InOrder'
  OBVIOUS
<1>1. CASE UNCHANGED <<pc, todo, written>>
  BY <1>1 DEF Reproducible, InOrder
<1>2. CASE Refuse \/ Close
  <2>1. written' = written /\ pc' \notin {"lead", "walk"}
    BY <1>2 DEF Refuse, Close
  <2> QED BY <2>1 DEF Reproducible, InOrder
<1>3. CASE Create
  <2>1. pc' = "lead" /\ DOMAIN written' = {}
    BY <1>3, EmptySeq DEF Create
  <2> QED BY <2>1 DEF Reproducible, InOrder
<1>4. CASE End
  <2>1. pc = "walk" /\ written' = Append(written, Trailer) /\ pc' \notin {"lead", "walk"}
    BY <1>4 DEF End, Emit
  <2>2. Reproducible'
    BY <2>1, Leaders, OneAfter DEF Typed, InOrder
  <2> QED BY <2>1, <2>2 DEF InOrder
<1>5. CASE UNCHANGED vars \/ DiskFills \/ Change
  BY <1>1, <1>5 DEF vars, DiskFills, Change
<1> QED BY <1>2, <1>3, <1>4, <1>5, LeadSorted, VisitSorted DEF Next

\* The order of the records is the order of their names, so that two runs over
\* one tree make one archive, whatever order the directories keep them in.
THEOREM Reproduces == Spec => []Reproducible
<1>1. Init => Typed /\ Reproducible /\ InOrder
  <2>1. Init => DOMAIN written = {} /\ pc = "idle"
    BY EmptySeq DEF Init
  <2> QED BY <2>1, TypeInit DEF Reproducible, InOrder
<1>2. Typed /\ Reproducible /\ InOrder /\ [Next]_vars => (Typed /\ Reproducible /\ InOrder)'
  BY TypeStep, SortedStep
<1> QED BY <1>1, <1>2, PTL DEF Spec
=============================================================================
