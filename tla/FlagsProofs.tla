---------------------------- MODULE FlagsProofs ----------------------------
(***************************************************************************)
(* What the repeated flags of push multi keep true of its pushes, for any  *)
(* texts given to them and any number of flags.                            *)
(*                                                                         *)
(* Facts about texts come first, then facts about lists, then the          *)
(* invariants.                                                             *)
(***************************************************************************)
EXTENDS Flags, SequenceTheorems, WellFoundedInduction, TLAPS

-----------------------------------------------------------------------------
(* Texts.                                                                  *)

\* A set of natural numbers has a least element.
Less == {x \in Nat \X Nat : x[1] < x[2]}

LEMMA LeastNat ==
    ASSUME NEW T \in SUBSET Nat, T # {}
    PROVE  \E x \in T : \A y \in T : x <= y
<1>1. IsWellFoundedOn(Less, Nat)
  <2>1. Less = OpToRel(<, Nat)
    BY DEF Less, OpToRel
  <2> QED BY <2>1, NatLessThanWellFounded
<1>2. PICK x \in T : \A y \in T : ~(<<y, x>> \in Less)
  BY <1>1, WFMin
<1>3. ASSUME NEW y \in T PROVE x <= y
  <2>1. ~(<<y, x>> \in Less) /\ x \in Nat /\ y \in Nat
    BY <1>2
  <2> QED BY <2>1 DEF Less
<1> QED BY <1>3

Text == Seq(Nat)

\* A text with a separator has a first one.
LEMMA FirstCut ==
    ASSUME NEW v \in Text, NEW sep, Has(v, sep)
    PROVE  \E i \in DOMAIN v : v[i] = sep /\ \A k \in 1 .. (i - 1) : v[k] # sep
<1> DEFINE T == {i \in DOMAIN v : v[i] = sep}
<1>1. DOMAIN v = 1 .. Len(v) /\ Len(v) \in Nat
  BY LenProperties DEF Text
<1>2. T \in SUBSET Nat /\ T # {}
  BY <1>1 DEF Has
<1>3. PICK x \in T : \A y \in T : x <= y
  BY <1>2, LeastNat
<1> QED BY <1>1, <1>3

\* What comes before the first separator has none; both parts are texts.
LEMMA Cut ==
    ASSUME NEW v \in Text, NEW sep, Has(v, sep)
    PROVE  \E a \in Text, b \in Text :
               /\ SplitN(v, sep) = <<a, b>> /\ ~Has(a, sep)
               /\ Len(a) \in Nat /\ Len(b) \in Nat /\ Len(v) = Len(a) + 1 + Len(b)
               /\ \A k \in 1 .. Len(a) : a[k] = v[k]
               /\ \A k \in 1 .. Len(b) : b[k] = v[Len(a) + 1 + k]
               /\ v[Len(a) + 1] = sep
<1> DEFINE n == Len(v)
           cut == CHOOSE i \in DOMAIN v : v[i] = sep /\ \A k \in 1 .. (i - 1) : v[k] # sep
           a == SubSeq(v, 1, cut - 1)
           b == SubSeq(v, cut + 1, Len(v))
<1>1. DOMAIN v = 1 .. n /\ n \in Nat
  BY LenProperties DEF Text
<1>2. cut \in DOMAIN v /\ v[cut] = sep /\ \A k \in 1 .. (cut - 1) : v[k] # sep
  BY FirstCut
<1>3. SplitN(v, sep) = <<a, b>>
  BY DEF SplitN
<1> HIDE DEF cut
<1>4. a \in Text /\ Len(a) = cut - 1 /\ \A k \in 1 .. Len(a) : a[k] = v[k]
  BY <1>1, <1>2 DEF Text
<1>5. b \in Text /\ Len(b) = n - cut /\ \A k \in 1 .. Len(b) : b[k] = v[cut + k]
  <2>1. \A i \in cut + 1 .. n : v[i] \in Nat
    BY <1>1, <1>2, LenProperties, ElementOfSeq DEF Text
  <2>2. cut \in Int /\ cut + 1 \in Int /\ n \in Int /\ cut <= n
    BY <1>1, <1>2
  <2>3. /\ b \in Text
        /\ Len(b) = IF cut + 1 <= n THEN n - (cut + 1) + 1 ELSE 0
        /\ \A i \in 1 .. n - (cut + 1) + 1 : b[i] = v[cut + 1 + i - 1]
    BY <2>1, <2>2, SubSeqProperties DEF Text
  <2>4. n - (cut + 1) + 1 = n - cut /\ (cut + 1 <= n \/ n - cut = 0)
    BY <2>2
  <2> HIDE DEF b
  <2>5. Len(b) = n - cut
    BY <2>2, <2>3, <2>4
  <2>6. \A i \in 1 .. n - cut : cut + 1 + i - 1 = cut + i
    BY <2>2
  <2> QED BY <2>3, <2>4, <2>5, <2>6
<1>6. DOMAIN a = 1 .. Len(a)
  BY <1>4, LenProperties DEF Text
<1> HIDE DEF a, b
<1>7. ~Has(a, sep)
  BY <1>2, <1>4, <1>6 DEF Has
<1>8. Len(a) + 1 = cut
  BY <1>1, <1>2, <1>4
<1>9. \A k \in 1 .. Len(b) : b[k] = v[Len(a) + 1 + k]
  BY <1>5, <1>8
<1>10. v[Len(a) + 1] = sep /\ Len(a) \in Nat /\ Len(b) \in Nat /\ Len(v) = Len(a) + 1 + Len(b)
  BY <1>1, <1>2, <1>4, <1>5
<1> QED BY <1>3, <1>4, <1>5, <1>7, <1>9, <1>10, Zenon

\* A text is cut where it was glued together.
LEMMA Glue ==
    ASSUME NEW v \in Text, NEW w \in Text, NEW sep \in Nat, ~Has(v, sep)
    PROVE  /\ v \o <<sep>> \o w \in Text
           /\ Has(v \o <<sep>> \o w, sep)
           /\ SplitN(v \o <<sep>> \o w, sep) = <<v, w>>
<1> DEFINE m == Len(v)
           n == Len(w)
           t == v \o <<sep>> \o w
<1>1. m \in Nat /\ n \in Nat /\ DOMAIN v = 1 .. m /\ DOMAIN w = 1 .. n
  BY LenProperties DEF Text
<1>2. /\ t \in Text /\ Len(t) = m + 1 + n
      /\ \A k \in 1 .. m : t[k] = v[k]
      /\ t[m + 1] = sep
      /\ \A k \in 1 .. n : t[m + 1 + k] = w[k]
  BY <1>1 DEF Text
<1>3. DOMAIN t = 1 .. Len(t)
  BY <1>2, LenProperties DEF Text
<1> HIDE DEF t
<1>4. Has(t, sep)
  BY <1>1, <1>2, <1>3 DEF Has
<1>0. t \in Text
  BY <1>2
<1>5. PICK a \in Text, b \in Text :
          /\ SplitN(t, sep) = <<a, b>> /\ ~Has(a, sep)
          /\ Len(a) \in Nat /\ Len(b) \in Nat /\ Len(t) = Len(a) + 1 + Len(b)
          /\ \A k \in 1 .. Len(a) : a[k] = t[k]
          /\ \A k \in 1 .. Len(b) : b[k] = t[Len(a) + 1 + k]
          /\ t[Len(a) + 1] = sep
  BY <1>0, <1>4, Cut
<1>6. DOMAIN a = 1 .. Len(a) /\ DOMAIN b = 1 .. Len(b)
  BY <1>5, LenProperties DEF Text
<1>7. Len(a) = m
  <2>1. ~(Len(a) < m)
    <3>1. SUFFICES ASSUME Len(a) < m PROVE FALSE
      OBVIOUS
    <3>2. Len(a) + 1 \in 1 .. m /\ v[Len(a) + 1] = sep
      BY <1>1, <1>2, <1>5, <3>1
    <3> QED BY <1>1, <3>2 DEF Has
  <2>2. ~(m < Len(a))
    <3>1. SUFFICES ASSUME m < Len(a) PROVE FALSE
      OBVIOUS
    <3>2. m + 1 \in 1 .. Len(a) /\ a[m + 1] = sep
      BY <1>1, <1>2, <1>5, <3>1
    <3> QED BY <1>5, <1>6, <3>2 DEF Has
  <2> QED BY <1>1, <1>5, <2>1, <2>2
<1>8. Len(b) = n
  BY <1>1, <1>2, <1>5, <1>7
<1>9. a = v
  BY <1>1, <1>2, <1>5, <1>7, SeqEqual DEF Text
<1>10. b = w
  BY <1>1, <1>2, <1>5, <1>7, <1>8, SeqEqual DEF Text
<1> QED BY <1>2, <1>4, <1>5, <1>9, <1>10 DEF t

\* The arch of a platform is a text.
LEMMA ArchIsText ==
    ASSUME NEW p \in Text, ValidPlatform(p) PROVE Arch(p) \in Text
<1>1. ~(Len(<<p>>) = 2)
  OBVIOUS
<1>2. Has(p, Slash)
  BY <1>1 DEF ValidPlatform, TwoParts, SplitN
<1>3. PICK a \in Text, b \in Text : SplitN(p, Slash) = <<a, b>>
  BY <1>2, Cut
<1> QED BY <1>3 DEF Arch

-----------------------------------------------------------------------------
(* Entries.                                                                *)

Platform == {v \in Text : ~Has(v, Equals)}
Entry == [platform : Platform, value : Text]
PathEntry == {e \in Entry : e.platform # <<>> /\ e.value # <<>>}

\* An entry survives being written out and set again, in a list of either type.
LEMMA RoundTrip ==
    ASSUME NEW e \in Entry
    PROVE  /\ EntryOf(TextOf(e)) = e /\ TextOf(e) \in Text
           /\ Accepts("platform", TextOf(e))
           /\ e \in PathEntry => Accepts("path", TextOf(e))
<1>1. e.platform \in Text /\ ~Has(e.platform, Equals) /\ e.value \in Text
  BY DEF Entry, Platform
<1>2. Equals \in Nat
  BY DEF Equals
<1>3. SplitN(TextOf(e), Equals) = <<e.platform, e.value>> /\ TextOf(e) \in Text
  BY <1>1, <1>2, Glue DEF TextOf
<1>4. EntryOf(TextOf(e)) = e
  BY <1>3 DEF EntryOf, Entry
<1> QED BY <1>3, <1>4 DEF Accepts, TwoParts, PathEntry

\* What a path flag accepts is an entry.
LEMMA PathEntries ==
    ASSUME NEW w \in Text, Accepts("path", w) PROVE EntryOf(w) \in PathEntry
<1>1. ~(Len(<<w>>) = 2)
  OBVIOUS
<1>2. Has(w, Equals)
  BY <1>1 DEF Accepts, TwoParts, SplitN
<1>3. PICK a \in Text, b \in Text : SplitN(w, Equals) = <<a, b>> /\ ~Has(a, Equals)
  BY <1>2, Cut
<1> QED BY <1>3 DEF Accepts, TwoParts, EntryOf, PathEntry, Entry, Platform

-----------------------------------------------------------------------------
(* Lists.                                                                  *)

\* A list written out and set again is the same list.
LEMMA Replaced ==
    ASSUME NEW type, NEW list \in Seq(Entry),
           \A i \in DOMAIN list : Accepts(type, TextOf(list[i]))
    PROVE  Replace(list, type, GetSlice(list)) = list
<1> DEFINE n == Len(list)
           vals == GetSlice(list)
<1>1. n \in Nat /\ DOMAIN list = 1 .. n /\ list \in [1 .. n -> Entry]
  BY LenProperties
<1>2. \A i \in 1 .. n : list[i] \in Entry /\ vals[i] = TextOf(list[i]) /\ vals[i] \in Text
  BY <1>1, RoundTrip DEF GetSlice
<1>3. vals = [i \in 1 .. n |-> vals[i]]
  BY <1>1 DEF GetSlice
<1> HIDE DEF vals
<1>4. vals \in Seq(Text) /\ Len(vals) = n
  BY <1>1, <1>2, <1>3
<1>5. Good(type, vals) = 0 .. n
  BY <1>1, <1>2, <1>4 DEF Good
<1>6. (CHOOSE x \in Good(type, vals) : \A m \in Good(type, vals) : m <= x) = n
  BY <1>1, <1>5
<1>7. Entries(type, vals) = [i \in 1 .. n |-> EntryOf(vals[i])]
  BY <1>6 DEF Entries
<1>8. \A i \in 1 .. n : EntryOf(vals[i]) = list[i]
  BY <1>2, RoundTrip
<1>9. Entries(type, vals) = list
  BY <1>1, <1>7, <1>8
<1> QED BY <1>9 DEF Replace, vals

Holds(list, p) == \E i \in DOMAIN list : list[i].platform = p

\* pathFor finds the first entry of a platform, or nothing.
LEMMA PathFound ==
    ASSUME NEW list \in Seq(PathEntry), NEW p
    PROVE  /\ ~Holds(list, p) => PathFor(list, p) = <<>>
           /\ Holds(list, p) => \E i \in DOMAIN list :
                  /\ list[i].platform = p /\ PathFor(list, p) = list[i].value
                  /\ \A k \in DOMAIN list : list[k].platform = p => i <= k
<1> DEFINE I == {i \in 1 .. Len(list) : list[i].platform = p}
<1>1. Len(list) \in Nat /\ DOMAIN list = 1 .. Len(list)
  BY LenProperties
<1>2. SelectInSeq(list, LAMBDA e : e.platform = p) = IF I # {} THEN Min(I) ELSE 0
  BY DEF SelectInSeq
<1>3. CASE ~Holds(list, p)
  <2>1. I = {}
    BY <1>1, <1>3 DEF Holds
  <2> QED BY <1>2, <1>3, <2>1 DEF PathFor
<1>4. CASE Holds(list, p)
  <2>1. I # {} /\ I \in SUBSET Nat
    BY <1>1, <1>4 DEF Holds
  <2>2. \E x \in I : \A y \in I : x <= y
    BY <2>1, LeastNat
  <2>3. Min(I) \in I /\ \A y \in I : Min(I) <= y
    BY <2>2 DEF Min
  <2>4. SelectInSeq(list, LAMBDA e : e.platform = p) = Min(I) /\ Min(I) # 0
    BY <1>1, <1>2, <2>1, <2>3
  <2>5. PathFor(list, p) = list[Min(I)].value
    BY <2>4 DEF PathFor
  <2> QED BY <1>1, <1>4, <2>3, <2>5
<1> QED BY <1>3, <1>4

\* Whatever it finds is a text, and no entry is found empty.
LEMMA PathTyped ==
    ASSUME NEW list \in Seq(PathEntry), NEW p
    PROVE  PathFor(list, p) \in Text /\ (Holds(list, p) => PathFor(list, p) # <<>>)
<1>1. <<>> \in Text
  BY DEF Text
<1>2. \A i \in DOMAIN list : list[i].value \in Text /\ list[i].value # <<>>
  BY ElementOfSeq, LenProperties DEF PathEntry, Entry
<1> QED BY <1>1, <1>2, PathFound

\* A further entry counts for a platform that had none.
LEMMA PathAppended ==
    ASSUME NEW list \in Seq(PathEntry), NEW e \in PathEntry, NEW p
    PROVE  PathFor(Append(list, e), p) =
               IF Holds(list, p) THEN PathFor(list, p)
               ELSE IF e.platform = p THEN e.value ELSE <<>>
<1> DEFINE n == Len(list)
           more == Append(list, e)
<1>1. n \in Nat /\ DOMAIN list = 1 .. n
  BY LenProperties
<1>2. /\ more \in Seq(PathEntry) /\ DOMAIN more = 1 .. n + 1 /\ more[n + 1] = e
      /\ \A i \in 1 .. n : more[i] = list[i]
  BY <1>1, AppendProperties, LenProperties
<1> HIDE DEF more
<1>3. CASE Holds(list, p)
  <2>1. Holds(more, p)
    BY <1>1, <1>2, <1>3 DEF Holds
  <2>2. PICK i \in DOMAIN list : /\ list[i].platform = p /\ PathFor(list, p) = list[i].value
                                 /\ \A k \in DOMAIN list : list[k].platform = p => i <= k
    BY <1>3, PathFound
  <2>3. PICK m \in DOMAIN more : /\ more[m].platform = p /\ PathFor(more, p) = more[m].value
                                 /\ \A k \in DOMAIN more : more[k].platform = p => m <= k
    BY <1>2, <2>1, PathFound
  <2>4. i \in 1 .. n /\ m \in 1 .. n + 1 /\ more[i] = list[i]
    BY <1>1, <1>2, <2>2, <2>3
  <2>5. m <= i
    BY <1>1, <1>2, <2>2, <2>3, <2>4
  <2>6. m \in 1 .. n /\ more[m] = list[m]
    BY <1>1, <1>2, <2>4, <2>5
  <2>7. m = i
    BY <1>1, <2>2, <2>3, <2>4, <2>5, <2>6
  <2> QED BY <1>3, <2>2, <2>3, <2>6, <2>7 DEF more
<1>4. CASE ~Holds(list, p) /\ e.platform = p
  <2>1. Holds(more, p)
    BY <1>1, <1>2, <1>4 DEF Holds
  <2>2. PICK m \in DOMAIN more : more[m].platform = p /\ PathFor(more, p) = more[m].value
    BY <1>2, <2>1, PathFound
  <2>3. m = n + 1
    BY <1>1, <1>2, <1>4, <2>2 DEF Holds
  <2> QED BY <1>2, <1>4, <2>2, <2>3 DEF more
<1>5. CASE ~Holds(list, p) /\ e.platform # p
  <2>1. ~Holds(more, p)
    BY <1>1, <1>2, <1>5 DEF Holds
  <2>2. PathFor(more, p) = <<>>
    BY <1>2, <2>1, PathFound
  <2> QED BY <1>5, <2>2 DEF more
<1> QED BY <1>3, <1>4, <1>5

-----------------------------------------------------------------------------
(* The command line.                                                       *)

Flags == [flag : FileFlags, word : Words]
Gives(g, f, p) == {i \in DOMAIN g : g[i].flag = f /\ EntryOf(g[i].word).platform = p}
First(g, f, p) ==
    IF Gives(g, f, p) = {} THEN <<>>
    ELSE EntryOf(g[CHOOSE i \in Gives(g, f, p) : \A k \in Gives(g, f, p) : i <= k].word).value

\* PathFor's entry is the first one given.
LEMMA FirstIs == ASSUME NEW f, NEW p PROVE FirstFile(f, p) = First(given, f, p)
BY DEF FirstFile, First, Gives

\* The first of the flags that give a platform a file.
LEMMA FirstFound ==
    ASSUME NEW g \in Seq(Flags), NEW f, NEW p, Gives(g, f, p) # {}
    PROVE  \E i \in Gives(g, f, p) : /\ First(g, f, p) = EntryOf(g[i].word).value
                                     /\ \A k \in Gives(g, f, p) : i <= k
<1> DEFINE G == Gives(g, f, p)
<1>1. DOMAIN g = 1 .. Len(g) /\ Len(g) \in Nat
  BY LenProperties
<1>2. G \in SUBSET Nat
  BY <1>1 DEF Gives
<1> HIDE DEF G
<1>3. \E x \in G : \A y \in G : x <= y
  BY <1>2, LeastNat DEF G
<1> QED BY <1>3 DEF First, G

\* A further flag counts for a platform that had none of its kind.
LEMMA FirstAppended ==
    ASSUME NEW g \in Seq(Flags), NEW a \in Flags, NEW f, NEW p
    PROVE  First(Append(g, a), f, p) =
               IF Gives(g, f, p) # {} THEN First(g, f, p)
               ELSE IF a.flag = f /\ EntryOf(a.word).platform = p
                    THEN EntryOf(a.word).value ELSE <<>>
<1> DEFINE n == Len(g)
           more == Append(g, a)
<1>1. n \in Nat /\ DOMAIN g = 1 .. n
  BY LenProperties
<1>2. /\ more \in Seq(Flags) /\ DOMAIN more = 1 .. n + 1 /\ more[n + 1] = a
      /\ \A i \in 1 .. n : more[i] = g[i]
  BY <1>1, AppendProperties, LenProperties
<1> HIDE DEF more
<1>3. Gives(more, f, p) = Gives(g, f, p) \cup
          {i \in {n + 1} : a.flag = f /\ EntryOf(a.word).platform = p}
  BY <1>1, <1>2 DEF Gives
<1>4. CASE Gives(g, f, p) # {}
  <2>1. PICK i \in Gives(g, f, p) : /\ First(g, f, p) = EntryOf(g[i].word).value
                                    /\ \A k \in Gives(g, f, p) : i <= k
    BY <1>4, FirstFound
  <2>2. Gives(more, f, p) # {}
    BY <1>3, <1>4
  <2>3. PICK m \in Gives(more, f, p) : /\ First(more, f, p) = EntryOf(more[m].word).value
                                       /\ \A k \in Gives(more, f, p) : m <= k
    BY <1>2, <2>2, FirstFound
  <2>4. i \in 1 .. n /\ more[i] = g[i] /\ m \in 1 .. n + 1
    BY <1>1, <1>2, <2>1, <2>3 DEF Gives
  <2>5. m <= i
    BY <1>3, <2>1, <2>3
  <2>6. m \in Gives(g, f, p)
    BY <1>1, <1>3, <2>3, <2>4, <2>5
  <2>7. m = i
    BY <1>1, <2>1, <2>4, <2>5, <2>6
  <2> QED BY <1>4, <2>1, <2>3, <2>4, <2>7 DEF more
<1>5. CASE Gives(g, f, p) = {} /\ a.flag = f /\ EntryOf(a.word).platform = p
  <2>1. Gives(more, f, p) = {n + 1}
    BY <1>3, <1>5
  <2>2. PICK m \in Gives(more, f, p) : First(more, f, p) = EntryOf(more[m].word).value
    BY <1>2, <2>1, FirstFound
  <2> QED BY <1>2, <1>5, <2>1, <2>2 DEF more
<1>6. CASE Gives(g, f, p) = {} /\ ~(a.flag = f /\ EntryOf(a.word).platform = p)
  <2>1. Gives(more, f, p) = {}
    BY <1>3, <1>6
  <2>2. First(more, f, p) = <<>>
    BY <2>1 DEF First
  <2> QED BY <1>6, <2>2 DEF more
<1> QED BY <1>4, <1>5, <1>6

-----------------------------------------------------------------------------
(* The invariants.                                                         *)

Pushed == [platform : Platform, ref : Text, files : [FileFlags -> Text]]

Typed ==
    /\ given \in Seq(Flags)
    /\ lists \in [FileFlags -> Seq(PathEntry)]
    /\ ref \in Text
    /\ left \subseteq UniquePlatforms(lists)
    /\ pushed \in Seq(Pushed)
    /\ specs \in Seq(Entry)
    /\ pc = "flags" => left = {} /\ pushed = <<>> /\ specs = <<>>

\* The platforms of the lists are texts without "=".
LEMMA UniqueTyped ==
    ASSUME lists \in [FileFlags -> Seq(PathEntry)]
    PROVE  /\ UniquePlatforms(lists) \subseteq Platform
           /\ \A p \in UniquePlatforms(lists) : \E f \in FileFlags : Holds(lists[f], p)
           /\ \A f \in FileFlags : \A i \in DOMAIN lists[f] :
                  lists[f][i].platform \in UniquePlatforms(lists)
<1>1. \A f \in FileFlags : \A i \in DOMAIN lists[f] : lists[f][i] \in PathEntry
  BY ElementOfSeq, LenProperties
<1>2. DOMAIN lists = FileFlags
  OBVIOUS
<1> QED BY <1>1, <1>2 DEF UniquePlatforms, Holds, PathEntry, Entry

\* What multi asks artifact.Run for is made of texts.
LEMMA OptsTyped ==
    ASSUME lists \in [FileFlags -> Seq(PathEntry)], ref \in Text,
           NEW p \in Platform, ValidPlatform(p)
    PROVE  /\ ArtifactOpts(p) \in Pushed
           /\ ArtifactOpts(p).platform = p
           /\ ArtifactOpts(p).ref = ref \o <<Dash>> \o Arch(p)
           /\ ArtifactOpts(p).files = [f \in FileFlags |-> PathFor(lists[f], p)]
<1>1. p \in Text /\ Arch(p) \in Text
  BY ArchIsText DEF Platform
<1>2. <<Dash>> \in Text
  BY DEF Dash, Text
<1>3. DerivePerArchRef(ref, p) \in Text
  BY <1>1, <1>2, ConcatProperties DEF DerivePerArchRef, Text
<1>4. [f \in FileFlags |-> PathFor(lists[f], p)] \in [FileFlags -> Text]
  BY PathTyped
<1> QED BY <1>3, <1>4 DEF ArtifactOpts, Pushed, DerivePerArchRef

\* What one turn of the loop adds to the pushes and to the index.
LEMMA Turn ==
    ASSUME Typed, NEW p \in left, ValidPlatform(p),
           specs' = SetEntry(specs, TextOf([platform |-> p, value |-> ArtifactOpts(p).ref]))
    PROVE  /\ p \in Platform /\ ArtifactOpts(p) \in Pushed
           /\ [platform |-> p, value |-> ArtifactOpts(p).ref] \in Entry
           /\ specs' = Append(specs, [platform |-> p, value |-> ArtifactOpts(p).ref])
<1>1. p \in Platform
  BY UniqueTyped DEF Typed
<1>2. ArtifactOpts(p) \in Pushed /\ ArtifactOpts(p).ref \in Text
  BY <1>1, OptsTyped DEF Typed, Pushed
<1>3. [platform |-> p, value |-> ArtifactOpts(p).ref] \in Entry
  BY <1>1, <1>2 DEF Entry
<1> QED BY <1>1, <1>2, <1>3, RoundTrip DEF SetEntry

\* The types hold at the start.
LEMMA TypeInit == Init => Typed
<1> SUFFICES ASSUME Init PROVE Typed
  OBVIOUS
<1>1. ref \in Text
  BY TextsAssumption DEF Init, Text
<1>2. <<>> \in Seq(Flags) /\ <<>> \in Seq(PathEntry) /\ <<>> \in Seq(Pushed) /\ <<>> \in Seq(Entry)
  OBVIOUS
<1> QED BY <1>1, <1>2 DEF Init, Typed

\* Every action keeps the types.
LEMMA TypeStep == Typed /\ [Next]_vars => Typed'
<1> SUFFICES ASSUME Typed, [Next]_vars PROVE Typed'
  OBVIOUS
<1>1. ASSUME NEW f \in FileFlags, NEW w \in Words, Flag(f, w) PROVE Typed'
  <2>1. given' \in Seq(Flags)
    BY <1>1, AppendProperties DEF Flag, Typed, Flags
  <2>2. w \in Text
    BY TextsAssumption DEF Text
  <2>3. lists' \in [FileFlags -> Seq(PathEntry)]
    <3>1. CASE ~Accepts("path", w)
      BY <1>1, <3>1 DEF Flag, Typed
    <3>2. CASE Accepts("path", w)
      <4>1. EntryOf(w) \in PathEntry
        BY <2>2, <3>2, PathEntries
      <4>2. Append(lists[f], EntryOf(w)) \in Seq(PathEntry)
        BY <4>1, AppendProperties DEF Typed
      <4>3. lists' = [lists EXCEPT ![f] = Append(lists[f], EntryOf(w))]
        BY <1>1, <3>2 DEF Flag, SetEntry
      <4> QED BY <4>2, <4>3 DEF Typed
    <3> QED BY <3>1, <3>2
  <2> QED BY <1>1, <2>1, <2>3 DEF Flag, Typed
<1>2. CASE Run
  BY <1>2 DEF Run, Typed
<1>3. ASSUME NEW p \in left, ValidPlatform(p), pc = "loop", pc' = pc,
             pushed' = Append(pushed, ArtifactOpts(p)),
             specs' = SetEntry(specs, TextOf([platform |-> p, value |-> ArtifactOpts(p).ref])),
             left' = left \ {p}, UNCHANGED <<given, lists, ref>>
      PROVE  Typed'
  <2>1. pushed' \in Seq(Pushed) /\ specs' \in Seq(Entry)
    <3>1. /\ ArtifactOpts(p) \in Pushed
          /\ [platform |-> p, value |-> ArtifactOpts(p).ref] \in Entry
          /\ specs' = Append(specs, [platform |-> p, value |-> ArtifactOpts(p).ref])
      BY <1>3, Turn
    <3>2. pushed \in Seq(Pushed) /\ specs \in Seq(Entry)
      BY DEF Typed
    <3> QED BY <1>3, <3>1, <3>2, AppendProperties
  <2> QED BY <1>3, <2>1 DEF Typed
<1>4. CASE PushOne
  BY <1>3, <1>4 DEF PushOne
<1>5. CASE Fail \/ PushIndex
  BY <1>5 DEF Fail, PushIndex, Typed
<1>6. CASE UNCHANGED vars
  BY <1>6 DEF vars, Typed
<1> QED BY <1>1, <1>2, <1>4, <1>5, <1>6 DEF Next

\* The index the last step puts together names each platform and reference as
\* they were pushed, whatever separators the texts contain.
THEOREM SpecsMatch == Spec => []SpecsMatchPushes
<1>1. Init => Typed /\ SpecsMatchPushes
  <2> SUFFICES ASSUME Init PROVE SpecsMatchPushes
    BY TypeInit
  <2>1. DOMAIN specs = {} /\ specs = pushed
    BY EmptySeq DEF Init
  <2> QED BY <2>1 DEF SpecsMatchPushes
<1>2. ASSUME Typed, SpecsMatchPushes, NEW p \in left, ValidPlatform(p),
             pushed' = Append(pushed, ArtifactOpts(p)),
             specs' = SetEntry(specs, TextOf([platform |-> p, value |-> ArtifactOpts(p).ref]))
      PROVE  SpecsMatchPushes'
  <2> DEFINE opts == ArtifactOpts(p)
             e == [platform |-> p, value |-> opts.ref]
  <2>1. opts \in Pushed /\ e \in Entry /\ specs' = Append(specs, e) /\ opts.platform = p
    BY <1>2, Turn, OptsTyped, UniqueTyped DEF Typed
  <2> HIDE DEF opts, e
  <2>2. /\ Len(specs) \in Nat /\ DOMAIN specs = 1 .. Len(specs)
        /\ Len(pushed) \in Nat /\ DOMAIN pushed = 1 .. Len(pushed)
    BY <1>2, LenProperties DEF Typed
  <2>3. Len(specs) = Len(pushed)
    <3>1. DOMAIN specs = DOMAIN pushed
      BY <1>2 DEF SpecsMatchPushes
    <3>2. \A a, b \in Nat : 1 .. a = 1 .. b => a = b
      <4>1. SUFFICES ASSUME NEW a \in Nat, NEW b \in Nat, 1 .. a = 1 .. b, a < b PROVE FALSE
        OBVIOUS
      <4>2. b \in 1 .. b /\ b \notin 1 .. a
        BY <4>1
      <4> QED BY <4>1, <4>2
    <3>3. 1 .. Len(specs) = 1 .. Len(pushed)
      BY <2>2, <3>1
    <3> QED BY <2>2, <3>2, <3>3, Zenon
  <2>4. /\ DOMAIN specs' = 1 .. Len(specs) + 1 /\ specs'[Len(specs) + 1] = e
        /\ \A i \in 1 .. Len(specs) : specs'[i] = specs[i]
    <3>1. specs \in Seq(Entry) /\ e \in Entry /\ specs' = Append(specs, e)
      BY <1>2, <2>1 DEF Typed
    <3> QED BY <2>2, <3>1
  <2>5. /\ DOMAIN pushed' = 1 .. Len(pushed) + 1 /\ pushed'[Len(pushed) + 1] = opts
        /\ \A i \in 1 .. Len(pushed) : pushed'[i] = pushed[i]
    BY <1>2, <2>1, <2>2 DEF Typed, opts
  <2> QED BY <1>2, <2>1, <2>2, <2>3, <2>4, <2>5 DEF SpecsMatchPushes, e
<1>3. Typed /\ SpecsMatchPushes /\ [Next]_vars => SpecsMatchPushes'
  <2> SUFFICES ASSUME Typed, SpecsMatchPushes, [Next]_vars PROVE SpecsMatchPushes'
    OBVIOUS
  <2>1. CASE UNCHANGED <<pushed, specs>>
    BY <2>1 DEF SpecsMatchPushes
  <2>2. CASE PushOne
    BY <1>2, <2>2 DEF PushOne
  <2> QED BY <2>1, <2>2 DEF Next, Flag, Run, Fail, PushIndex, vars
<1> QED BY <1>1, <1>3, TypeStep, PTL DEF Spec

\* Lists written out and set again are the same lists.
THEOREM RoundTrips == Spec => []SliceRoundTrip
<1>1. Typed => SliceRoundTrip
  <2> SUFFICES ASSUME Typed PROVE SliceRoundTrip
    OBVIOUS
  <2>1. ASSUME NEW f \in FileFlags
        PROVE  Replace(lists[f], "path", GetSlice(lists[f])) = lists[f]
    <3>1. lists[f] \in Seq(PathEntry) /\ PathEntry \subseteq Entry
      BY DEF Typed, PathEntry
    <3>2. lists[f] \in Seq(Entry) /\ \A i \in DOMAIN lists[f] : lists[f][i] \in PathEntry
      BY <3>1, SeqMonotonic, ElementOfSeq, LenProperties
    <3>3. \A i \in DOMAIN lists[f] : Accepts("path", TextOf(lists[f][i]))
      BY <3>1, <3>2, RoundTrip
    <3> QED BY <3>2, <3>3, Replaced
  <2>2. Replace(specs, "platform", GetSlice(specs)) = specs
    <3>1. \A i \in DOMAIN specs : specs[i] \in Entry
      BY ElementOfSeq, LenProperties DEF Typed
    <3>2. \A i \in DOMAIN specs : Accepts("platform", TextOf(specs[i]))
      BY <3>1, RoundTrip
    <3> QED BY <3>2, Replaced DEF Typed
  <2> QED BY <2>1, <2>2 DEF SliceRoundTrip
<1> QED BY <1>1, TypeInit, TypeStep, PTL DEF Spec

-----------------------------------------------------------------------------
(* The pushes and the command line.                                        *)

\* The lists say what the flags said.
Taken ==
    /\ \A i \in DOMAIN given : EntryOf(given[i].word) \in PathEntry
    /\ \A f \in FileFlags, p \in Platform :
          /\ Holds(lists[f], p) <=> Gives(given, f, p) # {}
          /\ PathFor(lists[f], p) = First(given, f, p)

\* Before the loop nothing is pushed; in it, the platforms are those that are
\* pushed and those that are left, which come later.
Looped ==
    /\ Taken \/ (pc = "failed" /\ pushed = <<>>)
    /\ \A i \in DOMAIN pushed : \A q \in left : Before(pushed[i].platform, q)
    /\ pc \in {"loop", "ok"} =>
          UniquePlatforms(lists) = left \cup {pushed[i].platform : i \in DOMAIN pushed}

\* The platforms the lists name are those the flags gave.
LEMMA NamedPlatforms ==
    ASSUME Typed, Taken PROVE Named = UniquePlatforms(lists)
<1>1. \A i \in DOMAIN given : given[i].flag \in FileFlags
  <2>1. given \in Seq(Flags)
    BY DEF Typed
  <2>2. \A i \in DOMAIN given : given[i] \in Flags
    BY <2>1, ElementOfSeq, LenProperties
  <2> QED BY <2>2 DEF Flags
<1>2. ASSUME NEW i \in DOMAIN given
      PROVE  EntryOf(given[i].word).platform \in UniquePlatforms(lists)
  <2> DEFINE p == EntryOf(given[i].word).platform
             f == given[i].flag
  <2>1. p \in Platform /\ f \in FileFlags
    BY <1>1 DEF Taken, PathEntry, Entry
  <2>2. i \in Gives(given, f, p)
    BY DEF Gives
  <2>3. Holds(lists[f], p)
    BY <2>1, <2>2 DEF Taken
  <2> QED BY <2>1, <2>3, UniqueTyped DEF Typed, Holds
<1>3. ASSUME NEW p \in UniquePlatforms(lists) PROVE p \in Named
  <2>1. PICK f \in FileFlags : Holds(lists[f], p)
    BY UniqueTyped DEF Typed
  <2>2. Gives(given, f, p) # {}
    BY <2>1, UniqueTyped DEF Typed, Taken
  <2> QED BY <2>2 DEF Gives, Named
<1> QED BY <1>2, <1>3 DEF Named

\* An accepted flag.
LEMMA FlagTaken ==
    ASSUME Typed, Taken, NEW f \in FileFlags, NEW w \in Words, Accepts("path", w),
           given' = Append(given, [flag |-> f, word |-> w]),
           lists' = [lists EXCEPT ![f] = SetEntry(@, w)]
    PROVE  Taken'
<1> DEFINE a == [flag |-> f, word |-> w]
           e == EntryOf(w)
<1>1. e \in PathEntry /\ a \in Flags
  BY TextsAssumption, PathEntries DEF Text, Flags
<1>2. given \in Seq(Flags) /\ \A g \in FileFlags : lists[g] \in Seq(PathEntry)
  BY DEF Typed
<1>3. /\ \A g \in FileFlags : lists'[g] = IF g = f THEN Append(lists[g], e) ELSE lists[g]
      /\ given' = Append(given, a)
  BY DEF Typed, SetEntry
<1>4. a.flag = f /\ a.word = w
  OBVIOUS
<1> HIDE DEF a, e
<1>5. /\ Len(given) \in Nat /\ DOMAIN given = 1 .. Len(given)
      /\ DOMAIN given' = 1 .. Len(given) + 1 /\ given'[Len(given) + 1] = a
      /\ \A i \in 1 .. Len(given) : given'[i] = given[i]
  BY <1>1, <1>2, <1>3, AppendProperties, LenProperties
<1>6. \A i \in DOMAIN given' : EntryOf(given'[i].word) \in PathEntry
  BY <1>1, <1>4, <1>5 DEF Taken, e
<1>7. ASSUME NEW g \in FileFlags, NEW p \in Platform
      PROVE  /\ Holds(lists'[g], p) <=> Gives(given', g, p) # {}
             /\ PathFor(lists'[g], p) = First(given', g, p)
  <2>1. Gives(given', g, p) = Gives(given, g, p) \cup
            {i \in {Len(given) + 1} : f = g /\ e.platform = p}
    BY <1>4, <1>5 DEF Gives, e
  <2>2. First(given', g, p) = IF Gives(given, g, p) # {} THEN First(given, g, p)
                              ELSE IF f = g /\ e.platform = p THEN e.value ELSE <<>>
    BY <1>1, <1>2, <1>3, <1>4, FirstAppended DEF e
  <2>3. /\ Holds(lists[g], p) <=> Gives(given, g, p) # {}
        /\ PathFor(lists[g], p) = First(given, g, p)
    BY DEF Taken
  <2>4. CASE g = f
    <3>1. Len(lists[g]) \in Nat /\ DOMAIN lists[g] = 1 .. Len(lists[g])
      BY <1>2, LenProperties
    <3> DEFINE more == Append(lists[g], e)
    <3>2. /\ DOMAIN more = 1 .. Len(lists[g]) + 1
          /\ more[Len(lists[g]) + 1] = e
          /\ \A i \in 1 .. Len(lists[g]) : more[i] = lists[g][i]
      BY <1>1, <1>2, <3>1, AppendProperties, LenProperties
    <3> HIDE DEF more
    <3>3. Holds(more, p) <=> (Holds(lists[g], p) \/ e.platform = p)
      BY <3>1, <3>2 DEF Holds
    <3> USE DEF more
    <3>4. PathFor(Append(lists[g], e), p) =
              IF Holds(lists[g], p) THEN PathFor(lists[g], p)
              ELSE IF e.platform = p THEN e.value ELSE <<>>
      BY <1>1, <1>2, PathAppended
    <3>5. lists'[g] = Append(lists[g], e)
      BY <1>3, <2>4
    <3> QED BY <2>1, <2>2, <2>3, <2>4, <3>3, <3>4, <3>5
  <2>5. CASE g # f
    <3>1. lists'[g] = lists[g]
      BY <1>3, <2>5
    <3>2. Gives(given', g, p) = Gives(given, g, p)
      BY <2>1, <2>5
    <3>3. First(given', g, p) = First(given, g, p)
      BY <2>2, <2>5 DEF First
    <3> QED BY <2>3, <3>1, <3>2, <3>3
  <2> QED BY <2>4, <2>5
<1> QED BY <1>6, <1>7 DEF Taken

\* A push is what the command line asks for, but for its place.
Right(a) ==
    /\ a.platform \in Named
    /\ \A f \in FileFlags : a.files[f] = FirstFile(f, a.platform)
    /\ \E f \in FileFlags : a.files[f] # <<>>

\* The options of artifact.Run are the files given for its platform.
LEMMA OptsRight ==
    ASSUME Typed, Taken, NEW p \in left, ValidPlatform(p)
    PROVE  Right(ArtifactOpts(p))
<1>1. p \in UniquePlatforms(lists) /\ p \in Platform
  BY UniqueTyped DEF Typed
<1>2. /\ ArtifactOpts(p).platform = p
      /\ \A f \in FileFlags : ArtifactOpts(p).files[f] = PathFor(lists[f], p)
  BY <1>1, OptsTyped DEF Typed
<1>3. \A f \in FileFlags : PathFor(lists[f], p) = FirstFile(f, p)
  BY <1>1, FirstIs DEF Taken
<1>4. \E f \in FileFlags : PathFor(lists[f], p) # <<>>
  BY <1>1, UniqueTyped, PathTyped DEF Typed
<1> QED BY <1>1, <1>2, <1>3, <1>4, NamedPlatforms DEF Right

\* One turn of the loop.
LEMMA TurnLooped ==
    ASSUME Typed, Looped, PushesRequested, PushOne
    PROVE  Looped' /\ PushesRequested'
<1>1. PICK p \in left :
          /\ ValidPlatform(p) /\ \A q \in left \ {p} : Before(p, q)
          /\ pushed' = Append(pushed, ArtifactOpts(p)) /\ left' = left \ {p}
  BY DEF PushOne
<1>2. pc = "loop" /\ pc' = "loop" /\ UNCHANGED <<given, lists>>
  BY DEF PushOne
<1> DEFINE opts == ArtifactOpts(p)
           n == Len(pushed)
<1>3. Taken /\ Taken'
  BY <1>2 DEF Looped, Taken
<1>4. opts \in Pushed /\ opts.platform = p /\ Right(opts)
  BY <1>1, <1>3, OptsRight, OptsTyped, UniqueTyped DEF Typed
<1>5. left \subseteq Platform
  BY UniqueTyped DEF Typed
<1> HIDE DEF opts
<1>6. /\ n \in Nat /\ DOMAIN pushed = 1 .. n
      /\ DOMAIN pushed' = 1 .. n + 1 /\ pushed'[n + 1] = opts
      /\ \A i \in 1 .. n : pushed'[i] = pushed[i]
  <2>1. pushed \in Seq(Pushed) /\ pushed' = Append(pushed, opts)
    BY <1>1 DEF Typed, opts
  <2> QED BY <1>4, <2>1, AppendProperties, LenProperties
<1>7. \A q \in left' : Before(p, q)
  BY <1>1
<1>8. \A i \in DOMAIN pushed' : \A q \in left' : Before(pushed'[i].platform, q)
  BY <1>1, <1>4, <1>6, <1>7 DEF Looped
<1>9. UniquePlatforms(lists') = left' \cup {pushed'[i].platform : i \in DOMAIN pushed'}
  <2>1. UniquePlatforms(lists) = left \cup {pushed[i].platform : i \in DOMAIN pushed}
    BY <1>2 DEF Looped
  <2>2. {pushed'[i].platform : i \in DOMAIN pushed'}
            = {pushed[i].platform : i \in DOMAIN pushed} \cup {p}
    BY <1>4, <1>6
  <2>3. lists' = lists
    BY <1>2
  <2> QED BY <1>1, <2>1, <2>2, <2>3
<1>10. \A i \in DOMAIN pushed : Right(pushed[i])
  BY DEF PushesRequested, Right
<1>11. \A i \in DOMAIN pushed' : Right(pushed'[i])
  BY <1>4, <1>6, <1>10
<1>12. Named' = Named /\ given' = given
  BY <1>2 DEF Named
<1>13. ASSUME NEW i \in DOMAIN pushed'
       PROVE  /\ pushed'[i].platform \in Named'
              /\ \A f \in FileFlags : pushed'[i].files[f] = FirstFile(f, pushed[i].platform)'
              /\ \E f \in FileFlags : pushed'[i].files[f] # <<>>
              /\ \A k \in 1 .. (i - 1) : Before(pushed'[k].platform, pushed'[i].platform)
  <2>1. Right(pushed'[i])
    BY <1>11
  <2>2. \A f \in FileFlags : FirstFile(f, pushed[i].platform)' = First(given', f, pushed'[i].platform)
    BY DEF FirstFile, First, Gives
  <2>3. \A f \in FileFlags : FirstFile(f, pushed'[i].platform) = First(given, f, pushed'[i].platform)
    BY FirstIs
  <2>4. \A f \in FileFlags : FirstFile(f, pushed[i].platform)' = FirstFile(f, pushed'[i].platform)
    BY <1>12, <2>2, <2>3
  <2>5. \A k \in 1 .. (i - 1) : Before(pushed'[k].platform, pushed'[i].platform)
    <3>1. CASE i \in 1 .. n
      BY <1>6, <3>1 DEF PushesRequested
    <3>2. CASE i = n + 1
      <4>1. p \in left /\ \A k \in 1 .. n : Before(pushed[k].platform, p)
        BY <1>6 DEF Looped
      <4> QED BY <1>4, <1>6, <3>2, <4>1
    <3> QED BY <1>6, <3>1, <3>2
  <2> QED BY <1>12, <2>1, <2>4, <2>5 DEF Right
<1>14. PushesRequested'
  BY <1>2, <1>13 DEF PushesRequested
<1> QED BY <1>2, <1>3, <1>8, <1>9, <1>14 DEF Looped

\* A step that neither reads a flag nor pushes.
LEMMA SamePushes ==
    ASSUME PushesRequested, UNCHANGED <<given, pushed>>,
           pc' = "ok" => Named = {pushed[i].platform : i \in DOMAIN pushed}
    PROVE  PushesRequested'
<1>1. Named' = Named /\ given' = given /\ pushed' = pushed
  BY DEF Named
<1>2. ASSUME NEW i \in DOMAIN pushed'
      PROVE  \A f \in FileFlags : pushed'[i].files[f] = FirstFile(f, pushed[i].platform)'
  <2>1. \A f \in FileFlags : FirstFile(f, pushed[i].platform)' = First(given', f, pushed'[i].platform)
    BY DEF FirstFile, First, Gives
  <2>2. \A f \in FileFlags : FirstFile(f, pushed[i].platform) = First(given, f, pushed[i].platform)
    BY FirstIs
  <2>3. \A f \in FileFlags : pushed[i].files[f] = FirstFile(f, pushed[i].platform)
    BY <1>1 DEF PushesRequested
  <2> QED BY <1>1, <2>1, <2>2, <2>3
<1> QED BY <1>1, <1>2 DEF PushesRequested

\* The invariant holds at first and is kept by every step.
LEMMA LoopedInit == Init => Typed /\ Looped /\ PushesRequested
<1> SUFFICES ASSUME Init PROVE Looped /\ PushesRequested
  BY TypeInit
<1>1. DOMAIN given = {} /\ DOMAIN pushed = {} /\ \A f \in FileFlags : DOMAIN lists[f] = {}
  BY EmptySeq DEF Init
<1>2. \A f \in FileFlags : lists[f] \in Seq(PathEntry)
  BY TypeInit DEF Typed
<1>3. ASSUME NEW f \in FileFlags, NEW p \in Platform
      PROVE  /\ Holds(lists[f], p) <=> Gives(given, f, p) # {}
             /\ PathFor(lists[f], p) = First(given, f, p)
  <2>1. ~Holds(lists[f], p) /\ Gives(given, f, p) = {}
    BY <1>1 DEF Holds, Gives
  <2>2. PathFor(lists[f], p) = <<>>
    BY <1>2, <2>1, PathFound
  <2> QED BY <2>1, <2>2 DEF First
<1>4. Taken
  BY <1>1, <1>3 DEF Taken
<1> QED BY <1>1, <1>4 DEF Init, Looped, PushesRequested

\* Every action keeps what the loop has done.
LEMMA LoopedStep ==
    Typed /\ Looped /\ PushesRequested /\ [Next]_vars => Looped' /\ PushesRequested'
<1> SUFFICES ASSUME Typed, Looped, PushesRequested, [Next]_vars
             PROVE  Looped' /\ PushesRequested'
  OBVIOUS
<1>1. ASSUME NEW f \in FileFlags, NEW w \in Words, Flag(f, w)
      PROVE  Looped' /\ PushesRequested'
  <2>1. pc = "flags" /\ pushed' = <<>> /\ pc' \in {"flags", "failed"} /\ DOMAIN pushed' = {}
    BY <1>1, EmptySeq DEF Flag, Typed
  <2>2. pc' = "failed" \/ Taken'
    BY <1>1, <2>1, FlagTaken DEF Flag, Looped
  <2> QED BY <2>1, <2>2 DEF Looped, PushesRequested
<1>2. CASE Run
  <2>1. /\ pc = "flags" /\ pushed' = <<>> /\ DOMAIN pushed' = {} /\ UNCHANGED <<given, lists>>
        /\ pc' \in {"loop", "failed"} /\ left' = UniquePlatforms(lists)
    BY <1>2, EmptySeq DEF Run, Typed
  <2>2. Taken'
    BY <2>1 DEF Looped, Taken
  <2>3. UniquePlatforms(lists') = UniquePlatforms(lists)
    BY <2>1
  <2> QED BY <2>1, <2>2, <2>3 DEF Looped, PushesRequested
<1>3. CASE PushOne
  BY <1>3, TurnLooped
<1>4. CASE Fail \/ PushIndex
  <2>1. /\ pc = "loop" /\ UNCHANGED <<given, lists, pushed, left>>
        /\ pc' = "failed" \/ (pc' = "ok" /\ left = {})
    BY <1>4 DEF Fail, PushIndex
  <2>2. Taken /\ Taken'
    BY <2>1 DEF Looped, Taken
  <2>3. Named = left \cup {pushed[i].platform : i \in DOMAIN pushed}
    BY <2>1, <2>2, NamedPlatforms DEF Looped
  <2>4. Looped'
    BY <2>1, <2>2 DEF Looped
  <2>5. PushesRequested'
    BY <2>1, <2>3, SamePushes
  <2> QED BY <2>4, <2>5
<1>5. CASE UNCHANGED vars
  <2>1. PushesRequested'
    BY <1>5, SamePushes DEF vars, PushesRequested
  <2> QED BY <1>5, <2>1 DEF vars, Looped, Taken
<1> QED BY <1>1, <1>2, <1>3, <1>4, <1>5 DEF Next

\* What is pushed is what the command line asks for: each platform it names
\* once and in order, with the first file each flag gives it; all of them when
\* the command succeeds.
THEOREM Requests == Spec => []PushesRequested
BY LoopedInit, LoopedStep, TypeStep, PTL DEF Spec
=============================================================================
