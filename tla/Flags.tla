------------------------------- MODULE Flags -------------------------------
(***************************************************************************)
(* The repeated flags of push multi and push index, and the texts that are *)
(* taken apart, glued together and taken apart again: <os/arch>=<path>     *)
(* becomes a list entry, an entry an artifact and its reference, these two *)
(* a --platform entry of the index.                                        *)
(*                                                                         *)
(* A text is a sequence of tokens: a separator is its ASCII code, and any  *)
(* number above 96 a name without separators, in the order of the names.   *)
(* Push models what happens to the artifacts; here a push only succeeds or *)
(* fails.                                                                  *)
(***************************************************************************)
EXTENDS Lexical, SequencesExt

CONSTANTS
    Words,      \* texts given to the flags
    Refs,       \* texts given as <ref>
    MaxGiven    \* bound on the number of flags

Dash == 45
Slash == 47
Colon == 58
Equals == 61

ASSUME TextsAssumption == Words \cup Refs \subseteq Seq(Nat)

-----------------------------------------------------------------------------
(* Texts.                                                                  *)

Has(v, sep) == \E i \in DOMAIN v : v[i] = sep

\* Mutant: the last separator counts.
SplitNLast(v, sep) ==
    LET cut == SelectLastInSeq(v, LAMBDA c : c = sep) IN
    IF Has(v, sep) THEN <<SubSeq(v, 1, cut - 1), SubSeq(v, cut + 1, Len(v))>> ELSE <<v>>

\* strings.SplitN(v, sep, 2).
SplitN(v, sep) ==
    LET cut == CHOOSE i \in DOMAIN v : v[i] = sep /\ \A k \in 1..(i - 1) : v[k] # sep IN
    IF Has(v, sep) THEN <<SubSeq(v, 1, cut - 1), SubSeq(v, cut + 1, Len(v))>> ELSE <<v>>

TwoParts(parts) == Len(parts) = 2 /\ parts[1] # <<>> /\ parts[2] # <<>>

ValidPlatform(p) == TwoParts(SplitN(p, Slash))
Arch(p) == SplitN(p, Slash)[2]

\* oci.ParseRef on the references in Refs, and as much of it as the commands
\* rely on: <host>/<repo>:<tag>, and no host without a slash.
ValidRef(r) == TwoParts(SplitN(r, Slash)) /\ Has(r, Colon)

\* The reference is put together as it was, with the arch after its tag.
DerivePerArchRef(r, p) == r \o <<Dash>> \o Arch(p)

-----------------------------------------------------------------------------
(* Lists of [platform, value] entries: PathList wants both parts to be     *)
(* there, PlatformList only wants two of them.                             *)

Accepts(type, v) ==
    IF type = "path" THEN TwoParts(SplitN(v, Equals)) ELSE Len(SplitN(v, Equals)) = 2
EntryOf(v) == [platform |-> SplitN(v, Equals)[1], value |-> SplitN(v, Equals)[2]]
SetEntry(list, v) == Append(list, EntryOf(v))

TextOf(e) == e.platform \o <<Equals>> \o e.value
GetSlice(list) == [i \in DOMAIN list |-> TextOf(list[i])]

\* The values up to the first that Set refuses.
Good(type, vals) ==
    {n \in 0..Len(vals) : \A i \in 1..n : Accepts(type, vals[i])}
Entries(type, vals) ==
    LET n == CHOOSE n \in Good(type, vals) : \A m \in Good(type, vals) : m <= n
    IN  [i \in 1..n |-> EntryOf(vals[i])]

\* Mutant: the list is not emptied first.
ReplaceAppending(list, type, vals) == list \o Entries(type, vals)
Replace(list, type, vals) == Entries(type, vals)

\* Mutant: the last entry of a platform counts.
PathForLast(list, p) ==
    LET at == SelectLastInSeq(list, LAMBDA e : e.platform = p) IN
    IF at = 0 THEN <<>> ELSE list[at].value
PathFor(list, p) ==
    LET at == SelectInSeq(list, LAMBDA e : e.platform = p) IN
    IF at = 0 THEN <<>> ELSE list[at].value

UniquePlatforms(lists) ==
    UNION {{lists[f][i].platform : i \in DOMAIN lists[f]} : f \in DOMAIN lists}

-----------------------------------------------------------------------------
VARIABLES
    given,  \* the flags in the order of the command line, as [flag, word]
    lists,  \* kernel, initrd, modules: the PathLists
    ref,    \* the positional argument
    pc, left, \* where multi is, and the platforms it has not done
    pushed, \* the options of each artifact.Run that succeeded
    specs   \* the PlatformList of the index
vars == <<given, lists, ref, pc, left, pushed, specs>>

FileFlags == {"kernel", "initrd", "modules"}

Init ==
    /\ given = <<>> /\ lists = [f \in FileFlags |-> <<>>]
    /\ ref \in Refs
    /\ pc = "flags" /\ left = {} /\ pushed = <<>> /\ specs = <<>>

\* The flag package calls Set once per occurrence; an error ends the command.
Flag(f, w) ==
    /\ pc = "flags" /\ Len(given) < MaxGiven
    /\ given' = Append(given, [flag |-> f, word |-> w])
    /\ IF Accepts("path", w)
          THEN pc' = pc /\ lists' = [lists EXCEPT ![f] = SetEntry(@, w)]
          ELSE pc' = "failed" /\ lists' = lists
    /\ UNCHANGED <<ref, left, pushed, specs>>

Run ==
    /\ pc = "flags"
    /\ left' = UniquePlatforms(lists)
    /\ pc' = IF left' # {} /\ ValidRef(ref) THEN "loop" ELSE "failed"
    /\ UNCHANGED <<given, lists, ref, pushed, specs>>

\* What multi asks artifact.Run for.
ArtifactOpts(p) ==
    [platform |-> p, ref |-> DerivePerArchRef(ref, p),
     files |-> [f \in FileFlags |-> PathFor(lists[f], p)]]

\* The next platform in sort.Strings' order; its index entry is put together
\* as a text, which Set takes apart.
PushOne == \E p \in left :
    LET opts == ArtifactOpts(p)
        text == TextOf([platform |-> p, value |-> opts.ref])
    IN
    /\ pc = "loop" /\ \A q \in left \ {p} : Before(p, q)
    /\ ValidPlatform(p) /\ Accepts("platform", text)
    /\ pushed' = Append(pushed, opts)
    /\ specs' = SetEntry(specs, text)
    /\ left' = left \ {p}
    /\ UNCHANGED <<given, lists, ref, pc>>

\* A malformed platform, or a push or a query that fails.
Fail == pc = "loop" /\ pc' = "failed" /\ UNCHANGED <<given, lists, ref, left, pushed, specs>>

\* index.Run parses each entry again before it looks it up.
PushIndex ==
    /\ pc = "loop" /\ left = {}
    /\ \A i \in DOMAIN specs : ValidPlatform(specs[i].platform) /\ ValidRef(specs[i].value)
    /\ pc' = "ok"
    /\ UNCHANGED <<given, lists, ref, left, pushed, specs>>

Next == (\E f \in FileFlags, w \in Words : Flag(f, w)) \/ Run \/ PushOne \/ Fail \/ PushIndex

Spec == Init /\ [][Next]_vars

-----------------------------------------------------------------------------
(* Properties.                                                             *)

\* The command line read as a set: the platforms named by any flag, and for
\* each of them the first file that each flag gives it.
Named == {EntryOf(given[i].word).platform : i \in DOMAIN given}
FirstFile(f, p) ==
    LET mine == {i \in DOMAIN given : given[i].flag = f /\ EntryOf(given[i].word).platform = p}
    IN  IF mine = {} THEN <<>>
        ELSE EntryOf(given[CHOOSE i \in mine : \A k \in mine : i <= k].word).value

\* What is pushed is what the command line asks for: the union of the
\* platforms, each once and in order, each with its own files; all of it when
\* the command succeeds.
PushesRequested ==
    /\ \A i \in DOMAIN pushed :
          /\ pushed[i].platform \in Named
          /\ \A f \in FileFlags : pushed[i].files[f] = FirstFile(f, pushed[i].platform)
          /\ \E f \in FileFlags : pushed[i].files[f] # <<>>
          /\ \A k \in 1..(i - 1) : Before(pushed[k].platform, pushed[i].platform)
    /\ pc = "ok" => Named = {pushed[i].platform : i \in DOMAIN pushed}

\* The entry the index parses names the platform and the reference that were
\* pushed, although both went through one text.
SpecsMatchPushes ==
    /\ DOMAIN specs = DOMAIN pushed
    /\ \A i \in DOMAIN specs :
          specs[i] = [platform |-> pushed[i].platform, value |-> pushed[i].ref]

\* GetSlice and Replace are inverse: a list written out and set again is the
\* same list, as pflag asks of a SliceValue.
SliceRoundTrip ==
    /\ \A f \in FileFlags :
          Replace(lists[f], "path", GetSlice(lists[f])) = lists[f]
    /\ Replace(specs, "platform", GetSlice(specs)) = specs
=============================================================================
