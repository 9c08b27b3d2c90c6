------------------------------ MODULE ModPack ------------------------------
(***************************************************************************)
(* push modpack: a directory of kernel modules is walked and packed into a *)
(* gzipped cpio archive, while other programs may change the directory and *)
(* the disk may fill up.                                                   *)
(*                                                                         *)
(* A path below --src is a sequence of numbers, which stand for names in   *)
(* lexical order; a node is what lstat finds there and what it holds.  In  *)
(* the archive 0 is the name "lib", "modules" and the kernel release.      *)
(***************************************************************************)
EXTENDS Lexical

CONSTANTS
    Paths,      \* paths below --src that may exist, <<>> for --src itself
    Nodes,      \* [kind, data] records that may be at a path
    Trees,      \* directories a run may find
    Sources,    \* what --src names: "dir", "link" to one, "file", "missing"
    Outs,       \* sets of paths below --src that are --output: one or none
    MaxChanges  \* bound on the changes other programs make

Dir == [kind |-> "dir", data |-> 0]
\* What a reader of the output finds while it is written.
Partial == [kind |-> "file", data |-> 0]

ASSUME PathsAssumption == Paths \subseteq Seq(Nat) /\ <<>> \in Paths
ASSUME NodesAssumption ==
    /\ Nodes \subseteq [kind : {"dir", "file", "link", "other"}, data : Nat]
    /\ Dir \in Nodes /\ Partial \in Nodes
    /\ \A n \in Nodes : n.kind = "dir" => n = Dir
ASSUME MaxChangesAssumption == MaxChanges \in Nat
ASSUME OutsAssumption == \A out \in Outs : out \subseteq Paths \ {<<>>}

Parent(p) == SubSeq(p, 1, Len(p) - 1)

\* A directory tree: every path has its directories above it.
IsTree(t) ==
    /\ DOMAIN t \subseteq Paths /\ <<>> \in DOMAIN t /\ t[<<>>] = Dir
    /\ t \in [DOMAIN t -> Nodes]
    /\ \A p \in DOMAIN t : \A k \in 0..(Len(p) - 1) :
          SubSeq(p, 1, k) \in DOMAIN t /\ t[SubSeq(p, 1, k)] = Dir

ASSUME TreesAssumption == \A t \in Trees : IsTree(t)

VARIABLES
    tree,       \* the directory --src names, a function on paths
    changes,    \* changes made to it so far
    pc,         \* where the command is
    todo,       \* paths listed and not yet visited, with the kind listed
    written,    \* records handed to the cpio writer
    stored,     \* how many of them reached the file; one more with gzip's end
    full,       \* no space is left for the output
    seen, lasting   \* records the tree held at some time, or all the time
vars == <<tree, changes, pc, todo, written, stored, full, seen, lasting>>

-----------------------------------------------------------------------------
(* Records.                                                                *)

At(p, n) == [path |-> p, node |-> n]
Records(t) == {At(p, t[p]) : p \in DOMAIN t}

\* Mutant: the entries of the archive are rooted at "lib/modules".
NameUnreleased(p) == <<0, 0>> \o p
RootInCpio == <<0, 0, 0>>
Name(p) == RootInCpio \o p

\* Mutant: "lib/modules" is left to be created by whoever unpacks.
LeadingLib == << <<0>> >>
Leading == << <<0>>, <<0, 0>> >>

\* cpio's last record, which no reader takes for a name.
Trailer == At(<<1>>, Partial)

\* Mutant: an entry that is a directory is listed, but not as one.
ListingFlat(t, p) ==
    [q \in {q \in DOMAIN t \ {<<>>} : Parent(q) = p} |->
        IF t[q].kind = "dir" THEN "other" ELSE t[q].kind]
\* What os.ReadDir finds in directory p.
Listing(t, p) ==
    [q \in {q \in DOMAIN t \ {<<>>} : Parent(q) = p} |-> t[q].kind]

-----------------------------------------------------------------------------
(* Links.  What is walked through a link may be anything.                  *)

Kinds == {"dir", "file", "link", "other"}

\* p, or a directory above it, is a link now.
Through(p) == \E k \in 0..Len(p) :
    SubSeq(p, 1, k) \in DOMAIN tree /\ tree[SubSeq(p, 1, k)].kind = "link"

\* What lstat may find at p.
Found(p) == IF p \in DOMAIN tree THEN {tree[p]} ELSE IF Through(p) THEN Nodes ELSE {}

\* What os.ReadDir, which follows a link, may list at p.
Entries(p) ==
    IF p \in DOMAIN tree /\ tree[p] = Dir THEN {Listing(tree, p)}
    ELSE IF Through(p) THEN
        UNION {[s -> Kinds] : s \in SUBSET {q \in Paths \ {<<>>} : Parent(q) = p}}
    ELSE {}

\* What the walk may read at a path listed as a regular file or a link, where
\* now n is: os.ReadFile follows a link, os.Readlink takes nothing else.
Contents(kind, n) ==
    CASE kind = n.kind                       -> {n}
      [] kind = "file" /\ n.kind = "link" -> {m \in Nodes : m.kind = "file"}
      [] OTHER                               -> {}

-----------------------------------------------------------------------------
(* The command.                                                            *)

Idle == {"idle", "ok", "failed"}

Init ==
    /\ tree \in Trees
    /\ changes = 0 /\ pc = "idle" /\ todo = <<>> /\ written = <<>> /\ stored = 0
    /\ full = FALSE /\ seen = {} /\ lasting = {}

\* Run refuses empty flags; os.Stat follows a link and wants a directory.
Refuse ==
    /\ pc \in Idle
    /\ Sources \ {"dir", "link"} # {}
    /\ pc' = "idle"
    /\ UNCHANGED <<tree, changes, todo, written, stored, full, seen, lasting>>

\* os.Create truncates the output, or makes it, wherever it is; the walk will
\* begin with what lstat finds at --src.
Create == \E src \in Sources \cap {"dir", "link"}, out \in Outs :
    /\ pc \in Idle
    /\ \A p \in out : /\ Parent(p) \in DOMAIN tree /\ tree[Parent(p)] = Dir
                      /\ p \in DOMAIN tree => tree[p].kind = "file"
    /\ tree' = [p \in DOMAIN tree \cup out |-> IF p \in out THEN Partial ELSE tree[p]]
    /\ todo' = [p \in {<<>>} |-> src]
    /\ pc' = "lead"
    /\ written' = <<>> /\ stored' = 0 /\ full' = FALSE
    /\ seen' = Records(tree')
    /\ lasting' = {r \in Records(tree') : r.path \notin out}
    /\ UNCHANGED changes

\* A record goes to the writer: gzip keeps it or passes on what it holds.
Emit(r, then) ==
    /\ written' = Append(written, r)
    /\ \/ /\ pc' = then
          /\ stored' \in IF full THEN {stored} ELSE stored..Len(written')
       \/ full /\ pc' = "giving up" /\ stored' = stored

Lead ==
    /\ pc = "lead"
    /\ Emit(At(Leading[Len(written) + 1], Dir),
            IF Len(written) + 1 = Len(Leading) THEN "walk" ELSE "lead")
    /\ UNCHANGED <<tree, changes, todo, full, seen, lasting>>

\* Mutants: the archive is ended on every return; the records are dropped.
AbandonClosed == pc' = "giving up" /\ written' = Append(written, Trailer) /\ stored' = stored
AbandonDropped == pc' = "giving up" /\ written' = <<>> /\ stored' = stored
Abandon == pc' = "giving up" /\ UNCHANGED <<written, stored>>

\* WalkDir's next path is the first one in its order: a directory before its
\* entries, these in the order of their names.
IsNext(p) == p \in DOMAIN todo /\ \A q \in DOMAIN todo : ~Before(q, p)
Rest(p) == [q \in DOMAIN todo \ {p} |-> todo[q]]

\* What was listed as a directory is packed as one, and then listed, if that is
\* possible.
VisitDir(p) ==
    /\ todo[p] = "dir" /\ Found(p) # {}
    /\ \/ /\ Emit(At(Name(p), Dir), "walk")
          /\ \E more \in Entries(p) :
                todo' = [q \in DOMAIN Rest(p) \cup DOMAIN more |->
                            IF q \in DOMAIN more THEN more[q] ELSE todo[q]]
       \/ /\ Emit(At(Name(p), Dir), "giving up")
          /\ todo' = Rest(p)

\* A regular file with its contents, a link with its target.  A link may be
\* the root itself, whose directory is then not entered.
VisitLeaf(p) ==
    /\ todo[p] \in {"file", "link"}
    /\ \E n \in IF p = <<>> THEN {m \in Nodes : m.kind = "link"}
                ELSE UNION {Contents(todo[p], m) : m \in Found(p)} :
          Emit(At(Name(p), n), "walk")
    /\ todo' = Rest(p)

\* Sockets, pipes and devices are passed over.
VisitOther(p) ==
    /\ todo[p] = "other" /\ Found(p) # {}
    /\ todo' = Rest(p)
    /\ UNCHANGED <<pc, written, stored>>

\* The path is gone, is no longer of its kind, or cannot be read.
VisitFails(p) == Abandon /\ todo' = Rest(p)

Visit == \E p \in Paths :
    /\ pc = "walk" /\ IsNext(p)
    /\ VisitDir(p) \/ VisitLeaf(p) \/ VisitOther(p) \/ VisitFails(p)
    /\ UNCHANGED <<tree, changes, full, seen, lasting>>

\* w.Close writes the trailer; its result is the command's.
End ==
    /\ pc = "walk" /\ DOMAIN todo = {}
    /\ Emit(Trailer, "returning")
    /\ UNCHANGED <<tree, changes, todo, full, seen, lasting>>

\* The deferred gz.Close passes on the rest; its error is dropped.
Close ==
    /\ pc \in {"returning", "giving up"}
    /\ pc' = IF pc = "returning" THEN "ok" ELSE "failed"
    /\ stored' = IF full THEN stored ELSE Len(written) + 1
    /\ UNCHANGED <<tree, changes, todo, written, full, seen, lasting>>

DiskFills ==
    /\ pc \notin Idle /\ ~full
    /\ full' = TRUE
    /\ UNCHANGED <<tree, changes, pc, todo, written, stored, seen, lasting>>

\* Another program makes, replaces or removes one node.
Change == \E t \in {[p \in DOMAIN tree \cup {q} |-> IF p = q THEN n ELSE tree[p]] :
                       q \in Paths \ {<<>>}, n \in Nodes}
                   \cup {[p \in DOMAIN tree \ {q} |-> tree[p]] : q \in DOMAIN tree} :
    /\ changes < MaxChanges /\ t # tree /\ IsTree(t)
    /\ tree' = t
    /\ changes' = changes + 1
    /\ seen' = seen \cup Records(t)
    /\ lasting' = lasting \cap Records(t)
    /\ UNCHANGED <<pc, todo, written, stored, full>>

Next == Refuse \/ Create \/ Lead \/ Visit \/ End \/ Close \/ DiskFills \/ Change

Spec == Init /\ [][Next]_vars

-----------------------------------------------------------------------------
(* Properties.                                                             *)

\* Every variable has its type: --src stays a tree, and the file never holds
\* more than was written.
TypeOK ==
    /\ IsTree(tree) /\ changes \in 0..MaxChanges
    /\ pc \in Idle \cup {"lead", "walk", "returning", "giving up"}
    /\ DOMAIN todo \subseteq Paths /\ \A p \in DOMAIN todo : todo[p] \in Kinds
    /\ written \in Seq([path : Seq(Nat), node : Nodes])
    /\ stored \in 0..(Len(written) + 1)
    /\ full \in BOOLEAN
    /\ lasting \subseteq seen /\ seen \subseteq [path : Paths, node : Nodes]

\* The kernel unpacks an archive in one pass: every name occurs once, and
\* after the directory that holds it, however the tree changes meanwhile.
Unpackable == \A i \in DOMAIN written :
    LET name == written[i].path IN
    /\ \A k \in 1..(i - 1) : written[k].path # name
    /\ Len(name) > 1 => \E k \in 1..(i - 1) : written[k] = At(Parent(name), Dir)

\* Two runs over one tree make one archive: the order of the records is the
\* order of their names.
Reproducible == \A i, k \in DOMAIN written :
    i < k => Before(written[i].path, written[k].path)

Archive == {written[i] : i \in DOMAIN written}

\* At some time p, or a directory above it, was a link.
Linked(p) == \E k \in 0..Len(p), r \in seen : r.path = SubSeq(p, 1, k) /\ r.node.kind = "link"

\* Success with room on the disk, for an --src that is no link itself, means a
\* complete archive that mirrors the tree: what was there all the time the
\* command ran is in it as it was, and the rest was there at some time, or was
\* found where there was a link at some time.
Mirrored == pc = "ok" /\ ~full /\ At(RootInCpio, Dir) \in Archive =>
    /\ stored = Len(written) + 1 /\ Trailer \in Archive
    /\ \A r \in lasting : r.node.kind # "other" => At(Name(r.path), r.node) \in Archive
    /\ \A r \in Archive \ {Trailer} :
          \/ \E i \in DOMAIN Leading : r.path = Leading[i]
          \/ \E p \in Paths : r.path = Name(p) /\ (At(p, r.node) \in seen \/ Linked(p))

\* A run that fails leaves a file without the trailer, which no reader takes
\* for the archive of a whole tree.
FailureShows == pc = "failed" => ~(stored >= Len(written) /\ Trailer \in Archive)
=============================================================================
