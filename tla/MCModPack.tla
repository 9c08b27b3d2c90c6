----------------------------- MODULE MCModPack -----------------------------
(***************************************************************************)
(* Small instances of ModPack: three names on two levels, and every kind   *)
(* of node.                                                                *)
(***************************************************************************)
EXTENDS ModPack

File(d) == [kind |-> "file", data |-> d]
Link(d) == [kind |-> "link", data |-> d]
Other == [kind |-> "other", data |-> 0]

MCPaths == {<<>>, <<1>>, <<1, 1>>, <<2>>}
MCNodes == {Dir, Partial, File(1), File(2), Link(1), Other}

\* kernel/x.ko and modules.dep; a lone link; an empty directory and a socket.
MCTrees == {
    [p \in {<<>>, <<1>>, <<1, 1>>, <<2>>} |->
        IF p \in {<<>>, <<1>>} THEN Dir ELSE File(1)],
    [p \in {<<>>, <<2>>} |-> IF p = <<>> THEN Dir ELSE Link(1)],
    [p \in {<<>>, <<1>>, <<2>>} |-> IF p = <<2>> THEN Other ELSE Dir]}

MCSources == {"dir", "link", "file", "missing"}

\* --output elsewhere, or in the tree itself.
MCOuts == {{}, {<<2>>}}
=============================================================================
