----------------------------- MODULE MCFakeReg -----------------------------
(***************************************************************************)
(* Small instances of FakeReg: two tags and artifacts of up to three blobs *)
(* that share their contents or not.                                       *)
(***************************************************************************)
EXTENDS FakeReg

CONSTANTS b1, b2, b3, first_tag, second_tag

MCTags == {first_tag, second_tag}
MCArtifacts == {<<b1>>, <<b1, b2>>, <<b2, b2, b3>>}
=============================================================================
