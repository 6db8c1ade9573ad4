---------------------------- MODULE MCNamespace -----------------------------
(***************************************************************************)
(* The namespace of VirtualTree: a root and three more nodes, two names of *)
(* which one has two spellings, paths of up to three components, and no    *)
(* file content.                                                           *)
(***************************************************************************)
EXTENDS VirtualTree, TLC

CONSTANTS n1, n2, n3, lowerA, upperA, b, keyA, keyB

MCNode == {Root, n1, n2, n3}
MCFold == (lowerA :> keyA) @@ (upperA :> keyA) @@ (b :> keyB)
MCPaths == {<<lowerA>>, <<upperA>>, <<b>>, <<lowerA, b>>, <<b, upperA>>, <<lowerA, b, b>>}
Symmetry == Permutations({n1, n2, n3})

=============================================================================
