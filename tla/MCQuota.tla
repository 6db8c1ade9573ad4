------------------------------ MODULE MCQuota -------------------------------
(***************************************************************************)
(* The write quota of VirtualTree: three nodes besides the root, two names *)
(* in the root, files of up to three pages, and room for three and a half  *)
(* pages, so that one file fits, two do not, and bytes of the quota are    *)
(* left that no page can use.                                              *)
(***************************************************************************)
EXTENDS VirtualTree, TLC

CONSTANTS n1, n2, n3, a, b

MCNode == {Root, n1, n2, n3}
MCFold == (a :> a) @@ (b :> b)
MCPaths == {<<a>>, <<b>>}
Symmetry == Permutations({n1, n2, n3})

=============================================================================
