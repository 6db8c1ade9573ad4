------------------------- MODULE MCWinFspFileSystem -------------------------
(***************************************************************************)
(* Two handles on a tree of a root and two more nodes.  In the order of  *)
(* names, one comes before the entries "." and ".." and the others after.  *)
(***************************************************************************)
EXTENDS WinFspFileSystem, TLC

CONSTANTS n1, n2, h1, h2, a, b

MCNode == {Root, n1, n2}
MCHandle == {h1, h2}
MCFold == [s \in {a, b} |-> s]
MCRank == (a :> 1) @@ (Dot :> 2) @@ (DotDot :> 3) @@ (b :> 4)
MCDeepPaths == {<<a>>, <<b>>, <<a, b>>}

\* States that differ only in what no action reads are the same: tombstones,
\* which only overlays read, and what a handle was before its cleanup.
MCView ==
    LET treeOf(n) == [node[n] EXCEPT !.tombstones = {}]
        contextOf(h) == IF IsOpen(h) /\ opened[h].cleaned
                        THEN [OpenContext(NodeOf(h), <<>>) EXCEPT !.cleaned = TRUE]
                        ELSE opened[h]
    IN  <<[n \in Node |-> treeOf(n)], held, [h \in Handle |-> contextOf(h)], pending>>

Symmetry == Permutations({n1, n2}) \cup Permutations({h1, h2})

=============================================================================
