------------------------- MODULE VirtualTree_proofs -------------------------
(***************************************************************************)
(* Proofs about VirtualTree, for every set of nodes, names, paths and      *)
(* pages and for every quota: the tree is well formed, the quota and the   *)
(* deleted names are kept, nothing is stranded, and the tree implements    *)
(* Namespace.  The last part is about WinFspFileSystem, for every set of   *)
(* handles and every order of the entries: its callbacks keep what the     *)
(* directories hold, a cleanup deletes no node but its own, and an         *)
(* enumeration lists every name once.                                      *)
(***************************************************************************)
EXTENDS WinFspFileSystem, Induction, FiniteSetTheorems, SequenceTheorems, TLAPS

-----------------------------------------------------------------------------
(***************************************************************************)
(* Closures.                                                               *)
(***************************************************************************)
LEMMA ClosureType ==
  ASSUME NEW next, NEW start
  PROVE  Closure(next, start) \subseteq Node
BY DEF Closure

\* A closure holds the nodes it starts from,
LEMMA ClosureStart ==
  ASSUME NEW next, NEW start \in SUBSET Node
  PROVE  start \subseteq Closure(next, start)
BY DEF Closure

\* the next ones of every node it holds,
LEMMA ClosureClosed ==
  ASSUME NEW next \in [Node -> SUBSET Node], NEW start, NEW m \in Closure(next, start)
  PROVE  next[m] \subseteq Closure(next, start)
<1> SUFFICES ASSUME NEW x \in next[m] PROVE x \in Closure(next, start)
  OBVIOUS
<1>1. m \in Node /\ x \in Node
  BY DEF Closure
<1>2. ASSUME NEW S \in SUBSET Node, start \subseteq S, \A y \in S : next[y] \subseteq S
      PROVE  x \in S
  <2>1. m \in S
    BY <1>2 DEF Closure
  <2>2. QED
    BY <1>2, <2>1
<1>3. QED
  BY <1>1, <1>2 DEF Closure

\* and nothing that it need not hold.
LEMMA ClosureSmallest ==
  ASSUME NEW next, NEW start, NEW S \in SUBSET Node,
         start \subseteq S, \A y \in S : next[y] \subseteq S
  PROVE  Closure(next, start) \subseteq S
BY DEF Closure

-----------------------------------------------------------------------------
(***************************************************************************)
(* Types.                                                                  *)
(***************************************************************************)
Tree == [Node -> NodeType]
Cursors == Cursor \cup {NoOverlay}

\* The nodes of MakeNode and the freed ones have the type of a node.
LEMMA NodeTypes ==
  /\ Unallocated \in NodeType
  /\ \A name \in Spelling \cup {NoName}, directory \in BOOLEAN, parent \in Node \cup {NoNode} :
        MakeNode(name, directory, parent) \in NodeType
  /\ \A s \in Spelling : Fold[s] \in Key
BY DEF Unallocated, MakeNode, NodeType, NoChildren, Key

\* A new node has no pages, and is a directory only if made as one.
LEMMA NewNodeFields ==
  ASSUME NEW name, NEW directory, NEW parent
  PROVE  /\ MakeNode(name, directory, parent).dirtyPages = {}
         /\ MakeNode(name, directory, parent).directory = directory
         /\ Unallocated.dirtyPages = {}
         /\ ~Unallocated.directory
BY DEF MakeNode, Unallocated

\* The children of a node are nodes, and are in its slots.
LEMMA ChildrenType ==
  ASSUME NEW f \in Tree
  PROVE  /\ ChildrenOf(f) \in [Node -> SUBSET Node]
         /\ \A d \in Node, k \in Key : f[d].children[k] # NoNode =>
                /\ f[d].children[k] \in Node
                /\ f[d].children[k] \in ChildrenOf(f)[d]
<1>1. \A d \in Node, k \in Key : f[d].children[k] \in Node \cup {NoNode}
  BY DEF Tree, NodeType
<1>2. QED
  BY <1>1 DEF ChildrenOf

\* Root, what a handle or the overlay's lock holds and what is in a slot of a
\* live directory is live.
LEMMA AliveProperties ==
  ASSUME NEW f \in Tree, NEW h \in SUBSET Node, NEW c \in Cursors
  PROVE  LET alive == AliveIn(f, h, c)
         IN  /\ alive \subseteq Node
             /\ Root \in alive /\ h \subseteq alive
             /\ c # NoOverlay => c.dir \in alive /\ c.dir \in Node
             /\ \A d \in alive, k \in Key :
                   f[d].children[k] # NoNode => f[d].children[k] \in alive
<1> DEFINE start == {Root} \cup h \cup CursorDir(c)
<1>1. start \in SUBSET Node
  BY NodeAssumption DEF CursorDir, Cursors, Cursor
<1>2. c # NoOverlay => c.dir \in start
  BY DEF CursorDir
<1>3. start \subseteq AliveIn(f, h, c)
  BY <1>1, ClosureStart DEF AliveIn
<1>4. AliveIn(f, h, c) \subseteq Node
  BY ClosureType DEF AliveIn
<1>5. ASSUME NEW d \in AliveIn(f, h, c), NEW k \in Key, f[d].children[k] # NoNode
      PROVE  f[d].children[k] \in AliveIn(f, h, c)
  <2>1. f[d].children[k] \in ChildrenOf(f)[d]
    BY <1>4, <1>5, ChildrenType
  <2>2. ChildrenOf(f)[d] \subseteq AliveIn(f, h, c)
    BY ChildrenType, ClosureClosed DEF AliveIn
  <2>3. QED
    BY <2>1, <2>2
<1>6. QED
  BY <1>1, <1>2, <1>3, <1>4, <1>5

\* No set that contains the references and is closed under children misses a
\* live node.
LEMMA AliveSmallest ==
  ASSUME NEW f \in Tree, NEW h, NEW c, NEW S \in SUBSET Node,
         {Root} \cup h \cup CursorDir(c) \subseteq S,
         \A m \in S : ChildrenOf(f)[m] \subseteq S
  PROVE  AliveIn(f, h, c) \subseteq S
BY ClosureSmallest DEF AliveIn

-----------------------------------------------------------------------------
(***************************************************************************)
(* Dirty pages are finitely many.                                          *)
(***************************************************************************)
LEMMA SlotsFinite ==
  ASSUME NEW f, NEW N \in SUBSET Node
  PROVE  /\ IsFiniteSet(PageSlots(f, N))
         /\ Cardinality(PageSlots(f, N)) \in Nat
<1>1. IsFiniteSet(N) /\ IsFiniteSet(Page)
  BY NodeAssumption, QuotaAssumption, FS_Subset, FS_Interval DEF Page
<1>2. IsFiniteSet(N \X Page)
  BY <1>1, FS_Product
<1>3. PageSlots(f, N) \in SUBSET (N \X Page)
  BY DEF PageSlots
<1>4. QED
  BY <1>2, <1>3, FS_Subset, FS_CardinalityType

\* Disjoint sets of slots are charged separately.
LEMMA DisjointSum ==
  ASSUME NEW A, NEW B, IsFiniteSet(A), IsFiniteSet(B), A \cap B = {}
  PROVE  /\ Cardinality(A \cup B) = Cardinality(A) + Cardinality(B)
         /\ Cardinality(A) \in Nat /\ Cardinality(B) \in Nat
<1>1. Cardinality(A \cap B) = 0
  BY FS_EmptySet
<1>2. Cardinality(A) \in Nat /\ Cardinality(B) \in Nat
  BY FS_CardinalityType
<1>3. Cardinality(A \cup B) = Cardinality(A) + Cardinality(B) - Cardinality(A \cap B)
  BY FS_Union
<1>4. QED
  BY <1>1, <1>2, <1>3

\* What a set of pages of one node costs.
LEMMA SlotsOfNode ==
  ASSUME NEW n \in Node, NEW S \in SUBSET Page
  PROVE  /\ IsFiniteSet(S) /\ Cardinality(S) \in Nat
         /\ IsFiniteSet({n} \X S)
         /\ Cardinality({n} \X S) = Cardinality(S)
<1>1. IsFiniteSet(S)
  <2>1. IsFiniteSet(Page)
    BY QuotaAssumption, FS_Interval DEF Page
  <2>2. QED
    BY <2>1, FS_Subset
<1>2. IsFiniteSet({n}) /\ Cardinality({n}) = 1
  BY FS_Singleton, Zenon
<1>3. IsFiniteSet({n} \X S) /\ Cardinality({n} \X S) = Cardinality({n}) * Cardinality(S)
  BY <1>1, <1>2, FS_Product
<1>4. Cardinality(S) \in Nat
  BY <1>1, FS_CardinalityType
<1>5. 1 * Cardinality(S) = Cardinality(S)
  BY <1>4
<1>6. QED
  BY <1>1, <1>2, <1>3, <1>4, <1>5

\* The destruction of nodes takes their pages off the counter exactly.
LEMMA FinishCharge ==
  ASSUME NEW f \in Tree, NEW h \in SUBSET Node, NEW c \in Cursors,
         Finish(f, h, c, PageSize * Cardinality(PageSlots(f, Node)))
  PROVE  /\ dirtyBytes' = PageSize * Cardinality(PageSlots(node', Node))
         /\ dirtyBytes' \in Nat
         /\ dirtyBytes' <= PageSize * Cardinality(PageSlots(f, Node))
<1> DEFINE alive == AliveIn(f, h, c)
           kept == PageSlots(f, alive)
           freed == PageSlots(f, Node \ alive)
<1>1. alive \subseteq Node
  BY AliveProperties, Zenon
<1>2. PageSlots(f, Node) = kept \cup freed /\ kept \cap freed = {}
  BY <1>1 DEF PageSlots
<1>3. IsFiniteSet(kept) /\ IsFiniteSet(freed)
  BY <1>1, SlotsFinite
<1>4. /\ Cardinality(PageSlots(f, Node)) = Cardinality(kept) + Cardinality(freed)
      /\ Cardinality(kept) \in Nat /\ Cardinality(freed) \in Nat
  BY <1>2, <1>3, DisjointSum, Zenon
<1>5. \A n \in Node : node'[n].dirtyPages = IF n \in alive THEN f[n].dirtyPages ELSE {}
  BY DEF Finish, Unallocated, Tree, NodeType
<1>6. PageSlots(node', Node) = kept
  BY <1>1, <1>5 DEF PageSlots
<1>7. dirtyBytes' = PageSize * Cardinality(PageSlots(f, Node)) - PageSize * Cardinality(freed)
  BY DEF Finish, Returned
<1>8. QED
  <2> HIDE DEF kept, freed
  <2>1. PageSize * (Cardinality(kept) + Cardinality(freed))
           = PageSize * Cardinality(kept) + PageSize * Cardinality(freed)
    BY <1>4, QuotaAssumption
  <2>2. PageSize * Cardinality(kept) \in Nat /\ PageSize * Cardinality(freed) \in Nat
    BY <1>4, QuotaAssumption
  <2>3. QED
    BY <2>1, <2>2, <1>4, <1>6, <1>7

-----------------------------------------------------------------------------
(***************************************************************************)
(* The invariant.  WellFormed says of any tree what the invariants of the  *)
(* namespace say of node, so that it can be stated of the trees that a     *)
(* call builds on its way.                                                 *)
(***************************************************************************)
SlotAgrees(f, d, k) ==
    f[d].children[k] # NoNode =>
        /\ f[d].directory
        /\ f[f[d].children[k]].linked
        /\ f[f[d].children[k]].parent = d
        /\ Fold[f[f[d].children[k]].name] = k

InPlace(f, n) ==
    f[n].parent # NoNode =>
        /\ f[n].linked
        /\ f[n].parent # n
        /\ f[n].name # NoName
        /\ f[f[n].parent].children[Fold[f[n].name]] = n

WellFormed(f) ==
    /\ f \in Tree
    /\ f[Root].directory /\ f[Root].parent = NoNode
    /\ \A d \in Node, k \in Key : SlotAgrees(f, d, k)
    /\ \A n \in Node : InPlace(f, n)
    /\ \A d \in Node : \A k \in f[d].tombstones : f[d].children[k] = NoNode

\* An overlay in progress stands in a directory and has components left.
CursorOK(f, c) == c # NoOverlay => f[c.dir].directory /\ c.rest # <<>>

IInv ==
    /\ WellFormed(node)
    /\ held \subseteq Node
    /\ cursor \in Cursors
    /\ CursorOK(node, cursor)
    /\ \A n \in Node \ Alive : node[n] = Unallocated
    /\ QuotaRespected

\* What WellFormed says of a call's last tree holds of the tree it leaves.
LEMMA FinishTree ==
  ASSUME NEW f, WellFormed(f), NEW h \in SUBSET Node, NEW c \in Cursors,
         CursorOK(f, c), NEW charged, Finish(f, h, c, charged)
  PROVE  /\ WellFormed(node')
         /\ held' \subseteq Node /\ cursor' \in Cursors
         /\ CursorOK(node', cursor')
         /\ (\A n \in Node \ Alive : node[n] = Unallocated)'
<1> DEFINE alive == AliveIn(f, h, c)
<1>1. f \in Tree
  BY DEF WellFormed
<1>2. /\ alive \subseteq Node /\ Root \in alive
      /\ c # NoOverlay => c.dir \in alive /\ c.dir \in Node
      /\ \A d \in alive, k \in Key : f[d].children[k] # NoNode => f[d].children[k] \in alive
  BY <1>1, AliveProperties, Zenon
<1>3. /\ held' = h /\ cursor' = c
      /\ node' = [n \in Node |-> IF n \notin alive THEN Unallocated
                                 ELSE IF f[n].parent \in alive THEN f[n]
                                 ELSE [f[n] EXCEPT !.parent = NoNode]]
  BY DEF Finish
<1>4. node' \in Tree
  <2>1. \A n \in Node : f[n] \in NodeType /\ [f[n] EXCEPT !.parent = NoNode] \in NodeType
    BY <1>1 DEF Tree, NodeType
  <2>2. QED
    BY <2>1, <1>3, NodeTypes DEF Tree
<1>5. \A n \in alive : /\ node'[n].directory = f[n].directory
                       /\ node'[n].linked = f[n].linked
                       /\ node'[n].name = f[n].name
                       /\ node'[n].children = f[n].children
                       /\ node'[n].tombstones = f[n].tombstones
                       /\ node'[n].parent = IF f[n].parent \in alive THEN f[n].parent ELSE NoNode
  BY <1>1, <1>2, <1>3 DEF Tree, NodeType
<1>6. \A n \in Node \ alive : node'[n] = Unallocated
  BY <1>3
<1>7. NoNode \notin alive
  BY <1>2, NodeAssumption
<1>8. ASSUME NEW d \in Node, NEW k \in Key PROVE SlotAgrees(node', d, k)
  <2>1. CASE d \in alive
    <3> SUFFICES ASSUME node'[d].children[k] # NoNode
                 PROVE  SlotAgrees(node', d, k)
      BY DEF SlotAgrees
    <3> DEFINE n == f[d].children[k]
    <3>1. node'[d].children[k] = n /\ n # NoNode /\ n \in alive
      BY <2>1, <1>2, <1>5
    <3>2. f[d].directory /\ f[n].linked /\ f[n].parent = d /\ Fold[f[n].name] = k
      BY <3>1 DEF WellFormed, SlotAgrees
    <3>3. QED
      BY <3>1, <3>2, <2>1, <1>5 DEF SlotAgrees
  <2>2. CASE d \notin alive
    BY <2>2, <1>6 DEF SlotAgrees, Unallocated, NoChildren
  <2>3. QED
    BY <2>1, <2>2
<1>9. ASSUME NEW n \in Node PROVE InPlace(node', n)
  <2>1. CASE n \in alive /\ f[n].parent \in alive
    BY <2>1, <1>2, <1>5, <1>7 DEF WellFormed, InPlace
  <2>2. CASE n \in alive /\ f[n].parent \notin alive
    BY <2>2, <1>5 DEF InPlace
  <2>3. CASE n \notin alive
    BY <2>3, <1>6 DEF InPlace, Unallocated
  <2>4. QED
    BY <2>1, <2>2, <2>3
<1>10. ASSUME NEW d \in Node, NEW k \in node'[d].tombstones PROVE node'[d].children[k] = NoNode
  <2>1. CASE d \in alive
    BY <2>1, <1>5, <1>10 DEF WellFormed
  <2>2. CASE d \notin alive
    BY <2>2, <1>6, <1>10 DEF Unallocated
  <2>3. QED
    BY <2>1, <2>2
<1>11. WellFormed(node')
  BY <1>2, <1>4, <1>5, <1>7, <1>8, <1>9, <1>10, NodeAssumption DEF WellFormed
<1>12. CursorOK(node', cursor')
  BY <1>2, <1>3, <1>5 DEF CursorOK
<1>13. alive \subseteq Alive'
  <2> DEFINE B == AliveIn(node', h, c)
  <2>1. /\ B \subseteq Node
        /\ {Root} \cup h \cup CursorDir(c) \subseteq B
    BY <1>4, AliveProperties, Zenon DEF CursorDir
  <2>2. \A m \in alive : ChildrenOf(node')[m] = ChildrenOf(f)[m]
    <3>1. \A m \in Node : /\ ChildrenOf(node')[m] = {node'[m].children[k] : k \in Key} \ {NoNode}
                          /\ ChildrenOf(f)[m] = {f[m].children[k] : k \in Key} \ {NoNode}
      BY DEF ChildrenOf
    <3>2. ASSUME NEW m \in alive PROVE ChildrenOf(node')[m] = ChildrenOf(f)[m]
      <4>1. m \in Node /\ node'[m].children = f[m].children
        BY <1>2, <1>5
      <4>2. {node'[m].children[k] : k \in Key} = {f[m].children[k] : k \in Key}
        BY <4>1
      <4>3. QED
        BY <4>1, <4>2, <3>1, Zenon
    <3>3. QED
      BY <3>2
  <2>3. \A m \in alive : ChildrenOf(f)[m] \subseteq alive
    BY <1>1, <1>2, ChildrenType, ClosureClosed DEF AliveIn
  <2>4. {Root} \cup h \cup CursorDir(c) \subseteq alive
    BY <1>1, AliveProperties, Zenon DEF CursorDir
  <2>5. B \subseteq alive
    <3>1. alive \in SUBSET Node
      BY <1>2
    <3>2. \A m \in alive : ChildrenOf(node')[m] \subseteq alive
      BY <2>2, <2>3
    <3>3. QED
      BY <3>1, <3>2, <2>4, <1>4, AliveSmallest
  <2>6. \A m \in B : ChildrenOf(f)[m] \subseteq B
    BY <2>2, <2>5, <1>4, ChildrenType, ClosureClosed, Zenon DEF AliveIn
  <2>7. alive \subseteq B
    <3>1. B \in SUBSET Node
      BY <2>1
    <3>2. QED
      BY <3>1, <2>1, <2>6, <1>1, AliveSmallest
  <2>8. QED
    BY <2>7, <1>3, Zenon DEF Alive, AliveIn
<1>14. (\A n \in Node \ Alive : node[n] = Unallocated)'
  BY <1>6, <1>13
<1>15. QED
  BY <1>3, <1>11, <1>12, <1>14

-----------------------------------------------------------------------------
(***************************************************************************)
(* The trees a call builds.                                                *)
(***************************************************************************)
LEMMA TreeFields ==
  ASSUME NEW f \in Tree, NEW n \in Node
  PROVE  /\ f[n].directory \in BOOLEAN /\ f[n].linked \in BOOLEAN
         /\ f[n].name \in Spelling \cup {NoName}
         /\ f[n].parent \in Node \cup {NoNode}
         /\ f[n].children \in [Key -> Node \cup {NoNode}]
         /\ f[n].tombstones \in SUBSET Key
         /\ f[n].dirtyPages \in SUBSET Page
BY DEF Tree, NodeType

\* What no change of place alters in a node.
SameFields(f, g, n) ==
    /\ g[n].directory = f[n].directory
    /\ g[n].name = f[n].name
    /\ g[n].tombstones = f[n].tombstones
    /\ g[n].dirtyPages = f[n].dirtyPages

\* g is f but for the node t, which has lost its place in slot (d, k).
Vacated(f, g, d, k, t) ==
    /\ t # d
    /\ g \in Tree
    /\ \A n \in Node : SameFields(f, g, n)
    /\ g[t].linked = FALSE
    /\ g[t].parent = NoNode
    /\ \A n \in Node \ {t} : g[n].linked = f[n].linked /\ g[n].parent = f[n].parent
    /\ \A n \in Node, j \in Key :
          g[n].children[j] = IF n = d /\ j = k THEN NoNode ELSE f[n].children[j]
    /\ \A n \in Node \ {d, t} : g[n] = f[n]

\* Vacate empties the slot of d and k and unlinks what was in it, no more.
LEMMA VacateFields ==
  ASSUME NEW f, WellFormed(f), NEW d \in Node, NEW k \in Key,
         NEW t \in Node, f[d].children[k] = t
  PROVE  Vacated(f, Vacate(f, d, k), d, k, t)
<1>1. t # NoNode /\ f[t].parent = d /\ f \in Tree
  BY NodeAssumption DEF WellFormed, SlotAgrees
<1>2. t # d
  BY <1>1, NodeAssumption DEF WellFormed, InPlace
<1> DEFINE kids == [f[d].children EXCEPT ![k] = NoNode]
           gd == [f[d] EXCEPT !.children = kids]
           gt == [f[t] EXCEPT !.linked = FALSE, !.parent = NoNode]
           g == [n \in Node |-> IF n = d THEN gd ELSE IF n = t THEN gt ELSE f[n]]
<1>3. Vacate(f, d, k) = g
  <2>1. Vacate(f, d, k) = [f EXCEPT ![t].linked = FALSE, ![t].parent = NoNode,
                                    ![d].children[k] = NoNode]
    BY <1>1 DEF Vacate
  <2>2. QED
    BY <1>1, <1>2, <2>1, Zenon DEF Tree
<1>4. f[d] \in NodeType /\ f[t] \in NodeType
  BY <1>1 DEF Tree
<1>5. /\ kids \in [Key -> Node \cup {NoNode}]
      /\ \A j \in Key : kids[j] = IF j = k THEN NoNode ELSE f[d].children[j]
  BY <1>4 DEF NodeType
<1> HIDE DEF kids
<1>6. /\ gd \in NodeType /\ gd.children = kids /\ gd.directory = f[d].directory
      /\ gd.name = f[d].name /\ gd.tombstones = f[d].tombstones
      /\ gd.dirtyPages = f[d].dirtyPages /\ gd.linked = f[d].linked /\ gd.parent = f[d].parent
  BY <1>4, <1>5 DEF NodeType
<1>7. /\ gt \in NodeType /\ gt.children = f[t].children /\ gt.directory = f[t].directory
      /\ gt.name = f[t].name /\ gt.tombstones = f[t].tombstones
      /\ gt.dirtyPages = f[t].dirtyPages /\ gt.linked = FALSE /\ gt.parent = NoNode
  BY <1>4, Zenon DEF NodeType
<1> HIDE DEF gd, gt
<1>8. g \in Tree
  BY <1>1, <1>6, <1>7 DEF Tree
<1>9. g[d] = gd /\ g[t] = gt /\ \A n \in Node \ {d, t} : g[n] = f[n]
  BY <1>2
<1> HIDE DEF g
<1>10. \A n \in Node, j \in Key :
          g[n].children[j] = IF n = d /\ j = k THEN NoNode ELSE f[n].children[j]
  BY <1>5, <1>6, <1>7, <1>9
<1>11. QED
  BY <1>2, <1>3, <1>6, <1>7, <1>8, <1>9, <1>10 DEF Vacated, SameFields

\* A vacated tree is well formed.
LEMMA VacateWellFormed ==
  ASSUME NEW f, WellFormed(f), NEW d \in Node, NEW k \in Key
  PROVE  /\ WellFormed(Vacate(f, d, k))
         /\ Vacate(f, d, k)[d].children[k] = NoNode
         /\ \A n \in Node : SameFields(f, Vacate(f, d, k), n)
         /\ \A n \in Node : n # f[d].children[k] =>
                            /\ Vacate(f, d, k)[n].linked = f[n].linked
                            /\ Vacate(f, d, k)[n].parent = f[n].parent
         /\ \A n \in Node : f[n] = Unallocated => Vacate(f, d, k)[n] = Unallocated
<1>1. CASE f[d].children[k] = NoNode
  BY <1>1 DEF Vacate, SameFields
<1>2. ASSUME NEW t \in Node, f[d].children[k] = t
      PROVE  /\ WellFormed(Vacate(f, d, k))
             /\ Vacated(f, Vacate(f, d, k), d, k, t)
             /\ \A n \in Node : f[n] = Unallocated => Vacate(f, d, k)[n] = Unallocated
  <2> DEFINE g == Vacate(f, d, k)
  <2>0. Vacated(f, g, d, k, t)
    BY <1>2, VacateFields
  <2> HIDE DEF g
  <2>1. /\ t # d /\ g \in Tree
        /\ \A n \in Node : /\ g[n].directory = f[n].directory /\ g[n].name = f[n].name
                           /\ g[n].tombstones = f[n].tombstones
        /\ g[t].linked = FALSE /\ g[t].parent = NoNode
        /\ \A n \in Node \ {t} : g[n].linked = f[n].linked /\ g[n].parent = f[n].parent
        /\ \A n \in Node, j \in Key :
              g[n].children[j] = IF n = d /\ j = k THEN NoNode ELSE f[n].children[j]
        /\ \A n \in Node \ {d, t} : g[n] = f[n]
    BY <2>0 DEF Vacated, SameFields
  <2>2. f \in Tree /\ t # NoNode
    BY NodeAssumption DEF WellFormed
  <2>3. ASSUME NEW e \in Node, NEW j \in Key PROVE SlotAgrees(g, e, j)
    <3> SUFFICES ASSUME g[e].children[j] # NoNode PROVE SlotAgrees(g, e, j)
      BY DEF SlotAgrees
    <3> DEFINE n == f[e].children[j]
    <3>1. g[e].children[j] = n /\ ~(e = d /\ j = k) /\ n \in Node
      BY <2>1, <2>2, TreeFields
    <3>2. f[e].directory /\ f[n].linked /\ f[n].parent = e /\ Fold[f[n].name] = j
      BY <3>1, <2>1 DEF WellFormed, SlotAgrees
    <3>3. n # t
      <4>1. f[t].parent = d /\ Fold[f[t].name] = k
        BY <1>2, <2>2 DEF WellFormed, SlotAgrees
      <4>2. QED
        BY <3>1, <3>2, <4>1
    <3>4. g[n].linked /\ g[n].parent = e /\ Fold[g[n].name] = j /\ g[e].directory
      BY <3>1, <3>2, <3>3, <2>1
    <3>5. QED
      BY <3>1, <3>4 DEF SlotAgrees
  <2>4. ASSUME NEW n \in Node PROVE InPlace(g, n)
    <3> SUFFICES ASSUME g[n].parent # NoNode PROVE InPlace(g, n)
      BY DEF InPlace
    <3>1. n # t /\ g[n].parent = f[n].parent /\ g[n].linked = f[n].linked /\ g[n].name = f[n].name
      BY <2>1
    <3>2. /\ f[n].linked /\ f[n].parent # n /\ f[n].name # NoName
          /\ f[f[n].parent].children[Fold[f[n].name]] = n
          /\ f[n].parent \in Node /\ Fold[f[n].name] \in Key
      BY <3>1, <2>2, TreeFields, NodeTypes DEF WellFormed, InPlace
    <3>3. g[f[n].parent].children[Fold[f[n].name]] = n
      BY <3>1, <3>2, <2>1, <1>2
    <3>4. QED
      BY <3>1, <3>2, <3>3 DEF InPlace
  <2>5. \A e \in Node : \A j \in g[e].tombstones : g[e].children[j] = NoNode
    BY <2>1, <2>2, TreeFields DEF WellFormed
  <2>6. g[Root].directory /\ g[Root].parent = NoNode
    BY <2>1, NodeAssumption DEF WellFormed
  <2>7. WellFormed(g)
    BY <2>1, <2>3, <2>4, <2>5, <2>6 DEF WellFormed
  <2>8. f[d] # Unallocated /\ f[t] # Unallocated
    <3>1. f[d].children[k] # Unallocated.children[k]
      BY <1>2, <2>2 DEF Unallocated, NoChildren
    <3>2. f[t].linked
      BY <1>2, <2>2 DEF WellFormed, SlotAgrees
    <3>3. ~Unallocated.linked
      BY DEF Unallocated
    <3>4. QED
      BY <3>1, <3>2, <3>3
  <2>9. QED
    BY <2>0, <2>1, <2>7, <2>8 DEF g
<1>3. QED
  <2>1. f \in Tree
    BY DEF WellFormed
  <2>2. f[d].children[k] \in Node \cup {NoNode}
    BY <2>1, TreeFields
  <2>3. CASE f[d].children[k] # NoNode
    BY <2>2, <2>3, <1>2, Zenon DEF Vacated
  <2>4. QED
    BY <1>1, <2>3

\* g is f with a new node n in slot (d, k).
Added(f, g, d, k, n, s, directory) ==
    /\ g \in Tree
    /\ g[n] = MakeNode(s, directory, d)
    /\ \A m \in Node \ {n, d} : g[m] = f[m]
    /\ g[d].directory = f[d].directory
    /\ g[d].linked = f[d].linked
    /\ g[d].name = f[d].name
    /\ g[d].parent = f[d].parent
    /\ g[d].dirtyPages = f[d].dirtyPages
    /\ g[d].tombstones = f[d].tombstones \ {k}
    /\ \A j \in Key : g[d].children[j] = IF j = k THEN n ELSE f[d].children[j]

\* make_node, tombstones.erase and emplace, as in create and in overlay, where
\* the name is not a tombstone.
LEMMA AddFields ==
  ASSUME NEW f \in Tree, NEW d \in Node, NEW n \in Node, n # d, NEW s \in Spelling,
         NEW directory \in BOOLEAN, f[d].children[Fold[s]] = NoNode
  PROVE  LET k == Fold[s]
             made == [f EXCEPT ![n] = MakeNode(s, directory, d)]
         IN  /\ Added(f, Emplace(Reveal(made, d, k), d, k, n), d, k, n, s, directory)
             /\ k \notin f[d].tombstones =>
                   Added(f, Emplace(made, d, k, n), d, k, n, s, directory)
<1> DEFINE k == Fold[s]
           made == [f EXCEPT ![n] = MakeNode(s, directory, d)]
           kids == [f[d].children EXCEPT ![k] = n]
           gd(S) == [f[d] EXCEPT !.tombstones = S, !.children = kids]
           g(S) == [m \in Node |-> IF m = d THEN gd(S) ELSE IF m = n
                                   THEN MakeNode(s, directory, d) ELSE f[m]]
<1>1. k \in Key /\ MakeNode(s, directory, d) \in NodeType /\ f[d] \in NodeType
  BY NodeTypes DEF Tree
<1>2. /\ kids \in [Key -> Node \cup {NoNode}]
      /\ \A j \in Key : kids[j] = IF j = k THEN n ELSE f[d].children[j]
  BY <1>1 DEF NodeType
<1>3. made = [m \in Node |-> IF m = n THEN MakeNode(s, directory, d) ELSE f[m]]
  BY Zenon DEF Tree
<1>4. made[d] = f[d] /\ f[d].tombstones \in SUBSET Key
  BY <1>1, <1>3 DEF NodeType
<1>5. Emplace(made, d, k, n) = g(f[d].tombstones)
  <2>1. Emplace(made, d, k, n) = [made EXCEPT ![d] = [f[d] EXCEPT !.children = kids]]
    BY <1>1, <1>3, <1>4, Zenon DEF Emplace, NodeType
  <2>2. [f[d] EXCEPT !.children = kids] = gd(f[d].tombstones)
    BY <1>1, Zenon DEF NodeType
  <2>3. QED
    BY <2>1, <2>2, <1>3, Zenon
<1>6. Emplace(Reveal(made, d, k), d, k, n) = g(f[d].tombstones \ {k})
  <2> DEFINE shown == [f[d] EXCEPT !.tombstones = f[d].tombstones \ {k}]
  <2>1. Reveal(made, d, k) = [m \in Node |-> IF m = d THEN shown ELSE made[m]]
    BY <1>3, <1>4, Zenon DEF Reveal
  <2>2. /\ shown.children = f[d].children
        /\ [shown EXCEPT !.children = kids] = gd(f[d].tombstones \ {k})
    BY <1>1 DEF NodeType
  <2>3. Emplace(Reveal(made, d, k), d, k, n)
           = [Reveal(made, d, k) EXCEPT ![d] = [shown EXCEPT !.children = kids]]
    <3> HIDE DEF made
    <3>1. Reveal(made, d, k)[d] = shown
      BY <2>1
    <3>2. shown \in NodeType
      BY <1>1, <1>4 DEF NodeType
    <3> HIDE DEF shown
    <3>3. [shown EXCEPT !.children[k] = IF @ = NoNode THEN n ELSE @]
             = [shown EXCEPT !.children = kids]
      BY <1>1, <2>2, <3>2 DEF NodeType
    <3>4. QED
      BY <3>1, <3>2, <3>3, <2>1, <2>2 DEF Emplace
  <2>4. QED
    <3> HIDE DEF made, shown, gd, kids
    <3>1. \A m \in Node \ {d} : made[m] = IF m = n THEN MakeNode(s, directory, d) ELSE f[m]
      BY <1>3
    <3>2. QED
      BY <2>1, <2>2, <2>3, <3>1
<1>7. ASSUME NEW S \in SUBSET Key, S = f[d].tombstones \ {k}
      PROVE  Added(f, g(S), d, k, n, s, directory)
  <2>1. /\ gd(S) \in NodeType /\ gd(S).children = kids /\ gd(S).tombstones = S
        /\ gd(S).directory = f[d].directory /\ gd(S).linked = f[d].linked
        /\ gd(S).name = f[d].name /\ gd(S).parent = f[d].parent
        /\ gd(S).dirtyPages = f[d].dirtyPages
    <3> HIDE DEF kids
    <3>1. QED
      BY <1>1, <1>2, Zenon DEF NodeType
  <2> HIDE DEF gd, kids
  <2>2. g(S) \in Tree
    BY <2>1, <1>1 DEF Tree
  <2>3. g(S)[d] = gd(S) /\ g(S)[n] = MakeNode(s, directory, d)
        /\ \A m \in Node \ {n, d} : g(S)[m] = f[m]
    OBVIOUS
  <2> HIDE DEF g
  <2>4. QED
    BY <2>1, <2>2, <2>3, <1>2, <1>7 DEF Added
<1>8. QED
  <2>1. Added(f, g(f[d].tombstones \ {k}), d, k, n, s, directory)
    BY <1>4, <1>7
  <2>2. k \notin f[d].tombstones => f[d].tombstones = f[d].tombstones \ {k}
    OBVIOUS
  <2> HIDE DEF g, made, k
  <2>3. QED
    BY <2>1, <2>2, <1>5, <1>6 DEF made, k

\* So is one with a new node in an empty slot,
LEMMA AddWellFormed ==
  ASSUME NEW f, WellFormed(f), NEW d \in Node, NEW n \in Node, NEW s \in Spelling,
         NEW directory \in BOOLEAN, NEW g, Added(f, g, d, Fold[s], n, s, directory),
         f[n] = Unallocated, f[d].directory, f[d].children[Fold[s]] = NoNode
  PROVE  WellFormed(g)
<1> DEFINE k == Fold[s]
<1>1. f \in Tree /\ g \in Tree /\ k \in Key
  BY NodeTypes DEF WellFormed, Added
<1>2. /\ ~f[n].directory /\ ~f[n].linked /\ f[n].children = NoChildren
  BY DEF Unallocated
<1>3. n # d /\ n # Root
  BY <1>2 DEF WellFormed
<1>4. /\ g[n].directory = directory /\ g[n].linked /\ g[n].name = s /\ g[n].parent = d
      /\ g[n].children = NoChildren /\ g[n].tombstones = {}
  BY DEF Added, MakeNode
<1>5. \A e \in Node \ {n} : /\ g[e].directory = f[e].directory /\ g[e].linked = f[e].linked
                            /\ g[e].name = f[e].name /\ g[e].parent = f[e].parent
                            /\ \A j \in g[e].tombstones : j \in f[e].tombstones
                                                          /\ ~(e = d /\ j = k)
  BY Zenon DEF Added
<1>6. \A e \in Node, j \in Key :
         g[e].children[j] = IF e = d /\ j = k THEN n ELSE f[e].children[j]
  <2>1. \A j \in Key : g[n].children[j] = f[n].children[j]
    BY <1>2, <1>4
  <2>2. QED
    BY <2>1, <1>3 DEF Added
<1>7. ASSUME NEW e \in Node, NEW j \in Key PROVE SlotAgrees(g, e, j)
  <2>1. CASE e = d /\ j = k
    BY <2>1, <1>3, <1>4, <1>5, <1>6 DEF SlotAgrees
  <2>2. CASE ~(e = d /\ j = k)
    <3> SUFFICES ASSUME g[e].children[j] # NoNode PROVE SlotAgrees(g, e, j)
      BY DEF SlotAgrees
    <3> DEFINE m == f[e].children[j]
    <3>1. g[e].children[j] = m /\ m \in Node
      BY <2>2, <1>1, <1>6, TreeFields
    <3>2. f[e].directory /\ f[m].linked /\ f[m].parent = e /\ Fold[f[m].name] = j
      BY <3>1 DEF WellFormed, SlotAgrees
    <3>3. m # n /\ e # n
      BY <3>2, <1>2
    <3>4. QED
      BY <3>1, <3>2, <3>3, <1>5 DEF SlotAgrees
  <2>3. QED
    BY <2>1, <2>2
<1>8. ASSUME NEW m \in Node PROVE InPlace(g, m)
  <2>1. CASE m = n
    BY <2>1, <1>1, <1>3, <1>4, <1>6, NameAssumption DEF InPlace
  <2>2. CASE m # n
    <3> SUFFICES ASSUME g[m].parent # NoNode PROVE InPlace(g, m)
      BY DEF InPlace
    <3>1. /\ f[m].parent # NoNode /\ f[m].linked /\ f[m].parent # m /\ f[m].name # NoName
          /\ f[f[m].parent].children[Fold[f[m].name]] = m
          /\ f[m].parent \in Node /\ Fold[f[m].name] \in Key
      BY <2>2, <1>1, <1>5, TreeFields, NodeTypes DEF WellFormed, InPlace
    <3>2. ~(f[m].parent = d /\ Fold[f[m].name] = k)
      BY <3>1, NodeAssumption
    <3>3. QED
      BY <3>1, <3>2, <2>2, <1>5, <1>6 DEF InPlace
  <2>3. QED
    BY <2>1, <2>2
<1>9. ASSUME NEW e \in Node, NEW j \in g[e].tombstones PROVE g[e].children[j] = NoNode
  <2>1. j \in Key
    BY <1>1, TreeFields
  <2>2. e # n
    BY <1>4, <1>9
  <2>3. QED
    BY <2>1, <2>2, <1>5, <1>6 DEF WellFormed
<1>10. QED
  BY <1>1, <1>3, <1>5, <1>7, <1>8, <1>9, NodeAssumption DEF WellFormed

\* g is f with node n moved from slot (q, j) to slot (p, k) under the name s.
Moved(f, g, n, q, j, p, k, s) ==
    /\ g \in Tree
    /\ \A m \in Node : /\ g[m].directory = f[m].directory
                       /\ g[m].linked = f[m].linked
                       /\ g[m].dirtyPages = f[m].dirtyPages
                       /\ g[m].name = IF m = n THEN s ELSE f[m].name
                       /\ g[m].parent = IF m = n THEN p ELSE f[m].parent
    /\ \A m \in Node, i \in Key :
          g[m].children[i] = IF m = p /\ i = k THEN n
                             ELSE IF m = q /\ i = j THEN NoNode
                             ELSE f[m].children[i]
    /\ \A m \in Node : \A i \in g[m].tombstones :
          /\ i \in f[m].tombstones \/ (m = q /\ i = j)
          /\ ~(m = p /\ i = k)
    /\ \A m \in Node, i \in Key :
          /\ i \in f[m].tombstones \/ (m = q /\ i = j)
          /\ ~(m = p /\ i = k)
          => i \in g[m].tombstones
    /\ \A m \in Node : f[m] = Unallocated => g[m] = Unallocated

\* one whose node has moved into a slot that is empty or its own,
LEMMA MoveWellFormed ==
  ASSUME NEW f, WellFormed(f), NEW n \in Node, NEW q \in Node, NEW p \in Node,
         NEW s \in Spelling, NEW g,
         f[n].parent = q, f[p].directory, p # n, n # Root,
         f[p].children[Fold[s]] \in {NoNode, n},
         Moved(f, g, n, q, Fold[f[n].name], p, Fold[s], s)
  PROVE  WellFormed(g)
<1> DEFINE j == Fold[f[n].name]
           k == Fold[s]
<1>1. f \in Tree /\ g \in Tree /\ k \in Key
  BY NodeTypes DEF WellFormed, Moved
<1>2. /\ q # NoNode /\ q # n /\ f[n].linked /\ f[n].name \in Spelling /\ j \in Key
      /\ f[q].children[j] = n
  BY <1>1, TreeFields, NodeTypes, NodeAssumption DEF WellFormed, InPlace
<1>3. \A m \in Node : /\ g[m].directory = f[m].directory
                      /\ g[m].linked = f[m].linked
                      /\ g[m].name = IF m = n THEN s ELSE f[m].name
                      /\ g[m].parent = IF m = n THEN p ELSE f[m].parent
  BY DEF Moved
<1>4. \A m \in Node, i \in Key :
         g[m].children[i] = IF m = p /\ i = k THEN n
                            ELSE IF m = q /\ i = j THEN NoNode
                            ELSE f[m].children[i]
  BY DEF Moved
<1>5. ASSUME NEW e \in Node, NEW i \in Key PROVE SlotAgrees(g, e, i)
  <2>1. CASE e = p /\ i = k
    BY <2>1, <1>2, <1>3, <1>4 DEF SlotAgrees
  <2>2. CASE ~(e = p /\ i = k)
    <3> SUFFICES ASSUME g[e].children[i] # NoNode PROVE SlotAgrees(g, e, i)
      BY DEF SlotAgrees
    <3> DEFINE m == f[e].children[i]
    <3>1. g[e].children[i] = m /\ m \in Node /\ ~(e = q /\ i = j)
      BY <2>2, <1>1, <1>4, TreeFields
    <3>2. f[e].directory /\ f[m].linked /\ f[m].parent = e /\ Fold[f[m].name] = i
      BY <3>1 DEF WellFormed, SlotAgrees
    <3>3. m # n
      BY <3>1, <3>2
    <3>4. QED
      BY <3>1, <3>2, <3>3, <1>3 DEF SlotAgrees
  <2>3. QED
    BY <2>1, <2>2
<1>6. ASSUME NEW m \in Node PROVE InPlace(g, m)
  <2>1. CASE m = n
    BY <2>1, <1>1, <1>2, <1>3, <1>4, NameAssumption DEF InPlace
  <2>2. CASE m # n
    <3> SUFFICES ASSUME g[m].parent # NoNode PROVE InPlace(g, m)
      BY DEF InPlace
    <3>1. /\ f[m].parent # NoNode /\ f[m].linked /\ f[m].parent # m /\ f[m].name # NoName
          /\ f[f[m].parent].children[Fold[f[m].name]] = m
          /\ f[m].parent \in Node /\ Fold[f[m].name] \in Key
      BY <2>2, <1>1, <1>3, TreeFields, NodeTypes DEF WellFormed, InPlace
    <3>2. ~(f[m].parent = p /\ Fold[f[m].name] = k) /\ ~(f[m].parent = q /\ Fold[f[m].name] = j)
      BY <3>1, <2>2, <1>2, NodeAssumption
    <3>3. g[m].parent = f[m].parent /\ g[m].linked = f[m].linked /\ g[m].name = f[m].name
      BY <2>2, <1>3
    <3>4. g[f[m].parent].children[Fold[f[m].name]] = m
      BY <3>1, <3>2, <1>4
    <3>5. QED
      BY <3>1, <3>3, <3>4 DEF InPlace
  <2>3. QED
    BY <2>1, <2>2
<1>7. ASSUME NEW e \in Node, NEW i \in g[e].tombstones PROVE g[e].children[i] = NoNode
  <2>1. i \in Key
    BY <1>1, TreeFields
  <2>2. (i \in f[e].tombstones \/ (e = q /\ i = j)) /\ ~(e = p /\ i = k)
    BY <1>7 DEF Moved
  <2>3. QED
    BY <2>1, <2>2, <1>4 DEF WellFormed
<1>8. QED
  BY <1>1, <1>3, <1>5, <1>6, <1>7, NodeAssumption DEF WellFormed

\* Leave, the new name and parent, tombstones.erase and emplace, as in rename.
Rearranged(f, n, same, p, s) ==
    LET moved == [Leave(f, n, same) EXCEPT ![n].name = s, ![n].parent = p]
    IN  Emplace(Reveal(moved, p, Fold[s]), p, Fold[s], n)

\* What rename does to its two slots and to the node, whether or not the two
\* are one slot, is such a move.
LEMMA MoveFields ==
  ASSUME NEW f, WellFormed(f), NEW n \in Node, NEW q \in Node, NEW p \in Node,
         NEW s \in Spelling, NEW same \in BOOLEAN,
         f[n].parent = q, p # n, n # Root, f[p].directory,
         f[p].children[Fold[s]] \in {NoNode, n},
         same => q = p /\ Fold[f[n].name] = Fold[s]
  PROVE  Moved(f, Rearranged(f, n, same, p, s), n, q, Fold[f[n].name], p, Fold[s], s)
<1> DEFINE g == Rearranged(f, n, same, p, s)
<1> DEFINE j == Fold[f[n].name]
           k == Fold[s]
           cut == [f[q].children EXCEPT ![j] = NoNode]
           marked == IF same THEN f[q].tombstones ELSE f[q].tombstones \cup {j}
           fq == [f[q] EXCEPT !.children = cut, !.tombstones = marked]
           fn == [f[n] EXCEPT !.name = s, !.parent = p]
           left == [m \in Node |-> IF m = q THEN fq ELSE f[m]]
           moved == [m \in Node |-> IF m = n THEN fn ELSE left[m]]
           shown == [moved[p] EXCEPT !.tombstones = moved[p].tombstones \ {k}]
           put == [shown.children EXCEPT ![k] = n]
<1>1. f \in Tree /\ k \in Key /\ q # NoNode /\ q # n /\ j \in Key /\ f[q].children[j] = n
  BY TreeFields, NodeTypes, NodeAssumption DEF WellFormed, InPlace
<1>2. f[q] \in NodeType /\ f[n] \in NodeType
  BY <1>1 DEF Tree
<1>3. /\ cut \in [Key -> Node \cup {NoNode}]
      /\ \A i \in Key : cut[i] = IF i = j THEN NoNode ELSE f[q].children[i]
      /\ marked \in SUBSET Key
      /\ \A i \in marked : i \in f[q].tombstones \/ i = j
      /\ \A i \in f[q].tombstones : i \in marked
      /\ ~same => j \in marked
  BY <1>1, <1>2 DEF NodeType
<1>4. Leave(f, n, same) = left
  <2>1. Leave(f, n, same) = [f EXCEPT ![q] = [f[q] EXCEPT !.children[j] = NoNode,
                                                         !.tombstones = marked]]
    BY <1>1, <1>2, Zenon DEF Leave, Tree
  <2>2. [f[q] EXCEPT !.children[j] = NoNode, !.tombstones = marked] = fq
    BY <1>1, <1>2 DEF NodeType
  <2>3. QED
    BY <2>1, <2>2, <1>1, Zenon DEF Tree
<1> HIDE DEF cut, marked
<1>5. /\ fq \in NodeType /\ fq.children = cut /\ fq.tombstones = marked
      /\ fq.directory = f[q].directory /\ fq.linked = f[q].linked /\ fq.name = f[q].name
      /\ fq.parent = f[q].parent /\ fq.dirtyPages = f[q].dirtyPages
  BY <1>2, <1>3, Zenon DEF NodeType
<1>6. /\ fn \in NodeType /\ fn.children = f[n].children /\ fn.tombstones = f[n].tombstones
      /\ fn.directory = f[n].directory /\ fn.linked = f[n].linked /\ fn.name = s
      /\ fn.parent = p /\ fn.dirtyPages = f[n].dirtyPages
  BY <1>2, Zenon DEF NodeType
<1>7. [Leave(f, n, same) EXCEPT ![n].name = s, ![n].parent = p] = moved
  <2> HIDE DEF fq
  <2>1. [left EXCEPT ![n].name = s, ![n].parent = p] = [left EXCEPT ![n] = fn]
    BY <1>1, Zenon
  <2>2. QED
    BY <2>1, <1>4
<1> HIDE DEF fq, fn
<1>8. /\ moved \in Tree
      /\ moved[n] = fn /\ moved[q] = fq /\ \A m \in Node \ {n, q} : moved[m] = f[m]
  BY <1>1, <1>5, <1>6 DEF Tree
<1> HIDE DEF left, moved
<1>9. moved[p] \in NodeType
  BY <1>8 DEF Tree
<1>10. moved[p].children[k] \in {NoNode, n}
  <2>1. CASE p = q
    BY <2>1, <1>1, <1>3, <1>5, <1>8
  <2>2. CASE p # q
    BY <2>2, <1>8
  <2>3. QED
    BY <2>1, <2>2
<1>11. /\ shown \in NodeType /\ shown.children = moved[p].children
       /\ shown.tombstones = moved[p].tombstones \ {k}
       /\ shown.directory = moved[p].directory /\ shown.linked = moved[p].linked
       /\ shown.name = moved[p].name /\ shown.parent = moved[p].parent
       /\ shown.dirtyPages = moved[p].dirtyPages
  BY <1>9 DEF NodeType
<1>12. Reveal(moved, p, k) = [m \in Node |-> IF m = p THEN shown ELSE moved[m]]
  BY <1>8, Zenon DEF Reveal, Tree
<1> HIDE DEF shown
<1>13. /\ put \in [Key -> Node \cup {NoNode}]
       /\ \A i \in Key : put[i] = IF i = k THEN n ELSE moved[p].children[i]
       /\ [shown EXCEPT !.children[k] = IF @ = NoNode THEN n ELSE @]
             = [shown EXCEPT !.children = put]
  BY <1>1, <1>10, <1>11 DEF NodeType
<1> DEFINE last == [shown EXCEPT !.children = put]
<1> HIDE DEF put
<1>14. /\ last \in NodeType /\ last.children = put
       /\ last.tombstones = moved[p].tombstones \ {k}
       /\ last.directory = moved[p].directory /\ last.linked = moved[p].linked
       /\ last.name = moved[p].name /\ last.parent = moved[p].parent
       /\ last.dirtyPages = moved[p].dirtyPages
  BY <1>11, <1>13 DEF NodeType
<1>15. g = [m \in Node |-> IF m = p THEN last ELSE moved[m]]
  <2>1. g = Emplace(Reveal(moved, p, k), p, k, n)
    BY <1>7, Zenon DEF Rearranged
  <2>2. Reveal(moved, p, k)[p] = shown
    BY <1>12
  <2>3. Emplace(Reveal(moved, p, k), p, k, n)
          = [Reveal(moved, p, k) EXCEPT ![p] =
                [shown EXCEPT !.children[k] = IF @ = NoNode THEN n ELSE @]]
    BY <2>2, <1>12 DEF Emplace
  <2>4. [shown EXCEPT !.children[k] = IF @ = NoNode THEN n ELSE @] = last
    BY <1>13
  <2>5. g = [Reveal(moved, p, k) EXCEPT ![p] = last]
    BY <2>1, <2>3, <2>4
  <2> HIDE DEF last
  <2>6. QED
    BY <2>5, <1>12
<1> HIDE DEF last, g
<1>16. g \in Tree /\ g[p] = last /\ \A m \in Node \ {p} : g[m] = moved[m]
  BY <1>8, <1>14, <1>15 DEF Tree
<1>17. ASSUME NEW m \in Node
       PROVE  /\ moved[m].directory = f[m].directory
              /\ moved[m].linked = f[m].linked
              /\ moved[m].dirtyPages = f[m].dirtyPages
              /\ moved[m].name = IF m = n THEN s ELSE f[m].name
              /\ moved[m].parent = IF m = n THEN p ELSE f[m].parent
              /\ moved[m].tombstones = IF m = q THEN marked ELSE f[m].tombstones
              /\ moved[m].children = IF m = q THEN cut ELSE f[m].children
  <2>1. CASE m = n
    BY <2>1, <1>1, <1>6, <1>8
  <2>2. CASE m = q
    BY <2>2, <1>1, <1>5, <1>8
  <2>3. CASE m \notin {n, q}
    BY <2>3, <1>8
  <2>4. QED
    BY <2>1, <2>2, <2>3
<1>22. ASSUME NEW m \in Node
       PROVE  /\ g[m].directory = moved[m].directory
              /\ g[m].linked = moved[m].linked
              /\ g[m].dirtyPages = moved[m].dirtyPages
              /\ g[m].name = moved[m].name
              /\ g[m].parent = moved[m].parent
              /\ g[m].tombstones = IF m = p THEN moved[m].tombstones \ {k}
                                   ELSE moved[m].tombstones
              /\ g[m].children = IF m = p THEN put ELSE moved[m].children
  <2>1. CASE m = p
    BY <2>1, <1>14, <1>16
  <2>2. CASE m # p
    BY <2>2, <1>16
  <2>3. QED
    BY <2>1, <2>2
<1>18. ASSUME NEW m \in Node, NEW i \in Key
       PROVE  g[m].children[i] = IF m = p /\ i = k THEN n
                                 ELSE IF m = q /\ i = j THEN NoNode
                                 ELSE f[m].children[i]
  <2>1. moved[m].children[i] = IF m = q /\ i = j THEN NoNode ELSE f[m].children[i]
    BY <1>3, <1>17
  <2>2. g[m].children[i] = IF m = p /\ i = k THEN n ELSE moved[m].children[i]
    <3>0. \A x \in Key : put[x] = IF x = k THEN n ELSE moved[p].children[x]
      BY <1>13
    <3>1. CASE m = p
      <4>1. g[m].children = put
        BY <3>1, <1>22, Zenon
      <4>2. QED
        BY <3>0, <3>1, <4>1
    <3>2. CASE m # p
      BY <3>2, <1>22, Zenon
    <3>3. QED
      BY <3>1, <3>2
  <2>3. QED
    BY <2>1, <2>2
<1>19. ASSUME NEW m \in Node, NEW i \in g[m].tombstones
       PROVE  /\ i \in f[m].tombstones \/ (m = q /\ i = j)
              /\ ~(m = p /\ i = k)
  <2>1. i \in moved[m].tombstones /\ ~(m = p /\ i = k)
    <3>1. CASE m = p
      BY <3>1, <1>19, <1>22, Zenon
    <3>2. CASE m # p
      BY <3>2, <1>19, <1>22, Zenon
    <3>3. QED
      BY <3>1, <3>2
  <2>2. QED
    BY <2>1, <1>3, <1>17
<1>24. ASSUME NEW m \in Node, NEW i \in Key, ~(m = p /\ i = k),
              i \in f[m].tombstones \/ (m = q /\ i = j)
       PROVE  i \in g[m].tombstones
  <2>1. i \in moved[m].tombstones
    <3>1. CASE m = q
      BY <3>1, <1>3, <1>17, <1>24
    <3>2. CASE m # q
      BY <3>2, <1>17, <1>24
    <3>3. QED
      BY <3>1, <3>2
  <2>2. CASE m = p
    BY <2>1, <2>2, <1>22, <1>24, Zenon
  <2>3. CASE m # p
    BY <2>1, <2>3, <1>22, Zenon
  <2>4. QED
    BY <2>2, <2>3
<1>20. ASSUME NEW m \in Node, f[m] = Unallocated PROVE g[m] = Unallocated
  <2>1. f[n].linked /\ f[q].directory
    BY <1>1, NodeAssumption DEF WellFormed, InPlace, SlotAgrees
  <2>2. m # n /\ m # q /\ m # p
    BY <2>1, <1>20 DEF Unallocated
  <2>3. QED
    BY <2>2, <1>8, <1>16, <1>20
<1>21. ASSUME NEW m \in Node
       PROVE  /\ g[m].directory = f[m].directory
              /\ g[m].linked = f[m].linked
              /\ g[m].dirtyPages = f[m].dirtyPages
              /\ g[m].name = IF m = n THEN s ELSE f[m].name
              /\ g[m].parent = IF m = n THEN p ELSE f[m].parent
  <2>1. /\ g[m].directory = moved[m].directory /\ g[m].linked = moved[m].linked
        /\ g[m].dirtyPages = moved[m].dirtyPages /\ g[m].name = moved[m].name
        /\ g[m].parent = moved[m].parent
    BY <1>22, Zenon
  <2>2. /\ moved[m].directory = f[m].directory /\ moved[m].linked = f[m].linked
        /\ moved[m].dirtyPages = f[m].dirtyPages
        /\ moved[m].name = IF m = n THEN s ELSE f[m].name
        /\ moved[m].parent = IF m = n THEN p ELSE f[m].parent
    BY <1>17
  <2>3. QED
    BY <2>1, <2>2
<1>23. QED
  BY <1>16, <1>18, <1>19, <1>20, <1>21, <1>24 DEF Moved, g

\* children.erase, tombstones.insert, parent.reset and linked = false of remove.
Unlinked(f, n) ==
    LET p == f[n].parent
        k == Fold[f[n].name]
    IN  [f EXCEPT ![p].children[k] = NoNode,
                  ![p].tombstones = @ \cup {k},
                  ![n].parent = NoNode,
                  ![n].linked = FALSE]

\* g is f with node n gone from slot (p, k), which is marked deleted.
Deleted(f, g, n, p, k) ==
    /\ g \in Tree
    /\ \A m \in Node : /\ g[m].directory = f[m].directory
                       /\ g[m].name = f[m].name
                       /\ g[m].dirtyPages = f[m].dirtyPages
    /\ g[n].linked = FALSE /\ g[n].parent = NoNode
    /\ \A m \in Node \ {n} : g[m].linked = f[m].linked /\ g[m].parent = f[m].parent
    /\ \A m \in Node, i \in Key :
          g[m].children[i] = IF m = p /\ i = k THEN NoNode ELSE f[m].children[i]
    /\ \A m \in Node : \A i \in g[m].tombstones : i \in f[m].tombstones \/ (m = p /\ i = k)
    /\ \A m \in Node : \A i \in f[m].tombstones : i \in g[m].tombstones
    /\ k \in g[p].tombstones

\* What remove does is to empty the node's slot and mark it deleted,
LEMMA UnlinkFields ==
  ASSUME NEW f, WellFormed(f), NEW n \in Node, NEW p \in Node, f[n].parent = p
  PROVE  Deleted(f, Unlinked(f, n), n, p, Fold[f[n].name])
<1> DEFINE k == Fold[f[n].name]
           g == Unlinked(f, n)
           kids == [f[p].children EXCEPT ![k] = NoNode]
           marked == f[p].tombstones \cup {k}
           fp == [f[p] EXCEPT !.children = kids, !.tombstones = marked]
           fn == [f[n] EXCEPT !.parent = NoNode, !.linked = FALSE]
<1>1. f \in Tree /\ p # n /\ k \in Key
  BY TreeFields, NodeTypes, NodeAssumption DEF WellFormed, InPlace
<1>2. f[p] \in NodeType /\ f[n] \in NodeType
  BY <1>1 DEF Tree
<1>3. /\ kids \in [Key -> Node \cup {NoNode}]
      /\ \A i \in Key : kids[i] = IF i = k THEN NoNode ELSE f[p].children[i]
      /\ marked \in SUBSET Key
  BY <1>1, <1>2 DEF NodeType
<1>4. g = [m \in Node |-> IF m = p THEN fp ELSE IF m = n THEN fn ELSE f[m]]
  <2>1. g = [f EXCEPT ![p].children[k] = NoNode, ![p].tombstones = @ \cup {k},
                      ![n].parent = NoNode, ![n].linked = FALSE]
    BY DEF Unlinked
  <2>2. QED
    BY <1>1, <1>2, <2>1, Zenon DEF Tree, NodeType
<1> HIDE DEF kids, marked, g
<1>5. /\ fp \in NodeType /\ fp.children = kids /\ fp.tombstones = marked
      /\ fp.directory = f[p].directory /\ fp.linked = f[p].linked /\ fp.name = f[p].name
      /\ fp.parent = f[p].parent /\ fp.dirtyPages = f[p].dirtyPages
  BY <1>2, <1>3, Zenon DEF NodeType
<1>6. /\ fn \in NodeType /\ fn.children = f[n].children /\ fn.tombstones = f[n].tombstones
      /\ fn.directory = f[n].directory /\ fn.linked = FALSE /\ fn.name = f[n].name
      /\ fn.parent = NoNode /\ fn.dirtyPages = f[n].dirtyPages
  BY <1>2, Zenon DEF NodeType
<1> HIDE DEF fp, fn
<1>7. g \in Tree /\ g[p] = fp /\ g[n] = fn /\ \A m \in Node \ {n, p} : g[m] = f[m]
  BY <1>1, <1>4, <1>5, <1>6 DEF Tree
<1>8. ASSUME NEW m \in Node
      PROVE  /\ g[m].directory = f[m].directory
             /\ g[m].name = f[m].name
             /\ g[m].dirtyPages = f[m].dirtyPages
             /\ m # n => g[m].linked = f[m].linked /\ g[m].parent = f[m].parent
             /\ g[m].children = IF m = p THEN kids ELSE f[m].children
             /\ g[m].tombstones = IF m = p THEN marked ELSE f[m].tombstones
  <2>1. CASE m = p
    BY <2>1, <1>1, <1>5, <1>7
  <2>2. CASE m = n
    BY <2>2, <1>1, <1>6, <1>7
  <2>3. CASE m \notin {n, p}
    BY <2>3, <1>7
  <2>4. QED
    BY <2>1, <2>2, <2>3
<1>9. ASSUME NEW m \in Node, NEW i \in Key
      PROVE  g[m].children[i] = IF m = p /\ i = k THEN NoNode ELSE f[m].children[i]
  <2>1. CASE m = p
    <3>1. g[m].children = kids
      BY <2>1, <1>8
    <3>2. QED
      BY <2>1, <3>1, <1>3
  <2>2. CASE m # p
    <3>1. g[m].children = f[m].children
      BY <2>2, <1>8
    <3>2. QED
      BY <2>2, <3>1
  <2>3. QED
    BY <2>1, <2>2
<1>10. ASSUME NEW m \in Node, NEW i \in g[m].tombstones
       PROVE  i \in f[m].tombstones \/ (m = p /\ i = k)
  <2>1. CASE m = p
    <3>1. g[m].tombstones = marked
      BY <2>1, <1>8
    <3>2. QED
      BY <2>1, <3>1, <1>10 DEF marked
  <2>2. CASE m # p
    <3>1. g[m].tombstones = f[m].tombstones
      BY <2>2, <1>8
    <3>2. QED
      BY <3>1, <1>10
  <2>3. QED
    BY <2>1, <2>2
<1>11. g[n].linked = FALSE /\ g[n].parent = NoNode
  BY <1>6, <1>7
<1>12. k \in g[p].tombstones /\ \A m \in Node : \A i \in f[m].tombstones : i \in g[m].tombstones
  <2>1. f[p].tombstones \subseteq marked /\ k \in marked
    BY DEF marked
  <2>2. QED
    BY <2>1, <1>8
<1>13. QED
  BY <1>7, <1>8, <1>9, <1>10, <1>11, <1>12 DEF Deleted, g

\* and a tree after that is well formed.
LEMMA DeleteWellFormed ==
  ASSUME NEW f, WellFormed(f), NEW n \in Node, NEW p \in Node, n # Root, f[n].parent = p,
         NEW g, Deleted(f, g, n, p, Fold[f[n].name])
  PROVE  WellFormed(g)
<1> DEFINE k == Fold[f[n].name]
<1>1. f \in Tree /\ g \in Tree /\ p # n /\ k \in Key /\ f[p].children[k] = n
  BY TreeFields, NodeTypes, NodeAssumption DEF WellFormed, InPlace, Deleted
<1>2. \A m \in Node : /\ g[m].directory = f[m].directory
                      /\ g[m].name = f[m].name
                      /\ m # n => g[m].linked = f[m].linked /\ g[m].parent = f[m].parent
                      /\ m = n => g[m].parent = NoNode
  BY DEF Deleted
<1>3. \A m \in Node, i \in Key :
         g[m].children[i] = IF m = p /\ i = k THEN NoNode ELSE f[m].children[i]
  BY DEF Deleted
<1>4. ASSUME NEW e \in Node, NEW i \in Key PROVE SlotAgrees(g, e, i)
  <2> SUFFICES ASSUME g[e].children[i] # NoNode PROVE SlotAgrees(g, e, i)
    BY DEF SlotAgrees
  <2> DEFINE m == f[e].children[i]
  <2>1. g[e].children[i] = m /\ m \in Node /\ ~(e = p /\ i = k)
    BY <1>1, <1>3, TreeFields
  <2>2. f[e].directory /\ f[m].linked /\ f[m].parent = e /\ Fold[f[m].name] = i
    BY <2>1 DEF WellFormed, SlotAgrees
  <2>3. m # n
    BY <2>1, <2>2
  <2>4. QED
    BY <2>1, <2>2, <2>3, <1>2 DEF SlotAgrees
<1>5. ASSUME NEW m \in Node PROVE InPlace(g, m)
  <2> SUFFICES ASSUME g[m].parent # NoNode PROVE InPlace(g, m)
    BY DEF InPlace
  <2>1. m # n
    BY <1>2
  <2>2. /\ f[m].parent # NoNode /\ f[m].linked /\ f[m].parent # m /\ f[m].name # NoName
        /\ f[f[m].parent].children[Fold[f[m].name]] = m
        /\ f[m].parent \in Node /\ Fold[f[m].name] \in Key
    BY <2>1, <1>1, <1>2, TreeFields, NodeTypes DEF WellFormed, InPlace
  <2>3. ~(f[m].parent = p /\ Fold[f[m].name] = k)
    BY <2>1, <2>2, <1>1
  <2>4. QED
    BY <2>1, <2>2, <2>3, <1>2, <1>3, SMTT(30) DEF InPlace
<1>6. ASSUME NEW e \in Node, NEW i \in g[e].tombstones PROVE g[e].children[i] = NoNode
  <2>1. i \in Key
    BY <1>1, TreeFields
  <2>2. i \in f[e].tombstones \/ (e = p /\ i = k)
    BY <1>6 DEF Deleted
  <2>3. QED
    BY <2>1, <2>2, <1>3 DEF WellFormed
<1>7. QED
  BY <1>1, <1>2, <1>4, <1>5, <1>6, NodeAssumption DEF WellFormed

-----------------------------------------------------------------------------
(***************************************************************************)
(* What every call ends with.                                              *)
(***************************************************************************)
Cost(f) == PageSize * Cardinality(PageSlots(f, Node))

\* A call that leaves a well formed tree, with its pages counted and within the
\* quota, keeps the invariant when the nodes that nothing holds are freed.
LEMMA FinishInvariant ==
  ASSUME NEW f, WellFormed(f), NEW h \in SUBSET Node, NEW c \in Cursors, CursorOK(f, c),
         NEW charged, charged = Cost(f), charged <= Quota, Finish(f, h, c, charged)
  PROVE  IInv'
<1>1. f \in Tree
  BY DEF WellFormed
<1>2. Finish(f, h, c, PageSize * Cardinality(PageSlots(f, Node)))
  BY DEF Cost
<1>3. /\ dirtyBytes' = PageSize * Cardinality(PageSlots(node', Node))
      /\ dirtyBytes' \in Nat
      /\ dirtyBytes' <= PageSize * Cardinality(PageSlots(f, Node))
  BY <1>1, <1>2, FinishCharge
<1>4. PageSize * Cardinality(PageSlots(f, Node)) \in Nat
  BY SlotsFinite, QuotaAssumption
<1>5. dirtyBytes' <= Quota
  BY <1>3, <1>4, QuotaAssumption DEF Cost
<1>6. QuotaRespected'
  BY <1>3, <1>5 DEF QuotaRespected
<1>7. /\ WellFormed(node')
      /\ held' \subseteq Node /\ cursor' \in Cursors
      /\ CursorOK(node', cursor')
      /\ (\A n \in Node \ Alive : node[n] = Unallocated)'
  BY FinishTree
<1>8. QED
  BY <1>6, <1>7 DEF IInv

\* A call that touches no pages charges nothing.
LEMMA SameCost ==
  ASSUME NEW f, NEW g, \A n \in Node : g[n].dirtyPages = f[n].dirtyPages
  PROVE  Cost(g) = Cost(f)
BY DEF Cost, PageSlots

\* The counter is right after a call that changes no node's pages.
LEMMA NamespaceStep ==
  ASSUME IInv, NEW f, WellFormed(f), \A n \in Node : f[n].dirtyPages = node[n].dirtyPages,
         NEW h \in SUBSET Node, NEW c \in Cursors, CursorOK(f, c),
         Finish(f, h, c, dirtyBytes)
  PROVE  IInv'
<1>1. Cost(f) = Cost(node)
  BY SameCost
<1>2. dirtyBytes = Cost(f) /\ dirtyBytes <= Quota
  BY <1>1 DEF IInv, QuotaRespected, Cost
<1>3. QED
  BY <1>2, FinishInvariant

\* The tree in which S are the dirty pages of n.
WithPages(f, n, S) == [f EXCEPT ![n].dirtyPages = S]

\* The dirty pages of a file do not matter to the namespace.
LEMMA PagesWellFormed ==
  ASSUME NEW f, WellFormed(f), NEW n \in Node, NEW S \in SUBSET Page
  PROVE  /\ WellFormed(WithPages(f, n, S))
         /\ WithPages(f, n, S)[n].dirtyPages = S
         /\ \A m \in Node \ {n} : WithPages(f, n, S)[m] = f[m]
<1> DEFINE fn == [f[n] EXCEPT !.dirtyPages = S]
           g == WithPages(f, n, S)
<1>1. f \in Tree /\ f[n] \in NodeType
  BY DEF WellFormed, Tree
<1>2. /\ fn \in NodeType /\ fn.dirtyPages = S /\ fn.children = f[n].children
      /\ fn.tombstones = f[n].tombstones /\ fn.directory = f[n].directory
      /\ fn.linked = f[n].linked /\ fn.name = f[n].name /\ fn.parent = f[n].parent
  BY <1>1 DEF NodeType
<1> HIDE DEF fn
<1>3. g = [m \in Node |-> IF m = n THEN fn ELSE f[m]]
  BY <1>1, Zenon DEF Tree, fn, WithPages
<1>4. g \in Tree /\ g[n] = fn /\ \A m \in Node \ {n} : g[m] = f[m]
  BY <1>1, <1>2, <1>3 DEF Tree
<1> HIDE DEF g
<1>5. \A m \in Node : /\ g[m].children = f[m].children /\ g[m].tombstones = f[m].tombstones
                      /\ g[m].directory = f[m].directory /\ g[m].linked = f[m].linked
                      /\ g[m].name = f[m].name /\ g[m].parent = f[m].parent
  BY <1>2, <1>4
<1>6. \A d \in Node, k \in Key : SlotAgrees(g, d, k)
  <2> SUFFICES ASSUME NEW d \in Node, NEW k \in Key PROVE SlotAgrees(g, d, k)
    OBVIOUS
  <2>1. SlotAgrees(f, d, k) /\ f[d].children[k] \in Node \cup {NoNode}
    BY <1>1, TreeFields DEF WellFormed
  <2>2. QED
    BY <2>1, <1>5 DEF SlotAgrees
<1>7. \A m \in Node : InPlace(g, m)
  <2> SUFFICES ASSUME NEW m \in Node PROVE InPlace(g, m)
    OBVIOUS
  <2>1. InPlace(f, m) /\ f[m].parent \in Node \cup {NoNode}
    BY <1>1, TreeFields DEF WellFormed
  <2>2. QED
    BY <2>1, <1>5 DEF InPlace
<1>8. QED
  BY <1>2, <1>4, <1>5, <1>6, <1>7, NodeAssumption DEF WellFormed, g

\* Adding dirty pages to a file, as a write does, costs what they hold.
LEMMA CostOfMore ==
  ASSUME NEW f, NEW g, NEW n \in Node, NEW S \in SUBSET Page,
         f[n].dirtyPages \cap S = {},
         g[n].dirtyPages = f[n].dirtyPages \cup S,
         \A m \in Node \ {n} : g[m] = f[m]
  PROVE  /\ Cost(g) = Cost(f) + PageSize * Cardinality(S)
         /\ Cost(f) \in Nat /\ Cardinality(S) \in Nat
<1> DEFINE old == PageSlots(f, Node)
           new == {n} \X S
<1>1. PageSlots(g, Node) = old \cup new
  BY DEF PageSlots
<1>2. old \cap new = {}
  BY DEF PageSlots
<1>3. IsFiniteSet(old) /\ IsFiniteSet(new) /\ Cardinality(new) = Cardinality(S)
  BY SlotsFinite, SlotsOfNode, Zenon
<1>4. /\ Cardinality(PageSlots(g, Node)) = Cardinality(old) + Cardinality(S)
      /\ Cardinality(old) \in Nat /\ Cardinality(S) \in Nat
  <2> HIDE DEF old, new
  <2>1. QED
    BY <1>1, <1>2, <1>3, DisjointSum
<1>5. PageSize * (Cardinality(old) + Cardinality(S))
         = PageSize * Cardinality(old) + PageSize * Cardinality(S)
  BY <1>4, QuotaAssumption
<1>6. PageSize * Cardinality(old) \in Nat
  BY <1>4, QuotaAssumption
<1>7. QED
  BY <1>4, <1>5, <1>6 DEF Cost

\* As many pages as there is room for fit the quota.
LEMMA RoomFits ==
  ASSUME dirtyBytes \in Nat, dirtyBytes <= Quota, NEW c \in Nat, c <= Room
  PROVE  dirtyBytes + PageSize * c <= Quota
<1> DEFINE rest == IF dirtyBytes < Quota THEN Quota - dirtyBytes ELSE 0
<1>1. rest \in Nat /\ rest = Quota - dirtyBytes
  BY QuotaAssumption
<1> HIDE DEF rest
<1>2. c <= rest \div PageSize
  BY DEF Room, rest
<1>3. rest \div PageSize \in Nat /\ PageSize * (rest \div PageSize) <= rest
  BY <1>1, QuotaAssumption, Z3
<1>4. PageSize * c <= PageSize * (rest \div PageSize)
  <2> DEFINE r == rest \div PageSize
             e == r - c
  <2>1. r \in Nat /\ e \in Nat /\ r = c + e
    BY <1>2, <1>3
  <2> HIDE DEF e, r
  <2>2. PageSize * (c + e) = PageSize * c + PageSize * e
    BY <2>1, QuotaAssumption
  <2>3. PageSize * e \in Nat /\ PageSize * c \in Nat
    BY <2>1, QuotaAssumption, Z3
  <2>4. PageSize * r = PageSize * c + PageSize * e
    BY <2>1, <2>2
  <2>5. PageSize * c <= PageSize * r
    BY <2>3, <2>4
  <2>6. QED
    BY <2>5 DEF r
<1>5. PageSize * c \in Nat /\ PageSize * (rest \div PageSize) \in Nat
  BY <1>3, QuotaAssumption, Z3
<1>6. QED
  BY <1>1, <1>3, <1>4, <1>5, QuotaAssumption

-----------------------------------------------------------------------------
(***************************************************************************)
(* The calls.                                                              *)
(***************************************************************************)
LEMMA InvariantFacts ==
  ASSUME IInv
  PROVE  /\ node \in Tree /\ WellFormed(node)
         /\ held \in SUBSET Node /\ cursor \in Cursors /\ CursorOK(node, cursor)
         /\ dirtyBytes \in Nat /\ dirtyBytes = Cost(node) /\ dirtyBytes <= Quota
         /\ \A n \in Node \ Alive : node[n] = Unallocated
<1>1. Cost(node) \in Nat
  BY SlotsFinite, QuotaAssumption DEF Cost
<1>2. QED
  BY <1>1 DEF IInv, WellFormed, QuotaRespected, Cost

\* Lookup and Release keep the invariant.
LEMMA HandleSteps ==
  ASSUME IInv, NEW path, NEW n \in Node, Lookup(path) \/ Release(n)
  PROVE  IInv'
<1>1. CASE Lookup(path)
  <2>1. PICK m \in Node : Finish(node, held \cup {m}, cursor, dirtyBytes)
    BY <1>1, Zenon DEF Lookup
  <2>2. QED
    BY <2>1, InvariantFacts, NamespaceStep
<1>2. CASE Release(n)
  BY <1>2, InvariantFacts, NamespaceStep DEF Release
<1>3. QED
  BY <1>1, <1>2

\* A new node in a slot that has been vacated, with or without a tombstone.
LEMMA NewNodeTree ==
  ASSUME IInv, NEW d \in Node, node[d].directory, NEW n \in Node \ Alive, NEW s \in Spelling,
         NEW directory \in BOOLEAN, NEW f,
         LET made == [Vacate(node, d, Fold[s]) EXCEPT ![n] = MakeNode(s, directory, d)]
         IN  \/ f = Emplace(Reveal(made, d, Fold[s]), d, Fold[s], n)
             \/ f = Emplace(made, d, Fold[s], n) /\ Fold[s] \notin node[d].tombstones
  PROVE  /\ Added(Vacate(node, d, Fold[s]), f, d, Fold[s], n, s, directory)
         /\ n # d
         /\ WellFormed(f)
         /\ \A m \in Node : f[m].dirtyPages = node[m].dirtyPages
<1> DEFINE k == Fold[s]
           v == Vacate(node, d, k)
<1>1. WellFormed(node) /\ node[n] = Unallocated /\ k \in Key
  BY InvariantFacts, NodeTypes
<1>2. /\ WellFormed(v) /\ v[d].children[k] = NoNode
      /\ \A m \in Node : SameFields(node, v, m)
      /\ v[n] = Unallocated
  BY <1>1, VacateWellFormed
<1>3. /\ v \in Tree /\ v[d].directory /\ v[d].tombstones = node[d].tombstones
      /\ \A m \in Node : v[m].dirtyPages = node[m].dirtyPages
  BY <1>2 DEF WellFormed, SameFields
<1>4. n # d
  BY <1>2, <1>3 DEF Unallocated
<1>5. Added(v, f, d, k, n, s, directory)
  <2> HIDE DEF v
  <2>1. LET made == [v EXCEPT ![n] = MakeNode(s, directory, d)]
        IN  /\ Added(v, Emplace(Reveal(made, d, k), d, k, n), d, k, n, s, directory)
            /\ k \notin v[d].tombstones =>
                  Added(v, Emplace(made, d, k, n), d, k, n, s, directory)
    BY <1>2, <1>3, <1>4, AddFields
  <2>2. QED
    BY <2>1, <1>3 DEF v
<1> HIDE DEF v
<1>6. WellFormed(f)
  BY <1>2, <1>3, <1>5, AddWellFormed
<1>7. ASSUME NEW m \in Node PROVE f[m].dirtyPages = node[m].dirtyPages
  <2>1. CASE m = n
    <3>1. f[n] = MakeNode(s, directory, d) /\ node[n] = Unallocated
      BY <1>1, <1>5 DEF Added
    <3>2. MakeNode(s, directory, d).dirtyPages = {} /\ Unallocated.dirtyPages = {}
      BY NewNodeFields
    <3>3. QED
      BY <2>1, <3>1, <3>2
  <2>2. CASE m # n
    BY <2>2, <1>3, <1>5 DEF Added
  <2>3. QED
    BY <2>1, <2>2
<1>8. QED
  BY <1>4, <1>5, <1>6, <1>7 DEF v

\* A new node, made by Create or by an overlay, keeps the invariant.
LEMMA NewNodeStep ==
  ASSUME IInv, NEW d \in Node, node[d].directory, NEW n \in Node \ Alive, NEW s \in Spelling,
         NEW directory \in BOOLEAN, NEW h \in SUBSET Node, NEW c \in Cursors,
         NEW f,
         LET made == [Vacate(node, d, Fold[s]) EXCEPT ![n] = MakeNode(s, directory, d)]
         IN  \/ f = Emplace(Reveal(made, d, Fold[s]), d, Fold[s], n)
             \/ f = Emplace(made, d, Fold[s], n) /\ Fold[s] \notin node[d].tombstones,
         c = NoOverlay \/ (c.dir = n /\ directory = TRUE /\ c.rest # <<>>),
         Finish(f, h, c, dirtyBytes)
  PROVE  IInv'
<1> DEFINE v == Vacate(node, d, Fold[s])
<1>1. /\ Added(v, f, d, Fold[s], n, s, directory) /\ WellFormed(f)
      /\ \A m \in Node : f[m].dirtyPages = node[m].dirtyPages
  BY NewNodeTree, SMTT(30)
<1> HIDE DEF v
<1>2. CursorOK(f, c)
  BY <1>1, NewNodeFields DEF CursorOK, Added
<1>3. QED
  BY <1>1, <1>2, NamespaceStep

\* Create keeps the invariant.
LEMMA CreateStep ==
  ASSUME IInv, NEW path \in Paths, NEW directory \in BOOLEAN, NEW replace \in BOOLEAN,
         Create(path, directory, replace)
  PROVE  IInv'
<1>1. PICK p \in Node, n \in Node \ Alive, s \in Spelling :
         /\ ParentLocked(path, p, s)
         /\ LET f == [Vacate(node, p, Fold[s]) EXCEPT ![n] = MakeNode(s, directory, p)]
            IN  Finish(Emplace(Reveal(f, p, Fold[s]), p, Fold[s], n), held \cup {n}, cursor,
                       dirtyBytes)
  BY Zenon DEF Create
<1>2. cursor = NoOverlay /\ node[p].directory
  BY <1>1 DEF Create, Unlocked, ParentLocked
<1>3. held \cup {n} \in SUBSET Node /\ cursor \in Cursors
  BY InvariantFacts
<1>4. QED
  BY <1>1, <1>2, <1>3, NewNodeStep, Zenon

\* Remove keeps the invariant.
LEMMA RemoveStep ==
  ASSUME IInv, NEW n \in Node, Remove(n)
  PROVE  IInv'
<1> DEFINE p == node[n].parent
           f == Unlinked(node, n)
<1>1. /\ n # Root /\ p # NoNode /\ cursor = NoOverlay
      /\ Finish(f, held, cursor, dirtyBytes)
  BY DEF Remove, Removable, Unlocked, Unlinked
<1>2. p \in Node
  BY <1>1, InvariantFacts, TreeFields
<1> HIDE DEF f
<1>3. Deleted(node, f, n, p, Fold[node[n].name])
  BY <1>2, InvariantFacts, UnlinkFields DEF f
<1>4. WellFormed(f)
  BY <1>1, <1>2, <1>3, InvariantFacts, DeleteWellFormed
<1>5. \A m \in Node : f[m].dirtyPages = node[m].dirtyPages
  BY <1>3 DEF Deleted
<1>6. CursorOK(f, cursor)
  BY <1>1 DEF CursorOK
<1>7. QED
  BY <1>1, <1>4, <1>5, <1>6, InvariantFacts, NamespaceStep

\* The tree that rename builds when it moves n to slot (p, Fold[s]).
Cleared(n, p, s) ==
    IF node[p].children[Fold[s]] = n THEN node ELSE Vacate(node, p, Fold[s])
Renamed(n, p, s) == Rearranged(Cleared(n, p, s), n, SameSlot(n, p, Fold[s]), p, s)

\* The tree that rename rearranges, with the slot it moves to cleared, is well
\* formed and rename's effect on it is a move.
LEMMA RenameTree ==
  ASSUME IInv, NEW n \in Node, NEW p \in Node, NEW s \in Spelling,
         n # Root, node[n].parent # NoNode, node[p].directory, ~MovesIntoItself(n, p)
  PROVE  LET f == Cleared(n, p, s)
             q == node[n].parent
             k == Fold[s]
         IN  /\ p # n
             /\ WellFormed(f)
             /\ f[p].children[k] \in {NoNode, n}
             /\ f[n].parent = q
             /\ \A m \in Node : SameFields(node, f, m)
             /\ Moved(f, Renamed(n, p, s), n, q, Fold[node[n].name], p, k, s)
             /\ WellFormed(Renamed(n, p, s))
<1> DEFINE k == Fold[s]
           q == node[n].parent
           same == SameSlot(n, p, k)
           f == Cleared(n, p, s)
           g == Renamed(n, p, s)
<1>1. k \in Key /\ same \in BOOLEAN /\ q \in Node
  BY InvariantFacts, TreeFields, NodeTypes DEF SameSlot
<1>2. p # n
  <2>1. p \in Closure(ParentsOf(node), {p})
    BY ClosureStart
  <2>2. QED
    BY <2>1, InvariantFacts DEF MovesIntoItself
<1>3. /\ WellFormed(f)
      /\ f[p].children[k] \in {NoNode, n}
      /\ f[n].parent = q /\ f[p].directory
      /\ \A m \in Node : SameFields(node, f, m)
  <2>1. CASE node[p].children[k] = n
    BY <2>1, <1>1, InvariantFacts DEF Cleared, SameFields
  <2>2. CASE node[p].children[k] # n
    <3>1. f = Vacate(node, p, k)
      BY <2>2 DEF Cleared
    <3>2. QED
      BY <2>2, <3>1, <1>1, InvariantFacts, VacateWellFormed, SMTT(30) DEF SameFields
  <2>3. QED
    BY <2>1, <2>2
<1>4. f[n].name = node[n].name /\ (same => q = p /\ Fold[f[n].name] = k)
  BY <1>3 DEF SameSlot, SameFields
<1>5. g = Rearranged(f, n, same, p, s)
  BY DEF Renamed
<1> HIDE DEF f, g, same
<1>6. Moved(f, g, n, q, Fold[f[n].name], p, k, s)
  BY <1>1, <1>2, <1>3, <1>4, <1>5, MoveFields
<1>7. WellFormed(g)
  BY <1>1, <1>2, <1>3, <1>6, MoveWellFormed
<1>8. QED
  BY <1>2, <1>3, <1>4, <1>6, <1>7 DEF f, g

\* What a rename that is not refused has checked, and what it leaves.
LEMMA RenameCall ==
  ASSUME IInv, NEW n \in Node, NEW path \in Paths, NEW replace \in BOOLEAN,
         Rename(n, path, replace)
  PROVE  /\ n # Root /\ node[n].parent # NoNode /\ cursor = NoOverlay
         /\ \E p \in Node, s \in Spelling :
               /\ ParentLocked(path, p, s) /\ node[p].directory
               /\ ~MovesIntoItself(n, p)
               /\ MayReplace(n, node[p].children[Fold[s]], replace)
               /\ Finish(Renamed(n, p, s), held, cursor, dirtyBytes)
<1>1. PICK p \in Node, s \in Spelling :
         /\ ParentLocked(path, p, s)
         /\ ~MovesIntoItself(n, p)
         /\ LET k == Fold[s]
                t == node[p].children[k]
                cleared == IF t = n THEN node ELSE Vacate(node, p, k)
                moved == [Leave(cleared, n, SameSlot(n, p, k))
                             EXCEPT ![n].name = s, ![n].parent = p]
            IN  /\ MayReplace(n, t, replace)
                /\ Finish(Emplace(Reveal(moved, p, k), p, k, n), held, cursor, dirtyBytes)
  BY DEF Rename
<1>2. node[p].directory
  BY <1>1 DEF ParentLocked
<1>3. Finish(Renamed(n, p, s), held, cursor, dirtyBytes)
  BY <1>1 DEF Renamed, Rearranged, Cleared
<1>4. QED
  BY <1>1, <1>2, <1>3 DEF Rename, Unlocked

\* Rename keeps the invariant.
LEMMA RenameStep ==
  ASSUME IInv, NEW n \in Node, NEW path \in Paths, NEW replace \in BOOLEAN,
         Rename(n, path, replace)
  PROVE  IInv'
<1>1. n # Root /\ node[n].parent # NoNode /\ cursor = NoOverlay
  BY RenameCall
<1>2. PICK p \in Node, s \in Spelling :
         /\ node[p].directory /\ ~MovesIntoItself(n, p)
         /\ Finish(Renamed(n, p, s), held, cursor, dirtyBytes)
  BY RenameCall
<1> DEFINE f == Cleared(n, p, s)
           g == Renamed(n, p, s)
           q == node[n].parent
<1>3. /\ WellFormed(g) /\ \A m \in Node : SameFields(node, f, m)
      /\ Moved(f, g, n, q, Fold[node[n].name], p, Fold[s], s)
  BY <1>1, <1>2, RenameTree
<1> HIDE DEF f, g
<1>4. \A m \in Node : g[m].dirtyPages = node[m].dirtyPages
  BY <1>3 DEF Moved, SameFields
<1>5. CursorOK(g, cursor)
  BY <1>1 DEF CursorOK
<1>6. QED
  BY <1>2, <1>3, <1>4, <1>5, InvariantFacts, NamespaceStep DEF g

\* Write keeps the invariant: it has asked for the pages it adds.
LEMMA WriteStep ==
  ASSUME IInv, NEW n \in Node, NEW first \in Page, NEW last \in Page, Write(n, first, last)
  PROVE  IInv'
<1> DEFINE needed == (first .. last) \ node[n].dirtyPages
           f == WithPages(node, n, node[n].dirtyPages \cup needed)
<1>1. /\ cursor = NoOverlay /\ Cardinality(needed) <= Room
      /\ Finish(f, held, cursor, dirtyBytes + PageSize * Cardinality(needed))
  BY DEF Write, Unlocked, WithPages
<1>2. needed \in SUBSET Page /\ node[n].dirtyPages \in SUBSET Page
  <2>1. first .. last \subseteq Page
    BY QuotaAssumption DEF Page
  <2>2. node[n].dirtyPages \in SUBSET Page
    BY InvariantFacts, TreeFields
  <2>3. QED
    BY <2>1, <2>2
<1>3. node[n].dirtyPages \cap needed = {}
  OBVIOUS
<1> HIDE DEF needed
<1>4. /\ WellFormed(f) /\ f[n].dirtyPages = node[n].dirtyPages \cup needed
      /\ \A m \in Node \ {n} : f[m] = node[m]
  BY <1>2, InvariantFacts, PagesWellFormed
<1> HIDE DEF f
<1>5. Cost(f) = Cost(node) + PageSize * Cardinality(needed) /\ Cardinality(needed) \in Nat
  <2>1. f[n].dirtyPages = node[n].dirtyPages \cup needed
    BY <1>4
  <2>2. \A m \in Node \ {n} : f[m] = node[m]
    BY <1>4
  <2>3. needed \in SUBSET Page
    BY <1>2
  <2>4. /\ Cost(f) = Cost(node) + PageSize * Cardinality(needed)
        /\ Cost(node) \in Nat /\ Cardinality(needed) \in Nat
    BY <1>3, <2>1, <2>2, <2>3, CostOfMore, Zenon
  <2>5. QED
    BY <2>4
<1>6. dirtyBytes + PageSize * Cardinality(needed) <= Quota
  BY <1>1, <1>5, InvariantFacts, RoomFits
<1>7. CursorOK(f, cursor)
  BY <1>1 DEF CursorOK
<1>8. dirtyBytes + PageSize * Cardinality(needed) = Cost(f)
  BY <1>5, InvariantFacts
<1>9. QED
  BY <1>1, <1>4, <1>6, <1>7, <1>8, InvariantFacts, FinishInvariant

\* Resize keeps the invariant: it returns the pages it cuts off.
LEMMA ResizeStep ==
  ASSUME IInv, NEW n \in Node, NEW firstRemoved, Resize(n, firstRemoved)
  PROVE  IInv'
<1> DEFINE removed == PagesRemoved(n, firstRemoved)
           kept == node[n].dirtyPages \ removed
           f == WithPages(node, n, kept)
<1>1. /\ cursor = NoOverlay
      /\ Finish(f, held, cursor, dirtyBytes - PageSize * Cardinality(removed))
  BY DEF Resize, Unlocked, WithPages
<1>2. /\ node[n].dirtyPages \in SUBSET Page
      /\ removed \in SUBSET Page
      /\ kept \cap removed = {} /\ node[n].dirtyPages = kept \cup removed
      /\ kept \in SUBSET Page
  BY InvariantFacts, TreeFields DEF PagesRemoved
<1> HIDE DEF removed, kept
<1>3. /\ WellFormed(f) /\ f[n].dirtyPages = kept
      /\ \A m \in Node \ {n} : f[m] = node[m]
  BY <1>2, InvariantFacts, PagesWellFormed
<1> HIDE DEF f
<1>4. /\ Cost(node) = Cost(f) + PageSize * Cardinality(removed)
      /\ Cost(f) \in Nat /\ Cardinality(removed) \in Nat
  <2>1. \A m \in Node \ {n} : node[m] = f[m]
    BY <1>3
  <2>2. f[n].dirtyPages \cap removed = {} /\ node[n].dirtyPages = f[n].dirtyPages \cup removed
    BY <1>2, <1>3
  <2>3. QED
    BY <2>1, <2>2, <1>2, CostOfMore, Zenon
<1>5. PageSize * Cardinality(removed) \in Nat
  BY <1>4, QuotaAssumption
<1>6. /\ dirtyBytes - PageSize * Cardinality(removed) = Cost(f)
      /\ dirtyBytes - PageSize * Cardinality(removed) <= Quota
  BY <1>4, <1>5, InvariantFacts, QuotaAssumption
<1>7. CursorOK(f, cursor)
  BY <1>1 DEF CursorOK
<1>8. QED
  BY <1>1, <1>3, <1>6, <1>7, InvariantFacts, FinishInvariant

\* The start of an overlay keeps the invariant.
LEMMA BeginOverlayStep ==
  ASSUME IInv, NEW path \in Paths, BeginOverlay(path)
  PROVE  IInv'
<1> DEFINE c == [dir |-> Root, rest |-> path]
<1>1. Finish(node, held, c, dirtyBytes) /\ path # <<>>
  BY DEF BeginOverlay
<1>2. c \in Cursors /\ CursorOK(node, c)
  BY <1>1, PathAssumption, NodeAssumption, InvariantFacts DEF Cursors, Cursor, CursorOK, WellFormed
<1>3. QED
  BY <1>1, <1>2, InvariantFacts, NamespaceStep

\* Each step of an overlay keeps the invariant.
LEMMA OverlayCall ==
  ASSUME IInv, OverlayStep
  PROVE  IInv'
<1>1. /\ cursor # NoOverlay /\ cursor.dir \in Node /\ cursor.rest \in Seq(Spelling)
      /\ node[cursor.dir].directory /\ cursor.rest # <<>>
  BY InvariantFacts, Zenon DEF OverlayStep, OverlayHidden, OverlayDescend, OverlayMakeDirectory,
                        OverlayPlaceFile, Cursors, Cursor, CursorOK
<1>2. Head(cursor.rest) \in Spelling /\ Tail(cursor.rest) \in Seq(Spelling)
  BY <1>1
<1>3. ~AtLastComponent => Tail(cursor.rest) # <<>>
  <2>1. Len(cursor.rest) \in Nat /\ Len(cursor.rest) # 0
    BY <1>1
  <2>2. Len(Tail(cursor.rest)) = Len(cursor.rest) - 1
    BY <1>1
  <2>3. \A r \in Seq(Spelling) : Len(r) # 0 => r # <<>>
    OBVIOUS
  <2>4. ~AtLastComponent => Len(Tail(cursor.rest)) # 0
    BY <2>1, <2>2 DEF AtLastComponent
  <2>5. QED
    BY <2>3, <2>4, <1>2, Zenon
<1>4. NoOverlay \in Cursors
  BY DEF Cursors
<1>5. CASE OverlayHidden
  BY <1>4, <1>5, InvariantFacts, NamespaceStep DEF OverlayHidden, CursorOK
<1>6. CASE OverlayDescend
  <2>1. PICK t \in Node : /\ node[t].directory
                          /\ Finish(node, held, [dir |-> t, rest |-> Tail(cursor.rest)], dirtyBytes)
    BY <1>6, Zenon DEF OverlayDescend
  <2> DEFINE c == [dir |-> t, rest |-> Tail(cursor.rest)]
  <2>2. c \in Cursors /\ CursorOK(node, c)
    BY <2>1, <1>2, <1>3, <1>6 DEF Cursors, Cursor, CursorOK, OverlayDescend
  <2>3. QED
    BY <2>1, <2>2, InvariantFacts, NamespaceStep
<1>7. CASE OverlayMakeDirectory
  <2>1. PICK n \in Node \ Alive : OverlayPut(n, TRUE, [dir |-> n, rest |-> Tail(cursor.rest)])
    BY <1>7, Zenon DEF OverlayMakeDirectory
  <2> DEFINE c == [dir |-> n, rest |-> Tail(cursor.rest)]
  <2>2. c \in Cursors /\ c.dir = n /\ c.rest # <<>>
    BY <1>2, <1>3, <1>7 DEF Cursors, Cursor, OverlayMakeDirectory
  <2>3. CursorKey \notin node[cursor.dir].tombstones
    BY <1>7 DEF OverlayMakeDirectory, CursorHidden
  <2> DEFINE d == cursor.dir
             s == Head(cursor.rest)
             made == [Vacate(node, d, Fold[s]) EXCEPT ![n] = MakeNode(s, TRUE, d)]
             f == Emplace(made, d, Fold[s], n)
  <2>4. Finish(f, held, c, dirtyBytes)
    BY <2>1 DEF OverlayPut, CursorKey
  <2>5. Fold[s] \notin node[d].tombstones
    BY <2>3 DEF CursorKey
  <2>6. n \in Node \ Alive /\ d \in Node /\ s \in Spelling /\ node[d].directory /\ held \in SUBSET Node
    BY <1>1, <1>2, InvariantFacts
  <2> HIDE DEF c, d, s
  <2>7. QED
    BY <2>2, <2>4, <2>5, <2>6, NewNodeStep, Zenon
<1>8. CASE OverlayPlaceFile
  <2>1. PICK n \in Node \ Alive : OverlayPut(n, FALSE, NoOverlay)
    BY <1>8, Zenon DEF OverlayPlaceFile
  <2>2. CursorKey \notin node[cursor.dir].tombstones
    BY <1>8 DEF OverlayPlaceFile, CursorHidden
  <2>3. QED
    BY <2>1, <2>2, <1>1, <1>2, <1>4, InvariantFacts, NewNodeStep, Zenon DEF OverlayPut, CursorKey
<1>9. QED
  BY <1>5, <1>6, <1>7, <1>8 DEF OverlayStep

-----------------------------------------------------------------------------
(***************************************************************************)
(* The theorems.                                                           *)
(***************************************************************************)
LEMMA InitInvariant ==
  ASSUME Init
  PROVE  IInv
<1>1. /\ node[Root] = MakeNode(NoName, TRUE, NoNode)
      /\ \A n \in Node \ {Root} : node[n] = Unallocated
      /\ held = {} /\ cursor = NoOverlay /\ dirtyBytes = 0
  BY NodeAssumption DEF Init
<1>2. MakeNode(NoName, TRUE, NoNode) \in NodeType /\ Unallocated \in NodeType
  BY NodeTypes, Zenon
<1>3. node \in Tree
  BY <1>2, NodeAssumption, Zenon DEF Init, Tree
<1>4. \A n \in Node : /\ node[n].children = NoChildren /\ node[n].tombstones = {}
                      /\ node[n].parent = NoNode /\ node[n].dirtyPages = {}
  BY <1>1 DEF MakeNode, Unallocated
<1>5. node[Root].directory
  BY <1>1 DEF MakeNode
<1>6. WellFormed(node)
  <2>1. \A d \in Node, k \in Key : SlotAgrees(node, d, k)
    BY <1>4 DEF SlotAgrees, NoChildren
  <2>2. \A n \in Node : InPlace(node, n)
    BY <1>4 DEF InPlace
  <2>3. QED
    BY <2>1, <2>2, <1>3, <1>4, <1>5, NodeAssumption DEF WellFormed
<1>7. \A n \in Node \ Alive : node[n] = Unallocated
  <2>1. Root \in Alive
    BY <1>1, <1>3, AliveProperties, Zenon DEF Alive, Cursors
  <2>2. QED
    BY <2>1, <1>1
<1>8. QuotaRespected
  <2>1. PageSlots(node, Node) = {}
    BY <1>4 DEF PageSlots
  <2>2. Cardinality(PageSlots(node, Node)) = 0
    BY <2>1, FS_EmptySet
  <2>3. QED
    BY <2>2, <1>1, QuotaAssumption DEF QuotaRespected
<1>9. QED
  BY <1>1, <1>6, <1>7, <1>8 DEF IInv, Cursors, CursorOK

\* Every step keeps the invariant.
LEMMA NextInvariant ==
  ASSUME IInv, [Next]_vars
  PROVE  IInv'
<1>1. CASE UNCHANGED vars
  BY <1>1 DEF vars, IInv, Alive, QuotaRespected
<1>2. ASSUME NEW path \in Paths, Lookup(path) PROVE IInv'
  BY <1>2, HandleSteps, NodeAssumption
<1>3. ASSUME NEW n \in Node, Release(n) PROVE IInv'
  BY <1>3, NamespaceStep, InvariantFacts DEF Release
<1>4. ASSUME NEW path \in Paths, NEW directory \in BOOLEAN, NEW replace \in BOOLEAN,
             Create(path, directory, replace)
      PROVE  IInv'
  BY <1>4, CreateStep
<1>5. ASSUME NEW n \in Node, Remove(n) PROVE IInv'
  BY <1>5, RemoveStep
<1>6. ASSUME NEW n \in Node, NEW path \in Paths, NEW replace \in BOOLEAN,
             Rename(n, path, replace)
      PROVE  IInv'
  BY <1>6, RenameStep
<1>7. ASSUME NEW n \in Node, NEW first \in Page, NEW last \in Page, Write(n, first, last)
      PROVE  IInv'
  BY <1>7, WriteStep
<1>8. ASSUME NEW n \in Node, NEW firstRemoved \in 0 .. PageCount, Resize(n, firstRemoved)
      PROVE  IInv'
  BY <1>8, ResizeStep
<1>9. ASSUME NEW path \in Paths, BeginOverlay(path) PROVE IInv'
  BY <1>9, BeginOverlayStep
<1>10. CASE OverlayStep
  BY <1>10, OverlayCall
<1>11. QED
  BY <1>1, <1>2, <1>3, <1>4, <1>5, <1>6, <1>7, <1>8, <1>9, <1>10 DEF Next

\* Whatever calls are made, in whatever order, with handles released between
\* and during them, the tree stays well formed and the counter exact.
THEOREM TreeInvariant == Spec => []IInv
BY InitInvariant, NextInvariant, PTL DEF Spec

\* Every variable of VirtualTree has its type in every reachable state.
THEOREM TypeCorrect == Spec => []TypeOK
<1>1. IInv => TypeOK
  BY InvariantFacts DEF TypeOK, Tree, Cursors
<1>2. QED
  BY <1>1, TreeInvariant, PTL

\* After every call a node is in at most one slot, the one that its name and
\* its parent name, a node with a parent is linked and in its slot, and a name
\* that is marked deleted in a directory is not present in it: create, remove,
\* rename, overlay and the destruction of nodes keep the five fields in
\* agreement.
THEOREM TreeWellPlaced == Spec => []WellPlaced
<1>1. IInv => OneSlotEach
  BY DEF IInv, WellFormed, SlotAgrees, OneSlotEach
<1>2. IInv => LinkedNodesInPlace
  BY DEF IInv, WellFormed, InPlace, LinkedNodesInPlace
<1>3. IInv => TombstonesNameNothing
  BY DEF IInv, WellFormed, TombstonesNameNothing
<1>4. IInv => WellPlaced
  BY <1>1, <1>2, <1>3 DEF WellPlaced
<1>5. QED
  BY <1>4, TreeInvariant, PTL

\* The counter of dirty bytes is what the dirty pages of all nodes still alive
\* hold, and it never exceeds the write quota.
THEOREM QuotaNeverExceeded == Spec => []QuotaRespected
<1>1. IInv => QuotaRespected
  BY DEF IInv
<1>2. QED
  BY <1>1, TreeInvariant, PTL

-----------------------------------------------------------------------------
(***************************************************************************)
(* A path that is found leads to a node that the root leads to.            *)
(***************************************************************************)
\* at is the walk of find_locked along path.
Walks(at, path) ==
    /\ at[0] = Root
    /\ \A i \in 1 .. Len(path) :
          at[i] = IF at[i - 1] = NoNode THEN NoNode
                  ELSE IF ~node[at[i - 1]].directory THEN NoNode
                  ELSE node[at[i - 1]].children[Fold[path[i]]]

\* The walk by which FindLocked looks a path up.
LEMMA FindWalks ==
  ASSUME WellFormed(node), NEW path \in Seq(Spelling)
  PROVE  \E at : Walks(at, path) /\ FindLocked(path) = at[Len(path)]
<1> DEFINE S == FromRoot(node) \cup {NoNode}
           step == [i \in 1 .. Len(path) |-> [x \in S |->
                      IF x = NoNode THEN NoNode
                      ELSE IF ~node[x].directory THEN NoNode
                      ELSE node[x].children[Fold[path[i]]]]]
           Walk(at) == at = [i \in 0 .. Len(path) |->
                                IF i = 0 THEN Root
                                ELSE IF at[i - 1] = NoNode THEN NoNode
                                ELSE IF ~node[at[i - 1]].directory THEN NoNode
                                ELSE node[at[i - 1]].children[Fold[path[i]]]]
           walk == CHOOSE at : Walk(at)
<1>1. Root \in S /\ Len(path) \in Nat
  BY ClosureStart, NodeAssumption DEF FromRoot
<1>2. \A x \in FromRoot(node), k \in Key : node[x].children[k] \in S
  <2> TAKE x \in FromRoot(node), k \in Key
  <2>1. x \in Node /\ node \in Tree
    BY ClosureType DEF FromRoot, WellFormed
  <2>2. ChildrenOf(node)[x] \subseteq FromRoot(node)
    BY <2>1, ChildrenType, ClosureClosed DEF FromRoot
  <2> QED
    BY <2>1, <2>2, ChildrenType
<1>3. \A i \in 1 .. Len(path) : Fold[path[i]] \in Key
  BY NodeTypes
<1>4. step \in [1 .. Len(path) -> [S -> S]]
  <2>1. \A i \in 1 .. Len(path) : step[i] \in [S -> S]
    BY <1>2, <1>3
  <2> QED
    BY <2>1
<1>5. PICK g \in [0 .. Len(path) -> S] : Iterates(g, Root, step, Len(path))
  <2> HIDE DEF S, step
  <2> QED
    BY <1>1, <1>4, IterationExists, Zenon
<1>6. Walk(g)
  <2>1. \A i \in 1 .. Len(path) : i - 1 \in 0 .. Len(path) /\ g[i - 1] \in S
    BY <1>1
  <2>2. ASSUME NEW i \in 0 .. Len(path)
        PROVE  g[i] = IF i = 0 THEN Root
                      ELSE IF g[i - 1] = NoNode THEN NoNode
                      ELSE IF ~node[g[i - 1]].directory THEN NoNode
                      ELSE node[g[i - 1]].children[Fold[path[i]]]
    <3>1. g[i] = IF i = 0 THEN Root ELSE step[i][g[i - 1]]
      <4> HIDE DEF step
      <4> QED
        BY <1>5, Zenon DEF Iterates
    <3>2. CASE i = 0
      BY <3>1, <3>2
    <3>3. CASE i # 0
      <4>1. i \in 1 .. Len(path) /\ g[i - 1] \in S
        BY <2>1, <3>3
      <4> HIDE DEF S
      <4> QED
        BY <4>1, <3>1, <3>3
    <3> QED
      BY <3>2, <3>3
  <2> HIDE DEF step, S
  <2> QED
    BY <2>2, <1>5
<1>7. Walk(walk)
  <2> HIDE DEF Walk
  <2> QED
    BY <1>6
<1> HIDE DEF walk
<1>8. walk[0] = Root
  BY <1>1, <1>7
<1>9. ASSUME NEW i \in 1 .. Len(path)
      PROVE  walk[i] = IF walk[i - 1] = NoNode THEN NoNode
                       ELSE IF ~node[walk[i - 1]].directory THEN NoNode
                       ELSE node[walk[i - 1]].children[Fold[path[i]]]
  <2>1. i \in 0 .. Len(path) /\ i # 0
    BY <1>1
  <2> QED
    BY <2>1, <1>7
<1>10. Walks(walk, path)
  BY <1>8, <1>9 DEF Walks
<1>11. FindLocked(path) = walk[Len(path)]
  BY DEF FindLocked, walk
<1> QED
  BY <1>10, <1>11

\* The walk of find_locked ends in a node below the root, or nowhere.
LEMMA FindReaches ==
  ASSUME WellFormed(node), NEW path \in Seq(Spelling)
  PROVE  FindLocked(path) \in FromRoot(node) \cup {NoNode}
<1> DEFINE S == FromRoot(node) \cup {NoNode}
<1>1. Root \in S /\ Len(path) \in Nat
  BY ClosureStart, NodeAssumption DEF FromRoot
<1>2. \A x \in FromRoot(node), k \in Key : node[x].children[k] \in S
  <2> TAKE x \in FromRoot(node), k \in Key
  <2>1. x \in Node /\ node \in Tree
    BY ClosureType DEF FromRoot, WellFormed
  <2>2. ChildrenOf(node)[x] \subseteq FromRoot(node)
    BY <2>1, ChildrenType, ClosureClosed DEF FromRoot
  <2> QED
    BY <2>1, <2>2, ChildrenType
<1>3. \A i \in 1 .. Len(path) : Fold[path[i]] \in Key
  BY NodeTypes
<1>4. PICK at : Walks(at, path) /\ FindLocked(path) = at[Len(path)]
  BY FindWalks
<1>5. \A i \in 0 .. Len(path) : at[i] \in S
  <2> DEFINE bad == {i \in 0 .. Len(path) : at[i] \notin S}
  <2> SUFFICES ASSUME bad # {} PROVE FALSE
    OBVIOUS
  <2>1. PICK i \in bad : \A m \in bad : i <= m
    <3>1. bad \in SUBSET Nat
      OBVIOUS
    <3> HIDE DEF bad
    <3> QED
      BY <3>1, NatLeast
  <2>2. i \in 0 .. Len(path) /\ at[i] \notin S
    OBVIOUS
  <2>3. i # 0
    BY <2>2, <1>1, <1>4 DEF Walks
  <2>4. i - 1 \in 0 .. Len(path) /\ at[i - 1] \in S
    BY <2>1, <2>2, <2>3, <1>1
  <2>5. i \in 1 .. Len(path)
    BY <2>2, <2>3, <1>1
  <2>6. at[i] = IF at[i - 1] = NoNode THEN NoNode
                ELSE IF ~node[at[i - 1]].directory THEN NoNode
                ELSE node[at[i - 1]].children[Fold[path[i]]]
    BY <1>4, <2>5 DEF Walks
  <2> QED
    BY <2>2, <2>4, <2>5, <2>6, <1>1, <1>2, <1>3
<1> QED
  BY <1>1, <1>4, <1>5

-----------------------------------------------------------------------------
(***************************************************************************)
(* No cycles.  The walk along the parents leaves every set of nodes; this  *)
(* is kept by all that the calls do, and forbids a cycle of children.      *)
(***************************************************************************)
Grounded(f) == \A S \in SUBSET Node : S # {} => \E x \in S : f[x].parent \notin S

\* Nodes that lose their parent close no cycle.
LEMMA GroundedLess ==
  ASSUME NEW f, NEW g, Grounded(f), \A m \in Node : g[m].parent \in {f[m].parent, NoNode}
  PROVE  Grounded(g)
<1> SUFFICES ASSUME NEW S \in SUBSET Node, S # {}
             PROVE  \E x \in S : g[x].parent \notin S
  BY DEF Grounded
<1>1. PICK x \in S : f[x].parent \notin S
  BY DEF Grounded
<1> QED
  BY <1>1, NodeAssumption

\* No node has one for its parent that is in no directory and has no children.
LEMMA NoParentUnallocated ==
  ASSUME NEW f, WellFormed(f), NEW n \in Node, \A k \in Key : f[n].children[k] = NoNode,
         NEW m \in Node
  PROVE  f[m].parent # n
<1> SUFFICES ASSUME f[m].parent = n PROVE FALSE
  OBVIOUS
<1>1. f[m].parent # NoNode /\ f \in Tree
  BY NodeAssumption DEF WellFormed
<1>2. f[m].name \in Spelling /\ f[n].children[Fold[f[m].name]] = m
  BY <1>1, TreeFields DEF WellFormed, InPlace
<1> QED
  BY <1>2, NodeTypes, NodeAssumption

\* A new node in a slot of another leaves the tree grounded.
LEMMA GroundedAdd ==
  ASSUME NEW f, WellFormed(f), Grounded(f), NEW g, NEW d \in Node, NEW k, NEW n \in Node,
         NEW s, NEW directory, f[n] = Unallocated, n # d, Added(f, g, d, k, n, s, directory)
  PROVE  Grounded(g)
<1> SUFFICES ASSUME NEW S \in SUBSET Node, S # {}
             PROVE  \E x \in S : g[x].parent \notin S
  BY DEF Grounded
<1>1. \A m \in Node : f[m].parent # n
  BY NoParentUnallocated DEF Unallocated, NoChildren
<1>2. g[n].parent = d /\ \A m \in Node \ {n} : g[m].parent = f[m].parent
  BY DEF Added, MakeNode
<1>3. CASE S = {n}
  BY <1>2, <1>3
<1>4. CASE S # {n}
  <2>1. S \ {n} # {} /\ S \ {n} \in SUBSET Node
    BY <1>4
  <2>2. PICK x \in S \ {n} : f[x].parent \notin S \ {n}
    BY <2>1, Zenon DEF Grounded
  <2> QED
    BY <2>2, <1>1, <1>2
<1> QED
  BY <1>3, <1>4

\* n may move to p when the walk from p does not meet it, or when it is a file.
LEMMA GroundedMove ==
  ASSUME NEW f, WellFormed(f), Grounded(f), NEW g, NEW n \in Node, NEW p \in Node, p # n,
         \A m \in Node : g[m].parent = IF m = n THEN p ELSE f[m].parent,
         f[n].directory => n \notin Closure(ParentsOf(f), {p})
  PROVE  Grounded(g)
<1> SUFFICES ASSUME NEW S \in SUBSET Node, S # {}
             PROVE  \E x \in S : g[x].parent \notin S
  BY DEF Grounded
<1> DEFINE A == Closure(ParentsOf(f), {p})
<1>1. CASE n \notin S
  BY <1>1 DEF Grounded
<1>2. CASE n \in S /\ f[n].directory
  <2>1. p \in A /\ A \in SUBSET Node
    BY ClosureStart, ClosureType
  <2>2. \A x \in A : f[x].parent # NoNode => f[x].parent \in A
    <3>1. ParentsOf(f) \in [Node -> SUBSET Node]
      BY TreeFields DEF ParentsOf, WellFormed
    <3>2. \A x \in A : ParentsOf(f)[x] \subseteq A
      BY <3>1, ClosureClosed
    <3> HIDE DEF A
    <3> QED
      BY <2>1, <3>2, Zenon DEF ParentsOf
  <2>3. n \notin A
    BY <1>2
  <2> HIDE DEF A
  <2>4. CASE S \cap A = {}
    BY <2>1, <2>4, <1>2
  <2>5. CASE S \cap A # {}
    <3>1. PICK x \in S \cap A : f[x].parent \notin S \cap A
      BY <2>5, Zenon DEF Grounded
    <3> QED
      BY <3>1, <2>2, <2>3, NodeAssumption
  <2> QED
    BY <2>4, <2>5
<1>3. CASE n \in S /\ ~f[n].directory
  <2>1. \A m \in Node : f[m].parent # n
    <3>1. \A k \in Key : f[n].children[k] = NoNode
      BY <1>3 DEF WellFormed, SlotAgrees
    <3> QED
      BY <3>1, NoParentUnallocated
  <2>2. CASE S = {n}
    BY <2>2
  <2>3. CASE S # {n}
    <3>1. S \ {n} # {} /\ S \ {n} \in SUBSET Node
      BY <2>3
    <3>2. PICK x \in S \ {n} : f[x].parent \notin S \ {n}
      BY <3>1, Zenon DEF Grounded
    <3> QED
      BY <3>2, <2>1
  <2> QED
    BY <2>2, <2>3
<1> QED
  BY <1>1, <1>2, <1>3

\* The parent of a node that the children lead to from start is one of those
\* nodes too, unless the node is itself in start.
LEMMA ParentInClosure ==
  ASSUME NEW f, WellFormed(f), NEW start \in SUBSET Node,
         NEW x \in Closure(ChildrenOf(f), start), x \notin start
  PROVE  f[x].parent \in Closure(ChildrenOf(f), start) /\ f[x].linked
<1> DEFINE D == Closure(ChildrenOf(f), start)
<1>1. D \in SUBSET Node /\ start \subseteq D /\ f \in Tree
  BY ClosureType, ClosureStart DEF WellFormed
<1>2. \A y \in D : ChildrenOf(f)[y] \subseteq D
  BY <1>1, ChildrenType, ClosureClosed
<1>3. \E y \in D : x \in ChildrenOf(f)[y]
  <2> SUFFICES ASSUME \A y \in D : x \notin ChildrenOf(f)[y] PROVE FALSE
    OBVIOUS
  <2>1. D \ {x} \in SUBSET Node /\ start \subseteq D \ {x}
    BY <1>1
  <2>2. \A y \in D \ {x} : ChildrenOf(f)[y] \subseteq D \ {x}
    BY <1>2
  <2>3. D \subseteq D \ {x}
    <3> DEFINE C == ChildrenOf(f)
               E == D \ {x}
    <3>1. E \in SUBSET Node /\ start \subseteq E /\ \A y \in E : C[y] \subseteq E
      BY <2>1, <2>2
    <3> HIDE DEF C, E
    <3>2. Closure(C, start) \subseteq E
      BY <3>1, ClosureSmallest
    <3> QED
      BY <3>2 DEF C, E
  <2> QED
    BY <2>3
<1>4. PICK y \in D : x \in ChildrenOf(f)[y]
  BY <1>3
<1>5. PICK k \in Key : x = f[y].children[k] /\ x # NoNode
  BY <1>1, <1>4 DEF ChildrenOf
<1> QED
  BY <1>1, <1>4, <1>5 DEF WellFormed, SlotAgrees

\* In a grounded tree no node is below itself.
LEMMA GroundedNoCycle ==
  ASSUME NEW f, WellFormed(f), Grounded(f), NEW n \in Node
  PROVE  n \notin Closure(ChildrenOf(f), ChildrenOf(f)[n])
<1> DEFINE start == ChildrenOf(f)[n]
           D == Closure(ChildrenOf(f), start)
<1> SUFFICES ASSUME n \in D PROVE FALSE
  OBVIOUS
<1>1. f \in Tree /\ start \in SUBSET Node /\ D \in SUBSET Node
  BY ChildrenType, ClosureType DEF WellFormed
<1>2. \A x \in start : f[x].parent = n
  <2> TAKE x \in start
  <2>1. PICK k \in Key : x = f[n].children[k] /\ x # NoNode
    BY DEF ChildrenOf
  <2> QED
    BY <2>1 DEF WellFormed, SlotAgrees
<1> HIDE DEF start
<1>3. \A x \in D : f[x].parent \in D
  BY <1>1, <1>2, ParentInClosure
<1> QED
  BY <1>1, <1>3 DEF Grounded

-----------------------------------------------------------------------------
(***************************************************************************)
(* What a call does to the tree, before the nodes that nobody refers to    *)
(* are destroyed: f is the tree it finds, g the one it builds.             *)
(***************************************************************************)
\* The nodes of N keep their kind and their dirty pages.
KeepsFiles(f, g, N) ==
    \A m \in N : g[m].directory = f[m].directory /\ g[m].dirtyPages = f[m].dirtyPages

\* Nothing changes but dirty pages.
KeepsNames(f, g) ==
    \A m \in Node : /\ g[m].directory = f[m].directory
                    /\ g[m].linked = f[m].linked
                    /\ g[m].parent = f[m].parent
                    /\ g[m].children = f[m].children
                    /\ g[m].tombstones = f[m].tombstones

\* A name that goes is marked deleted.
Remembers(f, g) ==
    \A d \in Node, k \in Key :
        f[d].children[k] # NoNode /\ g[d].children[k] = NoNode => k \in g[d].tombstones

\* A name that is marked deleted stays so, and does not come back.
Hides(f, g) ==
    \A d \in Node : \A k \in f[d].tombstones :
        k \in g[d].tombstones /\ g[d].children[k] = NoNode

\* Only empty nodes lose their place; a node that does not has its parent, or
\* comes to another one that the root leads to.
KeepsTree(f, g) ==
    /\ \A x \in Node : f[x].linked /\ ~g[x].linked => \A k \in Key : f[x].children[k] = NoNode
    /\ \A x \in Node :
          f[x].parent # NoNode /\ g[x].linked =>
              \/ g[x].parent = f[x].parent
              \/ /\ g[x].parent \in FromRoot(f)
                 /\ g[g[x].parent].linked = f[g[x].parent].linked

\* What Vacate does to every node's parent and slots.
LEMMA VacateEffect ==
  ASSUME NEW f, WellFormed(f), NEW d \in Node, NEW k \in Key
  PROVE  /\ \A m \in Node : Vacate(f, d, k)[m].parent \in {f[m].parent, NoNode}
         /\ \A m \in Node, j \in Key :
               Vacate(f, d, k)[m].children[j] =
                  IF m = d /\ j = k THEN NoNode ELSE f[m].children[j]
         /\ f[d].children[k] # NoNode => ~Vacate(f, d, k)[f[d].children[k]].linked
<1>1. CASE f[d].children[k] = NoNode
  BY <1>1 DEF Vacate
<1>2. CASE f[d].children[k] # NoNode
  <2> DEFINE t == f[d].children[k]
             v == Vacate(f, d, k)
  <2>1. t \in Node
    BY <1>2, TreeFields DEF WellFormed
  <2>2. Vacated(f, v, d, k, t)
    BY <2>1, VacateFields
  <2> HIDE DEF v
  <2>3. \A m \in Node : v[m].parent \in {f[m].parent, NoNode}
    BY <2>2 DEF Vacated
  <2>4. \A m \in Node, j \in Key :
           v[m].children[j] = IF m = d /\ j = k THEN NoNode ELSE f[m].children[j]
    BY <2>2 DEF Vacated
  <2>5. ~v[t].linked
    BY <2>2 DEF Vacated
  <2> QED
    BY <2>3, <2>4, <2>5 DEF v
<1> QED
  BY <1>1, <1>2

\* A new node, as create and overlay make it; what it replaces is vacated.
LEMMA NewNodeEffect ==
  ASSUME IInv, Grounded(node), NEW d \in Node, node[d].directory, NEW n \in Node \ Alive,
         NEW s \in Spelling, NEW directory \in BOOLEAN, NEW f,
         LET made == [Vacate(node, d, Fold[s]) EXCEPT ![n] = MakeNode(s, directory, d)]
         IN  \/ f = Emplace(Reveal(made, d, Fold[s]), d, Fold[s], n)
             \/ f = Emplace(made, d, Fold[s], n) /\ Fold[s] \notin node[d].tombstones
  PROVE  /\ WellFormed(f) /\ Grounded(f)
         /\ KeepsFiles(node, f, Alive)
         /\ Remembers(node, f)
         /\ Fold[s] \notin node[d].tombstones => Hides(node, f)
         /\ LET t == node[d].children[Fold[s]]
            IN  (t # NoNode => \A k \in Key : node[t].children[k] = NoNode) => KeepsTree(node, f)
<1> DEFINE k == Fold[s]
           v == Vacate(node, d, k)
<1>1. WellFormed(node) /\ node[n] = Unallocated /\ k \in Key
  BY InvariantFacts, NodeTypes
<1>2. Added(v, f, d, k, n, s, directory) /\ n # d /\ WellFormed(f)
  BY NewNodeTree, SMTT(30)
<1>3. /\ WellFormed(v) /\ v[d].children[k] = NoNode
      /\ \A m \in Node : SameFields(node, v, m)
      /\ \A m \in Node : m # node[d].children[k] =>
                            v[m].linked = node[m].linked /\ v[m].parent = node[m].parent
      /\ v[n] = Unallocated
  BY <1>1, VacateWellFormed
<1>4. /\ \A m \in Node : v[m].parent \in {node[m].parent, NoNode}
      /\ \A m \in Node, j \in Key :
            v[m].children[j] = IF m = d /\ j = k THEN NoNode ELSE node[m].children[j]
      /\ node[d].children[k] # NoNode => ~v[node[d].children[k]].linked
  BY <1>1, VacateEffect
<1> HIDE DEF v, k
<1>5. Grounded(f)
  BY <1>2, <1>3, <1>4, GroundedLess, GroundedAdd
<1>6. \A m \in Node \ {n} : /\ f[m].directory = v[m].directory /\ f[m].linked = v[m].linked
                            /\ f[m].parent = v[m].parent /\ f[m].dirtyPages = v[m].dirtyPages
  BY <1>2 DEF Added
<1>7. KeepsFiles(node, f, Alive)
  <2>1. Alive \subseteq Node
    BY ClosureType DEF Alive, AliveIn
  <2> QED
    BY <2>1, <1>3, <1>6 DEF KeepsFiles, SameFields
<1>8. \A m \in Node, j \in Key : f[m].children[j] = IF m = d /\ j = k THEN n ELSE node[m].children[j]
  <2>1. f[n].children = NoChildren /\ node[n].children = NoChildren
    BY <1>1, <1>2 DEF Added, MakeNode, Unallocated
  <2> QED
    BY <2>1, <1>2, <1>4 DEF Added
<1>9. Remembers(node, f)
  BY <1>8, NodeAssumption DEF Remembers
<1>10. ASSUME k \notin node[d].tombstones PROVE Hides(node, f)
  <2> SUFFICES ASSUME NEW e \in Node, NEW j \in node[e].tombstones
               PROVE  j \in f[e].tombstones /\ f[e].children[j] = NoNode
    BY DEF Hides
  <2>1. j \in Key /\ node[e].children[j] = NoNode
    BY <1>1, TreeFields DEF WellFormed
  <2>2. e # n
    BY <1>1 DEF Unallocated
  <2>3. j \in f[e].tombstones
    BY <2>2, <1>2, <1>3, <1>10 DEF Added, SameFields
  <2> QED
    BY <2>1, <2>3, <1>8, <1>10
<1>11. ASSUME LET t == node[d].children[k]
              IN  t # NoNode => \A j \in Key : node[t].children[j] = NoNode
       PROVE  KeepsTree(node, f)
  <2> DEFINE t == node[d].children[k]
  <2>1. f[n].linked /\ f[n].parent = d /\ node[n].parent = NoNode
    BY <1>1, <1>2 DEF Added, MakeNode, Unallocated
  <2>2. \A x \in Node : node[x].linked /\ ~f[x].linked => x = t /\ t # NoNode
    BY <2>1, <1>3, <1>6, NodeAssumption
  <2>3. \A x \in Node : node[x].parent # NoNode /\ f[x].linked => x # n /\ x # t
    BY <2>1, <1>4, <1>6, NodeAssumption
  <2> QED
    BY <2>2, <2>3, <1>3, <1>6, <1>11 DEF KeepsTree
<1> QED
  BY <1>2, <1>5, <1>7, <1>9, <1>10, <1>11 DEF k

\* What remove does keeps the tree grounded, the files and the deleted names.
LEMMA RemoveEffect ==
  ASSUME IInv, Grounded(node), NEW n \in Node, Removable(n)
  PROVE  LET f == Unlinked(node, n)
         IN  /\ WellFormed(f) /\ Grounded(f)
             /\ KeepsFiles(node, f, Alive)
             /\ Remembers(node, f)
             /\ KeepsTree(node, f)
<1> DEFINE p == node[n].parent
           f == Unlinked(node, n)
           k == Fold[node[n].name]
<1>1. WellFormed(node) /\ p \in Node /\ n # Root
  BY InvariantFacts, TreeFields DEF Removable
<1> HIDE DEF f
<1>2. Deleted(node, f, n, p, k)
  BY <1>1, UnlinkFields DEF f
<1>3. WellFormed(f)
  BY <1>1, <1>2, DeleteWellFormed
<1> HIDE DEF k, p
<1>4. Grounded(f)
  <2>1. \A m \in Node : f[m].parent \in {node[m].parent, NoNode}
    BY <1>2 DEF Deleted
  <2> QED
    BY <2>1, GroundedLess
<1>5. KeepsFiles(node, f, Alive)
  <2>1. Alive \subseteq Node
    BY ClosureType DEF Alive, AliveIn
  <2> QED
    BY <2>1, <1>2 DEF Deleted, KeepsFiles
<1>6. Remembers(node, f)
  BY <1>2 DEF Deleted, Remembers
<1>7. \A j \in Key : node[n].children[j] = NoNode
  <2>1. CASE node[n].directory
    BY <2>1 DEF Removable, HasChildren, NoChildren
  <2>2. CASE ~node[n].directory
    BY <2>2, <1>1 DEF WellFormed, SlotAgrees
  <2> QED
    BY <2>1, <2>2
<1>8. KeepsTree(node, f)
  BY <1>2, <1>7 DEF Deleted, KeepsTree
<1> QED
  BY <1>3, <1>4, <1>5, <1>6, <1>8 DEF f

\* The directory of a path that is looked up is reached from Root.
LEMMA LockedParentReached ==
  ASSUME IInv, NEW path \in Paths, NEW p \in Node, NEW s \in Spelling, ParentLocked(path, p, s)
  PROVE  p \in FromRoot(node)
<1> DEFINE front == SubSeq(path, 1, Len(path) - 1)
<1>1. path \in Seq(Spelling) /\ path # <<>>
  BY PathAssumption DEF ParentLocked
<1>2. Len(path) \in Nat /\ Len(path) # 0
  BY <1>1
<1>3. front \in Seq(Spelling)
  BY <1>1, <1>2
<1>4. p = FindLocked(front)
  BY DEF ParentLocked
<1> HIDE DEF front
<1> QED
  BY <1>3, <1>4, FindReaches, InvariantFacts, NodeAssumption

\* What rename does keeps the tree grounded, the files and the deleted names.
LEMMA RenameEffect ==
  ASSUME IInv, Grounded(node), NEW n \in Node, NEW p \in FromRoot(node), NEW s \in Spelling,
         NEW replace, n # Root, node[n].parent # NoNode, node[p].directory,
         ~MovesIntoItself(n, p), MayReplace(n, node[p].children[Fold[s]], replace)
  PROVE  LET g == Renamed(n, p, s)
         IN  /\ WellFormed(g) /\ Grounded(g)
             /\ KeepsFiles(node, g, Alive)
             /\ Remembers(node, g)
             /\ KeepsTree(node, g)
<1> DEFINE k == Fold[s]
           q == node[n].parent
           j == Fold[node[n].name]
           t == node[p].children[k]
           f == Cleared(n, p, s)
           g == Renamed(n, p, s)
<1>1. WellFormed(node) /\ k \in Key /\ p \in Node /\ q \in Node
  BY InvariantFacts, NodeTypes, TreeFields, ClosureType DEF FromRoot
<1>2. /\ p # n /\ WellFormed(f) /\ f[p].children[k] \in {NoNode, n} /\ f[n].parent = q
      /\ \A m \in Node : SameFields(node, f, m)
      /\ Moved(f, g, n, q, j, p, k, s) /\ WellFormed(g)
  BY <1>1, RenameTree
<1>3. /\ \A m \in Node : f[m].parent \in {node[m].parent, NoNode}
      /\ \A m \in Node, i \in Key :
            (m = p /\ i = k) \/ f[m].children[i] = node[m].children[i]
      /\ \A m \in Node : m # t => f[m].linked = node[m].linked /\ f[m].parent = node[m].parent
      /\ t = n => f[n].linked = node[n].linked
      /\ t \notin {NoNode, n} => ~f[t].linked
  <2>1. CASE t = n
    BY <2>1 DEF Cleared
  <2>2. CASE t # n
    <3>1. f = Vacate(node, p, k)
      BY <2>2 DEF Cleared
    <3> HIDE DEF f, t
    <3>2. /\ \A m \in Node : f[m].parent \in {node[m].parent, NoNode}
          /\ \A m \in Node, i \in Key :
                f[m].children[i] = IF m = p /\ i = k THEN NoNode ELSE node[m].children[i]
          /\ t # NoNode => ~f[t].linked
      BY <3>1, <1>1, VacateEffect DEF t
    <3>3. \A m \in Node : m # t => f[m].linked = node[m].linked /\ f[m].parent = node[m].parent
      <4>1. \A m \in Node : m # node[p].children[k] =>
               /\ Vacate(node, p, k)[m].linked = node[m].linked
               /\ Vacate(node, p, k)[m].parent = node[m].parent
        BY <1>1, VacateWellFormed
      <4> QED
        BY <3>1, <4>1 DEF t
    <3> QED
      BY <2>2, <3>2, <3>3
  <2> QED
    BY <2>1, <2>2
<1> HIDE DEF f, g
<1>4. \A m \in Node : /\ g[m].directory = f[m].directory
                      /\ g[m].linked = f[m].linked
                      /\ g[m].dirtyPages = f[m].dirtyPages
                      /\ g[m].parent = IF m = n THEN p ELSE f[m].parent
  BY <1>2 DEF Moved
<1>5. Grounded(g)
  <2> DEFINE A == Closure(ParentsOf(node), {p})
             B == Closure(ParentsOf(f), {p})
  <2>1. Grounded(f)
    BY <1>3, GroundedLess
  <2>2. B \subseteq A
    <3>1. A \in SUBSET Node /\ {p} \subseteq A
      BY <1>1, ClosureType, ClosureStart
    <3>2. ParentsOf(node) \in [Node -> SUBSET Node]
      BY <1>1, TreeFields DEF ParentsOf, WellFormed
    <3>3. \A m \in A : ParentsOf(node)[m] \subseteq A
      BY <3>2, ClosureClosed
    <3>4. \A m \in Node : ParentsOf(f)[m] \subseteq ParentsOf(node)[m]
      BY <1>3 DEF ParentsOf
    <3>5. \A m \in A : ParentsOf(f)[m] \subseteq A
      BY <3>1, <3>3, <3>4, Zenon
    <3> HIDE DEF A
    <3> QED
      BY <3>1, <3>5, ClosureSmallest
  <2>3. f[n].directory => n \notin B
    BY <2>2, <1>2 DEF MovesIntoItself, SameFields
  <2> HIDE DEF A
  <2> QED
    BY <2>1, <2>3, <1>1, <1>2, <1>4, GroundedMove, SMTT(30)
<1>6. KeepsFiles(node, g, Alive)
  <2>1. Alive \subseteq Node
    BY ClosureType DEF Alive, AliveIn
  <2> QED
    BY <2>1, <1>2, <1>4 DEF KeepsFiles, SameFields
<1>7. Remembers(node, g)
  <2> SUFFICES ASSUME NEW d \in Node, NEW i \in Key, node[d].children[i] # NoNode,
                      g[d].children[i] = NoNode
               PROVE  i \in g[d].tombstones
    BY DEF Remembers
  <2>1. g[d].children[i] = IF d = p /\ i = k THEN n
                           ELSE IF d = q /\ i = j THEN NoNode
                           ELSE f[d].children[i]
    BY <1>2 DEF Moved
  <2>2. ~(d = p /\ i = k) /\ d = q /\ i = j
    BY <2>1, <1>3, NodeAssumption
  <2> QED
    BY <2>2, <1>2 DEF Moved
<1>8. KeepsTree(node, g)
  <2>1. p # t
    BY <1>1, NodeAssumption DEF WellFormed, SlotAgrees, InPlace
  <2>2. t \notin {NoNode, n} => \A i \in Key : node[t].children[i] = NoNode
    <3>1. CASE t \notin {NoNode, n} /\ node[t].directory
      BY <3>1, Zenon DEF MayReplace, Replaceable, HasChildren, NoChildren
    <3>2. CASE t \notin {NoNode, n} /\ ~node[t].directory
      <4>1. t \in Node
        BY <3>2, <1>1, TreeFields DEF WellFormed
      <4> QED
        BY <3>2, <4>1, <1>1 DEF WellFormed, SlotAgrees
    <3> QED
      BY <3>1, <3>2
  <2> HIDE DEF t, q, j, k
  <2>3. \A x \in Node : node[x].linked /\ ~g[x].linked => x = t /\ t \notin {NoNode, n}
    BY <1>3, <1>4, NodeAssumption
  <2>4. \A x \in Node : g[x].linked /\ x # n => g[x].parent = node[x].parent
    BY <1>3, <1>4, NodeAssumption
  <2>5. g[n].parent = p /\ g[p].linked = node[p].linked
    BY <2>1, <1>1, <1>3, <1>4
  <2> QED
    BY <2>2, <2>3, <2>4, <2>5 DEF KeepsTree
<1> QED
  BY <1>2, <1>5, <1>6, <1>7, <1>8 DEF g

-----------------------------------------------------------------------------
(***************************************************************************)
(* What the destruction of nodes leaves of that.                           *)
(***************************************************************************)
\* The tree g when all but the nodes of alive are destroyed.
Survivors(g, alive) ==
    [n \in Node |-> IF n \notin alive THEN Unallocated
                    ELSE IF g[n].parent \in alive THEN g[n]
                    ELSE [g[n] EXCEPT !.parent = NoNode]]

\* What they and the handles h leave of g is the tree f: the live nodes keep
\* their fields, the others are freed.
Outlived(g, h, alive, f) ==
    /\ h \subseteq alive /\ alive \subseteq Node
    /\ \A m \in alive : /\ f[m].directory = g[m].directory
                        /\ f[m].linked = g[m].linked
                        /\ f[m].children = g[m].children
                        /\ f[m].tombstones = g[m].tombstones
                        /\ f[m].dirtyPages = g[m].dirtyPages
                        /\ f[m].parent = IF g[m].parent \in alive THEN g[m].parent ELSE NoNode
    /\ \A m \in Node \ alive : f[m] = Unallocated
    /\ FromRoot(g) \subseteq FromRoot(f)

\* That is what Finish does.
LEMMA FinishEffect ==
  ASSUME NEW g, WellFormed(g), NEW h \in SUBSET Node, NEW c \in Cursors,
         NEW alive, alive = AliveIn(g, h, c), NEW f \in Tree, f = Survivors(g, alive)
  PROVE  Outlived(g, h, alive, f) /\ (Grounded(g) => Grounded(f))
<1>1. g \in Tree
  BY DEF WellFormed
<1>2. /\ alive \subseteq Node /\ Root \in alive /\ h \subseteq alive
      /\ {Root} \in SUBSET Node
  BY <1>1, AliveProperties, NodeAssumption, Zenon
<1>3. \A m \in alive : ChildrenOf(g)[m] \subseteq alive
  BY <1>1, ChildrenType, ClosureClosed DEF AliveIn
<1>4. f = [n \in Node |-> IF n \notin alive THEN Unallocated
                                 ELSE IF g[n].parent \in alive THEN g[n]
                                 ELSE [g[n] EXCEPT !.parent = NoNode]]
  BY DEF Survivors
<1>5. \A m \in alive : /\ f[m].directory = g[m].directory
                       /\ f[m].linked = g[m].linked
                       /\ f[m].children = g[m].children
                       /\ f[m].tombstones = g[m].tombstones
                       /\ f[m].dirtyPages = g[m].dirtyPages
                       /\ f[m].parent = IF g[m].parent \in alive THEN g[m].parent ELSE NoNode
  BY <1>1, <1>2, <1>4 DEF Tree, NodeType
<1>6. \A m \in Node \ alive : f[m] = Unallocated
  BY <1>4
<1>7. FromRoot(g) \subseteq FromRoot(f)
  <2> DEFINE B == FromRoot(f)
             C == ChildrenOf(g)
             S == B \cap alive
  <2>1. Root \in B /\ B \in SUBSET Node
    BY <1>2, ClosureStart, ClosureType DEF FromRoot
  <2>2. \A m \in B : ChildrenOf(f)[m] \subseteq B
    BY ChildrenType, ClosureClosed DEF FromRoot
  <2>3. \A m \in alive : ChildrenOf(f)[m] = C[m]
    <3> TAKE m \in alive
    <3>1. m \in Node /\ f[m].children = g[m].children
      BY <1>2, <1>5
    <3>2. {f[m].children[k] : k \in Key} = {g[m].children[k] : k \in Key}
      BY <3>1
    <3>3. /\ ChildrenOf(f)[m] = {f[m].children[k] : k \in Key} \ {NoNode}
          /\ C[m] = {g[m].children[k] : k \in Key} \ {NoNode}
      BY <3>1 DEF ChildrenOf
    <3> QED
      BY <3>2, <3>3
  <2>4. \A m \in S : C[m] \subseteq S
    BY <2>2, <2>3, <1>3
  <2> HIDE DEF B, C
  <2>5. S \in SUBSET Node /\ {Root} \subseteq S
    BY <2>1, <1>2
  <2> HIDE DEF S
  <2>6. Closure(C, {Root}) \subseteq S
    BY <2>4, <2>5, ClosureSmallest
  <2> QED
    BY <2>6 DEF FromRoot, S, B, C
<1>8. Grounded(g) => Grounded(f)
  <2>1. \A m \in Node : f[m].parent \in {g[m].parent, NoNode}
    BY <1>5, <1>6 DEF Unallocated
  <2> QED
    BY <2>1, GroundedLess
<1> QED
  BY <1>2, <1>4, <1>5, <1>6, <1>7, <1>8 DEF Outlived

\* The parent of a node that the root leads to is another such node.
LEMMA NotStranded ==
  ASSUME NEW f, WellFormed(f), NEW g, WellFormed(g), Grounded(g), KeepsTree(f, g)
  PROVE  \A x \in FromRoot(f) : g[x].linked => x \in FromRoot(g)
<1> DEFINE lost == {x \in FromRoot(f) : g[x].linked /\ x \notin FromRoot(g)}
<1>1. /\ Root \in FromRoot(g) /\ FromRoot(f) \in SUBSET Node /\ f \in Tree /\ g \in Tree
      /\ {Root} \in SUBSET Node
  BY ClosureStart, ClosureType, NodeAssumption DEF FromRoot, WellFormed
<1> SUFFICES ASSUME lost # {} PROVE FALSE
  OBVIOUS
<1>2. PICK x \in lost : g[x].parent \notin lost
  <2>1. lost \in SUBSET Node
    BY <1>1
  <2> HIDE DEF lost
  <2> QED
    BY <2>1 DEF Grounded
<1>3. x \in FromRoot(f) /\ x \in Node /\ g[x].linked /\ x \notin FromRoot(g) /\ x # Root
  BY <1>1
<1>4. f[x].parent \in FromRoot(f)
  BY <1>1, <1>3, ParentInClosure DEF FromRoot
<1> DEFINE y == g[x].parent
<1>5. y \in FromRoot(f) /\ y \in Node
  BY <1>1, <1>3, <1>4, NodeAssumption DEF KeepsTree
<1>6. y # Root => g[y].linked
  <2> SUFFICES ASSUME y # Root PROVE g[y].linked
    OBVIOUS
  <2>1. f[y].linked
    BY <1>1, <1>5, ParentInClosure DEF FromRoot
  <2>2. CASE g[y].linked = f[y].linked
    BY <2>1, <2>2
  <2>3. CASE y = f[x].parent
    <3>1. f[x].name \in Spelling /\ f[y].children[Fold[f[x].name]] = x
      BY <2>3, <1>1, <1>3, <1>5, TreeFields, NodeAssumption DEF WellFormed, InPlace
    <3>2. f[y].children[Fold[f[x].name]] # NoNode /\ Fold[f[x].name] \in Key
      BY <3>1, <1>3, NodeTypes, NodeAssumption
    <3> QED
      BY <2>1, <3>2, <1>5 DEF KeepsTree
  <2> QED
    BY <2>2, <2>3, <1>1, <1>3, <1>4, NodeAssumption DEF KeepsTree
<1>7. y \in FromRoot(g)
  BY <1>1, <1>2, <1>5, <1>6
<1>8. x \in FromRoot(g)
  <2>1. g[x].name \in Spelling /\ g[y].children[Fold[g[x].name]] = x
    BY <1>1, <1>3, <1>5, TreeFields, NodeAssumption DEF WellFormed, InPlace
  <2>2. x \in ChildrenOf(g)[y]
    BY <2>1, <1>1, <1>3, <1>5, NodeTypes, NodeAssumption, ChildrenType
  <2>3. ChildrenOf(g)[y] \subseteq FromRoot(g)
    BY <1>1, <1>7, ChildrenType, ClosureClosed, Zenon DEF FromRoot
  <2> QED
    BY <2>2, <2>3
<1> QED
  BY <1>3, <1>8

-----------------------------------------------------------------------------
(***************************************************************************)
(* Every step is a call with its effect, and the destruction of nodes.     *)
(***************************************************************************)
\* What is known of the tree g that a call has built when it ends.
Effect(g, h, c) ==
    /\ WellFormed(g) /\ Grounded(g)
    /\ KeepsFiles(node, g, Alive) \/ (KeepsNames(node, g) /\ h = held /\ c = cursor)
    /\ Unlocked => Remembers(node, g) /\ KeepsTree(node, g)
    /\ ~Unlocked => Hides(node, g)

Ends(g, h, c, charged) ==
    /\ h \in SUBSET Node /\ c \in Cursors
    /\ Finish(g, h, c, charged)
    /\ Effect(g, h, c)

\* A call that leaves the names alone forgets and reveals no deleted name, and
\* leaves a grounded tree grounded.
LEMMA NamesEffect ==
  ASSUME NEW f, NEW g, WellFormed(f), KeepsNames(f, g)
  PROVE  /\ Remembers(f, g) /\ KeepsTree(f, g)
         /\ Hides(f, g)
         /\ Grounded(f) => Grounded(g)
<1>1. Remembers(f, g) /\ KeepsTree(f, g)
  BY DEF KeepsNames, Remembers, KeepsTree
<1>2. Hides(f, g)
  BY DEF KeepsNames, Hides, WellFormed
<1>3. Grounded(f) => Grounded(g)
  BY GroundedLess DEF KeepsNames
<1> QED
  BY <1>1, <1>2, <1>3

\* A call that changes nothing of the tree has an Effect.
LEMMA SameEffect ==
  ASSUME IInv, Grounded(node), NEW h \in SUBSET Node, NEW c \in Cursors
  PROVE  Effect(node, h, c)
<1>1. KeepsNames(node, node) /\ KeepsFiles(node, node, Alive)
  BY DEF KeepsNames, KeepsFiles
<1> QED
  BY <1>1, NamesEffect, InvariantFacts DEF Effect

\* A call that changes the pages of a node has an Effect.
LEMMA PagesEffect ==
  ASSUME IInv, Grounded(node), NEW n \in Node, NEW S \in SUBSET Page
  PROVE  Effect(WithPages(node, n, S), held, cursor)
<1> DEFINE g == WithPages(node, n, S)
<1>1. WellFormed(g) /\ \A m \in Node \ {n} : g[m] = node[m]
  BY PagesWellFormed, InvariantFacts
<1>2. KeepsNames(node, g)
  <2>1. g[n] = [node[n] EXCEPT !.dirtyPages = S] /\ node[n] \in NodeType
    BY InvariantFacts DEF WithPages, Tree
  <2>2. /\ g[n].directory = node[n].directory /\ g[n].linked = node[n].linked
        /\ g[n].parent = node[n].parent /\ g[n].children = node[n].children
        /\ g[n].tombstones = node[n].tombstones
    BY <2>1 DEF NodeType
  <2> HIDE DEF g
  <2> QED
    BY <1>1, <2>2 DEF KeepsNames
<1> HIDE DEF g
<1>3. Effect(g, held, cursor)
  BY <1>1, <1>2, NamesEffect, InvariantFacts DEF Effect
<1> QED
  BY <1>3 DEF g

\* Create ends with a tree that it has an Effect on.
LEMMA CreateEffect ==
  ASSUME IInv, Grounded(node), NEW path \in Paths, NEW directory \in BOOLEAN,
         NEW replace \in BOOLEAN, Create(path, directory, replace)
  PROVE  \E g, h, c, charged : Ends(g, h, c, charged)
<1>1. PICK p \in Node, n \in Node \ Alive, s \in Spelling :
         /\ ParentLocked(path, p, s)
         /\ LET t == node[p].children[Fold[s]]
            IN  t # NoNode => replace /\ Replaceable(t)
         /\ LET f == [Vacate(node, p, Fold[s]) EXCEPT ![n] = MakeNode(s, directory, p)]
            IN  Finish(Emplace(Reveal(f, p, Fold[s]), p, Fold[s], n), held \cup {n}, cursor,
                       dirtyBytes)
  BY Zenon DEF Create
<1> DEFINE made == [Vacate(node, p, Fold[s]) EXCEPT ![n] = MakeNode(s, directory, p)]
           g == Emplace(Reveal(made, p, Fold[s]), p, Fold[s], n)
           t == node[p].children[Fold[s]]
<1>2. node[p].directory /\ Unlocked
  BY <1>1 DEF Create, ParentLocked
<1>3. t # NoNode => \A k \in Key : node[t].children[k] = NoNode
  <2>1. CASE t # NoNode /\ node[t].directory
    BY <1>1, <2>1 DEF Replaceable, HasChildren, NoChildren
  <2>2. CASE t # NoNode /\ ~node[t].directory
    <3>1. t \in Node
      BY <2>2, InvariantFacts, TreeFields, NodeTypes
    <3> QED
      BY <2>2, <3>1, InvariantFacts DEF WellFormed, SlotAgrees
  <2> QED
    BY <2>1, <2>2
<1> HIDE DEF t
<1>4. /\ WellFormed(g) /\ Grounded(g) /\ KeepsFiles(node, g, Alive) /\ Remembers(node, g)
      /\ KeepsTree(node, g)
  BY <1>2, <1>3, NewNodeEffect DEF t
<1>5. held \cup {n} \in SUBSET Node /\ cursor \in Cursors
  BY InvariantFacts
<1>6. Finish(g, held \cup {n}, cursor, dirtyBytes)
  BY <1>1
<1> HIDE DEF g
<1>7. Ends(g, held \cup {n}, cursor, dirtyBytes)
  BY <1>2, <1>4, <1>5, <1>6 DEF Ends, Effect
<1> QED
  BY <1>7

\* So does each step of an overlay.
LEMMA OverlayEffect ==
  ASSUME IInv, Grounded(node), OverlayStep
  PROVE  \E g, h, c, charged : Ends(g, h, c, charged)
<1>1. /\ cursor # NoOverlay /\ cursor.dir \in Node /\ cursor.rest \in Seq(Spelling)
      /\ node[cursor.dir].directory /\ cursor.rest # <<>>
  BY InvariantFacts, Zenon DEF OverlayStep, OverlayHidden, OverlayDescend, OverlayMakeDirectory,
                        OverlayPlaceFile, Cursors, Cursor, CursorOK
<1>2. Head(cursor.rest) \in Spelling /\ Tail(cursor.rest) \in Seq(Spelling)
  BY <1>1
<1>3. NoOverlay \in Cursors /\ held \in SUBSET Node
  BY InvariantFacts DEF Cursors
<1>4. CASE OverlayHidden
  <2>1. Ends(node, held, NoOverlay, dirtyBytes)
    BY <1>3, <1>4, SameEffect DEF OverlayHidden, Ends
  <2> QED
    BY <2>1
<1>5. CASE OverlayDescend
  <2>1. PICK t \in Node : Finish(node, held, [dir |-> t, rest |-> Tail(cursor.rest)], dirtyBytes)
    BY <1>5, Zenon DEF OverlayDescend
  <2>2. [dir |-> t, rest |-> Tail(cursor.rest)] \in Cursors
    BY <1>2 DEF Cursors, Cursor
  <2>3. Ends(node, held, [dir |-> t, rest |-> Tail(cursor.rest)], dirtyBytes)
    BY <1>3, <2>1, <2>2, SameEffect DEF Ends
  <2> QED
    BY <2>3
<1>6. ASSUME NEW n \in Node \ Alive, NEW directory \in BOOLEAN, NEW c \in Cursors,
             OverlayPut(n, directory, c), ~CursorHidden
      PROVE  \E g, h, x, charged : Ends(g, h, x, charged)
  <2> DEFINE d == cursor.dir
             s == Head(cursor.rest)
             made == [Vacate(node, d, Fold[s]) EXCEPT ![n] = MakeNode(s, directory, d)]
             g == Emplace(made, d, Fold[s], n)
  <2>1. Finish(g, held, c, dirtyBytes)
    BY <1>6 DEF OverlayPut, CursorKey
  <2>2. Fold[s] \notin node[d].tombstones
    BY <1>6 DEF CursorHidden, CursorKey
  <2>3. d \in Node /\ s \in Spelling /\ node[d].directory
    BY <1>1, <1>2
  <2> HIDE DEF d, s
  <2>4. WellFormed(g) /\ Grounded(g) /\ KeepsFiles(node, g, Alive) /\ Hides(node, g)
    BY <2>2, <2>3, NewNodeEffect
  <2> HIDE DEF g
  <2>5. Ends(g, held, c, dirtyBytes)
    BY <1>1, <1>3, <2>1, <2>4 DEF Ends, Effect, Unlocked
  <2> QED
    BY <2>5
<1>7. CASE OverlayMakeDirectory
  <2>1. PICK n \in Node \ Alive : OverlayPut(n, TRUE, [dir |-> n, rest |-> Tail(cursor.rest)])
    BY <1>7, Zenon DEF OverlayMakeDirectory
  <2>2. [dir |-> n, rest |-> Tail(cursor.rest)] \in Cursors
    BY <1>2 DEF Cursors, Cursor
  <2> QED
    BY <2>1, <2>2, <1>6, <1>7, Zenon DEF OverlayMakeDirectory
<1>8. CASE OverlayPlaceFile
  <2>1. PICK n \in Node \ Alive : OverlayPut(n, FALSE, NoOverlay)
    BY <1>8, Zenon DEF OverlayPlaceFile
  <2> QED
    BY <2>1, <1>3, <1>6, <1>8, Zenon DEF OverlayPlaceFile
<1> QED
  BY <1>4, <1>5, <1>7, <1>8 DEF OverlayStep

\* So does any step.
LEMMA NextEffect ==
  ASSUME IInv, Grounded(node), Next
  PROVE  \E g, h, c, charged : Ends(g, h, c, charged)
<1>0. held \in SUBSET Node /\ cursor \in Cursors
  BY InvariantFacts
<1>1. ASSUME NEW path \in Paths, Lookup(path) PROVE \E g, h, c, charged : Ends(g, h, c, charged)
  <2>1. PICK m \in Node : Finish(node, held \cup {m}, cursor, dirtyBytes)
    BY <1>1, Zenon DEF Lookup
  <2>2. Ends(node, held \cup {m}, cursor, dirtyBytes)
    BY <1>0, <2>1, SameEffect DEF Ends
  <2> QED
    BY <2>2
<1>2. ASSUME NEW n \in Node, Release(n) PROVE \E g, h, c, charged : Ends(g, h, c, charged)
  <2>1. Ends(node, held \ {n}, cursor, dirtyBytes)
    BY <1>0, <1>2, SameEffect DEF Ends, Release
  <2> QED
    BY <2>1
<1>3. ASSUME NEW n \in Node, Remove(n) PROVE \E g, h, c, charged : Ends(g, h, c, charged)
  <2>1. Finish(Unlinked(node, n), held, cursor, dirtyBytes) /\ Removable(n) /\ Unlocked
    BY <1>3 DEF Remove, Unlinked
  <2>2. Ends(Unlinked(node, n), held, cursor, dirtyBytes)
    BY <1>0, <2>1, RemoveEffect DEF Ends, Effect
  <2> QED
    BY <2>2
<1>4. ASSUME NEW n \in Node, NEW path \in Paths, NEW replace \in BOOLEAN,
             Rename(n, path, replace)
      PROVE  \E g, h, c, charged : Ends(g, h, c, charged)
  <2>1. n # Root /\ node[n].parent # NoNode /\ Unlocked
    BY <1>4, RenameCall DEF Unlocked
  <2>2. PICK p \in Node, s \in Spelling :
           /\ ParentLocked(path, p, s) /\ node[p].directory
           /\ ~MovesIntoItself(n, p)
           /\ MayReplace(n, node[p].children[Fold[s]], replace)
           /\ Finish(Renamed(n, p, s), held, cursor, dirtyBytes)
    BY <1>4, RenameCall
  <2>3. p \in FromRoot(node)
    BY <2>2, LockedParentReached
  <2>4. /\ WellFormed(Renamed(n, p, s)) /\ Grounded(Renamed(n, p, s))
        /\ KeepsFiles(node, Renamed(n, p, s), Alive)
        /\ Remembers(node, Renamed(n, p, s)) /\ KeepsTree(node, Renamed(n, p, s))
    BY <2>1, <2>2, <2>3, RenameEffect
  <2>5. Ends(Renamed(n, p, s), held, cursor, dirtyBytes)
    BY <1>0, <2>1, <2>2, <2>4 DEF Ends, Effect
  <2> QED
    BY <2>5
<1>5. ASSUME NEW n \in Node, NEW first \in Page, NEW last \in Page, Write(n, first, last)
      PROVE  \E g, h, c, charged : Ends(g, h, c, charged)
  <2> DEFINE needed == (first .. last) \ node[n].dirtyPages
             S == node[n].dirtyPages \cup needed
  <2>1. S \in SUBSET Page
    BY InvariantFacts, TreeFields, QuotaAssumption DEF Page
  <2>2. Finish(WithPages(node, n, S), held, cursor, dirtyBytes + PageSize * Cardinality(needed))
    BY <1>5 DEF Write, WithPages
  <2> HIDE DEF S
  <2>3. Ends(WithPages(node, n, S), held, cursor, dirtyBytes + PageSize * Cardinality(needed))
    BY <1>0, <2>1, <2>2, PagesEffect DEF Ends
  <2> QED
    BY <2>3
<1>6. ASSUME NEW n \in Node, NEW firstRemoved, Resize(n, firstRemoved)
      PROVE  \E g, h, c, charged : Ends(g, h, c, charged)
  <2> DEFINE removed == PagesRemoved(n, firstRemoved)
             S == node[n].dirtyPages \ removed
  <2>1. S \in SUBSET Page
    BY InvariantFacts, TreeFields
  <2>2. Finish(WithPages(node, n, S), held, cursor, dirtyBytes - PageSize * Cardinality(removed))
    BY <1>6 DEF Resize, WithPages
  <2> HIDE DEF S
  <2>3. Ends(WithPages(node, n, S), held, cursor, dirtyBytes - PageSize * Cardinality(removed))
    BY <1>0, <2>1, <2>2, PagesEffect DEF Ends
  <2> QED
    BY <2>3
<1>7. ASSUME NEW path \in Paths, BeginOverlay(path)
      PROVE  \E g, h, c, charged : Ends(g, h, c, charged)
  <2>1. [dir |-> Root, rest |-> path] \in Cursors
    BY PathAssumption, NodeAssumption DEF Cursors, Cursor
  <2>2. Ends(node, held, [dir |-> Root, rest |-> path], dirtyBytes)
    BY <1>0, <1>7, <2>1, SameEffect DEF Ends, BeginOverlay
  <2> QED
    BY <2>2
<1> QED
  BY <1>1, <1>2, <1>3, <1>4, <1>5, <1>6, <1>7, CreateEffect, OverlayEffect DEF Next

\* The invariant, and that no node is above itself.
GInv == IInv /\ Grounded(node)

\* Every step keeps the tree grounded,
LEMMA NextGrounded == GInv /\ [Next]_vars => GInv'
<1> SUFFICES ASSUME GInv, [Next]_vars PROVE GInv'
  OBVIOUS
<1>1. IInv'
  BY NextInvariant DEF GInv
<1>2. CASE Next
  <2>1. PICK g, h, c, charged : Ends(g, h, c, charged)
    BY <1>2, NextEffect DEF GInv
  <2>2. node' \in Tree
    BY <1>1 DEF IInv, WellFormed
  <2>3. Grounded(node')
    <3> DEFINE alive == AliveIn(g, h, c)
    <3>1. PICK f : f = node'
      OBVIOUS
    <3>2. f = Survivors(g, alive) /\ f \in Tree
      BY <2>1, <2>2, <3>1 DEF Ends, Finish, Survivors
    <3>3. WellFormed(g) /\ h \in SUBSET Node /\ c \in Cursors /\ Grounded(g)
      BY <2>1 DEF Ends, Effect
    <3> HIDE DEF alive
    <3>4. Grounded(f)
      BY <3>2, <3>3, FinishEffect DEF alive
    <3> QED
      BY <3>1, <3>4
  <2> QED
    BY <1>1, <2>3 DEF GInv, Grounded
<1>3. CASE UNCHANGED vars
  BY <1>1, <1>3 DEF vars, GInv, Grounded
<1> QED
  BY <1>2, <1>3

\* it is grounded at the start,
LEMMA InitGrounded == Init => GInv
<1> SUFFICES ASSUME Init PROVE GInv
  OBVIOUS
<1>1. \A n \in Node : node[n].parent = NoNode
  BY NodeAssumption DEF Init, MakeNode, Unallocated
<1> QED
  BY <1>1, InitInvariant, NodeAssumption DEF GInv, Grounded

\* and so it always is.
LEMMA GroundedInvariant == Spec => []GInv
BY InitGrounded, NextGrounded, PTL DEF Spec

\* NoCycles: no directory comes to be inside itself, whatever is renamed into
\* whatever, so the walk of rename ends and no directory keeps itself alive.
THEOREM TreeHasNoCycles == Spec => []NoCycles
<1>1. GInv => NoCycles
  BY GroundedNoCycle DEF GInv, IInv, NoCycles
<1> QED
  BY <1>1, GroundedInvariant, PTL

\* What FinishEffect says of a step whose call has built the tree g.
LEMMA EndEffect ==
  ASSUME NEW g, NEW h, NEW c, NEW charged, Ends(g, h, c, charged), node' \in Tree
  PROVE  \E alive :
            /\ alive \subseteq Node /\ held' \subseteq alive
            /\ Effect(g, held', cursor')
            /\ alive = AliveIn(g, held', cursor')
            /\ \A m \in alive : /\ node'[m].directory = g[m].directory
                                /\ node'[m].linked = g[m].linked
                                /\ node'[m].children = g[m].children
                                /\ node'[m].tombstones = g[m].tombstones
                                /\ node'[m].dirtyPages = g[m].dirtyPages
                                /\ node'[m].parent =
                                      IF g[m].parent \in alive THEN g[m].parent ELSE NoNode
            /\ \A m \in Node \ alive : node'[m] = Unallocated
            /\ FromRoot(g) \subseteq FromRoot(node')
<1> DEFINE alive == AliveIn(g, h, c)
<1>1. /\ held' = h /\ cursor' = c
      /\ h \subseteq alive /\ alive \subseteq Node
      /\ \A m \in alive : /\ node'[m].directory = g[m].directory
                          /\ node'[m].linked = g[m].linked
                          /\ node'[m].children = g[m].children
                          /\ node'[m].tombstones = g[m].tombstones
                          /\ node'[m].dirtyPages = g[m].dirtyPages
                          /\ node'[m].parent =
                                IF g[m].parent \in alive THEN g[m].parent ELSE NoNode
      /\ \A m \in Node \ alive : node'[m] = Unallocated
      /\ FromRoot(g) \subseteq FromRoot(node')
  <2>1. WellFormed(g) /\ h \in SUBSET Node /\ c \in Cursors
    BY DEF Ends, Effect
  <2>2. PICK f : f = node'
    OBVIOUS
  <2>3. f = Survivors(g, alive) /\ f \in Tree
    BY <2>2 DEF Ends, Finish, Survivors
  <2>6. held' = h /\ cursor' = c
    BY DEF Ends, Finish
  <2> HIDE DEF alive
  <2>4. alive = AliveIn(g, h, c)
    BY DEF alive
  <2>5. Outlived(g, h, alive, f)
    BY ONLY <2>1, <2>3, <2>4, FinishEffect
  <2> QED
    BY <2>2, <2>5, <2>6 DEF Outlived
<1>2. alive = AliveIn(g, held', cursor')
  BY <1>1
<1>3. Effect(g, held', cursor')
  BY <1>1 DEF Ends
<1> HIDE DEF alive
<1> QED
  BY <1>1, <1>2, <1>3

\* The same of any step.
LEMMA StepEffect ==
  ASSUME GInv, Next
  PROVE  \E g, alive :
            /\ alive \subseteq Node /\ held' \subseteq alive
            /\ Effect(g, held', cursor')
            /\ alive = AliveIn(g, held', cursor')
            /\ \A m \in alive : /\ node'[m].directory = g[m].directory
                                /\ node'[m].linked = g[m].linked
                                /\ node'[m].children = g[m].children
                                /\ node'[m].tombstones = g[m].tombstones
                                /\ node'[m].dirtyPages = g[m].dirtyPages
                                /\ node'[m].parent =
                                      IF g[m].parent \in alive THEN g[m].parent ELSE NoNode
            /\ \A m \in Node \ alive : node'[m] = Unallocated
            /\ FromRoot(g) \subseteq FromRoot(node')
<1>1. PICK g, h, c, charged : Ends(g, h, c, charged)
  BY NextEffect DEF GInv
<1>2. node' \in Tree
  BY NextInvariant DEF GInv, IInv, WellFormed
<1> QED
  BY <1>1, <1>2, EndEffect

\* NothingStranded: create, remove and rename, and the release of handles, take
\* no linked node out of the reach of the root.
THEOREM NothingIsStranded == Spec => NothingStranded
<1> DEFINE Kept == Unlocked => LET after == FromRoot(node')
                               IN  \A n \in FromRoot(node) : node'[n].linked => n \in after
<1>1. GInv /\ [Next]_vars => [Kept]_vars
  <2> SUFFICES ASSUME GInv, Next, Unlocked, NEW n \in FromRoot(node), node'[n].linked
               PROVE  n \in FromRoot(node')
    OBVIOUS
  <2>1. PICK g, alive :
           /\ Effect(g, held', cursor')
           /\ \A m \in alive : node'[m].linked = g[m].linked
           /\ \A m \in Node \ alive : node'[m] = Unallocated
           /\ FromRoot(g) \subseteq FromRoot(node')
    BY StepEffect
  <2>2. n \in Node /\ n \in alive
    BY <2>1, ClosureType DEF FromRoot, Unallocated
  <2>3. g[n].linked
    BY <2>1, <2>2
  <2>4. n \in FromRoot(g)
    BY <2>1, <2>3, NotStranded DEF Effect, GInv, IInv
  <2> QED
    BY <2>1, <2>4
<1> QED
  BY <1>1, GroundedInvariant, PTL DEF Spec, NothingStranded

\* DeletionRemembered: a name that a call takes out of a directory is marked
\* deleted there.
THEOREM DeletionIsRemembered == Spec => DeletionRemembered
<1> DEFINE Remembered == Unlocked => \A d \in Node, k \in Key :
                            (/\ node[d].children[k] # NoNode
                             /\ node'[d].directory
                             /\ node'[d].children[k] = NoNode) => k \in node'[d].tombstones
<1>1. GInv /\ [Next]_vars => [Remembered]_vars
  <2> SUFFICES ASSUME GInv, Next, Unlocked, NEW d \in Node, NEW k \in Key,
                      node[d].children[k] # NoNode, node'[d].directory,
                      node'[d].children[k] = NoNode
               PROVE  k \in node'[d].tombstones
    OBVIOUS
  <2>1. PICK g, alive :
           /\ alive \subseteq Node /\ held' \subseteq alive
           /\ Effect(g, held', cursor')
           /\ alive = AliveIn(g, held', cursor')
           /\ \A m \in alive : /\ node'[m].directory = g[m].directory
                               /\ node'[m].linked = g[m].linked
                               /\ node'[m].children = g[m].children
                               /\ node'[m].tombstones = g[m].tombstones
                               /\ node'[m].dirtyPages = g[m].dirtyPages
                               /\ node'[m].parent =
                                     IF g[m].parent \in alive THEN g[m].parent ELSE NoNode
           /\ \A m \in Node \ alive : node'[m] = Unallocated
           /\ FromRoot(g) \subseteq FromRoot(node')
    BY StepEffect
  <2>2. d \in alive
    BY <2>1 DEF Unallocated
  <2> QED
    BY <2>1, <2>2 DEF Effect, Remembers
<1> QED
  BY <1>1, GroundedInvariant, PTL DEF Spec, DeletionRemembered

\* DeletedStaysDeleted: no step of an overlay brings a deleted name back or
\* forgets it.
THEOREM DeletedNeverReturns == Spec => DeletedStaysDeleted
<1> DEFINE Stays == ~Unlocked => \A d \in Node : \A k \in node[d].tombstones :
                       /\ node'[d].directory => k \in node'[d].tombstones
                       /\ node'[d].children[k] = NoNode
<1>1. GInv /\ [Next]_vars => [Stays]_vars
  <2> SUFFICES ASSUME GInv, Next, ~Unlocked, NEW d \in Node, NEW k \in node[d].tombstones
               PROVE  /\ node'[d].directory => k \in node'[d].tombstones
                      /\ node'[d].children[k] = NoNode
    OBVIOUS
  <2>1. PICK g, alive :
           /\ Effect(g, held', cursor')
           /\ \A m \in alive : /\ node'[m].children = g[m].children
                               /\ node'[m].tombstones = g[m].tombstones
           /\ \A m \in Node \ alive : node'[m] = Unallocated
    BY StepEffect
  <2>2. k \in g[d].tombstones /\ g[d].children[k] = NoNode
    BY <2>1 DEF Effect, Hides
  <2>3. CASE d \in alive
    BY <2>1, <2>2, <2>3
  <2>4. CASE d \notin alive
    <3>1. k \in Key
      BY TreeFields, InvariantFacts DEF GInv
    <3> QED
      BY <2>1, <2>4, <3>1 DEF Unallocated, NoChildren
  <2> QED
    BY <2>3, <2>4
<1> QED
  BY <1>1, GroundedInvariant, PTL DEF Spec, DeletedStaysDeleted

\* OpenFilesKeepPages: a step that changes a place in the tree, of whatever
\* node, leaves every file that stays open its kind and its dirty pages.
THEOREM OpenFilesAreKept == Spec => OpenFilesKeepPages
<1> DEFINE Replaced == \E n \in Node : node'[n].linked # node[n].linked \/ node'[n].parent # node[n].parent
           Kept == Replaced => \A n \in held \cap held' :
                                /\ node'[n].dirtyPages = node[n].dirtyPages
                                /\ node'[n].directory = node[n].directory
<1>1. GInv /\ [Next]_vars => [Kept]_vars
  <2> SUFFICES ASSUME GInv, Next, Replaced PROVE Kept
    OBVIOUS
  <2>1. PICK g, alive :
           /\ alive \subseteq Node /\ held' \subseteq alive
           /\ Effect(g, held', cursor') /\ alive = AliveIn(g, held', cursor')
           /\ \A m \in alive : /\ node'[m].directory = g[m].directory
                               /\ node'[m].dirtyPages = g[m].dirtyPages
                               /\ node'[m].linked = g[m].linked
                               /\ node'[m].parent =
                                     IF g[m].parent \in alive THEN g[m].parent ELSE NoNode
           /\ \A m \in Node \ alive : node'[m] = Unallocated
    BY StepEffect
  <2>2. held \subseteq Alive
    BY InvariantFacts, AliveProperties, Zenon DEF GInv, Alive
  <2>3. CASE KeepsFiles(node, g, Alive)
    BY <2>1, <2>2, <2>3 DEF KeepsFiles
  <2>4. CASE KeepsNames(node, g) /\ held' = held /\ cursor' = cursor
    <3>1. alive = Alive
      <4>1. \A m \in Node : g[m].children = node[m].children
        BY <2>4 DEF KeepsNames
      <4>2. ChildrenOf(g) = ChildrenOf(node)
        BY <4>1 DEF ChildrenOf
      <4> QED
        BY <2>1, <2>4, <4>2 DEF Alive, AliveIn
    <3>2. ASSUME NEW m \in Node
          PROVE  node'[m].linked = node[m].linked /\ node'[m].parent = node[m].parent
      <4>1. CASE m \notin alive
        BY <4>1, <2>1, <3>1, InvariantFacts DEF GInv
      <4>2. CASE m \in alive
        <5>1. node[m].parent # NoNode => node[m].parent \in Alive
          <6> SUFFICES ASSUME node[m].parent # NoNode, node[m].parent \notin Alive PROVE FALSE
            OBVIOUS
          <6>1. node[m].parent \in Node /\ WellFormed(node)
            BY TreeFields, InvariantFacts DEF GInv
          <6>2. node[node[m].parent] = Unallocated
            BY <6>1, InvariantFacts DEF GInv
          <6> QED
            BY <6>1, <6>2, NoParentUnallocated DEF Unallocated, NoChildren
        <5> QED
          BY <4>2, <5>1, <2>1, <2>4, <3>1 DEF KeepsNames
      <4> QED
        BY <4>1, <4>2
    <3> QED
      BY <3>2
  <2> QED
    BY <2>1, <2>3, <2>4 DEF Effect
<1> QED
  BY <1>1, GroundedInvariant, PTL DEF Spec, OpenFilesKeepPages

-----------------------------------------------------------------------------
(***************************************************************************)
(* Places: a node, and the keys that lead from it.                         *)
(***************************************************************************)
Place == Node \X Seq(Key)

\* A place is a pair of a root and the names on the way down from it.
LEMMA PlaceFields ==
  ASSUME NEW q \in Place
  PROVE  q[1] \in Node /\ q[2] \in Seq(Key) /\ q = <<q[1], q[2]>>
BY DEF Place

\* s and t, one after the other; not expanded, as the provers take it too far.
Join(s, t) == s \o t

\* Join is associative, and an Append to the end of the second is one to both.
LEMMA JoinFacts ==
  /\ \A s, t \in Seq(Key) : Join(s, t) \in Seq(Key) /\ Len(Join(s, t)) = Len(s) + Len(t)
  /\ \A s \in Seq(Key) : Join(s, <<>>) = s
  /\ \A s, t, u \in Seq(Key) : Join(Join(s, t), u) = Join(s, Join(t, u))
  /\ \A s, t \in Seq(Key), k \in Key : Append(Join(s, t), k) = Join(s, Append(t, k))
<1> SUFFICES ASSUME NEW s \in Seq(Key), NEW t \in Seq(Key)
             PROVE  /\ Join(s, t) \in Seq(Key)
                    /\ Len(Join(s, t)) = Len(s) + Len(t)
                    /\ Join(s, <<>>) = s
                    /\ \A u \in Seq(Key) : Join(Join(s, t), u) = Join(s, Join(t, u))
                    /\ \A k \in Key : Append(Join(s, t), k) = Join(s, Append(t, k))
  BY Zenon
<1>1. PICK v \in Seq(Key) : v = s \o t
  BY ConcatProperties, Zenon
<1>2. Len(v) = Len(s) + Len(t)
  BY <1>1, ConcatProperties
<1>3. s \o <<>> = s
  BY ConcatEmptySeq
<1>4. ASSUME NEW u \in Seq(Key) PROVE v \o u = s \o (t \o u)
  BY <1>1, ConcatAssociative
<1>5. ASSUME NEW k \in Key PROVE Append(v, k) = s \o Append(t, k)
  <2>1. PICK u \in Seq(Key) : u = <<k>>
    <3>1. <<k>> \in Seq(Key)
      OBVIOUS
    <3> QED
      BY <3>1, Zenon
  <2>2. v \o u = s \o (t \o u)
    BY <1>1, ConcatAssociative
  <2>3. Append(v, k) = v \o u
    BY <2>1, AppendIsConcat
  <2>4. Append(t, k) = t \o u
    BY <2>1, AppendIsConcat
  <2> QED
    BY <2>2, <2>3, <2>4
<1> QED
  BY <1>1, <1>2, <1>3, <1>4, <1>5, Zenon DEF Join

\* A sequence begins with another if it is that one and something more.
LEMMA PrefixMeans ==
  ASSUME NEW s \in Seq(Key), NEW t \in Seq(Key)
  PROVE  Names!IsPrefix(s, t) <=> \E u \in Seq(Key) : t = s \o u
<1> Len(s) \in Nat /\ Len(t) \in Nat
  BY LenProperties
<1>1. ASSUME Names!IsPrefix(s, t) PROVE \E u \in Seq(Key) : t = s \o u
  <2>1. Len(s) <= Len(t) /\ SubSeq(s, 1, Len(s)) = SubSeq(t, 1, Len(s))
    BY <1>1 DEF Names!IsPrefix
  <2>2. SubSeq(t, 1, Len(s)) = s
    BY <2>1, SubSeqFull
  <2> DEFINE u == SubSeq(t, Len(s) + 1, Len(t))
  <2>3. \A i \in 1 .. Len(t) : t[i] \in Key
    BY ElementOfSeq
  <2>4. /\ u \in Seq(Key) /\ Len(u) = Len(t) - Len(s)
        /\ \A i \in 1 .. Len(t) - Len(s) : u[i] = t[Len(s) + i]
    BY <2>1, <2>3, SubSeqProperties
  <2>5. /\ Len(SubSeq(t, 1, Len(s))) = Len(s)
        /\ \A i \in 1 .. Len(s) : SubSeq(t, 1, Len(s))[i] = t[i]
    <3>1. \A i \in 1 .. Len(s) : t[i] \in Key
      BY <2>1, <2>3
    <3> QED
      BY <3>1, SubSeqProperties
  <2> HIDE DEF u
  <2>6. /\ s \o u \in Seq(Key) /\ Len(s \o u) = Len(s) + Len(u)
        /\ \A i \in 1 .. Len(s) + Len(u) : (s \o u)[i] = IF i <= Len(s) THEN s[i] ELSE u[i - Len(s)]
    BY <2>4, ConcatProperties
  <2>7. \A i \in 1 .. Len(t) : t[i] = (s \o u)[i]
    BY <2>1, <2>2, <2>4, <2>5, <2>6, SMTT(30)
  <2>8. Len(t) = Len(s \o u)
    BY <2>1, <2>4, <2>6
  <2>9. t = s \o u
    BY <2>6, <2>7, <2>8, SeqEqual, Zenon
  <2> QED
    BY <2>4, <2>9
<1>2. ASSUME NEW u \in Seq(Key), t = s \o u PROVE Names!IsPrefix(s, t)
  <2>1. /\ Len(t) = Len(s) + Len(u) /\ Len(u) \in Nat
        /\ \A i \in 1 .. Len(s) + Len(u) : t[i] = IF i <= Len(s) THEN s[i] ELSE u[i - Len(s)]
    BY <1>2, ConcatProperties, LenProperties
  <2>2. \A i \in 1 .. Len(s) : t[i] \in Key /\ t[i] = s[i]
    BY <2>1, ElementOfSeq
  <2>3. /\ SubSeq(t, 1, Len(s)) \in Seq(Key)
        /\ Len(SubSeq(t, 1, Len(s))) = Len(s)
        /\ \A i \in 1 .. Len(s) : SubSeq(t, 1, Len(s))[i] = t[i]
    BY <2>2, SubSeqProperties
  <2>4. SubSeq(t, 1, Len(s)) = s
    BY <2>2, <2>3, SeqEqual
  <2>5. SubSeq(s, 1, Len(s)) = s
    BY SubSeqFull
  <2> QED
    BY <2>1, <2>4, <2>5 DEF Names!IsPrefix
<1> QED
  BY <1>1, <1>2, Zenon

\* A place is within another that it is something after.
LEMMA WithinMeans ==
  ASSUME NEW q \in Place, NEW p \in Place
  PROVE  Names!Within(q, p) <=> q[1] = p[1] /\ \E u \in Seq(Key) : q[2] = Join(p[2], u)
<1>1. p[2] \in Seq(Key) /\ q[2] \in Seq(Key)
  BY PlaceFields
<1>2. Names!IsPrefix(p[2], q[2]) <=> \E u \in Seq(Key) : q[2] = p[2] \o u
  BY <1>1, PrefixMeans, Zenon
<1> QED
  BY <1>2, Zenon DEF Names!Within, Join

\* What follows a place goes with it when it moves.
LEMMA MovedMeans ==
  ASSUME NEW q \in Place, NEW p \in Place, NEW r \in Place, NEW u \in Seq(Key),
         q[1] = p[1], q[2] = Join(p[2], u)
  PROVE  Names!Moved(q, p, r) = <<r[1], Join(r[2], u)>>
<1> DEFINE s == p[2]
           t == q[2]
           v == SubSeq(t, Len(s) + 1, Len(t))
<1>1. s \in Seq(Key) /\ t \in Seq(Key) /\ Len(s) \in Nat /\ Len(t) \in Nat /\ Len(u) \in Nat
  BY PlaceFields, LenProperties
<1>2. Names!Within(q, p)
  BY WithinMeans
<1>3. Names!Moved(q, p, r) = <<r[1], Join(r[2], v)>>
  BY <1>2, Zenon DEF Names!Moved, Join
<1>4. t = Join(s, u)
  OBVIOUS
<1> HIDE DEF s, t
<1>5. /\ Len(t) = Len(s) + Len(u)
      /\ \A i \in 1 .. Len(s) + Len(u) : t[i] = IF i <= Len(s) THEN s[i] ELSE u[i - Len(s)]
  BY <1>1, <1>4, ConcatProperties DEF Join
<1>6. \A i \in Len(s) + 1 .. Len(t) : t[i] \in Key
  BY <1>1, ElementOfSeq
<1>7. /\ v \in Seq(Key) /\ Len(v) = Len(u)
      /\ \A i \in 1 .. Len(u) : v[i] = t[Len(s) + i]
  BY <1>1, <1>5, <1>6, SubSeqProperties
<1> HIDE DEF v
<1>8. \A i \in 1 .. Len(v) : v[i] = u[i]
  <2> TAKE i \in 1 .. Len(v)
  <2>1. i \in 1 .. Len(u) /\ v[i] = t[Len(s) + i]
    BY <1>7
  <2>2. Len(s) + i \in 1 .. Len(s) + Len(u) /\ ~(Len(s) + i <= Len(s)) /\ Len(s) + i - Len(s) = i
    BY <1>1, <2>1
  <2> QED
    BY <1>5, <2>1, <2>2
<1>9. v = u
  BY <1>7, <1>8, SeqEqual
<1> QED
  BY <1>3, <1>9

\* What is inside a place.
LEMMA InsideFields ==
  ASSUME NEW q \in Place, NEW k \in Key
  PROVE  /\ Inside(q, k) \in Place
         /\ Inside(q, k)[1] = q[1] /\ Inside(q, k)[2] = Append(q[2], k)
         /\ Inside(q, k)[2] # <<>>
         /\ Names!Outer(Inside(q, k)) = q
         /\ Inside(q, k) # q
<1>1. q[1] \in Node /\ q[2] \in Seq(Key) /\ q = <<q[1], q[2]>>
  BY PlaceFields
<1> DEFINE a == Append(q[2], k)
<1>2. /\ a \in Seq(Key) /\ a # <<>> /\ Len(a) = Len(q[2]) + 1 /\ Len(q[2]) \in Nat
      /\ \A i \in 1 .. Len(q[2]) : a[i] = q[2][i]
  BY <1>1, AppendProperties, LenProperties
<1>3. Inside(q, k) = <<q[1], a>>
  BY DEF Inside
<1> HIDE DEF a
<1>4. Names!Front(a) = q[2]
  <2>1. \A i \in 1 .. Len(q[2]) : a[i] \in Key
    BY <1>2, ElementOfSeq
  <2>2. /\ SubSeq(a, 1, Len(q[2])) \in Seq(Key)
        /\ Len(SubSeq(a, 1, Len(q[2]))) = Len(q[2])
        /\ \A i \in 1 .. Len(q[2]) : SubSeq(a, 1, Len(q[2]))[i] = a[i]
    BY <1>2, <2>1, SubSeqProperties
  <2>3. SubSeq(a, 1, Len(q[2])) = q[2]
    BY <1>1, <1>2, <2>2, SeqEqual
  <2>4. Len(a) - 1 = Len(q[2])
    BY <1>2
  <2> QED
    BY <2>3, <2>4 DEF Names!Front
<1>5. Names!Outer(Inside(q, k)) = q
  BY <1>1, <1>3, <1>4 DEF Names!Outer
<1>6. a # q[2]
  BY <1>1, <1>2
<1>7. Inside(q, k) # q
  BY <1>1, <1>3, <1>6
<1>8. Inside(q, k) \in Place
  BY <1>1, <1>2, <1>3 DEF Place
<1>9. Inside(q, k)[1] = q[1] /\ Inside(q, k)[2] = a
  BY <1>3
<1> QED
  BY <1>2, <1>5, <1>7, <1>8, <1>9 DEF a

\* What is inside two directories, or has two names, is in two places.
LEMMA InsideInjective ==
  \A q, r \in Place, k, j \in Key : Inside(q, k) = Inside(r, j) => q = r /\ k = j
<1> SUFFICES ASSUME NEW q \in Place, NEW k \in Key, NEW r \in Place, NEW j \in Key,
                    Inside(q, k) = Inside(r, j)
             PROVE  q = r /\ k = j
  OBVIOUS
<1>1. q[1] = r[1] /\ Append(q[2], k) = Append(r[2], j)
  BY InsideFields, SMTT(30)
<1>2. q[2] \in Seq(Key) /\ r[2] \in Seq(Key)
  BY PlaceFields
<1>3. q[2] = r[2] /\ k = j
  BY <1>1, <1>2, AppendInjective
<1> QED
  BY <1>1, <1>3, PlaceFields

\* The place of what is in no directory.
LEMMA NowherePlace ==
  ASSUME NEW n \in Node
  PROVE  Names!Nowhere(n) \in Place /\ Names!Nowhere(n) = <<n, <<>>>>
BY EmptySeq, Zenon DEF Names!Nowhere, Place

\* A place is within itself.
LEMMA WithinSelf ==
  ASSUME NEW q \in Place
  PROVE  Names!Within(q, q)
<1>1. q[2] \in Seq(Key) /\ <<>> \in Seq(Key)
  BY PlaceFields, EmptySeq
<1>2. q[2] = Join(q[2], <<>>)
  BY <1>1, JoinFacts
<1> QED
  BY <1>1, <1>2, WithinMeans, Zenon

\* What is inside a place is within what that is within, and itself.
LEMMA WithinInside ==
  ASSUME NEW q \in Place, NEW k \in Key, NEW p \in Place
  PROVE  Names!Within(Inside(q, k), p) <=> Names!Within(q, p) \/ Inside(q, k) = p
<1> DEFINE r == Inside(q, k)
<1>1. r \in Place /\ r[1] = q[1] /\ r[2] = Append(q[2], k)
  BY InsideFields
<1> HIDE DEF r
<1>2. q[2] \in Seq(Key) /\ p[2] \in Seq(Key) /\ p = <<p[1], p[2]>> /\ r = <<r[1], r[2]>>
  BY <1>1, PlaceFields
<1>3. ASSUME Names!Within(q, p) PROVE Names!Within(r, p)
  <2>1. PICK u \in Seq(Key) : q[2] = Join(p[2], u)
    BY <1>3, WithinMeans
  <2>2. q[1] = p[1]
    BY <1>3, WithinMeans
  <2>3. Append(u, k) \in Seq(Key)
    BY AppendProperties
  <2>4. r[2] = Join(p[2], Append(u, k))
    <3>1. Append(Join(p[2], u), k) = Join(p[2], Append(u, k))
      BY <1>2, JoinFacts
    <3> QED
      BY <3>1, <1>1, <2>1
  <2> QED
    BY <1>1, <2>2, <2>3, <2>4, WithinMeans, Zenon
<1>4. ASSUME Names!Within(r, p), r # p PROVE Names!Within(q, p)
  <2>1. PICK u \in Seq(Key) : r[2] = Join(p[2], u)
    BY <1>1, <1>4, WithinMeans
  <2>2. r[1] = p[1]
    BY <1>1, <1>4, WithinMeans
  <2>3. u # <<>>
    BY <1>2, <1>4, <2>1, <2>2, JoinFacts, Zenon
  <2>4. PICK v \in Seq(Key), j \in Key : u = Append(v, j)
    BY <2>3, SequenceEmptyOrAppend
  <2>5. Join(p[2], v) \in Seq(Key) /\ r[2] = Append(Join(p[2], v), j)
    BY <1>2, <2>1, <2>4, JoinFacts, Zenon
  <2>6. q[2] = Join(p[2], v)
    <3>1. PICK w \in Seq(Key) : w = Join(p[2], v)
      BY <2>5
    <3>2. Append(q[2], k) = Append(w, j)
      BY <3>1, <1>1, <2>5
    <3>3. q[2] = w
      BY <3>2, <1>2, AppendInjective, SMTT(30)
    <3> QED
      BY <3>1, <3>3
  <2> QED
    BY <1>1, <2>2, <2>6, WithinMeans, Zenon
<1>5. r = p => Names!Within(r, p)
  BY <1>1, WithinSelf
<1> QED
  BY <1>3, <1>4, <1>5 DEF r

\* Nothing but a node that is nowhere is at its own place.
LEMMA WithinNowhere ==
  ASSUME NEW n \in Node, NEW p \in Place
  PROVE  Names!Within(Names!Nowhere(n), p) <=> p = Names!Nowhere(n)
<1>1. Names!Nowhere(n) \in Place /\ Names!Nowhere(n) = <<n, <<>>>>
  BY NowherePlace
<1>2. ASSUME Names!Within(Names!Nowhere(n), p) PROVE p = Names!Nowhere(n)
  <2>1. PICK u \in Seq(Key) : <<>> = Join(p[2], u)
    BY <1>1, <1>2, WithinMeans
  <2>2. p[2] \in Seq(Key) /\ p = <<p[1], p[2]>>
    BY PlaceFields
  <2>3. Len(<<>>) = Len(p[2]) + Len(u) /\ Len(p[2]) \in Nat /\ Len(u) \in Nat
    BY <2>1, <2>2, JoinFacts, LenProperties
  <2>4. p[2] = <<>>
    BY <2>2, <2>3, EmptySeq
  <2>5. p[1] = n
    BY <1>1, <1>2, WithinMeans
  <2> QED
    BY <2>2, <2>4, <2>5, <1>1
<1> QED
  BY <1>1, <1>2, WithinSelf

\* Within is an order.
LEMMA WithinTransitive ==
  ASSUME NEW q \in Place, NEW p \in Place, NEW r \in Place,
         Names!Within(q, p), Names!Within(p, r)
  PROVE  Names!Within(q, r)
<1>1. PICK u \in Seq(Key) : q[2] = Join(p[2], u)
  BY WithinMeans
<1>2. PICK v \in Seq(Key) : p[2] = Join(r[2], v)
  BY WithinMeans
<1>3. r[2] \in Seq(Key) /\ Join(v, u) \in Seq(Key)
  BY PlaceFields, JoinFacts
<1>4. q[2] = Join(r[2], Join(v, u))
  <2>1. Join(Join(r[2], v), u) = Join(r[2], Join(v, u))
    BY <1>3, JoinFacts, Zenon
  <2> QED
    BY <1>1, <1>2, <2>1
<1>5. q[1] = r[1]
  BY WithinMeans
<1> QED
  BY <1>3, <1>4, <1>5, WithinMeans

\* Two places that are each within the other are one place.
LEMMA WithinAntisymmetric ==
  ASSUME NEW q \in Place, NEW p \in Place, Names!Within(q, p), Names!Within(p, q)
  PROVE  q = p
<1>1. PICK u \in Seq(Key) : q[2] = Join(p[2], u)
  BY WithinMeans
<1>2. PICK v \in Seq(Key) : p[2] = Join(q[2], v)
  BY WithinMeans
<1>3. p[2] \in Seq(Key) /\ q[2] \in Seq(Key) /\ p = <<p[1], p[2]>> /\ q = <<q[1], q[2]>>
  BY PlaceFields
<1>4. /\ Len(q[2]) = Len(p[2]) + Len(u) /\ Len(p[2]) = Len(q[2]) + Len(v)
      /\ Len(p[2]) \in Nat /\ Len(q[2]) \in Nat /\ Len(u) \in Nat /\ Len(v) \in Nat
  BY <1>1, <1>2, <1>3, JoinFacts, LenProperties
<1>5. Len(u) = 0
  BY <1>4
<1>6. u = <<>>
  BY <1>5, EmptySeq
<1>7. q[2] = p[2]
  BY <1>1, <1>3, <1>6, JoinFacts
<1>8. q[1] = p[1]
  BY WithinMeans
<1> QED
  BY <1>3, <1>7, <1>8, Zenon

\* Where things are after a move.
LEMMA MovedPlace ==
  ASSUME NEW q \in Place, NEW p \in Place, NEW r \in Place
  PROVE  /\ Names!Moved(q, p, r) \in Place
         /\ ~Names!Within(q, p) => Names!Moved(q, p, r) = q
         /\ Names!Moved(p, p, r) = r
<1>1. ~Names!Within(q, p) => Names!Moved(q, p, r) = q
  BY DEF Names!Moved
<1>2. p[2] \in Seq(Key) /\ r[2] \in Seq(Key) /\ r[1] \in Node /\ <<>> \in Seq(Key) /\ r = <<r[1], r[2]>>
  BY PlaceFields, EmptySeq
<1>3. ASSUME NEW u \in Seq(Key), q[1] = p[1], q[2] = Join(p[2], u)
      PROVE  Names!Moved(q, p, r) \in Place
  <2>1. Names!Moved(q, p, r) = <<r[1], Join(r[2], u)>>
    BY <1>3, MovedMeans
  <2>2. Join(r[2], u) \in Seq(Key)
    BY <1>2, JoinFacts
  <2> QED
    BY <1>2, <2>1, <2>2 DEF Place
<1>4. Names!Moved(p, p, r) = r
  <2>1. p[2] = Join(p[2], <<>>) /\ r[2] = Join(r[2], <<>>)
    BY <1>2, JoinFacts, Zenon
  <2>2. Names!Moved(p, p, r) = <<r[1], Join(r[2], <<>>)>>
    BY <1>2, <2>1, MovedMeans, Zenon
  <2> QED
    BY <1>2, <2>1, <2>2
<1> QED
  BY <1>1, <1>3, <1>4, WithinMeans

\* What is inside something moves with it; only the thing that moves goes
\* elsewhere than what it is in.
LEMMA MovedInside ==
  ASSUME NEW q \in Place, NEW k \in Key, NEW p \in Place, NEW r \in Place, Inside(q, k) # p
  PROVE  Names!Moved(Inside(q, k), p, r) = Inside(Names!Moved(q, p, r), k)
<1> DEFINE i == Inside(q, k)
<1>1. i \in Place /\ i[1] = q[1] /\ i[2] = Append(q[2], k) /\ q[2] \in Seq(Key) /\ p[2] \in Seq(Key)
      /\ r[2] \in Seq(Key)
  BY InsideFields, PlaceFields
<1>2. Names!Within(i, p) <=> Names!Within(q, p)
  BY WithinInside
<1>3. CASE ~Names!Within(q, p)
  BY <1>1, <1>2, <1>3, MovedPlace
<1>4. CASE Names!Within(q, p)
  <2>1. PICK u \in Seq(Key) : q[2] = Join(p[2], u)
    BY <1>4, WithinMeans
  <2>2. q[1] = p[1]
    BY <1>4, WithinMeans
  <2>3. PICK v \in Seq(Key) : v = Append(u, k)
    BY AppendProperties, Zenon
  <2> HIDE DEF i
  <2>4. i[2] = Join(p[2], v) /\ i[1] = p[1]
    <3>1. Append(Join(p[2], u), k) = Join(p[2], Append(u, k))
      BY <1>1, JoinFacts, Zenon
    <3> QED
      BY <3>1, <1>1, <2>1, <2>2, <2>3
  <2>5. Names!Moved(i, p, r) = <<r[1], Join(r[2], v)>>
    BY <1>1, <2>4, MovedMeans
  <2>6. Names!Moved(q, p, r) = <<r[1], Join(r[2], u)>>
    BY <2>1, <2>2, MovedMeans
  <2>7. Join(r[2], v) = Append(Join(r[2], u), k)
    <3>1. Append(Join(r[2], u), k) = Join(r[2], Append(u, k))
      BY <1>1, JoinFacts, Zenon
    <3> QED
      BY <3>1, <2>3
  <2>8. Inside(Names!Moved(q, p, r), k) = <<r[1], Append(Join(r[2], u), k)>>
    BY <2>6 DEF Inside
  <2> QED
    BY <2>5, <2>7, <2>8 DEF i
<1> QED
  BY <1>3, <1>4

-----------------------------------------------------------------------------
(***************************************************************************)
(* The places of a tree.  They are what parents and names say, whichever   *)
(* way they are computed.                                                  *)
(***************************************************************************)
Sound(f) == WellFormed(f) /\ Grounded(f)

\* The nodes of D, which is closed under parents and children, have places w.
Placed(f, D, w) ==
    /\ D \in SUBSET Node
    /\ w \in [D -> Place]
    /\ \A n \in D :
          IF f[n].parent = NoNode THEN w[n] = Names!Nowhere(n)
          ELSE f[n].parent \in D /\ w[n] = Inside(w[f[n].parent], Fold[f[n].name])
    /\ \A n \in D, k \in Key : f[n].children[k] # NoNode => f[n].children[k] \in D

\* A node that has a parent is where the parent's children say.
LEMMA ParentPlace ==
  ASSUME NEW f, Sound(f), NEW D, NEW w, Placed(f, D, w), NEW n \in D, f[n].parent # NoNode
  PROVE  /\ f[n].parent \in D /\ f[n].parent \in Node /\ f[n].parent # n
         /\ f[n].name \in Spelling /\ Fold[f[n].name] \in Key
         /\ w[f[n].parent] \in Place
         /\ w[n] = Inside(w[f[n].parent], Fold[f[n].name])
         /\ f[f[n].parent].children[Fold[f[n].name]] = n
         /\ f[f[n].parent].directory
<1>1. n \in Node /\ f \in Tree
  BY DEF Placed, Sound, WellFormed
<1>2. InPlace(f, n)
  BY <1>1 DEF Sound, WellFormed
<1>3. f[n].name \in Spelling /\ f[n].parent \in Node
  BY <1>1, <1>2, TreeFields DEF InPlace
<1>4. Fold[f[n].name] \in Key
  BY <1>3, NodeTypes
<1>5. f[f[n].parent].children[Fold[f[n].name]] = n
  BY <1>2 DEF InPlace
<1>6. f[f[n].parent].directory
  <2>1. SlotAgrees(f, f[n].parent, Fold[f[n].name])
    BY <1>3, <1>4 DEF Sound, WellFormed
  <2> QED
    BY <2>1, <1>1, <1>5, NodeAssumption DEF SlotAgrees
<1>7. f[n].parent \in D /\ w[n] = Inside(w[f[n].parent], Fold[f[n].name])
  BY DEF Placed
<1>8. w[f[n].parent] \in Place
  BY <1>7 DEF Placed
<1> QED
  BY <1>2, <1>3, <1>4, <1>5, <1>6, <1>7, <1>8 DEF InPlace

\* Every child has its directory for its parent.
LEMMA ChildPlace ==
  ASSUME NEW f, Sound(f), NEW D, NEW w, Placed(f, D, w), NEW d \in D, NEW k \in Key,
         f[d].children[k] # NoNode
  PROVE  LET m == f[d].children[k]
         IN  /\ m \in D /\ m \in Node /\ f[m].parent = d /\ f[m].linked /\ f[d].directory
             /\ Fold[f[m].name] = k /\ w[m] = Inside(w[d], k) /\ w[d] \in Place
<1> DEFINE m == f[d].children[k]
<1>1. d \in Node /\ m \in D /\ m \in Node
  BY DEF Placed
<1>2. SlotAgrees(f, d, k)
  BY <1>1 DEF Sound, WellFormed
<1>3. f[m].parent = d /\ Fold[f[m].name] = k /\ f[m].linked /\ f[d].directory
  BY <1>2 DEF SlotAgrees
<1>4. f[m].parent # NoNode
  BY <1>1, <1>3, NodeAssumption
<1>5. w[m] = Inside(w[d], k)
  BY <1>1, <1>3, <1>4 DEF Placed
<1>6. w[d] \in Place
  BY DEF Placed
<1> QED
  BY <1>1, <1>3, <1>5, <1>6

\* No two nodes have the same place.
LEMMA PlacesDiffer ==
  ASSUME NEW f, Sound(f), NEW D, NEW w, Placed(f, D, w)
  PROVE  \A n, m \in D : w[n] = w[m] => n = m
<1> DEFINE S == {n \in D : \E m \in D : w[n] = w[m] /\ n # m}
<1> SUFFICES ASSUME S # {} PROVE FALSE
  OBVIOUS
<1>1. S \in SUBSET Node
  BY DEF Placed
<1>2. PICK n \in S : f[n].parent \notin S
  BY <1>1, Zenon DEF Sound, Grounded
<1>3. PICK m \in D : w[n] = w[m] /\ n # m /\ n \in D
  OBVIOUS
<1>4. w[n] \in Place /\ w[m] \in Place /\ n \in Node /\ m \in Node
  BY <1>3 DEF Placed
<1>5. CASE f[n].parent = NoNode
  <2>1. w[n] = <<n, <<>>>>
    BY <1>3, <1>4, <1>5, NowherePlace DEF Placed
  <2>2. CASE f[m].parent = NoNode
    BY <2>1, <2>2, <1>3, <1>4, NowherePlace DEF Placed
  <2>3. CASE f[m].parent # NoNode
    <3>1. w[m][2] # <<>>
      BY <2>3, ParentPlace, InsideFields
    <3> QED
      BY <3>1, <2>1, <1>3
  <2> QED
    BY <2>2, <2>3
<1>6. CASE f[n].parent # NoNode
  <2>1. /\ f[n].parent \in D /\ Fold[f[n].name] \in Key /\ w[f[n].parent] \in Place
        /\ w[n] = Inside(w[f[n].parent], Fold[f[n].name])
        /\ f[f[n].parent].children[Fold[f[n].name]] = n
    BY <1>3, <1>6, ParentPlace
  <2>2. f[m].parent # NoNode
    <3> SUFFICES ASSUME f[m].parent = NoNode PROVE FALSE
      OBVIOUS
    <3>1. w[m] = <<m, <<>>>>
      BY <1>4, NowherePlace DEF Placed
    <3>2. w[n][2] # <<>>
      BY <2>1, InsideFields
    <3> QED
      BY <3>1, <3>2, <1>3
  <2>3. /\ f[m].parent \in D /\ Fold[f[m].name] \in Key /\ w[f[m].parent] \in Place
        /\ w[m] = Inside(w[f[m].parent], Fold[f[m].name])
        /\ f[f[m].parent].children[Fold[f[m].name]] = m
    BY <2>2, ParentPlace
  <2>4. w[f[n].parent] = w[f[m].parent] /\ Fold[f[n].name] = Fold[f[m].name]
    <3>1. Inside(w[f[n].parent], Fold[f[n].name]) = Inside(w[f[m].parent], Fold[f[m].name])
      BY <2>1, <2>3, <1>3
    <3> QED
      BY <3>1, <2>1, <2>3, InsideInjective
  <2>5. f[n].parent = f[m].parent
    BY <2>1, <2>3, <2>4, <1>2
  <2> QED
    BY <2>1, <2>3, <2>4, <2>5, <1>3
<1> QED
  BY <1>5, <1>6

\* There is one way only to place the nodes.
LEMMA PlacesUnique ==
  ASSUME NEW f, Sound(f), NEW D, NEW w, Placed(f, D, w), NEW v, Placed(f, D, v)
  PROVE  w = v
<1> DEFINE S == {n \in D : w[n] # v[n]}
<1>1. S = {}
  <2> SUFFICES ASSUME S # {} PROVE FALSE
    OBVIOUS
  <2>1. S \in SUBSET Node
    BY DEF Placed
  <2>2. PICK n \in S : f[n].parent \notin S
    BY <2>1, Zenon DEF Sound, Grounded
  <2>3. n \in D /\ w[n] # v[n]
    OBVIOUS
  <2>4. CASE f[n].parent = NoNode
    BY <2>3, <2>4 DEF Placed
  <2>5. CASE f[n].parent # NoNode
    <3>1. f[n].parent \in D /\ w[n] = Inside(w[f[n].parent], Fold[f[n].name])
      BY <2>3, <2>5, ParentPlace
    <3>2. v[n] = Inside(v[f[n].parent], Fold[f[n].name])
      BY <2>3, <2>5, ParentPlace
    <3>3. w[f[n].parent] = v[f[n].parent]
      BY <3>1, <2>2
    <3> QED
      BY <3>1, <3>2, <3>3, <2>3
  <2> QED
    BY <2>4, <2>5
<1>2. w \in [D -> Place] /\ v \in [D -> Place]
  BY DEF Placed
<1>3. \A n \in D : w[n] = v[n]
  BY <1>1
<1> QED
  BY <1>2, <1>3

\* A node is within another if it is that or its parent is within it.
LEMMA WithinParent ==
  ASSUME NEW f, Sound(f), NEW D, NEW w, Placed(f, D, w), NEW n \in D, NEW a \in D
  PROVE  /\ w[n] \in Place /\ w[a] \in Place
         /\ Names!Within(w[n], w[a]) <=>
               n = a \/ (f[n].parent # NoNode /\ Names!Within(w[f[n].parent], w[a]))
<1>1. w[n] \in Place /\ w[a] \in Place /\ n \in Node
  BY DEF Placed
<1>2. w[n] = w[a] <=> n = a
  BY PlacesDiffer
<1>3. CASE f[n].parent = NoNode
  <2>1. w[n] = Names!Nowhere(n)
    BY <1>3 DEF Placed
  <2> QED
    BY <2>1, <1>1, <1>2, <1>3, WithinNowhere
<1>4. CASE f[n].parent # NoNode
  <2>1. /\ Fold[f[n].name] \in Key /\ w[f[n].parent] \in Place
        /\ w[n] = Inside(w[f[n].parent], Fold[f[n].name])
    BY <1>4, ParentPlace
  <2> QED
    BY <2>1, <1>1, <1>2, <1>4, WithinInside
<1> QED
  BY <1>1, <1>3, <1>4

\* Nothing is within a node without children but itself.
LEMMA NothingWithin ==
  ASSUME NEW f, Sound(f), NEW D, NEW w, Placed(f, D, w), NEW t \in D,
         \A k \in Key : f[t].children[k] = NoNode
  PROVE  \A m \in D \ {t} : ~Names!Within(w[m], w[t])
<1> DEFINE S == {m \in D \ {t} : Names!Within(w[m], w[t])}
<1> SUFFICES ASSUME S # {} PROVE FALSE
  OBVIOUS
<1>1. S \in SUBSET Node
  BY DEF Placed
<1>2. PICK m \in S : f[m].parent \notin S
  BY <1>1, Zenon DEF Sound, Grounded
<1>3. m \in D /\ m # t /\ f[m].parent # NoNode /\ Names!Within(w[f[m].parent], w[t])
  BY WithinParent
<1>4. f[m].parent \in D /\ Fold[f[m].name] \in Key /\ f[f[m].parent].children[Fold[f[m].name]] = m
  BY <1>3, ParentPlace
<1>5. f[m].parent = t
  BY <1>2, <1>3, <1>4
<1> QED
  BY <1>3, <1>4, <1>5, NodeAssumption DEF Placed

\* What is at a place inside a directory is its child there.
LEMMA AtSlot ==
  ASSUME NEW f, Sound(f), NEW D, NEW w, Placed(f, D, w), NEW d \in D, NEW k \in Key, NEW m \in D
  PROVE  w[m] = Inside(w[d], k) <=> f[d].children[k] = m
<1>1. m \in Node /\ w[d] \in Place /\ m # NoNode
  BY NodeAssumption DEF Placed
<1>2. f[d].children[k] = m => w[m] = Inside(w[d], k)
  BY <1>1, ChildPlace
<1>3. ASSUME w[m] = Inside(w[d], k) PROVE f[d].children[k] = m
  <2>1. w[m][2] # <<>>
    BY <1>1, <1>3, InsideFields
  <2>2. f[m].parent # NoNode
    BY <2>1, <1>1, NowherePlace DEF Placed
  <2>3. /\ f[m].parent \in D /\ Fold[f[m].name] \in Key /\ w[f[m].parent] \in Place
        /\ w[m] = Inside(w[f[m].parent], Fold[f[m].name])
        /\ f[f[m].parent].children[Fold[f[m].name]] = m
    BY <2>2, ParentPlace
  <2>4. w[f[m].parent] = w[d] /\ Fold[f[m].name] = k
    <3>1. Inside(w[d], k) = Inside(w[f[m].parent], Fold[f[m].name])
      BY <2>3, <1>3
    <3> QED
      BY <3>1, <2>3, <1>1, InsideInjective
  <2>5. f[m].parent = d
    BY <2>3, <2>4, PlacesDiffer
  <2> QED
    BY <2>3, <2>4, <2>5
<1> QED
  BY <1>2, <1>3

\* The walk up from a node meets all that it is within.
LEMMA WithinIsAbove ==
  ASSUME NEW f, Sound(f), NEW D, NEW w, Placed(f, D, w), NEW p \in D, NEW n \in D,
         Names!Within(w[p], w[n])
  PROVE  n \in Closure(ParentsOf(f), {p})
<1> DEFINE C == Closure(ParentsOf(f), {p})
           S == {m \in C \cap D : Names!Within(w[m], w[n])}
<1>1. p \in Node /\ S \in SUBSET Node /\ f \in Tree
  BY DEF Placed, Sound, WellFormed
<1>2. p \in C
  BY <1>1, ClosureStart
<1>3. PICK m \in S : f[m].parent \notin S
  BY <1>1, <1>2, Zenon DEF Sound, Grounded
<1>4. m \in C /\ m \in D /\ m \in Node /\ Names!Within(w[m], w[n])
  BY <1>1
<1>5. f[m].parent # NoNode => f[m].parent \in C
  <2>1. ParentsOf(f) \in [Node -> SUBSET Node]
    BY <1>1, TreeFields DEF ParentsOf
  <2>2. ParentsOf(f)[m] \subseteq C
    BY <2>1, <1>4, ClosureClosed
  <2>3. f[m].parent # NoNode => f[m].parent \in ParentsOf(f)[m]
    BY <1>4 DEF ParentsOf
  <2> QED
    BY <2>2, <2>3
<1> HIDE DEF C
<1>6. m = n \/ (f[m].parent # NoNode /\ Names!Within(w[f[m].parent], w[n]))
  BY <1>4, WithinParent
<1>7. f[m].parent # NoNode => f[m].parent \in D
  BY <1>4, ParentPlace
<1> QED
  BY <1>3, <1>4, <1>5, <1>6, <1>7 DEF C

-----------------------------------------------------------------------------
(***************************************************************************)
(* PlaceOf computes the places: no walk up is longer than there are nodes. *)
(***************************************************************************)
Last == Cardinality(Node)

Step(q) ==
    IF node[q[1]].parent = NoNode THEN q
    ELSE <<node[q[1]].parent, <<Fold[node[q[1]].name]>> \o q[2]>>

\* at is the walk of PlaceOf from n.
Climbs(at, n) ==
    /\ at \in [0 .. Last -> Place]
    /\ at[0] = Names!Nowhere(n)
    /\ \A i \in 1 .. Last : at[i] = Step(at[i - 1])

\* There is a node at least, and there are finitely many.
LEMMA NodeCount == Last \in Nat /\ Last # 0
<1>1. Last \in Nat
  BY NodeAssumption, FS_CardinalityType DEF Last
<1>2. Last # 0
  BY NodeAssumption, FS_EmptySet DEF Last
<1> QED
  BY <1>1, <1>2

\* A step of the walk goes to the parent, whose key comes before the others.
LEMMA StepMeans ==
  ASSUME Sound(node), NEW q \in Place
  PROVE  /\ Step(q) \in Place
         /\ node[q[1]].parent = NoNode => Step(q) = q
         /\ node[q[1]].parent # NoNode => Step(q)[1] = node[q[1]].parent
         /\ \A k \in Key : Step(Inside(q, k)) = Inside(Step(q), k)
<1>1. q[1] \in Node /\ q[2] \in Seq(Key)
  BY PlaceFields
<1>2. CASE node[q[1]].parent = NoNode
  <2>1. \A k \in Key : Inside(q, k)[1] = q[1]
    BY InsideFields
  <2> QED
    BY <1>2, <2>1 DEF Step
<1>3. CASE node[q[1]].parent # NoNode
  <2> DEFINE p == node[q[1]].parent
             j == Fold[node[q[1]].name]
  <2>1. InPlace(node, q[1]) /\ node \in Tree
    BY <1>1 DEF Sound, WellFormed
  <2>2. p \in Node /\ node[q[1]].name \in Spelling
    BY <1>1, <1>3, <2>1, TreeFields DEF InPlace
  <2>3. j \in Key
    BY <2>2, NodeTypes
  <2>4. PICK u \in Seq(Key) : u = <<j>>
    <3>1. <<j>> \in Seq(Key)
      BY <2>3
    <3> QED
      BY <3>1, Zenon
  <2> HIDE DEF p, j
  <2>5. Step(q) = <<p, Join(u, q[2])>>
    BY <1>3, <2>4 DEF Step, Join, p, j
  <2>6. Join(u, q[2]) \in Seq(Key)
    BY <1>1, JoinFacts, Zenon
  <2>7. ASSUME NEW k \in Key PROVE Step(Inside(q, k)) = Inside(Step(q), k)
    <3>1. Inside(q, k)[1] = q[1] /\ Inside(q, k)[2] = Append(q[2], k)
      BY InsideFields
    <3>2. Step(Inside(q, k)) = <<p, Join(u, Append(q[2], k))>>
      BY <1>3, <2>4, <3>1, Zenon DEF Step, Join, p, j
    <3>3. Join(u, Append(q[2], k)) = Append(Join(u, q[2]), k)
      BY <1>1, JoinFacts, Zenon
    <3>4. Inside(Step(q), k) = <<p, Append(Join(u, q[2]), k)>>
      BY <2>5 DEF Inside
    <3> QED
      BY <3>2, <3>3, <3>4
  <2> QED
    <3>1. p \in Node
      BY <2>2 DEF p
    <3>2. Step(q) \in Place /\ Step(q)[1] = p
      BY <2>5, <2>6, <3>1 DEF Place
    <3> QED
      BY <1>3, <2>7, <3>2 DEF p
<1> QED
  BY <1>2, <1>3

\* The climb by which PlaceOf finds the place of a node.
LEMMA ClimbExists ==
  ASSUME Sound(node), NEW n \in Node
  PROVE  \E at : Climbs(at, n) /\ PlaceOf(n) = at[Last]
<1> DEFINE step == [i \in 1 .. Last |-> [q \in Place |-> Step(q)]]
           Walk(at) == at = [i \in 0 .. Last |-> IF i = 0 THEN <<n, <<>>>> ELSE Step(at[i - 1])]
           walk == CHOOSE at : Walk(at)
<1>1. <<n, <<>>>> \in Place /\ Last \in Nat /\ Names!Nowhere(n) = <<n, <<>>>>
  BY NowherePlace, NodeCount
<1>2. \A q \in Place : Step(q) \in Place
  BY StepMeans
<1>3. step \in [1 .. Last -> [Place -> Place]]
  BY <1>2
<1>4. PICK g \in [0 .. Last -> Place] : Iterates(g, <<n, <<>>>>, step, Last)
  <2> HIDE DEF step
  <2> QED
    BY <1>1, <1>3, IterationExists
<1>5. ASSUME NEW i \in 0 .. Last
      PROVE  g[i] = IF i = 0 THEN <<n, <<>>>> ELSE Step(g[i - 1])
  <2>1. g[i] = IF i = 0 THEN <<n, <<>>>> ELSE step[i][g[i - 1]]
    <3> HIDE DEF step
    <3> QED
      BY <1>4, Zenon DEF Iterates
  <2>2. i # 0 => i \in 1 .. Last /\ i - 1 \in 0 .. Last
    BY <1>1
  <2>3. i # 0 => g[i - 1] \in Place
    BY <2>2
  <2> QED
    BY <2>1, <2>2, <2>3
<1>6. Walk(g)
  <2> HIDE DEF step
  <2> QED
    BY <1>5
<1>7. Walk(walk)
  <2> HIDE DEF Walk
  <2> QED
    BY <1>6
<1>8. PlaceOf(n) = walk[Last]
  BY DEF PlaceOf, Step, Last
<1>9. walk = g
  <2> SUFFICES ASSUME walk # g PROVE FALSE
    OBVIOUS
  <2> DEFINE bad == {i \in 0 .. Last : walk[i] # g[i]}
  <2>1. bad # {}
    <3>1. walk = [i \in 0 .. Last |-> walk[i]]
      BY <1>7, Zenon
    <3>2. g = [i \in 0 .. Last |-> g[i]]
      OBVIOUS
    <3> HIDE DEF walk
    <3> QED
      BY <3>1, <3>2
  <2>2. PICK i \in bad : \A m \in bad : i <= m
    <3>1. bad \in SUBSET Nat
      BY <1>1
    <3> HIDE DEF bad
    <3> QED
      BY <2>1, <3>1, NatLeast
  <2>3. walk[i] = IF i = 0 THEN <<n, <<>>>> ELSE Step(walk[i - 1])
    <3> HIDE DEF walk
    <3> QED
      BY <1>7, Zenon
  <2>4. g[i] = IF i = 0 THEN <<n, <<>>>> ELSE Step(g[i - 1])
    BY <1>5
  <2> HIDE DEF walk
  <2>5. i # 0
    BY <2>3, <2>4
  <2>6. i - 1 \in 0 .. Last /\ i - 1 \notin bad
    <3>1. i - 1 \in 0 .. Last /\ ~(i <= i - 1)
      BY <1>1, <2>5
    <3> HIDE DEF bad
    <3> QED
      BY <3>1, <2>2
  <2>7. walk[i - 1] = g[i - 1]
    BY <2>6
  <2> QED
    BY <2>3, <2>4, <2>7
<1>10. Climbs(g, n)
  BY <1>1, <1>5 DEF Climbs
<1> QED
  BY <1>8, <1>9, <1>10, Zenon

\* A walk has reached the top before it has taken as many steps as there are
\* nodes, as it would visit more otherwise.
LEMMA ClimbEnds ==
  ASSUME Sound(node), NEW n \in Node, NEW at, Climbs(at, n)
  PROVE  node[at[Last - 1][1]].parent = NoNode
<1> DEFINE x == [i \in 0 .. Last |-> at[i][1]]
           S == [i \in 0 .. Last |-> {x[j] : j \in 0 .. i}]
<1> SUFFICES ASSUME node[x[Last - 1]].parent # NoNode PROVE FALSE
  <2>1. Last - 1 \in 0 .. Last
    BY NodeCount
  <2>2. x[Last - 1] = at[Last - 1][1]
    BY <2>1
  <2> HIDE DEF x
  <2> QED
    BY <2>2
<1>1. \A i \in 0 .. Last : x[i] \in Node
  <2>1. \A i \in 0 .. Last : at[i] \in Place
    BY DEF Climbs
  <2> QED
    BY <2>1, PlaceFields
<1>2. \A i \in 1 .. Last : i \in Nat /\ i - 1 \in 0 .. Last
  BY NodeCount
<1>3. \A i \in 1 .. Last :
         /\ node[x[i - 1]].parent = NoNode => x[i] = x[i - 1]
         /\ node[x[i - 1]].parent # NoNode => x[i] = node[x[i - 1]].parent
  <2> TAKE i \in 1 .. Last
  <2>1. at[i] = Step(at[i - 1]) /\ at[i - 1] \in Place
    BY <1>2 DEF Climbs
  <2>2. x[i] = at[i][1] /\ x[i - 1] = at[i - 1][1]
    BY <1>2
  <2> HIDE DEF x
  <2> QED
    BY <2>1, <2>2, StepMeans
<1> HIDE DEF x
<1>4. \A i \in 0 .. Last - 1 : node[x[i]].parent # NoNode
  <2> SUFFICES ASSUME NEW i \in 0 .. Last - 1, node[x[i]].parent = NoNode PROVE FALSE
    OBVIOUS
  <2> DEFINE T == {j \in i .. Last - 1 : node[x[j]].parent # NoNode}
  <2>1. T \in SUBSET Nat /\ T # {}
    BY NodeCount
  <2>2. PICK j \in T : \A m \in T : j <= m
    <3> HIDE DEF T
    <3> QED
      BY <2>1, NatLeast
  <2>3. j \in i .. Last - 1 /\ node[x[j]].parent # NoNode /\ j # i
    OBVIOUS
  <2>4. j \in 1 .. Last /\ j - 1 \in i .. Last - 1 /\ ~(j <= j - 1)
    BY <2>3, NodeCount
  <2>5. j - 1 \notin T
    <3> HIDE DEF T
    <3> QED
      BY <2>2, <2>4
  <2>6. node[x[j - 1]].parent = NoNode
    BY <2>4, <2>5
  <2> QED
    BY <2>3, <2>4, <2>6, <1>3
<1>5. \A i \in 1 .. Last : x[i] = node[x[i - 1]].parent /\ x[i] \notin S[i - 1]
  <2> TAKE i \in 1 .. Last
  <2>1. i - 1 \in 0 .. Last - 1 /\ i - 1 \in 0 .. Last
    BY NodeCount
  <2>2. x[i] = node[x[i - 1]].parent
    BY <2>1, <1>3, <1>4
  <2>3. S[i - 1] = {x[j] : j \in 0 .. i - 1}
    BY <2>1
  <2>4. S[i - 1] \in SUBSET Node /\ S[i - 1] # {}
    <3>1. \A j \in 0 .. i - 1 : j \in 0 .. Last
      BY NodeCount
    <3>2. 0 \in 0 .. i - 1
      BY NodeCount
    <3> QED
      BY <3>1, <3>2, <2>3, <1>1, Zenon
  <2>5. PICK y \in S[i - 1] : node[y].parent \notin S[i - 1]
    BY <2>4, Zenon DEF Sound, Grounded
  <2>6. PICK j \in 0 .. i - 1 : y = x[j]
    BY <2>3, <2>5
  <2>7. j = i - 1
    <3> SUFFICES ASSUME j # i - 1 PROVE FALSE
      OBVIOUS
    <3>1. j + 1 \in 1 .. Last /\ j + 1 \in 0 .. i - 1 /\ (j + 1) - 1 = j /\ j \in 0 .. Last - 1
      BY <2>1, <2>6, NodeCount
    <3>2. x[j + 1] = node[x[j]].parent
      BY <3>1, <1>3, <1>4
    <3>3. x[j + 1] \in S[i - 1]
      BY <2>3, <3>1
    <3> QED
      BY <3>2, <3>3, <2>5, <2>6
  <2> QED
    BY <2>2, <2>5, <2>6, <2>7
<1>6. \A i \in 0 .. Last - 1 : IsFiniteSet(S[i]) /\ Cardinality(S[i]) = i + 1
  <2> DEFINE bad == {i \in 0 .. Last - 1 : ~(IsFiniteSet(S[i]) /\ Cardinality(S[i]) = i + 1)}
  <2> SUFFICES ASSUME bad # {} PROVE FALSE
    BY Zenon
  <2>1. PICK i \in bad : \A m \in bad : i <= m
    <3>1. bad \in SUBSET Nat
      BY NodeCount
    <3> HIDE DEF bad
    <3> QED
      BY <3>1, NatLeast
  <2>2. i \in 0 .. Last - 1 /\ i \in 0 .. Last /\ ~(IsFiniteSet(S[i]) /\ Cardinality(S[i]) = i + 1)
    BY NodeCount
  <2>3. S[i] = {x[j] : j \in 0 .. i}
    BY <2>2
  <2>4. CASE i = 0
    <3>1. S[i] = {x[0]}
      BY <2>3, <2>4
    <3>2. IsFiniteSet({x[0]}) /\ Cardinality({x[0]}) = 1
      BY FS_Singleton, Zenon
    <3> QED
      BY <3>1, <3>2, <2>2, <2>4
  <2>5. CASE i # 0
    <3>1. i \in 1 .. Last /\ i - 1 \in 0 .. Last - 1 /\ i - 1 \in 0 .. Last /\ ~(i <= i - 1)
      BY <2>2, <2>5, NodeCount
    <3>2. S[i - 1] = {x[j] : j \in 0 .. i - 1}
      BY <3>1
    <3>3. S[i] = S[i - 1] \cup {x[i]}
      <4>1. 0 .. i = (0 .. i - 1) \cup {i}
        BY <3>1
      <4> QED
        BY <4>1, <2>3, <3>2
    <3>4. i - 1 \notin bad
      <4> HIDE DEF bad
      <4> QED
        BY <3>1, <2>1
    <3>5. IsFiniteSet(S[i - 1]) /\ Cardinality(S[i - 1]) = i
      BY <3>1, <3>4
    <3>6. x[i] \notin S[i - 1]
      BY <3>1, <1>5, Zenon
    <3> HIDE DEF S, bad
    <3>7. IsFiniteSet(S[i]) /\ Cardinality(S[i]) = i + 1
      <4>1. /\ IsFiniteSet(S[i - 1] \cup {x[i]})
            /\ Cardinality(S[i - 1] \cup {x[i]}) = Cardinality(S[i - 1]) + 1
        BY <3>5, <3>6, FS_AddElement, Zenon
      <4> QED
        BY <4>1, <3>3, <3>5
    <3> QED
      BY <3>7, <2>2
  <2> QED
    BY <2>4, <2>5
<1>7. Last - 1 \in 0 .. Last - 1 /\ Last \in 1 .. Last /\ Last - 1 \in 0 .. Last /\ (Last - 1) + 1 = Last
  BY NodeCount
<1>8. S[Last - 1] \in SUBSET Node
  <2>1. S[Last - 1] = {x[j] : j \in 0 .. Last - 1}
    BY <1>7
  <2>2. \A j \in 0 .. Last - 1 : j \in 0 .. Last
    BY NodeCount
  <2> QED
    BY <2>1, <2>2, <1>1
<1>9. Cardinality(S[Last - 1]) = Last
  BY <1>6, <1>7, Zenon
<1> HIDE DEF S
<1>10. x[Last] \notin S[Last - 1] /\ x[Last] \in Node
  BY <1>1, <1>5, <1>7
<1>11. S[Last - 1] = Node
  BY <1>8, <1>9, NodeAssumption, FS_Subset DEF Last
<1> QED
  BY <1>10, <1>11

\* The place of a node is in its parent's.
LEMMA PlaceOfMeans ==
  ASSUME Sound(node), NEW n \in Node
  PROVE  /\ PlaceOf(n) \in Place
         /\ node[n].parent = NoNode => PlaceOf(n) = Names!Nowhere(n)
         /\ node[n].parent # NoNode =>
               PlaceOf(n) = Inside(PlaceOf(node[n].parent), Fold[node[n].name])
<1>1. PICK at : Climbs(at, n) /\ PlaceOf(n) = at[Last]
  BY ClimbExists
<1>2. Last \in Nat /\ Last \in 0 .. Last /\ Last - 1 \in 0 .. Last /\ Last \in 1 .. Last
  BY NodeCount
<1>3. PlaceOf(n) \in Place
  BY <1>1, <1>2 DEF Climbs
<1>4. Names!Nowhere(n)[1] = n
  BY NowherePlace
<1>5. ASSUME node[n].parent = NoNode PROVE PlaceOf(n) = Names!Nowhere(n)
  <2> DEFINE bad == {i \in 0 .. Last : at[i] # Names!Nowhere(n)}
  <2>1. bad = {}
    <3> SUFFICES ASSUME bad # {} PROVE FALSE
      OBVIOUS
    <3>1. PICK i \in bad : \A m \in bad : i <= m
      <4>1. bad \in SUBSET Nat
        BY <1>2
      <4> HIDE DEF bad
      <4> QED
        BY <4>1, NatLeast
    <3>2. i \in 0 .. Last /\ at[i] # Names!Nowhere(n)
      OBVIOUS
    <3>3. i # 0
      BY <1>1, <3>2 DEF Climbs
    <3>4. i \in 1 .. Last /\ i - 1 \in 0 .. Last /\ ~(i <= i - 1)
      BY <1>2, <3>2, <3>3
    <3>5. i - 1 \notin bad
      <4> HIDE DEF bad
      <4> QED
        BY <3>1, <3>4
    <3>6. at[i - 1] = Names!Nowhere(n)
      BY <3>4, <3>5
    <3>7. at[i] = Step(at[i - 1]) /\ at[i - 1] \in Place
      BY <3>4, <1>1 DEF Climbs
    <3> QED
      BY <3>2, <3>6, <3>7, <1>4, <1>5, StepMeans
  <2> QED
    BY <2>1, <1>1, <1>2
<1>6. ASSUME node[n].parent # NoNode
      PROVE  PlaceOf(n) = Inside(PlaceOf(node[n].parent), Fold[node[n].name])
  <2> DEFINE p == node[n].parent
             k == Fold[node[n].name]
  <2>1. InPlace(node, n) /\ node \in Tree
    BY DEF Sound, WellFormed
  <2>2. p \in Node /\ node[n].name \in Spelling
    BY <1>6, <2>1, TreeFields DEF InPlace
  <2>3. k \in Key
    BY <2>2, NodeTypes
  <2>4. PICK up : Climbs(up, p) /\ PlaceOf(p) = up[Last]
    BY <2>2, ClimbExists
  <2>5. at[1] = Inside(up[0], k)
    <3>1. 1 \in 1 .. Last /\ 1 - 1 = 0
      BY <1>2
    <3>2. at[1] = Step(at[0]) /\ at[0] = Names!Nowhere(n) /\ up[0] = Names!Nowhere(p)
      BY <3>1, <1>1, <2>4 DEF Climbs
    <3>3. Names!Nowhere(n) = <<n, <<>>>> /\ Names!Nowhere(p) = <<p, <<>>>>
      BY <2>2, NowherePlace
    <3>4. Step(at[0]) = <<p, <<k>> \o <<>>>>
      BY <1>6, <3>2, <3>3 DEF Step
    <3>5. PICK u \in Seq(Key) : u = <<k>>
      <4>1. <<k>> \in Seq(Key)
        BY <2>3
      <4> QED
        BY <4>1, Zenon
    <3>6. u \o <<>> = u
      BY ConcatEmptySeq
    <3>7. Append(<<>>, k) = <<k>>
      OBVIOUS
    <3> QED
      BY <3>2, <3>3, <3>4, <3>5, <3>6, <3>7 DEF Inside
  <2> HIDE DEF p, k
  <2> DEFINE bad == {i \in 1 .. Last : at[i] # Inside(up[i - 1], k)}
  <2>6. bad = {}
    <3> SUFFICES ASSUME bad # {} PROVE FALSE
      OBVIOUS
    <3>1. PICK i \in bad : \A m \in bad : i <= m
      <4>1. bad \in SUBSET Nat
        BY <1>2
      <4> HIDE DEF bad
      <4> QED
        BY <4>1, NatLeast
    <3>2. i \in 1 .. Last /\ at[i] # Inside(up[i - 1], k)
      OBVIOUS
    <3>3. i # 1
      BY <2>5, <3>2
    <3>4. i - 1 \in 1 .. Last /\ i - 1 \in 0 .. Last /\ ~(i <= i - 1) /\ (i - 1) - 1 \in 0 .. Last
      BY <1>2, <3>2, <3>3
    <3>5. i - 1 \notin bad
      <4> HIDE DEF bad
      <4> QED
        BY <3>1, <3>4
    <3>6. at[i - 1] = Inside(up[(i - 1) - 1], k)
      BY <3>4, <3>5
    <3>7. at[i] = Step(at[i - 1]) /\ up[i - 1] = Step(up[(i - 1) - 1]) /\ up[(i - 1) - 1] \in Place
      BY <3>2, <3>4, <1>1, <2>4 DEF Climbs
    <3>8. Step(Inside(up[(i - 1) - 1], k)) = Inside(Step(up[(i - 1) - 1]), k)
      BY <2>3, <3>7, StepMeans
    <3> QED
      BY <3>2, <3>6, <3>7, <3>8
  <2>7. at[Last] = Inside(up[Last - 1], k)
    BY <2>6, <1>2
  <2>8. up[Last] = up[Last - 1]
    <3>1. node[up[Last - 1][1]].parent = NoNode
      BY <2>2, <2>4, ClimbEnds DEF p
    <3>2. up[Last] = Step(up[Last - 1]) /\ up[Last - 1] \in Place
      BY <1>2, <2>4 DEF Climbs
    <3> QED
      BY <3>1, <3>2, StepMeans
  <2> QED
    BY <1>1, <2>4, <2>7, <2>8 DEF p, k
<1> QED
  BY <1>3, <1>5, <1>6

-----------------------------------------------------------------------------
(***************************************************************************)
(* What remains of a tree, and where.                                      *)
(***************************************************************************)
\* The nodes that are below the root, or in one of h.
Living(D, w, h) == {n \in D : w[n][1] = Root \/ \E a \in h : Names!Within(w[n], w[a])}

\* All that is in the place of the root is below it.
LEMMA WithinRoot ==
  ASSUME NEW q \in Place, NEW n \in Node
  PROVE  Names!Within(q, Names!Nowhere(n)) <=> q[1] = n
<1>1. Names!Nowhere(n) \in Place /\ Names!Nowhere(n) = <<n, <<>>>>
  BY NowherePlace
<1>2. q[2] \in Seq(Key) /\ <<>> \in Seq(Key)
  BY PlaceFields, EmptySeq
<1>3. q[2] = Join(<<>>, q[2])
  BY <1>2, ConcatEmptySeq DEF Join
<1> QED
  BY <1>1, <1>2, <1>3, WithinMeans

\* To move something to where it is changes nothing.
LEMMA MovedSame ==
  ASSUME NEW q \in Place, NEW p \in Place
  PROVE  Names!Moved(q, p, p) = q
<1>1. CASE ~Names!Within(q, p)
  BY <1>1, MovedPlace
<1>2. CASE Names!Within(q, p)
  <2>1. PICK u \in Seq(Key) : q[2] = Join(p[2], u)
    BY <1>2, WithinMeans
  <2>2. q[1] = p[1]
    BY <1>2, WithinMeans
  <2>3. Names!Moved(q, p, p) = <<p[1], Join(p[2], u)>>
    BY <2>1, <2>2, MovedMeans
  <2> QED
    BY <2>1, <2>2, <2>3, PlaceFields
<1> QED
  BY <1>1, <1>2

\* The root is at its own place.
LEMMA RootPlace ==
  ASSUME NEW f, Sound(f), NEW D, NEW w, Placed(f, D, w), Root \in D
  PROVE  w[Root] = Names!Nowhere(Root)
BY DEF Placed, Sound, WellFormed

\* What is below the root or in something that is open is what references keep
\* alive, an overlay in progress being below the root.
LEMMA AliveLives ==
  ASSUME NEW f, Sound(f), NEW D, NEW w, Placed(f, D, w), Root \in D, NEW h, h \subseteq D,
         NEW c \in Cursors, c # NoOverlay => c.dir \in D /\ w[c.dir][1] = Root
  PROVE  AliveIn(f, h, c) = Living(D, w, h)
<1> DEFINE A == AliveIn(f, h, c)
           L == Living(D, w, h)
<1>1. D \in SUBSET Node /\ f \in Tree /\ h \in SUBSET Node /\ w \in [D -> Place]
  BY DEF Placed, Sound, WellFormed
<1>2. w[Root] = Names!Nowhere(Root) /\ Root \in Node
  BY RootPlace, NodeAssumption
<1>3. A \subseteq L
  <2>1. L \in SUBSET Node
    BY <1>1 DEF Living
  <2>2. Root \in L
    BY <1>2, NowherePlace DEF Living
  <2>3. h \subseteq L
    BY <1>1, WithinSelf DEF Living
  <2>4. CursorDir(c) \subseteq L
    BY DEF Living, CursorDir
  <2>5. ASSUME NEW m \in L, NEW k \in Key, f[m].children[k] # NoNode
        PROVE  f[m].children[k] \in L
    <3> DEFINE x == f[m].children[k]
    <3>1. m \in D
      BY DEF Living
    <3>2. x \in D /\ f[x].parent = m /\ w[x] = Inside(w[m], k) /\ w[m] \in Place /\ m # NoNode
      BY <3>1, <2>5, <1>1, ChildPlace, NodeAssumption
    <3> HIDE DEF x
    <3>3. ASSUME w[m][1] = Root PROVE x \in L
      BY <3>2, <3>3, InsideFields DEF Living
    <3>4. ASSUME w[m][1] # Root PROVE x \in L
      <4>1. PICK a \in h : Names!Within(w[m], w[a])
        BY <3>4 DEF Living
      <4>2. w[a] \in Place
        BY <1>1
      <4>3. Names!Within(w[x], w[a])
        BY <4>1, <4>2, <3>2, WithinInside
      <4> QED
        BY <4>3, <3>2 DEF Living
    <3> QED
      BY <3>3, <3>4 DEF x
  <2>6. \A m \in L : ChildrenOf(f)[m] \subseteq L
    BY <2>1, <2>5 DEF ChildrenOf
  <2> QED
    BY <2>1, <2>2, <2>3, <2>4, <2>6, <1>1, AliveSmallest
<1>4. L \subseteq A
  <2> DEFINE S == L \ A
  <2> SUFFICES ASSUME S # {} PROVE FALSE
    OBVIOUS
  <2>1. /\ Root \in A /\ h \subseteq A
        /\ \A d \in A, k \in Key : f[d].children[k] # NoNode => f[d].children[k] \in A
    BY <1>1, AliveProperties, Zenon
  <2> HIDE DEF A
  <2>2. S \in SUBSET Node
    BY <1>1 DEF Living
  <2>3. PICK n \in S : f[n].parent \notin S
    BY <2>2, Zenon DEF Sound, Grounded
  <2>4. n \in D /\ n \in L /\ n \notin A /\ n \in Node /\ w[n] \in Place
    BY <2>2, <1>1 DEF Living
  <2>5. CASE f[n].parent = NoNode
    <3>1. w[n] = Names!Nowhere(n)
      BY <2>4, <2>5 DEF Placed
    <3>2. n # Root
      BY <2>1, <2>4
    <3>3. PICK a \in h : Names!Within(w[n], w[a])
      BY <3>1, <3>2, <2>4, NowherePlace DEF Living
    <3>4. a \in D /\ n = a
      BY <3>3, <2>4, <2>5, WithinParent
    <3> QED
      BY <3>4, <2>1, <2>4
  <2>6. CASE f[n].parent # NoNode
    <3> DEFINE p == f[n].parent
    <3>1. /\ p \in D /\ w[p] \in Place /\ Fold[f[n].name] \in Key
          /\ w[n] = Inside(w[p], Fold[f[n].name])
          /\ f[p].children[Fold[f[n].name]] = n
      BY <2>4, <2>6, ParentPlace
    <3>2. p \in L
      <4>1. CASE w[n][1] = Root
        BY <4>1, <3>1, InsideFields DEF Living
      <4>2. CASE w[n][1] # Root
        <5>1. PICK a \in h : Names!Within(w[n], w[a])
          BY <4>2, <2>4 DEF Living
        <5>2. a \in D /\ a # n
          BY <2>1, <2>4
        <5>3. Names!Within(w[p], w[a])
          BY <5>1, <5>2, <2>4, WithinParent
        <5> QED
          BY <5>3, <3>1 DEF Living
      <4> QED
        BY <4>1, <4>2
    <3>3. p \in A
      BY <3>2, <2>3
    <3>4. n \in A
      BY <3>1, <3>3, <2>1, <2>4, NodeAssumption
    <3> QED
      BY <3>4, <2>4
  <2> QED
    BY <2>5, <2>6
<1> QED
  BY <1>3, <1>4

-----------------------------------------------------------------------------
(***************************************************************************)
(* The highest of what remains of the things that something is in: what is *)
(* not below the root is then placed from there.                           *)
(***************************************************************************)
IsTop(A, w, n, a) ==
    /\ a \in A
    /\ Names!Within(w[n], w[a])
    /\ \A b \in A : Names!Within(w[n], w[b]) => Names!Within(w[b], w[a])

Top(A, w, n) == CHOOSE a \in A : IsTop(A, w, n, a)

\* There is one such thing.  It is that of the directory, if that remains, and
\* otherwise the thing itself.
LEMMA TopMeans ==
  ASSUME NEW f, Sound(f), NEW D, NEW w, Placed(f, D, w), Root \in D, NEW h, h \subseteq D,
         NEW A, A = Living(D, w, h)
  PROVE  \A n \in A :
            /\ IsTop(A, w, n, Top(A, w, n))
            /\ \A a : IsTop(A, w, n, a) => a = Top(A, w, n)
            /\ IF f[n].parent \in A THEN Top(A, w, n) = Top(A, w, f[n].parent)
               ELSE Top(A, w, n) = n
            /\ w[n][1] = Root => Top(A, w, n) = Root
<1>1. A \subseteq D /\ D \in SUBSET Node /\ w \in [D -> Place]
  BY DEF Living, Placed
<1>2. ASSUME NEW n \in A, NEW a, IsTop(A, w, n, a)
      PROVE  IsTop(A, w, n, Top(A, w, n)) /\ a = Top(A, w, n)
  <2>1. a \in A
    BY <1>2 DEF IsTop
  <2>2. IsTop(A, w, n, Top(A, w, n))
    BY <1>2, <2>1 DEF Top
  <2> DEFINE b == Top(A, w, n)
  <2> HIDE DEF b
  <2>3. b \in A /\ Names!Within(w[n], w[a]) /\ Names!Within(w[n], w[b]) /\ IsTop(A, w, n, b)
    BY <1>2, <2>2 DEF IsTop, b
  <2>4. Names!Within(w[b], w[a]) /\ Names!Within(w[a], w[b])
    BY <1>2, <2>1, <2>3 DEF IsTop
  <2>5. w[a] \in Place /\ w[b] \in Place
    BY <1>1, <2>1, <2>3
  <2>6. w[a] = w[b]
    BY <2>4, <2>5, WithinAntisymmetric
  <2>7. a = b
    BY <2>1, <2>3, <2>6, <1>1, PlacesDiffer
  <2> QED
    BY <2>2, <2>7 DEF b
<1>3. ASSUME NEW n \in A, f[n].parent \notin A PROVE IsTop(A, w, n, n)
  <2>1. n \in D /\ w[n] \in Place
    BY <1>1
  <2>2. Names!Within(w[n], w[n])
    BY <2>1, WithinSelf
  <2>3. ASSUME NEW b \in A, Names!Within(w[n], w[b]) PROVE b = n
    <3> SUFFICES ASSUME b # n PROVE FALSE
      OBVIOUS
    <3>1. b \in D /\ w[b] \in Place
      BY <1>1
    <3>2. f[n].parent # NoNode /\ Names!Within(w[f[n].parent], w[b])
      BY <2>1, <2>3, <3>1, WithinParent
    <3>3. f[n].parent \in D /\ w[f[n].parent] \in Place
      BY <2>1, <3>2, ParentPlace
    <3>4. f[n].parent \in Living(D, w, h)
      <4>1. CASE w[b][1] = Root
        <5>1. w[f[n].parent][1] = w[b][1]
          BY <3>1, <3>2, <3>3, WithinMeans
        <5> QED
          BY <4>1, <5>1, <3>3 DEF Living
      <4>2. CASE w[b][1] # Root
        <5>1. PICK a \in h : Names!Within(w[b], w[a])
          BY <4>2 DEF Living
        <5>2. w[a] \in Place
          BY <1>1
        <5>3. Names!Within(w[f[n].parent], w[a])
          BY <5>1, <5>2, <3>1, <3>2, <3>3, WithinTransitive
        <5> QED
          BY <5>3, <3>3 DEF Living
      <4> QED
        BY <4>1, <4>2
    <3> QED
      BY <3>4, <1>3
  <2> QED
    BY <2>2, <2>3 DEF IsTop
<1>4. ASSUME NEW n \in A, f[n].parent \in A, NEW a, IsTop(A, w, f[n].parent, a)
      PROVE  IsTop(A, w, n, a)
  <2> DEFINE p == f[n].parent
  <2>1. n \in D /\ p \in D /\ p # NoNode /\ a \in A /\ a \in D
    BY <1>1, <1>4, NodeAssumption DEF IsTop
  <2>2. w[n] \in Place /\ w[p] \in Place /\ w[a] \in Place
    BY <1>1, <2>1
  <2>3. ASSUME NEW b \in D PROVE Names!Within(w[n], w[b]) <=> n = b \/ Names!Within(w[p], w[b])
    BY <2>1, WithinParent
  <2>4. Names!Within(w[p], w[a])
    BY <1>4 DEF IsTop
  <2>5. Names!Within(w[n], w[a])
    BY <2>1, <2>3, <2>4
  <2>6. ASSUME NEW b \in A, Names!Within(w[n], w[b]) PROVE Names!Within(w[b], w[a])
    <3>1. CASE n = b
      BY <3>1, <2>5
    <3>2. CASE Names!Within(w[p], w[b])
      BY <3>2, <1>4 DEF IsTop
    <3> QED
      BY <3>1, <3>2, <2>3, <2>6, <1>1
  <2> QED
    BY <2>1, <2>5, <2>6 DEF IsTop
<1>5. \A n \in A : \E a : IsTop(A, w, n, a)
  <2> DEFINE S == {n \in A : ~\E a : IsTop(A, w, n, a)}
  <2> SUFFICES ASSUME S # {} PROVE FALSE
    OBVIOUS
  <2>1. S \in SUBSET Node
    BY <1>1
  <2>2. PICK n \in S : f[n].parent \notin S
    BY <2>1, Zenon DEF Sound, Grounded
  <2> QED
    BY <2>2, <1>3, <1>4, Zenon
<1>6. ASSUME NEW n \in A, w[n][1] = Root PROVE IsTop(A, w, n, Root)
  <2>1. w[Root] = Names!Nowhere(Root) /\ w[Root] \in Place /\ Root \in Node /\ w[n] \in Place
    BY RootPlace, <1>1
  <2>2. Root \in A
    BY <2>1, NowherePlace DEF Living
  <2>3. Names!Within(w[n], w[Root])
    BY <2>1, <1>6, WithinRoot
  <2>4. ASSUME NEW b \in A, Names!Within(w[n], w[b]) PROVE Names!Within(w[b], w[Root])
    <3>1. w[b] \in Place
      BY <1>1
    <3>2. w[b][1] = Root
      BY <3>1, <2>1, <2>4, <1>6, WithinMeans
    <3> QED
      BY <3>1, <3>2, <2>1, WithinRoot
  <2> QED
    BY <2>2, <2>3, <2>4 DEF IsTop
<1> SUFFICES ASSUME NEW n \in A
             PROVE  /\ IsTop(A, w, n, Top(A, w, n))
                    /\ \A a : IsTop(A, w, n, a) => a = Top(A, w, n)
                    /\ IF f[n].parent \in A THEN Top(A, w, n) = Top(A, w, f[n].parent)
                       ELSE Top(A, w, n) = n
                    /\ w[n][1] = Root => Top(A, w, n) = Root
  OBVIOUS
<1>7. IsTop(A, w, n, Top(A, w, n)) /\ \A a : IsTop(A, w, n, a) => a = Top(A, w, n)
  BY <1>2, <1>5
<1>8. f[n].parent \in A => Top(A, w, n) = Top(A, w, f[n].parent)
  <2> SUFFICES ASSUME f[n].parent \in A PROVE Top(A, w, n) = Top(A, w, f[n].parent)
    OBVIOUS
  <2>1. PICK a : IsTop(A, w, f[n].parent, a)
    BY <1>5
  <2>2. a = Top(A, w, f[n].parent)
    BY <1>2, <2>1
  <2>3. IsTop(A, w, n, a)
    BY <2>1, <1>4
  <2> QED
    BY <2>2, <2>3, <1>7
<1> QED
  BY <1>3, <1>6, <1>7, <1>8

\* A place q of n or in n, once n is placed from the highest thing it is in.
From(A, w, n, q) == Names!Moved(q, w[Top(A, w, n)], Names!Nowhere(Top(A, w, n)))

\* Where what remains is after all else is destroyed.
LEMMA SurvivorsPlaced ==
  ASSUME NEW f, Sound(f), NEW D, NEW w, Placed(f, D, w), Root \in D, NEW h, h \subseteq D,
         NEW A, A = Living(D, w, h), NEW g, g = Survivors(f, A),
         \A d \in A, k \in Key : f[d].children[k] # NoNode => f[d].children[k] \in A
  PROVE  LET v == [n \in A |-> From(A, w, n, w[n])]
         IN  /\ Placed(g, A, v)
             /\ \A n \in A : w[n][1] = Root => v[n] = w[n]
             /\ \A n \in A, k \in Key :
                   /\ Inside(w[n], k) \in Place /\ Inside(v[n], k) \in Place
                   /\ From(A, w, n, Inside(w[n], k)) = Inside(v[n], k)
<1> DEFINE v == [n \in A |-> From(A, w, n, w[n])]
<1>1. A \subseteq D /\ D \in SUBSET Node /\ w \in [D -> Place] /\ f \in Tree
  BY DEF Living, Placed, Sound, WellFormed
<1>2. \A n \in A :
         /\ IsTop(A, w, n, Top(A, w, n))
         /\ IF f[n].parent \in A THEN Top(A, w, n) = Top(A, w, f[n].parent)
            ELSE Top(A, w, n) = n
         /\ w[n][1] = Root => Top(A, w, n) = Root
  BY TopMeans
<1>3. \A n \in A : /\ w[n] \in Place /\ Top(A, w, n) \in A /\ w[Top(A, w, n)] \in Place
                   /\ Names!Nowhere(Top(A, w, n)) \in Place
                   /\ Names!Within(w[n], w[Top(A, w, n)])
  BY <1>1, <1>2, NowherePlace DEF IsTop
<1>4. \A n \in A : v[n] \in Place
  BY <1>3, MovedPlace DEF From
<1>5. \A n \in A : g[n].parent = IF f[n].parent \in A THEN f[n].parent ELSE NoNode
  BY <1>1, NodeAssumption DEF Survivors, Tree, NodeType
<1>6. \A n \in A : g[n].name = f[n].name /\ g[n].children = f[n].children
  BY <1>1 DEF Survivors, Tree, NodeType
<1>7. ASSUME NEW n \in A, NEW k \in Key
      PROVE  /\ Inside(w[n], k) \in Place /\ Inside(v[n], k) \in Place
             /\ From(A, w, n, Inside(w[n], k)) = Inside(v[n], k)
  <2> DEFINE t == w[Top(A, w, n)]
  <2>1. t \in Place /\ w[n] \in Place /\ Names!Within(w[n], t) /\ Names!Nowhere(Top(A, w, n)) \in Place
    BY <1>3
  <2>2. Inside(w[n], k) \in Place /\ Inside(w[n], k) # w[n] /\ Inside(v[n], k) \in Place
    BY <2>1, <1>4, InsideFields
  <2> HIDE DEF t
  <2>3. Inside(w[n], k) # t
    <3> SUFFICES ASSUME Inside(w[n], k) = t PROVE FALSE
      OBVIOUS
    <3>1. Names!Within(Inside(w[n], k), w[n])
      BY <2>1, WithinSelf, WithinInside
    <3>2. Names!Within(t, w[n])
      BY <3>1
    <3>3. t = w[n]
      BY <3>2, <2>1, WithinAntisymmetric
    <3> QED
      BY <3>3, <2>2
  <2>4. Names!Moved(Inside(w[n], k), t, Names!Nowhere(Top(A, w, n)))
           = Inside(Names!Moved(w[n], t, Names!Nowhere(Top(A, w, n))), k)
    BY <2>1, <2>3, MovedInside
  <2> QED
    BY <2>2, <2>4 DEF From, t
<1>8. ASSUME NEW n \in A, w[n][1] = Root PROVE v[n] = w[n]
  <2>1. Top(A, w, n) = Root /\ w[Root] = Names!Nowhere(Root)
    BY <1>2, <1>8, RootPlace
  <2>2. v[n] = Names!Moved(w[n], Names!Nowhere(Root), Names!Nowhere(Root))
    BY <2>1 DEF From
  <2> QED
    BY <2>1, <2>2, <1>3, MovedSame, NowherePlace, NodeAssumption
<1>9. ASSUME NEW n \in A
      PROVE  IF g[n].parent = NoNode THEN v[n] = Names!Nowhere(n)
             ELSE g[n].parent \in A /\ v[n] = Inside(v[g[n].parent], Fold[g[n].name])
  <2>1. CASE f[n].parent \notin A
    <3>1. Top(A, w, n) = n
      BY <2>1, <1>2
    <3>2. v[n] = Names!Nowhere(n)
      BY <3>1, <1>3, MovedPlace DEF From
    <3> QED
      BY <2>1, <3>2, <1>5
  <2>2. CASE f[n].parent \in A
    <3> DEFINE p == f[n].parent
    <3>1. n \in D /\ p \in A /\ p # NoNode /\ Top(A, w, n) = Top(A, w, p)
      BY <2>2, <1>1, <1>2, NodeAssumption
    <3>2. w[n] = Inside(w[p], Fold[f[n].name]) /\ Fold[f[n].name] \in Key
      BY <3>1, ParentPlace
    <3>3. From(A, w, p, Inside(w[p], Fold[f[n].name])) = Inside(v[p], Fold[f[n].name])
      BY <3>1, <3>2, <1>7
    <3>4. v[n] = Inside(v[p], Fold[f[n].name])
      BY <3>1, <3>2, <3>3 DEF From
    <3> QED
      BY <3>1, <3>4, <1>5, <1>6
  <2> QED
    BY <2>1, <2>2
<1>10. Placed(g, A, v)
  <2>1. v \in [A -> Place]
    BY <1>4
  <2>2. \A n \in A, k \in Key : g[n].children[k] # NoNode => g[n].children[k] \in A
    BY <1>6
  <2> QED
    BY <2>1, <2>2, <1>1, <1>9 DEF Placed
<1> QED
  BY <1>7, <1>8, <1>10

-----------------------------------------------------------------------------
(***************************************************************************)
(* The places of the tree as it is between two calls.                      *)
(***************************************************************************)
\* The places that f marks deleted.
Marks(f, D, w) == UNION {{Inside(w[d], k) : k \in f[d].tombstones} : d \in D}

\* The root keeps its place and its name.
Rooted(f) == f[Root].linked /\ f[Root].name = NoName

Standing ==
    /\ GInv
    /\ Rooted(node)
    /\ cursor # NoOverlay => node[cursor.dir].linked

\* The nodes that are in a directory or open are those that memory holds, and
\* each has a place.
TreePlaced ==
    /\ Sound(node)
    /\ Placed(node, Allocated, Places)
    /\ Allocated = Alive
    /\ Marked = Marks(node, Allocated, Places)

\* In a state of the invariant the allocated nodes are the live ones, and every
\* one of them but Root that is linked is in its directory's place, with its key.
LEMMA StandingPlaced == Standing => TreePlaced
<1> SUFFICES ASSUME Standing PROVE TreePlaced
  OBVIOUS
<1>1. /\ IInv /\ Sound(node) /\ node \in Tree /\ held \in SUBSET Node /\ cursor \in Cursors
      /\ Root \in Node
  BY InvariantFacts, NodeAssumption DEF Standing, GInv, Sound
<1>2. /\ \A n \in Node \ Alive : node[n] = Unallocated
      /\ Root \in Alive /\ held \subseteq Alive /\ Alive \subseteq Node
      /\ \A d \in Alive, k \in Key : node[d].children[k] # NoNode => node[d].children[k] \in Alive
  BY <1>1, InvariantFacts, AliveProperties, Zenon DEF Alive
<1>3. Allocated = Alive
  <2>1. ASSUME NEW n \in Allocated, n \notin Alive PROVE FALSE
    <3>1. n \in Node /\ node[n].linked
      BY <2>1, <1>2 DEF Allocated
    <3> QED
      BY <3>1, <2>1, <1>2 DEF Unallocated
  <2>2. ASSUME NEW n \in Alive PROVE n \in Allocated
    <3> DEFINE start == {Root} \cup held \cup CursorDir(cursor)
    <3>1. CASE n \in start
      BY <3>1, <1>1, <1>2 DEF Standing, Rooted, CursorDir, Allocated
    <3>2. CASE n \notin start
      <4>1. start \in SUBSET Node
        BY <1>1, <1>2 DEF CursorDir, Cursors, Cursor
      <4>2. n \in Closure(ChildrenOf(node), start)
        BY DEF Alive, AliveIn
      <4> HIDE DEF start
      <4>3. node[n].linked
        BY <4>1, <4>2, <3>2, <1>1, ParentInClosure DEF Sound
      <4> QED
        BY <4>3, <1>2 DEF Allocated
    <3> QED
      BY <3>1, <3>2
  <2> QED
    BY <2>1, <2>2
<1>4. Allocated \in SUBSET Node
  BY <1>1 DEF Allocated
<1>5. \A n \in Allocated : Places[n] = PlaceOf(n) /\ PlaceOf(n) \in Place
  BY <1>1, <1>4, PlaceOfMeans DEF Places
<1>6. Places \in [Allocated -> Place]
  BY <1>5 DEF Places
<1>7. ASSUME NEW n \in Allocated, node[n].parent # NoNode
      PROVE  /\ node[n].parent \in Allocated
             /\ Places[n] = Inside(Places[node[n].parent], Fold[node[n].name])
  <2> DEFINE p == node[n].parent
  <2>1. n \in Node /\ InPlace(node, n)
    BY <1>1, <1>4 DEF Sound, WellFormed
  <2>2. p \in Node /\ node[p].children[Fold[node[n].name]] = n /\ node[n].name \in Spelling
    BY <2>1, <1>1, <1>7, TreeFields DEF InPlace
  <2>3. Fold[node[n].name] \in Key
    BY <2>2, NodeTypes
  <2>4. p \in Alive
    <3> SUFFICES ASSUME p \notin Alive PROVE FALSE
      OBVIOUS
    <3>1. node[p] = Unallocated
      BY <2>2, <1>2
    <3>2. node[p].children[Fold[node[n].name]] = NoNode
      BY <3>1, <2>3 DEF Unallocated, NoChildren
    <3> QED
      BY <3>2, <2>1, <2>2, NodeAssumption
  <2> QED
    BY <2>1, <2>4, <1>1, <1>3, <1>5, <1>7, PlaceOfMeans
<1>8. \A n \in Allocated : node[n].parent = NoNode => Places[n] = Names!Nowhere(n)
  BY <1>1, <1>4, <1>5, PlaceOfMeans
<1>9. Placed(node, Allocated, Places)
  BY <1>2, <1>3, <1>4, <1>6, <1>7, <1>8 DEF Placed
<1>10. Marked = Marks(node, Allocated, Places)
  <2>1. \A d \in Allocated : {Inside(PlaceOf(d), k) : k \in node[d].tombstones}
                                = {Inside(Places[d], k) : k \in node[d].tombstones}
    BY <1>5
  <2> QED
    BY <2>1 DEF Marked, Marks
<1> QED
  BY <1>1, <1>3, <1>9, <1>10 DEF TreePlaced

\* What comes after the root on the way of an overlay: the directory reached is
\* where the components that are behind lead.
OnWay(c, w) ==
    c # NoOverlay =>
        /\ c.dir \in DOMAIN w
        /\ \E path \in Paths : \E i \in 0 .. Len(path) - 1 :
              /\ c.rest = SubSeq(path, i + 1, Len(path))
              /\ w[c.dir] = Names!Home(SubSeq(path, 1, i))

\* The invariant of the implementation.
PInv == Standing /\ OnWay(cursor, Places)

\* A node below the root is linked.
LEMMA BelowRootLinked ==
  ASSUME NEW f, Sound(f), Rooted(f), NEW D, NEW w, Placed(f, D, w), NEW n \in D, w[n][1] = Root
  PROVE  f[n].linked
<1>1. n \in Node
  BY DEF Placed
<1>2. CASE f[n].parent = NoNode
  <2>1. n = Root
    BY <1>1, <1>2, NowherePlace DEF Placed
  <2> QED
    BY <2>1 DEF Rooted
<1>3. CASE f[n].parent # NoNode
  BY <1>1, <1>3 DEF Sound, WellFormed, InPlace
<1> QED
  BY <1>2, <1>3

\* What something new is: its name, and whether it is a directory.  All else
\* is as it was.
IsGiven(f, D, given) ==
    \A n \in D :
        IF n = given.of THEN f[n].name = given.name /\ f[n].directory = given.directory
        ELSE n \in Allocated /\ f[n].name = node[n].name /\ f[n].directory = node[n].directory

\* What a call has built when it ends: the tree f, whose nodes D are at w, and
\* the references that remain.
Built(f, D, w, h, c, given) ==
    /\ Sound(f) /\ Rooted(f)
    /\ Placed(f, D, w) /\ Root \in D
    /\ h \subseteq D
    /\ c \in Cursors /\ OnWay(c, w)
    /\ IsGiven(f, D, given)

\* The directory an overlay has reached is below the root.
LEMMA WayBelowRoot ==
  ASSUME NEW c, NEW w, OnWay(c, w), c # NoOverlay
  PROVE  c.dir \in DOMAIN w /\ w[c.dir][1] = Root
<1>1. PICK path \in Paths : \E i \in 0 .. Len(path) - 1 : w[c.dir] = Names!Home(SubSeq(path, 1, i))
  BY DEF OnWay
<1>2. \A s : Names!Home(s)[1] = Root
  BY DEF Names!Home
<1> QED
  BY <1>1, <1>2 DEF OnWay

\* At the end of a call the tree is placed again.
LEMMA FinishPlaced ==
  ASSUME GInv', NEW f, NEW D, NEW w, NEW h, NEW c, NEW given, Built(f, D, w, h, c, given),
         NEW charged, Finish(f, h, c, charged), NEW A, A = Living(D, w, h)
  PROVE  /\ Standing' /\ held' = h /\ cursor' = c
         /\ \E f2, v :
               /\ f2 = node' /\ v = Places'
               /\ A = Allocated'
               /\ \A n \in A : f2[n].name = f[n].name /\ f2[n].directory = f[n].directory
                               /\ f2[n].tombstones = f[n].tombstones
               /\ Placed(f2, A, v)
               /\ v = [n \in A |-> From(A, w, n, w[n])]
               /\ \A n \in A : w[n][1] = Root => v[n] = w[n]
               /\ \A n \in A, k \in Key :
                     /\ Inside(w[n], k) \in Place /\ Inside(v[n], k) \in Place
                     /\ From(A, w, n, Inside(w[n], k)) = Inside(v[n], k)
<1>1. /\ Sound(f) /\ Rooted(f) /\ Placed(f, D, w) /\ Root \in D /\ h \subseteq D
      /\ c \in Cursors /\ OnWay(c, w)
  BY DEF Built
<1>2. /\ f \in Tree /\ D \in SUBSET Node /\ h \in SUBSET Node /\ DOMAIN w = D /\ A \subseteq D
      /\ Root \in Node
  BY <1>1, NodeAssumption DEF Placed, Sound, WellFormed, Living
<1>3. c # NoOverlay => c.dir \in D /\ w[c.dir][1] = Root
  BY <1>1, <1>2, WayBelowRoot
<1>4. AliveIn(f, h, c) = A
  BY <1>1, <1>3, AliveLives
<1>5. /\ Root \in A /\ h \subseteq A
      /\ c # NoOverlay => c.dir \in A
      /\ \A d \in A, k \in Key : f[d].children[k] # NoNode => f[d].children[k] \in A
  BY <1>1, <1>2, <1>4, AliveProperties, Zenon
<1>6. held' = h /\ cursor' = c /\ node' = Survivors(f, A)
  BY <1>4 DEF Finish, Survivors
<1>7. PICK f2 : f2 = node' /\ f2 = Survivors(f, A)
  BY <1>6
<1>8. \A n \in A : /\ f2[n].name = f[n].name /\ f2[n].directory = f[n].directory
                   /\ f2[n].linked = f[n].linked /\ f2[n].tombstones = f[n].tombstones
  BY <1>2, <1>7 DEF Survivors, Tree, NodeType
<1>9. PICK v : /\ v = [n \in A |-> From(A, w, n, w[n])]
               /\ Placed(f2, A, v)
               /\ \A n \in A : w[n][1] = Root => v[n] = w[n]
               /\ \A n \in A, k \in Key :
                     /\ Inside(w[n], k) \in Place /\ Inside(v[n], k) \in Place
                     /\ From(A, w, n, Inside(w[n], k)) = Inside(v[n], k)
  <2> DEFINE x == [n \in A |-> From(A, w, n, w[n])]
  <2>1. /\ Placed(f2, A, x)
        /\ \A n \in A : w[n][1] = Root => x[n] = w[n]
        /\ \A n \in A, k \in Key :
              /\ Inside(w[n], k) \in Place /\ Inside(x[n], k) \in Place
              /\ From(A, w, n, Inside(w[n], k)) = Inside(x[n], k)
    BY <1>1, <1>5, <1>7, SurvivorsPlaced
  <2> HIDE DEF x
  <2> QED
    BY <2>1 DEF x
<1>10. Standing'
  <2>1. f2[Root].linked /\ f2[Root].name = NoName
    BY <1>1, <1>5, <1>8 DEF Rooted
  <2>2. c # NoOverlay => f2[c.dir].linked
    BY <1>1, <1>3, <1>5, <1>8, BelowRootLinked
  <2>3. node'[Root].linked /\ node'[Root].name = NoName
    BY <2>1, <1>7
  <2>4. cursor' # NoOverlay => node'[cursor'.dir].linked
    BY <2>2, <1>6, <1>7
  <2> QED
    BY <2>3, <2>4 DEF Standing, Rooted
<1>11. TreePlaced'
  BY <1>10, StandingPlaced, PTL
<1>12. PICK D2, w2 : D2 = Allocated' /\ w2 = Places'
  OBVIOUS
<1>13. Sound(f2) /\ Placed(f2, D2, w2)
  BY <1>7, <1>11, <1>12 DEF TreePlaced, Sound, WellFormed, Grounded, Placed
<1>14. D2 = A
  <2>1. D2 = {n \in Node : f2[n].linked} \cup h
    BY <1>6, <1>7, <1>12 DEF Allocated
  <2>2. \A n \in Node \ A : ~f2[n].linked
    BY <1>7 DEF Survivors, Unallocated
  <2>3. ASSUME NEW n \in A, n \notin h PROVE f2[n].linked
    <3>1. n \in D /\ n \in Node
      BY <1>2
    <3>2. CASE w[n][1] = Root
      BY <3>1, <3>2, <1>1, <1>8, BelowRootLinked
    <3>3. CASE w[n][1] # Root
      <4>1. PICK a \in h : Names!Within(w[n], w[a])
        BY <3>3 DEF Living
      <4>2. f[n].parent # NoNode
        BY <4>1, <3>1, <2>3, <1>1, WithinParent
      <4>3. f[n].linked
        BY <4>2, <3>1, <1>1 DEF Sound, WellFormed, InPlace
      <4> QED
        BY <4>3, <1>8
    <3> QED
      BY <3>2, <3>3
  <2> QED
    BY <2>1, <2>2, <2>3, <1>2, <1>5
<1>15. w2 = v
  BY <1>9, <1>13, <1>14, PlacesUnique
<1>16. v = Places' /\ A = Allocated'
  BY <1>12, <1>14, <1>15
<1> QED
  BY <1>6, <1>7, <1>8, <1>9, <1>10, <1>16

\* The marks in one directory are those below its place.
LEMMA MarksOf ==
  ASSUME NEW f, Sound(f), NEW D, NEW w, Placed(f, D, w), NEW d \in D
  PROVE  {e \in Marks(f, D, w) : Names!Outer(e) = w[d]} = {Inside(w[d], k) : k \in f[d].tombstones}
<1>1. \A m \in D : w[m] \in Place /\ f[m].tombstones \subseteq Key
  BY TreeFields DEF Placed, Sound, WellFormed
<1>2. \A m \in D : \A k \in f[m].tombstones : Names!Outer(Inside(w[m], k)) = w[m]
  BY <1>1, InsideFields
<1>3. ASSUME NEW m \in D, w[m] = w[d] PROVE m = d
  BY <1>3, PlacesDiffer
<1> QED
  BY <1>2, <1>3 DEF Marks

\* The end of a call is what Names says of it.
LEMMA FinishBecomes ==
  ASSUME Standing, GInv', NEW f, NEW D, NEW w, NEW h, NEW c, NEW given,
         Built(f, D, w, h, c, given), NEW charged, Finish(f, h, c, charged),
         NEW E, E = Marks(f, D, w)
  PROVE  PInv' /\ Names!Become(w, E, h, given)
<1>1. /\ Sound(f) /\ Placed(f, D, w) /\ Root \in D /\ h \subseteq D /\ OnWay(c, w)
      /\ IsGiven(f, D, given)
  BY DEF Built
<1> DEFINE A == Living(D, w, h)
<1>2. /\ DOMAIN w = D /\ A \subseteq D /\ f \in Tree /\ D \subseteq Node
  BY <1>1 DEF Placed, Sound, WellFormed, Living
<1>3. \A n \in A : /\ IsTop(A, w, n, Top(A, w, n))
                   /\ \A a : IsTop(A, w, n, a) => a = Top(A, w, n)
                   /\ w[n][1] = Root => Top(A, w, n) = Root
  BY <1>1, TopMeans
<1>4. A = {n \in DOMAIN w : w[n][1] = Root \/ \E a \in h : Names!Within(w[n], w[a])}
  BY <1>2 DEF Living
<1>5. /\ Standing' /\ held' = h /\ cursor' = c
      /\ \E f2, v :
            /\ f2 = node' /\ v = Places'
            /\ A = Allocated'
            /\ \A n \in A : f2[n].name = f[n].name /\ f2[n].directory = f[n].directory
                            /\ f2[n].tombstones = f[n].tombstones
            /\ Placed(f2, A, v)
            /\ v = [n \in A |-> From(A, w, n, w[n])]
            /\ \A n \in A : w[n][1] = Root => v[n] = w[n]
            /\ \A n \in A, k \in Key :
                  /\ Inside(w[n], k) \in Place /\ Inside(v[n], k) \in Place
                  /\ From(A, w, n, Inside(w[n], k)) = Inside(v[n], k)
  BY FinishPlaced
<1> HIDE DEF A
<1>6. PICK f2, v :
         /\ f2 = node' /\ v = Places'
         /\ A = Allocated'
         /\ \A n \in A : f2[n].name = f[n].name /\ f2[n].directory = f[n].directory
                         /\ f2[n].tombstones = f[n].tombstones
         /\ Placed(f2, A, v)
         /\ v = [n \in A |-> From(A, w, n, w[n])]
         /\ \A n \in A : w[n][1] = Root => v[n] = w[n]
         /\ \A n \in A, k \in Key :
               /\ Inside(w[n], k) \in Place /\ Inside(v[n], k) \in Place
               /\ From(A, w, n, Inside(w[n], k)) = Inside(v[n], k)
  BY <1>5
<1>7. PInv'
  <2>1. c # NoOverlay => c.dir \in A /\ v[c.dir] = w[c.dir]
    <3> SUFFICES ASSUME c # NoOverlay PROVE c.dir \in A /\ v[c.dir] = w[c.dir]
      OBVIOUS
    <3>1. c.dir \in D /\ w[c.dir][1] = Root
      BY <1>1, <1>2, WayBelowRoot
    <3>2. c.dir \in A
      BY <3>1, <1>2, <1>4
    <3> QED
      BY <3>1, <3>2, <1>6
  <2>2. DOMAIN v = A
    BY <1>6
  <2>3. OnWay(c, v)
    BY <2>1, <2>2, <1>1 DEF OnWay
  <2>4. OnWay(cursor', Places')
    BY <2>3, <1>5, <1>6
  <2> QED
    BY <2>4, <1>5 DEF PInv
<1> DEFINE Remains(n) ==
               \/ w[n][1] = Root
               \/ \E a \in h : Names!Within(w[n], w[a])
           live == {n \in DOMAIN w : Remains(n)}
           Highest(n) ==
               IF w[n][1] = Root THEN Root
               ELSE CHOOSE a \in live :
                       /\ Names!Within(w[n], w[a])
                       /\ \A b \in live : Names!Within(w[n], w[b]) => Names!Within(w[b], w[a])
           Fr(n, q) == Names!Moved(q, w[Highest(n)], Names!Nowhere(Highest(n)))
<1>8. live = A
  BY <1>4
<1>9. ASSUME NEW n \in A PROVE Highest(n) = Top(A, w, n)
  <2> DEFINE P(a) == /\ Names!Within(w[n], w[a])
                     /\ \A b \in live : Names!Within(w[n], w[b]) => Names!Within(w[b], w[a])
             x == CHOOSE a \in live : P(a)
  <2>1. CASE w[n][1] = Root
    BY <2>1, <1>3
  <2>2. CASE w[n][1] # Root
    <3>1. \E a \in live : P(a)
      BY <1>3, <1>8 DEF IsTop
    <3> HIDE DEF live
    <3>2. x \in live /\ P(x)
      BY <3>1
    <3> HIDE DEF x
    <3>3. IsTop(A, w, n, x)
      BY <3>2, <1>8 DEF IsTop
    <3>4. x = Top(A, w, n)
      BY <3>3, <1>3
    <3>5. Highest(n) = x
      BY <2>2 DEF x
    <3> QED
      BY <3>4, <3>5
  <2> QED
    BY <2>1, <2>2
<1> HIDE DEF Highest
<1>10. \A n \in A : \A q : Fr(n, q) = From(A, w, n, q)
  BY <1>9 DEF From
<1> HIDE DEF live, Fr
<1>11. held' = h
  BY <1>5
<1>12. Spellings' = [n \in live |-> IF n = given.of THEN given.name ELSE Spellings[n]]
  <2>1. Spellings' = [n \in A |-> f2[n].name]
    BY <1>6 DEF Spellings
  <2>2. \A n \in A : f2[n].name = IF n = given.of THEN given.name ELSE Spellings[n]
    BY <1>1, <1>2, <1>6 DEF IsGiven, Spellings
  <2> QED
    BY <2>1, <2>2, <1>8
<1>13. Directories' = {n \in live : IF n = given.of THEN given.directory ELSE n \in Directories}
  <2>1. Directories' = {n \in A : f2[n].directory}
    BY <1>6 DEF Directories
  <2>2. \A n \in A : f2[n].directory <=> IF n = given.of THEN given.directory ELSE n \in Directories
    BY <1>1, <1>2, <1>6 DEF IsGiven, Directories
  <2> QED
    BY <2>1, <2>2, <1>8
<1>14. Places' = [n \in live |-> Fr(n, w[n])]
  BY <1>6, <1>8, <1>10
<1>15. Marked' = UNION {{Fr(d, q) : q \in {e \in E : Names!Outer(e) = w[d]}} : d \in live}
  <2>1. TreePlaced'
    BY <1>5, StandingPlaced, PTL
  <2>2. Marked' = UNION {{Inside(v[d], k) : k \in f2[d].tombstones} : d \in A}
    BY <2>1, <1>6 DEF TreePlaced, Marks
  <2>3. ASSUME NEW d \in A
        PROVE  {Inside(v[d], k) : k \in f2[d].tombstones}
                 = {Fr(d, q) : q \in {e \in E : Names!Outer(e) = w[d]}}
    <3>1. d \in D /\ f2[d].tombstones = f[d].tombstones /\ f[d].tombstones \subseteq Key
      BY <1>2, <1>6, TreeFields
    <3>2. {e \in E : Names!Outer(e) = w[d]} = {Inside(w[d], k) : k \in f[d].tombstones}
      BY <3>1, <1>1, MarksOf
    <3>3. \A k \in f[d].tombstones : Fr(d, Inside(w[d], k)) = Inside(v[d], k)
      BY <3>1, <1>6, <1>10
    <3>4. {Fr(d, q) : q \in {Inside(w[d], k) : k \in f[d].tombstones}}
             = {Inside(v[d], k) : k \in f[d].tombstones}
      BY <3>3
    <3> QED
      BY <3>1, <3>2, <3>4
  <2>4. UNION {{Inside(v[d], k) : k \in f2[d].tombstones} : d \in A}
          = UNION {{Fr(d, q) : q \in {e \in E : Names!Outer(e) = w[d]}} : d \in A}
    BY <2>3
  <2> QED
    BY <2>2, <2>4, <1>8
<1>16. Names!Become(w, E, h, given)
  BY <1>11, <1>12, <1>13, <1>14, <1>15 DEF Names!Become, live, Fr, Highest
<1> QED
  BY <1>7, <1>16

-----------------------------------------------------------------------------
(***************************************************************************)
(* Where things are after each change of the tree.                         *)
(***************************************************************************)
\* When one node gets another place, all that is in it goes with it, and so do
\* the places that are marked deleted.
LEMMA Relocate ==
  ASSUME NEW f, Sound(f), NEW D, NEW w, Placed(f, D, w), NEW n \in D, NEW r \in Place,
         NEW v, v = [m \in D |-> Names!Moved(w[m], w[n], r)], NEW g,
         \A m \in D \ {n} : g[m].parent = f[m].parent /\ g[m].name = f[m].name,
         IF g[n].parent = NoNode THEN r = Names!Nowhere(n)
         ELSE g[n].parent \in D /\ r = Inside(v[g[n].parent], Fold[g[n].name]),
         \A m \in D, k \in Key : g[m].children[k] # NoNode => g[m].children[k] \in D
  PROVE  /\ Placed(g, D, v)
         /\ v[n] = r
         /\ \A m \in D : ~Names!Within(w[m], w[n]) => v[m] = w[m]
         /\ \A d \in D, k \in Key :
               f[d].children[k] # n => Names!Moved(Inside(w[d], k), w[n], r) = Inside(v[d], k)
<1>1. D \in SUBSET Node /\ w \in [D -> Place] /\ w[n] \in Place
  BY DEF Placed
<1>2. \A m \in D : w[m] \in Place /\ v[m] = Names!Moved(w[m], w[n], r) /\ v[m] \in Place
  BY <1>1, MovedPlace
<1>3. v \in [D -> Place]
  BY <1>2
<1>4. v[n] = r
  BY <1>1, <1>2, MovedPlace
<1>5. \A m \in D : ~Names!Within(w[m], w[n]) => v[m] = w[m]
  BY <1>1, <1>2, MovedPlace
<1>6. ASSUME NEW m \in D, m # n
      PROVE  IF g[m].parent = NoNode THEN v[m] = Names!Nowhere(m)
             ELSE g[m].parent \in D /\ v[m] = Inside(v[g[m].parent], Fold[g[m].name])
  <2>1. g[m].parent = f[m].parent /\ g[m].name = f[m].name /\ m \in Node
    BY <1>1, <1>6
  <2>2. w[m] # w[n]
    BY <1>6, PlacesDiffer
  <2>3. CASE f[m].parent = NoNode
    <3>1. w[m] = Names!Nowhere(m)
      BY <2>3 DEF Placed
    <3>2. ~Names!Within(w[m], w[n])
      BY <3>1, <2>1, <2>2, <1>1, WithinNowhere
    <3> QED
      BY <3>1, <3>2, <2>1, <2>3, <1>5
  <2>4. CASE f[m].parent # NoNode
    <3> DEFINE p == f[m].parent
               k == Fold[f[m].name]
    <3>1. p \in D /\ w[p] \in Place /\ w[m] = Inside(w[p], k) /\ k \in Key
      BY <2>4, ParentPlace
    <3> HIDE DEF p, k
    <3>2. Inside(w[p], k) # w[n]
      BY <3>1, <2>2
    <3>3. Names!Moved(Inside(w[p], k), w[n], r) = Inside(Names!Moved(w[p], w[n], r), k)
      BY <3>1, <3>2, <1>1, MovedInside
    <3>4. v[m] = Inside(v[p], k)
      BY <3>1, <3>3, <1>2
    <3> QED
      BY <3>1, <3>4, <2>1, <2>4 DEF p, k
  <2> QED
    BY <2>3, <2>4
<1>7. Placed(g, D, v)
  BY <1>1, <1>3, <1>4, <1>6 DEF Placed
<1>8. ASSUME NEW d \in D, NEW k \in Key, f[d].children[k] # n
      PROVE  Names!Moved(Inside(w[d], k), w[n], r) = Inside(v[d], k)
  <2>1. Inside(w[d], k) # w[n]
    BY <1>8, AtSlot
  <2> QED
    BY <2>1, <1>1, <1>2, MovedInside
<1> QED
  BY <1>4, <1>5, <1>7, <1>8

\* Nothing is within what is in it.
LEMMA NotWithinChild ==
  ASSUME NEW q \in Place, NEW k \in Key
  PROVE  ~Names!Within(q, Inside(q, k))
<1> SUFFICES ASSUME Names!Within(q, Inside(q, k)) PROVE FALSE
  OBVIOUS
<1>1. PICK r : r = Inside(q, k) /\ r \in Place /\ r # q
  BY InsideFields
<1>2. Names!Within(r, q)
  BY <1>1, WithinSelf, WithinInside
<1>3. r = q
  BY <1>1, <1>2, WithinAntisymmetric
<1> QED
  BY <1>1, <1>3

\* Who is at a place in a directory.
LEMMA OccupantsOf ==
  ASSUME NEW f, Sound(f), NEW D, NEW w, Placed(f, D, w), NEW d \in D, NEW k \in Key
  PROVE  {m \in D : w[m] = Inside(w[d], k)} = {f[d].children[k]} \ {NoNode}
<1>1. \A m \in D : w[m] = Inside(w[d], k) <=> f[d].children[k] = m
  BY AtSlot
<1>2. f[d].children[k] # NoNode => f[d].children[k] \in D
  BY DEF Placed
<1>3. D \subseteq Node
  BY DEF Placed
<1> QED
  BY <1>1, <1>2, <1>3, NodeAssumption

\* The place q after what was at p, t, has lost its place.
Without(q, p, t) == IF t = NoNode THEN q ELSE Names!Moved(q, p, Names!Nowhere(t))

\* What a new node finds at its place is the node in the slot, or nothing; it is
\* that node that leaves the place, with all that is in it.
LEMMA WithoutMeans ==
  ASSUME TreePlaced, NEW d \in Allocated, NEW k \in Key, NEW p, p = Inside(Places[d], k), NEW q
  PROVE  /\ Names!Occupants(p) = {node[d].children[k]} \ {NoNode}
         /\ Names!Vacated(q, p) = Without(q, p, node[d].children[k])
<1> DEFINE t == node[d].children[k]
<1>1. DOMAIN Places = Allocated
  BY DEF Places
<1>2. Names!Occupants(p) = {m \in Allocated : Places[m] = p}
  BY <1>1 DEF Names!Occupants, Names!Live
<1>3. Names!Occupants(p) = {t} \ {NoNode}
  BY <1>2, OccupantsOf DEF TreePlaced
<1> HIDE DEF t
<1>4. ASSUME t = NoNode PROVE Names!Vacated(q, p) = Without(q, p, t)
  BY <1>3, <1>4 DEF Names!Vacated, Without
<1>5. ASSUME t # NoNode PROVE Names!Vacated(q, p) = Without(q, p, t)
  <2>1. Names!Occupants(p) = {t}
    BY <1>3, <1>5
  <2>2. (CHOOSE x \in {t} : TRUE) = t
    OBVIOUS
  <2> QED
    BY <2>1, <2>2, <1>5 DEF Names!Vacated, Without
<1> QED
  BY <1>3, <1>4, <1>5 DEF t

\* After a node has lost its place in a directory.
LEMMA VacatePlaced ==
  ASSUME NEW f, Sound(f), NEW D, NEW w, Placed(f, D, w), NEW d \in D, NEW k \in Key,
         NEW p, p = Inside(w[d], k), NEW t, t = f[d].children[k],
         NEW g, g = Vacate(f, d, k), NEW v, v = [m \in D |-> Without(w[m], p, t)]
  PROVE  /\ Sound(g) /\ Placed(g, D, v)
         /\ v[d] = w[d]
         /\ Marks(g, D, v) = {Without(q, p, t) : q \in Marks(f, D, w)}
<1>1. D \in SUBSET Node /\ d \in Node /\ w \in [D -> Place] /\ f \in Tree /\ p \in Place
  BY InsideFields DEF Placed, Sound, WellFormed
<1>2. /\ WellFormed(g)
      /\ \A m \in Node : SameFields(f, g, m)
      /\ \A m \in Node : g[m].parent \in {f[m].parent, NoNode}
  BY <1>1, VacateWellFormed, VacateEffect DEF Sound
<1>3. Sound(g)
  BY <1>2, GroundedLess DEF Sound
<1>4. CASE t = NoNode
  <2>1. g = f
    BY <1>4 DEF Vacate
  <2>2. v = w
    BY <1>1, <1>4 DEF Without
  <2>3. \A q : Without(q, p, t) = q
    BY <1>4 DEF Without
  <2> QED
    BY <2>1, <2>2, <2>3, <1>3
<1>5. CASE t # NoNode
  <2>1. t \in D /\ t \in Node /\ w[t] = p
    BY <1>5, ChildPlace
  <2>2. Vacated(f, g, d, k, t)
    BY <1>1, <2>1, VacateFields DEF Sound
  <2>3. PICK r \in Place : r = Names!Nowhere(t)
    BY <2>1, NowherePlace
  <2>4. \A q : Without(q, p, t) = Names!Moved(q, w[t], r)
    BY <1>5, <2>1, <2>3 DEF Without
  <2>5. v = [m \in D |-> Names!Moved(w[m], w[t], r)]
    BY <2>4
  <2>6. /\ \A m \in D \ {t} : g[m].parent = f[m].parent /\ g[m].name = f[m].name
        /\ g[t].parent = NoNode
        /\ \A m \in D, j \in Key : g[m].children[j] # NoNode => g[m].children[j] \in D
    <3>1. \A m \in D, j \in Key : f[m].children[j] # NoNode => f[m].children[j] \in D
      BY DEF Placed
    <3> QED
      BY <3>1, <1>1, <2>2 DEF Vacated, SameFields
  <2>7. IF g[t].parent = NoNode THEN r = Names!Nowhere(t)
         ELSE g[t].parent \in D /\ r = Inside(v[g[t].parent], Fold[g[t].name])
    BY <2>3, <2>6
  <2>8. \A m \in D \ {t} : g[m].parent = f[m].parent /\ g[m].name = f[m].name
    BY <2>6
  <2>9. \A m \in D, j \in Key : g[m].children[j] # NoNode => g[m].children[j] \in D
    BY <2>6
  <2>10. /\ Placed(g, D, v)
         /\ \A m \in D : ~Names!Within(w[m], w[t]) => v[m] = w[m]
         /\ \A m \in D, j \in Key :
               f[m].children[j] # t => Names!Moved(Inside(w[m], j), w[t], r) = Inside(v[m], j)
    BY <2>1, <2>3, <2>5, <2>7, <2>8, <2>9, Relocate, SMTT(30)
  <2>11. v[d] = w[d]
    <3>1. ~Names!Within(w[d], w[t])
      BY <1>1, <2>1, NotWithinChild
    <3> QED
      BY <3>1, <2>10
  <2>12. \A m \in D, j \in Key :
           j \in f[m].tombstones => f[m].children[j] # t /\ j \in g[m].tombstones
    BY <1>1, <1>2, <2>1, NodeAssumption DEF Sound, WellFormed, SameFields
  <2>13. \A m \in D : g[m].tombstones = f[m].tombstones /\ f[m].tombstones \subseteq Key
    BY <1>1, <1>2, TreeFields DEF SameFields
  <2>14. \A m \in D, j \in Key :
           j \in f[m].tombstones => Without(Inside(w[m], j), p, t) = Inside(v[m], j)
    <3> TAKE m \in D, j \in Key
    <3> HAVE j \in f[m].tombstones
    <3>1. f[m].children[j] # t
      BY <2>12, <2>13
    <3>2. Names!Moved(Inside(w[m], j), w[t], r) = Inside(v[m], j)
      BY <3>1, <2>10
    <3> QED
      BY <3>2, <2>4
  <2>15. Marks(g, D, v) = {Without(q, p, t) : q \in Marks(f, D, w)}
    BY <2>13, <2>14 DEF Marks
  <2> QED
    BY <1>3, <2>10, <2>11, <2>15
<1> QED
  BY <1>4, <1>5

\* The places w, and n at p.
With(D, w, n, p) == [m \in D \cup {n} |-> IF m = n THEN p ELSE w[m]]

\* n is new in g, and either a file or a directory.
Comes(f, g, d, k, n, s) == \E directory \in BOOLEAN : Added(f, g, d, k, n, s, directory)

\* After a new node has come to where nothing is.
LEMMA AddPlaced ==
  ASSUME NEW f, Sound(f), NEW D, NEW w, Placed(f, D, w), NEW d \in D, NEW s \in Spelling,
         NEW k, k = Fold[s], NEW n \in Node \ D, NEW g,
         Comes(f, g, d, k, n, s), NEW p, p = Inside(w[d], k),
         NEW v, v = With(D, w, n, p)
  PROVE  /\ Placed(g, DOMAIN v, v)
         /\ Marks(g, DOMAIN v, v) = Marks(f, D, w) \ {p}
<1> DEFINE E == D \cup {n}
<1>1. /\ D \in SUBSET Node /\ E \in SUBSET Node /\ n \notin D /\ n \in E /\ k \in Key
      /\ \A m \in D : w[m] \in Place
  BY NodeTypes DEF Placed
<1>2. p \in Place
  BY <1>1, InsideFields
<1>3. v[n] = p /\ \A m \in D : v[m] = w[m]
  BY <1>1 DEF With
<1>4. v \in [E -> Place]
  BY <1>1, <1>2 DEF With
<1> PICK directory \in BOOLEAN : Added(f, g, d, k, n, s, directory)
  BY DEF Comes
<1>5. /\ g[n].parent = d /\ g[n].name = s /\ g[n].tombstones = {}
      /\ \A j \in Key : g[n].children[j] = NoNode
  BY DEF Added, MakeNode, NoChildren
<1>6. \A m \in D : /\ g[m].parent = f[m].parent /\ g[m].name = f[m].name
                   /\ g[m].tombstones = IF m = d THEN f[m].tombstones \ {k} ELSE f[m].tombstones
                   /\ \A j \in Key : g[m].children[j] \in {f[m].children[j], n}
  BY <1>1, Zenon DEF Added
<1>7. ASSUME NEW m \in E
      PROVE  IF g[m].parent = NoNode THEN v[m] = Names!Nowhere(m)
             ELSE g[m].parent \in E /\ v[m] = Inside(v[g[m].parent], Fold[g[m].name])
  <2>1. CASE m = n
    <3>1. d # NoNode
      BY <1>1, NodeAssumption
    <3> QED
      BY <2>1, <3>1, <1>3, <1>5
  <2>2. CASE m \in D
    <3>1. IF f[m].parent = NoNode THEN w[m] = Names!Nowhere(m)
          ELSE f[m].parent \in D /\ w[m] = Inside(w[f[m].parent], Fold[f[m].name])
      BY <2>2 DEF Placed
    <3> QED
      BY <2>2, <3>1, <1>3, <1>6, Zenon
  <2> QED
    BY <2>1, <2>2
<1>8. \A m \in E, j \in Key : g[m].children[j] # NoNode => g[m].children[j] \in E
  <2> TAKE m \in E, j \in Key
  <2>1. m # n => g[m].children[j] \in {f[m].children[j], n}
    BY <1>6, Zenon
  <2>2. m # n /\ f[m].children[j] # NoNode => f[m].children[j] \in D
    BY DEF Placed
  <2> QED
    BY <2>1, <2>2, <1>5
<1>9. Placed(g, E, v)
  BY <1>1, <1>4, <1>7, <1>8 DEF Placed
<1>10. Marks(g, E, v) = Marks(f, D, w) \ {p}
  <2> HIDE DEF Placed
  <2>1. ASSUME NEW m \in D, NEW j \in Key, Inside(w[m], j) = p PROVE m = d /\ j = k
    <3>1. Inside(w[m], j) = Inside(w[d], k)
      BY <2>1
    <3>2. w[m] = w[d] /\ j = k
      BY <3>1, <1>1, InsideInjective
    <3> QED
      BY <3>2, PlacesDiffer
  <2>2. \A m \in D : f[m].tombstones \subseteq Key
    BY <1>1, TreeFields DEF Sound, WellFormed
  <2>3. ASSUME NEW e \in Marks(g, E, v) PROVE e \in Marks(f, D, w) \ {p}
    <3>1. PICK m \in E : \E j \in g[m].tombstones : e = Inside(v[m], j)
      BY <2>3 DEF Marks
    <3>2. PICK j \in g[m].tombstones : e = Inside(v[m], j)
      BY <3>1
    <3>3. m \in D
      BY <3>2, <1>5
    <3>4. j \in f[m].tombstones /\ e = Inside(w[m], j) /\ j \in Key /\ ~(m = d /\ j = k)
      BY <3>2, <3>3, <1>3, <1>6, <2>2, Zenon
    <3>5. e # p
      BY <3>3, <3>4, <2>1
    <3> QED
      BY <3>3, <3>4, <3>5 DEF Marks
  <2>4. ASSUME NEW e \in Marks(f, D, w), e # p PROVE e \in Marks(g, E, v)
    <3>1. PICK m \in D : \E j \in f[m].tombstones : e = Inside(w[m], j)
      BY <2>4 DEF Marks
    <3>2. PICK j \in f[m].tombstones : e = Inside(w[m], j)
      BY <3>1
    <3>3. ~(m = d /\ j = k)
      BY <2>4, <3>2
    <3>4. j \in g[m].tombstones /\ e = Inside(v[m], j) /\ m \in E
      BY <3>2, <3>3, <1>3, <1>6, Zenon
    <3> QED
      BY <3>4 DEF Marks
  <2> QED
    BY <2>3, <2>4
<1> QED
  BY <1>4, <1>9, <1>10

\* The places when n is put at p, where what was there has lost its place.
Put(n, p) == [m \in Allocated \cup {n} |-> IF m = n THEN p ELSE Names!Vacated(Places[m], p)]

\* The marks then: p is in use again.
Unmarked(p) == {Names!Vacated(q, p) : q \in Marked} \ {p}

\* f is the tree in which the new node given.of is in the directory d, in the
\* slot where given.name leads, instead of what was there.
Arrives(f, d, given) ==
    \E n \in Node \ Alive, s \in Spelling, directory \in BOOLEAN :
       /\ given = [of |-> n, name |-> s, directory |-> directory]
       /\ LET made == [Vacate(node, d, Fold[s]) EXCEPT ![n] = MakeNode(s, directory, d)]
          IN  \/ f = Emplace(Reveal(made, d, Fold[s]), d, Fold[s], n)
              \/ f = Emplace(made, d, Fold[s], n) /\ Fold[s] \notin node[d].tombstones

\* In f everything is where w says, and given is all that is new.
Stands(f, w, E, given) ==
    /\ Sound(f) /\ Rooted(f)
    /\ Placed(f, DOMAIN w, w)
    /\ Marks(f, DOMAIN w, w) = E
    /\ IsGiven(f, DOMAIN w, given)

\* Where everything is when a new node has come to a slot instead of what was
\* there.
LEMMA NewPlaced ==
  ASSUME Standing, TreePlaced, NEW d \in Allocated, node[d].directory, NEW f, NEW given,
         Arrives(f, d, given), NEW p, p = Inside(Places[d], Fold[given.name])
  PROVE  Stands(f, Put(given.of, p), Unmarked(p), given)
<1> PICK n \in Node \ Alive, s \in Spelling, directory \in BOOLEAN :
       /\ given = [of |-> n, name |-> s, directory |-> directory]
       /\ LET made == [Vacate(node, d, Fold[s]) EXCEPT ![n] = MakeNode(s, directory, d)]
          IN  \/ f = Emplace(Reveal(made, d, Fold[s]), d, Fold[s], n)
              \/ f = Emplace(made, d, Fold[s], n) /\ Fold[s] \notin node[d].tombstones
  BY Zenon DEF Arrives
<1> PICK w : w = Put(n, p)
  OBVIOUS
<1>0. given.of = n /\ given.name = s /\ p = Inside(Places[d], Fold[s])
  OBVIOUS
<1> DEFINE D == Allocated
           k == Fold[s]
           t == node[d].children[k]
           e == Vacate(node, d, k)
           v == [m \in D |-> Without(Places[m], p, t)]
<1>1. /\ Sound(node) /\ Placed(node, D, Places) /\ IInv /\ Grounded(node) /\ D \in SUBSET Node
      /\ Allocated = Alive /\ Marked = Marks(node, D, Places) /\ k \in Key /\ n \notin D
      /\ Root \in Node /\ Root \in D /\ node \in Tree /\ DOMAIN Places = D
  BY NodeTypes, NodeAssumption, Zenon DEF TreePlaced, Placed, Standing, GInv, Rooted, Allocated,
        Sound, WellFormed, Places
<1>2. /\ Added(e, f, d, k, n, s, directory) /\ n # d
      /\ WellFormed(f) /\ Grounded(f)
  <2>1. d \in Node
    BY <1>1
  <2>2. LET made == [Vacate(node, d, Fold[s]) EXCEPT ![n] = MakeNode(s, directory, d)]
        IN  \/ f = Emplace(Reveal(made, d, Fold[s]), d, Fold[s], n)
            \/ f = Emplace(made, d, Fold[s], n) /\ Fold[s] \notin node[d].tombstones
    OBVIOUS
  <2> HIDE DEF D, t, v
  <2>3. Added(Vacate(node, d, Fold[s]), f, d, Fold[s], n, s, directory) /\ n # d /\ WellFormed(f)
    BY <2>1, <2>2, <1>1, NewNodeTree
  <2>4. Grounded(f)
    BY <2>1, <2>2, <1>1, NewNodeEffect
  <2> QED
    BY <2>3, <2>4
<1>3. Sound(f)
  BY <1>2 DEF Sound
<1> HIDE DEF t, e, D
<1>4. /\ Sound(e) /\ Placed(e, D, v) /\ v[d] = Places[d]
      /\ Marks(e, D, v) = {Without(q, p, t) : q \in Marked}
  <2>1. PICK x : x = v
    BY Zenon
  <2>2. PICK y : y = Places
    OBVIOUS
  <2>3. p = Inside(y[d], k) /\ x = [m \in D |-> Without(y[m], p, t)] /\ d \in D
    BY <2>1, <2>2 DEF D
  <2>4. /\ Sound(e) /\ Placed(e, D, x) /\ x[d] = y[d]
        /\ Marks(e, D, x) = {Without(q, p, t) : q \in Marks(node, D, y)}
    <3> HIDE DEF v, k
    <3>1. t = node[d].children[k] /\ e = Vacate(node, d, k)
      BY DEF t, e
    <3>2. Placed(node, D, y)
      BY <1>1, <2>2
    <3> QED
      BY <3>1, <3>2, <2>3, <1>1, VacatePlaced
  <2> QED
    BY <2>1, <2>2, <2>4, <1>1
<1>5. \A q : Names!Vacated(q, p) = Without(q, p, t)
  BY <1>1, WithoutMeans DEF D, t
<1>6. w = With(D, v, n, p)
  <2>1. \A m \in D : v[m] = Names!Vacated(Places[m], p)
    BY <1>5
  <2> QED
    BY <2>1, <1>1 DEF D, Put, With
<1>7. p = Inside(v[d], k) /\ d \in D
  BY <1>4 DEF D
<1>8. /\ Placed(f, D \cup {n}, w)
      /\ Marks(f, D \cup {n}, w) = Marks(e, D, v) \ {p}
  <2> HIDE DEF v, k
  <2>1. n \in Node \ D /\ k = Fold[s]
    BY <1>1 DEF k
  <2>2. PICK x, y, E : x = e /\ y = v /\ E = D
    OBVIOUS
  <2>3. /\ Sound(x) /\ Placed(x, E, y) /\ d \in E /\ n \in Node \ E
        /\ Comes(x, f, d, k, n, s) /\ p = Inside(y[d], k)
        /\ w = With(E, y, n, p)
    BY <2>1, <2>2, <1>2, <1>4, <1>6, <1>7 DEF Comes
  <2>4. Placed(f, DOMAIN w, w) /\ Marks(f, DOMAIN w, w) = Marks(x, E, y) \ {p}
    BY <2>1, <2>3, AddPlaced
  <2>5. DOMAIN w = D \cup {n}
    BY <1>6 DEF With
  <2> QED
    BY <2>2, <2>4, <2>5
<1>9. Marks(f, D \cup {n}, w) = {Names!Vacated(q, p) : q \in Marked} \ {p}
  <2>1. {Names!Vacated(q, p) : q \in Marked} = {Without(q, p, t) : q \in Marked}
    BY <1>5
  <2> QED
    BY <2>1, <1>4, <1>8, Zenon
<1>10. \A m \in D : /\ f[m].name = node[m].name /\ f[m].directory = node[m].directory
                    /\ m # t => f[m].linked = node[m].linked
  <2>1. \A m \in Node : SameFields(node, e, m) /\ (m # t => e[m].linked = node[m].linked)
    BY <1>1, VacateWellFormed DEF Sound, D, e, t
  <2> QED
    BY <2>1, <1>1, <1>2 DEF Added, SameFields
<1>11. Rooted(f)
  <2>1. t # Root
    <3> SUFFICES ASSUME t = Root PROVE FALSE
      OBVIOUS
    <3>1. d \in Node /\ SlotAgrees(node, d, k)
      BY <1>1 DEF Sound, WellFormed, D
    <3>2. node[Root].parent = d
      BY <3>1, <1>1, NodeAssumption DEF SlotAgrees, t
    <3> QED
      BY <3>1, <3>2, <1>1, NodeAssumption DEF Sound, WellFormed
  <2> QED
    BY <2>1, <1>1, <1>10 DEF Rooted, Standing
<1>12. IsGiven(f, D \cup {n}, [of |-> n, name |-> s, directory |-> directory])
  <2>1. f[n].name = s /\ f[n].directory = directory
    BY <1>2 DEF Added, MakeNode
  <2> QED
    BY <2>1, <1>1, <1>10 DEF IsGiven, D
<1>13. DOMAIN w = D \cup {n}
  BY DEF Put, D
<1>14. /\ Sound(f) /\ Rooted(f)
       /\ Placed(f, DOMAIN w, w)
       /\ IsGiven(f, DOMAIN w, given)
  <2>1. Placed(f, DOMAIN w, w)
    BY <1>8, <1>13
  <2>2. IsGiven(f, DOMAIN w, given)
    BY <1>12, <1>13
  <2> QED
    BY <2>1, <2>2, <1>3, <1>11
<1>15. Marks(f, DOMAIN w, w) = Unmarked(p)
  BY <1>9, <1>13 DEF Unmarked
<1>16. Stands(f, w, Unmarked(p), given)
  BY <1>14, <1>15 DEF Stands
<1> QED
  BY <1>0, <1>16

-----------------------------------------------------------------------------
(***************************************************************************)
(* Paths and the places they name.                                         *)
(***************************************************************************)
\* The place of the first i components of a path.
HomeOf(path, i) == Names!Home(SubSeq(path, 1, i))

\* It is that of the components before, and then the next one.
LEMMA HomeMeans ==
  ASSUME NEW path \in Seq(Spelling)
  PROVE  /\ HomeOf(path, 0) = Names!Nowhere(Root)
         /\ \A i \in 1 .. Len(path) : HomeOf(path, i) = Inside(HomeOf(path, i - 1), Fold[path[i]])
         /\ HomeOf(path, Len(path)) = Names!Home(path)
<1> DEFINE keys(i) == [j \in 1 .. i |-> Fold[path[j]]]
<1>1. Len(path) \in Nat /\ \A j \in 1 .. Len(path) : path[j] \in Spelling /\ Fold[path[j]] \in Key
  BY LenProperties, ElementOfSeq, NodeTypes
<1>2. ASSUME NEW i \in 0 .. Len(path)
      PROVE  HomeOf(path, i) = <<Root, keys(i)>> /\ keys(i) \in Seq(Key) /\ Len(keys(i)) = i
  <2>1. PICK s \in Seq(Spelling) : s = SubSeq(path, 1, i) /\ Len(s) = i /\ \A j \in 1 .. i : s[j] = path[j]
    <3>1. i \in Nat /\ \A j \in 1 .. i : path[j] \in Spelling
      BY <1>1
    <3>2. /\ SubSeq(path, 1, i) \in Seq(Spelling)
          /\ Len(SubSeq(path, 1, i)) = i
          /\ \A j \in 1 .. i : SubSeq(path, 1, i)[j] = path[j]
      BY <3>1, SubSeqProperties
    <3> QED
      BY <3>2, Zenon
  <2>2. DOMAIN s = 1 .. i
    BY <2>1, LenProperties
  <2>3. [j \in DOMAIN s |-> Fold[s[j]]] = keys(i)
    BY <2>1, <2>2
  <2>4. HomeOf(path, i) = <<Root, keys(i)>>
    BY <2>1, <2>3 DEF HomeOf, Names!Home
  <2>5. keys(i) \in [1 .. i -> Key] /\ i \in Nat
    BY <1>1
  <2> QED
    BY <2>4, <2>5, IsASeq
<1>3. HomeOf(path, 0) = Names!Nowhere(Root)
  <2>1. 0 \in 0 .. Len(path)
    BY <1>1
  <2>2. keys(0) = <<>>
    <3> HIDE DEF keys
    <3> QED
      BY <1>2, <2>1, EmptySeq
  <2> HIDE DEF keys
  <2> QED
    BY <1>2, <2>1, <2>2 DEF Names!Nowhere
<1>4. ASSUME NEW i \in 1 .. Len(path)
      PROVE  HomeOf(path, i) = Inside(HomeOf(path, i - 1), Fold[path[i]])
  <2>1. i \in 0 .. Len(path) /\ i - 1 \in 0 .. Len(path) /\ i - 1 + 1 = i
    BY <1>1
  <2>2. PICK a, b : a = keys(i) /\ b = keys(i - 1)
    BY Zenon
  <2>3. /\ a \in Seq(Key) /\ b \in Seq(Key) /\ Len(a) = i /\ Len(b) = i - 1
        /\ HomeOf(path, i) = <<Root, a>> /\ HomeOf(path, i - 1) = <<Root, b>>
    <3> HIDE DEF keys
    <3> QED
      BY <1>2, <2>1, <2>2
  <2>4. /\ \A j \in 1 .. i : a[j] = Fold[path[j]]
        /\ \A j \in 1 .. i - 1 : b[j] = Fold[path[j]]
    BY <2>2
  <2>5. PICK c \in Seq(Key) : /\ c = Append(b, Fold[path[i]]) /\ Len(c) = i
                              /\ \A j \in 1 .. i - 1 : c[j] = b[j]
                              /\ c[i] = Fold[path[i]]
    <3>1. PICK k \in Key : k = Fold[path[i]]
      BY <1>1
    <3>2. /\ Append(b, k) \in Seq(Key)
          /\ Len(Append(b, k)) = Len(b) + 1
          /\ \A j \in 1 .. Len(b) : Append(b, k)[j] = b[j]
          /\ Append(b, k)[Len(b) + 1] = k
      BY <2>3, AppendProperties
    <3> QED
      BY <3>1, <3>2, <2>1, <2>3, Zenon
  <2>6. \A j \in 1 .. i : a[j] = c[j]
    BY <2>1, <2>4, <2>5
  <2>7. a = c
    BY <2>3, <2>5, <2>6, SeqEqual
  <2> QED
    BY <2>3, <2>5, <2>7 DEF Inside
<1>5. SubSeq(path, 1, Len(path)) = path
  BY SubSeqFull
<1> QED
  BY <1>3, <1>4, <1>5, Zenon DEF HomeOf

\* A path that is found leads to the node that is there.
LEMMA FindPlaced ==
  ASSUME TreePlaced, Root \in Allocated, NEW path \in Seq(Spelling), FindLocked(path) \in Node
  PROVE  FindLocked(path) \in Allocated /\ Places[FindLocked(path)] = Names!Home(path)
<1> DEFINE Good(n, i) == n # NoNode => n \in Allocated /\ Places[n] = HomeOf(path, i)
<1>1. /\ Sound(node) /\ WellFormed(node) /\ Placed(node, Allocated, Places)
      /\ Len(path) \in Nat
  BY LenProperties DEF TreePlaced, Sound
<1>2. PICK at : Walks(at, path) /\ FindLocked(path) = at[Len(path)]
  BY <1>1, FindWalks
<1>3. \A i \in 1 .. Len(path) : Fold[path[i]] \in Key
  BY NodeTypes
<1>4. Good(at[0], 0)
  BY <1>1, <1>2, HomeMeans, RootPlace DEF Walks
<1>5. ASSUME NEW i \in 1 .. Len(path), Good(at[i - 1], i - 1) PROVE Good(at[i], i)
  <2> DEFINE d == at[i - 1]
             k == Fold[path[i]]
  <2>1. at[i] = IF d = NoNode THEN NoNode
                ELSE IF ~node[d].directory THEN NoNode ELSE node[d].children[k]
    BY <1>2 DEF Walks
  <2>2. HomeOf(path, i) = Inside(HomeOf(path, i - 1), k) /\ k \in Key
    BY <1>3, HomeMeans
  <2> HIDE DEF d, k
  <2>3. ASSUME at[i] # NoNode PROVE at[i] \in Allocated /\ Places[at[i]] = HomeOf(path, i)
    <3>1. d # NoNode /\ at[i] = node[d].children[k]
      BY <2>1, <2>3
    <3>2. d \in Allocated /\ Places[d] = HomeOf(path, i - 1)
      BY <3>1, <1>5 DEF d
    <3>3. at[i] \in Allocated /\ Places[at[i]] = Inside(Places[d], k)
      BY <3>1, <3>2, <2>2, <2>3, <1>1, ChildPlace
    <3> QED
      BY <3>2, <3>3, <2>2
  <2> QED
    BY <2>3
<1> HIDE DEF Good
<1>6. \A i \in 0 .. Len(path) : Good(at[i], i)
  <2> DEFINE bad == {i \in 0 .. Len(path) : ~Good(at[i], i)}
  <2> SUFFICES ASSUME bad # {} PROVE FALSE
    OBVIOUS
  <2>1. PICK i \in bad : \A m \in bad : i <= m
    <3>1. bad \in SUBSET Nat
      OBVIOUS
    <3> HIDE DEF bad
    <3> QED
      BY <3>1, NatLeast
  <2>2. i \in 0 .. Len(path) /\ ~Good(at[i], i)
    OBVIOUS
  <2>3. i # 0
    BY <2>2, <1>4
  <2>4. i - 1 \in 0 .. Len(path) /\ i \in 1 .. Len(path)
    BY <2>2, <2>3, <1>1
  <2>5. Good(at[i - 1], i - 1)
    BY <2>1, <2>4, <1>1
  <2> QED
    BY <2>2, <2>4, <2>5, <1>5
<1>7. Good(at[Len(path)], Len(path))
  BY <1>1, <1>6
<1> QED
  BY <1>2, <1>7, HomeMeans, NodeAssumption DEF Good

-----------------------------------------------------------------------------
(***************************************************************************)
(* Every call is a step of Names.                                          *)
(***************************************************************************)
\* What the invariant gives.
LEMMA PlacedFacts ==
  ASSUME PInv
  PROVE  /\ Standing /\ TreePlaced /\ IInv /\ Grounded(node)
         /\ Sound(node) /\ Rooted(node) /\ Placed(node, Allocated, Places)
         /\ Allocated = Alive /\ Allocated \in SUBSET Node
         /\ Root \in Allocated /\ held \subseteq Allocated
         /\ cursor \in Cursors /\ OnWay(cursor, Places)
         /\ Marked = Marks(node, Allocated, Places)
         /\ DOMAIN Places = Allocated /\ Names!Live = Allocated
<1>1. Standing /\ OnWay(cursor, Places)
  BY DEF PInv
<1>2. TreePlaced
  BY <1>1, StandingPlaced
<1>3. IInv /\ Grounded(node) /\ Rooted(node)
  BY <1>1 DEF Standing, GInv
<1>4. Root \in Allocated /\ held \subseteq Allocated
  BY <1>3, NodeAssumption DEF Rooted, Allocated
<1>5. cursor \in Cursors
  BY <1>3, InvariantFacts
<1>6. DOMAIN Places = Allocated /\ Names!Live = Allocated
  BY DEF Places, Names!Live
<1>7. Allocated \in SUBSET Node
  BY <1>2 DEF TreePlaced, Placed
<1> QED
  BY <1>1, <1>2, <1>3, <1>4, <1>5, <1>6, <1>7 DEF TreePlaced

\* A call that changes handles only.
LEMMA HandleStep ==
  ASSUME PInv, GInv', NEW h, h \subseteq Allocated, Finish(node, h, cursor, dirtyBytes)
  PROVE  PInv' /\ Names!Become(Places, Marked, h, Names!Same)
<1>1. PICK w, D, c, given : w = Places /\ D = Allocated /\ c = cursor /\ given = Names!Same
  OBVIOUS
<1>2. Sound(node) /\ node[Root].directory
  BY PlacedFacts DEF Sound, WellFormed
<1>3. IsGiven(node, D, given)
  <2>1. given.of = Root /\ given.name = NoName /\ given.directory = TRUE
    BY <1>1 DEF Names!Same
  <2> QED
    BY <2>1, <1>1, <1>2, PlacedFacts, Zenon DEF IsGiven, Rooted
<1>4. Built(node, D, w, h, c, given)
  BY <1>1, <1>3, PlacedFacts DEF Built
<1>5. PICK E : E = Marks(node, D, w) /\ E = Marked
  BY <1>1, PlacedFacts
<1>6. PInv' /\ Names!Become(w, E, h, given)
  <2>1. Standing /\ Finish(node, h, c, dirtyBytes)
    BY <1>1, PlacedFacts
  <2> QED
    BY <2>1, <1>4, <1>5, FinishBecomes, Zenon
<1> QED
  BY <1>1, <1>5, <1>6

\* A call that changes no name, nor what is open, changes nothing of Names.
LEMMA NoNameStep ==
  ASSUME PInv, GInv', NEW f, Sound(f), KeepsNames(node, f), \A n \in Node : f[n].name = node[n].name,
         NEW c \in Cursors, OnWay(c, Places), NEW charged, Finish(f, held, c, charged)
  PROVE  PInv' /\ UNCHANGED Names!vars
<1>1. PICK w, D, h, given : w = Places /\ D = Allocated /\ h = held /\ given = Names!Same
  OBVIOUS
<1>2. /\ Sound(node) /\ Placed(node, D, w) /\ Root \in D /\ h \subseteq D /\ Root \in Node
      /\ D \in SUBSET Node /\ DOMAIN w = D /\ D = Alive
  BY <1>1, PlacedFacts
<1>3. \A n \in Node : /\ f[n].directory = node[n].directory /\ f[n].linked = node[n].linked
                      /\ f[n].parent = node[n].parent /\ f[n].children = node[n].children
                      /\ f[n].tombstones = node[n].tombstones /\ f[n].name = node[n].name
  BY DEF KeepsNames
<1>4. Placed(f, D, w)
  BY <1>2, <1>3 DEF Placed
<1>5. IsGiven(f, D, given)
  <2>1. given.of = Root /\ given.name = NoName /\ given.directory = TRUE
    BY <1>1 DEF Names!Same
  <2>2. node[Root].directory /\ node[Root].name = NoName
    BY <1>2, PlacedFacts DEF Sound, WellFormed, Rooted
  <2> QED
    BY <2>1, <2>2, <1>1, <1>2, <1>3, Zenon DEF IsGiven
<1>6. Rooted(f)
  BY <1>2, <1>3, PlacedFacts DEF Rooted
<1>7. Built(f, D, w, h, c, given)
  BY <1>1, <1>2, <1>4, <1>5, <1>6 DEF Built
<1>8. Living(D, w, h) = D
  <2>1. PICK e : e = cursor /\ e \in Cursors /\ OnWay(e, w)
    BY <1>1, PlacedFacts
  <2>2. e # NoOverlay => e.dir \in D /\ w[e.dir][1] = Root
    BY <2>1, <1>2, WayBelowRoot
  <2>3. AliveIn(node, h, e) = Living(D, w, h)
    BY <2>1, <2>2, <1>2, AliveLives
  <2> QED
    BY <2>1, <2>3, <1>1, <1>2 DEF Alive
<1>9. Standing' /\ held' = h /\ cursor' = c
  BY <1>1, <1>7, FinishPlaced
<1>10. PICK f2, v :
          /\ f2 = node' /\ v = Places' /\ D = Allocated'
          /\ \A n \in D : f2[n].name = f[n].name /\ f2[n].directory = f[n].directory
                          /\ f2[n].tombstones = f[n].tombstones
          /\ Placed(f2, D, v)
          /\ v = [n \in D |-> From(D, w, n, w[n])]
          /\ \A n \in D, k \in Key : From(D, w, n, Inside(w[n], k)) = Inside(v[n], k)
  <2>1. D = Living(D, w, h) /\ Finish(f, h, c, charged)
    BY <1>1, <1>8
  <2>2. \E f2, v :
               /\ f2 = node' /\ v = Places'
               /\ D = Allocated'
               /\ \A n \in D : f2[n].name = f[n].name /\ f2[n].directory = f[n].directory
                               /\ f2[n].tombstones = f[n].tombstones
               /\ Placed(f2, D, v)
               /\ v = [n \in D |-> From(D, w, n, w[n])]
               /\ \A n \in D : w[n][1] = Root => v[n] = w[n]
               /\ \A n \in D, k \in Key :
                     /\ Inside(w[n], k) \in Place /\ Inside(v[n], k) \in Place
                     /\ From(D, w, n, Inside(w[n], k)) = Inside(v[n], k)
    BY <2>1, <1>7, FinishPlaced
  <2> QED
    BY <2>2
<1>11. v = w
  <2>1. \A n \in D : IF f[n].parent \in D THEN Top(D, w, n) = Top(D, w, f[n].parent)
                     ELSE Top(D, w, n) = n
    BY <1>2, <1>4, <1>8, TopMeans
  <2>2. v \in [D -> Place]
    BY <1>10 DEF Placed
  <2>3. ASSUME NEW n \in D
        PROVE  IF f[n].parent = NoNode THEN v[n] = Names!Nowhere(n)
               ELSE f[n].parent \in D /\ v[n] = Inside(v[f[n].parent], Fold[f[n].name])
    <3>1. w[n] \in Place /\ n \in Node /\ Names!Nowhere(n) \in Place
      BY <1>2, NowherePlace DEF Placed
    <3>2. v[n] = From(D, w, n, w[n])
      BY <1>10
    <3>3. CASE f[n].parent = NoNode
      <4>1. Top(D, w, n) = n
        BY <2>1, <3>3, <1>2, NodeAssumption
      <4> QED
        BY <4>1, <3>1, <3>2, <3>3, MovedPlace DEF From
    <3>4. CASE f[n].parent # NoNode
      <4> DEFINE p == f[n].parent
                 k == Fold[f[n].name]
      <4>1. p \in D /\ k \in Key /\ w[n] = Inside(w[p], k)
        BY <3>4, <1>4, ParentPlace
      <4>2. Top(D, w, n) = Top(D, w, p)
        BY <4>1, <2>1
      <4> HIDE DEF p, k
      <4>3. From(D, w, p, Inside(w[p], k)) = Inside(v[p], k)
        BY <4>1, <1>10
      <4>4. v[n] = Inside(v[p], k)
        BY <4>1, <4>2, <4>3, <3>2 DEF From
      <4> QED
        BY <4>1, <4>4, <3>4 DEF p, k
    <3> QED
      BY <3>3, <3>4
  <2>4. Placed(f, D, v)
    BY <2>2, <2>3, <1>4 DEF Placed
  <2> QED
    BY <2>4, <1>4, PlacesUnique
<1>12. PInv'
  <2>1. OnWay(c, v)
    BY <1>1, <1>11
  <2> QED
    BY <2>1, <1>9, <1>10 DEF PInv
<1>13. Places' = Places /\ held' = held /\ Allocated' = Allocated
  BY <1>1, <1>9, <1>10, <1>11
<1>14. Spellings' = Spellings
  <2>1. Spellings' = [n \in D |-> f2[n].name]
    BY <1>10 DEF Spellings
  <2> QED
    BY <2>1, <1>1, <1>2, <1>3, <1>10 DEF Spellings
<1>15. Directories' = Directories
  <2>1. Directories' = {n \in D : f2[n].directory}
    BY <1>10 DEF Directories
  <2> QED
    BY <2>1, <1>1, <1>2, <1>3, <1>10 DEF Directories
<1>16. Marked' = Marked
  <2>1. TreePlaced'
    BY <1>9, StandingPlaced, PTL
  <2>2. Marked' = UNION {{Inside(v[d], k) : k \in f2[d].tombstones} : d \in D}
    BY <2>1, <1>10 DEF TreePlaced, Marks
  <2>3. Marked = UNION {{Inside(w[d], k) : k \in node[d].tombstones} : d \in D}
    BY <1>1, PlacedFacts DEF Marks
  <2>4. \A d \in D : f2[d].tombstones = node[d].tombstones
    BY <1>2, <1>3, <1>10
  <2> QED
    BY <2>2, <2>3, <2>4, <1>11
<1> QED
  BY <1>12, <1>13, <1>14, <1>15, <1>16 DEF Names!vars

\* A call that puts a new node at the end of path.
LEMMA PutStep ==
  ASSUME PInv, GInv', NEW d \in Allocated, node[d].directory, NEW f, NEW given,
         Arrives(f, d, given),
         NEW path, Names!Home(path) = Inside(Places[d], Fold[given.name]),
         path[Len(path)] = given.name,
         NEW h, h \subseteq Allocated \cup {given.of}, NEW c \in Cursors,
         OnWay(c, Put(given.of, Names!Home(path))), Finish(f, h, c, dirtyBytes)
  PROVE  PInv' /\ Names!Put(given.of, path, given.directory, h)
<1> DEFINE p == Names!Home(path)
<1>1. PICK q, n, w, D, E :
         /\ q = p /\ n = given.of /\ w = Put(n, q) /\ D = DOMAIN w /\ E = Unmarked(q)
  OBVIOUS
<1>2. Stands(f, w, E, given)
  <2>1. q = Inside(Places[d], Fold[given.name]) /\ Standing /\ TreePlaced
    BY <1>1, PlacedFacts
  <2>2. Stands(f, Put(given.of, q), Unmarked(q), given)
    BY <2>1, NewPlaced
  <2> QED
    BY <1>1, <2>2
<1>3. D = Allocated \cup {n} /\ Root \in D /\ h \subseteq D
  BY <1>1, PlacedFacts DEF Put
<1>4. Built(f, D, w, h, c, given) /\ E = Marks(f, D, w)
  <2>1. OnWay(c, w)
    BY <1>1
  <2> QED
    BY <2>1, <1>1, <1>2, <1>3 DEF Built, Stands
<1>5. PInv' /\ Names!Become(w, E, h, given)
  BY <1>4, FinishBecomes, PlacedFacts
<1>6. E = {Names!Vacated(x, p) : x \in Marked} \ {p}
  BY <1>1 DEF Unmarked
<1>7. w = [m \in Names!Live \cup {n} |-> IF m = n THEN p ELSE Names!Vacated(Places[m], p)]
  BY <1>1, PlacedFacts DEF Put
<1>8. /\ \E s \in Spelling : given.name = s
      /\ given = [of |-> n, name |-> path[Len(path)], directory |-> given.directory]
  <2>1. PICK m \in Node, s \in Spelling, b \in BOOLEAN : given = [of |-> m, name |-> s, directory |-> b]
    BY DEF Arrives
  <2> QED
    BY <2>1, <1>1
<1>9. Names!InDirectory(p)
  <2>1. Places[d] \in Place /\ Fold[given.name] \in Key /\ d \in Directories
    BY <1>8, PlacedFacts, NodeTypes DEF Placed, Directories
  <2>2. p[2] # <<>> /\ Names!Outer(p) = Places[d]
    BY <2>1, InsideFields
  <2> QED
    BY <2>1, <2>2 DEF Names!InDirectory
<1> HIDE DEF p
<1>10. Names!Put(n, path, given.directory, h)
  BY <1>5, <1>6, <1>7, <1>8, <1>9 DEF Names!Put, p
<1> QED
  BY <1>1, <1>5, <1>10

\* What is in the way of something new has nothing in it.
LEMMA ReplacedEmpty ==
  ASSUME PInv, NEW t \in Allocated, Replaceable(t)
  PROVE  Names!Empty(t) /\ \A k \in Key : node[t].children[k] = NoNode
<1>1. t \in Node /\ Sound(node) /\ Placed(node, Allocated, Places) /\ Names!Live = Allocated
  BY PlacedFacts
<1>2. \A k \in Key : node[t].children[k] = NoNode
  BY <1>1 DEF Replaceable, HasChildren, NoChildren, Sound, WellFormed, SlotAgrees
<1>3. \A m \in Allocated \ {t} : ~Names!Within(Places[m], Places[t])
  BY <1>1, <1>2, NothingWithin
<1> QED
  BY <1>1, <1>2, <1>3 DEF Names!Empty

\* The directory that parent_locked finds, and the place at the end of path.
LEMMA ParentPlaced ==
  ASSUME PInv, NEW path \in Paths, NEW p \in Node, NEW s \in Spelling, ParentLocked(path, p, s)
  PROVE  /\ p \in Allocated /\ node[p].directory
         /\ Names!Home(path) = Inside(Places[p], Fold[s])
         /\ path[Len(path)] = s
<1> DEFINE front == SubSeq(path, 1, Len(path) - 1)
<1>1. path \in Seq(Spelling) /\ path # <<>>
  BY PathAssumption DEF ParentLocked
<1>2. Len(path) \in Nat /\ Len(path) # 0
  BY <1>1
<1>3. front \in Seq(Spelling)
  BY <1>1, <1>2
<1>4. p = FindLocked(front) /\ node[p].directory /\ s = path[Len(path)]
  BY DEF ParentLocked
<1>5. HomeOf(path, Len(path) - 1) = Names!Home(front)
  BY DEF HomeOf
<1>6. HomeOf(path, Len(path)) = Inside(HomeOf(path, Len(path) - 1), Fold[path[Len(path)]])
  BY <1>1, <1>2, HomeMeans
<1> HIDE DEF front
<1>7. p \in Allocated /\ Places[p] = Names!Home(front)
  BY <1>3, <1>4, PlacedFacts, FindPlaced
<1>8. HomeOf(path, Len(path)) = Names!Home(path)
  BY <1>1, HomeMeans
<1> QED
  BY <1>4, <1>5, <1>6, <1>7, <1>8

\* Create of the tree (VirtualTree::create_node) puts a new node at the path.
LEMMA CreateImplements ==
  ASSUME PInv, GInv', NEW path \in Paths, NEW directory \in BOOLEAN, NEW replace \in BOOLEAN,
         Create(path, directory, replace)
  PROVE  PInv' /\ \E n \in Node \ Names!Live : Names!Create(n, path, directory)
<1>1. PICK p \in Node, n \in Node \ Alive, s \in Spelling :
         /\ ParentLocked(path, p, s)
         /\ LET t == node[p].children[Fold[s]]
            IN  t # NoNode => replace /\ Replaceable(t)
         /\ LET f == [Vacate(node, p, Fold[s]) EXCEPT ![n] = MakeNode(s, directory, p)]
            IN  Finish(Emplace(Reveal(f, p, Fold[s]), p, Fold[s], n), held \cup {n}, cursor,
                       dirtyBytes)
  BY Zenon DEF Create
<1> DEFINE made == [Vacate(node, p, Fold[s]) EXCEPT ![n] = MakeNode(s, directory, p)]
           f == Emplace(Reveal(made, p, Fold[s]), p, Fold[s], n)
           t == node[p].children[Fold[s]]
<1>2. /\ p \in Allocated /\ node[p].directory
      /\ Names!Home(path) = Inside(Places[p], Fold[s])
      /\ path[Len(path)] = s
  BY <1>1, ParentPlaced
<1>3. held \cup {n} \subseteq Allocated \cup {n} /\ Allocated = Alive /\ Names!Live = Allocated
  BY PlacedFacts
<1>4. PICK c : c = cursor /\ c \in Cursors /\ c = NoOverlay
  BY PlacedFacts DEF Create, Unlocked
<1>5. OnWay(c, Put(n, Names!Home(path)))
  BY <1>4 DEF OnWay
<1>6. PICK h : h = held \cup {n}
  BY Zenon
<1>7. Finish(f, h, c, dirtyBytes)
  BY <1>1, <1>4, <1>6
<1>8. PInv' /\ Names!Put(n, path, directory, h)
  <2>1. PICK given : given = [of |-> n, name |-> s, directory |-> directory]
    BY Zenon
  <2>2. Arrives(f, p, given)
    BY <2>1 DEF Arrives
  <2> HIDE DEF f
  <2>3. given.of = n /\ given.name = s /\ given.directory = directory
    BY <2>1
  <2>4. PInv' /\ Names!Put(given.of, path, given.directory, h)
    <3>1. /\ Names!Home(path) = Inside(Places[p], Fold[given.name])
          /\ path[Len(path)] = given.name
          /\ h \subseteq Allocated \cup {given.of}
          /\ OnWay(c, Put(given.of, Names!Home(path)))
      BY <2>3, <1>2, <1>3, <1>5, <1>6
    <3> QED
      BY <3>1, <2>2, <1>2, <1>4, <1>7, PutStep, Zenon
  <2> QED
    BY <2>3, <2>4
<1>9. \A x \in Names!Occupants(Names!Home(path)) : Names!Empty(x)
  <2>1. Fold[s] \in Key
    BY NodeTypes
  <2>2. PICK q : q = Names!Home(path)
    OBVIOUS
  <2>3. Names!Occupants(q) = {t} \ {NoNode}
    BY <2>1, <2>2, <1>2, PlacedFacts, WithoutMeans
  <2>4. t # NoNode => t \in Allocated /\ Replaceable(t)
    BY <2>1, <1>1, <1>2, PlacedFacts DEF Placed
  <2> QED
    BY <2>2, <2>3, <2>4, ReplacedEmpty
<1>10. Names!Create(n, path, directory)
  BY <1>6, <1>8, <1>9 DEF Names!Create
<1> QED
  BY <1>3, <1>8, <1>10

\* Where an overlay stands: after the first i components of its path.
OnPath(c, w, path, i) ==
    /\ path \in Paths /\ i \in 0 .. Len(path) - 1
    /\ c.rest = SubSeq(path, i + 1, Len(path))
    /\ w[c.dir] = HomeOf(path, i)

\* The place that an overlay comes to next.
LEMMA NextOnWay ==
  ASSUME NEW c, NEW w, NEW path, NEW i, OnPath(c, w, path, i)
  PROVE  /\ i \in Nat /\ i + 1 \in 1 .. Len(path) /\ path \in Seq(Spelling)
         /\ Head(c.rest) = path[i + 1] /\ path[i + 1] \in Spelling
         /\ Len(c.rest) # 1 => i + 1 \in 0 .. Len(path) - 1
         /\ Tail(c.rest) = SubSeq(path, i + 1 + 1, Len(path))
         /\ HomeOf(path, i + 1) = Inside(w[c.dir], Fold[path[i + 1]])
<1>1. path \in Seq(Spelling) /\ Len(path) \in Nat /\ i \in Nat /\ i + 1 \in 1 .. Len(path)
      /\ i + 1 - 1 = i
  BY PathAssumption, LenProperties DEF OnPath
<1>2. path[i + 1] \in Spelling
  BY <1>1, ElementOfSeq
<1>3. HomeOf(path, i + 1) = Inside(w[c.dir], Fold[path[i + 1]])
  <2>1. HomeOf(path, i + 1) = Inside(HomeOf(path, i + 1 - 1), Fold[path[i + 1]])
    BY <1>1, HomeMeans
  <2> QED
    BY <2>1, <1>1 DEF OnPath
<1>4. c.rest = SubSeq(path, i + 1, Len(path))
  BY DEF OnPath
<1>5. Len(c.rest) = Len(path) - i
  BY <1>1, <1>4
<1>6. Len(c.rest) # 1 => i + 1 \in 0 .. Len(path) - 1
  BY <1>1, <1>5
<1>7. Head(c.rest) = path[i + 1]
  BY <1>1, <1>4
<1>8. Tail(c.rest) = SubSeq(path, i + 1 + 1, Len(path))
  BY <1>1, <1>4
<1> QED
  BY <1>1, <1>2, <1>3, <1>6, <1>7, <1>8, Zenon

\* Handles: to look something up is to open it, and to release is to close.
LEMMA LookupImplements ==
  ASSUME PInv, GInv', NEW path \in Paths, Lookup(path)
  PROVE  PInv' /\ Names!Open(path)
<1>1. PICK n \in Node : n = FindLocked(path) /\ Finish(node, held \cup {n}, cursor, dirtyBytes)
  BY Zenon DEF Lookup
<1>2. path \in Seq(Spelling)
  BY PathAssumption
<1>3. n \in Allocated /\ Places[n] = Names!Home(path)
  BY <1>1, <1>2, PlacedFacts, FindPlaced
<1>4. PICK h : h = held \cup {n}
  BY Zenon
<1>5. PInv' /\ Names!Become(Places, Marked, h, Names!Same)
  BY <1>1, <1>3, <1>4, PlacedFacts, HandleStep
<1>6. n \in Names!Occupants(Names!Home(path))
  BY <1>3, PlacedFacts DEF Names!Occupants
<1> QED
  BY <1>4, <1>5, <1>6, Zenon DEF Names!Open

\* Release of a handle is Close of the names.
LEMMA ReleaseImplements ==
  ASSUME PInv, GInv', NEW n \in Node, Release(n)
  PROVE  PInv' /\ n \in held /\ Names!Close(n)
<1>1. n \in held /\ Finish(node, held \ {n}, cursor, dirtyBytes)
  BY DEF Release
<1>2. PICK h : h = held \ {n}
  BY Zenon
<1>3. PInv' /\ Names!Become(Places, Marked, h, Names!Same)
  BY <1>1, <1>2, PlacedFacts, HandleStep
<1> QED
  BY <1>1, <1>2, <1>3 DEF Names!Close

\* Nothing of what is written changes a name.
LEMMA PagesImplement ==
  ASSUME PInv, GInv', NEW n \in Node, NEW S \in SUBSET Page, NEW charged,
         Finish(WithPages(node, n, S), held, cursor, charged)
  PROVE  PInv' /\ UNCHANGED Names!vars
<1>1. PICK f : f = WithPages(node, n, S)
  OBVIOUS
<1>2. WellFormed(node) /\ node \in Tree
  BY PlacedFacts, InvariantFacts
<1>3. KeepsNames(node, f) /\ \A m \in Node : f[m].name = node[m].name
  <2>1. f[n] = [node[n] EXCEPT !.dirtyPages = S] /\ node[n] \in NodeType
    BY <1>1, <1>2 DEF WithPages, Tree
  <2>2. /\ f[n].directory = node[n].directory /\ f[n].linked = node[n].linked
        /\ f[n].parent = node[n].parent /\ f[n].children = node[n].children
        /\ f[n].tombstones = node[n].tombstones /\ f[n].name = node[n].name
    BY <2>1 DEF NodeType
  <2>3. \A m \in Node \ {n} : f[m] = node[m]
    BY <1>1, <1>2, PagesWellFormed
  <2> QED
    BY <2>2, <2>3 DEF KeepsNames
<1>4. Sound(f)
  <2>1. WellFormed(f)
    BY <1>1, <1>2, PagesWellFormed
  <2>2. Grounded(f)
    BY <1>3, PlacedFacts, GroundedLess DEF KeepsNames
  <2> QED
    BY <2>1, <2>2 DEF Sound
<1>5. PICK c : c = cursor
  OBVIOUS
<1>6. c \in Cursors /\ OnWay(c, Places) /\ Finish(f, held, c, charged)
  BY <1>1, <1>5, PlacedFacts
<1> QED
  BY <1>3, <1>4, <1>6, NoNameStep

\* Write changes no name.
LEMMA WriteImplements ==
  ASSUME PInv, GInv', NEW n \in Node, NEW first \in Page, NEW last \in Page, Write(n, first, last)
  PROVE  PInv' /\ UNCHANGED Names!vars
<1> DEFINE needed == (first .. last) \ node[n].dirtyPages
           S == node[n].dirtyPages \cup needed
<1>1. S \in SUBSET Page
  BY PlacedFacts, InvariantFacts, TreeFields, QuotaAssumption DEF Page
<1>2. Finish(WithPages(node, n, S), held, cursor, dirtyBytes + PageSize * Cardinality(needed))
  BY DEF Write, WithPages
<1> HIDE DEF S, needed
<1> QED
  BY <1>1, <1>2, PagesImplement

\* Resize changes no name.
LEMMA ResizeImplements ==
  ASSUME PInv, GInv', NEW n \in Node, NEW firstRemoved, Resize(n, firstRemoved)
  PROVE  PInv' /\ UNCHANGED Names!vars
<1> DEFINE removed == PagesRemoved(n, firstRemoved)
           S == node[n].dirtyPages \ removed
<1>1. S \in SUBSET Page
  BY PlacedFacts, InvariantFacts, TreeFields
<1>2. Finish(WithPages(node, n, S), held, cursor, dirtyBytes - PageSize * Cardinality(removed))
  BY DEF Resize, WithPages
<1> HIDE DEF S, removed
<1> QED
  BY <1>1, <1>2, PagesImplement

\* An overlay on its way.
LEMMA WayStep ==
  ASSUME PInv, GInv', NEW c \in Cursors, OnWay(c, Places), Finish(node, held, c, dirtyBytes)
  PROVE  PInv' /\ UNCHANGED Names!vars
<1>1. Sound(node) /\ KeepsNames(node, node)
  BY PlacedFacts DEF KeepsNames
<1> QED
  BY <1>1, NoNameStep

\* The start of an overlay changes no name.
LEMMA BeginImplements ==
  ASSUME PInv, GInv', NEW path \in Paths, BeginOverlay(path)
  PROVE  PInv' /\ UNCHANGED Names!vars
<1>1. PICK c : c = [dir |-> Root, rest |-> path]
  BY Zenon
<1>2. path # <<>> /\ Finish(node, held, c, dirtyBytes)
  BY <1>1 DEF BeginOverlay
<1>3. path \in Seq(Spelling) /\ Len(path) \in Nat
  BY PathAssumption
<1>4. 0 \in 0 .. Len(path) - 1 /\ path = SubSeq(path, 0 + 1, Len(path))
  BY <1>2, <1>3, EmptySeq
<1>5. Places[Root] = Names!Home(SubSeq(path, 1, 0))
  BY <1>3, PlacedFacts, RootPlace, HomeMeans DEF HomeOf
<1>6. c \in Cursors /\ c.dir = Root /\ c.rest = path
  BY <1>1, <1>3, NodeAssumption DEF Cursors, Cursor
<1>7. OnWay(c, Places)
  BY <1>4, <1>5, <1>6, PlacedFacts DEF OnWay
<1> QED
  BY <1>2, <1>6, <1>7, WayStep

\* An overlay that meets a deleted name changes no name.
LEMMA HiddenImplements ==
  ASSUME PInv, GInv', OverlayHidden
  PROVE  PInv' /\ UNCHANGED Names!vars
<1>1. PICK c : c = NoOverlay
  OBVIOUS
<1>2. c \in Cursors /\ OnWay(c, Places) /\ Finish(node, held, c, dirtyBytes)
  BY <1>1 DEF OverlayHidden, Cursors, OnWay
<1> QED
  BY <1>2, WayStep

\* An overlay that steps into a directory changes no name, and stays on its way.
LEMMA DescendImplements ==
  ASSUME PInv, GInv', OverlayDescend
  PROVE  PInv' /\ UNCHANGED Names!vars
<1>1. PICK t \in Node : t = CursorNode /\ Finish(node, held, [dir |-> t, rest |-> Tail(cursor.rest)], dirtyBytes)
  BY Zenon DEF OverlayDescend
<1>2. PICK o : o = cursor
  OBVIOUS
<1>3. o # NoOverlay /\ Len(o.rest) # 1 /\ OnWay(o, Places) /\ o \in Cursors
  BY <1>2, PlacedFacts DEF OverlayDescend, AtLastComponent
<1>4. PICK path, i : OnPath(o, Places, path, i)
  BY <1>3, Zenon DEF OnWay, OnPath, HomeOf
<1>5. /\ i + 1 \in 0 .. Len(path) - 1 /\ path[i + 1] \in Spelling
      /\ Head(o.rest) = path[i + 1]
      /\ Tail(o.rest) = SubSeq(path, i + 1 + 1, Len(path))
      /\ HomeOf(path, i + 1) = Inside(Places[o.dir], Fold[path[i + 1]])
      /\ path \in Seq(Spelling)
  BY <1>3, <1>4, NextOnWay, Zenon
<1>6. o.dir \in Allocated /\ Fold[path[i + 1]] \in Key
  BY <1>3, <1>5, PlacedFacts, NodeTypes DEF OnWay
<1>7. t = node[o.dir].children[Fold[path[i + 1]]]
  BY <1>1, <1>2, <1>5, Zenon DEF CursorNode, CursorKey
<1>8. t \in Allocated /\ Places[t] = HomeOf(path, i + 1)
  <2>1. PICK k \in Key, d \in Allocated : k = Fold[path[i + 1]] /\ d = o.dir
    BY <1>6
  <2>2. t = node[d].children[k] /\ t # NoNode /\ Sound(node) /\ Placed(node, Allocated, Places)
    BY <2>1, <1>7, PlacedFacts, NodeAssumption
  <2>3. t \in Allocated /\ Places[t] = Inside(Places[d], k)
    BY <2>2, ChildPlace
  <2> QED
    BY <2>1, <2>3, <1>5
<1>9. PICK c : c = [dir |-> t, rest |-> Tail(o.rest)]
  BY Zenon
<1>10. /\ c.dir = t /\ c.rest = SubSeq(path, i + 1 + 1, Len(path))
       /\ Finish(node, held, c, dirtyBytes)
  BY <1>1, <1>2, <1>5, <1>9, Zenon
<1>11. c \in Cursors
  <2>1. o.rest \in Seq(Spelling) /\ o.rest # <<>>
    <3>1. o.rest \in Seq(Spelling)
      BY <1>3 DEF Cursors, Cursor
    <3>2. o.rest # <<>>
      BY <1>2, <1>3, PlacedFacts, InvariantFacts DEF CursorOK
    <3> QED
      BY <3>1, <3>2
  <2>2. Tail(o.rest) \in Seq(Spelling)
    BY <2>1
  <2> QED
    BY <2>2, <1>9 DEF Cursors, Cursor
<1>12. OnWay(c, Places)
  <2>1. PICK j : j = i + 1
    OBVIOUS
  <2>2. /\ c.rest = SubSeq(path, j + 1, Len(path))
        /\ Places[c.dir] = Names!Home(SubSeq(path, 1, j))
        /\ j \in 0 .. Len(path) - 1
        /\ path \in Paths /\ c.dir \in DOMAIN Places
    BY <2>1, <1>4, <1>5, <1>8, <1>10, PlacedFacts DEF HomeOf, OnPath
  <2> QED
    BY <2>2 DEF OnWay
<1> QED
  BY <1>10, <1>11, <1>12, WayStep

\* A place is marked deleted only in its directory.
LEMMA MarkedOnlyThere ==
  ASSUME PInv, NEW d \in Allocated, NEW k \in Key, NEW p, p = Inside(Places[d], k), p \in Marked
  PROVE  k \in node[d].tombstones
<1>1. Sound(node) /\ Placed(node, Allocated, Places) /\ Marked = Marks(node, Allocated, Places)
  BY PlacedFacts
<1>2. PICK m \in Allocated : \E j \in node[m].tombstones : p = Inside(Places[m], j)
  BY <1>1 DEF Marks
<1>3. PICK j \in node[m].tombstones : p = Inside(Places[m], j)
  BY <1>2
<1>4. m \in Node /\ Places[m] \in Place /\ Places[d] \in Place
  BY <1>1 DEF Placed
<1>5. j \in Key
  BY <1>1, <1>3, <1>4, TreeFields DEF Sound, WellFormed
<1>6. Inside(Places[m], j) = Inside(Places[d], k)
  BY <1>3
<1>7. Places[m] = Places[d] /\ j = k
  BY <1>4, <1>5, <1>6, InsideInjective
<1>8. m = d
  BY <1>1, <1>7, PlacesDiffer
<1> QED
  BY <1>3, <1>7, <1>8

\* What an overlay puts in the tree, it puts where nothing was deleted.
LEMMA OverlayPuts ==
  ASSUME PInv, GInv', cursor # NoOverlay, ~CursorHidden, NEW n \in Node \ Alive,
         NEW directory \in BOOLEAN, NEW c \in Cursors, OverlayPut(n, directory, c),
         NEW path, NEW i, OnPath(cursor, Places, path, i),
         c # NoOverlay => c = [dir |-> n, rest |-> Tail(cursor.rest)] /\ ~AtLastComponent,
         directory /\ CursorNode # NoNode => ~node[CursorNode].directory
  PROVE  PInv' /\ Names!Overlay(n, SubSeq(path, 1, i + 1), directory)
<1> DEFINE b == SubSeq(path, 1, i + 1)
<1>1. PICK o, d, s, k : /\ o = cursor /\ d = o.dir /\ s = Head(o.rest) /\ k = Fold[s]
  OBVIOUS
<1>2. OnPath(o, Places, path, i) /\ o \in Cursors /\ o # NoOverlay /\ OnWay(o, Places)
  BY <1>1, PlacedFacts
<1>3. /\ i \in Nat /\ i + 1 \in 1 .. Len(path) /\ path \in Seq(Spelling)
      /\ s = path[i + 1] /\ s \in Spelling
      /\ Len(o.rest) # 1 => i + 1 \in 0 .. Len(path) - 1
      /\ Tail(o.rest) = SubSeq(path, i + 1 + 1, Len(path))
      /\ HomeOf(path, i + 1) = Inside(Places[d], k)
  <2>1. /\ i \in Nat /\ i + 1 \in 1 .. Len(path) /\ path \in Seq(Spelling)
        /\ Head(o.rest) = path[i + 1] /\ path[i + 1] \in Spelling
        /\ Len(o.rest) # 1 => i + 1 \in 0 .. Len(path) - 1
        /\ Tail(o.rest) = SubSeq(path, i + 1 + 1, Len(path))
        /\ HomeOf(path, i + 1) = Inside(Places[o.dir], Fold[path[i + 1]])
    BY ONLY <1>2, NextOnWay, SMTT(30)
  <2> QED
    BY <2>1, <1>1
<1>4. d \in Allocated /\ k \in Key /\ node[d].directory
  <2>1. d \in Allocated
    BY <1>1, <1>2, PlacedFacts DEF OnWay
  <2>2. node[d].directory
    BY <1>1, <1>2, PlacedFacts, InvariantFacts DEF CursorOK
  <2> QED
    BY <2>1, <2>2, <1>1, <1>3, NodeTypes
<1>5. /\ k \notin node[d].tombstones
      /\ CursorNode = node[d].children[k]
  BY <1>1 DEF CursorHidden, CursorNode, CursorKey
<1>6. PICK p : p = Names!Home(b) /\ p = Inside(Places[d], k)
  BY <1>3 DEF HomeOf
<1>7. p \notin Marked
  BY <1>4, <1>5, <1>6, MarkedOnlyThere
<1>8. directory => Names!Occupants(p) \cap Directories = {}
  <2>1. Names!Occupants(p) = {CursorNode} \ {NoNode}
    BY <1>4, <1>5, <1>6, PlacedFacts, WithoutMeans
  <2> QED
    BY <2>1 DEF Directories
<1>9. b[Len(b)] = s
  <2>1. Len(b) = i + 1 /\ b[i + 1] = path[i + 1]
    BY <1>3
  <2> QED
    BY <2>1, <1>3
<1>10. OnWay(c, Put(n, p))
  <2> SUFFICES ASSUME c # NoOverlay PROVE OnWay(c, Put(n, p))
    BY DEF OnWay
  <2>1. c.dir = n /\ c.rest = SubSeq(path, i + 1 + 1, Len(path)) /\ Len(o.rest) # 1
    <3>1. c.dir = n /\ c.rest = Tail(cursor.rest) /\ ~AtLastComponent
      OBVIOUS
    <3>2. Len(o.rest) # 1
      BY <3>1, <1>1 DEF AtLastComponent
    <3> QED
      BY <3>1, <3>2, <1>1, <1>3, Zenon
  <2>2. PICK w, j : w = Put(n, p) /\ j = i + 1
    OBVIOUS
  <2>3. n \in DOMAIN w /\ w[n] = p
    BY <2>2 DEF Put
  <2>4. /\ c.rest = SubSeq(path, j + 1, Len(path))
        /\ w[c.dir] = Names!Home(SubSeq(path, 1, j))
        /\ j \in 0 .. Len(path) - 1
        /\ path \in Paths /\ c.dir \in DOMAIN w
    BY <2>1, <2>2, <2>3, <1>2, <1>3, <1>6 DEF OnPath
  <2>5. OnWay(c, w)
    BY <2>4 DEF OnWay
  <2> QED
    BY <2>2, <2>5
<1> DEFINE made == [Vacate(node, d, k) EXCEPT ![n] = MakeNode(s, directory, d)]
           f == Emplace(made, d, k, n)
<1>11. Finish(f, held, c, dirtyBytes)
  BY <1>1 DEF OverlayPut, CursorKey
<1>12. PICK given : given = [of |-> n, name |-> s, directory |-> directory]
  BY Zenon
<1>13. Arrives(f, d, given)
  BY <1>1, <1>3, <1>5, <1>12, Zenon DEF Arrives
<1> HIDE DEF f, b
<1>14. given.of = n /\ given.name = s /\ given.directory = directory
  BY <1>12
<1>15. PInv' /\ Names!Put(given.of, b, given.directory, held)
  <2>1. /\ Names!Home(b) = Inside(Places[d], Fold[given.name])
        /\ b[Len(b)] = given.name
        /\ held \subseteq Allocated \cup {given.of}
        /\ OnWay(c, Put(given.of, Names!Home(b)))
    BY <1>1, <1>6, <1>9, <1>10, <1>14, PlacedFacts
  <2> QED
    BY <2>1, <1>4, <1>11, <1>13, PutStep
<1>16. PInv' /\ Names!Put(n, b, directory, held)
  BY <1>14, <1>15
<1>17. Names!Overlay(n, b, directory)
  BY <1>6, <1>7, <1>8, <1>16 DEF Names!Overlay
<1> QED
  BY <1>16, <1>17 DEF b

\* The beginning of a path.
LEMMA IsBeginning ==
  ASSUME NEW c, NEW w, NEW path, NEW i, OnPath(c, w, path, i)
  PROVE  SubSeq(path, 1, i + 1) \in Names!Beginnings
<1>1. path \in Paths /\ i + 1 \in 1 .. Len(path)
  BY NextOnWay DEF OnPath
<1> QED
  BY <1>1 DEF Names!Beginnings

\* What an overlay makes, a directory on its way or the file at its end, is new
\* and at a beginning of the path.
LEMMA OverlayPutsNew ==
  ASSUME PInv, GInv', OverlayMakeDirectory \/ OverlayPlaceFile
  PROVE  PInv' /\ \E n \in Node \ Names!Live, directory \in BOOLEAN :
                     \E path \in Names!Beginnings : Names!Overlay(n, path, directory)
<1>1. PICK o : o = cursor
  OBVIOUS
<1>2. o # NoOverlay /\ OnWay(o, Places) /\ o \in Cursors
  BY <1>1, PlacedFacts, Zenon DEF OverlayMakeDirectory, OverlayPlaceFile
<1>3. PICK path, i : OnPath(o, Places, path, i)
  BY <1>2, Zenon DEF OnWay, OnPath, HomeOf
<1>4. OnPath(cursor, Places, path, i)
  BY <1>1, <1>3
<1>5. PICK b : b = SubSeq(path, 1, i + 1) /\ b \in Names!Beginnings
  BY <1>3, IsBeginning, Zenon
<1>6. Allocated = Alive /\ Names!Live = Allocated
  BY PlacedFacts
<1>7. CASE OverlayMakeDirectory
  <2>1. PICK n \in Node \ Alive : OverlayPut(n, TRUE, [dir |-> n, rest |-> Tail(cursor.rest)])
    BY <1>7, Zenon DEF OverlayMakeDirectory
  <2>2. /\ cursor # NoOverlay /\ ~CursorHidden /\ ~AtLastComponent
        /\ CursorNode # NoNode => ~node[CursorNode].directory
    BY <1>7 DEF OverlayMakeDirectory
  <2>3. PICK c : c = [dir |-> n, rest |-> Tail(cursor.rest)]
    BY Zenon
  <2>4. c \in Cursors
    <3>1. o.rest \in Seq(Spelling)
      BY <1>2 DEF Cursors, Cursor
    <3>2. o.rest # <<>>
      BY <1>1, <1>2, PlacedFacts, InvariantFacts DEF CursorOK
    <3>3. Tail(o.rest) \in Seq(Spelling)
      BY <3>1, <3>2
    <3> QED
      BY <3>3, <2>3, <1>1 DEF Cursors, Cursor
  <2>5. OverlayPut(n, TRUE, c)
    BY <2>1, <2>3, Zenon
  <2>6. PInv' /\ Names!Overlay(n, SubSeq(path, 1, i + 1), TRUE)
    BY <2>2, <2>3, <2>4, <2>5, <1>4, OverlayPuts, Zenon
  <2> QED
    BY <2>6, <1>5, <1>6, Zenon
<1>8. CASE OverlayPlaceFile
  <2>1. PICK n \in Node \ Alive : OverlayPut(n, FALSE, NoOverlay)
    BY <1>8, Zenon DEF OverlayPlaceFile
  <2>2. /\ cursor # NoOverlay /\ ~CursorHidden /\ NoOverlay \in Cursors
    BY <1>8 DEF OverlayPlaceFile, Cursors
  <2>3. PInv' /\ Names!Overlay(n, SubSeq(path, 1, i + 1), FALSE)
    BY <2>1, <2>2, <1>4, OverlayPuts, Zenon
  <2> QED
    BY <2>3, <1>5, <1>6, Zenon
<1> QED
  BY <1>7, <1>8

\* The places w after all at or below one place has moved to another.
Follow(D, w, from, to) == [m \in D |-> Names!Moved(w[m], from, to)]

\* The marks E then, when the place that was left is marked and those of gone are not.
MarksFollow(E, from, to, gone) == ({Names!Moved(q, from, to) : q \in E} \cup {from}) \ gone

\* The tree g is f but for where n is.
OnlyMoves(f, g, D, n) ==
    /\ g \in Tree
    /\ \A m \in D \ {n} : g[m].parent = f[m].parent /\ g[m].name = f[m].name
    /\ \A m \in D, k \in Key : g[m].children[k] # NoNode => g[m].children[k] \in D

\* g has n at r, and the marks that it should have but for those at gone.
Arrived(f, g, D, v, n, r, gone) ==
    /\ IF g[n].parent = NoNode THEN r = Names!Nowhere(n)
       ELSE g[n].parent \in D /\ r = Inside(v[g[n].parent], Fold[g[n].name])
    /\ \A m \in D, i \in Key :
          i \in g[m].tombstones <=>
             /\ i \in f[m].tombstones \/ (m = f[n].parent /\ i = Fold[f[n].name])
             /\ Inside(v[m], i) \notin gone

\* In g the nodes D are where v says, and the marks are E.
LaidOut(g, D, v, E) == Placed(g, D, v) /\ Marks(g, D, v) = E

\* What was marked below the old place of n is marked below its new one, and so
\* is the old place.
LEMMA MovePlaced ==
  ASSUME NEW f, Sound(f), NEW D, NEW w, Placed(f, D, w), NEW n \in D, f[n].parent # NoNode,
         NEW r \in Place, NEW v, v = Follow(D, w, w[n], r), NEW g, OnlyMoves(f, g, D, n),
         NEW gone, Arrived(f, g, D, v, n, r, gone)
  PROVE  LaidOut(g, D, v, MarksFollow(Marks(f, D, w), w[n], r, gone))
<1> DEFINE q == f[n].parent
           j == Fold[f[n].name]
<1>1. /\ D \in SUBSET Node /\ f \in Tree /\ g \in Tree /\ n \in Node
      /\ q \in D /\ w[q] \in Place /\ j \in Key /\ w[n] = Inside(w[q], j) /\ f[q].children[j] = n
  <2>1. /\ q \in D /\ w[q] \in Place /\ j \in Key /\ w[n] = Inside(w[q], j) /\ f[q].children[j] = n
    BY ParentPlace
  <2> QED
    BY <2>1 DEF Placed, Sound, WellFormed, OnlyMoves
<1> HIDE DEF q, j
<1>2. /\ Placed(g, D, v)
      /\ \A m \in D : ~Names!Within(w[m], w[n]) => v[m] = w[m]
      /\ \A d \in D, k \in Key :
            f[d].children[k] # n => Names!Moved(Inside(w[d], k), w[n], r) = Inside(v[d], k)
  <2>1. v = [m \in D |-> Names!Moved(w[m], w[n], r)]
    BY DEF Follow
  <2>2. \A m \in D \ {n} : g[m].parent = f[m].parent /\ g[m].name = f[m].name
    BY DEF OnlyMoves
  <2>3. \A m \in D, k \in Key : g[m].children[k] # NoNode => g[m].children[k] \in D
    BY DEF OnlyMoves
  <2>4. IF g[n].parent = NoNode THEN r = Names!Nowhere(n)
        ELSE g[n].parent \in D /\ r = Inside(v[g[n].parent], Fold[g[n].name])
    BY DEF Arrived
  <2> QED
    BY <2>1, <2>2, <2>3, <2>4, Relocate
<1>3. Inside(v[q], j) = w[n]
  <2>1. ~Names!Within(w[q], w[n])
    BY <1>1, NotWithinChild
  <2>2. v[q] = w[q]
    BY <2>1, <1>1, <1>2
  <2> QED
    BY <2>2, <1>1
<1>4. ASSUME NEW m \in D, NEW i \in Key, i \in f[m].tombstones
      PROVE  Names!Moved(Inside(w[m], i), w[n], r) = Inside(v[m], i)
  <2>1. f[m].children[i] # n
    BY <1>1, <1>4, NodeAssumption DEF Sound, WellFormed
  <2> QED
    BY <2>1, <1>2
<1>5. \A m \in D, i \in Key :
         i \in g[m].tombstones <=>
            (i \in f[m].tombstones \/ (m = q /\ i = j)) /\ Inside(v[m], i) \notin gone
  BY DEF Arrived, q, j
<1>6. \A m \in D : f[m].tombstones \subseteq Key /\ g[m].tombstones \subseteq Key
  BY <1>1, TreeFields
<1> DEFINE E == Marks(f, D, w)
           M == {Names!Moved(e, w[n], r) : e \in E}
<1>7. ASSUME NEW e \in Marks(g, D, v) PROVE e \in (M \cup {w[n]}) \ gone
  <2>1. PICK m \in D : \E i \in g[m].tombstones : e = Inside(v[m], i)
    BY <1>7 DEF Marks
  <2>2. PICK i \in g[m].tombstones : e = Inside(v[m], i)
    BY <2>1
  <2>3. i \in Key /\ (i \in f[m].tombstones \/ (m = q /\ i = j)) /\ e \notin gone
    BY <2>2, <1>5, <1>6
  <2>4. CASE i \in f[m].tombstones
    <3>1. e = Names!Moved(Inside(w[m], i), w[n], r)
      BY <2>2, <2>3, <2>4, <1>4
    <3>2. Inside(w[m], i) \in E
      BY <2>4 DEF Marks
    <3> QED
      BY <3>1, <3>2, <2>3
  <2>5. CASE m = q /\ i = j
    BY <2>2, <2>3, <2>5, <1>3
  <2> QED
    BY <2>3, <2>4, <2>5
<1>8. ASSUME NEW e \in (M \cup {w[n]}) \ gone PROVE e \in Marks(g, D, v)
  <2>1. CASE e = w[n]
    <3>1. j \in g[q].tombstones /\ e = Inside(v[q], j)
      BY <2>1, <1>1, <1>3, <1>5, <1>8
    <3> QED
      BY <3>1, <1>1 DEF Marks
  <2>2. CASE e # w[n]
    <3>1. PICK x \in E : e = Names!Moved(x, w[n], r)
      BY <2>2, <1>8
    <3>2. PICK m \in D : \E i \in f[m].tombstones : x = Inside(w[m], i)
      BY <3>1 DEF Marks
    <3>3. PICK i \in f[m].tombstones : x = Inside(w[m], i)
      BY <3>2
    <3>4. i \in Key /\ e = Inside(v[m], i)
      BY <3>1, <3>3, <1>4, <1>6
    <3>5. i \in g[m].tombstones
      BY <3>3, <3>4, <1>5, <1>8
    <3> QED
      BY <3>4, <3>5 DEF Marks
  <2> QED
    BY <2>1, <2>2
<1>9. Marks(g, D, v) = (M \cup {w[n]}) \ gone
  BY <1>7, <1>8
<1> QED
  BY <1>2, <1>9 DEF MarksFollow, LaidOut

\* Remove takes the node out of its place and marks the place deleted.
LEMMA RemoveImplements ==
  ASSUME PInv, GInv', NEW n \in Node, Remove(n)
  PROVE  PInv' /\ n \in held /\ Names!Delete(n)
<1> DEFINE d == node[n].parent
           k == Fold[node[n].name]
<1>1. /\ n \in held /\ Removable(n) /\ cursor = NoOverlay
      /\ Finish(Unlinked(node, n), held, cursor, dirtyBytes)
  BY DEF Remove, Unlinked, Unlocked
<1>2. n \in Allocated /\ d # NoNode /\ n # Root /\ Replaceable(n)
  BY <1>1, PlacedFacts DEF Removable, Replaceable
<1>3. /\ Sound(node) /\ Placed(node, Allocated, Places) /\ Root \in Allocated
      /\ Allocated \in SUBSET Node /\ WellFormed(node) /\ node \in Tree
  BY PlacedFacts, InvariantFacts
<1>4. /\ d \in Allocated /\ k \in Key /\ Places[n] = Inside(Places[d], k) /\ node[d].children[k] = n
      /\ Places[d] \in Place
  BY <1>2, <1>3, ParentPlace
<1>5. PICK g : g = Unlinked(node, n)
  OBVIOUS
<1>6. WellFormed(g) /\ Grounded(g) /\ Sound(g)
  BY <1>1, <1>5, PlacedFacts, RemoveEffect DEF Sound
<1>7. Deleted(node, g, n, d, k)
  BY <1>3, <1>4, <1>5, UnlinkFields
<1>8. PICK D, w, p, r : D = Allocated /\ w = Places /\ p = Places[n] /\ r = Names!Nowhere(n)
  OBVIOUS
<1>9. r \in Place /\ p \in Place /\ p[2] # <<>>
  BY <1>2, <1>3, <1>4, <1>8, NowherePlace, InsideFields
<1>10. PICK v : v = Follow(D, w, w[n], r)
  OBVIOUS
<1>11. Placed(g, D, v) /\ Marks(g, D, v) = MarksFollow(Marks(node, D, w), w[n], r, {})
  <2>1. OnlyMoves(node, g, D, n)
    <3>1. \A m \in D, i \in Key : node[m].children[i] # NoNode => node[m].children[i] \in D
      BY <1>3, <1>8 DEF Placed
    <3> QED
      BY <3>1, <1>3, <1>7, <1>8 DEF OnlyMoves, Deleted
  <2>2. \A m \in D, i \in Key :
          i \in g[m].tombstones <=> (i \in node[m].tombstones \/ (m = d /\ i = k))
    BY <1>3, <1>7, <1>8 DEF Deleted
  <2>3. g[n].parent = NoNode
    BY <1>7 DEF Deleted
  <2> HIDE DEF d, k
  <2>4. PICK gone : gone = {}
    BY Zenon
  <2>5. Arrived(node, g, D, v, n, r, gone)
    BY <2>2, <2>3, <2>4, <1>8 DEF Arrived, d, k
  <2>6. n \in D /\ node[n].parent # NoNode /\ Sound(node) /\ Placed(node, D, w)
    BY <1>2, <1>3, <1>8 DEF d
  <2>7. Placed(g, D, v) /\ Marks(g, D, v) = MarksFollow(Marks(node, D, w), w[n], r, gone)
    <3>1. LaidOut(g, D, v, MarksFollow(Marks(node, D, w), w[n], r, gone))
      BY <2>1, <2>5, <2>6, <1>9, <1>10, MovePlaced, Zenon
    <3> QED
      BY <3>1 DEF LaidOut
  <2> QED
    BY <2>4, <2>7
<1>12. PICK h, c, given : h = held /\ c = cursor /\ given = Names!Same
  OBVIOUS
<1>14. \A q : Names!Vacated(q, p) = Names!Moved(q, p, r)
  <2>1. n # NoNode
    BY NodeAssumption
  <2> QED
    BY <2>1, <1>4, <1>8, PlacedFacts, WithoutMeans DEF Without
<1>15. IsGiven(g, D, given)
  <2>1. given.of = Root /\ given.name = NoName /\ given.directory = TRUE
    BY <1>12 DEF Names!Same
  <2>2. node[Root].directory /\ node[Root].name = NoName
    BY <1>3, PlacedFacts DEF WellFormed, Rooted
  <2>3. \A m \in D : g[m].name = node[m].name /\ g[m].directory = node[m].directory
    BY <1>3, <1>7, <1>8 DEF Deleted
  <2> QED
    BY <2>1, <2>2, <2>3, <1>3, <1>8, Zenon DEF IsGiven
<1>16. Rooted(g)
  <2>1. g[Root].name = node[Root].name /\ g[Root].linked = node[Root].linked
    BY <1>2, <1>3, <1>7, NodeAssumption DEF Deleted
  <2> QED
    BY <2>1, PlacedFacts DEF Rooted
<1>17. Built(g, D, v, h, c, given)
  <2>1. c \in Cursors /\ c = NoOverlay /\ OnWay(c, v)
    BY <1>1, <1>12, PlacedFacts DEF OnWay
  <2> QED
    BY <2>1, <1>3, <1>6, <1>8, <1>11, <1>12, <1>15, <1>16, PlacedFacts DEF Built
<1>18. PICK E : E = Marks(g, D, v)
  OBVIOUS
<1>19. PInv' /\ Names!Become(v, E, h, given)
  <2>1. Finish(g, h, c, dirtyBytes) /\ Standing
    BY <1>1, <1>5, <1>12, PlacedFacts
  <2> QED
    BY <2>1, <1>17, <1>18, FinishBecomes
<1>20. v = [m \in Names!Live |-> Names!Vacated(Places[m], Places[n])]
  BY <1>8, <1>10, <1>14, PlacedFacts DEF Follow
<1>21. E = {Names!Vacated(q, Places[n]) : q \in Marked} \cup {Places[n]}
  <2>1. E = {Names!Moved(q, p, r) : q \in Marked} \cup {p}
    BY <1>8, <1>11, <1>18, PlacedFacts DEF MarksFollow
  <2>2. {Names!Moved(q, p, r) : q \in Marked} = {Names!Vacated(q, p) : q \in Marked}
    BY <1>14
  <2> QED
    BY <2>1, <2>2, <1>8
<1>22. Names!Empty(n)
  BY <1>2, ReplacedEmpty
<1>23. Places[n] # Names!Nowhere(n)
  BY <1>8, <1>9 DEF Names!Nowhere
<1>24. Names!Delete(n)
  BY <1>12, <1>19, <1>20, <1>21, <1>22, <1>23 DEF Names!Delete
<1> QED
  BY <1>1, <1>19, <1>24

\* The place q, the places and the marks after t, which was at r, has lost its
\* place to n, unless it is n.
Ceded(q, r, t, n) == IF t = n THEN q ELSE Without(q, r, t)
CededPlaces(r, t, n) == [m \in Allocated |-> Ceded(Places[m], r, t, n)]
CededMarks(r, t, n) == {Ceded(q, r, t, n) : q \in Marked}

\* Where everything is when rename has cleared the slot it moves n to.
LEMMA ClearedPlaced ==
  ASSUME PInv, NEW n \in Allocated, NEW p \in Allocated, NEW s \in Spelling,
         NEW r, r = Inside(Places[p], Fold[s]), NEW t, t = node[p].children[Fold[s]],
         NEW f, f = Cleared(n, p, s), NEW w, w = CededPlaces(r, t, n)
  PROVE  /\ Sound(f) /\ LaidOut(f, Allocated, w, CededMarks(r, t, n))
         /\ w[p] = Places[p]
<1>1. /\ Sound(node) /\ Placed(node, Allocated, Places) /\ DOMAIN Places = Allocated
      /\ Marked = Marks(node, Allocated, Places) /\ Fold[s] \in Key
  BY PlacedFacts, NodeTypes
<1>2. CASE t = n
  <2>1. f = node
    BY <1>2 DEF Cleared
  <2>2. w = [m \in Allocated |-> Places[m]]
    BY <1>2 DEF CededPlaces, Ceded
  <2>3. Places \in [Allocated -> Place]
    BY <1>1 DEF Placed
  <2>4. w = Places
    BY <2>2, <2>3
  <2>5. CededMarks(r, t, n) = Marked
    BY <1>2 DEF CededMarks, Ceded
  <2> QED
    BY <2>1, <2>4, <2>5, <1>1 DEF LaidOut
<1>3. CASE t # n
  <2>1. f = Vacate(node, p, Fold[s])
    BY <1>3 DEF Cleared
  <2>2. PICK D, y, k : D = Allocated /\ y = Places /\ k = Fold[s]
    OBVIOUS
  <2>3. w = [m \in D |-> Without(y[m], r, t)]
    BY <2>2, <1>3 DEF CededPlaces, Ceded
  <2>4. /\ Sound(f) /\ Placed(f, D, w) /\ w[p] = y[p]
        /\ Marks(f, D, w) = {Without(q, r, t) : q \in Marks(node, D, y)}
    <3>1. /\ r = Inside(y[p], k) /\ t = node[p].children[k] /\ f = Vacate(node, p, k)
          /\ Placed(node, D, y) /\ p \in D /\ k \in Key
      BY <2>1, <2>2, <1>1
    <3> QED
      BY <3>1, <2>3, <1>1, VacatePlaced
  <2>5. CededMarks(r, t, n) = {Without(q, r, t) : q \in Marked}
    BY <1>3 DEF CededMarks, Ceded
  <2> QED
    BY <2>2, <2>4, <2>5, <1>1 DEF LaidOut
<1> QED
  BY <1>2, <1>3

\* A directory is never moved to where it is above.
LEMMA NotMovedBelow ==
  ASSUME PInv, NEW n \in Allocated, NEW p \in Allocated, p # n, ~MovesIntoItself(n, p)
  PROVE  ~Names!Within(Places[p], Places[n])
<1>1. Sound(node) /\ Placed(node, Allocated, Places) /\ n \in Node
  BY PlacedFacts
<1>2. CASE node[n].directory
  BY <1>1, <1>2, WithinIsAbove DEF MovesIntoItself
<1>3. CASE ~node[n].directory
  <2>1. \A k \in Key : node[n].children[k] = NoNode
    BY <1>1, <1>3 DEF Sound, WellFormed, SlotAgrees
  <2> QED
    BY <2>1, <1>1, NothingWithin
<1> QED
  BY <1>2, <1>3

\* What is not in what is replaced stays where it is.
LEMMA CededKeeps ==
  ASSUME PInv, NEW n \in Allocated, NEW p \in Allocated, NEW k \in Key,
         NEW r, r = Inside(Places[p], k), NEW t, t = node[p].children[k],
         t \notin {NoNode, n} => Replaceable(t), NEW w, w = CededPlaces(r, t, n)
  PROVE  w[n] = Places[n]
<1>1. Sound(node) /\ Placed(node, Allocated, Places) /\ w[n] = Ceded(Places[n], r, t, n)
  BY PlacedFacts DEF CededPlaces
<1>2. CASE t \in {NoNode, n}
  BY <1>1, <1>2 DEF Ceded, Without
<1>3. CASE t \notin {NoNode, n}
  <2>1. t \in Allocated /\ Places[t] = r /\ t \in Node
    BY <1>1, <1>3, ChildPlace
  <2>2. Names!Empty(t) /\ n \in Names!Live
    BY <2>1, <1>3, ReplacedEmpty, PlacedFacts
  <2>3. ~Names!Within(Places[n], Places[t])
    BY <2>2, <1>3 DEF Names!Empty
  <2>4. PICK x, q, y : x = Names!Nowhere(t) /\ q = Places[n] /\ y = Places[t]
    OBVIOUS
  <2>5. x \in Place /\ q \in Place /\ y \in Place
    BY <2>1, <2>4, <1>1, NowherePlace DEF Placed
  <2>6. Names!Moved(q, y, x) = q
    BY <2>3, <2>4, <2>5, MovedPlace
  <2> QED
    BY <2>1, <2>4, <2>6, <1>1, <1>3 DEF Ceded, Without
<1> QED
  BY <1>2, <1>3

\* The places and the marks when n then comes to r.
RenamedPlaces(r, t, n) == Follow(Allocated, CededPlaces(r, t, n), Places[n], r)
RenamedMarks(r, t, n) == MarksFollow(CededMarks(r, t, n), Places[n], r, {r})

\* g has the names of the tree, but for that of n, which is s.
IsNamed(g, n, s) ==
    /\ g[n].name = s
    /\ \A m \in Node : g[m].directory = node[m].directory /\ (m # n => g[m].name = node[m].name)

\* Where everything is when n has been moved to the slot Fold[s] of p.
LEMMA RenamedPlaced ==
  ASSUME PInv, NEW n \in Allocated, n # Root, node[n].parent # NoNode,
         NEW p \in Allocated, NEW s \in Spelling, p \in FromRoot(node), node[p].directory,
         ~MovesIntoItself(n, p), NEW r, r = Inside(Places[p], Fold[s]),
         NEW t, t = node[p].children[Fold[s]], NEW replace, MayReplace(n, t, replace),
         NEW g, g = Renamed(n, p, s)
  PROVE  /\ Sound(g) /\ Rooted(g)
         /\ LaidOut(g, Allocated, RenamedPlaces(r, t, n), RenamedMarks(r, t, n))
         /\ IsNamed(g, n, s)
<1> DEFINE q == node[n].parent
           j == Fold[node[n].name]
           k == Fold[s]
<1>1. /\ Sound(node) /\ WellFormed(node) /\ Placed(node, Allocated, Places) /\ IInv /\ Grounded(node)
      /\ Allocated \in SUBSET Node /\ k \in Key /\ Root \in Allocated
  BY PlacedFacts, InvariantFacts, NodeTypes
<1> PICK w, v : w = CededPlaces(r, t, n) /\ v = Follow(Allocated, w, Places[n], r)
  OBVIOUS
<1>2. PICK f, D : f = Cleared(n, p, s) /\ D = Allocated
  OBVIOUS
<1>3. /\ p # n /\ WellFormed(f) /\ f[n].parent = q
      /\ \A m \in Node : SameFields(node, f, m)
      /\ Moved(f, g, n, q, j, p, k, s) /\ WellFormed(g)
  BY <1>1, <1>2, RenameTree
<1>4. Grounded(g)
  BY <1>1, RenameEffect
<1>5. Sound(g)
  BY <1>3, <1>4 DEF Sound
<1>6. /\ Sound(f) /\ LaidOut(f, D, w, CededMarks(r, t, n))
      /\ w[p] = Places[p]
  BY <1>2, ClearedPlaced
<1>7. w[n] = Places[n]
  <2>1. t \notin {NoNode, n} => Replaceable(t)
    BY DEF MayReplace
  <2> QED
    BY <2>1, <1>1, CededKeeps
<1>8. Placed(f, D, w) /\ Marks(f, D, w) = CededMarks(r, t, n)
  BY <1>6 DEF LaidOut
<1>9. p \in D /\ n \in D /\ D \in SUBSET Node /\ w[p] \in Place /\ r \in Place
  <2>1. Places[p] \in Place
    BY <1>1 DEF Placed
  <2> QED
    BY <2>1, <1>1, <1>2, <1>6, InsideFields
<1>10. v = Follow(D, w, w[n], r) /\ \A m \in D : v[m] = Names!Moved(w[m], w[n], r)
  BY <1>2, <1>7 DEF Follow
<1>11. v[p] = w[p] /\ r = Inside(v[p], k)
  <2>1. ~Names!Within(w[p], w[n])
    BY <1>1, <1>3, <1>6, <1>7, NotMovedBelow
  <2>2. w[n] \in Place
    BY <1>8, <1>9 DEF Placed
  <2>3. v[p] = w[p]
    <3>1. PICK x, y : x = w[p] /\ y = w[n]
      OBVIOUS
    <3>2. x \in Place /\ y \in Place /\ ~Names!Within(x, y) /\ r \in Place
      BY <2>1, <2>2, <3>1, <1>9
    <3>3. Names!Moved(x, y, r) = x
      BY <3>2, MovedPlace
    <3> QED
      BY <3>1, <3>3, <1>9, <1>10
  <2> QED
    BY <2>3, <1>6
<1>12. /\ g \in Tree
       /\ \A m \in Node : /\ g[m].directory = f[m].directory
                          /\ g[m].linked = f[m].linked
                          /\ g[m].name = IF m = n THEN s ELSE f[m].name
                          /\ g[m].parent = IF m = n THEN p ELSE f[m].parent
       /\ \A m \in Node, i \in Key :
             g[m].children[i] = IF m = p /\ i = k THEN n
                                ELSE IF m = q /\ i = j THEN NoNode
                                ELSE f[m].children[i]
       /\ \A m \in Node, i \in Key :
             i \in g[m].tombstones <=> (i \in f[m].tombstones \/ (m = q /\ i = j)) /\ ~(m = p /\ i = k)
  <2>1. \A m \in Node : g[m].tombstones \subseteq Key
    BY <1>3, TreeFields DEF WellFormed
  <2> HIDE DEF q, j, k
  <2> QED
    BY <2>1, <1>3 DEF Moved
<1>13. f[n].name = node[n].name /\ \A m \in Node : f[m].directory = node[m].directory /\ f[m].name = node[m].name
  BY <1>3, <1>9 DEF SameFields
<1> HIDE DEF q, j, k
<1>14. OnlyMoves(f, g, D, n)
  <2>1. \A m \in D, i \in Key : f[m].children[i] # NoNode => f[m].children[i] \in D
    BY <1>8 DEF Placed
  <2> QED
    BY <2>1, <1>9, <1>12 DEF OnlyMoves
<1>15. IF g[n].parent = NoNode THEN r = Names!Nowhere(n)
       ELSE g[n].parent \in D /\ r = Inside(v[g[n].parent], Fold[g[n].name])
  <2>1. g[n].parent = p /\ g[n].name = s /\ p # NoNode
    BY <1>9, <1>12, NodeAssumption
  <2> QED
    BY <2>1, <1>9, <1>11 DEF k
<1>16. Placed(g, D, v)
  <2>1. v = [m \in D |-> Names!Moved(w[m], w[n], r)]
    BY <1>10 DEF Follow
  <2>2. \A m \in D \ {n} : g[m].parent = f[m].parent /\ g[m].name = f[m].name
    BY <1>14 DEF OnlyMoves
  <2>3. \A m \in D, i \in Key : g[m].children[i] # NoNode => g[m].children[i] \in D
    BY <1>14 DEF OnlyMoves
  <2> QED
    BY ONLY <2>1, <2>2, <2>3, <1>6, <1>8, <1>9, <1>15, Relocate
<1>17. PICK gone : gone = {r}
  BY Zenon
<1>18. Arrived(f, g, D, v, n, r, gone)
  <2>1. ASSUME NEW m \in D, NEW i \in Key PROVE Inside(v[m], i) \notin gone <=> ~(m = p /\ i = k)
    <3>1. v[m] \in Place /\ v[p] \in Place /\ k \in Key
      BY <1>1, <1>9, <1>16 DEF Placed, k
    <3>2. ASSUME Inside(v[m], i) = Inside(v[p], k) PROVE m = p /\ i = k
      <4>1. v[m] = v[p] /\ i = k
        BY <3>1, <3>2, InsideInjective
      <4> QED
        BY <4>1, <1>5, <1>9, <1>16, PlacesDiffer
    <3>3. ASSUME m = p /\ i = k PROVE Inside(v[m], i) = Inside(v[p], k)
      BY <3>3
    <3> QED
      BY <3>2, <3>3, <1>11, <1>17
  <2>2. \A m \in D, i \in Key :
          i \in g[m].tombstones <=> (i \in f[m].tombstones \/ (m = f[n].parent /\ i = Fold[f[n].name]))
                                      /\ Inside(v[m], i) \notin gone
    BY <2>1, <1>3, <1>9, <1>12, <1>13 DEF q, j
  <2> QED
    BY <2>2, <1>15 DEF Arrived
<1>19. LaidOut(g, D, v, MarksFollow(Marks(f, D, w), w[n], r, gone))
  <2>1. f[n].parent # NoNode
    BY <1>3 DEF q
  <2> QED
    BY <2>1, <1>6, <1>8, <1>9, <1>10, <1>14, <1>18, MovePlaced
<1>20. LaidOut(g, Allocated, RenamedPlaces(r, t, n), RenamedMarks(r, t, n))
  <2>1. LaidOut(g, Allocated, v, MarksFollow(CededMarks(r, t, n), Places[n], r, {r}))
    BY <1>2, <1>7, <1>8, <1>17, <1>19
  <2> QED
    BY <2>1 DEF RenamedPlaces, RenamedMarks
<1>21. Rooted(g)
  <2>1. t # Root
    <3> SUFFICES ASSUME t = Root PROVE FALSE
      OBVIOUS
    <3>1. p \in Node /\ SlotAgrees(node, p, k)
      BY <1>1, <1>9 DEF WellFormed
    <3>2. node[Root].parent = p
      BY <3>1, NodeAssumption DEF SlotAgrees, k
    <3> QED
      BY <3>1, <3>2, <1>1, NodeAssumption DEF WellFormed
  <2>2. f[Root].linked = node[Root].linked
    <3>1. CASE t = n
      BY <3>1, <1>2, Zenon DEF Cleared
    <3>2. CASE t # n
      <4>1. f = Vacate(node, p, k) /\ t = node[p].children[k] /\ p \in Node /\ Root \in Node
        BY <3>2, <1>1, <1>2, <1>9, NodeAssumption DEF Cleared, k
      <4> QED
        BY <4>1, <2>1, <1>1, VacateWellFormed
    <3> QED
      BY <3>1, <3>2
  <2> QED
    BY <2>2, <1>1, <1>9, <1>12, <1>13, PlacedFacts DEF Rooted
<1>22. IsNamed(g, n, s)
  BY <1>9, <1>12, <1>13 DEF IsNamed
<1> QED
  BY <1>5, <1>20, <1>21, <1>22

\* Rename moves the node with all that is in it, and marks the place it left.
LEMMA RenameImplements ==
  ASSUME PInv, GInv', NEW n \in Node, NEW path \in Paths, NEW replace \in BOOLEAN,
         Rename(n, path, replace)
  PROVE  PInv' /\ n \in held /\ Names!Rename(n, path)
<1>1. n \in held /\ IInv
  BY PlacedFacts DEF Rename
<1>2. n # Root /\ node[n].parent # NoNode /\ cursor = NoOverlay
  BY <1>1, RenameCall
<1>3. PICK p \in Node, s \in Spelling :
         /\ ParentLocked(path, p, s) /\ node[p].directory
         /\ ~MovesIntoItself(n, p)
         /\ MayReplace(n, node[p].children[Fold[s]], replace)
         /\ Finish(Renamed(n, p, s), held, cursor, dirtyBytes)
  BY <1>1, RenameCall
<1>4. /\ p \in Allocated /\ Names!Home(path) = Inside(Places[p], Fold[s]) /\ path[Len(path)] = s
  BY <1>3, ParentPlaced
<1>5. n \in Allocated /\ p \in FromRoot(node) /\ Fold[s] \in Key
  BY <1>1, <1>3, PlacedFacts, LockedParentReached, NodeTypes
<1> DEFINE r == Names!Home(path)
<1>6. PICK t, g, w, v :
         /\ t = node[p].children[Fold[s]] /\ g = Renamed(n, p, s)
         /\ w = CededPlaces(r, t, n) /\ v = RenamedPlaces(r, t, n)
  OBVIOUS
<1>7. r = Inside(Places[p], Fold[s]) /\ MayReplace(n, t, replace)
  BY <1>3, <1>4, <1>6
<1> HIDE DEF r
<1>8. /\ Sound(g) /\ Rooted(g)
      /\ LaidOut(g, Allocated, v, RenamedMarks(r, t, n))
      /\ IsNamed(g, n, s)
  BY <1>2, <1>3, <1>4, <1>5, <1>6, <1>7, RenamedPlaced, Zenon
<1>9. PICK D, h, c, given, E :
         /\ D = Allocated /\ h = held /\ c = cursor
         /\ given = [of |-> n, name |-> s, directory |-> node[n].directory]
         /\ E = Marks(g, D, v)
  BY Zenon
<1>10. IsGiven(g, D, given)
  <2>1. given.of = n /\ given.name = s /\ given.directory = node[n].directory
    BY <1>9
  <2>2. Allocated \in SUBSET Node
    BY PlacedFacts
  <2> QED
    BY <2>1, <2>2, <1>8, <1>9 DEF IsGiven, IsNamed
<1>11. Built(g, D, v, h, c, given)
  <2>1. c \in Cursors /\ c = NoOverlay /\ OnWay(c, v)
    BY <1>2, <1>9, PlacedFacts DEF OnWay
  <2>2. Placed(g, D, v)
    BY <1>8, <1>9 DEF LaidOut
  <2> QED
    BY <2>1, <2>2, <1>8, <1>9, <1>10, PlacedFacts DEF Built
<1>12. PInv' /\ Names!Become(v, E, h, given)
  <2>1. Finish(g, h, c, dirtyBytes) /\ Standing
    BY <1>3, <1>6, <1>9, PlacedFacts
  <2> QED
    BY <2>1, <1>9, <1>11, FinishBecomes
<1>13. Names!Occupants(r) = {t} \ {NoNode} /\ \A q : Names!Vacated(q, r) = Without(q, r, t)
  BY <1>4, <1>5, <1>6, <1>7, PlacedFacts, WithoutMeans
<1> DEFINE To(q) == Names!Moved(IF n \in Names!Occupants(r) THEN q ELSE Names!Vacated(q, r), Places[n], r)
<1>14. \A q : To(q) = Names!Moved(Ceded(q, r, t, n), Places[n], r)
  <2>1. n \in Names!Occupants(r) <=> t = n
    BY <1>13, NodeAssumption
  <2>2. \A q : (IF n \in Names!Occupants(r) THEN q ELSE Names!Vacated(q, r)) = Ceded(q, r, t, n)
    BY <2>1, <1>13 DEF Ceded
  <2> QED
    BY <2>2
<1> HIDE DEF To
<1>15. v = [m \in Names!Live |-> To(Places[m])]
  <2>1. \A m \in Allocated : w[m] = Ceded(Places[m], r, t, n)
    BY <1>6 DEF CededPlaces
  <2> QED
    BY <2>1, <1>6, <1>14, PlacedFacts DEF Follow, RenamedPlaces
<1>16. E = ({To(q) : q \in Marked} \cup {Places[n]}) \ {r}
  <2>1. E = MarksFollow(CededMarks(r, t, n), Places[n], r, {r})
    BY <1>8, <1>9 DEF LaidOut, RenamedMarks
  <2>2. E = ({Names!Moved(q, Places[n], r) : q \in CededMarks(r, t, n)} \cup {Places[n]}) \ {r}
    BY <2>1 DEF MarksFollow
  <2>3. {Names!Moved(q, Places[n], r) : q \in CededMarks(r, t, n)} = {To(q) : q \in Marked}
    BY <1>14 DEF CededMarks
  <2> QED
    BY <2>2, <2>3
<1>17. given = [of |-> n, name |-> path[Len(path)], directory |-> n \in Directories]
  <2>1. node[n].directory \in BOOLEAN
    BY <1>1, InvariantFacts, TreeFields
  <2>2. node[n].directory = (n \in Directories)
    BY <2>1, <1>5 DEF Directories
  <2> QED
    BY <2>2, <1>4, <1>9
<1>18. /\ Names!InDirectory(r) /\ Names!Outer(r) = Places[p]
  <2>1. Places[p] \in Place /\ p \in Directories
    BY <1>3, <1>4, PlacedFacts DEF Placed, Directories
  <2>2. r[2] # <<>> /\ Names!Outer(r) = Places[p]
    BY <2>1, <1>5, <1>7, InsideFields
  <2> QED
    BY <2>1, <2>2 DEF Names!InDirectory
<1>19. ~Names!Within(Names!Outer(r), Places[n])
  <2>1. p # n
    BY <1>2, <1>3, <1>1, RenameTree
  <2> QED
    BY <2>1, <1>3, <1>4, <1>5, <1>18, NotMovedBelow
<1>20. Places[n] # Names!Nowhere(n)
  <2>1. /\ node[n].parent \in Allocated /\ Fold[node[n].name] \in Key
        /\ Places[n] = Inside(Places[node[n].parent], Fold[node[n].name])
        /\ Places[node[n].parent] \in Place
    BY <1>2, <1>5, PlacedFacts, ParentPlace
  <2>2. Places[n][2] # <<>>
    BY <2>1, InsideFields
  <2> QED
    BY <2>2 DEF Names!Nowhere
<1>21. \A x \in Names!Occupants(r) \ {n} :
          Names!Empty(x) /\ (x \in Directories <=> n \in Directories)
  <2> SUFFICES ASSUME NEW x \in Names!Occupants(r) \ {n}
               PROVE  Names!Empty(x) /\ (x \in Directories <=> n \in Directories)
    OBVIOUS
  <2>1. x = t /\ t \notin {NoNode, n}
    BY <1>13
  <2>2. t \in Allocated
    BY <2>1, <1>4, <1>5, <1>6, PlacedFacts DEF Placed
  <2>3. Replaceable(t) /\ node[t].directory = node[n].directory
    BY <2>1, <1>7 DEF MayReplace
  <2>4. Names!Empty(t)
    BY <2>2, <2>3, ReplacedEmpty
  <2> QED
    BY <2>1, <2>2, <2>3, <2>4, <1>5 DEF Directories
<1>22. Names!Become([m \in Names!Live |-> To(Places[m])],
                    ({To(q) : q \in Marked} \cup {Places[n]}) \ {r}, held,
                    [of |-> n, name |-> path[Len(path)], directory |-> n \in Directories])
  BY <1>9, <1>12, <1>15, <1>16, <1>17, Zenon
<1>23. Names!Rename(n, path)
  BY <1>18, <1>19, <1>20, <1>21, <1>22 DEF Names!Rename, To, r
<1> QED
  BY <1>1, <1>12, <1>23

\* Every step of the tree is one of its names.
LEMMA NextImplements == PInv /\ [Next]_vars => PInv' /\ [Names!Next]_(Names!vars)
<1> SUFFICES ASSUME PInv, [Next]_vars PROVE PInv' /\ [Names!Next]_(Names!vars)
  OBVIOUS
<1>1. GInv'
  BY NextGrounded DEF PInv, Standing
<1>2. ASSUME NEW path \in Paths, Lookup(path) PROVE PInv' /\ Names!Next
  BY <1>1, <1>2, LookupImplements DEF Names!Next
<1>3. ASSUME NEW n \in Node, Release(n) PROVE PInv' /\ Names!Next
  BY <1>1, <1>3, ReleaseImplements DEF Names!Next
<1>4. ASSUME NEW path \in Paths, NEW directory \in BOOLEAN, NEW replace \in BOOLEAN,
             Create(path, directory, replace)
      PROVE  PInv' /\ Names!Next
  <2>1. PInv' /\ \E n \in Node \ Names!Live : Names!Create(n, path, directory)
    BY <1>1, <1>4, CreateImplements
  <2> QED
    BY <2>1 DEF Names!Next
<1>5. ASSUME NEW n \in Node, Remove(n) PROVE PInv' /\ Names!Next
  BY <1>1, <1>5, RemoveImplements DEF Names!Next
<1>6. ASSUME NEW n \in Node, NEW path \in Paths, NEW replace \in BOOLEAN, Rename(n, path, replace)
      PROVE  PInv' /\ Names!Next
  BY <1>1, <1>6, RenameImplements DEF Names!Next
<1>7. ASSUME NEW n \in Node, NEW first \in Page, NEW last \in Page, Write(n, first, last)
      PROVE  PInv' /\ UNCHANGED Names!vars
  BY <1>1, <1>7, WriteImplements
<1>8. ASSUME NEW n \in Node, NEW firstRemoved, Resize(n, firstRemoved)
      PROVE  PInv' /\ UNCHANGED Names!vars
  BY <1>1, <1>8, ResizeImplements
<1>9. ASSUME NEW path \in Paths, BeginOverlay(path) PROVE PInv' /\ UNCHANGED Names!vars
  BY <1>1, <1>9, BeginImplements
<1>10. ASSUME OverlayHidden \/ OverlayDescend PROVE PInv' /\ UNCHANGED Names!vars
  BY <1>1, <1>10, HiddenImplements, DescendImplements
<1>11. ASSUME OverlayMakeDirectory \/ OverlayPlaceFile PROVE PInv' /\ Names!Next
  <2>1. PInv' /\ \E n \in Node \ Names!Live, directory \in BOOLEAN :
                     \E path \in Names!Beginnings : Names!Overlay(n, path, directory)
    BY <1>1, <1>11, OverlayPutsNew
  <2> QED
    BY <2>1 DEF Names!Next
<1>12. ASSUME UNCHANGED vars PROVE PInv' /\ UNCHANGED Names!vars
  <2>1. node' = node /\ held' = held /\ cursor' = cursor
    BY <1>12 DEF vars
  <2>2. Standing'
    BY <2>1, <1>1, PlacedFacts DEF Standing, Rooted
  <2>3. TreePlaced'
    BY <2>2, StandingPlaced, PTL
  <2>4. PICK D, v : D = Allocated' /\ v = Places' /\ D = Allocated
    BY <2>1, Zenon DEF Allocated
  <2>5. Placed(node, D, v)
    BY <2>1, <2>3, <2>4 DEF TreePlaced, Placed
  <2>6. v = Places
    BY <2>4, <2>5, PlacedFacts, PlacesUnique
  <2>7. Places' = Places /\ Allocated' = Allocated
    BY <2>4, <2>6
  <2>8. Marked' = Marked
    BY <2>1, <2>3, <2>7, PlacedFacts DEF TreePlaced, Marks
  <2>9. Directories' = Directories /\ Spellings' = Spellings
    BY <2>1, <2>7 DEF Directories, Spellings
  <2>10. PInv'
    BY <2>1, <2>2, <2>7, PlacedFacts DEF PInv, OnWay
  <2> QED
    BY <2>1, <2>7, <2>8, <2>9, <2>10 DEF Names!vars
<1> QED
  BY <1>2, <1>3, <1>4, <1>5, <1>6, <1>7, <1>8, <1>9, <1>10, <1>11, <1>12 DEF Next, OverlayStep

\* The tree with nothing in it.
LEMMA InitImplements == Init => PInv /\ Names!Init
<1> SUFFICES ASSUME Init PROVE PInv /\ Names!Init
  OBVIOUS
<1>1. GInv
  BY InitGrounded
<1>2. /\ node[Root].linked /\ node[Root].name = NoName /\ node[Root].directory
      /\ node[Root].parent = NoNode /\ node[Root].tombstones = {}
      /\ \A n \in Node \ {Root} : ~node[n].linked
      /\ held = {} /\ cursor = NoOverlay /\ Root \in Node
  BY NodeAssumption DEF Init, MakeNode, Unallocated
<1>3. PInv
  BY <1>1, <1>2 DEF PInv, Standing, Rooted, OnWay
<1>4. Allocated = {Root}
  BY <1>2 DEF Allocated
<1>5. Placed(node, Allocated, Places) /\ Sound(node)
  BY <1>3, PlacedFacts
<1>6. Places[Root] = Names!Nowhere(Root)
  BY <1>2, <1>4, <1>5 DEF Placed
<1>7. Places = [n \in {Root} |-> Names!Nowhere(Root)]
  <2>1. Places = [n \in {Root} |-> PlaceOf(n)]
    BY <1>4 DEF Places
  <2>2. PlaceOf(Root) = Names!Nowhere(Root)
    BY <2>1, <1>6
  <2> QED
    BY <2>1, <2>2
<1>8. Directories = {Root} /\ Spellings = [n \in {Root} |-> NoName]
  BY <1>2, <1>4 DEF Directories, Spellings
<1>9. Marked = {}
  <2>1. Marked = Marks(node, Allocated, Places)
    BY <1>3, PlacedFacts
  <2> QED
    BY <2>1, <1>2, <1>4 DEF Marks
<1> QED
  BY <1>2, <1>3, <1>7, <1>8, <1>9 DEF Names!Init

\* RefinesNamespace: what programs see of the tree is one tree of names, in
\* which every call moves, adds or removes what its path and its handle say and
\* nothing else.
THEOREM TreeImplementsNames == Spec => RefinesNamespace
BY InitImplements, NextImplements, PTL DEF Spec, RefinesNamespace, Names!Spec

-----------------------------------------------------------------------------
(***************************************************************************)
(* The adapter over the tree (module WinFspFileSystem).  A callback does   *)
(* one call of the tree, none, or the two of which nothing but a deleted   *)
(* name remains.                                                           *)
(***************************************************************************)
\* The name s is marked deleted in the directory p, where nothing has it.
MarkDeleted(p, s) ==
    /\ p \in Node /\ s \in Spelling
    /\ node[p].directory /\ node[p].children[Fold[s]] = NoNode
    /\ Finish([node EXCEPT ![p].tombstones = @ \cup {Fold[s]}], held, cursor, dirtyBytes)

\* What a callback does to the tree.
Calls ==
    \/ UNCHANGED vars
    \/ \E path \in Paths, directory \in BOOLEAN : Create(path, directory, FALSE)
    \/ \E n \in Node : Release(n) \/ Remove(n)
    \/ \E n \in Node, path \in Paths, replace \in BOOLEAN : Rename(n, path, replace)
    \/ \E path : Lookup(path)
    \/ \E p, s : MarkDeleted(p, s)

\* Every callback is one of them.
LEMMA CallbackCalls ==
  ASSUME GInv, FsNext
  PROVE  Calls
<1>0. held \subseteq Node
  BY InvariantFacts DEF GInv
<1>1. ASSUME NEW h, NEW path \in Paths, NEW directory \in BOOLEAN, CreateFile(h, path, directory)
      PROVE  Calls
  BY <1>1 DEF CreateFile, Calls
<1>2. ASSUME NEW path, CreateRolledBack(path) PROVE Calls
  BY <1>2 DEF CreateRolledBack, Calls, MarkDeleted, ParentLocked
<1>3. ASSUME NEW h, NEW path, NEW deleteOnClose, Open(h, path, deleteOnClose) PROVE Calls
  BY <1>3 DEF Open, Calls
<1>4. ASSUME NEW h, NEW posix, CanDelete(h, posix) PROVE Calls
  BY <1>4 DEF CanDelete, Calls
<1>5. ASSUME NEW h, Cleanup(h) PROVE Calls
  <2>1. CASE UNCHANGED vars
    BY <2>1 DEF Calls
  <2>2. CASE Remove(Doomed(h))
    <3>1. Doomed(h) \in Node
      BY <1>0, <2>2 DEF Remove
    <3> QED
      BY <2>2, <3>1 DEF Calls
  <2> QED
    BY <1>5, <2>1, <2>2 DEF Cleanup
<1>6. ASSUME NEW h, Close(h) PROVE Calls
  <2>1. CASE UNCHANGED vars
    BY <2>1 DEF Calls
  <2>2. CASE Release(NodeOf(h))
    <3>1. NodeOf(h) \in Node
      BY <1>0, <2>2 DEF Release
    <3> QED
      BY <2>2, <3>1 DEF Calls
  <2> QED
    BY <1>6, <2>1, <2>2 DEF Close, ReleaseContext
<1>7. ASSUME NEW h, NEW path \in Paths, NEW replace \in BOOLEAN, RenameFile(h, path, replace)
      PROVE  Calls
  <2>1. Rename(NodeOf(h), path, replace) /\ NodeOf(h) \in Node
    BY <1>0, <1>7 DEF RenameFile, Rename
  <2> QED
    BY <2>1 DEF Calls
<1>8. ASSUME NEW h, ReadDirectoryFirst(h) \/ ReadDirectoryNext(h) PROVE Calls
  BY <1>8 DEF ReadDirectoryFirst, ReadDirectoryNext, Calls, vars
<1> QED
  BY <1>1, <1>2, <1>3, <1>4, <1>5, <1>6, <1>7, <1>8 DEF FsNext

\* A mark where nothing is leaves a tree well formed and strands nothing.
LEMMA MarkEnds ==
  ASSUME GInv, cursor = NoOverlay, NEW p, NEW s, MarkDeleted(p, s)
  PROVE  IInv' /\ \E g, h, c, charged : Ends(g, h, c, charged)
<1> DEFINE g == [node EXCEPT ![p].tombstones = @ \cup {Fold[s]}]
           k == Fold[s]
<1>1. /\ node \in Tree /\ WellFormed(node) /\ held \in SUBSET Node /\ cursor \in Cursors
      /\ p \in Node /\ k \in Key /\ IInv /\ Grounded(node)
      /\ node[p].directory /\ node[p].children[k] = NoNode
      /\ Finish(g, held, cursor, dirtyBytes)
  BY InvariantFacts, NodeTypes DEF GInv, MarkDeleted
<1>2. /\ g \in Tree
      /\ g[p].tombstones = node[p].tombstones \cup {k}
      /\ \A m \in Node \ {p} : g[m].tombstones = node[m].tombstones
      /\ \A m \in Node : /\ g[m].directory = node[m].directory
                         /\ g[m].linked = node[m].linked
                         /\ g[m].name = node[m].name
                         /\ g[m].parent = node[m].parent
                         /\ g[m].children = node[m].children
                         /\ g[m].dirtyPages = node[m].dirtyPages
  BY <1>1 DEF Tree, NodeType
<1> HIDE DEF g
<1>3. WellFormed(g)
  <2>1. g[Root].directory /\ g[Root].parent = NoNode
    BY <1>1, <1>2, NodeAssumption DEF WellFormed
  <2>2. ASSUME NEW d \in Node, NEW j \in Key PROVE SlotAgrees(g, d, j)
    <3>1. node[d].children[j] \in Node \cup {NoNode} /\ SlotAgrees(node, d, j)
      BY <1>1, TreeFields DEF WellFormed
    <3> QED
      BY <1>2, <3>1 DEF SlotAgrees
  <2>3. ASSUME NEW n \in Node PROVE InPlace(g, n)
    <3>1. node[n].parent \in Node \cup {NoNode} /\ InPlace(node, n)
      BY <1>1, TreeFields DEF WellFormed
    <3> QED
      BY <1>2, <3>1 DEF InPlace
  <2>4. \A d \in Node : \A j \in g[d].tombstones : g[d].children[j] = NoNode
    BY <1>1, <1>2 DEF WellFormed
  <2> QED
    BY <1>2, <2>1, <2>2, <2>3, <2>4 DEF WellFormed
<1>4. Grounded(g)
  BY <1>1, <1>2, GroundedLess
<1>5. KeepsFiles(node, g, Alive) /\ Remembers(node, g) /\ KeepsTree(node, g)
  <2>1. Alive \subseteq Node
    BY <1>1, ClosureType DEF Alive, AliveIn
  <2> QED
    BY <1>2, <2>1 DEF KeepsFiles, Remembers, KeepsTree
<1>6. Ends(g, held, cursor, dirtyBytes)
  BY <1>1, <1>3, <1>4, <1>5 DEF Ends, Effect, Unlocked
<1>7. IInv'
  <2>1. CursorOK(g, cursor)
    BY DEF CursorOK
  <2> QED
    BY <1>1, <1>2, <1>3, <2>1, NamespaceStep
<1> QED
  BY <1>6, <1>7

\* What a callback does to the tree, and its effect.
LEMMA CallsEnd ==
  ASSUME GInv, cursor = NoOverlay, Calls, ~UNCHANGED vars
  PROVE  IInv' /\ \E g, h, c, charged : Ends(g, h, c, charged)
<1>1. ASSUME Next PROVE IInv' /\ \E g, h, c, charged : Ends(g, h, c, charged)
  BY <1>1, NextEffect, NextInvariant DEF GInv
<1>2. ASSUME NEW path, Lookup(path) PROVE IInv' /\ \E g, h, c, charged : Ends(g, h, c, charged)
  <2>1. PICK m \in Node : Finish(node, held \cup {m}, cursor, dirtyBytes)
    BY <1>2 DEF Lookup
  <2>2. held \cup {m} \in SUBSET Node /\ cursor \in Cursors
    BY InvariantFacts DEF GInv
  <2>3. Ends(node, held \cup {m}, cursor, dirtyBytes)
    BY <2>1, <2>2, SameEffect DEF Ends, GInv
  <2>4. IInv'
    BY <1>2, HandleSteps, NodeAssumption DEF GInv
  <2> QED
    BY <2>3, <2>4
<1>3. ASSUME NEW p, NEW s, MarkDeleted(p, s)
      PROVE  IInv' /\ \E g, h, c, charged : Ends(g, h, c, charged)
  BY <1>3, MarkEnds
<1> QED
  BY <1>1, <1>2, <1>3 DEF Calls, Next

\* The tree stays grounded when nodes are destroyed.
LEMMA EndGrounded ==
  ASSUME NEW g, NEW h, NEW c, NEW charged, Ends(g, h, c, charged), node' \in Tree
  PROVE  Grounded(node')
<1> DEFINE alive == AliveIn(g, h, c)
<1>1. PICK f : f = node'
  OBVIOUS
<1>2. f = Survivors(g, alive) /\ f \in Tree
  BY <1>1 DEF Ends, Finish, Survivors
<1>3. WellFormed(g) /\ h \in SUBSET Node /\ c \in Cursors /\ Grounded(g)
  BY DEF Ends, Effect
<1> HIDE DEF alive
<1>4. alive = AliveIn(g, h, c)
  BY DEF alive
<1>5. Grounded(f)
  BY ONLY <1>2, <1>3, <1>4, FinishEffect
<1> QED
  BY <1>1, <1>5 DEF Grounded

\* The adapter starts no overlay, and keeps the invariant of the tree.
TreeInv == GInv /\ cursor = NoOverlay

LEMMA InitTreeInv == FsInit => TreeInv
BY InitGrounded DEF FsInit, TreeInv, Init

LEMMA NextTreeInv == TreeInv /\ [FsNext]_fsVars => TreeInv'
<1> SUFFICES ASSUME TreeInv, [FsNext]_fsVars PROVE TreeInv'
  OBVIOUS
<1>1. CASE UNCHANGED vars
  <2>1. GInv'
    BY <1>1, NextGrounded DEF TreeInv
  <2> QED
    BY <2>1, <1>1 DEF TreeInv, vars
<1>2. CASE FsNext /\ ~UNCHANGED vars
  <2>1. Calls
    BY <1>2, CallbackCalls DEF TreeInv
  <2>2. IInv' /\ \E g, h, c, charged : Ends(g, h, c, charged)
    BY <1>2, <2>1, CallsEnd DEF TreeInv
  <2>3. node' \in Tree
    BY <2>2 DEF IInv, WellFormed
  <2>4. Grounded(node')
    BY <2>2, <2>3, EndGrounded
  <2>5. GInv'
    BY <2>2, <2>4 DEF GInv, Grounded
  <2>6. cursor' = cursor
    <3>1. ASSUME NEW path \in Paths, NEW directory, Create(path, directory, FALSE)
          PROVE  cursor' = cursor
      <4>1. \E f, h : Finish(f, h, cursor, dirtyBytes)
        BY <3>1 DEF Create
      <4> QED
        BY <4>1 DEF Finish
    <3>5. ASSUME NEW n \in Node, NEW path \in Paths, NEW replace \in BOOLEAN,
                 Rename(n, path, replace)
          PROVE  cursor' = cursor
      <4>1. \E f : Finish(f, held, cursor, dirtyBytes)
        BY <3>5, RenameCall DEF TreeInv, GInv
      <4> QED
        BY <4>1 DEF Finish
    <3>4. ASSUME NEW n, Release(n) \/ Remove(n) PROVE cursor' = cursor
      BY <3>4 DEF Release, Remove, Finish
    <3>2. CASE \E path : Lookup(path)
      BY <3>2 DEF Lookup, Finish
    <3>3. CASE \E p, s : MarkDeleted(p, s)
      BY <3>3 DEF MarkDeleted, Finish
    <3> QED
      BY <1>2, <2>1, <3>1, <3>2, <3>3, <3>4, <3>5 DEF Calls
  <2> QED
    BY <2>5, <2>6 DEF TreeInv
<1> QED
  BY <1>1, <1>2 DEF fsVars, vars

\* The tree's invariant holds whatever programs call.
LEMMA TreeKept == FsSpec => []TreeInv
BY InitTreeInv, NextTreeInv, PTL DEF FsSpec

\* ContentsKept: no callback takes a node that stays linked out of the reach of
\* the root, not even the deletion of a directory that was tested while empty.
THEOREM ContentsAreKept == FsSpec => ContentsKept
<1> DEFINE Kept == node' # node =>
                      \A n \in FromRoot(node) : node'[n].linked => n \in FromRoot(node')
<1>1. TreeInv /\ [FsNext]_fsVars => [Kept]_fsVars
  <2> SUFFICES ASSUME TreeInv, FsNext, node' # node,
                      NEW n \in FromRoot(node), node'[n].linked
               PROVE  n \in FromRoot(node')
    OBVIOUS
  <2>1. Calls /\ ~UNCHANGED vars
    BY CallbackCalls DEF TreeInv, vars
  <2>2. IInv' /\ \E g, h, c, charged : Ends(g, h, c, charged)
    BY <2>1, CallsEnd DEF TreeInv
  <2>3. PICK g, h, c, charged : Ends(g, h, c, charged)
    BY <2>2
  <2>4. node' \in Tree
    BY <2>2 DEF IInv, WellFormed
  <2>5. PICK alive :
           /\ alive \subseteq Node /\ held' \subseteq alive
           /\ Effect(g, held', cursor')
           /\ alive = AliveIn(g, held', cursor')
           /\ \A m \in alive : /\ node'[m].directory = g[m].directory
                               /\ node'[m].linked = g[m].linked
                               /\ node'[m].children = g[m].children
                               /\ node'[m].tombstones = g[m].tombstones
                               /\ node'[m].dirtyPages = g[m].dirtyPages
                               /\ node'[m].parent =
                                     IF g[m].parent \in alive THEN g[m].parent ELSE NoNode
           /\ \A m \in Node \ alive : node'[m] = Unallocated
           /\ FromRoot(g) \subseteq FromRoot(node')
    BY ONLY <2>3, <2>4, EndEffect
  <2>6. n \in Node /\ n \in alive
    BY <2>5, ClosureType DEF FromRoot, Unallocated
  <2>7. g[n].linked
    BY <2>5, <2>6
  <2>8. WellFormed(node) /\ WellFormed(g) /\ Grounded(g) /\ KeepsTree(node, g)
    BY <2>5, InvariantFacts DEF Effect, TreeInv, GInv, Unlocked
  <2>9. n \in FromRoot(g)
    BY <2>7, <2>8, NotStranded
  <2> QED
    BY <2>5, <2>9
<1> QED
  BY <1>1, TreeKept, PTL DEF FsSpec, ContentsKept

\* A removal takes its own node's place and no other node's.
LEMMA RemoveUnlinksOne ==
  ASSUME IInv, NEW n \in Node, Remove(n), NEW m \in Node, m # n, node[m].linked
  PROVE  node'[m].linked
<1> DEFINE p == node[n].parent
           k == Fold[node[n].name]
<1>1. PICK g : g = Unlinked(node, n)
  OBVIOUS
<1>2. /\ WellFormed(node) /\ node \in Tree /\ held \in SUBSET Node /\ cursor \in Cursors
      /\ n \in held /\ n # Root /\ p \in Node
      /\ \A x \in Node \ Alive : node[x] = Unallocated
  BY InvariantFacts, TreeFields DEF Remove, Removable
<1>3. Finish(g, held, cursor, dirtyBytes)
  BY <1>1 DEF Remove, Unlinked
<1>4. Deleted(node, g, n, p, k) /\ node[p].children[k] = n
  BY <1>1, <1>2, UnlinkFields, NodeAssumption DEF WellFormed, InPlace
<1>5. WellFormed(g) /\ g \in Tree
  <2>1. WellFormed(g)
    BY ONLY <1>2, <1>4, DeleteWellFormed
  <2> QED
    BY <2>1 DEF WellFormed
<1> HIDE DEF p, k
<1> DEFINE S == AliveIn(g, held, cursor)
<1>6. /\ S \in SUBSET Node /\ Root \in S /\ held \subseteq S /\ CursorDir(cursor) \subseteq S
      /\ \A d \in S, j \in Key : g[d].children[j] # NoNode => g[d].children[j] \in S
  BY <1>2, <1>5, AliveProperties DEF CursorDir
<1>7. \A y \in S : ChildrenOf(node)[y] \subseteq S
  <2> SUFFICES ASSUME NEW y \in S, NEW j \in Key, node[y].children[j] # NoNode
               PROVE  node[y].children[j] \in S
    BY <1>6 DEF ChildrenOf
  <2>1. y \in Node
    BY <1>6
  <2>2. g[y].children[j] = node[y].children[j] \/ node[y].children[j] = n
    BY <1>4, <2>1 DEF Deleted
  <2> QED
    BY <2>2, <1>2, <1>6
<1> HIDE DEF S
<1>8. Alive \subseteq S
  BY <1>2, <1>6, <1>7, ClosureSmallest DEF Alive, AliveIn
<1>9. m \in S
  BY <1>2, <1>8 DEF Unallocated
<1>10. g[m].linked
  BY <1>4 DEF Deleted
<1> QED
  BY <1>3, <1>9, <1>10, <1>6 DEF Finish, S

\* DeletesItsOwn: the cleanup of a handle deletes the node of that handle, and
\* only when that or another handle of it asked for the deletion.
THEOREM CleanupDeletesItsOwn == FsSpec => DeletesItsOwn
<1> DEFINE Asked(n) == \E h \in Opened : NodeOf(h) = n /\ (n \in pending \/ opened[h].posix)
           Own == \A n \in Node :
                    (node[n].linked /\ ~node'[n].linked /\ \E h \in Handle : Cleanup(h)) => Asked(n)
<1>1. TreeInv /\ [FsNext]_fsVars => [Own]_fsVars
  <2> SUFFICES ASSUME TreeInv, NEW n \in Node, node[n].linked, ~node'[n].linked,
                      NEW h \in Handle, Cleanup(h)
               PROVE  Asked(n)
    OBVIOUS
  <2>1. node' # node
    OBVIOUS
  <2>2. IsOpen(h) /\ DeleteFlag(h) /\ Remove(NodeOf(h))
    BY <2>1 DEF Cleanup, Doomed, NodeOf, vars
  <2>3. NodeOf(h) \in Node /\ IInv
    BY <2>2, InvariantFacts DEF Remove, TreeInv, GInv
  <2>4. NodeOf(h) = n
    BY <2>2, <2>3, RemoveUnlinksOne
  <2> QED
    BY <2>2, <2>4 DEF DeleteFlag, Opened
<1> QED
  BY <1>1, TreeKept, PTL DEF FsSpec, DeletesItsOwn

(***************************************************************************)
(* Enumerations.  What has been listed is in order, no name that stayed    *)
(* is missing before its last entry, and none at all at its end.           *)
(***************************************************************************)
InOrder(listed) ==
    \A i, j \in 1 .. Len(listed) : i < j => Rank[listed[i]] < Rank[listed[j]]

\* The name k has been listed, if its turn has come.
Had(listed, k) ==
    (listed # <<>> /\ Rank[k] <= Rank[listed[Len(listed)]]) =>
        \E i \in 1 .. Len(listed) : listed[i] = k

Listed(c) ==
    /\ c \in Context
    /\ InOrder(c.listed)
    /\ \A k \in c.stayed : Had(c.listed, k)
    /\ c.phase = "complete" => \A k \in c.stayed : \E i \in 1 .. Len(c.listed) : c.listed[i] = k

AllListed(o) == \A h \in Handle : o[h] = NotOpen \/ Listed(o[h])

\* The invariant of the adapter.
ContextInv ==
    /\ TreeInv
    /\ opened \in [Handle -> Context \cup {NotOpen}]
    /\ AllListed(opened)
    /\ \A h \in Opened : opened[h].stayed \subseteq NamesIn(node, NodeOf(h))

\* A call that changes the tree takes names from those that stayed.
LEMMA OpensKeeps ==
  ASSUME NEW o \in [Handle -> Context \cup {NotOpen}], AllListed(o), Opens(o), TreeInv'
  PROVE  ContextInv'
<1>1. PICK f : f = node'
  OBVIOUS
<1>2. PICK q : q = opened'
  OBVIOUS
<1>3. q = [h \in Handle |-> IF o[h] = NotOpen THEN NotOpen
                            ELSE [o[h] EXCEPT !.stayed = @ \cap NamesIn(f, o[h].node)]]
  BY <1>1, <1>2 DEF Opens, NamesIn
<1>4. ASSUME NEW h \in Handle, o[h] # NotOpen
      PROVE  Listed(q[h]) /\ q[h].stayed \subseteq NamesIn(f, q[h].node)
  <2>1. Listed(o[h]) /\ o[h] \in Context
    BY <1>4 DEF AllListed
  <2>2. PICK c : c = q[h]
    OBVIOUS
  <2>3. c = [o[h] EXCEPT !.stayed = @ \cap NamesIn(f, o[h].node)]
    BY <1>3, <1>4, <2>2
  <2>4. /\ c \in Context
        /\ c.listed = o[h].listed /\ c.phase = o[h].phase /\ c.node = o[h].node
        /\ c.stayed = o[h].stayed \cap NamesIn(f, o[h].node)
    BY <2>1, <2>3 DEF Context
  <2> QED
    BY <2>1, <2>2, <2>4 DEF Listed
<1>5. q \in [Handle -> Context \cup {NotOpen}]
  <2>1. \A h \in Handle : q[h] \in Context \cup {NotOpen}
    BY <1>3, <1>4 DEF Listed
  <2> QED
    BY <1>3, <2>1
<1>6. ASSUME NEW h \in Handle
      PROVE  q[h] = NotOpen \/ (Listed(q[h]) /\ q[h].stayed \subseteq NamesIn(f, q[h].node))
  <2>1. CASE o[h] = NotOpen
    BY <1>3, <2>1
  <2>2. CASE o[h] # NotOpen
    BY <1>4, <2>2
  <2> QED
    BY <2>1, <2>2
<1> QED
  BY <1>1, <1>2, <1>5, <1>6 DEF ContextInv, AllListed, Listed, InOrder, Had, Opened, IsOpen, NodeOf, NamesIn

\* A call that leaves the tree alone gives h the context c.
LEMMA ContextKeeps ==
  ASSUME ContextInv, NEW h \in Opened, NEW c, Listed(c), c.node = NodeOf(h),
         c.stayed \subseteq NamesIn(node, NodeOf(h)),
         opened' = [opened EXCEPT ![h] = c], UNCHANGED vars
  PROVE  ContextInv'
<1>1. TreeInv'
  <2>1. GInv'
    BY NextGrounded DEF ContextInv, TreeInv
  <2> QED
    BY <2>1 DEF ContextInv, TreeInv, vars
<1>2. \A g \in Handle : opened'[g] = IF g = h THEN c ELSE opened[g]
  BY DEF ContextInv
<1>3. opened' \in [Handle -> Context \cup {NotOpen}]
  BY DEF ContextInv, Listed
<1>4. AllListed(opened)' /\ node' = node
  BY <1>2 DEF ContextInv, AllListed, Listed, InOrder, Had, vars
<1>5. \A g \in Handle : opened'[g] # NotOpen => opened'[g].stayed \subseteq NamesIn(node, opened'[g].node)
  BY <1>2 DEF ContextInv, Opened, IsOpen, NodeOf
<1> QED
  BY <1>1, <1>3, <1>4, <1>5 DEF ContextInv, Opened, IsOpen, NodeOf, NamesIn

\* One call of an enumeration.
LEMMA ListNextListed ==
  ASSUME ContextInv, NEW h \in Opened, NEW listed, NEW stayed,
         ListNext(h, listed, stayed),
         listed \in Seq(Entry), InOrder(listed), stayed \subseteq NamesIn(node, NodeOf(h)),
         \A k \in stayed : Had(listed, k),
         UNCHANGED vars
  PROVE  ContextInv'
<1>1. opened[h] \in Context /\ h \in Handle
  BY DEF ContextInv, Opened, IsOpen
<1>2. stayed \subseteq Key /\ stayed \subseteq Entries(h)
  BY DEF NamesIn, Entries
<1>3. ASSUME NEW phase \in {"listing", "complete", "refused"}, NEW names \in Seq(Entry),
             opened' = [opened EXCEPT ![h].phase = phase, ![h].listed = names,
                                      ![h].stayed = stayed],
             InOrder(names), \A k \in stayed : Had(names, k),
             phase = "complete" => \A k \in stayed : \E i \in 1 .. Len(names) : names[i] = k
      PROVE  ContextInv'
  <2>1. PICK c : c = [opened[h] EXCEPT !.phase = phase, !.listed = names, !.stayed = stayed]
    OBVIOUS
  <2>2. /\ c \in Context /\ c.listed = names /\ c.phase = phase
        /\ c.node = NodeOf(h) /\ c.stayed = stayed
    BY <1>1, <1>2, <2>1 DEF Context, NodeOf
  <2>3. Listed(c)
    BY <1>3, <2>2 DEF Listed
  <2>4. opened' = [opened EXCEPT ![h] = c]
    BY <1>1, <1>3, <2>1 DEF ContextInv
  <2> QED
    BY <2>2, <2>3, <2>4, ContextKeeps
<1>4. CASE opened' = [opened EXCEPT ![h].phase = "refused", ![h].listed = listed,
                                    ![h].stayed = stayed]
  BY <1>3, <1>4
<1>5. CASE /\ AfterMarker(h, listed) = {}
           /\ opened' = [opened EXCEPT ![h].phase = "complete", ![h].listed = listed,
                                       ![h].stayed = stayed]
  <2>1. ASSUME NEW k \in stayed PROVE \E i \in 1 .. Len(listed) : listed[i] = k
    <3>1. k \in Entry /\ k \in Entries(h)
      BY <1>2 DEF Entry
    <3>2. listed # <<>> /\ ~(Rank[k] > Rank[listed[Len(listed)]])
      BY <1>5, <3>1 DEF AfterMarker
    <3>3. listed[Len(listed)] \in Entry
      BY <3>2
    <3>4. Rank[k] <= Rank[listed[Len(listed)]]
      BY <3>1, <3>2, <3>3, RankAssumption
    <3> QED
      BY <3>2, <3>4 DEF Had
  <2> QED
    BY <1>3, <1>5, <2>1
<1>6. ASSUME NEW x \in AfterMarker(h, listed),
             \A y \in AfterMarker(h, listed) : Rank[x] <= Rank[y],
             opened' = [opened EXCEPT ![h].phase = "listing", ![h].listed = Append(listed, x),
                                      ![h].stayed = stayed]
      PROVE  ContextInv'
  <2> DEFINE names == Append(listed, x)
  <2>1. x \in Entries(h) /\ x \in Entry
        /\ (listed = <<>> \/ Rank[x] > Rank[listed[Len(listed)]])
    BY DEF AfterMarker, Entries, NamesIn, Entry
  <2>2. /\ names \in Seq(Entry) /\ Len(names) = Len(listed) + 1 /\ names # <<>>
        /\ names[Len(names)] = x /\ Len(listed) \in Nat
        /\ \A i \in 1 .. Len(listed) : names[i] = listed[i] /\ names[i] \in Entry
    <3>1. names \in Seq(Entry) /\ Len(names) = Len(listed) + 1 /\ Len(listed) \in Nat
      BY <2>1, AppendProperties
    <3>2. names[Len(listed) + 1] = x /\ \A i \in 1 .. Len(listed) : names[i] = listed[i]
      BY <2>1, AppendProperties
    <3>3. \A i \in 1 .. Len(listed) : listed[i] \in Entry
      OBVIOUS
    <3> QED
      BY <3>1, <3>2, <3>3
  <2> HIDE DEF names
  <2>3. InOrder(names)
    <3> SUFFICES ASSUME NEW i \in 1 .. Len(names), NEW j \in 1 .. Len(names), i < j
                 PROVE  Rank[names[i]] < Rank[names[j]]
      BY DEF InOrder
    <3>1. CASE j <= Len(listed)
      BY <2>2, <3>1 DEF InOrder
    <3>2. CASE j = Len(names)
      <4>1. /\ i \in 1 .. Len(listed) /\ Len(listed) \in 1 .. Len(listed)
            /\ listed[i] \in Entry /\ listed[Len(listed)] \in Entry
            /\ names[i] = listed[i] /\ names[j] = x
        BY <2>2, <3>2
      <4>2. Rank[x] > Rank[listed[Len(listed)]]
        BY <2>1, <4>1
      <4>3. Rank[listed[i]] <= Rank[listed[Len(listed)]]
        <5>1. CASE i = Len(listed)
          BY <4>1, <5>1, RankAssumption
        <5>2. CASE i < Len(listed)
          BY <4>1, <5>2, RankAssumption DEF InOrder
        <5> QED
          BY <4>1, <5>1, <5>2, <2>2
      <4> QED
        BY <2>1, <4>1, <4>2, <4>3, RankAssumption
    <3> QED
      BY <2>2, <3>1, <3>2
  <2>4. ASSUME NEW k \in stayed PROVE Had(names, k)
    <3> SUFFICES ASSUME Rank[k] <= Rank[x] PROVE \E i \in 1 .. Len(names) : names[i] = k
      BY <2>2 DEF Had
    <3>1. k \in Entry /\ k \in Entries(h) /\ Rank[k] \in Nat /\ Rank[x] \in Nat
      BY <1>2, <2>1, RankAssumption DEF Entry
    <3>2. CASE k \in AfterMarker(h, listed)
      <4>1. Rank[k] = Rank[x]
        BY <1>6, <3>1, <3>2
      <4>2. k = x
        BY <3>1, <2>1, <4>1, RankAssumption
      <4> QED
        BY <2>2, <4>2
    <3>3. CASE k \notin AfterMarker(h, listed)
      <4>1. listed # <<>> /\ ~(Rank[k] > Rank[listed[Len(listed)]])
        BY <3>1, <3>3 DEF AfterMarker
      <4>2. Rank[k] <= Rank[listed[Len(listed)]]
        <5>1. listed[Len(listed)] \in Entry
          BY <4>1
        <5> QED
          BY <3>1, <4>1, <5>1, RankAssumption
      <4>3. PICK i \in 1 .. Len(listed) : listed[i] = k
        BY <4>1, <4>2 DEF Had
      <4> QED
        BY <2>2, <4>3
    <3> QED
      BY <3>2, <3>3
  <2> QED
    BY <1>3, <1>6, <2>2, <2>3, <2>4 DEF names
<1> QED
  BY <1>4, <1>5, <1>6 DEF ListNext

\* What has not begun is in order.
LEMMA NothingListed ==
  /\ <<>> \in Seq(Entry) /\ InOrder(<<>>)
  /\ \A k : Had(<<>>, k)
BY DEF InOrder, Had

\* A new context.
LEMMA NewContext ==
  ASSUME NEW n \in Node, NEW path \in Paths \cup {<<>>}
  PROVE  Listed(OpenContext(n, path))
<1>1. OpenContext(n, path) \in Context
  BY NothingListed DEF OpenContext, Context
<1> QED
  BY <1>1, NothingListed DEF OpenContext, Listed

\* What a context says of an enumeration, whatever else of it changes.
LEMMA SameListing ==
  ASSUME NEW c, NEW d \in Context, Listed(c),
         d.listed = c.listed, d.stayed = c.stayed, d.phase = c.phase
  PROVE  Listed(d)
BY DEF Listed

\* The nodes held are nodes.
HeldNodes == held \subseteq Node

LEMMA TreeHolds == TreeInv => HeldNodes
BY InvariantFacts DEF TreeInv, GInv, HeldNodes

\* Every callback keeps the invariant.
LEMMA NextContextInv == ContextInv /\ [FsNext]_fsVars => ContextInv'
<1> SUFFICES ASSUME ContextInv, [FsNext]_fsVars PROVE ContextInv'
  OBVIOUS
<1>0. TreeInv' /\ TreeInv
  BY NextTreeInv DEF ContextInv
<1>1. TreeInv' => HeldNodes'
  BY TreeHolds, PTL
<1>2. \A h \in Opened : h \in Handle /\ opened[h] \in Context /\ Listed(opened[h])
  BY DEF ContextInv, AllListed, Opened, IsOpen
<1>3. ASSUME NEW h \in Handle, NEW c, Opens([opened EXCEPT ![h] = c]), c = NotOpen \/ Listed(c)
      PROVE  ContextInv'
  <2>1. PICK o : o = [opened EXCEPT ![h] = c]
    OBVIOUS
  <2>2. o \in [Handle -> Context \cup {NotOpen}]
    BY <1>3, <2>1 DEF ContextInv, Listed
  <2>3. AllListed(o)
    BY <1>3, <2>1 DEF ContextInv, AllListed
  <2>4. Opens(o)
    BY <1>3, <2>1
  <2> QED
    BY <1>0, <2>2, <2>3, <2>4, OpensKeeps
<1>4. ASSUME NEW h \in Handle, NEW path \in Paths, NEW directory \in BOOLEAN,
             CreateFile(h, path, directory)
      PROVE  ContextInv'
  <2>1. PICK n \in held' \ held : Opens([opened EXCEPT ![h] = OpenContext(n, path)])
    BY <1>4 DEF CreateFile
  <2>2. Listed(OpenContext(n, path))
    BY <1>0, <1>1, <2>1, NewContext DEF HeldNodes
  <2> QED
    BY <1>3, <2>1, <2>2
<1>5. ASSUME NEW path, CreateRolledBack(path) PROVE ContextInv'
  BY <1>0, <1>5, OpensKeeps DEF CreateRolledBack, ContextInv
<1>6. ASSUME NEW h \in Handle, NEW path \in Paths \cup {<<>>}, NEW deleteOnClose \in BOOLEAN,
             Open(h, path, deleteOnClose)
      PROVE  ContextInv'
  <2>1. Opens([opened EXCEPT ![h] = OpenContext(FindLocked(path), path)])
        /\ FindLocked(path) \in Node
    BY <1>6 DEF Open, Lookup
  <2>2. Listed(OpenContext(FindLocked(path), path))
    BY <2>1, NewContext
  <2> QED
    BY <1>3, <2>1, <2>2
<1>7. ASSUME NEW h \in Handle, NEW posix \in BOOLEAN, CanDelete(h, posix) PROVE ContextInv'
  <2>1. h \in Opened /\ opened' = [opened EXCEPT ![h].posix = @ \/ posix] /\ UNCHANGED vars
    BY <1>7 DEF CanDelete, Opened
  <2>2. PICK c : c = [opened[h] EXCEPT !.posix = @ \/ posix]
    OBVIOUS
  <2>3. /\ c \in Context /\ c.listed = opened[h].listed /\ c.stayed = opened[h].stayed
        /\ c.phase = opened[h].phase /\ c.node = opened[h].node
    BY <1>2, <2>1, <2>2 DEF Context
  <2>4. Listed(c)
    BY <1>2, <2>1, <2>3, SameListing
  <2>5. opened' = [opened EXCEPT ![h] = c]
    BY <2>1, <2>2 DEF ContextInv
  <2>6. c.stayed \subseteq NamesIn(node, NodeOf(h)) /\ c.node = NodeOf(h)
    BY <2>1, <2>3 DEF ContextInv, NodeOf
  <2> QED
    BY <2>1, <2>4, <2>5, <2>6, ContextKeeps
<1>8. ASSUME NEW h \in Handle, Cleanup(h) PROVE ContextInv'
  <2>1. h \in Opened /\ Opens([opened EXCEPT ![h].cleaned = TRUE])
    BY <1>8 DEF Cleanup, Opened
  <2>2. PICK c : c = [opened[h] EXCEPT !.cleaned = TRUE]
    OBVIOUS
  <2>3. /\ c \in Context /\ c.listed = opened[h].listed /\ c.stayed = opened[h].stayed
        /\ c.phase = opened[h].phase
    BY <1>2, <2>1, <2>2 DEF Context
  <2>4. Listed(c)
    BY <1>2, <2>1, <2>3, SameListing
  <2>5. [opened EXCEPT ![h].cleaned = TRUE] = [opened EXCEPT ![h] = c]
    BY <2>1, <2>2 DEF ContextInv
  <2> QED
    BY <1>3, <2>1, <2>4, <2>5
<1>9. ASSUME NEW h \in Handle, Close(h) PROVE ContextInv'
  BY <1>3, <1>9 DEF Close
<1>10. ASSUME NEW h \in Handle, NEW path \in Paths, NEW replace \in BOOLEAN,
              RenameFile(h, path, replace)
       PROVE  ContextInv'
  <2>1. h \in Opened /\ Opens([opened EXCEPT ![h].path = path])
    BY <1>10 DEF RenameFile, Opened
  <2>2. PICK c : c = [opened[h] EXCEPT !.path = path]
    OBVIOUS
  <2>3. /\ c \in Context /\ c.listed = opened[h].listed /\ c.stayed = opened[h].stayed
        /\ c.phase = opened[h].phase
    BY <1>2, <2>1, <2>2 DEF Context
  <2>4. Listed(c)
    BY <1>2, <2>1, <2>3, SameListing
  <2>5. [opened EXCEPT ![h].path = path] = [opened EXCEPT ![h] = c]
    BY <2>1, <2>2 DEF ContextInv
  <2> QED
    BY <1>3, <2>1, <2>4, <2>5
<1>11. ASSUME NEW h \in Handle, ReadDirectoryFirst(h) PROVE ContextInv'
  <2>1. h \in Opened /\ ListNext(h, <<>>, NamesIn(node, NodeOf(h))) /\ UNCHANGED vars
    BY <1>11 DEF ReadDirectoryFirst, Directory, Opened, vars
  <2> QED
    BY <2>1, NothingListed, ListNextListed
<1>12. ASSUME NEW h \in Handle, ReadDirectoryNext(h) PROVE ContextInv'
  <2>1. h \in Opened /\ ListNext(h, opened[h].listed, opened[h].stayed) /\ UNCHANGED vars
    BY <1>12 DEF ReadDirectoryNext, Directory, Opened, vars
  <2>2. /\ opened[h].listed \in Seq(Entry) /\ InOrder(opened[h].listed)
        /\ \A k \in opened[h].stayed : Had(opened[h].listed, k)
    BY <1>2, <2>1 DEF Listed, Context
  <2>3. opened[h].stayed \subseteq NamesIn(node, NodeOf(h))
    BY <2>1 DEF ContextInv
  <2> QED
    BY <2>1, <2>2, <2>3, ListNextListed
<1>13. CASE UNCHANGED fsVars
  <2>1. UNCHANGED <<node, opened>>
    BY <1>13 DEF fsVars
  <2> QED
    BY <1>0, <2>1 DEF ContextInv, AllListed, Listed, InOrder, Had, Opened, IsOpen, NodeOf, NamesIn
<1> QED
  BY <1>4, <1>5, <1>6, <1>7, <1>8, <1>9, <1>10, <1>11, <1>12, <1>13 DEF FsNext

\* ListedOnce: an enumeration lists no name twice, and every name that was there
\* from its beginning to its end.
THEOREM EnumerationsListOnce == FsSpec => []ListedOnce
<1>1. FsInit => ContextInv
  <2> SUFFICES ASSUME FsInit PROVE ContextInv
    OBVIOUS
  <2>1. TreeInv
    BY InitTreeInv
  <2> QED
    BY <2>1 DEF FsInit, ContextInv, AllListed, Opened, IsOpen
<1>2. ContextInv => ListedOnce
  <2> SUFFICES ASSUME ContextInv, NEW h \in Opened
               PROVE  /\ \A i, j \in DOMAIN opened[h].listed :
                            opened[h].listed[i] = opened[h].listed[j] => i = j
                      /\ opened[h].phase = "complete" =>
                            opened[h].stayed \subseteq
                                {opened[h].listed[i] : i \in DOMAIN opened[h].listed}
    BY DEF ListedOnce
  <2>1. Listed(opened[h]) /\ opened[h] \in Context
    BY DEF ContextInv, AllListed, Opened, IsOpen
  <2>2. PICK s : s = opened[h].listed
    OBVIOUS
  <2>3. /\ s \in Seq(Entry) /\ DOMAIN s = 1 .. Len(s) /\ Len(s) \in Nat /\ InOrder(s)
        /\ \A i \in 1 .. Len(s) : s[i] \in Entry
    BY <2>1, <2>2 DEF Listed, Context
  <2>4. ASSUME NEW i \in 1 .. Len(s), NEW j \in 1 .. Len(s), s[i] = s[j] PROVE i = j
    <3>1. Rank[s[i]] \in Nat
      BY <2>3, RankAssumption
    <3>2. ~(i < j) /\ ~(j < i)
      BY <3>1, <2>3, <2>4 DEF InOrder
    <3> QED
      BY <3>2
  <2> QED
    BY <2>1, <2>2, <2>3, <2>4 DEF Listed
<1> QED
  BY <1>1, <1>2, NextContextInv, PTL DEF FsSpec

=============================================================================
