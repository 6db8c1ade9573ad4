---------------------------- MODULE VirtualTree -----------------------------
(***************************************************************************)
(* The in-memory tree behind the mounted drive (virtual_tree.cpp): which   *)
(* node has which name, which names have been deleted, which nodes are     *)
(* alive, and how much RAM their dirty pages are charged for.              *)
(*                                                                         *)
(* Every public method runs under one mutex, so each is one action.  The   *)
(* exceptions are overlay(), whose walk down a path is several steps that  *)
(* hold the mutex (variable cursor), and the release of a node handle,     *)
(* which takes no mutex and may destroy nodes at any moment, also during   *)
(* an overlay.  A call that throws leaves the tree as it was (all its      *)
(* tests come before its first assignment), so it is no step here.         *)
(*                                                                         *)
(* Nodes are shared: a node lives while it is in a directory that lives,   *)
(* or while a caller holds a handle to it.  Its parent pointer is weak.    *)
(* The bytes of a file are in module FileContent; here a file is its set   *)
(* of dirty pages.                                                         *)
(*                                                                         *)
(* An operator whose comment begins with "Fault:" is no part of the model. *)
(* It is the definition after it with a plausible mistake in it, and the   *)
(* property that notices the mistake is named there.                       *)
(***************************************************************************)
EXTENDS Integers, Sequences, FiniteSets

CONSTANTS
    Node,       \* the nodes memory has room for
    Root,       \* the root directory, one of them
    NoNode,     \* a null node handle
    Spelling,   \* path components as spelled
    Fold,       \* their case-insensitive value, a function on Spelling
    NoName,     \* the name of the root, which is in no directory
    Paths,      \* the paths callers use, sequences of spellings
    PageSize,   \* bytes in a page
    PageCount,  \* pages in the largest file
    Quota,      \* the write quota in bytes, which need not be whole pages
    NoOverlay   \* the value of cursor when no overlay is running

Key == {Fold[s] : s \in Spelling}
Page == 0 .. PageCount - 1

ASSUME NodeAssumption == IsFiniteSet(Node) /\ Root \in Node /\ NoNode \notin Node
ASSUME NameAssumption == DOMAIN Fold = Spelling /\ NoName \notin Spelling
ASSUME PathAssumption == \A path \in Paths : path \in Seq(Spelling)
ASSUME QuotaAssumption == PageSize \in Nat \ {0} /\ PageCount \in Nat /\ Quota \in Nat

VARIABLES
    node,       \* struct Node, for every node of Node
    held,       \* nodes to which a caller holds a handle
    cursor,     \* the overlay in progress: directory reached, components left
    dirtyBytes  \* VirtualTree::Impl::dirty_bytes

vars == <<node, held, cursor, dirtyBytes>>

-----------------------------------------------------------------------------
(***************************************************************************)
(* Nodes and their lifetime.                                               *)
(***************************************************************************)
NoChildren == [k \in Key |-> NoNode]

NodeType == [directory : BOOLEAN,
             linked : BOOLEAN,
             name : Spelling \cup {NoName},
             parent : Node \cup {NoNode},
             children : [Key -> Node \cup {NoNode}],
             tombstones : SUBSET Key,
             dirtyPages : SUBSET Page]

Cursor == [dir : Node, rest : Seq(Spelling)]

\* Impl::make_node, and node->parent = parent.
MakeNode(name, directory, parent) ==
    [directory |-> directory, linked |-> TRUE, name |-> name, parent |-> parent,
     children |-> NoChildren, tombstones |-> {}, dirtyPages |-> {}]

Unallocated ==
    [directory |-> FALSE, linked |-> FALSE, name |-> NoName, parent |-> NoNode,
     children |-> NoChildren, tombstones |-> {}, dirtyPages |-> {}]

\* The smallest set of nodes with start in it that next does not lead out of.
Closure(next, start) ==
    LET closed == {S \in SUBSET Node : start \subseteq S /\ \A m \in S : next[m] \subseteq S}
    IN  {n \in Node : \A S \in closed : n \in S}

\* The children that the nodes of f keep alive, and the parents they point to.
ChildrenOf(f) == [n \in Node |-> {f[n].children[k] : k \in Key} \ {NoNode}]
ParentsOf(f) == [n \in Node |-> {f[n].parent} \ {NoNode}]

CursorDir(c) == IF c = NoOverlay THEN {} ELSE {c.dir}

\* Fault: an open handle does not keep its node (OpenFilesKeepPages).
AliveByName(f, h, c) == Closure(ChildrenOf(f), {Root} \cup CursorDir(c))

\* The nodes whose reference count is not zero, when f is the tree, h are the
\* handles and c is the overlay in progress.
AliveIn(f, h, c) == Closure(ChildrenOf(f), {Root} \cup h \cup CursorDir(c))
Alive == AliveIn(node, held, cursor)

\* The dirty pages of the nodes of N.
PageSlots(f, N) == {s \in N \X Page : s[2] \in f[s[1]].dirtyPages}

\* Fault: a destroyed node does not give its pages back (QuotaRespected).
NeverReturned(f, alive) == 0

\* ~Node: a destroyed node returns what its dirty pages were charged.
Returned(f, alive) == PageSize * Cardinality(PageSlots(f, Node \ alive))

\* The end of every call: f is the tree it has built, h and c the references
\* that remain and charged the counter.  The nodes nothing refers to any more
\* are destroyed, and weak pointers to them expire.
Finish(f, h, c, charged) ==
    /\ held' = h
    /\ cursor' = c
    /\ LET alive == AliveIn(f, h, c)
       IN  /\ node' = [n \in Node |->
                          IF n \notin alive THEN Unallocated
                          ELSE IF f[n].parent \in alive THEN f[n]
                          ELSE [f[n] EXCEPT !.parent = NoNode]]
           /\ dirtyBytes' = charged - Returned(f, alive)

-----------------------------------------------------------------------------
(***************************************************************************)
(* The steps the operations are made of.  A slot is a directory and a key. *)
(***************************************************************************)
HasChildren(n) == node[n].children # NoChildren

\* Impl::find_locked: the node a path leads to, NoNode if there is none.
FindLocked(path) ==
    LET at[i \in 0 .. Len(path)] ==
            IF i = 0 THEN Root
            ELSE IF at[i - 1] = NoNode THEN NoNode
            ELSE IF ~node[at[i - 1]].directory THEN NoNode
            ELSE node[at[i - 1]].children[Fold[path[i]]]
    IN  at[Len(path)]

\* Impl::parent_locked: p is the directory and s the name at the end of path.
ParentLocked(path, p, s) ==
    /\ path # <<>>
    /\ p = FindLocked(SubSeq(path, 1, Len(path) - 1))
    /\ node[p].directory
    /\ s = path[Len(path)]

\* Fault: the node that is replaced keeps its parent (WellPlaced).
VacateKeepingParent(f, d, k) ==
    LET t == f[d].children[k]
    IN  IF t = NoNode THEN f
        ELSE [f EXCEPT ![t].linked = FALSE, ![d].children[k] = NoNode]

\* The node in slot (d, k) of f loses its place: linked = false, parent.reset(),
\* children.erase().
Vacate(f, d, k) ==
    LET t == f[d].children[k]
    IN  IF t = NoNode THEN f
        ELSE [f EXCEPT ![t].linked = FALSE, ![t].parent = NoNode,
                       ![d].children[k] = NoNode]

\* Fault: a name in use again stays marked deleted (WellPlaced).
NotRevealed(f, d, k) == f

\* tombstones.erase().
Reveal(f, d, k) == [f EXCEPT ![d].tombstones = @ \ {k}]

\* children.emplace(), which keeps what is there.
Emplace(f, d, k, n) == [f EXCEPT ![d].children[k] = IF @ = NoNode THEN n ELSE @]

Unlocked == cursor = NoOverlay

Init ==
    /\ node = [n \in Node |-> IF n = Root THEN MakeNode(NoName, TRUE, NoNode)
                              ELSE Unallocated]
    /\ held = {}
    /\ cursor = NoOverlay
    /\ dirtyBytes = 0

-----------------------------------------------------------------------------
(***************************************************************************)
(* Handles.                                                                *)
(***************************************************************************)
Lookup(path) ==
    /\ Unlocked
    /\ \E n \in Node :
          /\ n = FindLocked(path)
          /\ Finish(node, held \cup {n}, cursor, dirtyBytes)

\* The last handle to n goes away; this needs no lock.
Release(n) ==
    /\ n \in held
    /\ Finish(node, held \ {n}, cursor, dirtyBytes)

(***************************************************************************)
(* The namespace.                                                          *)
(***************************************************************************)
\* Fault: a directory is replaced with all it contains (NothingStranded).
AlwaysReplaceable(t) == TRUE

Replaceable(t) == ~(node[t].directory /\ HasChildren(t))

Create(path, directory, replace) ==
    /\ Unlocked
    /\ \E p \in Node, n \in Node \ Alive, s \in Spelling :
          /\ ParentLocked(path, p, s)
          /\ LET t == node[p].children[Fold[s]]
             IN  t # NoNode => replace /\ Replaceable(t)
          /\ LET f == [Vacate(node, p, Fold[s]) EXCEPT ![n] = MakeNode(s, directory, p)]
             IN  Finish(Emplace(Reveal(f, p, Fold[s]), p, Fold[s], n), held \cup {n}, cursor, dirtyBytes)

\* Fault: relies on the caller's having looked inside (ContentsKept, of module
\* WinFspFileSystem).
RemovableUnseen(n) == n # Root /\ node[n].linked /\ node[n].parent # NoNode

Removable(n) ==
    /\ n # Root
    /\ node[n].linked
    /\ ~(node[n].directory /\ HasChildren(n))
    /\ node[n].parent # NoNode

Remove(n) ==
    /\ Unlocked
    /\ n \in held
    /\ Removable(n)
    /\ LET p == node[n].parent
           k == Fold[node[n].name]
       IN  Finish([node EXCEPT ![p].children[k] = NoNode,
                               ![p].tombstones = @ \cup {k},
                               ![n].parent = NoNode,
                               ![n].linked = FALSE],
                  held, cursor, dirtyBytes)

\* Fault: only a move directly into itself is refused (NoCycles).
MovesDirectlyIntoItself(n, p) == node[n].directory /\ n = p

\* The walk from new_parent up to the root meets n.
MovesIntoItself(n, p) == node[n].directory /\ n \in Closure(ParentsOf(node), {p})

\* Fault: a file may replace an empty directory, and a directory a file
\* (RefinesNamespace).
MayReplaceOtherKind(n, t, replace) == t \notin {NoNode, n} => replace /\ Replaceable(t)

\* What may be in the target slot when n is moved there.
MayReplace(n, t, replace) ==
    t \notin {NoNode, n} => /\ replace
                           /\ node[t].directory = node[n].directory
                           /\ Replaceable(t)

\* Fault: forgets that the name changes too (DeletionRemembered).
SameDirectory(n, p, k) == node[n].parent = p

SameSlot(n, p, k) == node[n].parent = p /\ Fold[node[n].name] = k

\* Fault: the old slot keeps the node when it moves away (WellPlaced).
LeaveWithoutErase(f, n, sameSlot) ==
    LET p == f[n].parent
        k == Fold[f[n].name]
    IN  IF sameSlot THEN [f EXCEPT ![p].children[k] = NoNode]
        ELSE [f EXCEPT ![p].tombstones = @ \cup {k}]

\* n leaves its slot; only a change of the name or the directory leaves a
\* tombstone there.
Leave(f, n, sameSlot) ==
    LET p == f[n].parent
        k == Fold[f[n].name]
    IN  [f EXCEPT ![p].children[k] = NoNode,
                  ![p].tombstones = IF sameSlot THEN @ ELSE @ \cup {k}]

Rename(n, path, replace) ==
    /\ Unlocked
    /\ n \in held
    /\ n # Root
    /\ node[n].linked
    /\ node[n].parent # NoNode
    /\ \E p \in Node, s \in Spelling :
          /\ ParentLocked(path, p, s)
          /\ ~MovesIntoItself(n, p)
          /\ LET k == Fold[s]
                 t == node[p].children[k]
                 cleared == IF t = n THEN node ELSE Vacate(node, p, k)
                 moved == [Leave(cleared, n, SameSlot(n, p, k))
                              EXCEPT ![n].name = s, ![n].parent = p]
             IN  /\ MayReplace(n, t, replace)
                 /\ Finish(Emplace(Reveal(moved, p, k), p, k, n), held, cursor, dirtyBytes)

(***************************************************************************)
(* Dirty pages and the quota.                                              *)
(***************************************************************************)
Room == (IF dirtyBytes < Quota THEN Quota - dirtyBytes ELSE 0) \div PageSize

\* A write that touches the pages first .. last of the file n.
Write(n, first, last) ==
    /\ Unlocked
    /\ n \in held
    /\ ~node[n].directory
    /\ first <= last
    /\ LET needed == (first .. last) \ node[n].dirtyPages
       IN  /\ Cardinality(needed) <= Room
           /\ Finish([node EXCEPT ![n].dirtyPages = @ \cup needed], held, cursor,
                     dirtyBytes + PageSize * Cardinality(needed))

\* Fault: counts the pages cut off whether dirty or not (TypeOK).
PagesCutOff(n, firstRemoved) == firstRemoved .. PageCount - 1

PagesRemoved(n, firstRemoved) == {p \in node[n].dirtyPages : p >= firstRemoved}

\* A resize of the file n to a size that ends before page firstRemoved.
Resize(n, firstRemoved) ==
    /\ Unlocked
    /\ n \in held
    /\ ~node[n].directory
    /\ LET removed == PagesRemoved(n, firstRemoved)
       IN  Finish([node EXCEPT ![n].dirtyPages = @ \ removed], held, cursor,
                  dirtyBytes - PageSize * Cardinality(removed))

(***************************************************************************)
(* The overlay of one archive entry.  A depot with several entries is this *)
(* as many times, with no other call in between.  An overlay starts only   *)
(* when Node has room for all it may create.                               *)
(***************************************************************************)
BeginOverlay(path) ==
    /\ Unlocked
    /\ path # <<>>
    /\ Len(path) <= Cardinality(Node \ Alive)
    /\ Finish(node, held, [dir |-> Root, rest |-> path], dirtyBytes)

CursorKey == Fold[Head(cursor.rest)]
CursorNode == node[cursor.dir].children[CursorKey]
AtLastComponent == Len(cursor.rest) = 1

\* Fault: a deleted directory is made again (DeletedStaysDeleted).
HiddenFile == AtLastComponent /\ CursorKey \in node[cursor.dir].tombstones

CursorHidden == CursorKey \in node[cursor.dir].tombstones

\* The component was deleted: the entry and all below it stay hidden.
OverlayHidden ==
    /\ cursor # NoOverlay
    /\ CursorHidden
    /\ Finish(node, held, NoOverlay, dirtyBytes)

OverlayDescend ==
    /\ cursor # NoOverlay
    /\ ~CursorHidden
    /\ ~AtLastComponent
    /\ \E t \in Node :
          /\ t = CursorNode
          /\ node[t].directory
          /\ Finish(node, held, [dir |-> t, rest |-> Tail(cursor.rest)], dirtyBytes)

\* The new node n takes the place of what is in the slot; c is the cursor then.
OverlayPut(n, directory, c) ==
    LET made == [Vacate(node, cursor.dir, CursorKey)
                    EXCEPT ![n] = MakeNode(Head(cursor.rest), directory, cursor.dir)]
    IN  Finish(Emplace(made, cursor.dir, CursorKey, n), held, c, dirtyBytes)

OverlayMakeDirectory ==
    /\ cursor # NoOverlay
    /\ ~CursorHidden
    /\ ~AtLastComponent
    /\ CursorNode # NoNode => ~node[CursorNode].directory
    /\ \E n \in Node \ Alive : OverlayPut(n, TRUE, [dir |-> n, rest |-> Tail(cursor.rest)])

OverlayPlaceFile ==
    /\ cursor # NoOverlay
    /\ ~CursorHidden
    /\ AtLastComponent
    /\ \E n \in Node \ Alive : OverlayPut(n, FALSE, NoOverlay)

OverlayStep ==
    \/ OverlayHidden
    \/ OverlayDescend
    \/ OverlayMakeDirectory
    \/ OverlayPlaceFile

Next ==
    \/ \E path \in Paths : Lookup(path)
    \/ \E n \in Node : Release(n)
    \/ \E path \in Paths, directory, replace \in BOOLEAN : Create(path, directory, replace)
    \/ \E n \in Node : Remove(n)
    \/ \E n \in Node, path \in Paths, replace \in BOOLEAN : Rename(n, path, replace)
    \/ \E n \in Node, first, last \in Page : Write(n, first, last)
    \/ \E n \in Node, firstRemoved \in 0 .. PageCount : Resize(n, firstRemoved)
    \/ \E path \in Paths : BeginOverlay(path)
    \/ OverlayStep

Spec == Init /\ [][Next]_vars

-----------------------------------------------------------------------------
(***************************************************************************)
(* Properties.                                                             *)
(***************************************************************************)

\* Every variable has its type.
TypeOK ==
    /\ node \in [Node -> NodeType]
    /\ held \subseteq Node
    /\ cursor \in Cursor \cup {NoOverlay}
    /\ dirtyBytes \in Nat

\* A node is in at most one slot, the one its name and its parent name, and
\* only a linked node in a directory is.
OneSlotEach ==
    \A d \in Node, k \in Key :
        LET n == node[d].children[k]
        IN  n # NoNode => /\ node[d].directory
                          /\ node[n].linked
                          /\ node[n].parent = d
                          /\ Fold[node[n].name] = k

\* Conversely a linked node whose parent is alive is in the slot it names, and
\* a node that was removed or replaced has no parent.
LinkedNodesInPlace ==
    \A n \in Node :
        node[n].parent # NoNode =>
            /\ node[n].linked
            /\ node[n].parent # n
            /\ node[node[n].parent].children[Fold[node[n].name]] = n

\* A name marked deleted in a directory is not also present there.
TombstonesNameNothing ==
    \A d \in Node : \A k \in node[d].tombstones : node[d].children[k] = NoNode

\* Children, parent, name, linked and tombstones are five records of one fact,
\* which create, remove, rename and overlay each update piecemeal, and which
\* agree after every call, with the nodes destroyed that nobody refers to.
WellPlaced == OneSlotEach /\ LinkedNodesInPlace /\ TombstonesNameNothing

\* No directory is inside itself, however it was moved: the walk that rename
\* makes from the new parent to the root ends, and no directory keeps itself
\* alive through its children.
NoCycles == \A n \in Node : n \notin Closure(ChildrenOf(node), ChildrenOf(node)[n])

\* The counter is what the dirty pages of the live nodes cost, open but deleted
\* files included, and never exceeds the quota, whatever is written, truncated,
\* deleted, replaced or closed in whatever order.
QuotaRespected ==
    /\ dirtyBytes = PageSize * Cardinality(PageSlots(node, Node))
    /\ dirtyBytes <= Quota

\* The nodes that a path can lead to.
FromRoot(f) == Closure(ChildrenOf(f), {Root})

\* No call cuts a node that stays linked off the root, with all below it.  Only
\* an overlay may, when a file of a newer archive replaces a directory.
NothingStranded ==
    [][Unlocked => LET after == FromRoot(node')
                   IN  \A n \in FromRoot(node) : node'[n].linked => n \in after]_vars

\* A name that leaves a directory by a call is remembered as deleted there.
DeletionRemembered ==
    [][Unlocked => \A d \in Node, k \in Key :
          (/\ node[d].children[k] # NoNode
           /\ node'[d].directory
           /\ node'[d].children[k] = NoNode) => k \in node'[d].tombstones]_vars

\* An overlay never brings a deleted name back, nor forgets that it is deleted:
\* what the user deleted stays deleted when a further archive is laid over.
DeletedStaysDeleted ==
    [][~Unlocked => \A d \in Node : \A k \in node[d].tombstones :
          /\ node'[d].directory => k \in node'[d].tombstones
          /\ node'[d].children[k] = NoNode]_vars

\* A handle that stays open keeps its file as it is, whatever happens to the
\* names: deleting, replacing, renaming or overlaying it loses no dirty page.
OpenFilesKeepPages ==
    [][(\E n \in Node : node'[n].linked # node[n].linked \/ node'[n].parent # node[n].parent)
          => \A n \in held \cap held' :
                 /\ node'[n].dirtyPages = node[n].dirtyPages
                 /\ node'[n].directory = node[n].directory]_vars

-----------------------------------------------------------------------------
(***************************************************************************)
(* The tree implements the names of Namespace.  Every step of an overlay   *)
(* is an Overlay of a beginning of its path there, or no change.           *)
(***************************************************************************)
\* The nodes that are in a directory or open.
Allocated == {n \in Node : node[n].linked} \cup held

\* The place of a node, as the parent pointers and the names tell it.
PlaceOf(n) ==
    LET Up(p) == IF node[p[1]].parent = NoNode THEN p
                 ELSE <<node[p[1]].parent, <<Fold[node[p[1]].name]>> \o p[2]>>
        at[i \in 0 .. Cardinality(Node)] == IF i = 0 THEN <<n, <<>>>> ELSE Up(at[i - 1])
    IN  at[Cardinality(Node)]

\* The place of what has the key k in a directory at q.
Inside(q, k) == <<q[1], Append(q[2], k)>>

\* What programs see: where everything is, which of it are directories, how it
\* is spelled, and the places that are marked deleted.
Places == [n \in Allocated |-> PlaceOf(n)]
Directories == {n \in Allocated : node[n].directory}
Spellings == [n \in Allocated |-> node[n].name]
Marked == UNION {{Inside(PlaceOf(d), k) : k \in node[d].tombstones} : d \in Allocated}

Names ==
    INSTANCE Namespace WITH
        Object <- Node,
        place <- Places,
        directories <- Directories,
        name <- Spellings,
        deleted <- Marked,
        open <- held

\* Programs see one tree of names: every call moves, adds or removes what its
\* path and its handle say and nothing else, what leads to an object and what
\* it believes of its place agree, and an overlay puts only what is not deleted.
RefinesNamespace == Names!Spec

=============================================================================
