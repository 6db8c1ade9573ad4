-------------------------- MODULE WinFspFileSystem --------------------------
(***************************************************************************)
(* The callbacks through which WinFsp drives the tree                      *)
(* (winfsp_filesystem.cpp): which node each open handle stands for, how    *)
(* files are deleted through handles, and how a directory is enumerated    *)
(* in several calls while other handles change it.                         *)
(*                                                                         *)
(* A callback is one action.  It makes several calls to the tree, but      *)
(* WinFsp's guard (the default strategy, FINE) lets no change of the       *)
(* namespace run beside another callback on it.  What the driver does with *)
(* handles is external: cleanup comes before close, a renamed directory    *)
(* has no open files inside, and a deletion is asked for once by the test  *)
(* and once by a flag of cleanup, or only by the latter.  A callback that  *)
(* fails changes nothing and is no step, but for an enumeration.           *)
(*                                                                         *)
(* The contents of files are in module FileContent; the overlay of the     *)
(* archives is over when the drive is mounted.                             *)
(*                                                                         *)
(* An operator whose comment begins with "Fault:" is no part of the model. *)
(***************************************************************************)
EXTENDS VirtualTree

CONSTANTS
    Handle,     \* open contexts there is room for
    NotOpen,    \* no context
    Dot,        \* the entries that a directory other than the root has for
    DotDot,     \* itself and for its parent
    Rank        \* the order of names that compare_names defines, as numbers

VARIABLES
    opened,     \* the OpenContext of each handle
    pending     \* external: nodes that go when their last handle is cleaned up

fsVars == <<node, held, cursor, dirtyBytes, opened, pending>>

Entry == Key \cup {Dot, DotDot}

ASSUME EntryAssumption == Dot # DotDot /\ {Dot, DotDot} \cap Key = {}
ASSUME RankAssumption ==
    /\ Rank \in [Entry -> Nat]
    /\ \A x, y \in Entry : Rank[x] = Rank[y] => x = y
\* What opened[h] is: node and path are the code's.  The other fields are the driver's: whether
\* the handle has been cleaned up and whether its cleanup is to delete the file
\* at once, and how far an enumeration has come: what has been listed, and
\* (history) which names have been there since it began.
Context == [node : Node, path : Paths \cup {<<>>}, cleaned : BOOLEAN, posix : BOOLEAN,
            phase : {"none", "listing", "complete", "refused"},
            listed : Seq(Entry), stayed : SUBSET Key]

ASSUME HandleAssumption == NotOpen \notin Context

OpenContext(n, path) ==
    [node |-> n, path |-> path, cleaned |-> FALSE, posix |-> FALSE,
     phase |-> "none", listed |-> <<>>, stayed |-> {}]

IsOpen(h) == opened[h] # NotOpen
Opened == {h \in Handle : IsOpen(h)}
NodeOf(h) == opened[h].node

\* The names in directory n of the tree f.
NamesIn(f, n) == {k \in Key : f[n].children[k] # NoNode}

\* The contexts become o; names that go are no longer among those that stayed.
Opens(o) ==
    opened' = [h \in Handle |->
        IF o[h] = NotOpen THEN NotOpen
        ELSE [o[h] EXCEPT !.stayed = @ \cap NamesIn(node', o[h].node)]]

FsInit ==
    /\ Init
    /\ opened = [h \in Handle |-> NotOpen]
    /\ pending = {}

-----------------------------------------------------------------------------
(***************************************************************************)
(* Opening and closing.                                                    *)
(***************************************************************************)
CreateFile(h, path, directory) ==
    /\ ~IsOpen(h)
    /\ Create(path, directory, FALSE)
    /\ \E n \in held' \ held : Opens([opened EXCEPT ![h] = OpenContext(n, path)])
    /\ UNCHANGED pending

\* Memory runs out for the context of a node just created: it is removed again.
CreateRolledBack(path) ==
    /\ \E p \in Node, s \in Spelling :
          /\ ParentLocked(path, p, s)
          /\ node[p].children[Fold[s]] = NoNode
          /\ Finish([node EXCEPT ![p].tombstones = @ \cup {Fold[s]}], held, cursor, dirtyBytes)
    /\ Opens(opened)
    /\ UNCHANGED pending

\* An open with FILE_DELETE_ON_CLOSE makes no further request to delete.
Open(h, path, deleteOnClose) ==
    /\ ~IsOpen(h)
    /\ Lookup(path)
    /\ Opens([opened EXCEPT ![h] = OpenContext(FindLocked(path), path)])
    /\ pending' = IF deleteOnClose THEN pending \cup {FindLocked(path)} ELSE pending

\* The driver allows a deletion after this test, which it makes for directories
\* only (PostDispositionWhenNecessaryOnly); a file passes it anyway.  It takes effect when this
\* handle is cleaned up (posix), or the last handle of the file.
CanDelete(h, posix) ==
    /\ IsOpen(h)
    /\ ~opened[h].cleaned
    /\ opened[h].path # <<>>
    /\ ~(node[NodeOf(h)].directory /\ HasChildren(NodeOf(h)))
    /\ opened' = [opened EXCEPT ![h].posix = @ \/ posix]
    /\ pending' = IF posix THEN pending ELSE pending \cup {NodeOf(h)}
    /\ UNCHANGED vars

\* The flag FspCleanupDelete.
DeleteFlag(h) ==
    \/ opened[h].posix
    \/ /\ NodeOf(h) \in pending
       /\ \A g \in Opened \ {h} : NodeOf(g) = NodeOf(h) => opened[g].cleaned

\* Fault: deletes what has the handle's path (DeletesItsOwn).
AtPath(h) == FindLocked(opened[h].path)

\* What cleanup removes.
Doomed(h) == opened[h].node

\* The removal may fail, of which nobody is told.
Cleanup(h) ==
    /\ IsOpen(h)
    /\ ~opened[h].cleaned
    /\ \/ /\ DeleteFlag(h)
          /\ Remove(Doomed(h))
       \/ /\ ~(DeleteFlag(h) /\ Removable(Doomed(h)))
          /\ UNCHANGED vars
    /\ Opens([opened EXCEPT ![h].cleaned = TRUE])
    /\ pending' = IF \A g \in Opened \ {h} : NodeOf(g) = NodeOf(h) => opened[g].cleaned
                  THEN pending \ {NodeOf(h)} ELSE pending

\* The context goes, and with it one reference to the node.
ReleaseContext(h) ==
    IF \E g \in Opened \ {h} : NodeOf(g) = NodeOf(h) THEN UNCHANGED vars
    ELSE Release(NodeOf(h))

Close(h) ==
    /\ IsOpen(h)
    /\ opened[h].cleaned
    /\ ReleaseContext(h)
    /\ Opens([opened EXCEPT ![h] = NotOpen])
    /\ UNCHANGED pending

\* External: nothing inside n is open.
NothingOpenInside(n) ==
    LET below == Closure(ChildrenOf(node), ChildrenOf(node)[n])
    IN  \A h \in Opened : NodeOf(h) \in below => opened[h].cleaned

\* Only the handle of the call learns the new path.
RenameFile(h, path, replace) ==
    /\ IsOpen(h)
    /\ ~opened[h].cleaned
    /\ opened[h].path # <<>>
    /\ NothingOpenInside(NodeOf(h))
    /\ Rename(NodeOf(h), path, replace)
    /\ Opens([opened EXCEPT ![h].path = path])
    /\ UNCHANGED pending

-----------------------------------------------------------------------------
(***************************************************************************)
(* Enumeration.  The driver's buffer has room for one entry, so every call *)
(* but the first has the last entry listed as its marker.                  *)
(***************************************************************************)
Directory(h) == IsOpen(h) /\ ~opened[h].cleaned /\ node[NodeOf(h)].directory

Entries(h) ==
    NamesIn(node, NodeOf(h)) \cup (IF opened[h].path = <<>> THEN {} ELSE {Dot, DotDot})

\* The directory is looked for by the path of the handle.
ParentFound(h) ==
    LET path == opened[h].path
    IN  path # <<>> => FindLocked(SubSeq(path, 1, Len(path) - 1)) # NoNode

\* Fault: goes on after as many entries as have been listed (ListedOnce).
AfterCount(h, listed) ==
    {x \in Entries(h) :
        Cardinality({y \in Entries(h) : Rank[y] < Rank[x]}) >= Len(listed)}

AfterMarker(h, listed) ==
    {x \in Entries(h) : listed = <<>> \/ Rank[x] > Rank[listed[Len(listed)]]}

\* One call, where listed is what has been listed before.
ListNext(h, listed, stayed) ==
    LET rest == AfterMarker(h, listed)
        to(phase, names) == [opened EXCEPT ![h].phase = phase, ![h].listed = names,
                                           ![h].stayed = stayed]
    IN  \/ /\ ~ParentFound(h)
           /\ opened' = to("refused", listed)
        \/ /\ ParentFound(h)
           /\ rest = {}
           /\ opened' = to("complete", listed)
        \/ /\ ParentFound(h)
           /\ \E x \in rest :
                 /\ \A y \in rest : Rank[x] <= Rank[y]
                 /\ opened' = to("listing", Append(listed, x))

\* ReadDirectory without a marker begins, and one with a marker goes on.
ReadDirectoryFirst(h) ==
    /\ Directory(h)
    /\ ListNext(h, <<>>, NamesIn(node, NodeOf(h)))
    /\ UNCHANGED <<node, held, cursor, dirtyBytes, pending>>

ReadDirectoryNext(h) ==
    /\ Directory(h)
    /\ opened[h].phase = "listing"
    /\ ListNext(h, opened[h].listed, opened[h].stayed)
    /\ UNCHANGED <<node, held, cursor, dirtyBytes, pending>>

FsNext ==
    \/ \E h \in Handle, path \in Paths, directory \in BOOLEAN : CreateFile(h, path, directory)
    \/ \E path \in Paths : CreateRolledBack(path)
    \/ \E h \in Handle, path \in Paths \cup {<<>>}, deleteOnClose \in BOOLEAN :
          Open(h, path, deleteOnClose)
    \/ \E h \in Handle, posix \in BOOLEAN : CanDelete(h, posix)
    \/ \E h \in Handle : Cleanup(h)
    \/ \E h \in Handle : Close(h)
    \/ \E h \in Handle, path \in Paths, replace \in BOOLEAN : RenameFile(h, path, replace)
    \/ \E h \in Handle : ReadDirectoryFirst(h)
    \/ \E h \in Handle : ReadDirectoryNext(h)

FsSpec == FsInit /\ [][FsNext]_fsVars

-----------------------------------------------------------------------------
(***************************************************************************)
(* Properties.                                                             *)
(***************************************************************************)

\* An enumeration lists every name once that is in the directory from its
\* beginning to its end, and none twice, whatever other handles create, delete
\* and rename there between its calls.
ListedOnce ==
    \A h \in Opened :
        LET listed == opened[h].listed
        IN  /\ \A i, j \in DOMAIN listed : listed[i] = listed[j] => i = j
            /\ opened[h].phase = "complete" =>
                  opened[h].stayed \subseteq {listed[i] : i \in DOMAIN listed}

\* A file goes only when a handle of that very file asked for it, or a rename
\* put another in its place: not the file that has taken the name of the handle's
\* since, however names have moved in between.
DeletesItsOwn ==
    [][\A n \in Node :
          (node[n].linked /\ ~node'[n].linked /\ \E h \in Handle : Cleanup(h)) =>
              \E h \in Opened : NodeOf(h) = n /\ (n \in pending \/ opened[h].posix)]_fsVars

\* CanDelete and the deletion are two calls: what another handle puts in a
\* directory between them stays reachable, as cleanup looks again.
ContentsKept ==
    [][node' # node =>
          \A n \in FromRoot(node) : node'[n].linked => n \in FromRoot(node')]_fsVars

\* Handles are stable: a directory can be enumerated through an open handle for
\* as long as it is in the tree ("Preserve read/write/memory-mapped filesystem
\* semantics through stable handles", CONTRIBUTING.md:21).
EnumerableWhileLinked ==
    \A h \in Opened : opened[h].phase = "refused" => ~node[NodeOf(h)].linked

=============================================================================
