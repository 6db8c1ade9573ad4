------------------------------ MODULE Manifest ------------------------------
(***************************************************************************)
(* From the node table of a manifest to the files of a depot: the checks   *)
(* and the walk from each file up to the root in parse_manifest, and the   *)
(* projection of the paths at the end of Steam2Depot::load                 *)
(* (steam2_archive.cpp).                                                   *)
(*                                                                         *)
(* The parents come from the archive and may be anything.  The header and  *)
(* its checksum are left out.  There is no mount prefix: the window gives  *)
(* none.  The walk repeats the checks of parents and names, to no effect;  *)
(* here they are made once.  A manifest is then accepted or rejected.      *)
(* Module Depot composes this with the blob and the checksum table.        *)
(*                                                                         *)
(* An operator whose comment begins with "Fault:" is no part of the model. *)
(***************************************************************************)
EXTENDS Integers, Sequences, FiniteSets

CONSTANTS
    Word,       \* the names in string tables
    Empty,      \* the empty name, one of them
    Unsafe,     \* the names with separators, and "." and ".."
    Strip,      \* each name without its colons, a function on Word
    NoParent,   \* 0xffffffff
    Manifests   \* the manifests an archive may contain: nodes and fileCount

\* A node is a file if its flags are not zero.  Nodes are counted from 1.
NodeType == [name : Word, id : Nat, parent : Nat \cup {NoParent}, file : BOOLEAN]

\* Assumed of the constants by who uses this module.
Assumptions ==
    /\ Empty \in Word /\ Unsafe \subseteq Word /\ Strip \in [Word -> Word]
    /\ NoParent \notin Nat
    /\ \A m \in Manifests : m.nodes \in Seq(NodeType) /\ m.fileCount \in Nat

VARIABLES
    nodes,      \* the node table
    fileCount,  \* the number of files the header reports
    pc,         \* "none", "check", "walk", "project", "accepted" or "rejected"
    index,      \* the file whose path is put together, or projected
    current,    \* the node the walk has reached
    depth,      \* steps of the walk
    parts,      \* names met, which come in reverse order
    files,      \* the nodes of files and their paths
    projected   \* the paths of the files projected so far

vars == <<nodes, fileCount, pc, index, current, depth, parts, files, projected>>

Init ==
    /\ nodes = <<>>
    /\ fileCount = 0
    /\ pc = "none"
    /\ index = 1
    /\ current = 1
    /\ depth = 0
    /\ parts = <<>>
    /\ files = <<>>
    /\ projected = {}

\* parse_manifest is called.
Parse(manifest) ==
    /\ pc = "none"
    /\ nodes' = manifest.nodes
    /\ fileCount' = manifest.fileCount
    /\ pc' = "check"
    /\ UNCHANGED <<index, current, depth, parts, files, projected>>

Reject ==
    /\ pc' = "rejected"
    /\ UNCHANGED <<nodes, fileCount, index, current, depth, parts, files, projected>>

ParentsInside == \A i \in DOMAIN nodes : nodes[i].parent \in DOMAIN nodes \cup {NoParent}
NamesSafe == \A i \in DOMAIN nodes : nodes[i].name \notin Unsafe

Check ==
    /\ pc = "check"
    /\ \/ /\ ParentsInside
          /\ NamesSafe
          /\ fileCount <= Len(nodes)
          /\ pc' = "walk"
          /\ UNCHANGED <<nodes, fileCount, index, current, depth, parts, files, projected>>
       \/ /\ ~(ParentsInside /\ NamesSafe /\ fileCount <= Len(nodes))
          /\ Reject

\* The loop over the nodes goes on with the next one.
Next1 ==
    /\ index' = index + 1
    /\ current' = index + 1
    /\ depth' = 0
    /\ parts' = <<>>

SkipDirectory ==
    /\ pc = "walk"
    /\ index <= Len(nodes)
    /\ ~nodes[index].file
    /\ Next1
    /\ UNCHANGED <<nodes, fileCount, pc, files, projected>>

Walking == pc = "walk" /\ index <= Len(nodes) /\ nodes[index].file

\* Fault: a path one short of the longest is taken for a cycle (RejectedWithReason).
OneTooEarly == depth + 1 >= Len(nodes)

TooDeep == depth > Len(nodes)

AtRoot == nodes[current].parent = NoParent

\* Fault: names are put in the order in which they are met (PathsAreRight).
AtTheEnd(name) == Append(parts, name)

\* The parts are reversed when the path is put together.
InFront(name) == <<name>> \o parts

Nameless(name) == name = Empty

\* One step towards the root, whose own name is no part of the path.
StepUp ==
    /\ Walking
    /\ ~TooDeep
    /\ ~AtRoot
    /\ \/ /\ Nameless(nodes[current].name)
          /\ Reject
       \/ /\ ~Nameless(nodes[current].name)
          /\ parts' = InFront(nodes[current].name)
          /\ current' = nodes[current].parent
          /\ depth' = depth + 1
          /\ UNCHANGED <<nodes, fileCount, pc, index, files, projected>>

CycleFound ==
    /\ Walking
    /\ TooDeep
    /\ Reject

EndOfPath ==
    /\ Walking
    /\ ~TooDeep
    /\ AtRoot
    /\ \/ /\ parts = <<>>
          /\ Reject
       \/ /\ parts # <<>>
          /\ files' = Append(files, [node |-> index, path |-> parts])
          /\ Next1
          /\ UNCHANGED <<nodes, fileCount, pc, projected>>

EndOfNodes ==
    /\ pc = "walk"
    /\ index > Len(nodes)
    /\ \/ /\ Len(files) # fileCount
          /\ Reject
       \/ /\ Len(files) = fileCount
          /\ pc' = "project"
          /\ index' = 1
          /\ UNCHANGED <<nodes, fileCount, current, depth, parts, files, projected>>

-----------------------------------------------------------------------------
(***************************************************************************)
(* The projection.                                                         *)
(***************************************************************************)
\* entry.file_id
EntryId(k) == nodes[files[k].node].id

\* prefixed_path without a prefix: colons go.
ProjectedPath(path) == [i \in DOMAIN path |-> Strip[path[i]]]

\* Fault: paths are compared as the manifest has them (PathsDistinct).
TakenAsWritten(k) == \E l \in 1 .. k - 1 : files[l].path = files[k].path

\* Another file has been projected to the path.
Taken(k) == ProjectedPath(files[k].path) \in projected

\* One turn of the loop over the entries.  The ids in mapped are those that the
\* checksum tables say something of.
ProjectFile(mapped) ==
    /\ pc = "project"
    /\ index <= Len(files)
    /\ \/ /\ EntryId(index) \notin mapped \/ Taken(index)
          /\ Reject
       \/ /\ EntryId(index) \in mapped
          /\ ~Taken(index)
          /\ projected' = projected \cup {ProjectedPath(files[index].path)}
          /\ index' = index + 1
          /\ UNCHANGED <<nodes, fileCount, pc, current, depth, parts, files>>

Accept ==
    /\ pc = "project"
    /\ index > Len(files)
    /\ pc' = "accepted"
    /\ UNCHANGED <<nodes, fileCount, index, current, depth, parts, files, projected>>

Step(mapped) ==
    \/ Check
    \/ SkipDirectory
    \/ StepUp
    \/ CycleFound
    \/ EndOfPath
    \/ EndOfNodes
    \/ ProjectFile(mapped)
    \/ Accept

-----------------------------------------------------------------------------
(***************************************************************************)
(* Properties.                                                             *)
(***************************************************************************)

\* The nodes from i up, and those of them below a root.
Ancestors(i) ==
    LET up[k \in 0 .. Len(nodes)] ==
            IF k = 0 THEN {i}
            ELSE up[k - 1] \cup ({nodes[j].parent : j \in up[k - 1]} \ {NoParent})
    IN  up[Len(nodes)]
BelowRoot(i) == {j \in Ancestors(i) : nodes[j].parent # NoParent}

FileNodes == {i \in DOMAIN nodes : nodes[i].file}

\* What makes a path bad: it never reaches a root, or begins at one, or has a
\* component without a name.
PathBad(i) ==
    \/ \A j \in Ancestors(i) : nodes[j].parent # NoParent
    \/ nodes[i].parent = NoParent
    \/ \E j \in BelowRoot(i) : nodes[j].name = Empty

\* path[Len(path)] is the name of the file, and the name before it that of the
\* parent of the node it is the name of, up to the child of a root.
IsPathOf(path, i) ==
    \E chain \in [DOMAIN path -> DOMAIN nodes] :
        /\ chain[Len(path)] = i
        /\ nodes[chain[1]].parent # NoParent
        /\ nodes[nodes[chain[1]].parent].parent = NoParent
        /\ \A k \in DOMAIN path : path[k] = nodes[chain[k]].name /\ path[k] # Empty
        /\ \A k \in DOMAIN path : k > 1 => nodes[chain[k]].parent = chain[k - 1]

\* A manifest that is accepted yields every file once, with the path that its
\* parents give it and no empty name, whatever order parents and children have in the table.
PathsAreRight ==
    pc = "accepted" =>
        /\ {files[k].node : k \in DOMAIN files} = FileNodes
        /\ Len(files) = Cardinality(FileNodes)
        /\ \A k \in DOMAIN files : IsPathOf(files[k].path, files[k].node)

\* Two files come to have one path, if not before then when their colons go.
PathsClash ==
    \E k, l \in DOMAIN files :
        k # l /\ ProjectedPath(files[k].path) = ProjectedPath(files[l].path)

\* No file of a manifest that is accepted hides another of its files.
PathsDistinct == pc = "accepted" => ~PathsClash

\* A manifest is rejected for a reason only: no path is too deep as such.
RejectedWithReason(mapped) ==
    pc = "rejected" =>
        \/ ~ParentsInside
        \/ ~NamesSafe
        \/ fileCount # Cardinality(FileNodes)
        \/ \E i \in FileNodes : PathBad(i)
        \/ \E k \in DOMAIN files : EntryId(k) \notin mapped
        \/ PathsClash

=============================================================================
