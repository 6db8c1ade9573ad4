------------------------------ MODULE Library -------------------------------
(***************************************************************************)
(* The archive files of the user, as the window's catalog (module Catalog) *)
(* and the worker's loader (module Loader) see them: names that claim a    *)
(* depot, a version and a CRC, and contents that may say otherwise.        *)
(*                                                                         *)
(* A file is a path, which settles its name, and a content, which the user *)
(* may replace or delete at any moment.  Names are what the two parsers    *)
(* make of them.  Of a blob's content there remain the fields the program  *)
(* acts upon; its bytes are in other modules or left out.                  *)
(***************************************************************************)
EXTENDS Integers, Sequences, FiniteSets

CONSTANTS
    Path,       \* the paths of files, present or not
    Sorted,     \* the same paths in the order of pathLess
    Name,       \* what the name of each says
    Directory,  \* the folders of the library, all of which a scan enters
    Folder,     \* the one that each file is in
    Contents,   \* what may be at each path
    Absent,     \* there is no such file
    Garbled,    \* a blob in which the loader cannot find its fields
    Malformed,  \* the files of a manifest or checksum table that does not parse
    NoCrc,      \* a name without a CRC, or a build that asks for none
    NoPath,     \* no file, or no folder
    FileId,     \* the files inside the archives, by their id
    Keyed,      \* the depots of which depot_keys.cpp has a key
    MaxVersion, \* bound on versions
    MaxBytes    \* the largest sum of archive sizes, 2^64 - 1 in the code

Version == 0 .. MaxVersion

\* A CRC of zero in a blob's parent field means that it has no parent.
Crc == Nat

\* strict: the name is DEPOT_VERSION_CRC_SHA256 to the letter, which only the
\* catalog asks for.  The loader needs depot and version.
NameType == [kind : {"blob", "dat"}, depot : Nat, version : Version,
             crc : Crc \cup {NoCrc}, strict : BOOLEAN]

\* The embedded fields of a blob: the parent's CRC, the size of its DAT, the
\* files its checksum table maps, the files its manifest names, and whether two
\* of them get the same path once colons are dropped (PathsClash in Manifest).
BlobType == [parent : Crc, datSize : Nat,
             table : (SUBSET FileId) \cup {Malformed},
             manifest : (SUBSET FileId) \cup {Malformed},
             clash : BOOLEAN]

DatType == [size : Nat]

ASSUME NameTypeAssumption == Name \in [Path -> NameType]
ASSUME FolderAssumption == Folder \in [Path -> Directory]
ASSUME StrictAssumption == \A p \in Path : Name[p].strict => Name[p].crc # NoCrc
ASSUME SortedAssumption ==
    /\ Sorted \in Seq(Path)
    /\ \A p \in Path : \E i \in DOMAIN Sorted : Sorted[i] = p

\* What there may be at a path of either kind.
MayHold(p) == {Absent} \cup (IF Name[p].kind = "blob" THEN BlobType \cup {Garbled} ELSE DatType)

ASSUME ContentsAssumption == \A p \in Path : Contents[p] \subseteq MayHold(p)
ASSUME ValueAssumption ==
    /\ Absent \notin BlobType \cup DatType \cup {Garbled}
    /\ Garbled \notin BlobType
    /\ Malformed \notin SUBSET FileId
    /\ NoCrc \notin Crc
    /\ NoPath \notin Path \cup Directory
ASSUME BoundAssumption == MaxVersion \in Nat /\ MaxBytes \in Nat

VARIABLE disk   \* what is at each path

Present(p) == disk[p] # Absent

\* load_blob_candidate: the file is there, its blob parses, its format is
\* known, and the fields for parent and size are there.
Loadable(p) == Present(p) /\ disk[p] # Garbled

\* The user replaces, removes or adds a file.
Change(p, content) ==
    /\ disk[p] # content
    /\ disk' = [disk EXCEPT ![p] = content]

=============================================================================
