------------------------------- MODULE Depot --------------------------------
(***************************************************************************)
(* One revision without a parent from its files to the reads of the        *)
(* mounted drive, as Steam2Depot::load goes through them                   *)
(* (steam2_archive.cpp): the blob, the checksum table in it, the manifest  *)
(* in it, and Steam2File::read on the files of the manifest.               *)
(*                                                                         *)
(* The chain of revisions and the choice of files are in module Loader.    *)
(* An exception ends the call, and nothing more happens.                   *)
(*                                                                         *)
(* An operator whose comment begins with "Fault:" is no part of the model. *)
(***************************************************************************)
EXTENDS Integers, Sequences, FiniteSets

CONSTANTS
    Contents, BlobMagic, CompressedMagic, KeyWidth, Unpack,     \* of Blob
    Reader, NoReader, Cell, Dat, Decrypt, Inflate, BlockSize,   \* of ArchiveRead
    MaxU32, MaxU64, Tables, Request,
    Word, Empty, Unsafe, Strip, NoParent, Manifests,            \* of Manifest
    TableIn,        \* the table that the bytes of field 4 are
    ManifestsIn     \* the manifests that the bytes of a manifest may be

ASSUME TableInAssumption == \A v \in DOMAIN TableIn : TableIn[v] \in Tables
ASSUME ManifestsInAssumption == \A v \in DOMAIN ManifestsIn : ManifestsIn[v] \subseteq Manifests

VARIABLES
    file, size, stage, bytes, position, values, fields,         \* of Blob
    mappings, loaded, length, stream, owner, reader,            \* of ArchiveRead
    nodes, fileCount, pc, index, current, depth, parts, files, projected    \* of Manifest

blobVars == <<file, size, stage, bytes, position, values, fields>>
dataVars == <<mappings, loaded, length, stream, owner, reader>>
pathVars == <<nodes, fileCount, pc, index, current, depth, parts, files, projected>>
vars == <<blobVars, dataVars, pathVars>>

Metadata == INSTANCE Blob
Data == INSTANCE ArchiveRead WITH files <- mappings
Paths == INSTANCE Manifest

ASSUME MetadataAssumption == Metadata!Assumptions
ASSUME DataAssumption == Data!Assumptions
ASSUME PathsAssumption == Paths!Assumptions

-----------------------------------------------------------------------------
Init ==
    /\ Metadata!Init
    /\ Data!Init
    /\ Paths!Init

ReadMetadata == Metadata!Step /\ UNCHANGED <<dataVars, pathVars>>

Table == TableIn[fields[4]]

TableRight == fields[4] \in DOMAIN TableIn /\ Data!TableAccepted(Table)

ParseTable ==
    /\ Metadata!HasTable
    /\ \/ /\ TableRight
          /\ Data!LoadTable(Table)
          /\ Metadata!TableDone
       \/ /\ ~TableRight
          /\ Metadata!Refuse
          /\ UNCHANGED dataVars
    /\ UNCHANGED pathVars

ParseManifest ==
    /\ stage = "parsed"
    /\ values[0] \in DOMAIN ManifestsIn
    /\ \E manifest \in ManifestsIn[values[0]] : Paths!Parse(manifest)
    /\ UNCHANGED <<blobVars, dataVars>>

BuildEntries == Paths!Step(DOMAIN mappings) /\ UNCHANGED <<blobVars, dataVars>>

Mounted == pc = "accepted"

\* A file of the drive is read.
ReadFile(r, k, request) ==
    /\ Mounted
    /\ Data!Begin(r, Paths!EntryId(k), request[1], request[2])
    /\ UNCHANGED <<blobVars, pathVars>>

ContinueRead(r) == Data!Continue(r) /\ UNCHANGED <<blobVars, pathVars>>

\* Whether a DAT is cut before the mount or in the first moment after makes no
\* difference, as nothing is read from it before.
CutDat == Mounted /\ Data!CutDat /\ UNCHANGED <<blobVars, pathVars>>

Next ==
    \/ ReadMetadata
    \/ ParseTable
    \/ ParseManifest
    \/ BuildEntries
    \/ \E r \in Reader, k \in DOMAIN files, request \in Request : ReadFile(r, k, request)
    \/ \E r \in Reader : ContinueRead(r)
    \/ CutDat

Spec == Init /\ [][Next]_vars

-----------------------------------------------------------------------------
(***************************************************************************)
(* Properties.                                                             *)
(***************************************************************************)

\* What is taken from a blob is what its file contains when it is read, entry by
\* entry, and the same for the blob inside: also when the file is replaced after
\* it was sized, when entries fill it to the last byte, and when a key comes
\* twice.  Nothing else is refused.  (After the manifest is parsed the blob is
\* not touched again.)
BlobReadRight ==
    /\ pc = "none" => Metadata!TakenIsRight
    /\ stage = "refused" =>
          \/ Metadata!WrongBlob
          \/ 4 \in DOMAIN fields /\ ~TableRight

\* A read that succeeds has all of what was asked for and the file contains, and
\* every byte of it is the file's: with other threads at the same stream, at
\* the ends of blocks, and with a DAT that is cut off in the meantime.  No id
\* of a file passes 32 bits and comes to stand for another file.
ReadIsExact == Data!ReadIsExact

\* A read fails only when a block that it needs is bad.  A table that has been
\* accepted leaves no gap and leads to nowhere outside the DAT, and a read that
\* has failed does not make another one fail.
FailureHasCause == Data!FailureHasCause

\* A manifest that is accepted yields every file once, with the path that its
\* parents give it and contents that can be read, whatever order parents and
\* children have in it.
PathsAreRight ==
    /\ Paths!PathsAreRight
    /\ Mounted => \A k \in DOMAIN files : Paths!EntryId(k) \in DOMAIN mappings

\* No file of the drive takes the place of another: two whose paths become one
\* when colons go are noticed, though the manifest has them apart.
PathsDistinct == Paths!PathsDistinct

\* A manifest is rejected for a reason only: no path is too deep as such.
RejectedWithReason == Paths!RejectedWithReason(DOMAIN mappings)

=============================================================================
