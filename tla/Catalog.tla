------------------------------ MODULE Catalog -------------------------------
(***************************************************************************)
(* scanLooseFiles (gui/catalog.cpp): the window's background scan and what *)
(* it makes of the files it has seen.                                      *)
(*                                                                         *)
(* The scan lists the files first and then looks at one after the other,   *)
(* so what it records of each file dates from a moment of its own.  The    *)
(* classification of the revisions is a function of these records, as it   *)
(* is in the code, which does not touch the disk again.                    *)
(*                                                                         *)
(* An operator whose comment begins with "Fault:" is no part of the model. *)
(***************************************************************************)
EXTENDS Library

VARIABLE scan   \* state of the scan: pc, todo, and the records blobs and dats

NoMetadata == Garbled

ScanInit == scan = [pc |-> "idle", todo |-> {}, blobs |-> {}, dats |-> {}]

\* The files are listed.
StartScan ==
    /\ scan.pc # "running"
    /\ scan' = [pc |-> "running", todo |-> {p \in Path : Present(p)}, blobs |-> {}, dats |-> {}]
    /\ UNCHANGED disk

\* The listed file that is next, as they have been sorted by path.
NextFile ==
    Sorted[CHOOSE i \in DOMAIN Sorted :
              /\ Sorted[i] \in scan.todo
              /\ \A j \in 1 .. i - 1 : Sorted[j] \notin scan.todo]

\* inspect_blob succeeds: besides its fields the blob has a valid manifest.
Inspectable(p) == Loadable(p) /\ disk[p].manifest # Malformed

ScanBlob(p) ==
    scan' = [scan EXCEPT !.todo = @ \ {p},
                         !.blobs = @ \cup {[path |-> p,
                             metadata |-> IF Inspectable(p) THEN disk[p] ELSE NoMetadata]}]

ScanDat(p) ==
    scan' = [scan EXCEPT !.todo = @ \ {p},
                         !.dats = @ \cup {[path |-> p, size |-> disk[p].size]}]

\* One turn of the loop over the files.  A file that has gone or whose name is
\* not strict leaves no record.
ScanFile ==
    /\ scan.pc = "running"
    /\ scan.todo # {}
    /\ LET p == NextFile
       IN  \/ /\ Present(p) /\ Name[p].strict /\ Name[p].kind = "blob"
              /\ ScanBlob(p)
           \/ /\ Present(p) /\ Name[p].strict /\ Name[p].kind = "dat"
              /\ ScanDat(p)
           \/ /\ ~(Present(p) /\ Name[p].strict)
              /\ scan' = [scan EXCEPT !.todo = @ \ {p}]
    /\ UNCHANGED disk

FinishScan ==
    /\ scan.pc = "running"
    /\ scan.todo = {}
    /\ scan' = [scan EXCEPT !.pc = "done"]
    /\ UNCHANGED disk

ScanNext == StartScan \/ ScanFile \/ FinishScan

-----------------------------------------------------------------------------
(***************************************************************************)
(* The classification.                                                     *)
(***************************************************************************)
BlobIdentity == {<<Name[p].depot, Name[p].version, Name[p].crc>> : p \in Path}

IdentityOf(p) == <<Name[p].depot, Name[p].version, Name[p].crc>>

\* blobGroups
Group(id) == {b \in scan.blobs : IdentityOf(b.path) = id}

\* The revisions that have a row in the window.
Listed == {IdentityOf(b.path) : b \in scan.blobs}

Result(readiness, chain) == [readiness |-> readiness, chain |-> chain]

\* Fault: of two files with the same identity the first is taken (ReadyExactly).
AncestryOfFirst(depot, top, crc) ==
    LET walk[v \in Version] == [c \in Crc |->
            LET group == Group(<<depot, v, c>>)
                blob == CHOOSE b \in group : TRUE
            IN  IF group = {} THEN Result("MissingParent", <<>>)
                ELSE IF blob.metadata = NoMetadata THEN Result("CorruptBlob", <<>>)
                ELSE IF blob.metadata.parent = 0 THEN Result("Ready", <<blob>>)
                ELSE IF v = 0 THEN Result("MissingParent", <<>>)
                ELSE LET above == walk[v - 1][blob.metadata.parent]
                     IN  Result(above.readiness, Append(above.chain, blob))]
    IN  walk[top][crc]

\* The chain from the revision down to a blob without parent, oldest first, or
\* why there is none.  The parent has the preceding version.
Ancestry(depot, top, crc) ==
    LET walk[v \in Version] == [c \in Crc |->
            LET group == Group(<<depot, v, c>>)
                blob == CHOOSE b \in group : TRUE
            IN  IF group = {} THEN Result("MissingParent", <<>>)
                ELSE IF Cardinality(group) # 1 THEN Result("DuplicateBlob", <<>>)
                ELSE IF blob.metadata = NoMetadata THEN Result("CorruptBlob", <<>>)
                ELSE IF blob.metadata.parent = 0 THEN Result("Ready", <<blob>>)
                ELSE IF v = 0 THEN Result("MissingParent", <<>>)
                ELSE LET above == walk[v - 1][blob.metadata.parent]
                     IN  Result(above.readiness, Append(above.chain, blob))]
    IN  walk[top][crc]

\* Fault: pairs by version alone (ReadyLoads).
DatsOfVersion(blob) ==
    {d \in scan.dats : /\ Name[d.path].depot = Name[blob.path].depot
                       /\ Name[d.path].version = Name[blob.path].version}

\* datGroups, at the version and embedded size of a blob.
DatsFor(blob) ==
    {d \in scan.dats : /\ Name[d.path].depot = Name[blob.path].depot
                       /\ Name[d.path].version = Name[blob.path].version
                       /\ d.size = blob.metadata.datSize}

\* Whether the sum of the sizes passes MaxBytes.
TotalOverflows(chain) ==
    LET sum[i \in 0 .. Len(chain)] ==
            IF i = 0 THEN 0 ELSE sum[i - 1] + chain[i].metadata.datSize
    IN  sum[Len(chain)] > MaxBytes

Readiness(id) ==
    LET result == Ancestry(id[1], id[2], id[3])
        chain == result.chain
        matches == {Cardinality(DatsFor(chain[i])) : i \in DOMAIN chain}
    IN  IF result.readiness # "Ready" THEN result.readiness
        ELSE IF TotalOverflows(chain) THEN "CorruptBlob"
        ELSE IF \E n \in matches : n > 1 THEN "AmbiguousDat"
        ELSE IF 0 \in matches THEN "MissingDat"
        ELSE IF id[1] \notin Keyed THEN "MissingKey"
        ELSE "Ready"

\* CatalogVersion::blobFiles and ::datFiles of a revision that is ready.
BlobFiles(id) ==
    LET chain == Ancestry(id[1], id[2], id[3]).chain
    IN  [i \in DOMAIN chain |-> chain[i].path]
DatFiles(id) ==
    LET chain == Ancestry(id[1], id[2], id[3]).chain
    IN  [i \in DOMAIN chain |-> (CHOOSE d \in DatsFor(chain[i]) : TRUE).path]

=============================================================================
