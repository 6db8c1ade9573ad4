---------------------------- MODULE LibraryMount ----------------------------
(***************************************************************************)
(* The catalog of the window and the loader of the worker over the same    *)
(* files.  The window offers the revisions that its scan found ready, puts *)
(* the files of the chosen one into the build definition, and the worker   *)
(* resolves the revision again by its own rules.  The worker can also be   *)
(* given directories, on the command line.  All the while files change.    *)
(*                                                                         *)
(* A build with several depots is several loads one after the other.  The  *)
(* composition outlives the scan it comes from; as the worker does not see *)
(* the scan, a later scan is to it like a change of files, and there is    *)
(* one scan here.                                                          *)
(*                                                                         *)
(* An operator whose comment begins with "Fault:" is no part of the model. *)
(***************************************************************************)
EXTENDS Catalog, Loader

CONSTANTS
    Disks,          \* the contents of the disk that the scan may start with
    Builds,         \* the specs of hand-written builds, without exact files
    Changing,       \* the disks whose files change after the start
    MaxChanges      \* bound on the changes of files

ASSUME DisksAssumption ==
    \A d \in Disks : d = [p \in Path |-> d[p]] /\ \A p \in Path : d[p] \in MayHold(p)
ASSUME BuildsAssumption ==
    \A spec \in Builds : spec \in SpecType /\ spec.blobFiles = {} /\ spec.datFiles = {}

VARIABLES
    touched,        \* history: the files changed since the scan looked at them
    changes,        \* history: how many files have changed, MaxChanges if none shall
    shown           \* the identity the window has put into the build, or NoShown

vars == <<disk, scan, load, touched, changes, shown>>

NoShown == <<>>

Init ==
    /\ disk \in Disks
    /\ ScanInit
    /\ LoadInit
    /\ touched = Path
    /\ changes = IF disk \in Changing THEN 0 ELSE MaxChanges
    /\ shown = NoShown

FilesChange ==
    /\ changes < MaxChanges
    /\ \E p \in Path : \E content \in Contents[p] :
          /\ Change(p, content)
          /\ touched' = touched \cup {p}
    /\ changes' = changes + 1
    /\ UNCHANGED <<scan, load, shown>>

\* After its listing a scan can miss only what appears later.
Scan ==
    /\ scan.pc # "done"
    /\ ScanNext
    /\ touched' = IF scan.pc = "idle" THEN touched \ {p \in Path : ~Present(p)}
                  ELSE IF scan.todo # {} THEN touched \ {NextFile}
                  ELSE touched
    /\ UNCHANGED <<load, changes, shown>>

\* mountComposition: the exact files of a revision that is ready.
WindowSpec(id) ==
    [id |-> id[1], version |-> id[2], crc |-> id[3],
     blobFiles |-> {BlobFiles(id)[i] : i \in DOMAIN BlobFiles(id)},
     datFiles |-> {DatFiles(id)[i] : i \in DOMAIN DatFiles(id)},
     blobFolder |-> NoPath, datFolder |-> NoPath]

MountRevision(id) ==
    /\ scan.pc = "done"
    /\ id \in Listed
    /\ Readiness(id) = "Ready"
    /\ BeginLoad(WindowSpec(id))
    /\ shown' = id
    /\ UNCHANGED <<scan, touched, changes>>

\* load_build with directories.
RunWorker(spec) ==
    /\ scan.pc = "done"
    /\ BeginLoad(spec)
    /\ shown' = NoShown
    /\ UNCHANGED <<scan, touched, changes>>

Load == LoadNext /\ UNCHANGED <<scan, touched, changes, shown>>

Next ==
    \/ FilesChange
    \/ Scan
    \/ \E id \in BlobIdentity : MountRevision(id)
    \/ \E spec \in Builds : RunWorker(spec)
    \/ Load

Spec == Init /\ [][Next]_vars

-----------------------------------------------------------------------------
(***************************************************************************)
(* Properties.                                                             *)
(***************************************************************************)

\* The identities that a revision needs: itself, its parent, and so on.
ParentIdentity(id) ==
    {<<id[1], id[2] - 1, b.metadata.parent>> :
        b \in {b \in Group(id) : b.metadata # NoMetadata /\ b.metadata.parent # 0}}
Needed(id) ==
    LET after[n \in 0 .. MaxVersion + 1] ==
            IF n = 0 THEN {id}
            ELSE after[n - 1] \cup UNION {ParentIdentity(i) : i \in after[n - 1]}
    IN  after[MaxVersion + 1]

\* The list of conditions in the README: every blob that the revision needs is
\* there once, can be inspected and has exactly one DAT of the embedded size;
\* the root has no parent; the depot has a key.
MeetsReadme(id) ==
    /\ \A i \in Needed(id) :
          /\ Cardinality(Group(i)) = 1
          /\ \A b \in Group(i) : /\ b.metadata # NoMetadata
                                 /\ Cardinality(DatsFor(b)) = 1
    /\ id[1] \in Keyed

\* A revision is ready if and only if it meets the conditions in the README,
\* short of an overflow of the sizes: in whatever order the classification
\* tests them, with copies of files, reset roots and other depots about.  The
\* records do not change once the scan is done, so this is before the first load.
ReadyExactly ==
    (scan.pc = "done" /\ load.pc = "idle") =>
        \A id \in Listed :
            (Readiness(id) = "Ready") <=>
                (MeetsReadme(id) /\ ~TotalOverflows(Ancestry(id[1], id[2], id[3]).chain))

\* The files the window asks for, and whether they are as the scan saw them.
Settled(files) == files \cap touched = {}

\* If the files of a revision that was shown as ready are still as the scan saw
\* them, the worker loads it, from the blobs and with the DATs that the window
\* shows.  It can fail only over what the scan does not look into: a DAT that is
\* of the right size and does not open, checksum tables, file ids that no table
\* maps, and files of the manifest that get the same path.
ReadyLoads ==
    (shown # NoShown /\ Settled(load.spec.blobFiles \cup load.spec.datFiles)) =>
        /\ load.pc = "failed" => load.error \in {"open", "tables", "paths"}
        /\ load.pc = "loaded" =>
              LET n == Len(load.chain)
              IN  /\ n = Len(BlobFiles(shown))
                  /\ \A i \in 1 .. n : /\ load.chain[n + 1 - i].path = BlobFiles(shown)[i]
                                       /\ load.sources[i] = DatFiles(shown)[i]

\* A copy of a file in another folder, which the scan enters and a worker that
\* is given the folder of the first does not.
BlobCopied(p) ==
    \E q \in Path : /\ Folder[q] # Folder[p]
                    /\ Present(q) /\ Name[q].strict /\ Name[q].kind = "blob"
                    /\ IdentityOf(q) = IdentityOf(p)
DatCopied(d) ==
    \E e \in Path : /\ Folder[e] # Folder[d]
                    /\ Present(e) /\ Name[e].strict /\ Name[e].kind = "dat"
                    /\ Name[e].depot = Name[d].depot /\ Name[e].version = Name[d].version
                    /\ disk[e].size = disk[d].size

\* Conversely, what the worker loads from properly named files in directories,
\* while all files are as the scan saw them, the window offers too, save for what
\* the worker does not look at: the sum of the sizes, the manifests of ancestors,
\* and copies in other folders.
LoadableIsReady ==
    LET id == IdentityOf(Head(load.chain).path)
        used == {load.chain[i].path : i \in DOMAIN load.chain}
                    \cup {load.sources[i] : i \in DOMAIN load.sources}
    IN  (/\ shown = NoShown
         /\ load.pc = "loaded"
         /\ Settled(Path)
         /\ \A p \in used : Name[p].strict) =>
            \/ Readiness(id) = "Ready"
            \/ /\ Readiness(id) = "CorruptBlob"
               /\ \/ TotalOverflows(Ancestry(id[1], id[2], id[3]).chain)
                  \/ \E i \in DOMAIN load.chain : load.chain[i].blob.manifest = Malformed
            \/ /\ Readiness(id) = "DuplicateBlob"
               /\ \E i \in DOMAIN load.chain : BlobCopied(load.chain[i].path)
            \/ /\ Readiness(id) = "AmbiguousDat"
               /\ \E i \in DOMAIN load.sources : DatCopied(load.sources[i])

=============================================================================
