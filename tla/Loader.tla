------------------------------- MODULE Loader -------------------------------
(***************************************************************************)
(* Steam2Depot::load (steam2_archive.cpp): the worker resolves a revision  *)
(* from files on disk, either the exact files that the window has put into *)
(* the build definition or those of a directory, whose subdirectories it   *)
(* does not enter.                                                         *)
(*                                                                         *)
(* Each step is a moment at which the disk is looked at: the discovery of  *)
(* blobs, the reading of each blob of the chain, the discovery of DATs and *)
(* the pairing of each blob with its DAT.  The files may change between.   *)
(*                                                                         *)
(* A list of exact paths is a set here: no file is named twice.            *)
(* An operator whose comment begins with "Fault:" is no part of the model. *)
(***************************************************************************)
EXTENDS Library

VARIABLE load   \* the call in progress, or the last one

\* DepotSpec.  Without files the directories are searched.
SpecType == [id : Nat, version : Version, crc : Crc \cup {NoCrc},
             blobFiles : SUBSET Path, datFiles : SUBSET Path,
             blobFolder : Directory \cup {NoPath}, datFolder : Directory \cup {NoPath}]

NoSpec == [id |-> 0, version |-> 0, crc |-> NoCrc, blobFiles |-> {}, datFiles |-> {},
           blobFolder |-> NoPath, datFolder |-> NoPath]

NoMappings == [f \in FileId |-> NoPath]

LoadInit ==
    load = [pc |-> "idle", spec |-> NoSpec, candidates |-> {}, next |-> NoPath,
            chain |-> <<>>, dats |-> {}, sources |-> <<>>, mappings |-> NoMappings,
            error |-> "none"]

Running == load.pc \notin {"idle", "loaded", "failed"}

BeginLoad(spec) ==
    /\ ~Running
    /\ load' = [pc |-> "blobs", spec |-> spec, candidates |-> {}, next |-> NoPath,
                chain |-> <<>>, dats |-> {}, sources |-> <<>>, mappings |-> NoMappings,
                error |-> "none"]
    /\ UNCHANGED disk

\* An exception leaves load().
Fail(error) ==
    /\ load' = [load EXCEPT !.pc = "failed", !.error = error]
    /\ UNCHANGED disk

Continue(next) == load' = next /\ UNCHANGED disk

-----------------------------------------------------------------------------
(***************************************************************************)
(* Ancestry.                                                               *)
(***************************************************************************)
\* parse_candidate_name
Names(p, kind) == Name[p].kind = kind /\ Name[p].depot = load.spec.id

\* What both discoveries do: an exact file must be there and be named for the
\* depot; of the files in a directory, which may not be listable, those that are
\* not are passed over.
ExactFilesUsable(files, kind) == \A p \in files : Present(p) /\ Names(p, kind)
MayFail(files, kind) == files = {} \/ ~ExactFilesUsable(files, kind)

Found(files, kind, folder) ==
    IF files # {} THEN files
    ELSE {p \in Path : Folder[p] = folder /\ Present(p) /\ Names(p, kind)}

DiscoverBlobs ==
    /\ load.pc = "blobs"
    /\ \/ /\ ExactFilesUsable(load.spec.blobFiles, "blob")
          /\ Continue([load EXCEPT !.pc = "top",
                 !.candidates = {p \in Found(load.spec.blobFiles, "blob", load.spec.blobFolder) :
                                     Name[p].version <= load.spec.version}])
       \/ /\ MayFail(load.spec.blobFiles, "blob")
          /\ Fail("discovery")

\* Fault: the CRC the window asks for is not compared (RevisionIsTheOneAskedFor).
TopByVersion ==
    {p \in load.candidates : Name[p].version = load.spec.version}

TopMatches ==
    {p \in load.candidates : /\ Name[p].version = load.spec.version
                             /\ load.spec.crc \in {NoCrc, Name[p].crc}}

ChooseTop ==
    /\ load.pc = "top"
    /\ \/ /\ Cardinality(TopMatches) = 1
          /\ \E p \in TopMatches :
                Continue([load EXCEPT !.pc = "ancestry", !.next = p])
       \/ /\ Cardinality(TopMatches) # 1
          /\ Fail("top")

\* Fault: any version will do for a parent (AncestryComplete).
ParentsByCrc(p, crc) == {q \in load.candidates : Name[q].crc = crc}

ParentsOf(p, crc) ==
    {q \in load.candidates : Name[q].version = Name[p].version - 1 /\ Name[q].crc = crc}

\* One turn of the loop of resolve_ancestry.  The blobs are read here, and what
\* their names say of them is from the discovery.
ReadBlob ==
    /\ load.pc = "ancestry"
    /\ LET p == load.next
           parents == ParentsOf(p, disk[p].parent)
           read == [load EXCEPT !.chain = Append(@, [path |-> p, blob |-> disk[p]])]
       IN  \/ /\ ~Loadable(p)
              /\ Fail("blob")
           \/ /\ Loadable(p)
              /\ disk[p].parent = 0
              /\ Continue([read EXCEPT !.pc = "dats"])
           \/ /\ Loadable(p)
              /\ disk[p].parent # 0
              /\ Name[p].version # 0
              /\ Cardinality(parents) = 1
              /\ \E q \in parents : Continue([read EXCEPT !.next = q])
           \/ /\ Loadable(p)
              /\ disk[p].parent # 0
              /\ Name[p].version = 0 \/ Cardinality(parents) # 1
              /\ Fail("ancestry")

-----------------------------------------------------------------------------
(***************************************************************************)
(* DAT files, tables and the manifest.  load.chain is newest first, and    *)
(* load.sources, the DATs of the oldest blobs so far, is oldest first.     *)
(***************************************************************************)
DiscoverDats ==
    /\ load.pc = "dats"
    /\ \/ /\ ExactFilesUsable(load.spec.datFiles, "dat")
          /\ Continue([load EXCEPT !.pc = "pair",
                 !.dats = Found(load.spec.datFiles, "dat", load.spec.datFolder)])
       \/ /\ MayFail(load.spec.datFiles, "dat")
          /\ Fail("discovery")

\* The blob that gets its DAT next.
Unpaired == load.chain[Len(load.chain) - Len(load.sources)]

Sized(p) == {d \in load.dats : Name[d].version = Name[p].version}

\* Fault: pairs by version alone (LoadableIsReady).
DatsByVersion(entry) == Sized(entry.path)

DatMatches(entry) ==
    {d \in Sized(entry.path) : disk[d].size = entry.blob.datSize}

\* Fault: what an older blob has mapped is kept (RevisionIsTheOneAskedFor).
KeepOldest(mappings, table, dat) ==
    [f \in FileId |-> IF f \in table /\ mappings[f] = NoPath THEN dat ELSE mappings[f]]

\* insert_or_assign
Overlay(mappings, table, dat) == [f \in FileId |-> IF f \in table THEN dat ELSE mappings[f]]

\* pair_dat and parse_checksum_table for one blob.  A file that was found but
\* cannot be sized any more is an error even if another one fits.  The one that
\* fits is opened here for the first time, and that may fail.
Pair ==
    /\ load.pc = "pair"
    /\ Len(load.sources) < Len(load.chain)
    /\ LET entry == Unpaired
       IN  \/ /\ \E d \in Sized(entry.path) : ~Present(d)
              /\ Fail("dat")
           \/ /\ \A d \in Sized(entry.path) : Present(d)
              /\ Cardinality(DatMatches(entry)) # 1
              /\ Fail("dat")
           \/ /\ \A d \in Sized(entry.path) : Present(d)
              /\ Cardinality(DatMatches(entry)) = 1
              /\ Fail("open")
           \/ /\ \A d \in Sized(entry.path) : Present(d)
              /\ Cardinality(DatMatches(entry)) = 1
              /\ entry.blob.table = Malformed
              /\ Fail("tables")
           \/ /\ \A d \in Sized(entry.path) : Present(d)
              /\ entry.blob.table # Malformed
              /\ Cardinality(DatMatches(entry)) = 1
              /\ \E d \in DatMatches(entry) :
                    Continue([load EXCEPT
                        !.sources = Append(@, d),
                        !.mappings = Overlay(@, entry.blob.table, d)])

\* The manifest of the top blob, the depot's key, and for each file of the
\* manifest a DAT and a path of its own.  Of the two, what the first entry at
\* fault lacks is the error.
Finish ==
    /\ load.pc = "pair"
    /\ Len(load.sources) = Len(load.chain)
    /\ LET manifest == Head(load.chain).blob.manifest
           clash == Head(load.chain).blob.clash
       IN  \/ /\ manifest = Malformed
              /\ Fail("manifest")
           \/ /\ manifest # Malformed
              /\ load.spec.id \notin Keyed
              /\ Fail("key")
           \/ /\ manifest # Malformed
              /\ load.spec.id \in Keyed
              /\ \E f \in manifest : load.mappings[f] = NoPath
              /\ Fail("tables")
           \/ /\ manifest # Malformed
              /\ load.spec.id \in Keyed
              /\ clash
              /\ Fail("paths")
           \/ /\ manifest # Malformed
              /\ load.spec.id \in Keyed
              /\ ~clash
              /\ \A f \in manifest : load.mappings[f] # NoPath
              /\ Continue([load EXCEPT !.pc = "loaded"])

LoadNext == DiscoverBlobs \/ ChooseTop \/ ReadBlob \/ DiscoverDats \/ Pair \/ Finish

-----------------------------------------------------------------------------
(***************************************************************************)
(* Properties.                                                             *)
(***************************************************************************)
\* The chain read so far starts at the version asked for, and each further blob
\* is of the preceding version and has the CRC that the one before names as its
\* parent's; each is the only candidate that would do.  When the chain has been
\* read it ends at a blob without a parent.  So no chain is longer than its top
\* version, none has a gap, and none is completed by guessing, whatever happens
\* to the files in the meantime.
AncestryComplete ==
    /\ \A i \in DOMAIN load.chain : i > 1 =>
          LET p == load.chain[i].path
              crc == load.chain[i - 1].blob.parent
          IN  /\ Name[p].version = load.spec.version - (i - 1)
              /\ crc # 0
              /\ {q \in load.candidates :
                      /\ Name[q].version = Name[p].version
                      /\ Name[q].crc = crc} = {p}
    /\ load.pc \in {"dats", "pair", "loaded"} =>
          load.chain # <<>> /\ load.chain[Len(load.chain)].blob.parent = 0

\* What is loaded is the revision that was asked for, by its depot, its version
\* and, if the build gives it, the CRC; of exact files no other is used; and every
\* file of the revision is served from the newest archive of the chain that has it.
RevisionIsTheOneAskedFor ==
    load.pc = "loaded" =>
        LET top == Name[Head(load.chain).path]
            used == {load.chain[i].path : i \in DOMAIN load.chain}
            dats == {load.sources[i] : i \in DOMAIN load.sources}
        IN  /\ top.depot = load.spec.id
            /\ top.version = load.spec.version
            /\ load.spec.crc \in {NoCrc, top.crc}
            /\ load.spec.blobFiles # {} => used \subseteq load.spec.blobFiles
            /\ load.spec.datFiles # {} => dats \subseteq load.spec.datFiles
            /\ \A f \in Head(load.chain).blob.manifest : \E i \in DOMAIN load.chain :
                  /\ f \in load.chain[i].blob.table
                  /\ \A j \in 1 .. i - 1 : f \notin load.chain[j].blob.table
                  /\ load.mappings[f] = load.sources[Len(load.chain) + 1 - i]

=============================================================================
