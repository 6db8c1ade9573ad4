------------------------ MODULE LibraryMount_proofs -------------------------
(***************************************************************************)
(* Proofs about the window's catalog and the worker's loader over the same *)
(* files, for every library, any names and contents of files, any changes  *)
(* of them, and chains of any length.                                      *)
(***************************************************************************)
EXTENDS LibraryMount, Induction, FiniteSetTheorems, SequenceTheorems, TLAPS

-----------------------------------------------------------------------------
(***************************************************************************)
(* The disk.                                                               *)
(***************************************************************************)
DiskOK == disk = [p \in Path |-> disk[p]] /\ \A p \in Path : disk[p] \in MayHold(p)

\* There are finitely many files.
LEMMA PathFinite == IsFiniteSet(Path)
<1> DEFINE n == Len(Sorted)
           f == [i \in 1 .. n |-> Sorted[i]]
<1>1. n \in Nat /\ DOMAIN Sorted = 1 .. n /\ \A i \in 1 .. n : Sorted[i] \in Path
  BY SortedAssumption
<1>2. f \in Surjection(1 .. n, Path)
  <2>1. f \in [1 .. n -> Path]
    BY <1>1
  <2>2. \A p \in Path : \E i \in 1 .. n : f[i] = p
    BY <1>1, SortedAssumption
  <2> HIDE DEF f, n
  <2> QED
    BY <2>1, <2>2 DEF Surjection
<1>3. IsFiniteSet(1 .. n)
  BY <1>1, FS_Interval
<1> HIDE DEF f, n
<1> QED
  BY <1>2, <1>3, FS_Surjection DEF ExistsSurjection

\* A set of files with one member is that of its member.
LEMMA OneFile ==
  ASSUME NEW S \in SUBSET Path, Cardinality(S) = 1, NEW p \in S
  PROVE  S = {p}
<1>1. IsFiniteSet(S)
  BY PathFinite, FS_Subset
<1>2. \E x : S = {x}
  BY <1>1, FS_Singleton
<1> QED
  BY <1>2

\* A file that can be loaded is a blob with all of its fields, and one that is
\* no blob has a size.
LEMMA DiskFacts ==
  ASSUME DiskOK, NEW p \in Path
  PROVE  /\ Name[p] \in NameType
         /\ Loadable(p) /\ Name[p].kind = "blob" => disk[p] \in BlobType
         /\ Present(p) /\ Name[p].kind = "dat" => disk[p] \in DatType
BY NameTypeAssumption DEF DiskOK, MayHold, Loadable, Present, NameType

\* A change of one file leaves the others and the types as they are.
LEMMA ChangeStep ==
  ASSUME DiskOK, NEW p \in Path, NEW content \in Contents[p], Change(p, content)
  PROVE  DiskOK' /\ \A q \in Path \ {p} : disk'[q] = disk[q]
<1>1. content \in MayHold(p)
  BY ContentsAssumption
<1>2. disk' = [disk EXCEPT ![p] = content]
  BY DEF Change
<1>3. \A q \in Path : disk'[q] = IF q = p THEN content ELSE disk[q]
  BY <1>2 DEF DiskOK
<1>4. disk' = [q \in Path |-> disk'[q]]
  BY <1>2 DEF DiskOK
<1> QED
  BY <1>1, <1>3, <1>4 DEF DiskOK, MayHold

-----------------------------------------------------------------------------
(***************************************************************************)
(* The loader.                                                             *)
(***************************************************************************)
Entry == [path : Path, blob : BlobType]

\* Why a load may have failed.
Error == {"none", "discovery", "top", "blob", "ancestry", "dat", "open", "tables", "manifest",
          "key", "paths"}

LoadType ==
    [pc : {"idle", "blobs", "top", "ancestry", "dats", "pair", "loaded", "failed"},
     spec : SpecType, candidates : SUBSET Path, next : Path \cup {NoPath},
     chain : Seq(Entry), dats : SUBSET Path, sources : Seq(Path),
     mappings : [FileId -> Path \cup {NoPath}],
     error : Error]

\* The only candidate that a blob's predecessor p and its parent's CRC allow.
OnlyParent(l, q, p, crc) ==
    {c \in l.candidates : Name[c].version = Name[p].version - 1 /\ Name[c].crc = crc} = {q}

OnlyTop(l, q) ==
    {c \in l.candidates : Name[c].version = l.spec.version /\ l.spec.crc \in {NoCrc, Name[c].crc}}
        = {q}

CandidatesOK(l) ==
    \A q \in l.candidates : /\ Name[q].kind = "blob" /\ Name[q].depot = l.spec.id
                            /\ Name[q].version <= l.spec.version
                            /\ l.spec.blobFiles # {} => q \in l.spec.blobFiles

\* The chain read so far, newest first.
ChainOK(l) ==
    /\ \A i \in 1 .. Len(l.chain) :
          /\ l.chain[i].path \in l.candidates
          /\ Name[l.chain[i].path].version = l.spec.version - (i - 1)
          /\ i = 1 => OnlyTop(l, l.chain[i].path)
          /\ i # 1 => /\ l.chain[i - 1].blob.parent # 0
                      /\ OnlyParent(l, l.chain[i].path, l.chain[i - 1].path,
                                    l.chain[i - 1].blob.parent)
    /\ l.pc \in {"idle", "blobs", "top"} => l.chain = <<>>
    /\ l.pc \in {"dats", "pair", "loaded"} =>
          Len(l.chain) # 0 /\ l.chain[Len(l.chain)].blob.parent = 0

\* The blob that is read next continues the chain.
NextOK(l) ==
    l.pc = "ancestry" =>
        /\ l.next \in l.candidates
        /\ Name[l.next].version = l.spec.version - Len(l.chain)
        /\ Len(l.chain) = 0 => OnlyTop(l, l.next)
        /\ Len(l.chain) # 0 =>
              /\ l.chain[Len(l.chain)].blob.parent # 0
              /\ OnlyParent(l, l.next, l.chain[Len(l.chain)].path, l.chain[Len(l.chain)].blob.parent)

\* The blob that source i is paired with.
Paired(l, i) == l.chain[Len(l.chain) + 1 - i]

SourcesOK(l) ==
    /\ l.pc \in {"idle", "blobs", "top", "ancestry", "dats"} => l.sources = <<>>
    /\ Len(l.sources) <= Len(l.chain)
    /\ l.pc = "loaded" => Len(l.sources) = Len(l.chain)
    /\ l.pc \in {"pair", "loaded"} =>
          \A d \in l.dats : /\ Name[d].kind = "dat" /\ Name[d].depot = l.spec.id
                            /\ l.spec.datFiles # {} => d \in l.spec.datFiles
    /\ \A i \in 1 .. Len(l.sources) :
          /\ l.sources[i] \in l.dats
          /\ Name[l.sources[i]].version = Name[Paired(l, i).path].version
          /\ Paired(l, i).blob.table # Malformed

\* A file id is served from the last source that maps it.
MappingsOK(l) ==
    /\ \A f \in FileId, i \in 1 .. Len(l.sources) :
          (/\ f \in Paired(l, i).blob.table
           /\ \A j \in 1 .. Len(l.sources) : j > i => f \notin Paired(l, j).blob.table)
              => l.mappings[f] = l.sources[i]
    /\ \A f \in FileId :
          (\A i \in 1 .. Len(l.sources) : f \notin Paired(l, i).blob.table)
              => l.mappings[f] = NoPath
    /\ l.pc = "loaded" =>
          /\ l.chain[1].blob.manifest # Malformed /\ l.spec.id \in Keyed
          /\ \A f \in l.chain[1].blob.manifest : l.mappings[f] # NoPath

LoadOK(l) ==
    /\ l \in LoadType
    /\ CandidatesOK(l)
    /\ ChainOK(l)
    /\ NextOK(l)
    /\ SourcesOK(l)
    /\ MappingsOK(l)

LoadInv == LoadOK(load)

\* A load that begins has found nothing.
LEMMA EmptyLoad ==
  ASSUME NEW spec \in SpecType, NEW pc \in {"idle", "blobs"},
         NEW l, l = [pc |-> pc, spec |-> spec, candidates |-> {}, next |-> NoPath,
                     chain |-> <<>>, dats |-> {}, sources |-> <<>>, mappings |-> NoMappings,
                     error |-> "none"]
  PROVE  LoadOK(l)
<1>1. l \in LoadType
  BY DEF LoadType, NoMappings, Error
<1>2. Len(l.chain) = 0 /\ Len(l.sources) = 0
  OBVIOUS
<1>3. CandidatesOK(l) /\ ChainOK(l) /\ NextOK(l) /\ SourcesOK(l)
  BY <1>2 DEF CandidatesOK, ChainOK, NextOK, SourcesOK
<1>4. MappingsOK(l)
  BY <1>2 DEF MappingsOK, NoMappings
<1> QED
  BY <1>1, <1>3, <1>4 DEF LoadOK

\* Before the first load nothing has been found.
LEMMA LoadInitOK == LoadInit => LoadInv
<1> SUFFICES ASSUME LoadInit PROVE LoadInv
  OBVIOUS
<1>1. NoSpec \in SpecType
  BY BoundAssumption DEF NoSpec, SpecType, Version
<1>2. PICK l : l = load
  OBVIOUS
<1>3. LoadOK(l)
  BY <1>1, <1>2, EmptyLoad DEF LoadInit
<1> QED
  BY <1>2, <1>3 DEF LoadInv

\* A call of load() begins afresh.
LEMMA BeginLoadStep ==
  ASSUME NEW spec \in SpecType, BeginLoad(spec)
  PROVE  LoadInv'
<1>1. PICK l : l = load'
  OBVIOUS
<1>2. LoadOK(l)
  BY <1>1, EmptyLoad DEF BeginLoad
<1> QED
  BY <1>1, <1>2 DEF LoadInv

\* What has been read before an error stays as it is.
LEMMA FailStep ==
  ASSUME LoadInv, NEW e \in Error, Fail(e)
  PROVE  LoadInv'
<1>1. PICK l : l = load'
  OBVIOUS
<1>2. l = [load EXCEPT !.pc = "failed", !.error = e] /\ load \in LoadType
  BY <1>1 DEF Fail, LoadInv, LoadOK
<1>3. /\ l \in LoadType /\ l.pc = "failed" /\ l.spec = load.spec
      /\ l.candidates = load.candidates
      /\ l.chain = load.chain /\ l.dats = load.dats /\ l.sources = load.sources
      /\ l.mappings = load.mappings
  BY <1>2 DEF LoadType
<1>4. \A i : Paired(l, i) = Paired(load, i)
  BY <1>3 DEF Paired
<1>5. CandidatesOK(l) /\ NextOK(l)
  BY <1>3 DEF LoadInv, LoadOK, CandidatesOK, NextOK
<1>6. ChainOK(l)
  BY <1>3 DEF LoadInv, LoadOK, ChainOK, OnlyTop, OnlyParent
<1>7. SourcesOK(l)
  BY <1>3, <1>4 DEF LoadInv, LoadOK, SourcesOK
<1>8. MappingsOK(l)
  BY <1>3, <1>4 DEF LoadInv, LoadOK, MappingsOK
<1> QED
  BY <1>1, <1>3, <1>5, <1>6, <1>7, <1>8 DEF LoadInv, LoadOK

\* Discovery yields blobs of the depot up to the version asked for, of the
\* exact files if there are any.
LEMMA DiscoverBlobsStep ==
  ASSUME DiskOK, LoadInv, DiscoverBlobs
  PROVE  LoadInv'
<1> DEFINE usable == ExactFilesUsable(load.spec.blobFiles, "blob")
           found == {p \in Found(load.spec.blobFiles, "blob", load.spec.blobFolder) :
                        Name[p].version <= load.spec.version}
<1>1. load \in LoadType /\ load.pc = "blobs"
  BY DEF LoadInv, LoadOK, DiscoverBlobs
<1>2. CASE Fail("discovery")
  BY <1>2, FailStep DEF Error
<1>3. CASE usable /\ Continue([load EXCEPT !.pc = "top", !.candidates = found])
  <2>1. PICK l : l = load'
    OBVIOUS
  <2>2. l = [load EXCEPT !.pc = "top", !.candidates = found]
    BY <1>3, <2>1 DEF Continue
  <2>3. load.spec.blobFiles \subseteq Path
    BY <1>1 DEF LoadType, SpecType
  <2>4. \A p \in found : /\ p \in Path /\ Name[p].kind = "blob" /\ Name[p].depot = load.spec.id
                         /\ Name[p].version <= load.spec.version
                         /\ load.spec.blobFiles # {} => p \in load.spec.blobFiles
    BY <1>3, <2>3 DEF ExactFilesUsable, Found, Names
  <2>5. found \in SUBSET Path
    BY <2>4
  <2> HIDE DEF found
  <2>6. /\ l \in LoadType /\ l.pc = "top" /\ l.spec = load.spec /\ l.candidates = found
        /\ l.chain = <<>> /\ l.sources = <<>> /\ l.mappings = load.mappings
    BY <1>1, <2>2, <2>5 DEF LoadType, LoadInv, LoadOK, ChainOK, SourcesOK
  <2>7. CandidatesOK(l) /\ NextOK(l)
    BY <2>4, <2>6 DEF CandidatesOK, NextOK
  <2>8. ChainOK(l) /\ SourcesOK(l)
    BY <2>6 DEF ChainOK, SourcesOK
  <2>9. \A f \in FileId : load.mappings[f] = NoPath
    BY <1>1 DEF LoadInv, LoadOK, MappingsOK, SourcesOK
  <2>10. MappingsOK(l)
    BY <2>6, <2>9 DEF MappingsOK
  <2> QED
    BY <2>1, <2>6, <2>7, <2>8, <2>10 DEF LoadInv, LoadOK
<1> QED
  BY <1>2, <1>3 DEF DiscoverBlobs

\* The top of the chain is the only candidate that the spec allows.
LEMMA ChooseTopStep ==
  ASSUME LoadInv, ChooseTop
  PROVE  LoadInv'
<1>1. load \in LoadType /\ load.pc = "top"
  BY DEF LoadInv, LoadOK, ChooseTop
<1>2. CASE Fail("top")
  BY <1>2, FailStep DEF Error
<1>3. CASE Cardinality(TopMatches) = 1
  <2>1. PICK p \in TopMatches : load' = [load EXCEPT !.pc = "ancestry", !.next = p]
    BY <1>3 DEF ChooseTop, Continue
  <2>2. /\ TopMatches = {p} /\ p \in load.candidates /\ p \in Path
       /\ Name[p].version = load.spec.version
    <3>1. p \in load.candidates /\ Name[p].version = load.spec.version
      BY <2>1 DEF TopMatches
    <3>2. TopMatches \in SUBSET Path /\ p \in Path
      BY <1>1, <3>1 DEF TopMatches, LoadType
    <3> HIDE DEF TopMatches
    <3>3. TopMatches = {p}
      BY <1>3, <2>1, <3>2, OneFile
    <3> QED
      BY <3>1, <3>2, <3>3
  <2>3. PICK l : l = load'
    OBVIOUS
  <2>4. /\ l \in LoadType /\ l.pc = "ancestry" /\ l.spec = load.spec
        /\ l.candidates = load.candidates /\ l.next = p
        /\ l.chain = <<>> /\ l.sources = <<>> /\ l.mappings = load.mappings
    BY <1>1, <2>1, <2>2, <2>3 DEF LoadType, LoadInv, LoadOK, ChainOK, SourcesOK
  <2>5. OnlyTop(l, p)
    BY <2>2, <2>4 DEF OnlyTop, TopMatches
  <2>6. load.spec.version \in Nat
    BY <1>1, BoundAssumption DEF LoadType, SpecType, Version
  <2>7. Len(l.chain) = 0
    BY <2>4
  <2>8. CandidatesOK(l) /\ NextOK(l)
    BY <2>2, <2>4, <2>5, <2>6, <2>7 DEF CandidatesOK, NextOK, LoadInv, LoadOK
  <2>9. ChainOK(l) /\ SourcesOK(l)
    BY <2>4 DEF ChainOK, SourcesOK
  <2>10. \A f \in FileId : load.mappings[f] = NoPath
    BY <1>1 DEF LoadInv, LoadOK, MappingsOK, SourcesOK
  <2>11. MappingsOK(l)
    BY <2>4, <2>10 DEF MappingsOK
  <2> QED
    BY <2>3, <2>4, <2>8, <2>9, <2>11 DEF LoadInv, LoadOK
<1> QED
  BY <1>2, <1>3 DEF ChooseTop

\* What a sequence is after an element is appended.
LEMMA Appended ==
  ASSUME NEW S, NEW s \in Seq(S), NEW x \in S, NEW t, t = Append(s, x)
  PROVE  /\ t \in Seq(S) /\ Len(s) \in Nat /\ Len(t) = Len(s) + 1
         /\ \A i \in 1 .. Len(s) : t[i] = s[i]
         /\ t[Len(s) + 1] = x
OBVIOUS

\* A blob read continues the chain, and the loop goes on to its parent or ends.
LEMMA ChainGrows ==
  ASSUME DiskOK, LoadInv, load.pc = "ancestry", Loadable(load.next),
         NEW l, NEW pc \in {"ancestry", "dats"}, NEW n \in Path,
         l = [load EXCEPT !.pc = pc, !.next = n,
                          !.chain = Append(load.chain, [path |-> load.next, blob |-> disk[load.next]])],
         pc = "dats" => disk[load.next].parent = 0,
         pc = "ancestry" =>
            /\ disk[load.next].parent # 0
            /\ n \in load.candidates /\ Name[n].version = Name[load.next].version - 1
            /\ OnlyParent(load, n, load.next, disk[load.next].parent)
  PROVE  LoadOK(l)
<1> DEFINE e == [path |-> load.next, blob |-> disk[load.next]]
           k == Len(load.chain)
<1>1. /\ load \in LoadType /\ load.next \in load.candidates /\ load.next \in Path
      /\ Name[load.next].kind = "blob"
  BY DEF LoadInv, LoadOK, NextOK, CandidatesOK, LoadType
<1>2. e \in Entry /\ disk[load.next] \in BlobType
  BY <1>1, DiskFacts DEF Entry
<1>3. load.chain \in Seq(Entry) /\ load.spec.version \in Nat
  BY <1>1, BoundAssumption DEF LoadType, SpecType, Version
<1>4. PICK t : t = Append(load.chain, e)
  OBVIOUS
<1>5. /\ t \in Seq(Entry) /\ k \in Nat /\ Len(t) = k + 1
      /\ \A i \in 1 .. k : t[i] = load.chain[i]
      /\ t[k + 1] = e
  BY <1>2, <1>3, <1>4, Appended
<1>6. /\ l \in LoadType /\ l.pc = pc /\ l.spec = load.spec /\ l.next = n
      /\ l.candidates = load.candidates /\ l.chain = t /\ l.sources = load.sources
      /\ l.mappings = load.mappings
  BY <1>1, <1>4, <1>5 DEF LoadType
<1>7. e.path = load.next /\ e.blob = disk[load.next]
  OBVIOUS
<1> HIDE DEF e, k
<1>8. load.sources = <<>>
  BY DEF LoadInv, LoadOK, SourcesOK
<1>9. CandidatesOK(l)
  BY <1>6 DEF LoadInv, LoadOK, CandidatesOK
<1>10. /\ Name[load.next].version = load.spec.version - k
       /\ k = 0 => OnlyTop(load, load.next)
       /\ k # 0 => /\ load.chain[k].blob.parent # 0
                   /\ OnlyParent(load, load.next, load.chain[k].path, load.chain[k].blob.parent)
  BY DEF LoadInv, LoadOK, NextOK, k
<1>11. \A q, p, c : /\ OnlyTop(l, q) <=> OnlyTop(load, q)
                    /\ OnlyParent(l, q, p, c) <=> OnlyParent(load, q, p, c)
  BY <1>6 DEF OnlyTop, OnlyParent
<1>12. ChainOK(load)
  BY DEF LoadInv, LoadOK
<1>13. ASSUME NEW i \in 1 .. k + 1
       PROVE  /\ t[i].path \in load.candidates
              /\ Name[t[i].path].version = load.spec.version - (i - 1)
              /\ i = 1 => OnlyTop(load, t[i].path)
              /\ i # 1 => /\ t[i - 1].blob.parent # 0
                          /\ OnlyParent(load, t[i].path, t[i - 1].path, t[i - 1].blob.parent)
  <2>1. CASE i = k + 1
    <3>1. i # 1 => k # 0 /\ i - 1 = k /\ t[k] = load.chain[k]
      BY <1>5, <2>1
    <3>2. i = 1 => k = 0
      BY <1>5, <2>1
    <3>3. i - 1 = k
      BY <1>5, <2>1
    <3> QED
      BY <1>1, <1>5, <1>7, <1>10, <2>1, <3>1, <3>2, <3>3
  <2>2. CASE i # k + 1
    <3>1. i \in 1 .. k /\ t[i] = load.chain[i]
      BY <1>5, <2>2
    <3>2. i # 1 => i - 1 \in 1 .. k /\ t[i - 1] = load.chain[i - 1]
      BY <1>5, <2>2
    <3> QED
      BY <1>12, <3>1, <3>2 DEF ChainOK, k
  <2> QED
    BY <2>1, <2>2
<1>14. pc = "dats" => t[k + 1].blob.parent = 0
  BY <1>5, <1>7
<1>15. ChainOK(l)
  <2>1. l.pc \notin {"idle", "blobs", "top"} /\ Len(l.chain) = k + 1 /\ Len(l.chain) # 0
    BY <1>5, <1>6
  <2>2. l.pc \in {"dats", "pair", "loaded"} => l.chain[Len(l.chain)].blob.parent = 0
    BY <1>6, <1>14, <2>1
  <2> QED
    BY <1>6, <1>11, <1>13, <2>1, <2>2 DEF ChainOK
<1>16. NextOK(l)
  <2> SUFFICES ASSUME pc = "ancestry" PROVE NextOK(l)
    BY <1>6 DEF NextOK
  <2>1. Name[n].version = load.spec.version - (k + 1)
    BY <1>3, <1>5, <1>10
  <2>2. Len(l.chain) = k + 1 /\ k + 1 # 0 /\ l.chain[k + 1] = e
    BY <1>5, <1>6
  <2>3. OnlyParent(l, n, load.next, disk[load.next].parent)
    BY <1>11
  <2> QED
    BY <1>6, <1>7, <2>1, <2>2, <2>3 DEF NextOK
<1>17. SourcesOK(l)
  BY <1>5, <1>6, <1>8 DEF SourcesOK
<1>18. \A f \in FileId : load.mappings[f] = NoPath
  BY <1>8 DEF LoadInv, LoadOK, MappingsOK
<1>19. MappingsOK(l)
  BY <1>6, <1>8, <1>18 DEF MappingsOK
<1> QED
  BY <1>6, <1>9, <1>15, <1>16, <1>17, <1>19 DEF LoadOK

\* One turn of the loop of resolve_ancestry, or its failure.
LEMMA ReadBlobStep ==
  ASSUME DiskOK, LoadInv, ReadBlob
  PROVE  LoadInv'
<1> DEFINE p == load.next
           parents == ParentsOf(p, disk[p].parent)
           chain == Append(load.chain, [path |-> p, blob |-> disk[p]])
<1>1. load \in LoadType /\ load.pc = "ancestry" /\ p \in Path
  BY DEF LoadInv, LoadOK, NextOK, LoadType, ReadBlob
<1>2. CASE Fail("blob") \/ Fail("ancestry")
  BY <1>2, FailStep DEF Error
<1>3. CASE /\ Loadable(p) /\ disk[p].parent = 0
           /\ Continue([[load EXCEPT !.chain = chain] EXCEPT !.pc = "dats"])
  <2>1. PICK l : l = load'
    OBVIOUS
  <2>2. l = [load EXCEPT !.pc = "dats", !.next = p, !.chain = chain]
    BY <1>1, <1>3, <2>1 DEF Continue, LoadType
  <2>3. LoadOK(l)
    BY <1>1, <1>3, <2>2, ChainGrows
  <2> QED
    BY <2>1, <2>3 DEF LoadInv
<1>4. CASE /\ Loadable(p) /\ disk[p].parent # 0 /\ Cardinality(parents) = 1
           /\ \E q \in parents : Continue([[load EXCEPT !.chain = chain] EXCEPT !.next = q])
  <2>1. PICK q \in parents : load' = [[load EXCEPT !.chain = chain] EXCEPT !.next = q]
    BY <1>4 DEF Continue
  <2>2. parents = {q} /\ q \in load.candidates /\ q \in Path
        /\ Name[q].version = Name[p].version - 1
    <3>1. q \in load.candidates /\ Name[q].version = Name[p].version - 1
      BY <2>1 DEF ParentsOf
    <3>2. parents \in SUBSET Path /\ q \in Path
      BY <1>1, <3>1 DEF ParentsOf, LoadType
    <3> HIDE DEF parents
    <3>3. parents = {q}
      BY <1>4, <2>1, <3>2, OneFile
    <3> QED
      BY <3>1, <3>2, <3>3
  <2>3. OnlyParent(load, q, p, disk[p].parent)
    BY <2>2 DEF OnlyParent, ParentsOf
  <2>4. PICK l : l = load'
    OBVIOUS
  <2>5. l = [load EXCEPT !.pc = "ancestry", !.next = q, !.chain = chain]
    BY <1>1, <2>1, <2>4 DEF LoadType
  <2>6. LoadOK(l)
    BY <1>1, <1>4, <2>2, <2>3, <2>5, ChainGrows
  <2> QED
    BY <2>4, <2>6 DEF LoadInv
<1> QED
  BY <1>2, <1>3, <1>4 DEF ReadBlob

\* The DATs found are of the depot, and of the exact files if there are any.
LEMMA DiscoverDatsStep ==
  ASSUME LoadInv, DiscoverDats
  PROVE  LoadInv'
<1> DEFINE usable == ExactFilesUsable(load.spec.datFiles, "dat")
           found == Found(load.spec.datFiles, "dat", load.spec.datFolder)
<1>1. load \in LoadType /\ load.pc = "dats"
  BY DEF LoadInv, LoadOK, DiscoverDats
<1>2. CASE Fail("discovery")
  BY <1>2, FailStep DEF Error
<1>3. CASE usable /\ Continue([load EXCEPT !.pc = "pair", !.dats = found])
  <2>1. PICK l : l = load'
    OBVIOUS
  <2>2. l = [load EXCEPT !.pc = "pair", !.dats = found]
    BY <1>3, <2>1 DEF Continue
  <2>3. load.spec.datFiles \subseteq Path
    BY <1>1 DEF LoadType, SpecType
  <2>4. \A p \in found : /\ p \in Path /\ Name[p].kind = "dat" /\ Name[p].depot = load.spec.id
                         /\ load.spec.datFiles # {} => p \in load.spec.datFiles
    BY <1>3, <2>3 DEF ExactFilesUsable, Found, Names
  <2>5. found \in SUBSET Path
    BY <2>4
  <2> HIDE DEF found
  <2>6. /\ l \in LoadType /\ l.pc = "pair" /\ l.spec = load.spec /\ l.candidates = load.candidates
        /\ l.dats = found /\ l.chain = load.chain /\ l.sources = <<>> /\ l.mappings = load.mappings
    BY <1>1, <2>2, <2>5 DEF LoadType, LoadInv, LoadOK, SourcesOK
  <2>7. CandidatesOK(l) /\ NextOK(l)
    BY <2>6 DEF CandidatesOK, NextOK, LoadInv, LoadOK
  <2>8. ChainOK(l)
    BY <1>1, <2>6 DEF ChainOK, OnlyTop, OnlyParent, LoadInv, LoadOK
  <2>9. l.chain \in Seq(Entry)
    BY <2>6 DEF LoadType
  <2>10. Len(l.chain) \in Nat /\ Len(l.sources) = 0
    BY <2>6, <2>9
  <2>11. SourcesOK(l)
    BY <2>4, <2>6, <2>10 DEF SourcesOK
  <2>12. \A f \in FileId : load.mappings[f] = NoPath
    BY <1>1 DEF LoadInv, LoadOK, MappingsOK, SourcesOK
  <2>13. MappingsOK(l)
    BY <2>6, <2>12 DEF MappingsOK
  <2> QED
    BY <2>1, <2>6, <2>7, <2>8, <2>11, <2>13 DEF LoadInv, LoadOK
<1> QED
  BY <1>2, <1>3 DEF DiscoverDats

\* A pairing appends the DAT of the oldest blob that has none, and lays its files
\* over those of the older ones.
LEMMA PairStep ==
  ASSUME LoadInv, Pair
  PROVE  LoadInv'
<1> DEFINE m == Len(load.sources)
           n == Len(load.chain)
           b == Unpaired
<1>1. load \in LoadType /\ load.pc = "pair"
  BY DEF LoadInv, LoadOK, Pair
<1>2. CASE Fail("dat") \/ Fail("open") \/ Fail("tables")
  BY <1>2, FailStep DEF Error
<1>3. CASE /\ m < n /\ b.blob.table # Malformed /\ Cardinality(DatMatches(b)) = 1
           /\ \E d \in DatMatches(b) :
                 Continue([load EXCEPT !.sources = Append(@, d),
                                       !.mappings = Overlay(@, b.blob.table, d)])
  <2>1. PICK d \in DatMatches(b) :
           load' = [load EXCEPT !.sources = Append(@, d), !.mappings = Overlay(@, b.blob.table, d)]
    BY <1>3 DEF Continue
  <2>2. d \in load.dats /\ d \in Path /\ Name[d].version = Name[b.path].version
    BY <1>1, <2>1 DEF DatMatches, Sized, LoadType
  <2>3. load.sources \in Seq(Path) /\ load.chain \in Seq(Entry) /\ m \in Nat /\ n \in Nat
    BY <1>1 DEF LoadType
  <2>4. PICK t : t = Append(load.sources, d)
    OBVIOUS
  <2>5. /\ t \in Seq(Path) /\ Len(t) = m + 1
        /\ \A i \in 1 .. m : t[i] = load.sources[i]
        /\ t[m + 1] = d
    BY <2>2, <2>3, <2>4, Appended
  <2>6. PICK w : w = Overlay(load.mappings, b.blob.table, d)
    OBVIOUS
  <2>7. /\ w \in [FileId -> Path \cup {NoPath}]
        /\ \A f \in FileId : w[f] = IF f \in b.blob.table THEN d ELSE load.mappings[f]
    BY <1>1, <2>2, <2>6 DEF Overlay, LoadType
  <2>8. PICK l : l = load'
    OBVIOUS
  <2>9. /\ l \in LoadType /\ l.pc = "pair" /\ l.spec = load.spec /\ l.candidates = load.candidates
        /\ l.dats = load.dats /\ l.chain = load.chain /\ l.sources = t /\ l.mappings = w
    BY <1>1, <2>1, <2>4, <2>5, <2>6, <2>7, <2>8 DEF LoadType
  <2>10. b = Paired(l, m + 1) /\ \A i : Paired(l, i) = Paired(load, i)
    BY <2>3, <2>9 DEF Paired, Unpaired
  <2> HIDE DEF b, m, n
  <2>11. CandidatesOK(l) /\ NextOK(l)
    BY <2>9 DEF CandidatesOK, NextOK, LoadInv, LoadOK
  <2>12. ChainOK(l)
    BY <1>1, <2>9 DEF ChainOK, OnlyTop, OnlyParent, LoadInv, LoadOK
  <2>13. \A i \in 1 .. m + 1 : i \in 1 .. m \/ i = m + 1
    BY <2>3
  <2>14. SourcesOK(l)
    <3>1. \A i \in 1 .. m + 1 : /\ t[i] \in load.dats
                                /\ Name[t[i]].version = Name[Paired(l, i).path].version
                                /\ Paired(l, i).blob.table # Malformed
      BY <1>3, <2>2, <2>5, <2>10, <2>13 DEF LoadInv, LoadOK, SourcesOK, m
    <3>2. \A e \in load.dats : /\ Name[e].kind = "dat" /\ Name[e].depot = load.spec.id
                               /\ load.spec.datFiles # {} => e \in load.spec.datFiles
      BY <1>1 DEF LoadInv, LoadOK, SourcesOK
    <3>3. m + 1 <= n
      BY <1>3, <2>3
    <3> QED
      BY <2>5, <2>9, <3>1, <3>2, <3>3 DEF SourcesOK, n
  <2>15. MappingsOK(load)
    BY DEF LoadInv, LoadOK
  <2>16. ASSUME NEW f \in FileId, NEW i \in 1 .. m + 1, f \in Paired(l, i).blob.table,
                \A j \in 1 .. m + 1 : j > i => f \notin Paired(l, j).blob.table
         PROVE  w[f] = t[i]
    <3>1. CASE i = m + 1
      BY <2>5, <2>7, <2>10, <2>16, <3>1
    <3>2. CASE i \in 1 .. m
      <4>1. m + 1 > i /\ m + 1 \in 1 .. m + 1 /\ \A j \in 1 .. m : j \in 1 .. m + 1
        BY <2>3, <3>2
      <4>2. f \notin b.blob.table
        BY <2>10, <2>16, <4>1
      <4>3. \A j \in 1 .. m : j > i => f \notin Paired(load, j).blob.table
        BY <2>10, <2>16, <4>1
      <4>4. load.mappings[f] = load.sources[i]
        BY <2>10, <2>15, <2>16, <3>2, <4>3 DEF MappingsOK, m
      <4> QED
        BY <2>5, <2>7, <3>2, <4>2, <4>4
    <3> QED
      BY <2>13, <3>1, <3>2
  <2>17. ASSUME NEW f \in FileId, \A i \in 1 .. m + 1 : f \notin Paired(l, i).blob.table
         PROVE  w[f] = NoPath
    <3>1. m + 1 \in 1 .. m + 1 /\ \A j \in 1 .. m : j \in 1 .. m + 1
      BY <2>3
    <3>2. f \notin b.blob.table /\ \A i \in 1 .. m : f \notin Paired(load, i).blob.table
      BY <2>10, <2>17, <3>1
    <3>3. load.mappings[f] = NoPath
      BY <2>15, <3>2 DEF MappingsOK, m
    <3> QED
      BY <2>7, <3>2, <3>3
  <2>18. MappingsOK(l)
    BY <2>5, <2>9, <2>16, <2>17 DEF MappingsOK
  <2> QED
    BY <2>8, <2>9, <2>11, <2>12, <2>14, <2>18 DEF LoadInv, LoadOK
<1> QED
  BY <1>2, <1>3 DEF Pair

\* A load succeeds with a manifest, a key, and a source for each of its files.
LEMMA FinishStep ==
  ASSUME LoadInv, Finish
  PROVE  LoadInv'
<1>1. load \in LoadType /\ load.pc = "pair" /\ Len(load.sources) = Len(load.chain)
  BY DEF LoadInv, LoadOK, Finish
<1>2. CASE Fail("manifest") \/ Fail("key") \/ Fail("tables") \/ Fail("paths")
  BY <1>2, FailStep DEF Error
<1>3. CASE /\ Head(load.chain).blob.manifest # Malformed /\ load.spec.id \in Keyed
           /\ \A f \in Head(load.chain).blob.manifest : load.mappings[f] # NoPath
           /\ Continue([load EXCEPT !.pc = "loaded"])
  <2>1. PICK l : l = load'
    OBVIOUS
  <2>2. /\ l \in LoadType /\ l.pc = "loaded" /\ l.spec = load.spec
        /\ l.candidates = load.candidates /\ l.dats = load.dats
        /\ l.chain = load.chain /\ l.sources = load.sources /\ l.mappings = load.mappings
    BY <1>1, <1>3, <2>1 DEF Continue, LoadType
  <2>3. \A i : Paired(l, i) = Paired(load, i)
    BY <2>2 DEF Paired
  <2>4. CandidatesOK(l) /\ NextOK(l)
    BY <2>2 DEF LoadInv, LoadOK, CandidatesOK, NextOK
  <2>5. ChainOK(l)
    BY <1>1, <2>2 DEF LoadInv, LoadOK, ChainOK, OnlyTop, OnlyParent
  <2>6. load.chain \in Seq(Entry) /\ Len(load.chain) \in Nat
    BY <1>1 DEF LoadType
  <2>7. SourcesOK(l)
    BY <1>1, <2>2, <2>3, <2>6 DEF LoadInv, LoadOK, SourcesOK
  <2>8. Head(load.chain) = load.chain[1]
    OBVIOUS
  <2>9. MappingsOK(l)
    BY <1>3, <2>2, <2>3, <2>8 DEF LoadInv, LoadOK, MappingsOK
  <2> QED
    BY <2>1, <2>2, <2>4, <2>5, <2>7, <2>9 DEF LoadInv, LoadOK
<1> QED
  BY <1>2, <1>3 DEF Finish

\* All steps of a load.
LEMMA LoadStep ==
  ASSUME DiskOK, LoadInv, LoadNext
  PROVE  LoadInv' /\ DiskOK'
<1>1. LoadInv'
  BY DiscoverBlobsStep, ChooseTopStep, ReadBlobStep, DiscoverDatsStep, PairStep, FinishStep
  DEF LoadNext
<1>2. UNCHANGED disk
  BY DEF LoadNext, DiscoverBlobs, ChooseTop, ReadBlob, DiscoverDats, Pair, Finish, Continue, Fail
<1> QED
  BY <1>1, <1>2 DEF DiskOK

\* The invariant gives the two properties of the loader.
LEMMA AncestryRight == LoadInv => AncestryComplete
<1> SUFFICES ASSUME LoadInv PROVE AncestryComplete
  OBVIOUS
<1>1. /\ load \in LoadType /\ ChainOK(load) /\ load.chain \in Seq(Entry)
      /\ DOMAIN load.chain = 1 .. Len(load.chain) /\ Len(load.chain) \in Nat
      /\ load.spec.version \in Nat
  BY BoundAssumption DEF LoadInv, LoadOK, LoadType, SpecType, Version
<1>2. ASSUME NEW i \in DOMAIN load.chain, i > 1
      PROVE  LET p == load.chain[i].path
                 crc == load.chain[i - 1].blob.parent
             IN  /\ Name[p].version = load.spec.version - (i - 1)
                 /\ crc # 0
                 /\ {q \in load.candidates : Name[q].version = Name[p].version /\ Name[q].crc = crc}
                        = {p}
  <2> DEFINE p == load.chain[i].path
             o == load.chain[i - 1].path
             crc == load.chain[i - 1].blob.parent
  <2>1. i \in 1 .. Len(load.chain) /\ i - 1 \in 1 .. Len(load.chain) /\ i # 1
    BY <1>1, <1>2
  <2>2. /\ Name[p].version = load.spec.version - (i - 1)
        /\ Name[o].version = load.spec.version - ((i - 1) - 1)
        /\ crc # 0 /\ OnlyParent(load, p, o, crc)
    BY <1>1, <2>1 DEF ChainOK
  <2> HIDE DEF p, o, crc
  <2>3. Name[p].version = Name[o].version - 1
    BY <1>1, <2>1, <2>2
  <2>4. {q \in load.candidates : Name[q].version = Name[p].version /\ Name[q].crc = crc} = {p}
    BY <2>2, <2>3 DEF OnlyParent
  <2> QED
    BY <2>2, <2>4 DEF p, crc
<1>3. load.pc \in {"dats", "pair", "loaded"} =>
          load.chain # <<>> /\ load.chain[Len(load.chain)].blob.parent = 0
  BY <1>1 DEF ChainOK
<1> QED
  BY <1>2, <1>3 DEF AncestryComplete

\* The same for RevisionIsTheOneAskedFor.
LEMMA RevisionRight == LoadInv => RevisionIsTheOneAskedFor
<1> SUFFICES ASSUME LoadInv, load.pc = "loaded" PROVE RevisionIsTheOneAskedFor
  BY DEF RevisionIsTheOneAskedFor
<1> DEFINE n == Len(load.chain)
           top == load.chain[1]
<1>1. /\ load \in LoadType /\ ChainOK(load) /\ CandidatesOK(load) /\ SourcesOK(load)
      /\ MappingsOK(load) /\ load.chain \in Seq(Entry) /\ load.sources \in Seq(Path)
      /\ DOMAIN load.chain = 1 .. n /\ DOMAIN load.sources = 1 .. n /\ n \in Nat
      /\ n # 0 /\ Len(load.sources) = n
      /\ load.spec.version \in Nat
  BY BoundAssumption DEF LoadInv, LoadOK, LoadType, SpecType, Version, ChainOK, SourcesOK
<1>2. Head(load.chain) = top /\ top \in Entry /\ 1 \in 1 .. n
  BY <1>1
<1> HIDE DEF n
<1>3. /\ top.path \in load.candidates /\ OnlyTop(load, top.path)
      /\ Name[top.path].version = load.spec.version
  <2>1. Name[top.path].version = load.spec.version - (1 - 1)
    BY <1>1, <1>2 DEF ChainOK, n
  <2> QED
    BY <1>1, <1>2, <2>1 DEF ChainOK, n
<1>4. /\ Name[top.path].depot = load.spec.id
      /\ load.spec.crc \in {NoCrc, Name[top.path].crc}
  BY <1>1, <1>3 DEF CandidatesOK, OnlyTop
<1>5. load.spec.blobFiles # {} => \A i \in 1 .. n : load.chain[i].path \in load.spec.blobFiles
  BY <1>1 DEF ChainOK, CandidatesOK, n
<1>6. load.spec.datFiles # {} => \A i \in 1 .. n : load.sources[i] \in load.spec.datFiles
  BY <1>1 DEF SourcesOK
<1>7. ASSUME NEW f \in top.blob.manifest
      PROVE  \E i \in 1 .. n : /\ f \in load.chain[i].blob.table
                               /\ \A j \in 1 .. i - 1 : f \notin load.chain[j].blob.table
                               /\ load.mappings[f] = load.sources[n + 1 - i]
  <2> DEFINE T == {i \in 1 .. n : f \in load.chain[i].blob.table}
  <2>1. f \in FileId /\ load.mappings[f] # NoPath
    <3>1. top.blob.manifest # Malformed /\ load.mappings[f] # NoPath
      BY <1>1 DEF MappingsOK
    <3>2. top.blob.manifest \in SUBSET FileId
      BY <1>2, <3>1 DEF Entry, BlobType
    <3> QED
      BY <3>1, <3>2
  <2>2. PICK k \in 1 .. n : f \in Paired(load, k).blob.table
    BY <1>1, <2>1 DEF MappingsOK
  <2>3. T \in SUBSET Nat /\ n + 1 - k \in T
    BY <1>1, <2>2 DEF Paired, n
  <2> HIDE DEF T
  <2>4. PICK i \in T : \A j \in T : i <= j
    BY <2>3, NatLeast
  <2>5. i \in 1 .. n /\ f \in load.chain[i].blob.table
    BY <2>4 DEF T
  <2>6. \A j \in 1 .. i - 1 : f \notin load.chain[j].blob.table
    <3>1. \A j \in 1 .. i - 1 : j \in 1 .. n /\ ~(i <= j)
      BY <1>1, <2>5
    <3> QED
      BY <2>4, <3>1 DEF T
  <2>7. n + 1 - i \in 1 .. n /\ n + 1 - (n + 1 - i) = i
        /\ \A j \in 1 .. n : j > n + 1 - i => n + 1 - j \in 1 .. i - 1
    BY <1>1, <2>5
  <2>8. \A j : Paired(load, j) = load.chain[n + 1 - j]
    BY DEF Paired, n
  <2>9. /\ f \in Paired(load, n + 1 - i).blob.table
        /\ \A j \in 1 .. n : j > n + 1 - i => f \notin Paired(load, j).blob.table
    BY <2>5, <2>6, <2>7, <2>8
  <2>10. load.mappings[f] = load.sources[n + 1 - i]
    BY <1>1, <2>1, <2>7, <2>9 DEF MappingsOK
  <2> QED
    BY <2>5, <2>6, <2>10
<1>8. {load.chain[i].path : i \in 1 .. n} \subseteq load.spec.blobFiles \/ load.spec.blobFiles = {}
  BY <1>5
<1>9. {load.sources[i] : i \in 1 .. n} \subseteq load.spec.datFiles \/ load.spec.datFiles = {}
  BY <1>6
<1> HIDE DEF top
<1>10. PICK used : used = {load.chain[i].path : i \in DOMAIN load.chain}
  OBVIOUS
<1>11. PICK dats : dats = {load.sources[i] : i \in DOMAIN load.sources}
  OBVIOUS
<1>12. /\ load.spec.blobFiles # {} => used \subseteq load.spec.blobFiles
       /\ load.spec.datFiles # {} => dats \subseteq load.spec.datFiles
  BY <1>1, <1>8, <1>9, <1>10, <1>11
<1>13. \A f \in top.blob.manifest : \E i \in DOMAIN load.chain :
          /\ f \in load.chain[i].blob.table
          /\ \A j \in 1 .. i - 1 : f \notin load.chain[j].blob.table
          /\ load.mappings[f] = load.sources[Len(load.chain) + 1 - i]
  BY <1>1, <1>7 DEF n
<1>14. top.path = Head(load.chain).path /\ top.blob = Head(load.chain).blob
  BY <1>2
<1> HIDE DEF n
<1> QED
  BY <1>3, <1>4, <1>10, <1>11, <1>12, <1>13, <1>14 DEF RevisionIsTheOneAskedFor

-----------------------------------------------------------------------------
(***************************************************************************)
(* The scan.                                                               *)
(***************************************************************************)
BlobRecord == [path : Path, metadata : BlobType \cup {NoMetadata}]
DatRecord == [path : Path, size : Nat]

ScanType ==
    [pc : {"idle", "running", "done"}, todo : SUBSET Path,
     blobs : SUBSET BlobRecord, dats : SUBSET DatRecord]

\* What a scan makes of a blob that it looks at now.
MetadataOf(p) == IF Inspectable(p) THEN disk[p] ELSE NoMetadata

\* The records of a file are what a scan would make of it now.
RecordsRight(p) ==
    /\ \A b \in scan.blobs : b.path = p => Present(p) /\ b.metadata = MetadataOf(p)
    /\ \A d \in scan.dats : d.path = p => Present(p) /\ d.size = disk[p].size
    /\ Present(p) /\ Name[p].strict /\ Name[p].kind = "blob" => \E b \in scan.blobs : b.path = p
    /\ Present(p) /\ Name[p].strict /\ Name[p].kind = "dat" => \E d \in scan.dats : d.path = p

ScanInv ==
    /\ scan \in ScanType
    /\ IsFiniteSet(scan.blobs) /\ IsFiniteSet(scan.dats)
    /\ touched \in SUBSET Path /\ scan.todo \subseteq touched
    /\ scan.pc = "idle" => touched = Path /\ scan.blobs = {} /\ scan.dats = {}
    /\ scan.pc = "done" => scan.todo = {}
    /\ \A b \in scan.blobs : /\ Name[b.path].strict /\ Name[b.path].kind = "blob"
                             /\ b.path \notin scan.todo
    /\ \A d \in scan.dats : /\ Name[d.path].strict /\ Name[d.path].kind = "dat"
                            /\ d.path \notin scan.todo
    /\ \A p \in Path \ touched : RecordsRight(p)

\* Before the scan there are no records, and every file counts as touched.
LEMMA ScanInitOK == ScanInit /\ touched = Path => ScanInv
<1> SUFFICES ASSUME ScanInit, touched = Path PROVE ScanInv
  OBVIOUS
<1>1. /\ scan \in ScanType /\ scan.pc = "idle" /\ scan.todo = {} /\ scan.blobs = {}
      /\ scan.dats = {}
  BY DEF ScanInit, ScanType
<1> QED
  BY <1>1, FS_EmptySet DEF ScanInv

\* The next file is one that the scan has not looked at.
LEMMA NextFileListed ==
  ASSUME scan.todo \in SUBSET Path, scan.todo # {}
  PROVE  NextFile \in scan.todo
<1> DEFINE T == {i \in DOMAIN Sorted : Sorted[i] \in scan.todo}
           Right(i) == /\ Sorted[i] \in scan.todo
                       /\ \A j \in 1 .. i - 1 : Sorted[j] \notin scan.todo
<1>1. DOMAIN Sorted = 1 .. Len(Sorted) /\ Len(Sorted) \in Nat
  BY SortedAssumption
<1>2. T \in SUBSET Nat /\ T # {}
  BY <1>1, SortedAssumption
<1> HIDE DEF T
<1>3. PICK i \in T : \A j \in T : i <= j
  BY <1>2, NatLeast
<1>4. i \in DOMAIN Sorted /\ Sorted[i] \in scan.todo
  BY <1>3 DEF T
<1>5. \A j \in 1 .. i - 1 : j \in DOMAIN Sorted /\ ~(i <= j)
  BY <1>1, <1>4
<1>6. \E k \in DOMAIN Sorted : Right(k)
  BY <1>3, <1>4, <1>5 DEF T
<1>7. Right(CHOOSE k \in DOMAIN Sorted : Right(k))
  <2> HIDE DEF Right
  <2> QED
    BY <1>6
<1> QED
  BY <1>7 DEF NextFile

\* What is said of a file's records depends on the records and the file.
LEMMA SameRecords ==
  ASSUME NEW p, scan'.blobs = scan.blobs, scan'.dats = scan.dats, disk'[p] = disk[p]
  PROVE  RecordsRight(p)' = RecordsRight(p)
BY DEF RecordsRight, Present, MetadataOf, Inspectable, Loadable

\* The invariant of the scan speaks of the disk, the records and touched only.
LEMMA ScanIdle ==
  ASSUME ScanInv, UNCHANGED <<disk, scan, touched>>
  PROVE  ScanInv'
<1>1. \A p : RecordsRight(p)' = RecordsRight(p)
  BY SameRecords
<1> QED
  BY <1>1 DEF ScanInv

\* A file that changes is touched.
LEMMA ScanChange ==
  ASSUME ScanInv, DiskOK, FilesChange
  PROVE  ScanInv' /\ DiskOK'
<1>0. PICK p \in Path : \E content \in Contents[p] :
         Change(p, content) /\ touched' = touched \cup {p}
  BY DEF FilesChange
<1>1. PICK content \in Contents[p] : Change(p, content) /\ touched' = touched \cup {p}
  BY <1>0
<1>2. DiskOK' /\ \A q \in Path \ {p} : disk'[q] = disk[q]
  BY <1>1, ChangeStep
<1>3. UNCHANGED scan
  BY DEF FilesChange
<1>4. touched' \in SUBSET Path /\ touched \subseteq touched'
  BY <1>1 DEF ScanInv
<1>5. \A q \in Path \ touched' : RecordsRight(q)' = RecordsRight(q)
  BY <1>1, <1>2, <1>3, SameRecords
<1>6. \A q \in Path \ touched' : RecordsRight(q)'
  BY <1>4, <1>5 DEF ScanInv
<1>7. scan.pc = "idle" => touched' = Path
  BY <1>4 DEF ScanInv
<1> QED
  BY <1>2, <1>3, <1>4, <1>6, <1>7 DEF ScanInv

\* After the listing, files that are not there need no record.
LEMMA StartScanStep ==
  ASSUME ScanInv, DiskOK, scan.pc = "idle", StartScan,
         touched' = touched \ {p \in Path : ~Present(p)}
  PROVE  ScanInv'
<1>1. /\ scan' \in ScanType /\ scan'.pc = "running" /\ scan'.blobs = {} /\ scan'.dats = {}
      /\ scan'.todo = {p \in Path : Present(p)} /\ UNCHANGED disk
  BY DEF StartScan, ScanType
<1>2. touched' = {p \in Path : Present(p)}
  BY DEF ScanInv
<1>3. \A p \in Path \ touched' : ~Present(p)' /\ RecordsRight(p)'
  BY <1>1, <1>2 DEF RecordsRight, Present
<1> QED
  BY <1>1, <1>2, <1>3, FS_EmptySet DEF ScanInv

\* The file that was looked at has the record that it should have.
LEMMA ScanFileStep ==
  ASSUME ScanInv, DiskOK, ScanFile, touched' = touched \ {NextFile}
  PROVE  ScanInv'
<1>0. PICK p : p = NextFile
  OBVIOUS
<1> DEFINE b == [path |-> p, metadata |-> MetadataOf(p)]
           d == [path |-> p, size |-> disk[p].size]
<1>1. scan \in ScanType /\ scan.pc = "running" /\ p \in scan.todo /\ p \in Path /\ UNCHANGED disk
  BY <1>0, NextFileListed DEF ScanInv, ScanFile, ScanType
<1>2. /\ \A c \in scan.blobs : c.path # p
      /\ \A c \in scan.dats : c.path # p
  BY <1>1 DEF ScanInv
<1>3. Present(p) /\ Name[p].kind = "blob" => b \in BlobRecord
  BY <1>1, DiskFacts DEF BlobRecord, MetadataOf, Inspectable
<1>4. Present(p) /\ Name[p].kind = "dat" => d \in DatRecord
  BY <1>1, DiskFacts DEF DatRecord, DatType
<1>5. /\ \/ /\ Present(p) /\ Name[p].strict /\ Name[p].kind = "blob"
            /\ scan' = [scan EXCEPT !.todo = @ \ {p}, !.blobs = @ \cup {b}]
         \/ /\ Present(p) /\ Name[p].strict /\ Name[p].kind = "dat"
            /\ scan' = [scan EXCEPT !.todo = @ \ {p}, !.dats = @ \cup {d}]
         \/ /\ ~(Present(p) /\ Name[p].strict)
            /\ scan' = [scan EXCEPT !.todo = @ \ {p}]
  BY <1>0 DEF ScanFile, ScanBlob, ScanDat, MetadataOf
<1>6. b.path = p /\ b.metadata = MetadataOf(p) /\ d.path = p /\ d.size = disk[p].size
  OBVIOUS
<1>7. MetadataOf(p)' = MetadataOf(p) /\ (\A q : Present(q)' <=> Present(q))
  BY <1>1 DEF MetadataOf, Inspectable, Loadable, Present
<1> HIDE DEF b, d
<1>8. /\ scan' \in ScanType /\ scan'.pc = "running" /\ scan'.todo = scan.todo \ {p}
      /\ scan.blobs \subseteq scan'.blobs /\ scan.dats \subseteq scan'.dats
      /\ scan'.blobs \subseteq scan.blobs \cup {b} /\ scan'.dats \subseteq scan.dats \cup {d}
      /\ b \in scan'.blobs => Present(p) /\ Name[p].strict /\ Name[p].kind = "blob"
      /\ d \in scan'.dats => Present(p) /\ Name[p].strict /\ Name[p].kind = "dat"
      /\ Present(p) /\ Name[p].strict /\ Name[p].kind = "blob" => b \in scan'.blobs
      /\ Present(p) /\ Name[p].strict /\ Name[p].kind = "dat" => d \in scan'.dats
  <2>1. CASE /\ Present(p) /\ Name[p].strict /\ Name[p].kind = "blob"
             /\ scan' = [scan EXCEPT !.todo = @ \ {p}, !.blobs = @ \cup {b}]
    <3>1. /\ scan' \in ScanType /\ scan'.pc = "running" /\ scan'.todo = scan.todo \ {p}
          /\ scan'.blobs = scan.blobs \cup {b} /\ scan'.dats = scan.dats
      BY <1>1, <1>3, <2>1 DEF ScanType
    <3>2. d \notin scan.dats
      BY <1>2, <1>6
    <3> QED
      BY <2>1, <3>1, <3>2
  <2>2. CASE /\ Present(p) /\ Name[p].strict /\ Name[p].kind = "dat"
             /\ scan' = [scan EXCEPT !.todo = @ \ {p}, !.dats = @ \cup {d}]
    <3>1. /\ scan' \in ScanType /\ scan'.pc = "running" /\ scan'.todo = scan.todo \ {p}
          /\ scan'.dats = scan.dats \cup {d} /\ scan'.blobs = scan.blobs
      BY <1>1, <1>4, <2>2 DEF ScanType
    <3>2. b \notin scan.blobs
      BY <1>2, <1>6
    <3> QED
      BY <2>2, <3>1, <3>2
  <2>3. CASE /\ ~(Present(p) /\ Name[p].strict)
             /\ scan' = [scan EXCEPT !.todo = @ \ {p}]
    <3>1. /\ scan' \in ScanType /\ scan'.pc = "running" /\ scan'.todo = scan.todo \ {p}
          /\ scan'.dats = scan.dats /\ scan'.blobs = scan.blobs
      BY <1>1, <2>3 DEF ScanType
    <3>2. b \notin scan.blobs /\ d \notin scan.dats
      BY <1>2, <1>6
    <3> QED
      BY <2>3, <3>1, <3>2
  <2> QED
    BY <1>5, <2>1, <2>2, <2>3
<1>9. IsFiniteSet(scan'.blobs) /\ IsFiniteSet(scan'.dats)
  <2>1. IsFiniteSet(scan.blobs \cup {b}) /\ IsFiniteSet(scan.dats \cup {d})
    BY FS_AddElement DEF ScanInv
  <2> QED
    BY <1>8, <2>1, FS_Subset
<1>10. touched' \in SUBSET Path /\ scan'.todo \subseteq touched'
  BY <1>0, <1>8 DEF ScanInv
<1>11. \A c \in scan'.blobs : /\ Name[c.path].strict /\ Name[c.path].kind = "blob"
                              /\ c.path \notin scan'.todo
  BY <1>6, <1>8 DEF ScanInv
<1>12. \A c \in scan'.dats : /\ Name[c.path].strict /\ Name[c.path].kind = "dat"
                             /\ c.path \notin scan'.todo
  BY <1>6, <1>8 DEF ScanInv
<1>13. RecordsRight(p)'
  <2>1. \A c \in scan'.blobs : c.path = p => c = b
    BY <1>2, <1>8
  <2>2. \A c \in scan'.dats : c.path = p => c = d
    BY <1>2, <1>8
  <2>3. Name[p].kind = "dat" \/ Name[p].kind = "blob"
    BY <1>1, NameTypeAssumption DEF NameType
  <2> QED
    BY <1>1, <1>6, <1>7, <1>8, <2>1, <2>2 DEF RecordsRight
<1>14. ASSUME NEW q \in Path \ touched' PROVE RecordsRight(q)'
  <2>1. CASE q = p
    BY <1>13, <2>1
  <2>2. CASE q # p
    <3>1. q \in Path \ touched
      BY <1>0, <2>2
    <3>2. RecordsRight(q)
      BY <3>1 DEF ScanInv
    <3>3. /\ \A c \in scan'.blobs : c.path = q => c \in scan.blobs
          /\ \A c \in scan'.dats : c.path = q => c \in scan.dats
      BY <1>6, <1>8, <2>2
    <3>4. MetadataOf(q)' = MetadataOf(q)
      BY <1>1 DEF MetadataOf, Inspectable, Loadable, Present
    <3> QED
      BY <1>1, <1>7, <1>8, <3>2, <3>3, <3>4 DEF RecordsRight
  <2> QED
    BY <2>1, <2>2
<1> QED
  BY <1>8, <1>9, <1>10, <1>11, <1>12, <1>14 DEF ScanInv

\* All steps of the scan.
LEMMA ScanStep ==
  ASSUME ScanInv, DiskOK, Scan
  PROVE  ScanInv' /\ DiskOK'
<1>1. UNCHANGED disk
  BY DEF Scan, ScanNext, StartScan, ScanFile, FinishScan
<1>2. scan \in ScanType
  BY DEF ScanInv
<1>3. CASE StartScan
  <2>1. scan.pc = "idle"
    BY <1>2, <1>3 DEF Scan, StartScan, ScanType
  <2> QED
    BY <1>1, <1>3, <2>1, StartScanStep DEF Scan, DiskOK
<1>4. CASE ScanFile
  <2>1. touched' = touched \ {NextFile}
    BY <1>4 DEF Scan, ScanFile
  <2> QED
    BY <1>1, <1>4, <2>1, ScanFileStep DEF DiskOK
<1>5. CASE FinishScan
  <2>1. /\ scan' \in ScanType /\ scan'.pc = "done" /\ scan'.todo = {} /\ scan.todo = {}
        /\ scan'.blobs = scan.blobs /\ scan'.dats = scan.dats /\ touched' = touched
    BY <1>2, <1>5 DEF FinishScan, Scan, ScanType
  <2>2. \A p : RecordsRight(p)' = RecordsRight(p)
    BY <1>1, <2>1, SameRecords
  <2> QED
    BY <1>1, <2>1, <2>2 DEF ScanInv, DiskOK
<1> QED
  BY <1>3, <1>4, <1>5 DEF Scan, ScanNext

-----------------------------------------------------------------------------
(***************************************************************************)
(* The classification.  walk of Ancestry is defined by recursion on the    *)
(* version, and Turn is what it makes of the level above.                  *)
(***************************************************************************)
ResultType ==
    [readiness : {"Ready", "MissingParent", "DuplicateBlob", "CorruptBlob"}, chain : Seq(scan.blobs)]

Turn(depot, v, c, above) ==
    LET group == Group(<<depot, v, c>>)
        blob == CHOOSE b \in group : TRUE
    IN  IF group = {} THEN Result("MissingParent", <<>>)
        ELSE IF Cardinality(group) # 1 THEN Result("DuplicateBlob", <<>>)
        ELSE IF blob.metadata = NoMetadata THEN Result("CorruptBlob", <<>>)
        ELSE IF blob.metadata.parent = 0 THEN Result("Ready", <<blob>>)
        ELSE IF v = 0 THEN Result("MissingParent", <<>>)
        ELSE LET a == above[blob.metadata.parent]
             IN  Result(a.readiness, Append(a.chain, blob))

Walk(depot, w) == w = [v \in Version |-> [c \in Crc |-> Turn(depot, v, c, w[v - 1])]]

\* The members of a group are records, and the group can be counted.
LEMMA GroupType ==
  ASSUME ScanInv, NEW id
  PROVE  /\ Group(id) \in SUBSET scan.blobs
         /\ IsFiniteSet(Group(id)) /\ Cardinality(Group(id)) \in Nat
         /\ Cardinality(Group(id)) = 1 <=> \E b : Group(id) = {b}
         /\ \A b \in Group(id) : /\ b \in BlobRecord /\ IdentityOf(b.path) = id
                                 /\ b.metadata # NoMetadata => b.metadata \in BlobType
<1>1. Group(id) \in SUBSET scan.blobs
  BY DEF Group
<1>2. IsFiniteSet(Group(id))
  BY <1>1, FS_Subset DEF ScanInv
<1>3. Cardinality(Group(id)) \in Nat
  BY <1>2, FS_CardinalityType
<1>4. Cardinality(Group(id)) = 1 <=> \E b : Group(id) = {b}
  BY <1>2, FS_Singleton
<1>5. \A b \in Group(id) : /\ b \in BlobRecord /\ IdentityOf(b.path) = id
                           /\ b.metadata # NoMetadata => b.metadata \in BlobType
  BY DEF Group, ScanInv, ScanType, BlobRecord
<1> QED
  BY <1>1, <1>2, <1>3, <1>4, <1>5

\* A sequence of one element.
LEMMA OneElement ==
  ASSUME NEW S, NEW x \in S
  PROVE  <<x>> \in Seq(S)
<1>1. [i \in 1 .. 1 |-> x] \in Seq(S)
  OBVIOUS
<1>2. <<x>> = [i \in 1 .. 1 |-> x]
  OBVIOUS
<1> QED
  BY <1>1, <1>2

\* What Turn makes of a level above is a result.
LEMMA TurnType ==
  ASSUME ScanInv, NEW depot, NEW v \in Version, NEW c \in Crc, NEW x,
         v = 0 \/ x \in [Crc -> ResultType]
  PROVE  Turn(depot, v, c, x) \in ResultType
<1> DEFINE group == Group(<<depot, v, c>>)
           blob == CHOOSE b \in group : TRUE
<1>1. group \in SUBSET scan.blobs
  BY GroupType
<1>2. \A r \in {"Ready", "MissingParent", "DuplicateBlob", "CorruptBlob"}, ch \in Seq(scan.blobs) :
         Result(r, ch) \in ResultType
  BY DEF Result, ResultType
<1>3. <<>> \in Seq(scan.blobs)
  OBVIOUS
<1>4. group # {} => blob \in scan.blobs /\ <<blob>> \in Seq(scan.blobs)
  <2>1. group # {} => blob \in group
    OBVIOUS
  <2>2. \A e \in scan.blobs : <<e>> \in Seq(scan.blobs)
    BY OneElement
  <2> HIDE DEF blob, group
  <2>3. group # {} => blob \in scan.blobs
    BY <1>1, <2>1
  <2> QED
    BY <2>2, <2>3
<1>5. ASSUME group # {}, blob.metadata # NoMetadata, v # 0
      PROVE  LET a == x[blob.metadata.parent]
             IN  Result(a.readiness, Append(a.chain, blob)) \in ResultType
  <2>1. blob \in group
    BY <1>5
  <2>2. blob.metadata.parent \in Crc
    BY <1>5, <2>1, GroupType DEF BlobType
  <2>3. PICK a : a = x[blob.metadata.parent]
    OBVIOUS
  <2>4. a \in ResultType
    BY <1>5, <2>2, <2>3
  <2>5. Append(a.chain, blob) \in Seq(scan.blobs)
    <3>1. blob \in scan.blobs /\ a.chain \in Seq(scan.blobs)
      BY <1>4, <1>5, <2>4 DEF ResultType
    <3> HIDE DEF blob
    <3> QED
      BY <3>1, AppendProperties
  <2>6. a.readiness \in {"Ready", "MissingParent", "DuplicateBlob", "CorruptBlob"}
    BY <2>4 DEF ResultType
  <2> HIDE DEF blob
  <2> QED
    BY <1>2, <2>3, <2>5, <2>6
<1>6. Turn(depot, v, c, x) =
        IF group = {} THEN Result("MissingParent", <<>>)
        ELSE IF Cardinality(group) # 1 THEN Result("DuplicateBlob", <<>>)
        ELSE IF blob.metadata = NoMetadata THEN Result("CorruptBlob", <<>>)
        ELSE IF blob.metadata.parent = 0 THEN Result("Ready", <<blob>>)
        ELSE IF v = 0 THEN Result("MissingParent", <<>>)
        ELSE LET a == x[blob.metadata.parent]
             IN  Result(a.readiness, Append(a.chain, blob))
  BY DEF Turn
<1> HIDE DEF group, blob
<1> QED
  BY <1>2, <1>3, <1>4, <1>5, <1>6

\* At version 0 there is no level above.
LEMMA TurnAtZero ==
  ASSUME NEW depot, NEW c, NEW x, NEW y
  PROVE  Turn(depot, 0, c, x) = Turn(depot, 0, c, y)
BY DEF Turn

\* The recursion over the versions defines a function.
LEMMA WalkExists ==
  ASSUME ScanInv, NEW depot
  PROVE  \E w \in [Version -> [Crc -> ResultType]] : Walk(depot, w)
<1> DEFINE S == [Crc -> ResultType]
           a == [c \in Crc |-> Turn(depot, 0, c, {})]
           step == [v \in 1 .. MaxVersion |-> [x \in S |-> [c \in Crc |-> Turn(depot, v, c, x)]]]
<1>1. MaxVersion \in Nat /\ 0 \in Version /\ \A v \in 1 .. MaxVersion : v \in Version
  BY BoundAssumption DEF Version
<1>2. a \in S
  BY <1>1, TurnType
<1>3. step \in [1 .. MaxVersion -> [S -> S]]
  <2>1. \A v \in 1 .. MaxVersion, x \in S, c \in Crc : Turn(depot, v, c, x) \in ResultType
    BY <1>1, TurnType
  <2>2. \A v \in 1 .. MaxVersion, x \in S : [c \in Crc |-> Turn(depot, v, c, x)] \in S
    BY <2>1
  <2> HIDE DEF S
  <2> QED
    BY <2>2
<1>4. PICK g \in [0 .. MaxVersion -> S] : Iterates(g, a, step, MaxVersion)
  <2> HIDE DEF S, a, step
  <2> QED
    BY <1>1, <1>2, <1>3, IterationExists
<1>5. ASSUME NEW v \in Version
      PROVE  g[v] = [c \in Crc |-> Turn(depot, v, c, g[v - 1])]
  <2>1. v \in 0 .. MaxVersion
    BY DEF Version
  <2>2. g[v] = IF v = 0 THEN a ELSE step[v][g[v - 1]]
    BY <1>4, <2>1 DEF Iterates
  <2>3. CASE v = 0
    <3>1. \A c \in Crc : Turn(depot, 0, c, {}) = Turn(depot, 0, c, g[v - 1])
      BY TurnAtZero
    <3> QED
      BY <2>2, <2>3, <3>1
  <2>4. CASE v # 0
    <3>1. v \in 1 .. MaxVersion /\ v - 1 \in 0 .. MaxVersion
      BY <1>1, <2>1, <2>4
    <3>2. g[v - 1] \in S
      BY <1>4, <3>1
    <3> HIDE DEF S, a
    <3> QED
      BY <2>2, <2>4, <3>1, <3>2
  <2> QED
    BY <2>3, <2>4
<1>6. Walk(depot, g)
  BY <1>4, <1>5 DEF Walk, Version
<1>7. g \in [Version -> [Crc -> ResultType]]
  BY <1>4 DEF Version
<1> QED
  BY <1>6, <1>7

\* There is one walk only.
LEMMA WalkUnique ==
  ASSUME NEW depot, NEW w, NEW g, Walk(depot, w), Walk(depot, g)
  PROVE  w = g
<1> DEFINE T == {v \in Version : w[v] # g[v]}
<1>1. T \in SUBSET Nat
  BY BoundAssumption DEF Version
<1>2. SUFFICES ASSUME T # {} PROVE FALSE
  <2>1. T = {} => \A v \in Version : w[v] = g[v]
    OBVIOUS
  <2>2. w = [v \in Version |-> w[v]] /\ g = [v \in Version |-> g[v]]
    BY DEF Walk
  <2> HIDE DEF T
  <2> QED
    BY <2>1, <2>2
<1> HIDE DEF T
<1>3. PICK v \in T : \A u \in T : v <= u
  BY <1>1, <1>2, NatLeast
<1>4. v \in Version /\ w[v] # g[v] /\ v \in Nat
  BY <1>1, <1>3 DEF T
<1>5. w[v] = [c \in Crc |-> Turn(depot, v, c, w[v - 1])]
  BY <1>4 DEF Walk
<1>6. g[v] = [c \in Crc |-> Turn(depot, v, c, g[v - 1])]
  BY <1>4 DEF Walk
<1>7. CASE v = 0
  <2>1. \A c \in Crc : Turn(depot, 0, c, w[v - 1]) = Turn(depot, 0, c, g[v - 1])
    BY TurnAtZero
  <2> QED
    BY <1>4, <1>5, <1>6, <1>7, <2>1
<1>8. CASE v # 0
  <2>1. v - 1 \in Version /\ ~(v <= v - 1)
    BY <1>4, <1>8, BoundAssumption DEF Version
  <2>2. w[v - 1] = g[v - 1]
    BY <1>3, <2>1 DEF T
  <2> QED
    BY <1>4, <1>5, <1>6, <2>2
<1> QED
  BY <1>7, <1>8

\* What the group of an identity makes of its result.
Level(depot, v, group, r) ==
    /\ group = {} => r.readiness = "MissingParent"
    /\ group # {} /\ Cardinality(group) # 1 => r.readiness = "DuplicateBlob"
    /\ \A b : group = {b} =>
          /\ b.metadata = NoMetadata => r.readiness = "CorruptBlob"
          /\ b.metadata # NoMetadata => b.metadata.parent \in Crc
          /\ b.metadata # NoMetadata /\ b.metadata.parent = 0 =>
                r.readiness = "Ready" /\ r.chain = <<b>>
          /\ b.metadata # NoMetadata /\ b.metadata.parent # 0 /\ v = 0 =>
                r.readiness = "MissingParent"
          /\ b.metadata # NoMetadata /\ b.metadata.parent # 0 /\ v # 0 =>
                \A a : a = Ancestry(depot, v - 1, b.metadata.parent) =>
                       r.readiness = a.readiness /\ r.chain = Append(a.chain, b)

\* Ancestry is what the group of its identity makes of the parent's ancestry.
LEMMA AncestryCases ==
  ASSUME ScanInv, NEW depot, NEW v \in Version, NEW c \in Crc,
         NEW group, group = Group(<<depot, v, c>>),
         NEW r, r = Ancestry(depot, v, c)
  PROVE  r \in ResultType /\ Level(depot, v, group, r)
<1> DEFINE walk == CHOOSE w : Walk(depot, w)
<1>1. PICK g \in [Version -> [Crc -> ResultType]] : Walk(depot, g)
  BY WalkExists
<1>2. Walk(depot, walk)
  BY <1>1
<1>3. walk = g
  <2> HIDE DEF walk
  <2> QED
    BY <1>1, <1>2, WalkUnique
<1>4. \A u, e : Ancestry(depot, u, e) = walk[u][e]
  BY DEF Ancestry, Walk, Turn
<1> HIDE DEF walk
<1>5. \A u, e : Ancestry(depot, u, e) = g[u][e]
  BY <1>3, <1>4
<1>6. r = Turn(depot, v, c, g[v - 1]) /\ r \in ResultType
  <2>1. g[v] = [e \in Crc |-> Turn(depot, v, e, g[v - 1])]
    BY <1>1 DEF Walk
  <2>2. g[v] \in [Crc -> ResultType]
    BY <1>1
  <2>3. g[v][c] = Turn(depot, v, c, g[v - 1])
    BY <2>1
  <2>4. g[v][c] \in ResultType
    BY <2>2
  <2> QED
    BY <1>5, <2>3, <2>4
<1>7. r = IF group = {} THEN Result("MissingParent", <<>>)
          ELSE IF Cardinality(group) # 1 THEN Result("DuplicateBlob", <<>>)
          ELSE LET blob == CHOOSE x \in group : TRUE
               IN  IF blob.metadata = NoMetadata THEN Result("CorruptBlob", <<>>)
                   ELSE IF blob.metadata.parent = 0 THEN Result("Ready", <<blob>>)
                   ELSE IF v = 0 THEN Result("MissingParent", <<>>)
                   ELSE LET a == g[v - 1][blob.metadata.parent]
                        IN  Result(a.readiness, Append(a.chain, blob))
  BY <1>6 DEF Turn
<1>8. \A q, ch : Result(q, ch).readiness = q /\ Result(q, ch).chain = ch
  BY DEF Result
<1>9. group = {} => r.readiness = "MissingParent"
  BY <1>7, <1>8
<1>10. group # {} /\ Cardinality(group) # 1 => r.readiness = "DuplicateBlob"
  BY <1>7, <1>8
<1>11. ASSUME NEW b, group = {b}
       PROVE  /\ b.metadata = NoMetadata => r.readiness = "CorruptBlob"
              /\ b.metadata # NoMetadata => b.metadata.parent \in Crc
              /\ b.metadata # NoMetadata /\ b.metadata.parent = 0 =>
                    r.readiness = "Ready" /\ r.chain = <<b>>
              /\ b.metadata # NoMetadata /\ b.metadata.parent # 0 /\ v = 0 =>
                    r.readiness = "MissingParent"
              /\ b.metadata # NoMetadata /\ b.metadata.parent # 0 /\ v # 0 =>
                    \A a : a = Ancestry(depot, v - 1, b.metadata.parent) =>
                           r.readiness = a.readiness /\ r.chain = Append(a.chain, b)
  <2>1. b \in group /\ (CHOOSE x \in group : TRUE) = b
    BY <1>11
  <2>2. Cardinality(group) = 1
    BY <1>11, GroupType
  <2>3. b.metadata # NoMetadata => b.metadata \in BlobType
    BY <2>1, GroupType
  <2>4. b.metadata # NoMetadata => b.metadata.parent \in Crc
    BY <2>3 DEF BlobType
  <2>5. r = IF b.metadata = NoMetadata THEN Result("CorruptBlob", <<>>)
            ELSE IF b.metadata.parent = 0 THEN Result("Ready", <<b>>)
            ELSE IF v = 0 THEN Result("MissingParent", <<>>)
            ELSE LET a == g[v - 1][b.metadata.parent]
                 IN  Result(a.readiness, Append(a.chain, b))
    BY <1>7, <2>1, <2>2
  <2>6. b.metadata = NoMetadata => r.readiness = "CorruptBlob"
    BY <1>8, <2>5
  <2>7. b.metadata # NoMetadata /\ b.metadata.parent = 0 => r.readiness = "Ready" /\ r.chain = <<b>>
    BY <2>5 DEF Result
  <2>8. b.metadata # NoMetadata /\ b.metadata.parent # 0 /\ v = 0 => r.readiness = "MissingParent"
    BY <1>8, <2>5
  <2>9. ASSUME b.metadata # NoMetadata, b.metadata.parent # 0, v # 0,
               NEW a, a = Ancestry(depot, v - 1, b.metadata.parent)
        PROVE  r.readiness = a.readiness /\ r.chain = Append(a.chain, b)
    <3>1. r = Result(a.readiness, Append(a.chain, b))
      BY <1>5, <2>5, <2>9
    <3> QED
      BY <3>1 DEF Result
  <2> QED
    BY <2>4, <2>6, <2>7, <2>8, <2>9
<1> QED
  BY <1>6, <1>9, <1>10, <1>11 DEF Level

\* A chain of records from a blob without a parent up to the revision, each of
\* them the only one with its identity.
RightChain(depot, v, c, ch) ==
    /\ ch \in Seq(scan.blobs) /\ Len(ch) # 0
    /\ \A i \in 1 .. Len(ch) :
          /\ Name[ch[i].path].depot = depot
          /\ Name[ch[i].path].version = v - (Len(ch) - i)
          /\ Group(IdentityOf(ch[i].path)) = {ch[i]}
          /\ ch[i].metadata \in BlobType /\ ch[i].metadata # NoMetadata
          /\ i = 1 => ch[i].metadata.parent = 0
          /\ i # 1 => /\ ch[i].metadata.parent # 0
                      /\ ch[i].metadata.parent = Name[ch[i - 1].path].crc
    /\ Name[ch[Len(ch)].path].crc = c

\* It is a sequence of records.
LEMMA RightChainType ==
  ASSUME NEW depot, NEW v, NEW c, NEW ch, RightChain(depot, v, c, ch)
  PROVE  /\ ch \in Seq(scan.blobs) /\ DOMAIN ch = 1 .. Len(ch) /\ Len(ch) \in Nat /\ Len(ch) # 0
         /\ \A i \in 1 .. Len(ch) : ch[i] \in scan.blobs
<1>1. ch \in Seq(scan.blobs) /\ Len(ch) # 0
  BY DEF RightChain
<1> QED
  BY <1>1

\* A chain of one, and a chain that grows.
LEMMA ShortChain ==
  ASSUME ScanInv, NEW depot, NEW v \in Version, NEW c, NEW b, Group(<<depot, v, c>>) = {b},
         b.metadata # NoMetadata, b.metadata.parent = 0
  PROVE  RightChain(depot, v, c, <<b>>)
<1>1. b \in Group(<<depot, v, c>>)
  OBVIOUS
<1>2. b \in scan.blobs /\ IdentityOf(b.path) = <<depot, v, c>> /\ b.metadata \in BlobType
  BY <1>1, GroupType DEF Group
<1>3. Name[b.path].depot = depot /\ Name[b.path].version = v /\ Name[b.path].crc = c
  BY <1>2 DEF IdentityOf
<1>4. PICK ch : ch = <<b>>
  OBVIOUS
<1>5. ch \in Seq(scan.blobs)
  BY <1>2, <1>4, OneElement
<1>6. Len(ch) = 1 /\ ch[1] = b
  BY <1>4
<1>7. v - (1 - 1) = v /\ \A i \in 1 .. 1 : i = 1
  BY BoundAssumption DEF Version
<1> QED
  BY <1>2, <1>3, <1>4, <1>5, <1>6, <1>7 DEF RightChain

\* A right chain with the blob that names its end as the parent.
LEMMA LongerChain ==
  ASSUME ScanInv, NEW depot, NEW v \in Version, NEW c, NEW b, Group(<<depot, v, c>>) = {b},
         b.metadata # NoMetadata, b.metadata.parent # 0, NEW ch,
         RightChain(depot, v - 1, b.metadata.parent, ch)
  PROVE  RightChain(depot, v, c, Append(ch, b))
<1>1. b \in Group(<<depot, v, c>>)
  OBVIOUS
<1>2. b \in scan.blobs /\ IdentityOf(b.path) = <<depot, v, c>> /\ b.metadata \in BlobType
  BY <1>1, GroupType DEF Group
<1>3. Name[b.path].depot = depot /\ Name[b.path].version = v /\ Name[b.path].crc = c
  BY <1>2 DEF IdentityOf
<1>4. PICK t : t = Append(ch, b)
  OBVIOUS
<1>5. PICK n : n = Len(ch)
  OBVIOUS
<1>6. /\ t \in Seq(scan.blobs) /\ n \in Nat /\ n # 0 /\ Len(t) = n + 1
      /\ \A i \in 1 .. n : t[i] = ch[i]
      /\ t[n + 1] = b
  BY <1>2, <1>4, <1>5, Appended DEF RightChain
<1>7. v \in Nat
  BY BoundAssumption DEF Version
<1>8. ASSUME NEW i \in 1 .. n + 1
      PROVE  /\ Name[t[i].path].depot = depot
             /\ Name[t[i].path].version = v - ((n + 1) - i)
             /\ Group(IdentityOf(t[i].path)) = {t[i]}
             /\ t[i].metadata \in BlobType /\ t[i].metadata # NoMetadata
             /\ i = 1 => t[i].metadata.parent = 0
             /\ i # 1 => /\ t[i].metadata.parent # 0
                         /\ t[i].metadata.parent = Name[t[i - 1].path].crc
  <2>1. CASE i = n + 1
    <3>1. i # 1 /\ i - 1 = n /\ t[i - 1] = ch[n] /\ v - ((n + 1) - i) = v
      BY <1>6, <1>7, <2>1
    <3>2. Name[ch[n].path].crc = b.metadata.parent
      BY <1>5 DEF RightChain
    <3> QED
      BY <1>2, <1>3, <1>6, <2>1, <3>1, <3>2
  <2>2. CASE i # n + 1
    <3>1. /\ i \in 1 .. n /\ t[i] = ch[i] /\ v - ((n + 1) - i) = (v - 1) - (n - i)
          /\ i # 1 => t[i - 1] = ch[i - 1]
      <4>1. i \in 1 .. n /\ i \in Nat /\ (i # 1 => i - 1 \in 1 .. n)
        BY <1>6, <2>2
      <4>2. v - ((n + 1) - i) = (v - 1) - (n - i)
        BY <1>6, <1>7, <4>1
      <4> QED
        BY <1>6, <4>1, <4>2
    <3>2. /\ Name[ch[i].path].depot = depot
          /\ Name[ch[i].path].version = (v - 1) - (n - i)
          /\ Group(IdentityOf(ch[i].path)) = {ch[i]}
          /\ ch[i].metadata \in BlobType /\ ch[i].metadata # NoMetadata
          /\ i = 1 => ch[i].metadata.parent = 0
          /\ i # 1 => /\ ch[i].metadata.parent # 0
                      /\ ch[i].metadata.parent = Name[ch[i - 1].path].crc
      BY <1>5, <3>1 DEF RightChain
    <3> QED
      BY <3>1, <3>2
  <2> QED
    BY <2>1, <2>2
<1>9. Len(t) # 0 /\ Name[t[Len(t)].path].crc = c
  BY <1>3, <1>6
<1>10. RightChain(depot, v, c, t)
  BY <1>6, <1>8, <1>9 DEF RightChain
<1> QED
  BY <1>4, <1>10

\* The chain of a revision whose ancestry is found is right.
LEMMA ReadyChain ==
  ASSUME ScanInv, NEW depot, NEW v \in Version, NEW c \in Crc,
         Ancestry(depot, v, c).readiness = "Ready"
  PROVE  RightChain(depot, v, c, Ancestry(depot, v, c).chain)
<1> DEFINE Wrong(u, e) == /\ Ancestry(depot, u, e).readiness = "Ready"
                          /\ ~RightChain(depot, u, e, Ancestry(depot, u, e).chain)
           T == {u \in Version : \E e \in Crc : Wrong(u, e)}
<1>1. T \in SUBSET Nat
  BY BoundAssumption DEF Version
<1>2. SUFFICES ASSUME T # {} PROVE FALSE
  <2>1. T = {} => ~Wrong(v, c)
    <3> HIDE DEF Wrong
    <3> QED
      OBVIOUS
  <2> HIDE DEF T
  <2> QED
    BY <2>1
<1> HIDE DEF T
<1>3. PICK u \in T : \A t \in T : u <= t
  BY <1>1, <1>2, NatLeast
<1>4. u \in Version /\ u \in Nat /\ \E e \in Crc : Wrong(u, e)
  BY <1>1, <1>3 DEF T
<1>5. PICK e \in Crc : Wrong(u, e)
  BY <1>4
<1>6. PICK r : r = Ancestry(depot, u, e)
  OBVIOUS
<1>7. PICK group : group = Group(<<depot, u, e>>)
  OBVIOUS
<1>8. Level(depot, u, group, r)
  BY <1>4, <1>6, <1>7, AncestryCases
<1>9. group # {} /\ Cardinality(group) = 1
  BY <1>5, <1>6, <1>8 DEF Level
<1>10. PICK b : group = {b}
  BY <1>7, <1>9, GroupType
<1>11. /\ b.metadata = NoMetadata => r.readiness = "CorruptBlob"
       /\ b.metadata # NoMetadata => b.metadata.parent \in Crc
       /\ b.metadata # NoMetadata /\ b.metadata.parent = 0 => r.chain = <<b>>
       /\ b.metadata # NoMetadata /\ b.metadata.parent # 0 /\ u = 0 => r.readiness = "MissingParent"
       /\ b.metadata # NoMetadata /\ b.metadata.parent # 0 /\ u # 0 =>
             \A a : a = Ancestry(depot, u - 1, b.metadata.parent) =>
                    r.readiness = a.readiness /\ r.chain = Append(a.chain, b)
  BY <1>8, <1>10 DEF Level
<1>12. b.metadata # NoMetadata
  BY <1>5, <1>6, <1>11
<1>13. CASE b.metadata.parent = 0
  BY <1>4, <1>5, <1>6, <1>7, <1>10, <1>11, <1>12, <1>13, ShortChain
<1>14. CASE b.metadata.parent # 0
  <2>1. u # 0
    BY <1>5, <1>6, <1>11, <1>12, <1>14
  <2>2. u - 1 \in Version /\ ~(u <= u - 1)
    BY <1>4, <2>1, BoundAssumption DEF Version
  <2>3. PICK a : a = Ancestry(depot, u - 1, b.metadata.parent)
    OBVIOUS
  <2>4. b.metadata.parent \in Crc /\ r.readiness = a.readiness /\ r.chain = Append(a.chain, b)
    BY <1>11, <1>12, <1>14, <2>1, <2>3
  <2>5. ~Wrong(u - 1, b.metadata.parent)
    <3> HIDE DEF Wrong
    <3> QED
      BY <1>3, <2>2, <2>4 DEF T
  <2>6. RightChain(depot, u - 1, b.metadata.parent, a.chain)
    BY <1>5, <1>6, <2>3, <2>4, <2>5
  <2>7. RightChain(depot, u, e, r.chain)
    BY <1>4, <1>7, <1>10, <1>12, <1>14, <2>4, <2>6, LongerChain
  <2> QED
    BY <1>5, <1>6, <2>7
<1> QED
  BY <1>13, <1>14

-----------------------------------------------------------------------------
(***************************************************************************)
(* What the window shows.                                                  *)
(***************************************************************************)
\* The one DAT of a blob that has exactly one.
DatOf(b) == CHOOSE d \in DatsFor(b) : TRUE

\* The identity of a row: all of its parts are numbers.
LEMMA ListedType ==
  ASSUME ScanInv, NEW id \in Listed
  PROVE  /\ id[1] \in Nat /\ id[2] \in Version /\ id[3] \in Crc
         /\ id = <<id[1], id[2], id[3]>>
<1>1. PICK b \in scan.blobs : id = IdentityOf(b.path)
  BY DEF Listed
<1>2. b.path \in Path /\ Name[b.path].strict
  BY DEF ScanInv, ScanType, BlobRecord
<1>3. Name[b.path] \in NameType /\ Name[b.path].crc # NoCrc
  BY <1>2, NameTypeAssumption, StrictAssumption
<1> QED
  BY <1>1, <1>3 DEF IdentityOf, NameType

\* The DATs that fit a blob are records, and they can be counted.
LEMMA DatsForType ==
  ASSUME ScanInv, NEW b
  PROVE  /\ DatsFor(b) \in SUBSET scan.dats
         /\ Cardinality(DatsFor(b)) \in Nat
         /\ Cardinality(DatsFor(b)) = 0 <=> DatsFor(b) = {}
         /\ Cardinality(DatsFor(b)) = 1 <=> \E d : DatsFor(b) = {d}
         /\ \A d \in DatsFor(b) : d \in DatRecord /\ d.size = b.metadata.datSize
<1>1. DatsFor(b) \in SUBSET scan.dats /\ \A d \in DatsFor(b) : d.size = b.metadata.datSize
  BY DEF DatsFor
<1>2. IsFiniteSet(DatsFor(b))
  BY <1>1, FS_Subset DEF ScanInv
<1>3. PICK D : D = DatsFor(b)
  OBVIOUS
<1>4. Cardinality(D) \in Nat /\ (Cardinality(D) = 0 <=> D = {})
  BY <1>2, <1>3, FS_CardinalityType, FS_EmptySet
<1>5. Cardinality(D) = 1 <=> \E d : D = {d}
  BY <1>2, <1>3, FS_Singleton
<1>6. \A d \in D : d \in DatRecord
  BY <1>1, <1>3 DEF ScanInv, ScanType
<1> QED
  BY <1>1, <1>3, <1>4, <1>5, <1>6

\* A row is ready if and only if its ancestry is found, the sizes do not
\* overflow, each blob has one DAT, and the depot has a key.
LEMMA ReadyMeans ==
  ASSUME ScanInv, NEW id, NEW r, r = Ancestry(id[1], id[2], id[3])
  PROVE  Readiness(id) = "Ready" <=>
            /\ r.readiness = "Ready"
            /\ ~TotalOverflows(r.chain)
            /\ \A i \in DOMAIN r.chain : Cardinality(DatsFor(r.chain[i])) = 1
            /\ id[1] \in Keyed
<1> DEFINE matches == {Cardinality(DatsFor(r.chain[i])) : i \in DOMAIN r.chain}
<1>1. Readiness(id) = IF r.readiness # "Ready" THEN r.readiness
                      ELSE IF TotalOverflows(r.chain) THEN "CorruptBlob"
                      ELSE IF \E n \in matches : n > 1 THEN "AmbiguousDat"
                      ELSE IF 0 \in matches THEN "MissingDat"
                      ELSE IF id[1] \notin Keyed THEN "MissingKey"
                      ELSE "Ready"
  BY DEF Readiness
<1>2. \A i \in DOMAIN r.chain : Cardinality(DatsFor(r.chain[i])) \in Nat
  BY DatsForType
<1>3. ((\A n \in matches : ~(n > 1)) /\ 0 \notin matches) <=>
          \A i \in DOMAIN r.chain : Cardinality(DatsFor(r.chain[i])) = 1
  <2>1. \A n \in Nat : n = 1 <=> (~(n > 1) /\ n # 0)
    OBVIOUS
  <2>2. \A i \in DOMAIN r.chain : Cardinality(DatsFor(r.chain[i])) = 1 <=>
            (~(Cardinality(DatsFor(r.chain[i])) > 1) /\ Cardinality(DatsFor(r.chain[i])) # 0)
    BY <1>2, <2>1
  <2> QED
    BY <2>2
<1> HIDE DEF matches
<1> QED
  BY <1>1, <1>3

\* Each blob of a chain has one DAT.
OneDatEach(ch) ==
    \A i \in 1 .. Len(ch) : DatsFor(ch[i]) = {DatOf(ch[i])} /\ DatOf(ch[i]) \in scan.dats

\* The files of a row that is ready.
LEMMA ReadyRow ==
  ASSUME ScanInv, NEW id \in Listed, Readiness(id) = "Ready",
         NEW ch, ch = Ancestry(id[1], id[2], id[3]).chain
  PROVE  /\ RightChain(id[1], id[2], id[3], ch)
         /\ id[1] \in Keyed
         /\ OneDatEach(ch)
         /\ BlobFiles(id) = [i \in 1 .. Len(ch) |-> ch[i].path]
         /\ DatFiles(id) = [i \in 1 .. Len(ch) |-> DatOf(ch[i]).path]
         /\ WindowSpec(id).id = id[1] /\ WindowSpec(id).version = id[2]
         /\ WindowSpec(id).crc = id[3]
         /\ WindowSpec(id).blobFiles = {ch[i].path : i \in 1 .. Len(ch)}
         /\ WindowSpec(id).datFiles = {DatOf(ch[i]).path : i \in 1 .. Len(ch)}
<1>1. PICK r : r = Ancestry(id[1], id[2], id[3])
  OBVIOUS
<1>2. /\ r.readiness = "Ready" /\ id[1] \in Keyed
      /\ \A i \in DOMAIN ch : Cardinality(DatsFor(ch[i])) = 1
  BY <1>1, ReadyMeans
<1>3. RightChain(id[1], id[2], id[3], ch)
  BY <1>1, <1>2, ListedType, ReadyChain
<1>4. DOMAIN ch = 1 .. Len(ch)
  BY <1>3, RightChainType
<1>5. ASSUME NEW i \in 1 .. Len(ch)
      PROVE  DatsFor(ch[i]) = {DatOf(ch[i])} /\ DatOf(ch[i]) \in scan.dats
  <2>1. PICK d : DatsFor(ch[i]) = {d}
    BY <1>2, <1>4, <1>5, DatsForType
  <2>2. DatOf(ch[i]) = d
    BY <2>1 DEF DatOf
  <2>3. d \in scan.dats
    BY <2>1, DatsForType
  <2> QED
    BY <2>1, <2>2, <2>3
<1>6. BlobFiles(id) = [i \in 1 .. Len(ch) |-> ch[i].path]
  BY <1>4 DEF BlobFiles
<1>7. DatFiles(id) = [i \in 1 .. Len(ch) |-> DatOf(ch[i]).path]
  BY <1>4 DEF DatFiles, DatOf
<1>8. /\ WindowSpec(id).id = id[1] /\ WindowSpec(id).version = id[2]
      /\ WindowSpec(id).crc = id[3]
      /\ WindowSpec(id).blobFiles = {BlobFiles(id)[i] : i \in DOMAIN BlobFiles(id)}
      /\ WindowSpec(id).datFiles = {DatFiles(id)[i] : i \in DOMAIN DatFiles(id)}
  BY DEF WindowSpec
<1>9. /\ WindowSpec(id).blobFiles = {ch[i].path : i \in 1 .. Len(ch)}
      /\ WindowSpec(id).datFiles = {DatOf(ch[i]).path : i \in 1 .. Len(ch)}
  BY <1>6, <1>7, <1>8
<1>10. OneDatEach(ch)
  BY <1>5 DEF OneDatEach
<1> QED
  BY <1>2, <1>3, <1>6, <1>7, <1>8, <1>9, <1>10

\* What the window puts into the build is a spec.
LEMMA WindowSpecType ==
  ASSUME ScanInv, NEW id \in Listed, Readiness(id) = "Ready"
  PROVE  WindowSpec(id) \in SpecType
<1>1. PICK ch : ch = Ancestry(id[1], id[2], id[3]).chain
  OBVIOUS
<1>2. PICK s : s = WindowSpec(id)
  OBVIOUS
<1>3. /\ s.id = id[1] /\ s.version = id[2] /\ s.crc = id[3]
      /\ s.blobFiles = {ch[i].path : i \in 1 .. Len(ch)}
      /\ s.datFiles = {DatOf(ch[i]).path : i \in 1 .. Len(ch)}
      /\ RightChain(id[1], id[2], id[3], ch) /\ OneDatEach(ch)
  BY <1>1, <1>2, ReadyRow
<1>4. \A i \in 1 .. Len(ch) : ch[i] \in scan.blobs /\ DatOf(ch[i]) \in scan.dats
  BY <1>3, RightChainType DEF OneDatEach
<1>5. (\A b \in scan.blobs : b.path \in Path) /\ (\A d \in scan.dats : d.path \in Path)
  BY DEF ScanInv, ScanType, BlobRecord, DatRecord
<1>6. s.blobFiles \in SUBSET Path /\ s.datFiles \in SUBSET Path
  BY <1>3, <1>4, <1>5
<1>7. s = [id |-> s.id, version |-> s.version, crc |-> s.crc, blobFiles |-> s.blobFiles,
           datFiles |-> s.datFiles, blobFolder |-> NoPath, datFolder |-> NoPath]
  BY <1>2 DEF WindowSpec
<1>8. s \in SpecType
  BY <1>3, <1>6, <1>7, ListedType DEF SpecType
<1> QED
  BY <1>2, <1>8

-----------------------------------------------------------------------------
(***************************************************************************)
(* A load of what the window shows.                                        *)
(***************************************************************************)
\* The chain ch with the DATs in dats is what the spec asks for, its files are
\* on the disk and are what the chain says of them.
Shows(spec, ch, dats) ==
    /\ Len(ch) \in Nat /\ Len(ch) # 0
    /\ spec.id \in Keyed /\ spec.version \in Nat
    /\ spec.blobFiles = {ch[i].path : i \in 1 .. Len(ch)}
    /\ spec.datFiles = {dats[i] : i \in 1 .. Len(ch)}
    /\ Name[ch[Len(ch)].path].crc = spec.crc
    /\ \A i \in 1 .. Len(ch) :
          /\ ch[i].path \in Path /\ Loadable(ch[i].path)
          /\ Name[ch[i].path].kind = "blob" /\ Name[ch[i].path].depot = spec.id
          /\ Name[ch[i].path].version = spec.version - (Len(ch) - i)
          /\ Name[ch[i].path].version \in Nat
          /\ disk[ch[i].path] = ch[i].metadata /\ ch[i].metadata \in BlobType
          /\ ch[i].metadata.manifest # Malformed
          /\ i = 1 => ch[i].metadata.parent = 0
          /\ i # 1 => /\ ch[i].metadata.parent # 0
                      /\ ch[i].metadata.parent = Name[ch[i - 1].path].crc
    /\ \A i \in 1 .. Len(ch) :
          /\ dats[i] \in Path /\ Present(dats[i])
          /\ Name[dats[i]].kind = "dat" /\ Name[dats[i]].depot = spec.id
          /\ Name[dats[i]].version = Name[ch[i].path].version
          /\ disk[dats[i]].size = ch[i].metadata.datSize

\* A row that is ready and whose files are as the scan saw them.
LEMMA ShownRow ==
  ASSUME ScanInv, NEW id \in Listed, Readiness(id) = "Ready",
         NEW spec, spec = WindowSpec(id), Settled(spec.blobFiles \cup spec.datFiles),
         NEW ch, ch = Ancestry(id[1], id[2], id[3]).chain, NEW dats, dats = DatFiles(id)
  PROVE  Shows(spec, ch, dats)
<1> DEFINE k == Len(ch)
<1>1. /\ RightChain(id[1], id[2], id[3], ch) /\ id[1] \in Keyed
      /\ \A i \in 1 .. k : DatsFor(ch[i]) = {DatOf(ch[i])} /\ DatOf(ch[i]) \in scan.dats
      /\ dats = [i \in 1 .. k |-> DatOf(ch[i]).path]
      /\ spec.id = id[1] /\ spec.version = id[2] /\ spec.crc = id[3]
      /\ spec.blobFiles = {ch[i].path : i \in 1 .. k}
      /\ spec.datFiles = {DatOf(ch[i]).path : i \in 1 .. k}
  <2>1. PICK w : w = WindowSpec(id)
    OBVIOUS
  <2>2. RightChain(id[1], id[2], id[3], ch) /\ id[1] \in Keyed /\ OneDatEach(ch)
    BY ReadyRow
  <2>4. DatFiles(id) = [i \in 1 .. Len(ch) |-> DatOf(ch[i]).path]
    BY ReadyRow
  <2>3. /\ w.id = id[1] /\ w.version = id[2] /\ w.crc = id[3]
        /\ w.blobFiles = {ch[i].path : i \in 1 .. Len(ch)}
        /\ w.datFiles = {DatOf(ch[i]).path : i \in 1 .. Len(ch)}
    BY <2>1, ReadyRow
  <2> QED
    BY <2>1, <2>2, <2>3, <2>4 DEF OneDatEach
<1>2. /\ ch \in Seq(scan.blobs) /\ k \in Nat /\ k # 0
      /\ \A i \in 1 .. k : ch[i] \in scan.blobs
  BY <1>1, RightChainType
<1>3. spec.version \in Nat
  BY <1>1, ListedType, BoundAssumption DEF Version
<1> HIDE DEF k
<1>4. ASSUME NEW i \in 1 .. k
      PROVE  /\ ch[i].path \in Path /\ Loadable(ch[i].path)
             /\ Name[ch[i].path].kind = "blob" /\ Name[ch[i].path].depot = spec.id
             /\ Name[ch[i].path].version = spec.version - (k - i)
             /\ Name[ch[i].path].version \in Nat
             /\ disk[ch[i].path] = ch[i].metadata /\ ch[i].metadata \in BlobType
             /\ ch[i].metadata.manifest # Malformed
             /\ i = 1 => ch[i].metadata.parent = 0
             /\ i # 1 => /\ ch[i].metadata.parent # 0
                         /\ ch[i].metadata.parent = Name[ch[i - 1].path].crc
  <2>1. /\ Name[ch[i].path].depot = spec.id
        /\ Name[ch[i].path].version = spec.version - (k - i)
        /\ ch[i].metadata \in BlobType /\ ch[i].metadata # NoMetadata
        /\ i = 1 => ch[i].metadata.parent = 0
        /\ i # 1 => /\ ch[i].metadata.parent # 0
                    /\ ch[i].metadata.parent = Name[ch[i - 1].path].crc
    BY <1>1 DEF RightChain, k
  <2>2. ch[i] \in scan.blobs /\ ch[i].path \in Path /\ Name[ch[i].path].kind = "blob"
    BY <1>2 DEF ScanInv, ScanType, BlobRecord
  <2>3. ch[i].path \in Path \ touched
    <3>1. ch[i].path \in spec.blobFiles
      BY <1>1
    <3> QED
      BY <2>2, <3>1 DEF Settled
  <2>4. ch[i].metadata = MetadataOf(ch[i].path)
    BY <2>2, <2>3 DEF ScanInv, RecordsRight
  <2>5. /\ Loadable(ch[i].path) /\ disk[ch[i].path] = ch[i].metadata
        /\ ch[i].metadata.manifest # Malformed
    BY <2>1, <2>4 DEF MetadataOf, Inspectable
  <2>6. Name[ch[i].path].version \in Nat
    BY <2>2, NameTypeAssumption, BoundAssumption DEF NameType, Version
  <2> QED
    BY <2>1, <2>2, <2>5, <2>6
<1>5. ASSUME NEW i \in 1 .. k
      PROVE  /\ dats[i] \in Path /\ Present(dats[i])
             /\ Name[dats[i]].kind = "dat" /\ Name[dats[i]].depot = spec.id
             /\ Name[dats[i]].version = Name[ch[i].path].version
             /\ disk[dats[i]].size = ch[i].metadata.datSize
  <2>1. PICK d : d = DatOf(ch[i])
    OBVIOUS
  <2>2. d \in scan.dats /\ d \in DatsFor(ch[i]) /\ d.path = dats[i] /\ dats[i] \in spec.datFiles
    BY <1>1, <2>1
  <2>3. d.path \in Path /\ Name[d.path].kind = "dat"
    BY <2>2 DEF ScanInv, ScanType, DatRecord
  <2>4. d.path \in Path \ touched
    BY <2>2, <2>3 DEF Settled
  <2>5. Present(d.path) /\ d.size = disk[d.path].size
    BY <2>2, <2>4 DEF ScanInv, RecordsRight
  <2>6. /\ Name[d.path].depot = Name[ch[i].path].depot
        /\ Name[d.path].version = Name[ch[i].path].version
        /\ d.size = ch[i].metadata.datSize
    BY <2>2 DEF DatsFor
  <2> QED
    BY <1>4, <2>2, <2>3, <2>5, <2>6
<1>6. spec.datFiles = {dats[i] : i \in 1 .. k}
  BY <1>1
<1>7. Name[ch[k].path].crc = spec.crc
  BY <1>1 DEF RightChain, k
<1> QED
  BY <1>1, <1>2, <1>3, <1>4, <1>5, <1>6, <1>7 DEF Shows, k

\* There is one blob and one DAT for each version.
LEMMA OneOfEach ==
  ASSUME NEW spec, NEW ch, NEW dats, Shows(spec, ch, dats), NEW i \in 1 .. Len(ch)
  PROVE  /\ {q \in spec.blobFiles : Name[q].version = Name[ch[i].path].version} = {ch[i].path}
         /\ {q \in spec.datFiles : Name[q].version = Name[ch[i].path].version} = {dats[i]}
<1>1. ASSUME NEW j \in 1 .. Len(ch), Name[ch[j].path].version = Name[ch[i].path].version
      PROVE  j = i
  <2>1. /\ Name[ch[i].path].version = spec.version - (Len(ch) - i)
        /\ Name[ch[j].path].version = spec.version - (Len(ch) - j)
        /\ Len(ch) \in Nat /\ spec.version \in Nat
    BY DEF Shows
  <2> QED
    BY <1>1, <2>1
<1>2. spec.blobFiles = {ch[j].path : j \in 1 .. Len(ch)} /\ spec.datFiles = {dats[j] : j \in 1 .. Len(ch)}
  BY DEF Shows
<1>3. \A j \in 1 .. Len(ch) : Name[dats[j]].version = Name[ch[j].path].version
  BY DEF Shows
<1>4. \A q \in spec.blobFiles : Name[q].version = Name[ch[i].path].version <=> q = ch[i].path
  BY <1>1, <1>2
<1>5. \A q \in spec.datFiles : Name[q].version = Name[ch[i].path].version <=> q = dats[i]
  BY <1>1, <1>2, <1>3
<1> QED
  BY <1>2, <1>4, <1>5

\* What the scan does not look into.
Unforeseen == {"open", "tables", "paths"}

\* How far the load of a shown revision has got: it takes the chain as it is.
Follows(l, ch, dats) ==
    /\ l.pc = "failed" => l.error \in Unforeseen
    /\ l.pc \notin {"idle", "blobs"} => l.candidates = l.spec.blobFiles
    /\ Len(l.chain) <= Len(ch)
    /\ \A i \in 1 .. Len(l.chain) : /\ l.chain[i].path = ch[Len(ch) + 1 - i].path
                                    /\ l.chain[i].blob = ch[Len(ch) + 1 - i].metadata
    /\ l.pc = "ancestry" => /\ Len(l.chain) < Len(ch)
                            /\ l.next = ch[Len(ch) - Len(l.chain)].path
    /\ l.pc \in {"dats", "pair", "loaded"} => Len(l.chain) = Len(ch)
    /\ l.pc \in {"pair", "loaded"} => l.dats = l.spec.datFiles
    /\ \A i \in 1 .. Len(l.sources) : l.sources[i] = dats[i]

\* A failure over what the scan has not seen changes nothing else.
LEMMA UnforeseenFail ==
  ASSUME LoadInv, NEW ch, NEW dats, Follows(load, ch, dats), load.pc \in {"pair"},
         NEW e \in Unforeseen, Fail(e), NEW l, l = load'
  PROVE  Follows(l, ch, dats)
<1>1. l = [load EXCEPT !.pc = "failed", !.error = e] /\ load \in LoadType
  BY DEF Fail, LoadInv, LoadOK
<1>2. /\ l.pc = "failed" /\ l.error = e /\ l.spec = load.spec
      /\ l.candidates = load.candidates
      /\ l.chain = load.chain /\ l.dats = load.dats /\ l.sources = load.sources
  BY <1>1 DEF LoadType
<1> QED
  BY <1>2 DEF Follows

\* Discovery takes all the blobs that are shown.
LEMMA FollowBlobs ==
  ASSUME LoadInv, NEW ch, NEW dats, Follows(load, ch, dats), Shows(load.spec, ch, dats),
         DiscoverBlobs, NEW l, l = load'
  PROVE  Follows(l, ch, dats)
<1>1. load \in LoadType /\ load.pc = "blobs" /\ Len(load.chain) = 0 /\ Len(load.sources) = 0
  BY DEF LoadInv, LoadOK, ChainOK, SourcesOK, DiscoverBlobs
<1>2. PICK files : files = load.spec.blobFiles
  OBVIOUS
<1>3. \A p \in files : /\ Present(p) /\ Names(p, "blob") /\ p \in Path
                       /\ Name[p].version <= load.spec.version
  <2>1. \A i \in 1 .. Len(ch) : Name[ch[i].path].version <= load.spec.version
    <3>1. \A i \in 1 .. Len(ch) : load.spec.version - (Len(ch) - i) <= load.spec.version
      BY DEF Shows
    <3> QED
      BY <3>1 DEF Shows
  <2> QED
    BY <1>2, <2>1 DEF Shows, Loadable, Names
<1>4. files # {}
  <2>1. 1 \in 1 .. Len(ch)
    BY DEF Shows
  <2>2. files = {ch[i].path : i \in 1 .. Len(ch)}
    BY <1>2 DEF Shows
  <2> QED
    BY <2>1, <2>2
<1>5. l = [load EXCEPT !.pc = "top",
              !.candidates = {p \in Found(files, "blob", load.spec.blobFolder) :
                                  Name[p].version <= load.spec.version}]
  BY <1>2, <1>3, <1>4 DEF DiscoverBlobs, ExactFilesUsable, MayFail, Continue
<1>6. {p \in Found(files, "blob", load.spec.blobFolder) : Name[p].version <= load.spec.version}
        = files
  BY <1>3, <1>4 DEF Found
<1>7. /\ l.pc = "top" /\ l.spec = load.spec /\ l.candidates = files
      /\ l.chain = load.chain /\ l.sources = load.sources
  BY <1>1, <1>5, <1>6 DEF LoadType
<1>8. 0 <= Len(ch)
  BY DEF Shows
<1> QED
  BY <1>1, <1>2, <1>7, <1>8 DEF Follows

\* The top is the revision that is shown.
LEMMA FollowTop ==
  ASSUME LoadInv, NEW ch, NEW dats, Follows(load, ch, dats), Shows(load.spec, ch, dats),
         ChooseTop, NEW l, l = load'
  PROVE  Follows(l, ch, dats)
<1>1. /\ load \in LoadType /\ load.pc = "top" /\ Len(load.chain) = 0 /\ Len(load.sources) = 0
      /\ load.candidates = load.spec.blobFiles
  BY DEF LoadInv, LoadOK, ChainOK, SourcesOK, ChooseTop, Follows
<1>2. PICK k : k = Len(ch)
  OBVIOUS
<1>3. k \in 1 .. Len(ch) /\ k \in Nat /\ k # 0 /\ 0 < k /\ k - 0 = k /\ 0 <= k
  BY <1>2 DEF Shows
<1>4. Name[ch[k].path].version = load.spec.version /\ Name[ch[k].path].crc = load.spec.crc
  <2>1. load.spec.version - (k - k) = load.spec.version
    BY <1>3 DEF Shows
  <2> QED
    BY <1>2, <1>3, <2>1 DEF Shows
<1>5. TopMatches = {ch[k].path}
  <2>1. {q \in load.candidates : Name[q].version = load.spec.version} = {ch[k].path}
    BY <1>1, <1>3, <1>4, OneOfEach
  <2> QED
    BY <1>4, <2>1 DEF TopMatches
<1>6. Cardinality(TopMatches) = 1
  BY <1>5, FS_Singleton
<1>7. l = [load EXCEPT !.pc = "ancestry", !.next = ch[k].path]
  BY <1>5, <1>6 DEF ChooseTop, Continue
<1>8. /\ l.pc = "ancestry" /\ l.spec = load.spec /\ l.candidates = load.candidates
      /\ l.next = ch[k].path /\ l.chain = load.chain /\ l.sources = load.sources
  BY <1>1, <1>7 DEF LoadType
<1> QED
  BY <1>1, <1>2, <1>3, <1>8 DEF Follows

\* Each blob of the chain is read in its turn, and the next one is its parent.
LEMMA FollowRead ==
  ASSUME LoadInv, NEW ch, NEW dats, Follows(load, ch, dats), Shows(load.spec, ch, dats),
         ReadBlob, NEW l, l = load'
  PROVE  Follows(l, ch, dats)
<1> DEFINE p == load.next
           read == [load EXCEPT !.chain = Append(@, [path |-> p, blob |-> disk[p]])]
<1>1. PICK n : n = Len(load.chain)
  OBVIOUS
<1>2. PICK k : k = Len(ch)
  OBVIOUS
<1>3. /\ load \in LoadType /\ load.pc = "ancestry" /\ load.sources = <<>>
      /\ load.chain \in Seq(Entry) /\ load.candidates = load.spec.blobFiles
      /\ n \in Nat /\ k \in Nat /\ n < k /\ p = ch[k - n].path
  <2>1. load \in LoadType /\ load.pc = "ancestry" /\ load.sources = <<>>
    BY DEF LoadInv, LoadOK, SourcesOK, ReadBlob
  <2>2. load.chain \in Seq(Entry)
    BY <2>1 DEF LoadType
  <2>3. n \in Nat
    BY <1>1, <2>2
  <2>4. load.candidates = load.spec.blobFiles /\ n < k /\ p = ch[k - n].path
    BY <1>1, <1>2, <2>1 DEF Follows
  <2>5. k \in Nat
    BY <1>2 DEF Shows
  <2> QED
    BY <2>1, <2>2, <2>3, <2>4, <2>5
<1>4. /\ k - n \in 1 .. k /\ (k - n # 1 => k - n - 1 \in 1 .. k) /\ n + 1 <= k
      /\ k + 1 - (n + 1) = k - n /\ k - (n + 1) = k - n - 1
      /\ (k - n # 1 => n + 1 < k) /\ (k - n = 1 => n + 1 = k)
  BY <1>3
<1>5. /\ p \in Path /\ Loadable(p) /\ disk[p] = ch[k - n].metadata /\ disk[p] \in BlobType
      /\ Name[p].version \in Nat
      /\ k - n = 1 => disk[p].parent = 0
      /\ k - n # 1 => disk[p].parent # 0 /\ disk[p].parent = Name[ch[k - n - 1].path].crc
  <2>1. PICK i \in 1 .. Len(ch) : i = k - n
    BY <1>2, <1>4
  <2>2. /\ ch[i].path \in Path /\ Loadable(ch[i].path)
        /\ disk[ch[i].path] = ch[i].metadata /\ ch[i].metadata \in BlobType
        /\ Name[ch[i].path].version \in Nat
        /\ i = 1 => ch[i].metadata.parent = 0
        /\ i # 1 => /\ ch[i].metadata.parent # 0
                    /\ ch[i].metadata.parent = Name[ch[i - 1].path].crc
    BY DEF Shows
  <2> QED
    BY <1>3, <2>1, <2>2
<1> HIDE DEF p
<1>6. PICK t : t = Append(load.chain, [path |-> p, blob |-> disk[p]])
  OBVIOUS
<1>7. /\ Len(t) = n + 1 /\ \A i \in 1 .. n : t[i] = load.chain[i]
      /\ t[n + 1] = [path |-> p, blob |-> disk[p]]
  <2>1. [path |-> p, blob |-> disk[p]] \in Entry
    BY <1>5 DEF Entry
  <2> QED
    BY <1>1, <1>3, <1>6, <2>1, Appended
<1>8. \A i \in 1 .. n + 1 : /\ t[i].path = ch[k + 1 - i].path
                            /\ t[i].blob = ch[k + 1 - i].metadata
  <2>1. \A i \in 1 .. n : /\ load.chain[i].path = ch[k + 1 - i].path
                          /\ load.chain[i].blob = ch[k + 1 - i].metadata
    BY <1>1, <1>2 DEF Follows
  <2>2. /\ t[n + 1].path = ch[k + 1 - (n + 1)].path
        /\ t[n + 1].blob = ch[k + 1 - (n + 1)].metadata
    BY <1>3, <1>4, <1>5, <1>7
  <2>3. \A i \in 1 .. n + 1 : i \in 1 .. n \/ i = n + 1
    BY <1>3
  <2> QED
    BY <1>7, <2>1, <2>2, <2>3
<1>9. CASE k - n = 1
  <2>1. Continue([read EXCEPT !.pc = "dats"])
    BY <1>5, <1>9 DEF ReadBlob, p
  <2>2. /\ l.pc = "dats" /\ l.spec = load.spec /\ l.candidates = load.candidates
        /\ l.chain = t /\ l.sources = load.sources
    BY <1>3, <1>6, <2>1 DEF Continue, LoadType
  <2> QED
    BY <1>2, <1>3, <1>4, <1>7, <1>8, <1>9, <2>2 DEF Follows
<1>10. CASE k - n # 1
  <2>1. PICK q : q = ch[k - n - 1].path
    OBVIOUS
  <2>2. ParentsOf(p, disk[p].parent) = {q}
    <3>1. Name[q].version = Name[p].version - 1
      <4>1. /\ Name[q].version = load.spec.version - (k - (k - n - 1))
            /\ Name[p].version = load.spec.version - (k - (k - n))
            /\ load.spec.version \in Nat
        BY <1>2, <1>3, <1>4, <1>10, <2>1 DEF Shows
      <4> QED
        BY <1>3, <4>1
    <3>2. {c \in load.candidates : Name[c].version = Name[q].version} = {q}
      <4>1. PICK i \in 1 .. Len(ch) : i = k - n - 1
        BY <1>2, <1>4, <1>10
      <4>2. {c \in load.spec.blobFiles : Name[c].version = Name[ch[i].path].version} = {ch[i].path}
        BY OneOfEach
      <4> QED
        BY <1>3, <2>1, <4>1, <4>2
    <3>3. Name[q].crc = disk[p].parent
      BY <1>5, <1>10, <2>1
    <3> QED
      BY <3>1, <3>2, <3>3 DEF ParentsOf
  <2>3. Name[p].version # 0
    <3>1. /\ Name[q].version \in Nat
          /\ Name[q].version = load.spec.version - (k - (k - n - 1))
          /\ Name[p].version = load.spec.version - (k - (k - n))
          /\ load.spec.version \in Nat
      BY <1>2, <1>3, <1>4, <1>10, <2>1 DEF Shows
    <3> QED
      BY <1>3, <3>1
  <2>4. Cardinality({q}) = 1
    BY FS_Singleton
  <2>5. Continue([read EXCEPT !.next = q])
    BY <1>5, <1>10, <2>2, <2>3, <2>4 DEF ReadBlob, p
  <2>6. /\ l.pc = "ancestry" /\ l.spec = load.spec /\ l.candidates = load.candidates
        /\ l.chain = t /\ l.sources = load.sources /\ l.next = q
    BY <1>3, <1>6, <2>5 DEF Continue, LoadType
  <2> QED
    BY <1>2, <1>3, <1>4, <1>7, <1>8, <1>10, <2>1, <2>6, SMTT(30) DEF Follows
<1> QED
  BY <1>9, <1>10

\* Discovery takes all the DATs that are shown.
LEMMA FollowDats ==
  ASSUME LoadInv, NEW ch, NEW dats, Follows(load, ch, dats), Shows(load.spec, ch, dats),
         DiscoverDats, NEW l, l = load'
  PROVE  Follows(l, ch, dats)
<1>1. load \in LoadType /\ load.pc = "dats"
  BY DEF LoadInv, LoadOK, DiscoverDats
<1>2. PICK files : files = load.spec.datFiles
  OBVIOUS
<1>3. files # {} /\ \A p \in files : Present(p) /\ Names(p, "dat")
  BY <1>2 DEF Shows, Names
<1>4. l = [load EXCEPT !.pc = "pair", !.dats = files]
  BY <1>2, <1>3 DEF DiscoverDats, ExactFilesUsable, MayFail, Found, Continue
<1>5. /\ l.pc = "pair" /\ l.spec = load.spec /\ l.candidates = load.candidates
      /\ l.chain = load.chain /\ l.sources = load.sources /\ l.dats = files
  BY <1>1, <1>4 DEF LoadType
<1> QED
  BY <1>1, <1>2, <1>5 DEF Follows

\* Each blob has the one DAT that the window has found for it.
LEMMA FollowPair ==
  ASSUME LoadInv, NEW ch, NEW dats, Follows(load, ch, dats), Shows(load.spec, ch, dats),
         Pair, NEW l, l = load'
  PROVE  Follows(l, ch, dats)
<1>1. PICK m : m = Len(load.sources)
  OBVIOUS
<1>2. PICK k : k = Len(ch)
  OBVIOUS
<1>3. /\ load \in LoadType /\ load.pc = "pair" /\ load.sources \in Seq(Path)
      /\ m \in Nat /\ k \in Nat /\ m < k /\ Len(load.chain) = k
      /\ load.dats = load.spec.datFiles
  <2>1. load \in LoadType /\ load.pc = "pair" /\ Len(load.sources) < Len(load.chain)
    BY DEF LoadInv, LoadOK, Pair
  <2>2. load.sources \in Seq(Path)
    BY <2>1 DEF LoadType
  <2>3. m \in Nat
    BY <1>1, <2>2
  <2>4. Len(load.chain) = k /\ load.dats = load.spec.datFiles
    BY <1>2, <2>1 DEF Follows
  <2>5. k \in Nat
    BY <1>2 DEF Shows
  <2> QED
    BY <1>1, <2>1, <2>2, <2>3, <2>4, <2>5
<1>4. m + 1 \in 1 .. k /\ k - m \in 1 .. k /\ k + 1 - (k - m) = m + 1
  BY <1>3
<1>5. PICK entry : entry = Unpaired
  OBVIOUS
<1>6. entry.path = ch[m + 1].path /\ entry.blob = ch[m + 1].metadata
  BY <1>1, <1>2, <1>3, <1>4, <1>5 DEF Unpaired, Follows
<1>7. PICK d : d = dats[m + 1]
  OBVIOUS
<1>8. /\ d \in Path /\ Present(d) /\ disk[d].size = entry.blob.datSize
      /\ Sized(entry.path) = {d}
  <2>1. PICK i \in 1 .. Len(ch) : i = m + 1
    BY <1>2, <1>4
  <2>2. dats[i] \in Path /\ Present(dats[i]) /\ disk[dats[i]].size = ch[i].metadata.datSize
    BY DEF Shows
  <2>3. {q \in load.spec.datFiles : Name[q].version = Name[ch[i].path].version} = {dats[i]}
    BY OneOfEach
  <2> QED
    BY <1>3, <1>6, <1>7, <2>1, <2>2, <2>3 DEF Sized
<1>9. DatMatches(entry) = {d}
  BY <1>8 DEF DatMatches
<1>10. Cardinality({d}) = 1
  BY FS_Singleton
<1>11. \/ Fail("open") \/ Fail("tables")
       \/ Continue([load EXCEPT !.sources = Append(@, d),
                                !.mappings = Overlay(@, entry.blob.table, d)])
  BY <1>5, <1>8, <1>9, <1>10 DEF Pair
<1>12. CASE Fail("open") \/ Fail("tables")
  BY <1>3, <1>12, UnforeseenFail DEF Unforeseen
<1>13. CASE Continue([load EXCEPT !.sources = Append(@, d),
                                  !.mappings = Overlay(@, entry.blob.table, d)])
  <2>1. PICK t : t = Append(load.sources, d)
    OBVIOUS
  <2>2. /\ l.pc = "pair" /\ l.spec = load.spec /\ l.candidates = load.candidates
        /\ l.chain = load.chain /\ l.dats = load.dats /\ l.sources = t
    BY <1>3, <1>13, <2>1 DEF Continue, LoadType
  <2>3. Len(t) = m + 1 /\ (\A i \in 1 .. m : t[i] = load.sources[i]) /\ t[m + 1] = d
    BY <1>1, <1>3, <1>8, <2>1, Appended
  <2>4. \A i \in 1 .. m + 1 : i \in 1 .. m \/ i = m + 1
    BY <1>3
  <2>5. \A i \in 1 .. m + 1 : t[i] = dats[i]
    BY <1>1, <1>7, <2>3, <2>4 DEF Follows
  <2>6. \A i \in 1 .. Len(l.chain) : /\ l.chain[i].path = ch[Len(ch) + 1 - i].path
                                      /\ l.chain[i].blob = ch[Len(ch) + 1 - i].metadata
    BY <2>2 DEF Follows
  <2>7. \A i \in 1 .. Len(l.sources) : l.sources[i] = dats[i]
    BY <2>2, <2>3, <2>5
  <2>8. l.candidates = l.spec.blobFiles /\ l.dats = l.spec.datFiles /\ Len(l.chain) = Len(ch)
    BY <1>2, <1>3, <2>2 DEF Follows
  <2> QED
    BY <1>2, <1>3, <2>2, <2>6, <2>7, <2>8 DEF Follows
<1> QED
  BY <1>11, <1>12, <1>13

\* The manifest of the top blob has been read by the scan.
LEMMA FollowFinish ==
  ASSUME LoadInv, NEW ch, NEW dats, Follows(load, ch, dats), Shows(load.spec, ch, dats),
         Finish, NEW l, l = load'
  PROVE  Follows(l, ch, dats)
<1>1. PICK k : k = Len(ch)
  OBVIOUS
<1>2. /\ load \in LoadType /\ load.pc = "pair" /\ Len(load.chain) = k /\ load.chain \in Seq(Entry)
      /\ k \in Nat /\ k # 0
  BY <1>1 DEF LoadInv, LoadOK, LoadType, Finish, Follows, Shows
<1>3. 1 \in 1 .. k /\ k \in 1 .. k /\ k + 1 - 1 = k
  BY <1>2
<1>4. Head(load.chain) = load.chain[1]
  BY <1>2
<1>5. Head(load.chain).blob.manifest # Malformed /\ load.spec.id \in Keyed
  BY <1>1, <1>2, <1>3, <1>4 DEF Follows, Shows
<1>6. Fail("tables") \/ Fail("paths") \/ Continue([load EXCEPT !.pc = "loaded"])
  BY <1>5 DEF Finish
<1>7. CASE Fail("tables") \/ Fail("paths")
  BY <1>2, <1>7, UnforeseenFail DEF Unforeseen
<1>8. CASE Continue([load EXCEPT !.pc = "loaded"])
  <2>1. /\ l.pc = "loaded" /\ l.spec = load.spec /\ l.candidates = load.candidates
        /\ l.chain = load.chain /\ l.dats = load.dats /\ l.sources = load.sources
    BY <1>2, <1>8 DEF Continue, LoadType
  <2> QED
    BY <1>2, <2>1 DEF Follows
<1> QED
  BY <1>6, <1>7, <1>8

\* All steps of a load of what is shown.
LEMMA FollowStep ==
  ASSUME LoadInv, NEW ch, NEW dats, Follows(load, ch, dats), Shows(load.spec, ch, dats),
         LoadNext, NEW l, l = load'
  PROVE  Follows(l, ch, dats)
BY FollowBlobs, FollowTop, FollowRead, FollowDats, FollowPair, FollowFinish DEF LoadNext

-----------------------------------------------------------------------------
(***************************************************************************)
(* A load from directories while no file changes.                          *)
(***************************************************************************)
\* All files of a kind in a folder that a load from directories can use.
Usable(l, kind, folder) ==
    {p \in Path : /\ Folder[p] = folder /\ Present(p)
                  /\ Name[p].kind = kind /\ Name[p].depot = l.spec.id}

Searched(l) ==
    /\ l.pc \notin {"idle", "blobs", "failed"} =>
          l.candidates = {p \in Usable(l, "blob", l.spec.blobFolder) :
                              Name[p].version <= l.spec.version}
    /\ \A i \in 1 .. Len(l.chain) : /\ Loadable(l.chain[i].path)
                                    /\ l.chain[i].blob = disk[l.chain[i].path]
    /\ l.pc \in {"pair", "loaded"} =>
          /\ l.dats = Usable(l, "dat", l.spec.datFolder)
          /\ \A i \in 1 .. Len(l.sources) :
                {d \in l.dats : /\ Name[d].version = Name[Paired(l, i).path].version
                                /\ disk[d].size = Paired(l, i).blob.datSize} = {l.sources[i]}

\* After an error there is only the chain to look at.
LEMMA SearchFailed ==
  ASSUME LoadInv, Searched(load), NEW e, Fail(e), NEW l, l = load'
  PROVE  Searched(l)
<1>1. l = [load EXCEPT !.pc = "failed", !.error = e] /\ load \in LoadType
  BY DEF Fail, LoadInv, LoadOK
<1>2. l.pc = "failed" /\ l.chain = load.chain
  BY <1>1 DEF LoadType
<1> QED
  BY <1>2 DEF Searched

\* Discovery takes every blob that fits.
LEMMA SearchBlobs ==
  ASSUME LoadInv, Searched(load), load.spec.blobFiles = {}, DiscoverBlobs, NEW l, l = load'
  PROVE  Searched(l)
<1>1. load \in LoadType /\ load.pc = "blobs"
  BY DEF LoadInv, LoadOK, DiscoverBlobs
<1>2. PICK found : found = {p \in Found(load.spec.blobFiles, "blob", load.spec.blobFolder) :
                               Name[p].version <= load.spec.version}
  OBVIOUS
<1>3. CASE Fail("discovery")
  BY <1>3, SearchFailed
<1>4. CASE Continue([load EXCEPT !.pc = "top", !.candidates = found])
  <2>1. found = {p \in Usable(load, "blob", load.spec.blobFolder) :
                    Name[p].version <= load.spec.version}
    BY <1>2 DEF Found, Usable, Names
  <2>2. /\ l.pc = "top" /\ l.spec = load.spec /\ l.candidates = found
        /\ l.chain = load.chain /\ l.sources = load.sources
    BY <1>1, <1>4 DEF Continue, LoadType
  <2> QED
    BY <2>1, <2>2 DEF Searched, Usable
<1> QED
  BY <1>2, <1>3, <1>4 DEF DiscoverBlobs

\* The choice of the top finds nothing new.
LEMMA SearchTop ==
  ASSUME LoadInv, Searched(load), ChooseTop, NEW l, l = load'
  PROVE  Searched(l)
<1>1. load \in LoadType /\ load.pc = "top"
  BY DEF LoadInv, LoadOK, ChooseTop
<1>2. CASE Fail("top")
  BY <1>2, SearchFailed
<1>3. CASE \E p \in TopMatches : Continue([load EXCEPT !.pc = "ancestry", !.next = p])
  <2>1. PICK p : Continue([load EXCEPT !.pc = "ancestry", !.next = p])
    BY <1>3
  <2>2. /\ l.pc = "ancestry" /\ l.spec = load.spec /\ l.candidates = load.candidates
        /\ l.chain = load.chain /\ l.sources = load.sources
    BY <1>1, <2>1 DEF Continue, LoadType
  <2> QED
    BY <1>1, <2>2 DEF Searched, Usable
<1> QED
  BY <1>2, <1>3 DEF ChooseTop

\* A blob that is read is what is on the disk.
LEMMA SearchRead ==
  ASSUME DiskOK, LoadInv, Searched(load), ReadBlob, NEW l, l = load'
  PROVE  Searched(l)
<1> DEFINE p == load.next
           read == [load EXCEPT !.chain = Append(@, [path |-> p, blob |-> disk[p]])]
<1>1. PICK n : n = Len(load.chain)
  OBVIOUS
<1>2. /\ load \in LoadType /\ load.pc = "ancestry" /\ load.chain \in Seq(Entry) /\ n \in Nat
      /\ p \in Path /\ Name[p].kind = "blob"
  <2>1. /\ load \in LoadType /\ load.pc = "ancestry"
        /\ p \in load.candidates /\ Name[p].kind = "blob"
    BY DEF LoadInv, LoadOK, NextOK, CandidatesOK, ReadBlob
  <2>2. load.chain \in Seq(Entry) /\ p \in Path
    BY <2>1 DEF LoadType
  <2> QED
    BY <1>1, <2>1, <2>2
<1>3. CASE Fail("blob") \/ Fail("ancestry")
  BY <1>3, SearchFailed
<1>4. CASE /\ Loadable(p)
           /\ \/ Continue([read EXCEPT !.pc = "dats"])
              \/ \E q : Continue([read EXCEPT !.next = q])
  <2>1. PICK t : t = Append(load.chain, [path |-> p, blob |-> disk[p]])
    OBVIOUS
  <2>2. /\ Len(t) = n + 1 /\ \A i \in 1 .. n : t[i] = load.chain[i]
        /\ t[n + 1] = [path |-> p, blob |-> disk[p]]
    <3>1. disk[p] \in BlobType
      BY <1>2, <1>4, DiskFacts
    <3>2. [path |-> p, blob |-> disk[p]] \in Entry
      BY <1>2, <3>1 DEF Entry
    <3> QED
      BY <1>1, <1>2, <2>1, <3>2, Appended
  <2>3. /\ l.pc \in {"ancestry", "dats"} /\ l.spec = load.spec
        /\ l.candidates = load.candidates /\ l.chain = t
    <3> HIDE DEF p
    <3>1. CASE Continue([read EXCEPT !.pc = "dats"])
      BY <1>2, <2>1, <3>1 DEF Continue, LoadType
    <3>2. CASE \E q : Continue([read EXCEPT !.next = q])
      BY <1>2, <2>1, <3>2 DEF Continue, LoadType
    <3> QED
      BY <1>4, <3>1, <3>2
  <2>4. \A i \in 1 .. n + 1 : i \in 1 .. n \/ i = n + 1
    BY <1>2
  <2>5. \A i \in 1 .. n + 1 : Loadable(t[i].path) /\ t[i].blob = disk[t[i].path]
    <3>1. \A i \in 1 .. n : Loadable(t[i].path) /\ t[i].blob = disk[t[i].path]
      BY <1>1, <2>2 DEF Searched
    <3>2. Loadable(t[n + 1].path) /\ t[n + 1].blob = disk[t[n + 1].path]
      <4>1. t[n + 1].path = p /\ t[n + 1].blob = disk[p]
        BY <2>2
      <4> HIDE DEF p
      <4> QED
        BY <1>4, <4>1
    <3> QED
      BY <2>4, <3>1, <3>2
  <2> QED
    BY <1>2, <2>2, <2>3, <2>5 DEF Searched, Usable
<1> QED
  BY <1>3, <1>4 DEF ReadBlob

\* Discovery takes every DAT that fits.
LEMMA SearchDats ==
  ASSUME LoadInv, Searched(load), load.spec.datFiles = {}, DiscoverDats, NEW l, l = load'
  PROVE  Searched(l)
<1>1. load \in LoadType /\ load.pc = "dats" /\ Len(load.sources) = 0
  BY DEF LoadInv, LoadOK, SourcesOK, DiscoverDats
<1>2. PICK found : found = Found(load.spec.datFiles, "dat", load.spec.datFolder)
  OBVIOUS
<1>3. CASE Fail("discovery")
  BY <1>3, SearchFailed
<1>4. CASE Continue([load EXCEPT !.pc = "pair", !.dats = found])
  <2>1. found = Usable(load, "dat", load.spec.datFolder)
    BY <1>2 DEF Found, Usable, Names
  <2>2. /\ l.pc = "pair" /\ l.spec = load.spec /\ l.candidates = load.candidates
        /\ l.chain = load.chain /\ l.sources = load.sources /\ l.dats = found
    BY <1>1, <1>4 DEF Continue, LoadType
  <2> QED
    BY <1>1, <2>1, <2>2 DEF Searched, Usable
<1> QED
  BY <1>2, <1>3, <1>4 DEF DiscoverDats

\* The DAT of a blob is the only one of its version and size.
LEMMA SearchPair ==
  ASSUME LoadInv, Searched(load), Pair, NEW l, l = load'
  PROVE  Searched(l)
<1>1. PICK m : m = Len(load.sources)
  OBVIOUS
<1>2. PICK b : b = Unpaired
  OBVIOUS
<1>3. load \in LoadType /\ load.pc = "pair" /\ load.sources \in Seq(Path) /\ m \in Nat
  <2>1. load \in LoadType /\ load.pc = "pair"
    BY DEF LoadInv, LoadOK, Pair
  <2>2. load.sources \in Seq(Path)
    BY <2>1 DEF LoadType
  <2> QED
    BY <1>1, <2>1, <2>2
<1>4. CASE Fail("dat") \/ Fail("open") \/ Fail("tables")
  BY <1>4, SearchFailed
<1>5. CASE /\ Cardinality(DatMatches(b)) = 1
           /\ \E d \in DatMatches(b) :
                 Continue([load EXCEPT !.sources = Append(@, d),
                                       !.mappings = Overlay(@, b.blob.table, d)])
  <2>1. PICK d \in DatMatches(b) :
           Continue([load EXCEPT !.sources = Append(@, d),
                                 !.mappings = Overlay(@, b.blob.table, d)])
    BY <1>5
  <2>2. PICK D : D = DatMatches(b)
    OBVIOUS
  <2>3. D \in SUBSET Path /\ d \in D /\ d \in Path
    BY <1>3, <2>1, <2>2 DEF DatMatches, Sized, LoadType
  <2>4. D = {d}
    BY <1>5, <2>2, <2>3, OneFile
  <2>5. PICK t : t = Append(load.sources, d)
    OBVIOUS
  <2>6. /\ l.pc = "pair" /\ l.spec = load.spec /\ l.candidates = load.candidates
        /\ l.chain = load.chain /\ l.dats = load.dats /\ l.sources = t
    BY <1>3, <2>1, <2>5 DEF Continue, LoadType
  <2>7. Len(t) = m + 1 /\ (\A i \in 1 .. m : t[i] = load.sources[i]) /\ t[m + 1] = d
    BY <1>1, <1>3, <2>3, <2>5, Appended
  <2>8. \A i \in 1 .. m + 1 : i \in 1 .. m \/ i = m + 1
    BY <1>3
  <2>9. Paired(l, m + 1) = b /\ \A i : Paired(l, i) = Paired(load, i)
    <3>1. PICK n : n = Len(load.chain)
      OBVIOUS
    <3>2. load.chain \in Seq(Entry)
      BY <1>3 DEF LoadType
    <3>3. n \in Nat
      BY <3>1, <3>2
    <3>4. n + 1 - (m + 1) = n - m
      BY <1>3, <3>3
    <3> QED
      BY <1>1, <1>2, <2>6, <3>1, <3>4 DEF Paired, Unpaired
  <2>10. {c \in l.dats : /\ Name[c].version = Name[Paired(l, m + 1).path].version
                         /\ disk[c].size = Paired(l, m + 1).blob.datSize} = {d}
    BY <2>2, <2>4, <2>6, <2>9 DEF DatMatches, Sized
  <2>11. ASSUME NEW i \in 1 .. m
         PROVE  {c \in l.dats : /\ Name[c].version = Name[Paired(l, i).path].version
                                /\ disk[c].size = Paired(l, i).blob.datSize} = {t[i]}
    BY <1>1, <1>3, <2>6, <2>7, <2>9 DEF Searched
  <2> QED
    BY <1>3, <2>6, <2>7, <2>8, <2>10, <2>11 DEF Searched, Usable
<1> QED
  BY <1>2, <1>4, <1>5 DEF Pair

\* The last step finds nothing new.
LEMMA SearchFinish ==
  ASSUME LoadInv, Searched(load), Finish, NEW l, l = load'
  PROVE  Searched(l)
<1>1. load \in LoadType /\ load.pc = "pair"
  BY DEF LoadInv, LoadOK, Finish
<1>2. CASE Fail("manifest") \/ Fail("key") \/ Fail("tables") \/ Fail("paths")
  BY <1>2, SearchFailed
<1>3. CASE Continue([load EXCEPT !.pc = "loaded"])
  <2>1. /\ l.pc = "loaded" /\ l.spec = load.spec /\ l.candidates = load.candidates
        /\ l.chain = load.chain /\ l.dats = load.dats /\ l.sources = load.sources
    BY <1>1, <1>3 DEF Continue, LoadType
  <2> QED
    BY <1>1, <2>1 DEF Searched, Usable, Paired
<1> QED
  BY <1>2, <1>3 DEF Finish

\* All steps of a load from directories.
LEMMA SearchStep ==
  ASSUME DiskOK, LoadInv, Searched(load), load.spec.blobFiles = {}, load.spec.datFiles = {},
         LoadNext, NEW l, l = load'
  PROVE  Searched(l)
BY SearchBlobs, SearchTop, SearchRead, SearchDats, SearchPair, SearchFinish DEF LoadNext

-----------------------------------------------------------------------------
(***************************************************************************)
(* The invariant of the composition.                                       *)
(***************************************************************************)
\* The worker runs on what a scan that is done has shown, and while the files
\* of the revision stay as they were, it follows the chain of the window.
ShownInv ==
    shown # NoShown =>
        /\ load.pc # "idle"
        /\ shown \in Listed /\ Readiness(shown) = "Ready"
        /\ load.spec = WindowSpec(shown)
        /\ Settled(load.spec.blobFiles \cup load.spec.datFiles) =>
              Follows(load, Ancestry(shown[1], shown[2], shown[3]).chain, DatFiles(shown))

\* Without exact files the worker uses all there are.
SearchInv ==
    (shown = NoShown /\ load.pc # "idle") =>
        /\ load.spec.blobFiles = {} /\ load.spec.datFiles = {}
        /\ touched = {} => Searched(load)

Inv ==
    /\ DiskOK
    /\ ScanInv
    /\ LoadInv
    /\ load.pc # "idle" => scan.pc = "done"
    /\ ShownInv
    /\ SearchInv

\* What the window shows depends on the records alone.
LEMMA SameRows ==
  ASSUME UNCHANGED scan, NEW id
  PROVE  /\ (id \in Listed)' = (id \in Listed)
         /\ Ancestry(id[1], id[2], id[3])' = Ancestry(id[1], id[2], id[3])
         /\ Readiness(id)' = Readiness(id)
         /\ DatFiles(id)' = DatFiles(id)
         /\ WindowSpec(id)' = WindowSpec(id)
<1>1. Listed' = Listed
  BY DEF Listed
<1>2. \A a, b, c : Ancestry(a, b, c)' = Ancestry(a, b, c)
  BY DEF Ancestry, Group
<1>3. \A b : DatsFor(b)' = DatsFor(b)
  BY DEF DatsFor
<1>4. Readiness(id)' = Readiness(id)
  BY <1>2, <1>3 DEF Readiness
<1>5. DatFiles(id)' = DatFiles(id)
  <2>1. \A b : DatOf(b)' = DatOf(b)
    BY DEF DatOf, DatsFor
  <2>2. PICK ch : ch = Ancestry(id[1], id[2], id[3]).chain
    OBVIOUS
  <2>3. DatFiles(id) = [i \in DOMAIN ch |-> DatOf(ch[i]).path]
    BY <2>2 DEF DatFiles, DatOf
  <2>4. Ancestry(id[1], id[2], id[3])'.chain = ch
    BY <1>2, <2>2
  <2>5. DatFiles(id)' = [i \in DOMAIN ch |-> DatOf(ch[i])'.path]
    BY <2>4 DEF DatFiles, DatOf
  <2> QED
    BY <2>1, <2>3, <2>5
<1>6. BlobFiles(id)' = BlobFiles(id)
  BY <1>2 DEF BlobFiles
<1>7. WindowSpec(id)' = WindowSpec(id)
  BY <1>5, <1>6 DEF WindowSpec
<1> QED
  BY <1>1, <1>2, <1>4, <1>5, <1>7

\* A load that begins follows any chain.
LEMMA FollowBegins ==
  ASSUME ScanInv, NEW id \in Listed, Readiness(id) = "Ready",
         NEW ch, ch = Ancestry(id[1], id[2], id[3]).chain,
         NEW l, l.pc = "blobs", l.chain = <<>>, l.sources = <<>>, NEW dats
  PROVE  Follows(l, ch, dats)
<1>1. Len(ch) \in Nat
  BY ReadyRow DEF RightChain
<1>2. Len(l.chain) = 0 /\ Len(l.sources) = 0 /\ 0 <= Len(ch)
  BY <1>1
<1> QED
  BY <1>2 DEF Follows

\* Every initial state satisfies the invariant.
LEMMA InvInit == Init => Inv
<1> SUFFICES ASSUME Init PROVE Inv
  OBVIOUS
<1>1. DiskOK
  BY DisksAssumption DEF Init, DiskOK
<1>2. ScanInv /\ LoadInv /\ load.pc = "idle"
  BY ScanInitOK, LoadInitOK DEF Init, LoadInit
<1> QED
  BY <1>1, <1>2 DEF Inv, Init, ShownInv, SearchInv

\* A file that changes is touched, so that nothing is said of it any more.
LEMMA InvFilesChange ==
  ASSUME Inv, FilesChange
  PROVE  Inv'
<1>1. ScanInv' /\ DiskOK'
  BY ScanChange DEF Inv
<1>2. UNCHANGED <<scan, load, shown>>
  BY DEF FilesChange
<1>3. LoadInv'
  BY <1>2 DEF Inv, LoadInv
<1>4. PICK p \in Path : touched' = touched \cup {p}
  BY DEF FilesChange
<1>5. PICK id : id = shown
  OBVIOUS
<1>6. ShownInv'
  <2> SUFFICES ASSUME id # NoShown PROVE ShownInv'
    BY <1>2, <1>5 DEF ShownInv, NoShown
  <2>1. PICK files : files = load.spec.blobFiles \cup load.spec.datFiles
    OBVIOUS
  <2>2. (files \cap touched' = {}) => (files \cap touched = {})
    BY <1>4
  <2>3. PICK ch : ch = Ancestry(id[1], id[2], id[3]).chain
    OBVIOUS
  <2>4. PICK dats : dats = DatFiles(id)
    OBVIOUS
  <2>5. /\ load.pc # "idle" /\ id \in Listed /\ Readiness(id) = "Ready"
        /\ load.spec = WindowSpec(id)
        /\ (files \cap touched = {}) => Follows(load, ch, dats)
    BY <1>5, <2>1, <2>3, <2>4 DEF Inv, ShownInv, Settled
  <2>6. /\ (id \in Listed)' /\ Readiness(id)' = "Ready" /\ WindowSpec(id)' = load.spec
        /\ Ancestry(id[1], id[2], id[3])'.chain = ch /\ DatFiles(id)' = dats
    BY <1>2, <2>3, <2>4, <2>5, SameRows
  <2> QED
    BY <1>2, <1>5, <2>1, <2>2, <2>5, <2>6 DEF ShownInv, Settled
<1>7. SearchInv'
  BY <1>2, <1>4 DEF Inv, SearchInv, NoShown
<1> QED
  BY <1>1, <1>2, <1>3, <1>6, <1>7 DEF Inv

\* While the scan runs there has been no load.
LEMMA InvScan ==
  ASSUME Inv, Scan
  PROVE  Inv'
<1>1. ScanInv' /\ DiskOK'
  BY ScanStep DEF Inv
<1>2. load.pc = "idle" /\ UNCHANGED <<load, shown>> /\ shown = NoShown
  BY DEF Inv, Scan, ShownInv
<1> QED
  BY <1>1, <1>2 DEF Inv, LoadInv, ShownInv, SearchInv, NoShown

\* The window starts a worker on a row that is ready.
LEMMA InvMountRevision ==
  ASSUME Inv, NEW id, MountRevision(id)
  PROVE  Inv'
<1>1. PICK s : s = WindowSpec(id)
  OBVIOUS
<1>2. /\ s \in SpecType /\ BeginLoad(s) /\ scan.pc = "done" /\ id \in Listed
      /\ Readiness(id) = "Ready" /\ shown' = id
      /\ UNCHANGED <<disk, scan, touched>>
  BY <1>1, WindowSpecType DEF Inv, MountRevision, BeginLoad
<1>3. DiskOK' /\ ScanInv' /\ LoadInv'
  <2>1. LoadInv'
    BY <1>2, BeginLoadStep
  <2> QED
    BY <1>2, <2>1, ScanIdle DEF Inv, DiskOK
<1>4. PICK l : l = load'
  OBVIOUS
<1>5. l.pc = "blobs" /\ l.spec = s /\ l.chain = <<>> /\ l.sources = <<>>
  BY <1>2, <1>4 DEF BeginLoad
<1>6. PICK ch : ch = Ancestry(id[1], id[2], id[3]).chain
  OBVIOUS
<1>7. PICK dats : dats = DatFiles(id)
  OBVIOUS
<1>8. Follows(l, ch, dats)
  BY <1>2, <1>5, <1>6, FollowBegins DEF Inv
<1>9. /\ (id \in Listed)' /\ Readiness(id)' = "Ready" /\ WindowSpec(id)' = s
      /\ Ancestry(id[1], id[2], id[3])'.chain = ch /\ DatFiles(id)' = dats
  BY <1>1, <1>2, <1>6, <1>7, SameRows
<1>10. ShownInv'
  BY <1>2, <1>4, <1>5, <1>8, <1>9 DEF ShownInv
<1>11. id # NoShown
  <2>1. id = <<id[1], id[2], id[3]>>
    BY <1>2, ListedType DEF Inv
  <2>2. \A a, b, c : <<a, b, c>> # <<>>
    OBVIOUS
  <2> QED
    BY <2>1, <2>2 DEF NoShown
<1>12. SearchInv'
  BY <1>2, <1>11 DEF SearchInv, NoShown
<1> QED
  BY <1>2, <1>3, <1>10, <1>12 DEF Inv

\* A worker is started on directories.
LEMMA InvRunWorker ==
  ASSUME Inv, NEW spec \in Builds, RunWorker(spec)
  PROVE  Inv'
<1>1. /\ spec \in SpecType /\ spec.blobFiles = {} /\ spec.datFiles = {}
      /\ BeginLoad(spec) /\ scan.pc = "done" /\ shown' = NoShown
      /\ UNCHANGED <<disk, scan, touched>>
  BY BuildsAssumption DEF RunWorker, BeginLoad
<1>2. DiskOK' /\ ScanInv' /\ LoadInv'
  <2>1. LoadInv'
    BY <1>1, BeginLoadStep
  <2> QED
    BY <1>1, <2>1, ScanIdle DEF Inv, DiskOK
<1>3. PICK l : l = load'
  OBVIOUS
<1>4. l.pc = "blobs" /\ l.spec = spec /\ l.chain = <<>> /\ Len(l.chain) = 0
  BY <1>1, <1>3 DEF BeginLoad
<1>5. Searched(load)'
  BY <1>3, <1>4 DEF Searched
<1>6. ShownInv' /\ SearchInv'
  BY <1>1, <1>3, <1>4, <1>5 DEF ShownInv, SearchInv, NoShown
<1> QED
  BY <1>1, <1>2, <1>6 DEF Inv

\* A step of the load, of what is shown or from directories.
LEMMA InvLoad ==
  ASSUME Inv, Load
  PROVE  Inv'
<1>1. LoadNext /\ UNCHANGED <<scan, touched, shown>>
  BY DEF Load
<1>2. LoadInv' /\ DiskOK'
  BY <1>1, LoadStep DEF Inv
<1>3. UNCHANGED disk
  BY <1>1 DEF LoadNext, DiscoverBlobs, ChooseTop, ReadBlob, DiscoverDats, Pair, Finish, Continue, Fail
<1>4. ScanInv'
  BY <1>1, <1>3, ScanIdle DEF Inv
<1>5. PICK l : l = load'
  OBVIOUS
<1>6. load \in LoadType /\ l.spec = load.spec /\ l.pc # "idle" /\ load.pc # "idle"
  <2>1. load \in LoadType
    BY DEF Inv, LoadInv, LoadOK
  <2>2. CASE DiscoverBlobs
    BY <1>5, <2>1, <2>2 DEF DiscoverBlobs, LoadType, Continue, Fail
  <2>3. CASE ChooseTop
    BY <1>5, <2>1, <2>3 DEF ChooseTop, LoadType, Continue, Fail
  <2>4. CASE ReadBlob
    BY <1>5, <2>1, <2>4 DEF ReadBlob, LoadType, Continue, Fail
  <2>5. CASE DiscoverDats
    BY <1>5, <2>1, <2>5 DEF DiscoverDats, LoadType, Continue, Fail
  <2>6. CASE Pair
    BY <1>5, <2>1, <2>6 DEF Pair, LoadType, Continue, Fail
  <2>7. CASE Finish
    BY <1>5, <2>1, <2>7 DEF Finish, LoadType, Continue, Fail
  <2> QED
    BY <1>1, <2>1, <2>2, <2>3, <2>4, <2>5, <2>6, <2>7 DEF LoadNext
<1>7. PICK id : id = shown
  OBVIOUS
<1>8. ShownInv'
  <2> SUFFICES ASSUME id # NoShown PROVE ShownInv'
    BY <1>1, <1>7 DEF ShownInv, NoShown
  <2>1. PICK s : s = load.spec
    OBVIOUS
  <2>2. PICK ch : ch = Ancestry(id[1], id[2], id[3]).chain
    OBVIOUS
  <2>3. PICK dats : dats = DatFiles(id)
    OBVIOUS
  <2>4. /\ id \in Listed /\ Readiness(id) = "Ready" /\ s = WindowSpec(id)
        /\ Settled(s.blobFiles \cup s.datFiles) => Follows(load, ch, dats)
    BY <1>7, <2>1, <2>2, <2>3 DEF Inv, ShownInv
  <2>5. Settled(s.blobFiles \cup s.datFiles) => Follows(l, ch, dats)
    <3> SUFFICES ASSUME Settled(s.blobFiles \cup s.datFiles) PROVE Follows(l, ch, dats)
      OBVIOUS
    <3>1. Shows(load.spec, ch, dats)
      BY <2>1, <2>2, <2>3, <2>4, ShownRow DEF Inv
    <3> QED
      BY <1>1, <1>5, <2>4, <3>1, FollowStep DEF Inv
  <2>6. /\ (id \in Listed)' /\ Readiness(id)' = "Ready" /\ WindowSpec(id)' = s
        /\ Ancestry(id[1], id[2], id[3])'.chain = ch /\ DatFiles(id)' = dats
    BY <1>1, <2>2, <2>3, <2>4, SameRows
  <2> QED
    BY <1>1, <1>5, <1>6, <1>7, <2>1, <2>5, <2>6 DEF ShownInv, Settled
<1>9. SearchInv'
  <2> SUFFICES ASSUME shown = NoShown PROVE SearchInv'
    BY <1>1 DEF SearchInv, NoShown
  <2>1. /\ load.spec.blobFiles = {} /\ load.spec.datFiles = {}
        /\ touched = {} => Searched(load)
    BY <1>6 DEF Inv, SearchInv
  <2>2. touched = {} => Searched(l)
    BY <1>1, <1>5, <2>1, SearchStep DEF Inv
  <2>3. Searched(l) => Searched(load)'
    BY <1>3, <1>5 DEF Searched, Usable, Present, Loadable
  <2> QED
    BY <1>1, <1>5, <1>6, <2>1, <2>2, <2>3 DEF SearchInv
<1>10. (load.pc # "idle" => scan.pc = "done")'
  BY <1>1, <1>6 DEF Inv
<1> QED
  BY <1>2, <1>4, <1>8, <1>9, <1>10 DEF Inv

\* Stuttering.
LEMMA InvIdle ==
  ASSUME Inv, UNCHANGED vars
  PROVE  Inv'
<1>1. UNCHANGED <<disk, scan, load, touched, shown>>
  BY DEF vars
<1>2. ScanInv' /\ DiskOK' /\ LoadInv'
  BY <1>1, ScanIdle DEF Inv, DiskOK, LoadInv
<1>3. PICK id : id = shown
  OBVIOUS
<1>4. ShownInv'
  BY <1>1, <1>3, SameRows DEF Inv, ShownInv, Settled, NoShown
<1>5. SearchInv'
  <2>1. Searched(load)' = Searched(load)
    BY <1>1 DEF Searched, Usable, Present, Loadable
  <2> QED
    BY <1>1, <2>1 DEF Inv, SearchInv, NoShown
<1> QED
  BY <1>1, <1>2, <1>4, <1>5 DEF Inv

\* Inv holds in every state of every run.
THEOREM Invariance == Spec => []Inv
<1>1. Inv /\ [Next]_vars => Inv'
  BY InvFilesChange, InvScan, InvMountRevision, InvRunWorker, InvLoad, InvIdle DEF Next
<1> QED
  BY <1>1, InvInit, PTL DEF Spec

\* The worker loads what the window shows: the invariant gives ReadyLoads.
LEMMA LoadsRight == Inv => ReadyLoads
<1> SUFFICES ASSUME Inv, shown # NoShown, Settled(load.spec.blobFiles \cup load.spec.datFiles)
             PROVE  /\ load.pc = "failed" => load.error \in Unforeseen
                    /\ load.pc = "loaded" =>
                          /\ Len(load.chain) = Len(BlobFiles(shown))
                          /\ \A i \in 1 .. Len(load.chain) :
                                /\ load.chain[Len(load.chain) + 1 - i].path = BlobFiles(shown)[i]
                                /\ load.sources[i] = DatFiles(shown)[i]
  BY DEF ReadyLoads, Unforeseen
<1>1. PICK ch : ch = Ancestry(shown[1], shown[2], shown[3]).chain
  OBVIOUS
<1>2. PICK dats : dats = DatFiles(shown)
  OBVIOUS
<1>3. /\ shown \in Listed /\ Readiness(shown) = "Ready" /\ load.spec = WindowSpec(shown)
      /\ Follows(load, ch, dats) /\ ScanInv /\ LoadInv
  BY <1>1, <1>2 DEF Inv, ShownInv
<1>4. Shows(load.spec, ch, dats)
  BY <1>1, <1>2, <1>3, ShownRow
<1>5. BlobFiles(shown) = [i \in 1 .. Len(ch) |-> ch[i].path]
  BY <1>1, <1>3, ReadyRow
<1>6. PICK k : k = Len(ch)
  OBVIOUS
<1>7. k \in Nat /\ Len(BlobFiles(shown)) = k
  BY <1>4, <1>5, <1>6 DEF Shows
<1>8. ASSUME load.pc = "loaded"
      PROVE  /\ Len(load.chain) = k
             /\ \A i \in 1 .. k : /\ load.chain[k + 1 - i].path = BlobFiles(shown)[i]
                                  /\ load.sources[i] = dats[i]
  <2>1. Len(load.chain) = k /\ Len(load.sources) = k
    BY <1>3, <1>6, <1>8 DEF Follows, LoadInv, LoadOK, SourcesOK
  <2>2. ASSUME NEW i \in 1 .. k PROVE load.chain[k + 1 - i].path = BlobFiles(shown)[i]
    <3>1. k + 1 - i \in 1 .. k /\ k + 1 - (k + 1 - i) = i
      BY <1>7
    <3>2. load.chain[k + 1 - i].path = ch[k + 1 - (k + 1 - i)].path
      BY <1>3, <1>6, <2>1, <3>1 DEF Follows
    <3> QED
      BY <1>5, <1>6, <3>1, <3>2
  <2>3. \A i \in 1 .. k : load.sources[i] = dats[i]
    BY <1>3, <2>1 DEF Follows
  <2> QED
    BY <2>1, <2>2, <2>3
<1>9. load.pc = "failed" => load.error \in Unforeseen
  BY <1>3 DEF Follows
<1> QED
  BY <1>2, <1>7, <1>8, <1>9

-----------------------------------------------------------------------------
(***************************************************************************)
(* What the worker loads, the window shows.                                *)
(***************************************************************************)
\* The record that a scan has of a file that it has seen.
RecordOf(p) == [path |-> p, metadata |-> MetadataOf(p)]

\* If no file has changed since the scan, the group of a strict blob that is the
\* only one of its identity in its folder has its record, and no other unless it
\* is copied.
LEMMA GroupSeen ==
  ASSUME ScanInv, touched = {}, NEW p \in Path,
         Present(p), Name[p].kind = "blob", Name[p].strict,
         \A q \in Path : (/\ Folder[q] = Folder[p] /\ Present(q) /\ Name[q].kind = "blob"
                          /\ IdentityOf(q) = IdentityOf(p)) => q = p
  PROVE  /\ RecordOf(p) \in Group(IdentityOf(p))
         /\ Group(IdentityOf(p)) = {RecordOf(p)} \/ BlobCopied(p)
<1>1. \A b \in scan.blobs :
        /\ b.path \in Path /\ Present(b.path) /\ Name[b.path].kind = "blob"
        /\ Name[b.path].strict /\ b = RecordOf(b.path)
  <2> SUFFICES ASSUME NEW b \in scan.blobs
               PROVE  /\ b.path \in Path /\ Present(b.path) /\ Name[b.path].kind = "blob"
                      /\ Name[b.path].strict /\ b = RecordOf(b.path)
    OBVIOUS
  <2>1. b \in BlobRecord /\ Name[b.path].kind = "blob" /\ Name[b.path].strict
    BY DEF ScanInv, ScanType
  <2>2. b.path \in Path /\ b = [path |-> b.path, metadata |-> b.metadata]
    BY <2>1 DEF BlobRecord
  <2>3. RecordsRight(b.path)
    BY <2>2 DEF ScanInv
  <2>4. Present(b.path) /\ b.metadata = MetadataOf(b.path)
    BY <2>3 DEF RecordsRight
  <2> QED
    BY <2>1, <2>2, <2>4 DEF RecordOf
<1>2. ~BlobCopied(p) => \A b \in Group(IdentityOf(p)) : b = RecordOf(p)
  <2> SUFFICES ASSUME ~BlobCopied(p), NEW b \in Group(IdentityOf(p)) PROVE b = RecordOf(p)
    OBVIOUS
  <2>1. b \in scan.blobs /\ IdentityOf(b.path) = IdentityOf(p)
    BY DEF Group
  <2>2. b.path = p
    BY <1>1, <2>1 DEF BlobCopied
  <2> QED
    BY <1>1, <2>1, <2>2
<1>3. RecordOf(p) \in Group(IdentityOf(p))
  <2>1. RecordsRight(p)
    BY DEF ScanInv
  <2>2. PICK b \in scan.blobs : b.path = p
    BY <2>1 DEF RecordsRight
  <2>3. b = RecordOf(p)
    BY <1>1, <2>2
  <2> QED
    BY <2>2, <2>3 DEF Group
<1> QED
  BY <1>2, <1>3

\* The same for the DATs of a blob that was read as the scan read it.
LEMMA DatsSeen ==
  ASSUME ScanInv, touched = {}, NEW b, NEW d \in Path,
         Present(d), Name[d].kind = "dat", Name[d].strict,
         Name[d].depot = Name[b.path].depot, Name[d].version = Name[b.path].version,
         disk[d].size = b.metadata.datSize,
         \A e \in Path : (/\ Folder[e] = Folder[d] /\ Present(e) /\ Name[e].kind = "dat"
                          /\ Name[e].depot = Name[d].depot /\ Name[e].version = Name[d].version
                          /\ disk[e].size = disk[d].size) => e = d
  PROVE  /\ Cardinality(DatsFor(b)) # 0
         /\ Cardinality(DatsFor(b)) = 1 \/ DatCopied(d)
<1>1. \A c \in scan.dats :
        /\ c.path \in Path /\ Present(c.path) /\ Name[c.path].kind = "dat"
        /\ Name[c.path].strict /\ c = [path |-> c.path, size |-> disk[c.path].size]
  <2> SUFFICES ASSUME NEW c \in scan.dats
               PROVE  /\ c.path \in Path /\ Present(c.path) /\ Name[c.path].kind = "dat"
                      /\ Name[c.path].strict /\ c = [path |-> c.path, size |-> disk[c.path].size]
    OBVIOUS
  <2>1. c \in DatRecord /\ Name[c.path].kind = "dat" /\ Name[c.path].strict
    BY DEF ScanInv, ScanType
  <2>2. c.path \in Path /\ c = [path |-> c.path, size |-> c.size]
    BY <2>1 DEF DatRecord
  <2>3. RecordsRight(c.path)
    BY <2>2 DEF ScanInv
  <2> QED
    BY <2>1, <2>2, <2>3 DEF RecordsRight
<1>2. PICK r : r = [path |-> d, size |-> disk[d].size]
  OBVIOUS
<1>3. r \in scan.dats
  <2>1. RecordsRight(d)
    BY DEF ScanInv
  <2>2. PICK c \in scan.dats : c.path = d
    BY <2>1 DEF RecordsRight
  <2> QED
    BY <1>1, <1>2, <2>2
<1>4. r \in DatsFor(b)
  BY <1>2, <1>3 DEF DatsFor
<1>5. ~DatCopied(d) => \A c \in DatsFor(b) : c = r
  <2> SUFFICES ASSUME ~DatCopied(d), NEW c \in DatsFor(b) PROVE c = r
    OBVIOUS
  <2>1. /\ c \in scan.dats /\ Name[c.path].depot = Name[b.path].depot
        /\ Name[c.path].version = Name[b.path].version /\ c.size = b.metadata.datSize
    BY DEF DatsFor
  <2>2. c.size = disk[c.path].size
    BY <1>1, <2>1
  <2>3. c.path = d
    BY <1>1, <2>1, <2>2 DEF DatCopied
  <2> QED
    BY <1>1, <1>2, <2>1, <2>3
<1>6. DatCopied(d) \/ DatsFor(b) = {r}
  BY <1>4, <1>5
<1> QED
  BY <1>4, <1>6, DatsForType

\* Whether a file that the worker has used is copied.
BlobsCopied(l) == \E j \in 1 .. Len(l.chain) : BlobCopied(l.chain[j].path)
DatsCopied(l) == \E j \in 1 .. Len(l.sources) : DatCopied(l.sources[j])

\* A blob has one DAT, or several as they are copied.
DatsKnown(l, b) ==
    /\ Cardinality(DatsFor(b)) # 0
    /\ Cardinality(DatsFor(b)) = 1 \/ DatsCopied(l)

\* What the window's records say of blob i of a chain that the worker has
\* loaded: it is the only one with its identity, has one DAT, and names the
\* next one as its parent, unless its manifest is malformed or there are copies.
Seen(l, i) ==
    LET p == l.chain[i].path
        blob == l.chain[i].blob
    IN  /\ p \in Path /\ Name[p].depot = l.spec.id
        /\ Name[p].version \in Version /\ Name[p].crc \in Crc
        /\ RecordOf(p) \in Group(<<l.spec.id, Name[p].version, Name[p].crc>>)
        /\ \/ Group(<<l.spec.id, Name[p].version, Name[p].crc>>) = {RecordOf(p)}
           \/ BlobCopied(p)
        /\ blob.manifest = Malformed => RecordOf(p).metadata = NoMetadata
        /\ blob.manifest # Malformed => /\ RecordOf(p).metadata = blob
                                        /\ RecordOf(p).metadata # NoMetadata
                                        /\ DatsKnown(l, RecordOf(p))
        /\ i = Len(l.chain) => blob.parent = 0
        /\ i # Len(l.chain) => /\ blob.parent # 0
                               /\ blob.parent = Name[l.chain[i + 1].path].crc
                               /\ Name[l.chain[i + 1].path].version = Name[p].version - 1

\* If no file has changed, the records of a loaded chain are as in Seen.
LEMMA ChainSeen ==
  ASSUME DiskOK, ScanInv, LoadInv, Searched(load), touched = {}, load.pc = "loaded",
         NEW i \in 1 .. Len(load.chain),
         \A j \in 1 .. Len(load.chain) : Name[load.chain[j].path].strict,
         \A j \in 1 .. Len(load.sources) : Name[load.sources[j]].strict
  PROVE  Seen(load, i)
<1> DEFINE p == load.chain[i].path
           blob == load.chain[i].blob
<1>1. PICK k : k = Len(load.chain)
  OBVIOUS
<1>2. /\ load \in LoadType /\ ChainOK(load) /\ CandidatesOK(load) /\ SourcesOK(load)
      /\ load.chain \in Seq(Entry) /\ k \in Nat /\ load.sources \in Seq(Path)
      /\ Len(load.sources) = k /\ load.spec.version \in Nat
  BY <1>1, BoundAssumption DEF LoadInv, LoadOK, LoadType, SourcesOK, SpecType, Version
<1>3. i \in 1 .. k /\ (i # 1 => i - 1 \in 1 .. k) /\ (i # k => i + 1 \in 1 .. k)
      /\ k + 1 - i \in 1 .. k /\ k + 1 - (k + 1 - i) = i
  BY <1>1, <1>2
<1>4. /\ p \in load.candidates /\ p \in Path /\ Name[p].kind = "blob" /\ Name[p].depot = load.spec.id
      /\ Name[p].version <= load.spec.version
      /\ Name[p].version = load.spec.version - (i - 1)
      /\ Loadable(p) /\ Present(p) /\ blob = disk[p] /\ Name[p].strict
      /\ Folder[p] = load.spec.blobFolder
  BY <1>1, <1>2, <1>3 DEF ChainOK, CandidatesOK, Searched, Usable, LoadType, Loadable
<1>5. blob \in BlobType /\ blob # NoMetadata
  BY <1>4, DiskFacts, ValueAssumption DEF NoMetadata
<1>6. Name[p].version \in Version /\ Name[p].version \in Nat /\ Name[p].crc \in Crc
  BY <1>4, NameTypeAssumption, StrictAssumption, BoundAssumption DEF NameType, Version
<1>7. ASSUME NEW q \in Path, Folder[q] = Folder[p], Present(q), Name[q].kind = "blob",
             IdentityOf(q) = IdentityOf(p)
      PROVE  q = p
  <2>1. /\ Name[q].depot = Name[p].depot /\ Name[q].version = Name[p].version
        /\ Name[q].crc = Name[p].crc
    BY <1>7 DEF IdentityOf
  <2>2. q \in load.candidates
    BY <1>4, <1>7, <2>1 DEF Searched, Usable
  <2>3. CASE i = 1
    <3>1. OnlyTop(load, p)
      BY <1>1, <1>2, <1>3, <2>3 DEF ChainOK
    <3> HIDE DEF p
    <3> QED
      BY <2>1, <2>2, <3>1 DEF OnlyTop
  <2>4. CASE i # 1
    <3>1. PICK o : o = load.chain[i - 1].path
      OBVIOUS
    <3>2. PICK c : c = load.chain[i - 1].blob.parent
      OBVIOUS
    <3>3. OnlyParent(load, p, o, c)
      BY <1>1, <1>2, <1>3, <2>4, <3>1, <3>2 DEF ChainOK
    <3> HIDE DEF p
    <3> QED
      BY <2>1, <2>2, <3>3 DEF OnlyParent
  <2> QED
    BY <2>3, <2>4
<1>8. /\ RecordOf(p) \in Group(<<load.spec.id, Name[p].version, Name[p].crc>>)
      /\ \/ Group(<<load.spec.id, Name[p].version, Name[p].crc>>) = {RecordOf(p)}
         \/ BlobCopied(p)
  <2>1. IdentityOf(p) = <<load.spec.id, Name[p].version, Name[p].crc>>
    BY <1>4 DEF IdentityOf
  <2> HIDE DEF p
  <2>2. /\ RecordOf(p) \in Group(IdentityOf(p))
        /\ Group(IdentityOf(p)) = {RecordOf(p)} \/ BlobCopied(p)
    BY <1>4, <1>7, GroupSeen
  <2> QED
    BY <2>1, <2>2
<1>9. /\ RecordOf(p).path = p
      /\ RecordOf(p).metadata = IF blob.manifest # Malformed THEN blob ELSE NoMetadata
  BY <1>4 DEF RecordOf, MetadataOf, Inspectable
<1>10. ASSUME blob.manifest # Malformed
       PROVE  DatsKnown(load, RecordOf(p))
  <2>1. PICK d : d = load.sources[k + 1 - i]
    OBVIOUS
  <2>2. Paired(load, k + 1 - i) = load.chain[i]
    BY <1>1, <1>3 DEF Paired
  <2>3. {e \in load.dats : Name[e].version = Name[p].version /\ disk[e].size = blob.datSize} = {d}
    BY <1>2, <1>3, <2>1, <2>2 DEF Searched
  <2>4. load.dats = Usable(load, "dat", load.spec.datFolder)
    BY DEF Searched
  <2> HIDE DEF p, blob
  <2>5. /\ d \in Path /\ Present(d) /\ Name[d].kind = "dat" /\ Name[d].depot = load.spec.id
        /\ Folder[d] = load.spec.datFolder
        /\ Name[d].version = Name[p].version /\ disk[d].size = blob.datSize
    BY <2>3, <2>4 DEF Usable
  <2>6. Name[d].strict
    BY <1>2, <1>3, <2>1
  <2>7. \A e \in Path : (/\ Folder[e] = Folder[d] /\ Present(e) /\ Name[e].kind = "dat"
                         /\ Name[e].depot = Name[d].depot /\ Name[e].version = Name[d].version
                         /\ disk[e].size = disk[d].size) => e = d
    BY <2>3, <2>4, <2>5 DEF Usable
  <2>8. PICK b : b = RecordOf(p)
    OBVIOUS
  <2>9. b.path = p /\ b.metadata = blob
    BY <1>9, <1>10, <2>8
  <2>10. Cardinality(DatsFor(b)) # 0 /\ (Cardinality(DatsFor(b)) = 1 \/ DatCopied(d))
    BY <1>4, <2>5, <2>6, <2>7, <2>9, DatsSeen
  <2>11. DatCopied(d) => DatsCopied(load)
    BY <1>2, <1>3, <2>1 DEF DatsCopied
  <2> QED
    BY <2>8, <2>10, <2>11 DEF DatsKnown
<1>11. i = k => blob.parent = 0
  BY <1>1, <1>2 DEF ChainOK
<1>12. ASSUME i # k
       PROVE  /\ blob.parent # 0
              /\ blob.parent = Name[load.chain[i + 1].path].crc
              /\ Name[load.chain[i + 1].path].version = Name[p].version - 1
  <2>1. PICK o : o = load.chain[i + 1].path
    OBVIOUS
  <2>2. i + 1 \in 1 .. k /\ i + 1 # 1 /\ (i + 1) - 1 = i
    BY <1>2, <1>3, <1>12
  <2>3. blob.parent # 0 /\ OnlyParent(load, o, p, blob.parent)
    BY <1>1, <1>2, <2>1, <2>2 DEF ChainOK
  <2> HIDE DEF p, blob
  <2>4. Name[o].crc = blob.parent /\ Name[o].version = Name[p].version - 1
    BY <2>3 DEF OnlyParent
  <2> QED
    BY <2>1, <2>3, <2>4
<1> QED
  BY <1>1, <1>4, <1>5, <1>6, <1>8, <1>9, <1>10, <1>11, <1>12 DEF Seen

\* A chain of records of S, with another one.
LEMMA ChainGrown ==
  ASSUME NEW ch \in Seq(scan.blobs), NEW b \in scan.blobs, NEW S,
         \A e \in 1 .. Len(ch) : ch[e] \in S,
         b \in S
  PROVE  /\ Append(ch, b) \in Seq(scan.blobs)
         /\ \A e \in 1 .. Len(Append(ch, b)) : Append(ch, b)[e] \in S
<1>1. PICK t : t = Append(ch, b)
  OBVIOUS
<1>2. PICK n : n = Len(ch)
  OBVIOUS
<1>3. /\ t \in Seq(scan.blobs) /\ n \in Nat /\ Len(t) = n + 1
      /\ \A e \in 1 .. n : t[e] = ch[e]
      /\ t[n + 1] = b
  BY <1>1, <1>2, Appended
<1>4. \A e \in 1 .. n + 1 : e \in 1 .. n \/ e = n + 1
  BY <1>3
<1>5. \A e \in 1 .. n + 1 : t[e] \in S
  BY <1>2, <1>3, <1>4
<1> QED
  BY <1>1, <1>3, <1>5

\* What the window makes of blob i: its chain is of the same records, or it
\* stops at a manifest or at copies.
Agrees(l, i) ==
    LET p == l.chain[i].path
        r == Ancestry(l.spec.id, Name[p].version, Name[p].crc)
    IN  \/ /\ r.readiness = "CorruptBlob"
           /\ \E j \in 1 .. Len(l.chain) : l.chain[j].blob.manifest = Malformed
        \/ r.readiness = "DuplicateBlob" /\ BlobsCopied(l)
        \/ /\ r.readiness = "Ready" /\ r.chain \in Seq(scan.blobs)
           /\ \A e \in 1 .. Len(r.chain) : DatsKnown(l, r.chain[e])

\* What the window makes of a blob follows from what it makes of its parent.
LEMMA ChainAgrees ==
  ASSUME ScanInv, Len(load.chain) \in Nat,
         \A i \in 1 .. Len(load.chain) : Seen(load, i),
         NEW i \in 1 .. Len(load.chain),
         i # Len(load.chain) => Agrees(load, i + 1)
  PROVE  Agrees(load, i)
<1> DEFINE p == load.chain[i].path
           blob == load.chain[i].blob
           o == load.chain[i + 1].path
<1>1. PICK k : k = Len(load.chain)
  OBVIOUS
<1>2. PICK d : d = load.spec.id
  OBVIOUS
<1>3. PICK v : v = Name[p].version
  OBVIOUS
<1>4. PICK c : c = Name[p].crc
  OBVIOUS
<1>5. PICK b : b = RecordOf(p)
  OBVIOUS
<1>6. Seen(load, i) /\ (i # k => Seen(load, i + 1) /\ Agrees(load, i + 1))
  BY <1>1
<1>7. /\ v \in Version /\ c \in Crc /\ b \in Group(<<d, v, c>>)
      /\ Group(<<d, v, c>>) = {b} \/ BlobCopied(p)
      /\ blob.manifest = Malformed => b.metadata = NoMetadata
      /\ blob.manifest # Malformed => /\ b.metadata = blob /\ b.metadata # NoMetadata
                                      /\ DatsKnown(load, b)
      /\ i = k => blob.parent = 0
      /\ i # k => blob.parent # 0 /\ blob.parent = Name[o].crc /\ Name[o].version = v - 1
  BY <1>1, <1>2, <1>3, <1>4, <1>5, <1>6 DEF Seen
<1>8. PICK r : r = Ancestry(d, v, c)
  OBVIOUS
<1>9. PICK g : g = Group(<<d, v, c>>)
  OBVIOUS
<1>10. r \in ResultType /\ Level(d, v, g, r)
  BY <1>7, <1>8, <1>9, AncestryCases
<1>11. g # {b} => r.readiness = "DuplicateBlob"
  <2>1. g # {} /\ (Cardinality(g) = 1 <=> \E x : g = {x})
    BY <1>7, <1>9, GroupType
  <2>2. g # {b} => Cardinality(g) # 1
    BY <1>7, <1>9, <2>1
  <2> QED
    BY <1>10, <2>1, <2>2 DEF Level
<1>12. g # {b} => BlobsCopied(load)
  BY <1>7, <1>9 DEF BlobsCopied
<1>13. g = {b} =>
       /\ b.metadata = NoMetadata => r.readiness = "CorruptBlob"
       /\ b.metadata # NoMetadata /\ b.metadata.parent = 0 => r.readiness = "Ready" /\ r.chain = <<b>>
       /\ b.metadata # NoMetadata /\ b.metadata.parent # 0 /\ v # 0 =>
             \A a : a = Ancestry(d, v - 1, b.metadata.parent) =>
                    r.readiness = a.readiness /\ r.chain = Append(a.chain, b)
  BY <1>7, <1>9, <1>10 DEF Level
<1>14. CASE g # {b}
  BY <1>2, <1>3, <1>4, <1>8, <1>11, <1>12, <1>14 DEF Agrees
<1>15. ASSUME g = {b}
       PROVE  \/ r.readiness = "CorruptBlob" /\ \E j \in 1 .. k : load.chain[j].blob.manifest = Malformed
              \/ r.readiness = "DuplicateBlob" /\ BlobsCopied(load)
              \/ /\ r.readiness = "Ready" /\ r.chain \in Seq(scan.blobs)
                 /\ \A e \in 1 .. Len(r.chain) : DatsKnown(load, r.chain[e])
  <2>1. CASE blob.manifest = Malformed
    BY <1>1, <1>7, <1>13, <1>15, <2>1
  <2>2. CASE blob.manifest # Malformed /\ i = k
    <3>1. r.readiness = "Ready" /\ r.chain = <<b>>
      BY <1>7, <1>13, <1>15, <2>2
    <3>2. Len(r.chain) = 1 /\ r.chain[1] = b
      BY <3>1
    <3>3. r.chain \in Seq(scan.blobs)
      BY <1>10 DEF ResultType
    <3> QED
      BY <1>7, <2>2, <3>1, <3>2, <3>3
  <2>3. CASE blob.manifest # Malformed /\ i # k
    <3>1. PICK a : a = Ancestry(d, v - 1, b.metadata.parent)
      OBVIOUS
    <3>2. v # 0 /\ b.metadata = blob /\ blob.parent # 0
      <4>1. Name[o].version \in Version /\ Name[o].version = v - 1
        BY <1>6, <1>7, <2>3 DEF Seen
      <4>2. v - 1 # -1
        BY <4>1, BoundAssumption DEF Version
      <4> QED
        BY <1>7, <2>3, <4>2
    <3>3. r.readiness = a.readiness /\ r.chain = Append(a.chain, b)
      BY <1>7, <1>13, <1>15, <2>3, <3>1, <3>2
    <3>4. \/ a.readiness = "CorruptBlob" /\ \E j \in 1 .. k : load.chain[j].blob.manifest = Malformed
          \/ a.readiness = "DuplicateBlob" /\ BlobsCopied(load)
          \/ /\ a.readiness = "Ready" /\ a.chain \in Seq(scan.blobs)
             /\ \A e \in 1 .. Len(a.chain) : DatsKnown(load, a.chain[e])
      <4>1. a = Ancestry(d, Name[o].version, Name[o].crc)
        BY <1>7, <2>3, <3>1, <3>2
      <4> QED
        BY <1>1, <1>2, <1>6, <2>3, <4>1 DEF Agrees
    <3>5. ASSUME a.readiness = "Ready", a.chain \in Seq(scan.blobs),
                 \A e \in 1 .. Len(a.chain) : DatsKnown(load, a.chain[e])
          PROVE  /\ r.chain \in Seq(scan.blobs)
                 /\ \A e \in 1 .. Len(r.chain) : DatsKnown(load, r.chain[e])
      <4>1. b \in scan.blobs
        BY <1>7, GroupType
      <4>2. PICK S : S = {x \in scan.blobs : DatsKnown(load, x)}
        OBVIOUS
      <4>3. b \in S /\ \A e \in 1 .. Len(a.chain) : a.chain[e] \in S
        BY <1>7, <2>3, <3>5, <4>1, <4>2
      <4>4. r.chain \in Seq(scan.blobs) /\ \A e \in 1 .. Len(r.chain) : r.chain[e] \in S
        BY <3>3, <3>5, <4>1, <4>3, ChainGrown
      <4> QED
        BY <4>2, <4>4
    <3> QED
      BY <3>3, <3>4, <3>5
  <2> QED
    BY <2>1, <2>2, <2>3
<1> HIDE DEF blob, o
<1>16. CASE g = {b}
  BY <1>1, <1>2, <1>3, <1>4, <1>8, <1>15, <1>16 DEF Agrees
<1> QED
  BY <1>14, <1>16

\* The window agrees about the whole chain: from its oldest blob up.
LEMMA AllAgree ==
  ASSUME ScanInv, Len(load.chain) \in Nat,
         \A i \in 1 .. Len(load.chain) : Seen(load, i),
         NEW i \in 1 .. Len(load.chain)
  PROVE  Agrees(load, i)
<1> DEFINE k == Len(load.chain)
           T == {n \in 0 .. k - 1 : ~Agrees(load, k - n)}
<1>1. T \in SUBSET Nat
  OBVIOUS
<1>2. SUFFICES ASSUME T # {} PROVE FALSE
  <2>1. k - i \in 0 .. k - 1 /\ k - (k - i) = i
    OBVIOUS
  <2> QED
    BY <2>1
<1> HIDE DEF T
<1>3. PICK n \in T : \A m \in T : n <= m
  BY <1>1, <1>2, NatLeast
<1>4. n \in 0 .. k - 1 /\ ~Agrees(load, k - n)
  BY <1>3 DEF T
<1>5. k - n \in 1 .. k /\ (k - n # k => n - 1 \in 0 .. k - 1 /\ k - (n - 1) = k - n + 1 /\ ~(n <= n - 1))
  BY <1>4
<1>6. k - n # k => Agrees(load, k - n + 1)
  BY <1>3, <1>5 DEF T
<1>7. PICK j \in 1 .. k : j = k - n
  BY <1>5
<1>8. Agrees(load, j)
  BY <1>6, <1>7, ChainAgrees
<1> QED
  BY <1>4, <1>7, <1>8

\* The invariant gives LoadableIsReady.
LEMMA ReadyRight == Inv => LoadableIsReady
<1> DEFINE top == Head(load.chain).path
           id == IdentityOf(top)
           r == Ancestry(id[1], id[2], id[3])
<1> SUFFICES ASSUME Inv, shown = NoShown, load.pc = "loaded", Settled(Path),
                    \A p \in {load.chain[i].path : i \in DOMAIN load.chain}
                                \cup {load.sources[i] : i \in DOMAIN load.sources} : Name[p].strict
             PROVE  \/ Readiness(id) = "Ready"
                    \/ /\ Readiness(id) = "CorruptBlob"
                       /\ \/ TotalOverflows(r.chain)
                          \/ \E i \in DOMAIN load.chain : load.chain[i].blob.manifest = Malformed
                    \/ Readiness(id) = "DuplicateBlob" /\ BlobsCopied(load)
                    \/ Readiness(id) = "AmbiguousDat" /\ DatsCopied(load)
  <2>1. DOMAIN load.chain = 1 .. Len(load.chain) /\ DOMAIN load.sources = 1 .. Len(load.sources)
    BY DEF Inv, LoadInv, LoadOK, LoadType
  <2> QED
    BY <2>1 DEF LoadableIsReady, BlobsCopied, DatsCopied
<1>1. /\ DiskOK /\ ScanInv /\ LoadInv /\ touched = {} /\ Searched(load)
  BY DEF Inv, ScanInv, SearchInv, Settled
<1>2. PICK k : k = Len(load.chain)
  OBVIOUS
<1>3. /\ load.chain \in Seq(Entry) /\ load.sources \in Seq(Path) /\ k \in Nat /\ k # 0
      /\ DOMAIN load.chain = 1 .. k /\ load.spec.id \in Keyed
  BY <1>1, <1>2 DEF LoadInv, LoadOK, LoadType, ChainOK, MappingsOK
<1>4. /\ \A j \in 1 .. Len(load.chain) : Name[load.chain[j].path].strict
      /\ \A j \in 1 .. Len(load.sources) : Name[load.sources[j]].strict
  BY <1>2, <1>3
<1>5. \A i \in 1 .. Len(load.chain) : Seen(load, i)
  BY <1>1, <1>4, ChainSeen
<1>6. 1 \in 1 .. Len(load.chain) /\ Head(load.chain) = load.chain[1]
  BY <1>2, <1>3
<1>7. Agrees(load, 1) /\ Seen(load, 1)
  BY <1>1, <1>2, <1>3, <1>5, <1>6, AllAgree
<1>8. id[1] = load.spec.id /\ id[2] = Name[top].version /\ id[3] = Name[top].crc
  BY <1>6, <1>7 DEF Seen, IdentityOf
<1>9. PICK q : q = r
  OBVIOUS
<1>10. \/ /\ q.readiness = "CorruptBlob"
          /\ \E j \in 1 .. k : load.chain[j].blob.manifest = Malformed
       \/ q.readiness = "DuplicateBlob" /\ BlobsCopied(load)
       \/ /\ q.readiness = "Ready" /\ q.chain \in Seq(scan.blobs)
          /\ \A e \in 1 .. Len(q.chain) : DatsKnown(load, q.chain[e])
  BY <1>2, <1>6, <1>7, <1>8, <1>9 DEF Agrees
<1> HIDE DEF top
<1>11. PICK i : i = id
  OBVIOUS
<1>12. q = Ancestry(i[1], i[2], i[3]) /\ i[1] \in Keyed
  BY <1>3, <1>8, <1>9, <1>11
<1> HIDE DEF id, r
<1>13. CASE q.readiness = "CorruptBlob"
  <2>1. Readiness(i) = "CorruptBlob"
    BY <1>12, <1>13 DEF Readiness
  <2> QED
    BY <1>3, <1>10, <1>11, <1>13, <2>1
<1>14. CASE q.readiness = "Ready" /\ TotalOverflows(q.chain)
  <2>1. Readiness(i) = "CorruptBlob"
    BY <1>12, <1>14 DEF Readiness
  <2> QED
    BY <1>9, <1>11, <1>14, <2>1
<1>15. CASE q.readiness = "Ready" /\ ~TotalOverflows(q.chain)
  <2>1. \A e \in DOMAIN q.chain : DatsKnown(load, q.chain[e])
    BY <1>10, <1>15
  <2>2. CASE \A e \in DOMAIN q.chain : Cardinality(DatsFor(q.chain[e])) = 1
    <3>1. Readiness(i) = "Ready"
      BY <1>1, <1>12, <1>15, <2>2, ReadyMeans
    <3> QED
      BY <1>11, <3>1
  <2>3. CASE \E e \in DOMAIN q.chain : Cardinality(DatsFor(q.chain[e])) # 1
    <3>1. PICK e \in DOMAIN q.chain : Cardinality(DatsFor(q.chain[e])) # 1
      BY <2>3
    <3>2. PICK n : n = Cardinality(DatsFor(q.chain[e]))
      OBVIOUS
    <3>3. n \in Nat /\ n # 0 /\ n # 1 /\ DatsCopied(load)
      BY <1>1, <2>1, <3>1, <3>2, DatsForType DEF DatsKnown
    <3>4. n > 1
      BY <3>3
    <3>5. Readiness(i) = "AmbiguousDat"
      BY <1>12, <1>15, <3>2, <3>4 DEF Readiness
    <3> QED
      BY <1>11, <3>3, <3>5
  <2> QED
    BY <2>2, <2>3
<1>16. CASE q.readiness = "DuplicateBlob"
  <2>1. Readiness(i) = "DuplicateBlob"
    BY <1>12, <1>16 DEF Readiness
  <2> QED
    BY <1>10, <1>11, <1>16, <2>1
<1> QED
  BY <1>10, <1>13, <1>14, <1>15, <1>16

-----------------------------------------------------------------------------
(***************************************************************************)
(* The conditions of the README.  after of Needed collects the identities  *)
(* that are needed, one generation at a time.                              *)
(***************************************************************************)
Identity == Nat \X Int \X Nat

Generations(id, g) ==
    g = [n \in 0 .. MaxVersion + 1 |->
            IF n = 0 THEN {id}
            ELSE g[n - 1] \cup UNION {ParentIdentity(i) : i \in g[n - 1]}]

\* A generation of identities, with those that it names as parents.
LEMMA ParentsType ==
  ASSUME ScanInv, NEW S \in SUBSET Identity
  PROVE  S \cup UNION {ParentIdentity(i) : i \in S} \in SUBSET Identity
<1> SUFFICES ASSUME NEW i \in S, NEW j \in ParentIdentity(i) PROVE j \in Identity
  OBVIOUS
<1>1. i[1] \in Nat /\ i[2] - 1 \in Int
  BY DEF Identity
<1>2. PICK b \in Group(i) : b.metadata # NoMetadata /\ j = <<i[1], i[2] - 1, b.metadata.parent>>
  BY DEF ParentIdentity
<1>3. b.metadata \in BlobType
  BY <1>2, GroupType
<1>4. b.metadata.parent \in Nat
  BY <1>3 DEF BlobType, Crc
<1> QED
  BY <1>1, <1>2, <1>4 DEF Identity

\* The recursion over the generations defines a function.
LEMMA GenerationsExist ==
  ASSUME ScanInv, NEW id \in Identity
  PROVE  \E g : Generations(id, g) /\ g \in [0 .. MaxVersion + 1 -> SUBSET Identity]
<1> DEFINE S == SUBSET Identity
           last == MaxVersion + 1
           one == [s \in S |-> s \cup UNION {ParentIdentity(i) : i \in s}]
           step == [n \in 1 .. last |-> one]
<1>1. last \in Nat /\ {id} \in S
  BY BoundAssumption
<1>2. one \in [S -> S]
  <2>1. \A s \in S : s \cup UNION {ParentIdentity(i) : i \in s} \in S
    BY ParentsType
  <2> HIDE DEF S
  <2> QED
    BY <2>1
<1>3. step \in [1 .. last -> [S -> S]]
  <2> HIDE DEF one, S, last
  <2> QED
    BY <1>2
<1>4. \E g \in [0 .. last -> S] : Iterates(g, {id}, step, last)
  <2>1. PICK a : a = {id}
    OBVIOUS
  <2> HIDE DEF step, S, last
  <2>2. a \in S
    BY <1>1, <2>1
  <2> QED
    BY <1>1, <1>3, <2>1, <2>2, IterationExists
<1>5. PICK g \in [0 .. last -> S] : Iterates(g, {id}, step, last)
  BY <1>4
<1>6. g = [n \in 0 .. last |-> IF n = 0 THEN {id} ELSE step[n][g[n - 1]]]
  BY <1>5 DEF Iterates
<1>7. ASSUME NEW n \in 0 .. last, n # 0
      PROVE  step[n][g[n - 1]] = g[n - 1] \cup UNION {ParentIdentity(i) : i \in g[n - 1]}
  <2>1. n \in 1 .. last /\ n - 1 \in 0 .. last
    BY <1>1, <1>7
  <2>2. g[n - 1] \in S /\ step[n] = one
    <3> HIDE DEF one, S, last
    <3> QED
      BY <1>5, <2>1 DEF step
  <2> HIDE DEF S, step
  <2> QED
    BY <2>2
<1>8. g = [n \in 0 .. last |->
              IF n = 0 THEN {id} ELSE g[n - 1] \cup UNION {ParentIdentity(i) : i \in g[n - 1]}]
  <2> HIDE DEF step, S, last
  <2> QED
    BY <1>6, <1>7
<1> QED
  BY <1>5, <1>8 DEF Generations

\* What is needed: the identity, and whatever those needed before name as
\* their parents, as many generations as there are versions.
LEMMA NeededCases ==
  ASSUME ScanInv, NEW id \in Identity
  PROVE  \E g : /\ Needed(id) = g[MaxVersion + 1] /\ g[0] = {id}
                /\ \A n \in 1 .. MaxVersion + 1 :
                      g[n] = g[n - 1] \cup UNION {ParentIdentity(i) : i \in g[n - 1]}
<1> DEFINE h == CHOOSE g : Generations(id, g)
<1>1. Needed(id) = h[MaxVersion + 1]
  BY DEF Needed, Generations
<1>2. Generations(id, h)
  BY GenerationsExist
<1> HIDE DEF h
<1>3. \A n \in 0 .. MaxVersion + 1 :
         h[n] = IF n = 0 THEN {id} ELSE h[n - 1] \cup UNION {ParentIdentity(i) : i \in h[n - 1]}
  BY <1>2 DEF Generations
<1>4. 0 \in 0 .. MaxVersion + 1 /\ \A n \in 1 .. MaxVersion + 1 : n \in 0 .. MaxVersion + 1 /\ n # 0
  BY BoundAssumption
<1> QED
  BY <1>1, <1>3, <1>4

\* No generation loses what an earlier one has.
LEMMA GenerationsGrow ==
  ASSUME NEW g,
         \A n \in 1 .. MaxVersion + 1 :
            g[n] = g[n - 1] \cup UNION {ParentIdentity(i) : i \in g[n - 1]},
         NEW m \in 0 .. MaxVersion + 1, NEW i \in g[m]
  PROVE  i \in g[MaxVersion + 1]
<1> DEFINE T == {n \in m .. MaxVersion + 1 : i \notin g[n]}
<1>1. MaxVersion \in Nat /\ m \in Nat
  BY BoundAssumption
<1>2. T \in SUBSET Nat
  BY <1>1
<1>3. SUFFICES ASSUME T # {} PROVE FALSE
  BY <1>1
<1> HIDE DEF T
<1>4. PICK n \in T : \A k \in T : n <= k
  BY <1>2, <1>3, NatLeast
<1>5. n \in m .. MaxVersion + 1 /\ i \notin g[n]
  BY <1>4 DEF T
<1>6. n # m
  BY <1>5
<1>7. n \in 1 .. MaxVersion + 1 /\ n - 1 \in m .. MaxVersion + 1 /\ ~(n <= n - 1)
  BY <1>1, <1>5, <1>6
<1>8. i \in g[n - 1]
  BY <1>4, <1>7 DEF T
<1>9. g[n] = g[n - 1] \cup UNION {ParentIdentity(j) : j \in g[n - 1]}
  BY <1>7
<1> QED
  BY <1>5, <1>8, <1>9

\* A right chain has every identity that is needed.
LEMMA ChainNeeded ==
  ASSUME ScanInv, NEW id \in Identity, NEW ch, RightChain(id[1], id[2], id[3], ch)
  PROVE  \A i \in Needed(id) : \E j \in 1 .. Len(ch) : i = IdentityOf(ch[j].path)
<1> DEFINE In(i) == \E j \in 1 .. Len(ch) : i = IdentityOf(ch[j].path)
<1>1. PICK g : /\ Needed(id) = g[MaxVersion + 1] /\ g[0] = {id}
               /\ \A n \in 1 .. MaxVersion + 1 :
                     g[n] = g[n - 1] \cup UNION {ParentIdentity(i) : i \in g[n - 1]}
  BY NeededCases
<1>2. MaxVersion \in Nat
  BY BoundAssumption
<1>3. PICK k : k = Len(ch)
  OBVIOUS
<1>4. k \in Nat /\ k # 0 /\ k \in 1 .. k /\ id = <<id[1], id[2], id[3]>> /\ id[2] \in Int
      /\ k - k = 0
  BY <1>3 DEF RightChain, Identity
<1>5. In(id)
  <2>1. /\ Name[ch[k].path].depot = id[1] /\ Name[ch[k].path].version = id[2] - (k - k)
        /\ Name[ch[k].path].crc = id[3]
    BY <1>3, <1>4 DEF RightChain
  <2>2. id = IdentityOf(ch[k].path)
    BY <1>4, <2>1 DEF IdentityOf
  <2> QED
    BY <1>3, <1>4, <2>2
<1>6. ASSUME NEW i, In(i), NEW e \in ParentIdentity(i) PROVE In(e)
  <2>1. PICK j \in 1 .. k : i = IdentityOf(ch[j].path)
    BY <1>3, <1>6
  <2>2. /\ Group(i) = {ch[j]}
        /\ Name[ch[j].path].depot = id[1] /\ Name[ch[j].path].version = id[2] - (k - j)
        /\ j = 1 => ch[j].metadata.parent = 0
        /\ j # 1 => ch[j].metadata.parent = Name[ch[j - 1].path].crc
    BY <1>3, <2>1 DEF RightChain
  <2>3. ch[j].metadata.parent # 0 /\ e = <<i[1], i[2] - 1, ch[j].metadata.parent>>
    BY <1>6, <2>2 DEF ParentIdentity
  <2>4. j # 1 /\ j - 1 \in 1 .. k /\ (id[2] - (k - j)) - 1 = id[2] - (k - (j - 1))
    BY <1>4, <2>2, <2>3
  <2>5. Name[ch[j - 1].path].depot = id[1] /\ Name[ch[j - 1].path].version = id[2] - (k - (j - 1))
    BY <1>3, <2>4 DEF RightChain
  <2>6. i[1] = id[1] /\ i[2] = id[2] - (k - j)
    BY <2>1, <2>2 DEF IdentityOf
  <2>7. e = IdentityOf(ch[j - 1].path)
    BY <2>2, <2>3, <2>4, <2>5, <2>6 DEF IdentityOf
  <2> QED
    BY <1>3, <2>4, <2>7
<1> HIDE DEF In
<1> DEFINE T == {n \in 0 .. MaxVersion + 1 : ~(\A i \in g[n] : In(i))}
<1>7. T \in SUBSET Nat
  OBVIOUS
<1>8. SUFFICES ASSUME T # {} PROVE FALSE
  BY <1>1, <1>2 DEF In
<1> HIDE DEF T
<1>9. PICK n \in T : \A m \in T : n <= m
  BY <1>7, <1>8, NatLeast
<1>10. n \in 0 .. MaxVersion + 1 /\ ~(\A i \in g[n] : In(i))
  BY <1>9 DEF T
<1>11. n # 0
  BY <1>1, <1>5, <1>10
<1>12. n \in 1 .. MaxVersion + 1 /\ n - 1 \in 0 .. MaxVersion + 1 /\ ~(n <= n - 1)
  BY <1>2, <1>10, <1>11
<1>13. \A i \in g[n - 1] : In(i)
  BY <1>9, <1>12 DEF T
<1>14. g[n] = g[n - 1] \cup UNION {ParentIdentity(i) : i \in g[n - 1]}
  BY <1>1, <1>12
<1> QED
  BY <1>6, <1>10, <1>13, <1>14

\* If all that is needed is there and has its DAT, the ancestry is found.
LEMMA NeededReady ==
  ASSUME ScanInv, NEW id \in Identity, id[2] \in Version,
         NEW r, r = Ancestry(id[1], id[2], id[3]),
         \A i \in Needed(id) : /\ Cardinality(Group(i)) = 1
                               /\ \A b \in Group(i) : /\ b.metadata # NoMetadata
                                                      /\ Cardinality(DatsFor(b)) = 1
  PROVE  r.readiness = "Ready" /\ \A e \in DOMAIN r.chain : Cardinality(DatsFor(r.chain[e])) = 1
<1>1. PICK g : /\ Needed(id) = g[MaxVersion + 1] /\ g[0] = {id}
               /\ \A n \in 1 .. MaxVersion + 1 :
                     g[n] = g[n - 1] \cup UNION {ParentIdentity(i) : i \in g[n - 1]}
  BY NeededCases
<1>2. PICK d : d = id[1]
  OBVIOUS
<1>3. PICK v : v = id[2]
  OBVIOUS
<1>4. MaxVersion \in Nat /\ v \in 0 .. MaxVersion /\ id[3] \in Crc /\ id = <<d, v, id[3]>>
  BY <1>2, <1>3, BoundAssumption DEF Version, Identity, Crc
<1> DEFINE Fine(a) == /\ a.readiness = "Ready" /\ a.chain \in Seq(scan.blobs)
                      /\ \A e \in 1 .. Len(a.chain) : Cardinality(DatsFor(a.chain[e])) = 1
           Bad(u, c) == <<d, u, c>> \in g[v - u] /\ ~Fine(Ancestry(d, u, c))
           T == {u \in 0 .. v : \E c \in Crc : Bad(u, c)}
<1>5. T \in SUBSET Nat
  BY <1>4
<1>6. SUFFICES ASSUME T # {} PROVE FALSE
  <2>1. v - v = 0 /\ v \in 0 .. v
    BY <1>4
  <2>2. <<d, v, id[3]>> \in g[v - v]
    BY <1>1, <1>4, <2>1
  <2>3. T = {} => ~Bad(v, id[3])
    <3> HIDE DEF Bad
    <3> QED
      BY <1>4, <2>1
  <2> HIDE DEF T
  <2>4. T = {} => Fine(r)
    <3> HIDE DEF Fine
    <3> QED
      BY <1>2, <1>3, <2>2, <2>3
  <2> QED
    BY <2>4
<1> HIDE DEF T
<1>7. PICK u \in T : \A t \in T : u <= t
  BY <1>5, <1>6, NatLeast
<1>8. u \in 0 .. v /\ \E c \in Crc : Bad(u, c)
  BY <1>7 DEF T
<1>9. PICK c \in Crc : Bad(u, c)
  BY <1>8
<1>10. PICK i : i = <<d, u, c>>
  OBVIOUS
<1>11. PICK a : a = Ancestry(d, u, c)
  OBVIOUS
<1>12. i \in g[v - u] /\ ~Fine(a)
  BY <1>9, <1>10, <1>11
<1>13. v - u \in 0 .. MaxVersion + 1 /\ v - u + 1 \in 1 .. MaxVersion + 1
       /\ v - u + 1 \in 0 .. MaxVersion + 1 /\ (v - u + 1) - 1 = v - u /\ u \in Version
  BY <1>4, <1>8 DEF Version
<1>14. i \in Needed(id)
  BY <1>1, <1>12, <1>13, GenerationsGrow
<1>15. PICK b : Group(i) = {b}
  BY <1>14, GroupType
<1>16. b.metadata # NoMetadata /\ Cardinality(DatsFor(b)) = 1 /\ b \in scan.blobs
  BY <1>14, <1>15, GroupType
<1>17. PICK group : group = Group(<<d, u, c>>)
  OBVIOUS
<1>18. a \in ResultType /\ Level(d, u, group, a)
  BY <1>11, <1>13, <1>17, AncestryCases
<1>19. /\ b.metadata.parent \in Crc
       /\ b.metadata.parent = 0 => a.readiness = "Ready" /\ a.chain = <<b>>
       /\ b.metadata.parent # 0 /\ u # 0 =>
             \A w : w = Ancestry(d, u - 1, b.metadata.parent) =>
                    a.readiness = w.readiness /\ a.chain = Append(w.chain, b)
  BY <1>10, <1>15, <1>16, <1>17, <1>18 DEF Level
<1>20. CASE b.metadata.parent = 0
  <2>1. a.readiness = "Ready" /\ a.chain = <<b>>
    BY <1>19, <1>20
  <2>2. Len(a.chain) = 1 /\ a.chain[1] = b
    BY <2>1
  <2>3. a.chain \in Seq(scan.blobs)
    BY <1>18 DEF ResultType
  <2> QED
    BY <1>12, <1>16, <2>1, <2>2, <2>3
<1>21. CASE b.metadata.parent # 0
  <2>1. PICK j : j = <<d, u - 1, b.metadata.parent>>
    OBVIOUS
  <2>2. j \in g[v - u + 1]
    <3>1. j \in ParentIdentity(i)
      BY <1>10, <1>15, <1>16, <1>21, <2>1 DEF ParentIdentity
    <3>2. g[v - u + 1] = g[v - u] \cup UNION {ParentIdentity(x) : x \in g[v - u]}
      BY <1>1, <1>13
    <3> QED
      BY <1>12, <3>1, <3>2
  <2>3. u # 0
    <3>1. j \in Needed(id)
      BY <1>1, <1>13, <2>2, GenerationsGrow
    <3>2. PICK x : Group(j) = {x}
      BY <3>1, GroupType
    <3>3. x \in BlobRecord /\ IdentityOf(x.path) = j
      BY <3>2, GroupType
    <3>4. Name[x.path].version = u - 1 /\ Name[x.path].version \in Version
      BY <2>1, <3>3, NameTypeAssumption DEF IdentityOf, BlobRecord, NameType
    <3>5. u - 1 \in Nat
      BY <3>4, BoundAssumption DEF Version
    <3> QED
      BY <3>5
  <2>4. u - 1 \in 0 .. v /\ ~(u <= u - 1) /\ v - (u - 1) = v - u + 1
    <3>1. u \in 0 .. v /\ v \in Int
      BY <1>4, <1>8
    <3> HIDE DEF Bad
    <3> QED
      BY <2>3, <3>1
  <2>5. ~Bad(u - 1, b.metadata.parent)
    <3> HIDE DEF Bad
    <3> QED
      BY <1>7, <1>19, <2>4 DEF T
  <2>6. PICK w : w = Ancestry(d, u - 1, b.metadata.parent)
    OBVIOUS
  <2>7. <<d, u - 1, b.metadata.parent>> \in g[v - (u - 1)]
    BY <2>1, <2>2, <2>4
  <2>8. Fine(w)
    <3> HIDE DEF Fine
    <3> QED
      BY <2>5, <2>6, <2>7
  <2>9. a.readiness = w.readiness /\ a.chain = Append(w.chain, b)
    BY <1>19, <1>21, <2>3, <2>6
  <2>10. Fine(a)
    <3>1. PICK S : S = {x \in scan.blobs : Cardinality(DatsFor(x)) = 1}
      OBVIOUS
    <3>2. /\ w.chain \in Seq(scan.blobs) /\ b \in S
          /\ \A e \in 1 .. Len(w.chain) : w.chain[e] \in S
      BY <1>16, <2>8, <3>1
    <3>3. a.chain \in Seq(scan.blobs) /\ \A e \in 1 .. Len(a.chain) : a.chain[e] \in S
      BY <1>16, <2>9, <3>2, ChainGrown
    <3> QED
      BY <2>8, <2>9, <3>1, <3>3
  <2> QED
    BY <1>12, <2>10
<1> QED
  BY <1>20, <1>21

\* The invariant gives ReadyExactly.
LEMMA ExactlyRight == Inv => ReadyExactly
<1> SUFFICES ASSUME Inv, NEW id \in Listed
             PROVE  (Readiness(id) = "Ready") <=>
                        (MeetsReadme(id) /\ ~TotalOverflows(Ancestry(id[1], id[2], id[3]).chain))
  BY DEF ReadyExactly
<1>1. ScanInv
  BY DEF Inv
<1>2. id \in Identity /\ id[2] \in Version /\ id[3] \in Crc
  BY <1>1, ListedType, BoundAssumption DEF Identity, Version, Crc
<1>3. PICK r : r = Ancestry(id[1], id[2], id[3])
  OBVIOUS
<1>4. ASSUME r.readiness = "Ready",
             \A i \in DOMAIN r.chain : Cardinality(DatsFor(r.chain[i])) = 1,
             NEW i \in Needed(id)
      PROVE  /\ Cardinality(Group(i)) = 1
             /\ \A b \in Group(i) : /\ b.metadata # NoMetadata
                                    /\ Cardinality(DatsFor(b)) = 1
  <2>1. PICK ch : ch = r.chain
    OBVIOUS
  <2>2. RightChain(id[1], id[2], id[3], ch)
    BY <1>1, <1>2, <1>3, <1>4, <2>1, ReadyChain
  <2>3. PICK j \in 1 .. Len(ch) : i = IdentityOf(ch[j].path)
    BY <1>1, <1>2, <2>2, ChainNeeded
  <2>4. Group(i) = {ch[j]} /\ ch[j].metadata # NoMetadata /\ DOMAIN ch = 1 .. Len(ch)
    <3>1. Group(IdentityOf(ch[j].path)) = {ch[j]} /\ ch[j].metadata # NoMetadata
      BY <2>2 DEF RightChain
    <3>2. DOMAIN ch = 1 .. Len(ch)
      BY <2>2, RightChainType
    <3> QED
      BY <2>3, <3>1, <3>2
  <2>5. Cardinality(Group(i)) = 1
    BY <2>4, FS_Singleton
  <2> QED
    BY <1>4, <2>1, <2>3, <2>4, <2>5
<1>5. ASSUME \A i \in Needed(id) : /\ Cardinality(Group(i)) = 1
                                   /\ \A b \in Group(i) : /\ b.metadata # NoMetadata
                                                          /\ Cardinality(DatsFor(b)) = 1
      PROVE  r.readiness = "Ready" /\ \A e \in DOMAIN r.chain : Cardinality(DatsFor(r.chain[e])) = 1
  BY <1>1, <1>2, <1>3, <1>5, NeededReady
<1>6. Readiness(id) = "Ready" <=>
         /\ r.readiness = "Ready"
         /\ ~TotalOverflows(r.chain)
         /\ \A i \in DOMAIN r.chain : Cardinality(DatsFor(r.chain[i])) = 1
         /\ id[1] \in Keyed
  BY <1>1, <1>3, ReadyMeans
<1> QED
  BY <1>3, <1>4, <1>5, <1>6 DEF MeetsReadme

-----------------------------------------------------------------------------
(***************************************************************************)
(* Theorems.                                                               *)
(***************************************************************************)
\* Whatever happens to the files while a revision is resolved, its chain has
\* one blob for each version down to one without a parent, each the only
\* candidate that its successor's name and content allow.
THEOREM ChainsAreComplete == Spec => []AncestryComplete
<1>1. Inv => AncestryComplete
  BY AncestryRight DEF Inv
<1> QED
  BY <1>1, Invariance, PTL

\* What is loaded is the revision asked for, from the exact files if there are
\* any, and every file of it is served from the newest archive that maps it.
THEOREM LoadedIsAskedFor == Spec => []RevisionIsTheOneAskedFor
<1>1. Inv => RevisionIsTheOneAskedFor
  BY RevisionRight DEF Inv
<1> QED
  BY <1>1, Invariance, PTL

\* The classification shows a revision as ready exactly under the conditions in
\* the README, however long its chain and whatever else is in the records.
THEOREM ReadyIsExact == Spec => []ReadyExactly
BY ExactlyRight, Invariance, PTL

\* A revision shown as ready whose files stay as they were is loaded by the
\* worker from the same files, or fails over what the scan does not look into: a
\* DAT that does not open, its tables, or two files with the same path.
THEOREM WhatIsShownLoads == Spec => []ReadyLoads
BY LoadsRight, Invariance, PTL

\* What the worker loads from a directory of blobs and one of DATs, properly named
\* and all as they were, the window shows as ready, save for an overflow, an
\* unreadable manifest of an ancestor, or a copy in another folder.
THEOREM WhatLoadsIsShown == Spec => []LoadableIsReady
BY ReadyRight, Invariance, PTL

=============================================================================
