---------------------------- MODULE FileContent -----------------------------
(***************************************************************************)
(* The content of one file node of the VirtualTree (virtual_tree.cpp): an  *)
(* immutable archive file of which the first baseLimit bytes still show    *)
(* through, under a sparse set of dirty pages held in RAM.                 *)
(*                                                                         *)
(* VirtualTree::write stages every page it needs before it publishes any   *)
(* of them, and a staged page may need the archive bytes it will not       *)
(* overwrite ("hydration"), which can fail.  The stages are separate       *)
(* steps here, so that a write abandoned half way is a behaviour; the      *)
(* tree's mutex is held throughout, so no other call on the node runs in   *)
(* between.  The quota test, which comes before the first stage and        *)
(* rejects a write without touching the node, is in module VirtualTree.    *)
(*                                                                         *)
(* Spec has memory enough.  In SpecOutOfMemory the publishing of staged    *)
(* pages may stop half way for lack of it.                                 *)
(*                                                                         *)
(* An operator whose comment begins with "Fault:" is no part of the model. *)
(* It is the definition after it with a plausible mistake in it, and the   *)
(* property that notices the mistake is named there.                       *)
(***************************************************************************)
EXTENDS Integers, Sequences, FiniteSets

CONSTANTS
    Byte,       \* the values of a byte
    Zero,       \* the byte 0
    PageSize,   \* bytes in a dirty page, page_size in the code
    MaxSize,    \* largest value of a file size (2^64 - 1 in the code)
    Inputs,     \* the non-empty byte strings a caller writes
    BaseSize,   \* size of the archive file, 0 for a file created on the drive
    Base,       \* the bytes of the archive file
    NoWrite     \* the value of request when no write is in progress

ASSUME PageSizeAssumption == PageSize \in Nat \ {0}
ASSUME SizeAssumption == MaxSize \in Nat \ {0} /\ BaseSize \in 0 .. MaxSize
ASSUME ByteAssumption == Zero \in Byte /\ Base \in [0 .. BaseSize - 1 -> Byte]
ASSUME InputAssumption == \A input \in Inputs : input \in Seq(Byte) /\ input # <<>>

VARIABLES
    size,       \* Node::size
    baseLimit,  \* Node::base_limit
    dirty,      \* the keys of Node::dirty_pages
    buf,        \* the bytes of the dirty pages by file position, Zero elsewhere
    request,    \* the write in progress: its arguments and the next page to stage
    staged,     \* the pages in write()'s local vector staged
    stage       \* their bytes by file position, Zero elsewhere

vars == <<size, baseLimit, dirty, buf, request, staged, stage>>
node == <<size, baseLimit, dirty, buf>>

-----------------------------------------------------------------------------
Position == 0 .. MaxSize - 1
PageOf(i) == i \div PageSize
Page == 0 .. PageOf(MaxSize - 1)
NoPages == [i \in Position |-> Zero]

Request == [offset : 0 .. MaxSize, input : Inputs, page : 0 .. MaxSize]

ASSUME NoWriteAssumption == NoWrite \notin Request

Smaller(a, b) == IF a < b THEN a ELSE b

\* What VirtualTree::read copies out for a position below size.
ByteAt(i) == IF PageOf(i) \in dirty THEN buf[i]
             ELSE IF i < baseLimit THEN Base[i]
             ELSE Zero

\* The range of a write and its first and last page.
EndOf(r) == r.offset + Len(r.input)
FirstPage(r) == PageOf(r.offset)
LastPage(r) == PageOf(EndOf(r) - 1)
Covers(r, i) == r.offset <= i /\ i < EndOf(r)

\* The archive bytes of page p that are still visible: the first
\* PreservedAmount(p) bytes of the page.
PreservedEnd == Smaller(size, baseLimit)
PreservedAmount(p) == Smaller(PageSize, PreservedEnd - p * PageSize)
HasPreserved(p) == p * PageSize < PreservedEnd

\* Fault: looks at the end of the write only (StagedPagesMatch).
WriteEndsAfterPreserved(r, p) == EndOf(r) - p * PageSize >= PreservedAmount(p)

\* write_covers_preserved: the write replaces all of them, so the page need
\* not be read from the archive.
WriteCoversPreserved(r, p) ==
    /\ r.offset <= p * PageSize
    /\ EndOf(r) - p * PageSize >= PreservedAmount(p)

\* Fault: looks at the start of the write only (RefinesByteFile).
HydratesOnlyBeforeWrite(r, p) == HasPreserved(p) /\ r.offset > p * PageSize

NeedsHydration(r, p) == HasPreserved(p) /\ ~WriteCoversPreserved(r, p)

\* The bytes that staging page p puts in it.
StagedByte(r, p, i) ==
    IF NeedsHydration(r, p) /\ i - p * PageSize < PreservedAmount(p) THEN Base[i]
    ELSE Zero

-----------------------------------------------------------------------------
Init ==
    /\ size = BaseSize
    /\ baseLimit = BaseSize
    /\ dirty = {}
    /\ buf = NoPages
    /\ request = NoWrite
    /\ staged = {}
    /\ stage = NoPages

\* Fault: no test that the end of the write is a valid file size (TypeOK).
FitsAnywhere(offset, input) == TRUE

\* The test that offset + size of the input does not overflow.
Fits(offset, input) == Len(input) <= MaxSize - offset

\* The write has passed the range check and the quota test.
BeginWrite(offset, input) ==
    /\ request = NoWrite
    /\ Fits(offset, input)
    /\ request' = [offset |-> offset, input |-> input, page |-> PageOf(offset)]
    /\ UNCHANGED <<node, staged, stage>>

\* One turn of the staging loop.
StagePage ==
    /\ request # NoWrite
    /\ LET p == request.page
       IN  /\ p <= LastPage(request)
           /\ request' = [request EXCEPT !.page = p + 1]
           /\ IF p \in dirty
              THEN UNCHANGED <<staged, stage>>
              ELSE /\ staged' = staged \cup {p}
                   /\ stage' = [i \in Position |-> IF PageOf(i) = p
                                                   THEN StagedByte(request, p, i)
                                                   ELSE stage[i]]
    /\ UNCHANGED node

EndWrite == request' = NoWrite /\ staged' = {} /\ stage' = NoPages

\* The archive returns fewer bytes than asked for, or throws: io_error leaves
\* write() and the staged pages are dropped.
HydrationFails ==
    /\ request # NoWrite
    /\ request.page <= LastPage(request)
    /\ request.page \notin dirty
    /\ NeedsHydration(request, request.page)
    /\ EndWrite
    /\ UNCHANGED node

\* Fault: leaves the staging loop one page early (PagesCommitTogether).
LastPageReached == request.page >= LastPage(request)

\* The staging loop has run over all the pages of the write.
AllStaged == request.page > LastPage(request)

\* All pages are staged: publish them, copy the input in, extend the file.
CommitWrite ==
    /\ request # NoWrite
    /\ AllStaged
    /\ dirty' = dirty \cup staged
    /\ buf' = [i \in Position |->
                  IF Covers(request, i) THEN request.input[i - request.offset + 1]
                  ELSE IF PageOf(i) \in staged THEN stage[i]
                  ELSE buf[i]]
    /\ size' = IF EndOf(request) > size THEN EndOf(request) ELSE size
    /\ EndWrite
    /\ UNCHANGED baseLimit

\* Fault: keeps one page too many (NothingSurvivesTruncation).
FirstRemovedRoundedUp(newSize) == PageOf(newSize) + 1

\* The first page that lies wholly beyond the new end of the file.
FirstRemoved(newSize) == PageOf(newSize) + (IF newSize % PageSize # 0 THEN 1 ELSE 0)

\* Fault: archive bytes stay visible under a later extension
\* (NothingSurvivesTruncation).
LimitKept(newSize) == baseLimit

\* base_limit after a truncation.
LimitAfter(newSize) == Smaller(baseLimit, newSize)

\* Fault: the old bytes of the last page stay in it (NothingSurvivesTruncation).
NothingCleared(newSize, i) == FALSE

\* The tail of the page in which the new end falls.
InCutTail(newSize, i) == PageOf(i) = PageOf(newSize) /\ i >= newSize

\* VirtualTree::resize.  A truncation forgets the archive bytes and the dirty
\* pages beyond the new end and clears the tail of the page the end falls in.
Resize(newSize) ==
    /\ request = NoWrite
    /\ size' = newSize
    /\ IF newSize < size
       THEN /\ baseLimit' = LimitAfter(newSize)
            /\ dirty' = {p \in dirty : p < FirstRemoved(newSize)}
            /\ buf' = [i \in Position |->
                          IF PageOf(i) \notin dirty' \/ InCutTail(newSize, i)
                          THEN Zero ELSE buf[i]]
       ELSE UNCHANGED <<baseLimit, dirty, buf>>
    /\ UNCHANGED <<request, staged, stage>>

Next ==
    \/ \E offset \in 0 .. MaxSize, input \in Inputs : BeginWrite(offset, input)
    \/ StagePage
    \/ HydrationFails
    \/ CommitWrite
    \/ \E newSize \in 0 .. MaxSize : Resize(newSize)

Spec == Init /\ [][Next]_vars

\* emplace() finds no memory: the staged pages before the one it was for have
\* been published, in the order in which they were staged, and the write ends
\* without copying its input in.
PublishFails ==
    /\ request # NoWrite
    /\ AllStaged
    /\ \E missing \in staged :
          LET published == {p \in staged : p < missing}
          IN  /\ dirty' = dirty \cup published
              /\ buf' = [i \in Position |-> IF PageOf(i) \in published THEN stage[i] ELSE buf[i]]
    /\ EndWrite
    /\ UNCHANGED <<size, baseLimit>>

\* A process that may run short of memory.  The worker survives it: the
\* callback answers STATUS_INSUFFICIENT_RESOURCES.
SpecOutOfMemory == Init /\ [][Next \/ PublishFails]_vars

-----------------------------------------------------------------------------
(***************************************************************************)
(* Properties.                                                             *)
(***************************************************************************)

\* Every variable has its type, and a page that is not dirty holds no bytes.
TypeOK ==
    /\ size \in 0 .. MaxSize
    /\ baseLimit \in 0 .. MaxSize
    /\ dirty \subseteq Page
    /\ buf \in [Position -> Byte]
    /\ request \in Request \cup {NoWrite}
    /\ staged \subseteq Page
    /\ stage \in [Position -> Byte]

\* Truncating and extending a file never lets archive bytes show again beyond
\* the point of truncation: what can show through is bounded by both the
\* archive file and every size the file has had since (resize, base_limit).
BaseWithinFile == baseLimit <= size /\ baseLimit <= BaseSize

\* The bytes of a dirty page beyond the end of the file are zero, so that
\* extending the file later (by resize or by a write past the end) exposes
\* zeros and no old data.
TailIsZero == \A i \in Position : i >= size /\ PageOf(i) \in dirty => buf[i] = Zero

\* A truncation gives back every page wholly beyond the new end, so the RAM
\* charged to the quota is bounded by the size of the file.
NoPageBeyondEnd == \A p \in dirty : p * PageSize < size

\* Whatever sequence of truncations, extensions and writes leads there, nothing
\* of what was cut off a file comes back in it, nor costs quota.
NothingSurvivesTruncation == BaseWithinFile /\ TailIsZero /\ NoPageBeyondEnd

\* While a write is being staged: the pages staged are exactly those it has
\* passed and found missing, and each holds what the file shows there now,
\* except in positions that the write will replace.
StagedPagesMatch ==
    IF request = NoWrite THEN staged = {}
    ELSE /\ EndOf(request) <= MaxSize
         /\ request.page >= FirstPage(request)
         /\ request.page <= LastPage(request) + 1
         /\ staged \cap dirty = {}
         /\ \A p \in staged : p >= FirstPage(request) /\ p < request.page
         /\ \A p \in Page : p >= FirstPage(request) /\ p < request.page
                                => p \in dirty \cup staged
         /\ \A i \in Position : PageOf(i) \in staged =>
                Covers(request, i) \/ stage[i] = ByteAt(i)

\* A write publishes all of its pages or none: pages become dirty only
\* together with every other page of the same write, so a write that fails
\* half way leaves none behind.
PagesCommitTogether ==
    [][\A p \in dirty' \ dirty :
          /\ request # NoWrite
          /\ \A q \in FirstPage(request) .. LastPage(request) : q \in dirty']_vars

\* The bytes of a file are its archive's until a write replaces them: a step
\* that leaves position i in the file changes its byte only to what a write
\* puts there.  "Never silently fill missing archive data" (CONTRIBUTING.md).
NeverFilledSilently ==
    [][\A i \in Position :
          i < size /\ i < size' /\ ByteAt(i)' # ByteAt(i) =>
              /\ request # NoWrite
              /\ Covers(request, i)
              /\ ByteAt(i)' = request.input[i - request.offset + 1]]_vars

\* The paged, copy-on-write file is a plain file of bytes: reads give back what
\* was written, zeros where nothing was, and archive bytes elsewhere; staging
\* and a failed hydration are invisible.
View == [i \in 0 .. size - 1 |-> ByteAt(i)]

Abstract == INSTANCE ByteFile WITH
    length <- size, bytes <- View, Initial <- Base

RefinesByteFile == Abstract!Spec

=============================================================================
