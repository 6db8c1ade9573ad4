--------------------------- MODULE FileCallbacks ----------------------------
(***************************************************************************)
(* The callbacks through which WinFsp reads, writes, sizes and describes   *)
(* one file or directory (winfsp_filesystem.cpp).  A callback makes        *)
(* several calls to the tree, each of which locks it separately: it asks   *)
(* what the node is, decides, changes the node in one or two calls, and    *)
(* asks again for its answer.  Each of these calls is a step here.  That   *)
(* no other callback on the file comes in between is left to the driver,   *)
(* which locks each file (winfsp.h:122); that lock is external.            *)
(*                                                                         *)
(* The tree's file is module ByteFile, which FileContent implements.  Of   *)
(* pages, quota and archives all that is known here is how they let a read *)
(* or a write of the tree fail: any byte that the archive ever had may     *)
(* still have to be read from it.  Numbers are as the code's, narrower: a  *)
(* size has the values 0 .. MaxSize, the time of a node, in ticks since    *)
(* the Unix epoch, those up to MaxTicks, and the driver's time is larger   *)
(* by Epoch.                                                               *)
(*                                                                         *)
(* Left out: null pointers, and the deletion that Cleanup may make, which  *)
(* is in module WinFspFileSystem.                                          *)
(*                                                                         *)
(* An operator whose comment begins with "Fault:" is no part of the model. *)
(* It is the definition after it with a plausible mistake in it, and the   *)
(* property that notices the mistake is named there.                       *)
(***************************************************************************)
EXTENDS Integers, Sequences

CONSTANTS
    Client,         \* whose calls WinFsp passes on at the same time
    NoCall,         \* no call
    Requests,       \* the calls they make, records with a field kind
    Byte, Zero,     \* the values of a byte, and the byte 0
    Attribute,      \* the bits of a DWORD of attributes
    MaxSize,        \* the largest UINT64, as a size
    AllocationUnit, \* kAllocationUnit
    Quota,          \* write_quota(), in bytes
    Epoch,          \* kWindowsEpochTicks
    MaxTicks,       \* the largest int64
    Now,            \* what system_clock::now() returns, in ticks
    Initial         \* the bytes of the file when it is projected

ASSUME SizeAssumption == MaxSize \in Nat \ {0} /\ AllocationUnit \in 1 .. MaxSize /\ Quota \in Nat
ASSUME TimeAssumption ==
    Epoch \in Nat \ {0} /\ MaxTicks \in Nat /\ MaxTicks > Epoch /\ Now \in 0 .. MaxTicks - Epoch
ASSUME ByteAssumption ==
    Zero \in Byte /\ \E n \in 0 .. MaxSize : Initial \in [0 .. n - 1 -> Byte]

ASSUME AttributeAssumption == {"normal", "directory", "archive"} \subseteq Attribute

\* The arguments of the callbacks.
Request ==
    [kind : {"read"}, offset : 0 .. MaxSize, length : Nat]
    \cup [kind : {"write"}, offset : 0 .. MaxSize, data : Seq(Byte),
          toEnd : BOOLEAN, constrained : BOOLEAN]
    \cup [kind : {"size"}, size : 0 .. MaxSize, allocation : BOOLEAN]
    \cup [kind : {"overwrite"}, attributes : SUBSET Attribute, replace : BOOLEAN, allocation : Nat]
    \cup [kind : {"basic"}, given : BOOLEAN, attributes : SUBSET Attribute,
          times : [{"creation", "access", "write", "change"} -> Nat]]
    \cup [kind : {"info"}]
    \cup [kind : {"cleanup"}, touched : SUBSET {"access", "write"}, archive : BOOLEAN]

\* The NTSTATUS a callback returns; "none" is its status while it has none.
Status ==
    {"none", "SUCCESS", "FILE_IS_A_DIRECTORY", "END_OF_FILE", "INVALID_PARAMETER", "FILE_TOO_LARGE",
     "DISK_FULL", "IO_DEVICE_ERROR", "INSUFFICIENT_RESOURCES", "NAME_TOO_LONG",
     "UNEXPECTED_IO_ERROR"}

\* What a callback knows while it runs.
Seen == [size : 0 .. MaxSize, attributes : SUBSET Attribute]
Info ==
    [size : 0 .. MaxSize, allocation : Nat, attributes : SUBSET Attribute,
     times : [{"creation", "access", "write"} -> Nat]]
Callback ==
    [request : Request, phase : {"begun", "looked", "half", "done", "answered"},
     seen : {<<>>} \cup Seen, status : Status, data : Seq(Byte), count : Nat, info : Seq(Info)]

\* A call as its caller sees it.
Visible == [size : 0 .. MaxSize, attributes : SUBSET Attribute,
            times : [{"creation", "access", "write"} -> Nat]]
Call ==
    [request : Request,
     answer : [status : Status, data : Seq(Byte), count : Nat, info : Seq(Visible)]]

ASSUME RequestsAssumption == Requests \subseteq Request /\ NoCall \notin Callback \cup Call

VARIABLES
    directory,      \* Node::directory
    length, bytes,  \* the file, as ByteFile
    attributes,     \* Node::attributes, as the set of its bits
    times,          \* Node::creation_time, access_time and write_time
    call            \* the callback that runs for each client

vars == <<directory, length, bytes, attributes, times, call>>
node == <<directory, length, bytes, attributes, times>>

Content == INSTANCE ByteFile WITH Inputs <- {}

-----------------------------------------------------------------------------
(***************************************************************************)
(* Conversions.                                                            *)
(***************************************************************************)
Smaller(a, b) == IF a < b THEN a ELSE b

\* Fault: the last ticks are not held back (RefinesMountedFile).
UnclampedFileTime(ticks) == IF ticks <= -Epoch THEN 0 ELSE ticks + Epoch

\* to_file_time.
ToFileTime(ticks) ==
    IF ticks <= -Epoch THEN 0
    ELSE IF ticks > MaxTicks - Epoch THEN MaxTicks
    ELSE ticks + Epoch

\* from_file_time, and when it does not fail.
FromFileTime(time) == time - Epoch
ValidFileTime(time) == time <= MaxTicks + Epoch

\* Fault: the sum wraps around (InfoFits).
WrappedAllocation(size) ==
    AllocationUnit * (((size + AllocationUnit - 1) % (MaxSize + 1)) \div AllocationUnit)

\* allocation_size.
AllocationSize(size) ==
    IF size > MaxSize - (AllocationUnit - 1) THEN MaxSize
    ELSE AllocationUnit * ((size + AllocationUnit - 1) \div AllocationUnit)

\* The attributes that fill_node_info makes of those of a node.
ReportedAttributes(bits) ==
    IF directory THEN (bits \cup {"directory"}) \ {"normal"}
    ELSE IF bits \ {"directory"} = {} THEN {"normal"} ELSE bits \ {"directory"}

\* fill_node_info: what a callback answers of the node.
FileInfo ==
    [size |-> length,
     allocation |-> AllocationSize(length),
     attributes |-> ReportedAttributes(attributes),
     times |-> [t \in DOMAIN times |-> ToFileTime(times[t])]]

\* status_guard and status_from_error, for the errors with which the tree's
\* read and write may fail.
StatusFromError ==
    [no_space_on_device |-> "DISK_FULL",
     io_error |-> "IO_DEVICE_ERROR",
     bad_alloc |-> "INSUFFICIENT_RESOURCES",
     length_error |-> "NAME_TOO_LONG",
     runtime_error |-> "UNEXPECTED_IO_ERROR"]

\* The errors of a read from the archive: it is short, or Steam2File::read throws.
ArchiveErrors == {"io_error", "bad_alloc", "length_error", "runtime_error"}

-----------------------------------------------------------------------------
(***************************************************************************)
(* The parts of a callback.  Its phase is "begun", "looked" once it has    *)
(* asked for info, "half" after the first change of two, "done", and       *)
(* "answered" when its answer is complete.                                 *)
(***************************************************************************)
\* A callback that has just begun; seen is its local variable info.
Begun(r) ==
    [request |-> r, phase |-> "begun", seen |-> <<>>,
     status |-> "none", data |-> <<>>, count |-> 0, info |-> <<>>]

At(c, kind, phase) ==
    /\ call[c] # NoCall
    /\ call[c].request.kind = kind
    /\ call[c].phase = phase

\* External: the driver lets reads and queries of a file run together, and
\* everything else alone.
Shared(r) == r.kind \in {"read", "info"}
Granted(c, r) ==
    \A d \in Client \ {c} :
        call[d] # NoCall => Shared(r) /\ Shared(call[d].request)

Begin(c, r) ==
    /\ call[c] = NoCall
    /\ Granted(c, r)
    /\ call' = [call EXCEPT ![c] = Begun(r)]
    /\ UNCHANGED node

\* tree.info(), at the beginning, or after a Cleanup has set the times.
Look(c) ==
    /\ \/ \E kind \in {"read", "write", "size", "overwrite", "basic"} : At(c, kind, "begun")
       \/ At(c, "cleanup", "half") /\ call[c].request.archive
    /\ call' = [call EXCEPT ![c].phase = "looked",
                            ![c].seen = [size |-> length, attributes |-> attributes]]
    /\ UNCHANGED node

Phase(c, phase) == call' = [call EXCEPT ![c].phase = phase]

Ends(c, status, data, count) ==
    call' = [call EXCEPT ![c].phase = IF status = "SUCCESS" THEN "done" ELSE "answered",
                         ![c].status = status, ![c].data = data, ![c].count = count]

Fails(c, status) == Ends(c, status, <<>>, 0) /\ UNCHANGED node

\* The tests at the head of the callbacks on the content of a file.
IsDirectory(c) ==
    /\ \E kind \in {"read", "write", "size", "overwrite"} : At(c, kind, "looked")
    /\ directory
    /\ Fails(c, "FILE_IS_A_DIRECTORY")

\* VirtualTree::set_attributes.
SetAttributes(bits) == attributes' = bits

\* VirtualTree::set_times, for the times that are given.
SetTimes(given) ==
    times' = [t \in DOMAIN times |-> IF t \in DOMAIN given THEN given[t] ELSE times[t]]

\* What VirtualTree::write and resize do besides.
MarkWritten ==
    /\ attributes' = (attributes \ {"normal"}) \cup {"archive"}
    /\ times' = [times EXCEPT !["write"] = Now]

TreeWrite(offset, input) == Content!Write(offset, input) /\ MarkWritten /\ UNCHANGED directory
TreeResize(size) == Content!Resize(size) /\ MarkWritten /\ UNCHANGED directory

-----------------------------------------------------------------------------
Init ==
    /\ directory \in BOOLEAN
    /\ IF directory THEN length = 0 /\ bytes = [i \in {} |-> Zero] /\ attributes = {"directory"}
       ELSE Content!Init /\ attributes = {"archive"}
    /\ times = [t \in {"creation", "access", "write"} |-> Now]
    /\ call = [c \in Client |-> NoCall]

\* VirtualTree::read, of no more than there was when the callback looked.  It
\* throws when a page that is still the archive's cannot be read from there.
Read(c) ==
    /\ At(c, "read", "looked")
    /\ ~directory
    /\ LET r == call[c].request
           seen == call[c].seen.size
           end == Smaller(Smaller(r.offset + r.length, seen), length)
       IN  IF r.length = 0 THEN Ends(c, "SUCCESS", <<>>, 0)
           ELSE IF r.offset >= seen THEN Ends(c, "END_OF_FILE", <<>>, 0)
           ELSE \/ Ends(c, "SUCCESS", [i \in 1 .. end - r.offset |-> bytes[r.offset + i - 1]], 0)
                \/ /\ \E i \in DOMAIN Initial : r.offset <= i /\ i < end
                   /\ \E error \in ArchiveErrors : Ends(c, StatusFromError[error], <<>>, 0)
    /\ UNCHANGED node

\* Fault: the end is taken for the last byte (AppendsAtTheEnd).
OffsetOfLastByte(c) ==
    LET size == call[c].seen.size
    IN  IF call[c].request.toEnd THEN (IF size = 0 THEN 0 ELSE size - 1) ELSE call[c].request.offset

\* Where a write begins.
Offset(c) == IF call[c].request.toEnd THEN call[c].seen.size ELSE call[c].request.offset

\* Fault: tests where a constrained write begins but not where it ends
\* (RefinesMountedFile).
UncutInput(c) ==
    LET r == call[c].request
    IN  IF r.constrained /\ Offset(c) >= call[c].seen.size THEN <<>> ELSE r.data

\* What of its data a write hands to the tree.
Input(c) ==
    LET r == call[c].request
        room == call[c].seen.size - Offset(c)
    IN  IF r.constrained THEN SubSeq(r.data, 1, Smaller(Len(r.data), room)) ELSE r.data

WriteRefused(c) ==
    /\ At(c, "write", "looked")
    /\ ~directory
    /\ LET r == call[c].request
       IN  \/ /\ ~r.toEnd /\ r.offset = MaxSize
              /\ Fails(c, "INVALID_PARAMETER")
           \/ /\ r.toEnd \/ r.offset # MaxSize
              /\ ~r.constrained /\ Len(r.data) > MaxSize - Offset(c)
              /\ Fails(c, "FILE_TOO_LARGE")

\* The bytes of the archive that a write is to replace: it does not read them,
\* so its new pages have zeros there until its data is copied.
Unread(c) ==
    {i \in DOMAIN Initial : i < length /\ Offset(c) <= i /\ i < Offset(c) + Len(Input(c))}

\* Memory runs out, when some of those pages may have taken their place.
OutOfMemory(c, lost) ==
    /\ bytes' = [i \in DOMAIN bytes |-> IF i \in lost THEN Zero ELSE bytes[i]]
    /\ Ends(c, StatusFromError["bad_alloc"], <<>>, 0)
    /\ UNCHANGED <<directory, length, attributes, times>>

\* The tree's write throws: over the quota or when it reads what its pages are
\* to keep, which leaves the file as it was, or out of memory.
TreeWriteFails(c) ==
    \/ Fails(c, StatusFromError["no_space_on_device"])
    \/ /\ DOMAIN Initial # {}
       /\ \E error \in ArchiveErrors : Fails(c, StatusFromError[error])
    \/ \E lost \in SUBSET Unread(c) : OutOfMemory(c, lost)

\* The tree's write.
Write(c) ==
    /\ At(c, "write", "looked")
    /\ ~directory
    /\ LET r == call[c].request
       IN  /\ r.toEnd \/ r.offset # MaxSize
           /\ r.constrained \/ Len(r.data) <= MaxSize - Offset(c)
    /\ IF Input(c) = <<>> THEN Ends(c, "SUCCESS", <<>>, 0) /\ UNCHANGED node
       ELSE \/ /\ TreeWrite(Offset(c), Input(c))
               /\ Ends(c, "SUCCESS", <<>>, Len(Input(c)))
            \/ TreeWriteFails(c)

SetFileSize(c) ==
    /\ At(c, "size", "looked")
    /\ ~directory
    /\ LET r == call[c].request
       IN  IF r.allocation /\ r.size > Quota THEN Fails(c, "DISK_FULL")
           ELSE /\ IF r.allocation /\ r.size >= call[c].seen.size
                   THEN UNCHANGED node ELSE TreeResize(r.size)
                /\ Ends(c, "SUCCESS", <<>>, 0)

Half(c) == call' = [call EXCEPT ![c].phase = "half", ![c].status = "SUCCESS"]

Overwrite(c) ==
    /\ At(c, "overwrite", "looked")
    /\ ~directory
    /\ IF call[c].request.allocation > Quota THEN Fails(c, "DISK_FULL")
       ELSE TreeResize(0) /\ Half(c)

\* The attributes after an overwrite: without replacement, the old ones remain.
OverwriteAttributes(c) ==
    LET r == call[c].request
        old == IF r.replace THEN {} ELSE call[c].seen.attributes
    IN  {"archive"} \cup ((old \cup r.attributes) \ {"directory"})

OverwriteAttributesSet(c) ==
    /\ At(c, "overwrite", "half")
    /\ SetAttributes(OverwriteAttributes(c))
    /\ Ends(c, "SUCCESS", <<>>, 0)
    /\ UNCHANGED <<directory, length, bytes, times>>

\* The times that a SetBasicInfo gives the node; it has no change time.
GivenTimes(c) ==
    LET given == call[c].request.times
    IN  [t \in {u \in DOMAIN times : given[u] # 0} |-> FromFileTime(given[t])]

\* Fault: converts only the times it will set (RefinesMountedFile).
SetTimesValid(c) ==
    \A t \in DOMAIN times : ValidFileTime(call[c].request.times[t])

\* All times are converted, the change time too, before anything is set.
TimesValid(c) ==
    \A t \in DOMAIN call[c].request.times : ValidFileTime(call[c].request.times[t])

SetBasicInfo(c) ==
    /\ At(c, "basic", "looked")
    /\ LET r == call[c].request
       IN  IF ~TimesValid(c) THEN Fails(c, "INVALID_PARAMETER")
           ELSE /\ Half(c)
                /\ IF ~r.given THEN UNCHANGED attributes
                   ELSE SetAttributes(IF directory THEN r.attributes \cup {"directory"}
                                      ELSE r.attributes \ {"directory"})
                /\ UNCHANGED <<directory, length, bytes, times>>

SetBasicInfoTimes(c) ==
    /\ At(c, "basic", "half")
    /\ SetTimes(GivenTimes(c))
    /\ Ends(c, "SUCCESS", <<>>, 0)
    /\ UNCHANGED <<directory, length, bytes, attributes>>

\* GetFileInfo and Flush, which have only an answer to give.
GetFileInfo(c) ==
    /\ At(c, "info", "begun")
    /\ Ends(c, "SUCCESS", <<>>, 0)
    /\ UNCHANGED node

\* Cleanup, which has no answer.
Cleanup(c) ==
    /\ At(c, "cleanup", "begun")
    /\ SetTimes([t \in call[c].request.touched |-> Now])
    /\ IF call[c].request.archive THEN Half(c)
       ELSE call' = [call EXCEPT ![c].phase = "answered", ![c].status = "SUCCESS"]
    /\ UNCHANGED <<directory, length, bytes, attributes>>

CleanupArchive(c) ==
    /\ At(c, "cleanup", "looked")
    /\ IF directory THEN UNCHANGED attributes
       ELSE SetAttributes(call[c].seen.attributes \cup {"archive"})
    /\ Phase(c, "answered")
    /\ UNCHANGED <<directory, length, bytes, times>>

\* fill_file_info.
Answer(c) ==
    /\ call[c] # NoCall
    /\ call[c].phase = "done"
    /\ call' = [call EXCEPT ![c].phase = "answered",
                            ![c].info = IF call[c].request.kind = "read" THEN <<>>
                                        ELSE <<FileInfo>>]
    /\ UNCHANGED node

Return(c) ==
    /\ call[c] # NoCall
    /\ call[c].phase = "answered"
    /\ call' = [call EXCEPT ![c] = NoCall]
    /\ UNCHANGED node

Step(c) ==
    \/ Look(c)
    \/ IsDirectory(c)
    \/ Read(c)
    \/ WriteRefused(c) \/ Write(c)
    \/ SetFileSize(c)
    \/ Overwrite(c) \/ OverwriteAttributesSet(c)
    \/ SetBasicInfo(c) \/ SetBasicInfoTimes(c)
    \/ GetFileInfo(c)
    \/ Cleanup(c) \/ CleanupArchive(c)
    \/ Answer(c)
    \/ Return(c)

Next == \E c \in Client : (\E r \in Requests : Begin(c, r)) \/ Step(c)

Spec == Init /\ [][Next]_vars

-----------------------------------------------------------------------------
(***************************************************************************)
(* Properties.                                                             *)
(***************************************************************************)

\* Whatever the size is, up to the largest, an answer reports room for all of
\* the file, and attributes that Windows takes: some, and that of a directory
\* exactly for a directory.
InfoFits ==
    \A c \in Client : call[c] # NoCall => \A i \in DOMAIN call[c].info :
        LET info == call[c].info[i]
        IN  /\ info.allocation >= info.size
            /\ info.allocation % AllocationUnit = 0 \/ info.allocation = MaxSize
            /\ info.attributes # {}
            /\ "directory" \in info.attributes <=> directory

\* A write to the end of the file, which asks for the size and writes there in
\* two calls to the tree, keeps all there was and adds all its data behind it.
AppendsAtTheEnd ==
    [][\A c \in Client :
          (/\ At(c, "write", "looked") /\ call[c].request.toEnd
           /\ <<length, bytes>> # <<length', bytes'>>) =>
              /\ length' = length + (IF call[c].request.constrained THEN 0 ELSE Len(call[c].request.data))
              /\ \A i \in 0 .. length - 1 : bytes'[i] = bytes[i]
              /\ \A i \in length .. length' - 1 : bytes'[i] = call[c].request.data[i - length + 1]]_vars

\* To its users the file changes in one step per call, though a callback takes
\* several; its answer tells the file as that step left it, and a call that
\* fails has a reason to and has changed nothing, but that a write for which
\* there is no memory may have lost bytes it was to replace.  A callback takes
\* effect with its first change, so the view completes what is half done.
Halfway(kind) == {c \in Client : At(c, kind, "half")}
ArchiveToSet == \E c \in Client : At(c, "cleanup", "half") \/ At(c, "cleanup", "looked")

CompleteAttributes ==
    IF Halfway("overwrite") # {} THEN OverwriteAttributes(CHOOSE c \in Halfway("overwrite") : TRUE)
    ELSE IF ArchiveToSet /\ ~directory THEN attributes \cup {"archive"}
    ELSE attributes

CompleteTimes ==
    LET given == IF Halfway("basic") = {} THEN [t \in {} |-> Now]
                 ELSE GivenTimes(CHOOSE c \in Halfway("basic") : TRUE)
    IN  [t \in DOMAIN times |-> ToFileTime(IF t \in DOMAIN given THEN given[t] ELSE times[t])]

ViewedAttributes(bits) == bits \ {"normal", "directory"}
FileAttributes == ViewedAttributes(CompleteAttributes)
FileBytes == [i \in 1 .. length |-> bytes[i - 1]]
ViewedInfo == [size |-> length, attributes |-> FileAttributes, times |-> CompleteTimes]

\* The answer of a call that has taken effect.
ViewedAnswer(c) ==
    [status |-> call[c].status, data |-> call[c].data, count |-> call[c].count,
     info |-> IF call[c].status # "SUCCESS" \/ call[c].request.kind \in {"read", "cleanup"} THEN <<>>
              ELSE IF call[c].info = <<>> THEN <<ViewedInfo>>
              ELSE LET info == call[c].info[1]
                   IN  <<[size |-> info.size, attributes |-> ViewedAttributes(info.attributes),
                          times |-> info.times]>>]

ViewedCall(c) ==
    IF call[c] = NoCall THEN NoCall
    ELSE [request |-> call[c].request, answer |-> ViewedAnswer(c)]
FileCalls == [c \in Client |-> ViewedCall(c)]

File == INSTANCE MountedFile WITH
    bytes <- FileBytes,
    attributes <- FileAttributes,
    times <- CompleteTimes,
    call <- FileCalls,
    LastTime <- MaxTicks,
    LastInput <- MaxTicks + Epoch,
    Now <- ToFileTime(Now)

RefinesMountedFile == File!Spec

=============================================================================
