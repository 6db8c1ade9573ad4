---------------------------- MODULE MountedFile -----------------------------
(***************************************************************************)
(* What programs may expect of one file or directory of the mounted drive  *)
(* that several of them use: a call takes effect at one moment between its *)
(* being made and answered, and the answer tells the file as that moment   *)
(* left it; or it is refused, for a reason, and changes nothing, except    *)
(* that a write for which there is no memory may lose what it was to       *)
(* replace.  FileCallbacks implements this module.                         *)
(***************************************************************************)
EXTENDS Integers, Sequences, FiniteSets

CONSTANTS
    Client,     \* who has calls under way
    NoCall,     \* no call
    Requests,   \* the calls that are made
    Byte, Zero, \* the values of a byte, and the byte 0
    MaxSize,    \* the largest size of a file
    Quota,      \* the largest allocation that can be asked for
    LastTime,   \* the latest time a file can show
    LastInput,  \* the latest time a file can be given
    Now         \* the time of the clock

VARIABLES
    directory,  \* it is a directory
    bytes,      \* the content of the file
    attributes, \* its attributes, of which "normal" and "directory" are none
    times,      \* when it was created, accessed and written
    call        \* the call of each client, with its answer once it took effect

vars == <<directory, bytes, attributes, times, call>>
file == <<bytes, attributes, times>>

Lesser(a, b) == IF a < b THEN a ELSE b
Proper(a) == a \ {"normal", "directory"}

FileInfo == [size |-> Len(bytes), attributes |-> attributes, times |-> times]

\* An answer: what was read, how much was written, and the file afterwards.
Answer(status, data, count, info) ==
    [status |-> status, data |-> data, count |-> count, info |-> info]
Unanswered(answer) == answer.status = "none"

Asks(c, kind) ==
    /\ call[c] # NoCall
    /\ call[c].request.kind = kind
    /\ Unanswered(call[c].answer)

Gets(c, answer) == call' = [call EXCEPT ![c].answer = answer]

Init ==
    /\ directory \in BOOLEAN
    /\ \E n \in 0 .. MaxSize : bytes \in [1 .. n -> Byte]
    /\ attributes \in {{}, {"archive"}}
    /\ times = [t \in {"creation", "access", "write"} |-> Now]
    /\ call = [c \in Client |-> NoCall]

Make(c, r) ==
    /\ call[c] = NoCall
    /\ call' = [call EXCEPT ![c] = [request |-> r, answer |-> Answer("none", <<>>, 0, <<>>)]]
    /\ UNCHANGED <<directory, file>>

Return(c) ==
    /\ call[c] # NoCall
    /\ ~Unanswered(call[c].answer)
    /\ call' = [call EXCEPT ![c] = NoCall]
    /\ UNCHANGED <<directory, file>>

-----------------------------------------------------------------------------
(***************************************************************************)
(* The content.                                                            *)
(***************************************************************************)
Read(c) ==
    /\ Asks(c, "read")
    /\ ~directory
    /\ LET r == call[c].request
       IN  /\ r.length > 0 => r.offset < Len(bytes)
           /\ Gets(c, Answer("SUCCESS",
                  SubSeq(bytes, r.offset + 1, Lesser(r.offset + r.length, Len(bytes))), 0, <<>>))
    /\ UNCHANGED <<directory, file>>

\* The content becomes b, and the file is one written now.
Becomes(b) ==
    /\ bytes' = b
    /\ attributes' = attributes \cup {"archive"}
    /\ times' = [times EXCEPT !["write"] = Now]

\* The positions a write replaces: a constrained one never extends the file,
\* and one to the end of the file begins where the file ends.
Start(r) == IF r.toEnd THEN Len(bytes) ELSE r.offset
End(r) == Start(r) + Len(r.data)
Replaced(r) == {i \in Start(r) + 1 .. End(r) : r.constrained => i <= Len(bytes)}

Write(c) ==
    /\ Asks(c, "write")
    /\ ~directory
    /\ LET r == call[c].request
           last == IF \E i \in Replaced(r) : i > Len(bytes) THEN End(r) ELSE Len(bytes)
       IN  /\ r.toEnd \/ r.offset < MaxSize
           /\ last <= MaxSize
           /\ IF Replaced(r) = {} THEN UNCHANGED file
              ELSE Becomes([i \in 1 .. last |->
                       IF i \in Replaced(r) THEN r.data[i - Start(r)]
                       ELSE IF i <= Len(bytes) THEN bytes[i] ELSE Zero])
           /\ Gets(c, Answer("SUCCESS", <<>>, Cardinality(Replaced(r)), <<FileInfo'>>))
    /\ UNCHANGED directory

\* The file gets the size asked for, or the room, which it does not show
\* unless it has to give up some of its bytes.
SetSize(c) ==
    /\ Asks(c, "size")
    /\ ~directory
    /\ LET r == call[c].request
       IN  IF r.allocation /\ r.size >= Len(bytes)
           THEN r.size <= Quota /\ UNCHANGED file
           ELSE Becomes([i \in 1 .. r.size |-> IF i <= Len(bytes) THEN bytes[i] ELSE Zero])
    /\ Gets(c, Answer("SUCCESS", <<>>, 0, <<FileInfo'>>))
    /\ UNCHANGED directory

-----------------------------------------------------------------------------
(***************************************************************************)
(* What is known of it.                                                    *)
(***************************************************************************)
\* The old content and, if they are to be replaced, the old attributes go.
Overwrite(c) ==
    /\ Asks(c, "overwrite")
    /\ ~directory
    /\ LET r == call[c].request
       IN  /\ r.allocation <= Quota
           /\ bytes' = <<>>
           /\ attributes' = {"archive"} \cup Proper(r.attributes) \cup
                            (IF r.replace THEN {} ELSE attributes)
           /\ times' = [times EXCEPT !["write"] = Now]
    /\ Gets(c, Answer("SUCCESS", <<>>, 0, <<FileInfo'>>))
    /\ UNCHANGED directory

\* What is given is set, all of it; a time that is too late to show is shown
\* as the latest.
SetInfo(c) ==
    /\ Asks(c, "basic")
    /\ LET r == call[c].request
       IN  /\ \A t \in DOMAIN r.times : r.times[t] <= LastInput
           /\ attributes' = IF r.given THEN Proper(r.attributes) ELSE attributes
           /\ times' = [t \in DOMAIN times |->
                           IF r.times[t] = 0 THEN times[t] ELSE Lesser(r.times[t], LastTime)]
    /\ UNCHANGED <<directory, bytes>>
    /\ Gets(c, Answer("SUCCESS", <<>>, 0, <<FileInfo'>>))

GetInfo(c) ==
    /\ Asks(c, "info")
    /\ UNCHANGED <<directory, file>>
    /\ Gets(c, Answer("SUCCESS", <<>>, 0, <<FileInfo>>))

\* A handle is cleaned up.
Cleanup(c) ==
    /\ Asks(c, "cleanup")
    /\ LET r == call[c].request
       IN  /\ times' = [t \in DOMAIN times |-> IF t \in r.touched THEN Now ELSE times[t]]
           /\ attributes' = IF r.archive /\ ~directory THEN attributes \cup {"archive"} ELSE attributes
    /\ UNCHANGED <<directory, bytes>>
    /\ Gets(c, Answer("SUCCESS", <<>>, 0, <<>>))

-----------------------------------------------------------------------------
\* What can become of reading the archive that holds the file.
ArchiveFailure ==
    {"IO_DEVICE_ERROR", "INSUFFICIENT_RESOURCES", "NAME_TOO_LONG", "UNEXPECTED_IO_ERROR"}
OutOfResources == {"DISK_FULL"} \cup ArchiveFailure

\* The reasons for which a call may be refused.
Reason(r, status) ==
    IF directory /\ r.kind \in {"read", "write", "size", "overwrite"}
    THEN status = "FILE_IS_A_DIRECTORY"
    ELSE CASE r.kind = "read" ->
                \/ status = "END_OF_FILE" /\ r.length > 0 /\ r.offset >= Len(bytes)
                \/ status \in ArchiveFailure /\ r.length > 0 /\ r.offset < Len(bytes)
           [] r.kind = "write" ->
                \/ status = "INVALID_PARAMETER" /\ ~r.toEnd /\ r.offset = MaxSize
                \/ status = "FILE_TOO_LARGE" /\ ~r.constrained /\ End(r) > MaxSize
                \/ status \in OutOfResources /\ Replaced(r) # {}
           [] r.kind = "size" -> status = "DISK_FULL" /\ r.allocation /\ r.size > Quota
           [] r.kind = "overwrite" -> status = "DISK_FULL" /\ r.allocation > Quota
           [] r.kind = "basic" ->
                status = "INVALID_PARAMETER" /\ \E t \in DOMAIN r.times : r.times[t] > LastInput
           [] OTHER -> FALSE

Refuse(c, status) ==
    /\ call[c] # NoCall
    /\ Unanswered(call[c].answer)
    /\ Reason(call[c].request, status)
    /\ Gets(c, Answer(status, <<>>, 0, <<>>))
    /\ UNCHANGED <<directory, file>>

\* A write runs out of memory, and bytes it was to replace are gone: they read
\* as zeros, though nothing else shows that it was made.
Spoil(c) ==
    /\ Asks(c, "write")
    /\ ~directory
    /\ \E lost \in SUBSET (Replaced(call[c].request) \cap DOMAIN bytes) :
          bytes' = [i \in DOMAIN bytes |-> IF i \in lost THEN Zero ELSE bytes[i]]
    /\ Gets(c, Answer("INSUFFICIENT_RESOURCES", <<>>, 0, <<>>))
    /\ UNCHANGED <<directory, attributes, times>>

Status == OutOfResources \cup
    {"FILE_IS_A_DIRECTORY", "END_OF_FILE", "INVALID_PARAMETER", "FILE_TOO_LARGE"}

Next ==
    \E c \in Client :
        \/ \E r \in Requests : Make(c, r)
        \/ Read(c) \/ Write(c) \/ SetSize(c)
        \/ Overwrite(c) \/ SetInfo(c) \/ GetInfo(c) \/ Cleanup(c)
        \/ \E status \in Status : Refuse(c, status)
        \/ Spoil(c)
        \/ Return(c)

Spec == Init /\ [][Next]_vars

=============================================================================
