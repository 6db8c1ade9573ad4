------------------------ MODULE FileCallbacks_proofs ------------------------
(***************************************************************************)
(* Proofs about the callbacks on one file or directory, for any sizes,     *)
(* times, calls and number of clients.                                     *)
(***************************************************************************)
EXTENDS FileCallbacks, FiniteSetTheorems, SequenceTheorems, TLAPS

-----------------------------------------------------------------------------
(***************************************************************************)
(* The conversions.                                                        *)
(***************************************************************************)
\* A multiple of a unit is whole units.
LEMMA WholeUnits ==
  ASSUME NEW u \in Nat \ {0}, NEW q \in Nat
  PROVE  (u * q) % u = 0
BY Z3

\* The room reported is enough, and whole units or all there is.
LEMMA AllocationFits ==
  ASSUME NEW size \in 0 .. MaxSize
  PROVE  /\ AllocationSize(size) \in Nat
         /\ AllocationSize(size) >= size
         /\ AllocationSize(size) % AllocationUnit = 0 \/ AllocationSize(size) = MaxSize
<1>1. MaxSize \in Nat /\ AllocationUnit \in Nat \ {0} /\ AllocationUnit <= MaxSize /\ size \in Nat
      /\ size <= MaxSize
  BY SizeAssumption
<1>2. CASE size > MaxSize - (AllocationUnit - 1)
  BY <1>1, <1>2 DEF AllocationSize
<1>3. CASE ~(size > MaxSize - (AllocationUnit - 1))
  <2>1. PICK n \in Nat : n = size + AllocationUnit - 1
    BY <1>1
  <2>2. PICK q : q = n \div AllocationUnit
    OBVIOUS
  <2>3. q \in Nat /\ AllocationUnit * q <= n /\ n < AllocationUnit * q + AllocationUnit
    BY <1>1, <2>2, Z3
  <2>4. AllocationUnit * q \in Nat
    BY <1>1, <2>3
  <2>5. (AllocationUnit * q) % AllocationUnit = 0
    BY <1>1, <2>3, WholeUnits
  <2>6. AllocationSize(size) = AllocationUnit * q
    BY <1>3, <2>1, <2>2 DEF AllocationSize
  <2>7. AllocationUnit * q >= size
    <3>1. PICK m \in Nat : m = AllocationUnit * q
      BY <2>4
    <3> QED
      BY <1>1, <2>1, <2>3, <3>1
  <2> QED
    BY <2>4, <2>5, <2>6, <2>7
<1> QED
  BY <1>2, <1>3

\* What is stored is shown in range; what was given is shown again, up to the
\* latest time that can be shown.
LEMMA TimesFit ==
  ASSUME NEW ticks \in Int
  PROVE  ToFileTime(ticks) \in Nat
BY TimeAssumption DEF ToFileTime

\* A time that is given is shown again, or the latest there is.
LEMMA TimesReturn ==
  ASSUME NEW time \in Nat \ {0}
  PROVE  ToFileTime(FromFileTime(time)) = IF time < MaxTicks THEN time ELSE MaxTicks
BY TimeAssumption DEF ToFileTime, FromFileTime

-----------------------------------------------------------------------------
(***************************************************************************)
(* The inductive invariant.                                                *)
(***************************************************************************)
TimeNames == {"creation", "access", "write"}

NodeOK ==
    /\ directory \in BOOLEAN
    /\ length \in 0 .. MaxSize /\ bytes \in [0 .. length - 1 -> Byte]
    /\ attributes \in SUBSET Attribute
    /\ times \in [TimeNames -> Int]

\* An answer that may be given of the node.
InfoOK(i) ==
    /\ i.allocation >= i.size
    /\ i.allocation % AllocationUnit = 0 \/ i.allocation = MaxSize
    /\ i.attributes # {}
    /\ "directory" \in i.attributes <=> directory

NoAnswer(x) == x.data = <<>> /\ x.count = 0 /\ x.info = <<>>

\* What the callback x knows and has answered in each of its phases.
CallFits(x) ==
    /\ x.phase = "begun" => x.status = "none" /\ NoAnswer(x)
    /\ x.phase = "looked" =>
          /\ x.seen = [size |-> length, attributes |-> attributes]
          /\ NoAnswer(x)
          /\ IF x.request.kind = "cleanup" THEN x.status = "SUCCESS" /\ x.request.archive
             ELSE x.status = "none" /\ x.request.kind # "info"
    /\ x.phase = "half" =>
          /\ x.request.kind \in {"overwrite", "basic", "cleanup"}
          /\ x.status = "SUCCESS" /\ NoAnswer(x)
          /\ x.request.kind = "overwrite" => ~directory /\ x.seen \in Seen
          /\ x.request.kind = "cleanup" => x.request.archive
    /\ x.phase = "done" =>
          x.request.kind # "cleanup" /\ x.status = "SUCCESS" /\ x.info = <<>>
    /\ x.phase = "answered" =>
          /\ x.status # "none"
          /\ IF x.status # "SUCCESS" \/ x.request.kind \in {"read", "cleanup"} THEN x.info = <<>>
             ELSE \E i \in Info : x.info = <<i>>
    /\ \A n \in DOMAIN x.info : InfoOK(x.info[n])

\* Who may change the file is alone with it.
Alone ==
    \A c, d \in Client :
        (c # d /\ call[c] # NoCall /\ call[d] # NoCall)
            => Shared(call[c].request) /\ Shared(call[d].request)

CallsOK ==
    /\ call \in [Client -> Callback \cup {NoCall}]
    /\ \A c \in Client : call[c] # NoCall => CallFits(call[c])

Inv == NodeOK /\ CallsOK /\ Alone

\* The file as it is projected, with no callbacks.
LEMMA InitInv == Init => Inv
<1> SUFFICES ASSUME Init PROVE Inv
  OBVIOUS
<1>1. CallsOK /\ Alone
  BY DEF Init, CallsOK, Alone
<1>2. times \in [TimeNames -> Int] /\ directory \in BOOLEAN
  BY TimeAssumption DEF Init, TimeNames
<1>3. CASE directory
  <2>1. length = 0 /\ bytes = [i \in {} |-> Zero] /\ attributes = {"directory"}
    BY <1>3 DEF Init
  <2>2. 0 .. length - 1 = {} /\ length \in 0 .. MaxSize
    BY <2>1, SizeAssumption
  <2>3. bytes \in [0 .. length - 1 -> Byte]
    BY <2>1, <2>2
  <2>4. attributes \in SUBSET Attribute
    BY <2>1, AttributeAssumption
  <2> QED
    BY <1>1, <1>2, <2>2, <2>3, <2>4 DEF NodeOK, Inv
<1>4. CASE ~directory
  <2>1. PICK n \in 0 .. MaxSize : length = n /\ DOMAIN Initial = 0 .. n - 1 /\ bytes = Initial
    BY <1>4 DEF Init, Content!Init
  <2>2. PICK m \in 0 .. MaxSize : Initial \in [0 .. m - 1 -> Byte]
    BY ByteAssumption
  <2>3. Initial \in [0 .. n - 1 -> Byte]
    BY <2>1, <2>2
  <2>4. attributes \in SUBSET Attribute
    BY <1>4, AttributeAssumption DEF Init
  <2>5. bytes \in [0 .. length - 1 -> Byte] /\ length \in 0 .. MaxSize
    BY <2>1, <2>3
  <2> QED
    BY <1>1, <1>2, <2>4, <2>5 DEF NodeOK, Inv
<1> QED
  BY <1>3, <1>4

\* A step of the callback of c that either changes nothing of the node or has
\* the file for itself.
LEMMA StepInv ==
  ASSUME Inv, NEW c \in Client, call[c] # NoCall,
         NEW y \in Callback \cup {NoCall}, call' = [call EXCEPT ![c] = y],
         y # NoCall => y.request = call[c].request /\ CallFits(y)',
         NodeOK', directory' = directory,
         UNCHANGED <<length, attributes>> \/ ~Shared(call[c].request)
  PROVE  Inv'
<1>1. call' \in [Client -> Callback \cup {NoCall}]
  BY DEF Inv, CallsOK
<1>2. call'[c] = y /\ \A d \in Client \ {c} : call'[d] = call[d]
  BY DEF Inv, CallsOK
<1>3. ASSUME NEW d \in Client, call'[d] # NoCall
      PROVE  CallFits(call[d])'
  <2>1. CASE d = c
    BY <1>2, <1>3, <2>1 DEF CallFits
  <2>2. CASE d # c
    <3>1. call'[d] = call[d] /\ CallFits(call[d])
      BY <1>2, <1>3, <2>2 DEF Inv, CallsOK
    <3>2. UNCHANGED <<length, attributes, directory>>
      BY <1>2, <1>3, <2>2 DEF Inv, Alone
    <3> QED
      BY <3>1, <3>2 DEF CallFits, NoAnswer, InfoOK
  <2> QED
    BY <2>1, <2>2
<1>4. Alone'
  BY <1>2 DEF Inv, Alone
<1> QED
  BY <1>1, <1>3, <1>4 DEF Inv, CallsOK

\* A callback under way, by its fields.
LEMMA CallIs ==
  ASSUME Inv, NEW c \in Client, call[c] # NoCall
  PROVE  /\ call[c] \in Callback
         /\ CallFits(call[c])
         /\ call[c].request \in Request
         /\ call[c].data \in Seq(Byte) /\ call[c].count \in Nat
<1>1. call[c] \in Callback /\ CallFits(call[c])
  BY DEF Inv, CallsOK
<1> QED
  BY <1>1 DEF Callback

-----------------------------------------------------------------------------
(***************************************************************************)
(* What the tree does to the node.                                         *)
(***************************************************************************)
\* A write in range leaves a file of bytes.
LEMMA TreeWriteOK ==
  ASSUME NodeOK, NEW offset \in 0 .. MaxSize, NEW input \in Seq(Byte),
         offset + Len(input) <= MaxSize, TreeWrite(offset, input)
  PROVE  NodeOK'
<1>1. MaxSize \in Nat /\ length \in 0 .. MaxSize /\ Len(input) \in Nat /\ Zero \in Byte
  BY SizeAssumption, ByteAssumption DEF NodeOK
<1>2. length' = IF length > offset + Len(input) THEN length ELSE offset + Len(input)
  BY DEF TreeWrite, Content!Write, Content!Larger
<1>3. length' \in 0 .. MaxSize
  BY <1>1, <1>2
<1>4. bytes' = [i \in 0 .. length' - 1 |->
                   IF offset <= i /\ i < offset + Len(input) THEN input[i - offset + 1]
                   ELSE IF i < length THEN bytes[i] ELSE Zero]
  BY DEF TreeWrite, Content!Write
<1>5. bytes' \in [0 .. length' - 1 -> Byte]
  <2>1. ASSUME NEW i \in 0 .. length' - 1, offset <= i, i < offset + Len(input)
        PROVE  input[i - offset + 1] \in Byte
    <3>1. i - offset + 1 \in 1 .. Len(input)
      BY <1>1, <1>3, <2>1
    <3> QED
      BY <3>1
  <2>2. ASSUME NEW i \in 0 .. length' - 1, i < length
        PROVE  bytes[i] \in Byte
    <3>1. i \in 0 .. length - 1
      BY <1>1, <1>3, <2>2
    <3> QED
      BY <3>1 DEF NodeOK
  <2> QED
    BY <1>1, <1>4, <2>1, <2>2
<1>6. attributes' \in SUBSET Attribute /\ times' \in [TimeNames -> Int] /\ directory' \in BOOLEAN
  BY TimeAssumption, AttributeAssumption DEF TreeWrite, MarkWritten, NodeOK, TimeNames
<1> QED
  BY <1>3, <1>5, <1>6 DEF NodeOK

\* So does a resize.
LEMMA TreeResizeOK ==
  ASSUME NodeOK, NEW size \in 0 .. MaxSize, TreeResize(size)
  PROVE  NodeOK'
<1>1. MaxSize \in Nat /\ length \in 0 .. MaxSize /\ Zero \in Byte
  BY SizeAssumption, ByteAssumption DEF NodeOK
<1>2. length' = size
  BY DEF TreeResize, Content!Resize
<1>3. bytes' = [i \in 0 .. size - 1 |-> IF i < length THEN bytes[i] ELSE Zero]
  BY DEF TreeResize, Content!Resize
<1>4. bytes' \in [0 .. length' - 1 -> Byte]
  <2>1. ASSUME NEW i \in 0 .. size - 1, i < length
        PROVE  bytes[i] \in Byte
    <3>1. i \in 0 .. length - 1
      BY <1>1, <2>1
    <3> QED
      BY <3>1 DEF NodeOK
  <2> QED
    BY <1>1, <1>2, <1>3, <2>1
<1>5. attributes' \in SUBSET Attribute /\ times' \in [TimeNames -> Int] /\ directory' \in BOOLEAN
  BY TimeAssumption, AttributeAssumption DEF TreeResize, MarkWritten, NodeOK, TimeNames
<1> QED
  BY <1>2, <1>4, <1>5 DEF NodeOK

\* What is answered of the node.
LEMMA FileInfoOK ==
  ASSUME NodeOK
  PROVE  FileInfo \in Info /\ InfoOK(FileInfo)
<1>1. /\ AllocationSize(length) \in Nat
      /\ AllocationSize(length) >= length
      /\ AllocationSize(length) % AllocationUnit = 0 \/ AllocationSize(length) = MaxSize
  BY AllocationFits DEF NodeOK
<1>2. /\ ReportedAttributes(attributes) \in SUBSET Attribute
      /\ ReportedAttributes(attributes) # {}
      /\ "directory" \in ReportedAttributes(attributes) <=> directory
  BY AttributeAssumption DEF ReportedAttributes, NodeOK
<1>3. [t \in DOMAIN times |-> ToFileTime(times[t])] \in [{"creation", "access", "write"} -> Nat]
  BY TimesFit DEF NodeOK, TimeNames
<1>4. length \in 0 .. MaxSize
  BY DEF NodeOK
<1>5. FileInfo \in Info
  BY <1>1, <1>2, <1>3, <1>4 DEF FileInfo, Info
<1> QED
  BY <1>1, <1>2, <1>5 DEF FileInfo, InfoOK

-----------------------------------------------------------------------------
(***************************************************************************)
(* What the parts of a callback do to it.                                  *)
(***************************************************************************)
\* A callback that ends as it should.
LEMMA EndsOK ==
  ASSUME Inv, NEW c \in Client, call[c] # NoCall, call[c].info = <<>>,
         NEW status \in Status \ {"none"}, NEW data \in Seq(Byte), NEW count \in Nat,
         status = "SUCCESS" => call[c].request.kind # "cleanup",
         Ends(c, status, data, count), NodeOK', directory' = directory,
         UNCHANGED <<length, attributes>> \/ ~Shared(call[c].request)
  PROVE  Inv'
<1>1. call[c] \in Callback
  BY CallIs
<1>2. PICK y : y = [call[c] EXCEPT !.phase = IF status = "SUCCESS" THEN "done" ELSE "answered",
                                   !.status = status, !.data = data, !.count = count]
  OBVIOUS
<1>3. y \in Callback /\ y.request = call[c].request
  BY <1>1, <1>2 DEF Callback
<1>4. call' = [call EXCEPT ![c] = y]
  BY <1>1, <1>2 DEF Ends, Inv, CallsOK
<1>5. CallFits(y)'
  <2>1. /\ y.phase = IF status = "SUCCESS" THEN "done" ELSE "answered"
        /\ y.status = status /\ y.info = <<>>
    BY <1>1, <1>2 DEF Callback
  <2> QED
    BY <1>3, <2>1 DEF CallFits
<1> QED
  BY <1>3, <1>4, <1>5, StepInv

\* A callback that has made the first of its changes.
LEMMA HalfOK ==
  ASSUME Inv, NEW c \in Client, call[c] # NoCall, call[c].phase \in {"begun", "looked"},
         call[c].request.kind \in {"overwrite", "basic", "cleanup"},
         call[c].request.kind = "overwrite" => call[c].phase = "looked" /\ ~directory,
         call[c].request.kind = "cleanup" => call[c].request.archive,
         Half(c), NodeOK', directory' = directory
  PROVE  Inv'
<1>1. call[c] \in Callback /\ CallFits(call[c])
  BY CallIs
<1>2. PICK y : y = [call[c] EXCEPT !.phase = "half", !.status = "SUCCESS"]
  OBVIOUS
<1>3. y \in Callback /\ y.request = call[c].request /\ y.seen = call[c].seen
  BY <1>1, <1>2 DEF Callback, Status
<1>4. call' = [call EXCEPT ![c] = y]
  BY <1>1, <1>2 DEF Half, Inv, CallsOK
<1>5. NoAnswer(call[c])
  BY <1>1 DEF CallFits
<1>6. CallFits(y)'
  <2>1. y.phase = "half" /\ y.status = "SUCCESS" /\ NoAnswer(y)
    BY <1>1, <1>2, <1>5 DEF Callback, NoAnswer
  <2>2. y.request.kind = "overwrite" => y.seen \in Seen
    BY <1>1, <1>3 DEF CallFits, Seen, Inv, NodeOK
  <2> QED
    BY <1>3, <2>1, <2>2 DEF CallFits, NoAnswer
<1>7. ~Shared(call[c].request)
  BY DEF Shared
<1> QED
  BY <1>3, <1>4, <1>6, <1>7, StepInv

\* A callback that ends without an answer.
LEMMA AnsweredOK ==
  ASSUME Inv, NEW c \in Client, call[c] # NoCall, call[c].request.kind = "cleanup",
         call[c].info = <<>>,
         call' = [call EXCEPT ![c].phase = "answered", ![c].status = "SUCCESS"],
         NodeOK', directory' = directory
  PROVE  Inv'
<1>1. call[c] \in Callback /\ CallFits(call[c])
  BY CallIs
<1>2. PICK y : y = [call[c] EXCEPT !.phase = "answered", !.status = "SUCCESS"]
  OBVIOUS
<1>3. y \in Callback /\ y.request = call[c].request
  BY <1>1, <1>2 DEF Callback, Status
<1>4. call' = [call EXCEPT ![c] = y]
  BY <1>1, <1>2 DEF Inv, CallsOK
<1>5. y.phase = "answered" /\ y.status = "SUCCESS" /\ y.info = <<>>
  BY <1>1, <1>2 DEF Callback
<1>6. CallFits(y)'
  BY <1>3, <1>5 DEF CallFits
<1>7. ~Shared(call[c].request)
  BY DEF Shared
<1> QED
  BY <1>3, <1>4, <1>6, <1>7, StepInv

-----------------------------------------------------------------------------
(***************************************************************************)
(* Every step keeps the invariant.                                         *)
(***************************************************************************)
\* A callback begins only where the driver lets it.
LEMMA BeginInv ==
  ASSUME Inv, NEW c \in Client, NEW r \in Requests, Begin(c, r)
  PROVE  Inv'
<1>1. PICK y : y = Begun(r)
  OBVIOUS
<1>2. r \in Request
  BY RequestsAssumption
<1>3. y \in Callback
  BY <1>1, <1>2 DEF Begun, Callback, Status
<1>4. y.request = r /\ y.phase = "begun" /\ y.status = "none" /\ y.info = <<>> /\ NoAnswer(y)
  BY <1>1 DEF Begun, NoAnswer
<1>5. CallFits(y)
  BY <1>4 DEF CallFits
<1>6. call' = [call EXCEPT ![c] = y] /\ UNCHANGED node /\ Granted(c, r) /\ call[c] = NoCall
  BY <1>1 DEF Begin
<1>7. call' \in [Client -> Callback \cup {NoCall}]
  BY <1>3, <1>6 DEF Inv, CallsOK
<1>8. call'[c] = y /\ \A d \in Client \ {c} : call'[d] = call[d]
  BY <1>6 DEF Inv, CallsOK
<1>9. ASSUME NEW d \in Client, call'[d] # NoCall
      PROVE  CallFits(call[d])'
  <2>1. CallFits(call'[d])
    BY <1>5, <1>8, <1>9 DEF Inv, CallsOK
  <2> QED
    BY <1>6, <2>1 DEF CallFits, NoAnswer, InfoOK, node
<1>10. Alone'
  BY <1>4, <1>6, <1>8 DEF Inv, Alone, Granted
<1>11. NodeOK'
  BY <1>6 DEF node, NodeOK, Inv
<1> QED
  BY <1>7, <1>9, <1>10, <1>11 DEF Inv, CallsOK

\* What a callback sees is what there is.
LEMMA LookInv == ASSUME Inv, NEW c \in Client, Look(c) PROVE Inv'
<1>1. call[c] # NoCall /\ UNCHANGED node
  BY DEF Look, At
<1>2. call[c] \in Callback /\ CallFits(call[c]) /\ NodeOK
  BY <1>1, CallIs DEF Inv
<1>3. PICK s : s = [size |-> length, attributes |-> attributes]
  OBVIOUS
<1>4. s \in Seen
  BY <1>2, <1>3 DEF Seen, NodeOK
<1>5. PICK y : y = [call[c] EXCEPT !.phase = "looked", !.seen = s]
  OBVIOUS
<1>6. y \in Callback /\ y.request = call[c].request
  BY <1>2, <1>4, <1>5 DEF Callback
<1>7. call' = [call EXCEPT ![c] = y]
  BY <1>2, <1>3, <1>5 DEF Look, Inv, CallsOK
<1>8. CallFits(y)'
  <2>1. /\ y.phase = "looked" /\ y.seen = s /\ y.status = call[c].status /\ y.info = call[c].info
        /\ y.data = call[c].data /\ y.count = call[c].count
    BY <1>2, <1>5 DEF Callback
  <2>2. NoAnswer(call[c])
    BY <1>2 DEF Look, At, CallFits
  <2>3. NoAnswer(y)
    BY <2>1, <2>2 DEF NoAnswer
  <2>4. IF y.request.kind = "cleanup" THEN y.status = "SUCCESS" /\ y.request.archive
        ELSE y.status = "none" /\ y.request.kind # "info"
    BY <1>2, <1>6, <2>1 DEF Look, At, CallFits
  <2> QED
    BY <1>1, <1>3, <2>1, <2>3, <2>4 DEF CallFits, NoAnswer, node
<1>9. NodeOK' /\ UNCHANGED <<directory, length, attributes>>
  BY <1>1 DEF node, NodeOK, Inv
<1> QED
  BY <1>1, <1>6, <1>7, <1>8, <1>9, StepInv

\* A callback that has no change to make, or fails and has made none.
LEMMA FailsOK ==
  ASSUME Inv, NEW c \in Client, call[c] # NoCall, call[c].info = <<>>,
         NEW status \in Status \ {"none"},
         status = "SUCCESS" => call[c].request.kind # "cleanup", Fails(c, status)
  PROVE  Inv'
<1>1. Ends(c, status, <<>>, 0) /\ UNCHANGED node
  BY DEF Fails
<1>2. NodeOK' /\ UNCHANGED <<directory, length, attributes>>
  BY <1>1 DEF node, NodeOK, Inv
<1>3. <<>> \in Seq(Byte) /\ 0 \in Nat
  OBVIOUS
<1> QED
  BY <1>1, <1>2, <1>3, EndsOK

\* The status of an error is one that a callback fails with.
LEMMA ErrorStatus ==
  /\ ArchiveErrors \subseteq DOMAIN StatusFromError
  /\ \A error \in DOMAIN StatusFromError : StatusFromError[error] \in Status \ {"none", "SUCCESS"}
BY DEF ArchiveErrors, StatusFromError, Status

\* A directory has no content: nothing changes.
LEMMA IsDirectoryInv == ASSUME Inv, NEW c \in Client, IsDirectory(c) PROVE Inv'
<1>1. call[c] # NoCall /\ call[c].phase = "looked" /\ Fails(c, "FILE_IS_A_DIRECTORY")
  BY DEF IsDirectory, At
<1>2. call[c].info = <<>>
  BY <1>1, CallIs DEF CallFits, NoAnswer
<1> QED
  BY <1>1, <1>2, FailsOK DEF Status

\* A write out of range is refused before anything changes.
LEMMA WriteRefusedInv == ASSUME Inv, NEW c \in Client, WriteRefused(c) PROVE Inv'
<1>1. /\ call[c] # NoCall /\ call[c].phase = "looked"
      /\ Fails(c, "INVALID_PARAMETER") \/ Fails(c, "FILE_TOO_LARGE")
  BY DEF WriteRefused, At
<1>2. call[c].info = <<>>
  BY <1>1, CallIs DEF CallFits, NoAnswer
<1> QED
  BY <1>1, <1>2, FailsOK DEF Status

\* The arguments of a callback of each kind.
LEMMA Arguments ==
  ASSUME NEW r \in Request
  PROVE  /\ r.kind = "read" => r.offset \in 0 .. MaxSize /\ r.length \in Nat
         /\ r.kind = "write" => /\ r.offset \in 0 .. MaxSize /\ r.data \in Seq(Byte)
                                /\ r.toEnd \in BOOLEAN /\ r.constrained \in BOOLEAN
         /\ r.kind = "size" => r.size \in 0 .. MaxSize /\ r.allocation \in BOOLEAN
         /\ r.kind = "overwrite" => /\ r.attributes \in SUBSET Attribute
                                    /\ r.replace \in BOOLEAN /\ r.allocation \in Nat
         /\ r.kind = "basic" => /\ r.given \in BOOLEAN /\ r.attributes \in SUBSET Attribute
                                /\ r.times \in [{"creation", "access", "write", "change"} -> Nat]
         /\ r.kind = "cleanup" => r.touched \in SUBSET {"access", "write"} /\ r.archive \in BOOLEAN
BY DEF Request

\* What a write hands to the tree: its data, of which a constrained write
\* keeps what there is room for.
LEMMA Prefix ==
  ASSUME NEW S, NEW s \in Seq(S), NEW n \in Int, n <= Len(s)
  PROVE  /\ SubSeq(s, 1, n) \in Seq(S)
         /\ Len(SubSeq(s, 1, n)) = IF n < 0 THEN 0 ELSE n
         /\ \A i \in 1 .. n : SubSeq(s, 1, n)[i] = s[i]
OBVIOUS

\* Of a write in range: where it begins, and what of its data it hands over.
LEMMA WriteArguments ==
  ASSUME Inv, NEW c \in Client, At(c, "write", "looked"),
         NEW r, r = call[c].request,
         r.toEnd \/ r.offset # MaxSize, r.constrained \/ Len(r.data) <= MaxSize - Offset(c)
  PROVE  /\ r.data \in Seq(Byte)
         /\ Offset(c) = (IF r.toEnd THEN length ELSE r.offset) /\ Offset(c) \in 0 .. MaxSize
         /\ Input(c) \in Seq(Byte)
         /\ Len(Input(c)) = IF ~r.constrained \/ Len(r.data) <= length - Offset(c) THEN Len(r.data)
                            ELSE IF length < Offset(c) THEN 0 ELSE length - Offset(c)
         /\ \A i \in 1 .. Len(Input(c)) : Input(c)[i] = r.data[i]
         /\ Input(c) # <<>> => Offset(c) + Len(Input(c)) <= MaxSize
<1>1. /\ call[c] # NoCall /\ call[c].request.kind = "write" /\ call[c].phase = "looked"
      /\ CallFits(call[c]) /\ r \in Request
  BY CallIs DEF At
<1>2. call[c].seen.size = length /\ length \in 0 .. MaxSize /\ MaxSize \in Nat
  BY <1>1, SizeAssumption DEF CallFits, Inv, NodeOK
<1>3. /\ r.offset \in 0 .. MaxSize /\ r.data \in Seq(Byte) /\ Len(r.data) \in Nat
      /\ r.toEnd \in BOOLEAN /\ r.constrained \in BOOLEAN
  BY <1>1, Arguments
<1>4. Offset(c) = (IF r.toEnd THEN length ELSE r.offset) /\ Offset(c) \in 0 .. MaxSize
  BY <1>2, <1>3 DEF Offset
<1>5. CASE ~r.constrained
  <2>1. Input(c) = r.data
    BY <1>5 DEF Input
  <2> QED
    BY <1>2, <1>3, <1>4, <1>5, <2>1
<1>6. CASE r.constrained
  <2>1. PICK room \in Int : room = length - Offset(c)
    BY <1>2, <1>4
  <2>2. PICK n \in Int : n = (IF Len(r.data) < room THEN Len(r.data) ELSE room)
    BY <1>3
  <2>3. n <= Len(r.data)
    BY <1>3, <2>2
  <2>4. Input(c) = SubSeq(r.data, 1, n)
    BY <1>2, <1>6, <2>1, <2>2 DEF Input, Smaller
  <2>5. /\ Input(c) \in Seq(Byte)
        /\ Len(Input(c)) = IF n < 0 THEN 0 ELSE n
        /\ \A i \in 1 .. n : Input(c)[i] = r.data[i]
    BY <1>3, <2>3, <2>4, Prefix
  <2>6. Input(c) # <<>> => n > 0
    BY <2>5
  <2>7. \A i \in 1 .. Len(Input(c)) : Input(c)[i] = r.data[i]
    BY <2>5
  <2>8. Len(Input(c)) = IF Len(r.data) <= length - Offset(c) THEN Len(r.data)
                        ELSE IF length < Offset(c) THEN 0 ELSE length - Offset(c)
    <3>1. PICK l \in Nat : l = Len(r.data)
      BY <1>3
    <3>2. PICK o \in Nat : o = Offset(c)
      BY <1>2, <1>4
    <3>3. length \in Nat /\ room = length - o /\ n = (IF l < room THEN l ELSE room)
      BY <1>2, <2>1, <2>2, <3>1, <3>2
    <3>4. Len(Input(c)) = IF n < 0 THEN 0 ELSE n
      BY <2>5
    <3>5. (IF n < 0 THEN 0 ELSE n) = IF l <= length - o THEN l ELSE IF length < o THEN 0 ELSE length - o
      BY <3>3
    <3> QED
      BY <3>1, <3>2, <3>4, <3>5
  <2>9. Input(c) # <<>> => Offset(c) + Len(Input(c)) <= MaxSize
    BY <1>2, <1>3, <1>4, <2>1, <2>2, <2>5, <2>6, SMTT(30)
  <2> QED
    BY <1>3, <1>4, <1>6, <2>5, <2>7, <2>8, <2>9
<1> QED
  BY <1>3, <1>4, <1>5, <1>6

\* What is read are bytes of the file.
LEMMA ReadInv == ASSUME Inv, NEW c \in Client, Read(c) PROVE Inv'
<1>1. /\ call[c] # NoCall /\ call[c].phase = "looked" /\ call[c].request.kind = "read"
      /\ UNCHANGED node
  BY DEF Read, At
<1>2. /\ call[c].info = <<>> /\ call[c].seen.size = length /\ call[c].request \in Request
      /\ call[c].request.kind # "cleanup"
  BY <1>1, CallIs DEF CallFits, NoAnswer
<1>3. PICK r : r = call[c].request
  OBVIOUS
<1>4. r.offset \in Nat /\ r.length \in Nat /\ length \in Nat
  BY <1>1, <1>2, <1>3, Arguments, SizeAssumption DEF Inv, NodeOK
<1>5. NodeOK' /\ UNCHANGED <<directory, length, attributes>>
  BY <1>1 DEF node, NodeOK, Inv
<1>6. CASE \/ Ends(c, "SUCCESS", <<>>, 0) \/ Ends(c, "END_OF_FILE", <<>>, 0)
           \/ \E error \in ArchiveErrors : Ends(c, StatusFromError[error], <<>>, 0)
  <2>1. \/ Fails(c, "SUCCESS") \/ Fails(c, "END_OF_FILE")
        \/ \E error \in ArchiveErrors : Fails(c, StatusFromError[error])
    BY <1>1, <1>6 DEF Fails
  <2>2. CASE Fails(c, "SUCCESS") \/ Fails(c, "END_OF_FILE")
    BY <1>1, <1>2, <2>2, FailsOK DEF Status
  <2>3. CASE \E error \in ArchiveErrors : Fails(c, StatusFromError[error])
    <3>1. PICK error \in ArchiveErrors : Fails(c, StatusFromError[error])
      BY <2>3
    <3> QED
      BY <1>1, <1>2, <3>1, FailsOK, ErrorStatus
  <2> QED
    BY <2>1, <2>2, <2>3
<1>7. CASE ~(\/ Ends(c, "SUCCESS", <<>>, 0) \/ Ends(c, "END_OF_FILE", <<>>, 0)
             \/ \E error \in ArchiveErrors : Ends(c, StatusFromError[error], <<>>, 0))
  <2>1. PICK end : end = Smaller(Smaller(r.offset + r.length, length), length)
    OBVIOUS
  <2>2. end \in Nat /\ end <= length
    BY <1>4, <2>1 DEF Smaller
  <2>3. PICK data : data = [i \in 1 .. end - r.offset |-> bytes[r.offset + i - 1]]
    OBVIOUS
  <2>4. Ends(c, "SUCCESS", data, 0) /\ r.offset < length /\ r.length # 0
    BY <1>2, <1>3, <1>4, <1>7, <2>1, <2>3 DEF Read
  <2>5. end - r.offset \in Nat
    BY <1>4, <2>1, <2>4 DEF Smaller
  <2>6. ASSUME NEW i \in 1 .. end - r.offset
        PROVE  bytes[r.offset + i - 1] \in Byte
    <3>1. r.offset + i - 1 \in 0 .. length - 1
      BY <1>4, <2>2, <2>5
    <3> QED
      BY <3>1 DEF Inv, NodeOK
  <2>7. data \in Seq(Byte)
    BY <2>3, <2>5, <2>6
  <2> QED
    BY <1>1, <1>2, <1>5, <2>4, <2>7, EndsOK DEF Status
<1> QED
  BY <1>6, <1>7

\* A write in range stays in range, whether or not the tree makes it.
LEMMA WriteInv == ASSUME Inv, NEW c \in Client, Write(c) PROVE Inv'
<1>1. /\ call[c] # NoCall /\ call[c].phase = "looked" /\ call[c].request.kind = "write"
      /\ At(c, "write", "looked")
  BY DEF Write, At
<1>2. call[c].info = <<>> /\ ~Shared(call[c].request) /\ call[c].request.kind # "cleanup"
  BY <1>1, CallIs DEF CallFits, NoAnswer, Shared
<1>3. PICK r : r = call[c].request
  OBVIOUS
<1>4. r.toEnd \/ r.offset # MaxSize
  BY <1>3 DEF Write
<1>5. r.constrained \/ Len(r.data) <= MaxSize - Offset(c)
  BY <1>3 DEF Write
<1>6. /\ Offset(c) \in 0 .. MaxSize /\ Input(c) \in Seq(Byte)
      /\ Input(c) # <<>> => Offset(c) + Len(Input(c)) <= MaxSize
  BY <1>1, <1>3, <1>4, <1>5, WriteArguments
<1>7. CASE Input(c) = <<>>
  <2>1. Fails(c, "SUCCESS")
    BY <1>7 DEF Write, Fails
  <2> QED
    BY <1>1, <1>2, <2>1, FailsOK DEF Status
<1>8. CASE Input(c) # <<>> /\ TreeWrite(Offset(c), Input(c)) /\ Ends(c, "SUCCESS", <<>>, Len(Input(c)))
  <2>1. NodeOK' /\ directory' = directory
    <3>1. NodeOK'
      BY <1>6, <1>8, TreeWriteOK DEF Inv
    <3>2. directory' = directory
      BY <1>8 DEF TreeWrite
    <3> QED
      BY <3>1, <3>2
  <2>2. Len(Input(c)) \in Nat /\ <<>> \in Seq(Byte)
    BY <1>6
  <2> QED
    BY <1>1, <1>2, <1>8, <2>1, <2>2, EndsOK DEF Status
<1>9. CASE \E error \in DOMAIN StatusFromError : Fails(c, StatusFromError[error])
  <2>1. PICK error \in DOMAIN StatusFromError : Fails(c, StatusFromError[error])
    BY <1>9
  <2> QED
    BY <1>1, <1>2, <2>1, FailsOK, ErrorStatus
<1>10. CASE \E lost \in SUBSET Unread(c) : OutOfMemory(c, lost)
  <2>1. PICK lost \in SUBSET Unread(c) : OutOfMemory(c, lost)
    BY <1>10
  <2>2. PICK status \in Status \ {"none", "SUCCESS"} : Ends(c, status, <<>>, 0)
    BY <2>1, ErrorStatus DEF OutOfMemory, StatusFromError
  <2>3. bytes' \in [0 .. length - 1 -> Byte] /\ UNCHANGED <<directory, length, attributes, times>>
    BY <2>1, ByteAssumption DEF OutOfMemory, Inv, NodeOK
  <2>4. NodeOK'
    BY <2>3 DEF Inv, NodeOK
  <2>5. <<>> \in Seq(Byte) /\ 0 \in Nat
    OBVIOUS
  <2> QED
    BY <1>1, <1>2, <2>2, <2>3, <2>4, <2>5, EndsOK
<1>11. \/ Input(c) = <<>>
       \/ Input(c) # <<>> /\ TreeWrite(Offset(c), Input(c)) /\ Ends(c, "SUCCESS", <<>>, Len(Input(c)))
       \/ TreeWriteFails(c)
  BY DEF Write
<1>12. TreeWriteFails(c) =>
         \/ \E error \in DOMAIN StatusFromError : Fails(c, StatusFromError[error])
         \/ \E lost \in SUBSET Unread(c) : OutOfMemory(c, lost)
  BY ErrorStatus DEF TreeWriteFails, StatusFromError
<1> QED
  BY <1>7, <1>8, <1>9, <1>10, <1>11, <1>12

\* A size that can be asked for is one a file can have.
LEMMA SetFileSizeInv == ASSUME Inv, NEW c \in Client, SetFileSize(c) PROVE Inv'
<1>1. call[c] # NoCall /\ call[c].phase = "looked" /\ call[c].request.kind = "size"
  BY DEF SetFileSize, At
<1>2. call[c].info = <<>> /\ ~Shared(call[c].request) /\ call[c].request \in Request
  BY <1>1, CallIs DEF CallFits, NoAnswer, Shared
<1>3. call[c].request.size \in 0 .. MaxSize
  BY <1>1, <1>2, Arguments
<1>4. CASE Fails(c, "DISK_FULL")
  BY <1>1, <1>2, <1>4, FailsOK DEF Status
<1>5. CASE UNCHANGED node /\ Ends(c, "SUCCESS", <<>>, 0)
  <2>1. Fails(c, "SUCCESS")
    BY <1>5 DEF Fails
  <2> QED
    BY <1>1, <1>2, <2>1, FailsOK DEF Status
<1>6. CASE TreeResize(call[c].request.size) /\ Ends(c, "SUCCESS", <<>>, 0)
  <2>1. NodeOK'
    BY <1>3, <1>6, TreeResizeOK DEF Inv
  <2>2. directory' = directory
    BY <1>6 DEF TreeResize
  <2>3. <<>> \in Seq(Byte) /\ 0 \in Nat /\ "SUCCESS" \in Status \ {"none"}
    BY DEF Status
  <2> QED
    BY <1>1, <1>2, <1>6, <2>1, <2>2, <2>3, EndsOK
<1> QED
  BY <1>4, <1>5, <1>6 DEF SetFileSize

\* An overwrite empties the file, and has the attributes still to set.
LEMMA OverwriteInv == ASSUME Inv, NEW c \in Client, Overwrite(c) PROVE Inv'
<1>1. /\ call[c] # NoCall /\ call[c].phase = "looked" /\ call[c].request.kind = "overwrite"
      /\ ~directory
  BY DEF Overwrite, At
<1>2. call[c].info = <<>>
  BY <1>1, CallIs DEF CallFits, NoAnswer
<1>3. CASE Fails(c, "DISK_FULL")
  BY <1>1, <1>2, <1>3, FailsOK DEF Status
<1>4. CASE TreeResize(0) /\ Half(c)
  <2>1. 0 \in 0 .. MaxSize
    BY SizeAssumption
  <2>2. NodeOK'
    BY <1>4, <2>1, TreeResizeOK DEF Inv
  <2>3. directory' = directory
    BY <1>4 DEF TreeResize
  <2> QED
    BY <1>1, <1>4, <2>2, <2>3, HalfOK
<1> QED
  BY <1>3, <1>4 DEF Overwrite

\* They are those it saw, those it was given, and the archive bit.
LEMMA OverwriteAttributesSetInv ==
  ASSUME Inv, NEW c \in Client, OverwriteAttributesSet(c)
  PROVE  Inv'
<1>1. /\ call[c] # NoCall /\ call[c].phase = "half" /\ call[c].request.kind = "overwrite"
      /\ Ends(c, "SUCCESS", <<>>, 0) /\ UNCHANGED <<directory, length, bytes, times>>
      /\ attributes' = OverwriteAttributes(c)
  BY DEF OverwriteAttributesSet, At, SetAttributes
<1>2. /\ call[c].info = <<>> /\ ~Shared(call[c].request) /\ call[c].request \in Request
      /\ call[c].seen \in Seen
  BY <1>1, CallIs DEF CallFits, NoAnswer, Shared
<1>3. call[c].request.attributes \in SUBSET Attribute
  BY <1>1, <1>2, Arguments
<1>4. OverwriteAttributes(c) \in SUBSET Attribute
  BY <1>2, <1>3, AttributeAssumption DEF OverwriteAttributes, Seen
<1>5. NodeOK'
  BY <1>1, <1>4 DEF NodeOK, Inv
<1>6. <<>> \in Seq(Byte) /\ 0 \in Nat /\ "SUCCESS" \in Status \ {"none"}
  BY DEF Status
<1> QED
  BY <1>1, <1>2, <1>5, <1>6, EndsOK

\* A SetBasicInfo sets its attributes, and has the times still to set.
LEMMA SetBasicInfoInv == ASSUME Inv, NEW c \in Client, SetBasicInfo(c) PROVE Inv'
<1>1. call[c] # NoCall /\ call[c].phase = "looked" /\ call[c].request.kind = "basic"
  BY DEF SetBasicInfo, At
<1>2. call[c].info = <<>> /\ call[c].request \in Request
  BY <1>1, CallIs DEF CallFits, NoAnswer
<1>3. CASE Fails(c, "INVALID_PARAMETER")
  BY <1>1, <1>2, <1>3, FailsOK DEF Status
<1>4. CASE ~Fails(c, "INVALID_PARAMETER")
  <2>1. Half(c) /\ UNCHANGED <<directory, length, bytes, times>>
    BY <1>4 DEF SetBasicInfo
  <2>2. call[c].request.attributes \in SUBSET Attribute
    BY <1>1, <1>2, Arguments
  <2>3. \/ attributes' = attributes
        \/ attributes' = call[c].request.attributes \cup {"directory"}
        \/ attributes' = call[c].request.attributes \ {"directory"}
    BY <1>4 DEF SetBasicInfo, SetAttributes
  <2>4. attributes' \in SUBSET Attribute
    BY <2>2, <2>3, AttributeAssumption DEF Inv, NodeOK
  <2>5. NodeOK'
    BY <2>1, <2>4 DEF NodeOK, Inv
  <2> QED
    BY <1>1, <2>1, <2>5, HalfOK
<1> QED
  BY <1>3, <1>4

\* The times of a node stay times, whatever times are given.
LEMMA SetTimesOK ==
  ASSUME NodeOK, NEW given, DOMAIN given \subseteq TimeNames,
         \A t \in DOMAIN given : given[t] \in Int, SetTimes(given)
  PROVE  times' \in [TimeNames -> Int]
BY DEF NodeOK, SetTimes

\* The times it was given are times of a node.
LEMMA SetBasicInfoTimesInv ==
  ASSUME Inv, NEW c \in Client, SetBasicInfoTimes(c)
  PROVE  Inv'
<1>1. /\ call[c] # NoCall /\ call[c].phase = "half" /\ call[c].request.kind = "basic"
      /\ Ends(c, "SUCCESS", <<>>, 0) /\ UNCHANGED <<directory, length, bytes, attributes>>
      /\ SetTimes(GivenTimes(c))
  BY DEF SetBasicInfoTimes, At
<1>2. call[c].info = <<>> /\ ~Shared(call[c].request) /\ call[c].request \in Request
  BY <1>1, CallIs DEF CallFits, NoAnswer, Shared
<1>3. call[c].request.times \in [{"creation", "access", "write", "change"} -> Nat]
  BY <1>1, <1>2, Arguments
<1>4. PICK given : given = GivenTimes(c)
  OBVIOUS
<1>5. /\ DOMAIN given \subseteq TimeNames
      /\ \A t \in DOMAIN given : given[t] \in Int
  <2>1. PICK asked : asked = call[c].request.times
    OBVIOUS
  <2>2. given = [t \in {u \in DOMAIN times : asked[u] # 0} |-> asked[t] - Epoch]
    BY <1>4, <2>1 DEF GivenTimes, FromFileTime
  <2>3. DOMAIN times = TimeNames /\ \A t \in TimeNames : asked[t] \in Nat
    BY <1>3, <2>1 DEF Inv, NodeOK, TimeNames
  <2> QED
    BY <2>2, <2>3, TimeAssumption
<1>6. times' \in [TimeNames -> Int]
  BY <1>1, <1>4, <1>5, SetTimesOK DEF Inv
<1>7. NodeOK'
  BY <1>1, <1>6 DEF NodeOK, Inv
<1>8. <<>> \in Seq(Byte) /\ 0 \in Nat /\ "SUCCESS" \in Status \ {"none"}
  BY DEF Status
<1> QED
  BY <1>1, <1>2, <1>7, <1>8, EndsOK

\* A query changes nothing.
LEMMA GetFileInfoInv == ASSUME Inv, NEW c \in Client, GetFileInfo(c) PROVE Inv'
<1>1. /\ call[c] # NoCall /\ call[c].phase = "begun" /\ call[c].request.kind = "info"
      /\ Fails(c, "SUCCESS")
  BY DEF GetFileInfo, At, Fails
<1>2. call[c].info = <<>>
  BY <1>1, CallIs DEF CallFits, NoAnswer
<1> QED
  BY <1>1, <1>2, FailsOK DEF Status

\* A cleanup touches times, and may have the archive bit still to set.
LEMMA CleanupInv == ASSUME Inv, NEW c \in Client, Cleanup(c) PROVE Inv'
<1>1. /\ call[c] # NoCall /\ call[c].phase = "begun" /\ call[c].request.kind = "cleanup"
      /\ UNCHANGED <<directory, length, bytes, attributes>>
      /\ SetTimes([t \in call[c].request.touched |-> Now])
  BY DEF Cleanup, At
<1>2. call[c].info = <<>> /\ call[c].request \in Request
  BY <1>1, CallIs DEF CallFits, NoAnswer
<1>3. call[c].request.touched \in SUBSET {"access", "write"}
  BY <1>1, <1>2, Arguments
<1>4. PICK given : given = [t \in call[c].request.touched |-> Now]
  OBVIOUS
<1>5. DOMAIN given \subseteq TimeNames /\ \A t \in DOMAIN given : given[t] \in Int
  BY <1>3, <1>4, TimeAssumption DEF TimeNames
<1>6. times' \in [TimeNames -> Int]
  BY <1>1, <1>4, <1>5, SetTimesOK DEF Inv
<1>7. NodeOK' /\ directory' = directory
  BY <1>1, <1>6 DEF NodeOK, Inv
<1>8. CASE call[c].request.archive
  <2>1. Half(c)
    BY <1>8 DEF Cleanup
  <2> QED
    BY <1>1, <1>7, <1>8, <2>1, HalfOK
<1>9. CASE ~call[c].request.archive
  <2>1. call' = [call EXCEPT ![c].phase = "answered", ![c].status = "SUCCESS"]
    BY <1>9 DEF Cleanup
  <2> QED
    BY <1>1, <1>2, <1>7, <2>1, AnsweredOK
<1> QED
  BY <1>8, <1>9

\* It sets it among the attributes it saw.
LEMMA CleanupArchiveInv == ASSUME Inv, NEW c \in Client, CleanupArchive(c) PROVE Inv'
<1>1. /\ call[c] # NoCall /\ call[c].phase = "looked" /\ call[c].request.kind = "cleanup"
      /\ Phase(c, "answered") /\ UNCHANGED <<directory, length, bytes, times>>
      /\ attributes' = attributes \/ attributes' = call[c].seen.attributes \cup {"archive"}
  BY DEF CleanupArchive, At, SetAttributes
<1>2. /\ call[c] \in Callback /\ CallFits(call[c])
      /\ call[c].info = <<>> /\ call[c].status = "SUCCESS"
      /\ call[c].seen.attributes = attributes
  BY <1>1, CallIs DEF CallFits, NoAnswer
<1>3. attributes' \in SUBSET Attribute
  BY <1>1, <1>2, AttributeAssumption DEF Inv, NodeOK
<1>4. NodeOK'
  BY <1>1, <1>3 DEF NodeOK, Inv
<1>5. call' = [call EXCEPT ![c].phase = "answered", ![c].status = "SUCCESS"]
  <2>1. PICK y : y = [call[c] EXCEPT !.phase = "answered"]
    OBVIOUS
  <2>2. y = [call[c] EXCEPT !.phase = "answered", !.status = "SUCCESS"]
    BY <1>2, <2>1 DEF Callback
  <2>3. call' = [call EXCEPT ![c] = y]
    BY <1>1, <2>1 DEF Phase, Inv, CallsOK
  <2> QED
    BY <2>2, <2>3 DEF Inv, CallsOK
<1> QED
  BY <1>1, <1>2, <1>4, <1>5, AnsweredOK

\* An answer is one that may be given of the node.
LEMMA AnswerInv == ASSUME Inv, NEW c \in Client, Answer(c) PROVE Inv'
<1>1. call[c] # NoCall /\ call[c].phase = "done" /\ UNCHANGED node
  BY DEF Answer
<1>2. call[c] \in Callback /\ CallFits(call[c]) /\ FileInfo \in Info /\ InfoOK(FileInfo)
  BY <1>1, CallIs, FileInfoOK DEF Inv
<1>3. PICK i : i = IF call[c].request.kind = "read" THEN <<>> ELSE <<FileInfo>>
  OBVIOUS
<1>4. i \in Seq(Info) /\ \A n \in DOMAIN i : InfoOK(i[n])
  BY <1>2, <1>3
<1>5. PICK y : y = [call[c] EXCEPT !.phase = "answered", !.info = i]
  OBVIOUS
<1>6. y \in Callback /\ y.request = call[c].request
  BY <1>2, <1>4, <1>5 DEF Callback
<1>7. call' = [call EXCEPT ![c] = y]
  BY <1>2, <1>3, <1>5 DEF Answer, Inv, CallsOK
<1>8. CallFits(y)'
  <2>1. y.phase = "answered" /\ y.status = call[c].status /\ y.info = i
    BY <1>2, <1>5 DEF Callback
  <2>2. y.status = "SUCCESS" /\ y.request.kind # "cleanup"
    BY <1>1, <1>2, <1>6, <2>1 DEF CallFits
  <2>3. IF y.request.kind \in {"read", "cleanup"} THEN y.info = <<>>
        ELSE \E j \in Info : y.info = <<j>>
    BY <1>2, <1>3, <1>6, <2>1, <2>2
  <2>4. \A n \in DOMAIN y.info : InfoOK(y.info[n])'
    BY <1>1, <1>4, <2>1 DEF InfoOK, node
  <2> QED
    BY <2>1, <2>2, <2>3, <2>4 DEF CallFits
<1>9. NodeOK' /\ UNCHANGED <<directory, length, attributes>>
  BY <1>1 DEF node, NodeOK, Inv
<1> QED
  BY <1>1, <1>6, <1>7, <1>8, <1>9, StepInv

\* A call that is answered leaves nothing behind.
LEMMA ReturnInv == ASSUME Inv, NEW c \in Client, Return(c) PROVE Inv'
<1>1. call[c] # NoCall /\ call' = [call EXCEPT ![c] = NoCall] /\ UNCHANGED node
  BY DEF Return
<1>2. NodeOK' /\ UNCHANGED <<directory, length, attributes>>
  BY <1>1 DEF node, NodeOK, Inv
<1> QED
  BY <1>1, <1>2, StepInv

\* The invariant is inductive.
LEMMA NextInv == Inv /\ [Next]_vars => Inv'
<1> SUFFICES ASSUME Inv, [Next]_vars PROVE Inv'
  OBVIOUS
<1>1. CASE UNCHANGED vars
  BY <1>1 DEF vars, Inv, NodeOK, CallsOK, CallFits, NoAnswer, InfoOK, Alone
<1>2. ASSUME NEW c \in Client, NEW r \in Requests, Begin(c, r)
      PROVE  Inv'
  BY <1>2, BeginInv
<1>3. ASSUME NEW c \in Client, Step(c)
      PROVE  Inv'
  BY <1>3, LookInv, IsDirectoryInv, ReadInv, WriteRefusedInv, WriteInv, SetFileSizeInv,
     OverwriteInv, OverwriteAttributesSetInv, SetBasicInfoInv, SetBasicInfoTimesInv,
     GetFileInfoInv, CleanupInv, CleanupArchiveInv, AnswerInv, ReturnInv DEF Step
<1> QED
  BY <1>1, <1>2, <1>3 DEF Next

\* Of each callback it is known in each phase what it has seen and answered,
\* and what it has seen is still so; who changes the file is alone with it.
THEOREM CallbacksAreConsistent == Spec => []Inv
BY InitInv, NextInv, PTL DEF Spec

\* No answer reports less room than the file takes, a size that is not of
\* whole units, or attributes that Windows does not take.
THEOREM InfosFit == Spec => []InfoFits
<1>1. Inv => InfoFits
  BY DEF Inv, CallsOK, CallFits, InfoOK, InfoFits
<1> QED
  BY <1>1, CallbacksAreConsistent, PTL

-----------------------------------------------------------------------------
(***************************************************************************)
(* Appending.                                                              *)
(***************************************************************************)
\* Another client takes no step besides a callback that has asked to write.
LEMMA WriterIsAlone ==
  ASSUME Inv, NEW c \in Client, NEW d \in Client, call[c] # NoCall, ~Shared(call[c].request), d # c
  PROVE  call[d] = NoCall
BY DEF Inv, Alone

\* Who has no call under way takes no step of one.
LEMMA OthersDoNothing ==
  ASSUME Inv, NEW c \in Client, NEW d \in Client, call[d] = NoCall
  PROVE  ~Step(d)
BY DEF Step, Look, IsDirectory, Read, WriteRefused, Write, SetFileSize, Overwrite,
   OverwriteAttributesSet, SetBasicInfo, SetBasicInfoTimes, GetFileInfo, Cleanup, CleanupArchive,
   Answer, Return, At

\* What a callback that has looked does, when it is to write.
LEMMA WriterWrites ==
  ASSUME Inv, NEW c \in Client, At(c, "write", "looked"), Step(c), ~UNCHANGED <<length, bytes>>
  PROVE  Write(c)
<1>1. call[c].request.kind = "write" /\ call[c].phase = "looked"
  BY DEF At
<1>2. ~Look(c) /\ ~IsDirectory(c) /\ ~WriteRefused(c)
  BY <1>1 DEF Look, IsDirectory, WriteRefused, Fails, At, node
<1>3. ~Read(c) /\ ~SetFileSize(c) /\ ~Overwrite(c) /\ ~OverwriteAttributesSet(c)
  BY <1>1 DEF Read, SetFileSize, Overwrite, OverwriteAttributesSet, At
<1>4. ~SetBasicInfo(c) /\ ~SetBasicInfoTimes(c) /\ ~GetFileInfo(c) /\ ~Cleanup(c)
  BY <1>1 DEF SetBasicInfo, SetBasicInfoTimes, GetFileInfo, Cleanup, At
<1>5. ~CleanupArchive(c) /\ ~Answer(c) /\ ~Return(c)
  BY <1>1 DEF CleanupArchive, Answer, Return, At
<1> QED
  BY <1>2, <1>3, <1>4, <1>5 DEF Step

\* The write that a callback makes at the end it saw.
LEMMA AppendStep ==
  ASSUME Inv, NEW c \in Client, At(c, "write", "looked"), call[c].request.toEnd,
         Write(c), ~UNCHANGED <<length, bytes>>
  PROVE  /\ length' = length + (IF call[c].request.constrained THEN 0 ELSE Len(call[c].request.data))
         /\ \A i \in 0 .. length - 1 : bytes'[i] = bytes[i]
         /\ \A i \in length .. length' - 1 : bytes'[i] = call[c].request.data[i - length + 1]
<1>1. PICK r : r = call[c].request
  OBVIOUS
<1>2. r.toEnd /\ (r.toEnd \/ r.offset # MaxSize)
  BY <1>1
<1>3. r.constrained \/ Len(r.data) <= MaxSize - Offset(c)
  BY <1>1 DEF Write
<1>4. /\ r.data \in Seq(Byte)
      /\ Offset(c) = length
      /\ Input(c) \in Seq(Byte)
      /\ Len(Input(c)) = IF ~r.constrained \/ Len(r.data) <= length - Offset(c) THEN Len(r.data)
                         ELSE IF length < Offset(c) THEN 0 ELSE length - Offset(c)
      /\ \A i \in 1 .. Len(Input(c)) : Input(c)[i] = r.data[i]
  BY <1>1, <1>2, <1>3, WriteArguments
<1>5. length \in Nat /\ MaxSize \in Nat /\ Len(r.data) \in Nat
  BY <1>4, SizeAssumption DEF Inv, NodeOK
<1>6. Input(c) # <<>> /\ TreeWrite(Offset(c), Input(c))
  <2>1. ASSUME NEW lost \in SUBSET Unread(c), OutOfMemory(c, lost)
        PROVE  UNCHANGED <<length, bytes>>
    <3>1. Unread(c) = {}
      <4>1. ASSUME NEW i \in Unread(c) PROVE i \in Int /\ i < length /\ length <= i
        BY <1>4, ByteAssumption DEF Unread
      <4> QED
        BY <1>5, <4>1
    <3> QED
      BY <2>1, <3>1 DEF OutOfMemory, Inv, NodeOK
  <2>2. ~TreeWriteFails(c)
    BY <2>1 DEF TreeWriteFails, Fails, node
  <2> QED
    BY <2>2 DEF Write, node
<1>7. ~r.constrained /\ Len(Input(c)) = Len(r.data)
  BY <1>4, <1>5, <1>6
<1>8. /\ length' = IF length > length + Len(r.data) THEN length ELSE length + Len(r.data)
      /\ bytes' = [i \in 0 .. length' - 1 |->
                      IF length <= i /\ i < length + Len(r.data) THEN Input(c)[i - length + 1]
                      ELSE IF i < length THEN bytes[i] ELSE Zero]
  BY <1>4, <1>6, <1>7 DEF TreeWrite, Content!Write, Content!Larger
<1>9. length' = length + Len(r.data)
  BY <1>5, <1>8
<1>10. \A i \in 0 .. length - 1 : bytes'[i] = bytes[i]
  BY <1>5, <1>8, <1>9
<1>11. ASSUME NEW i \in length .. length' - 1
       PROVE  bytes'[i] = r.data[i - length + 1]
  <2>1. i \in 0 .. length' - 1 /\ length <= i /\ i < length + Len(r.data)
    BY <1>5, <1>9
  <2>2. bytes'[i] = Input(c)[i - length + 1]
    BY <1>8, <2>1
  <2>3. i - length + 1 \in 1 .. Len(Input(c))
    BY <1>5, <1>7, <2>1
  <2> QED
    BY <1>4, <2>2, <2>3
<1> QED
  BY <1>1, <1>7, <1>9, <1>10, <1>11

\* A write to the end of the file asks for the size and writes there in two
\* calls to the tree, and still keeps all there was and adds all its data
\* behind it: the driver's lock leaves nobody else to extend the file between.
THEOREM WritesToTheEndAppend == Spec => AppendsAtTheEnd
<1>1. ASSUME Inv, Next, NEW c \in Client, At(c, "write", "looked"), ~UNCHANGED <<length, bytes>>
      PROVE  Write(c)
  <2>1. PICK d \in Client : (\E r \in Requests : Begin(d, r)) \/ Step(d)
    BY <1>1 DEF Next
  <2>2. Step(d)
    BY <1>1, <2>1 DEF Begin, node
  <2>3. d = c
    <3>1. call[c] # NoCall /\ ~Shared(call[c].request)
      BY <1>1 DEF At, Shared
    <3> QED
      BY <1>1, <2>2, <3>1, WriterIsAlone, OthersDoNothing
  <2> QED
    BY <1>1, <2>2, <2>3, WriterWrites
<1>2. Inv /\ [Next]_vars =>
        [\A c \in Client :
          (/\ At(c, "write", "looked") /\ call[c].request.toEnd
           /\ <<length, bytes>> # <<length', bytes'>>) =>
              /\ length' = length + (IF call[c].request.constrained THEN 0 ELSE Len(call[c].request.data))
              /\ \A i \in 0 .. length - 1 : bytes'[i] = bytes[i]
              /\ \A i \in length .. length' - 1 : bytes'[i] = call[c].request.data[i - length + 1]]_vars
  <2> SUFFICES ASSUME Inv, Next, NEW c \in Client, At(c, "write", "looked"),
                      call[c].request.toEnd, ~UNCHANGED <<length, bytes>>
               PROVE  /\ length' = length + (IF call[c].request.constrained THEN 0
                                             ELSE Len(call[c].request.data))
                      /\ \A i \in 0 .. length - 1 : bytes'[i] = bytes[i]
                      /\ \A i \in length .. length' - 1 :
                            bytes'[i] = call[c].request.data[i - length + 1]
    OBVIOUS
  <2> QED
    BY <1>1, AppendStep
<1> QED
  BY <1>2, CallbacksAreConsistent, PTL DEF Spec, AppendsAtTheEnd

-----------------------------------------------------------------------------
(***************************************************************************)
(* The file as its users see it.                                           *)
(***************************************************************************)
\* The callback of c has nothing half done.
Plain(c) ==
    /\ ~At(c, "overwrite", "half") /\ ~At(c, "basic", "half")
    /\ ~At(c, "cleanup", "half") /\ ~At(c, "cleanup", "looked")

PlainTimes == [t \in TimeNames |-> ToFileTime(times[t])]

\* What the view makes of the node, with nothing half done and for each kind
\* of callback that has.
PlainView == (\A c \in Client : Plain(c)) => CompleteAttributes = attributes /\ CompleteTimes = PlainTimes
CallerView ==
    \A c \in Client : (call[c] # NoCall /\ Plain(c)) =>
        /\ \A d \in Client : Plain(d)
        /\ CompleteAttributes = attributes
        /\ CompleteTimes = PlainTimes
OverwriteView ==
    \A c \in Client : At(c, "overwrite", "half") =>
        CompleteAttributes = OverwriteAttributes(c) /\ CompleteTimes = PlainTimes
BasicView ==
    \A c \in Client : At(c, "basic", "half") =>
        /\ CompleteAttributes = attributes
        /\ CompleteTimes = [t \in TimeNames |->
              IF call[c].request.times[t] # 0 THEN ToFileTime(FromFileTime(call[c].request.times[t]))
              ELSE ToFileTime(times[t])]
CleanupView ==
    \A c \in Client : (At(c, "cleanup", "half") \/ At(c, "cleanup", "looked")) =>
        /\ CompleteAttributes = IF directory THEN attributes ELSE attributes \cup {"archive"}
        /\ CompleteTimes = PlainTimes

\* A callback that has something half done is the only one.
LEMMA HalfDoneIsAlone ==
  ASSUME Inv, NEW c \in Client, call[c] # NoCall, ~Plain(c) \/ ~Shared(call[c].request),
         NEW d \in Client, d # c
  PROVE  call[d] = NoCall
<1>1. ~Shared(call[c].request)
  BY DEF Plain, At, Shared
<1> QED
  BY <1>1, WriterIsAlone

\* The times, with and without a callback that has to set them.
LEMMA TimesOf ==
  ASSUME Inv
  PROVE  /\ Halfway("basic") = {} => CompleteTimes = PlainTimes
         /\ \A c \in Client : Halfway("basic") = {c} =>
               CompleteTimes = [t \in TimeNames |->
                  IF call[c].request.times[t] # 0 THEN ToFileTime(FromFileTime(call[c].request.times[t]))
                  ELSE ToFileTime(times[t])]
<1>1. DOMAIN times = TimeNames
  BY DEF Inv, NodeOK
<1>2. ASSUME Halfway("basic") = {}
      PROVE  CompleteTimes = PlainTimes
  BY <1>1, <1>2 DEF CompleteTimes, PlainTimes
<1>3. ASSUME NEW c \in Client, Halfway("basic") = {c}
      PROVE  CompleteTimes = [t \in TimeNames |->
                IF call[c].request.times[t] # 0 THEN ToFileTime(FromFileTime(call[c].request.times[t]))
                ELSE ToFileTime(times[t])]
  <2>1. (CHOOSE d \in Halfway("basic") : TRUE) = c
    BY <1>3
  <2>2. PICK given : given = GivenTimes(c)
    OBVIOUS
  <2>3. CompleteTimes = [t \in TimeNames |->
           ToFileTime(IF t \in DOMAIN given THEN given[t] ELSE times[t])]
    BY <1>1, <1>3, <2>1, <2>2 DEF CompleteTimes
  <2>4. /\ DOMAIN given = {u \in TimeNames : call[c].request.times[u] # 0}
        /\ \A t \in DOMAIN given : given[t] = FromFileTime(call[c].request.times[t])
    BY <1>1, <2>2 DEF GivenTimes
  <2> QED
    BY <2>3, <2>4
<1> QED
  BY <1>2, <1>3

\* With nothing half done, the node is what is seen of it.
LEMMA PlainViewOK == Inv => PlainView
<1> SUFFICES ASSUME Inv, \A c \in Client : Plain(c)
             PROVE  CompleteAttributes = attributes /\ CompleteTimes = PlainTimes
  BY DEF PlainView
<1>1. Halfway("overwrite") = {} /\ Halfway("basic") = {} /\ ~ArchiveToSet
  BY DEF Plain, Halfway, ArchiveToSet
<1> QED
  BY <1>1, TimesOf DEF CompleteAttributes

\* So it is if the callback of one client has nothing half done and is alone, or shares.
LEMMA CallerViewOK == Inv => CallerView
<1> SUFFICES ASSUME Inv, NEW c \in Client, call[c] # NoCall, Plain(c)
             PROVE  /\ \A d \in Client : Plain(d)
                    /\ CompleteAttributes = attributes /\ CompleteTimes = PlainTimes
  BY DEF CallerView
<1>1. ASSUME NEW d \in Client
      PROVE  Plain(d)
  <2>1. CASE d = c
    BY <2>1
  <2>2. CASE d # c /\ call[d] = NoCall
    BY <2>2 DEF Plain, At
  <2>3. CASE d # c /\ call[d] # NoCall
    BY <2>3, HalfDoneIsAlone
  <2> QED
    BY <2>1, <2>2, <2>3
<1> QED
  BY <1>1, PlainViewOK DEF PlainView

\* With a callback that is alone, who is halfway is known.
LEMMA HalfwayIs ==
  ASSUME Inv, NEW c \in Client, call[c] # NoCall, ~Plain(c)
  PROVE  /\ \A kind : Halfway(kind) = IF At(c, kind, "half") THEN {c} ELSE {}
         /\ ArchiveToSet <=> (At(c, "cleanup", "half") \/ At(c, "cleanup", "looked"))
<1>1. \A d \in Client : d # c => call[d] = NoCall
  BY HalfDoneIsAlone
<1> QED
  BY <1>1 DEF Halfway, ArchiveToSet, At

\* Half of an overwrite is seen with the attributes it will set.
LEMMA OverwriteViewOK == Inv => OverwriteView
<1> SUFFICES ASSUME Inv, NEW c \in Client, At(c, "overwrite", "half")
             PROVE  CompleteAttributes = OverwriteAttributes(c) /\ CompleteTimes = PlainTimes
  BY DEF OverwriteView
<1>1. call[c] # NoCall /\ ~Plain(c) /\ ~At(c, "basic", "half")
  BY DEF Plain, At
<1>2. Halfway("overwrite") = {c} /\ Halfway("basic") = {}
  BY <1>1, HalfwayIs
<1>3. (CHOOSE d \in Halfway("overwrite") : TRUE) = c
  BY <1>2
<1> QED
  BY <1>2, <1>3, TimesOf DEF CompleteAttributes

\* Half of a SetBasicInfo is seen with the times it will set.
LEMMA BasicViewOK == Inv => BasicView
<1> SUFFICES ASSUME Inv, NEW c \in Client, At(c, "basic", "half")
             PROVE  /\ CompleteAttributes = attributes
                    /\ CompleteTimes = [t \in TimeNames |->
                          IF call[c].request.times[t] # 0
                          THEN ToFileTime(FromFileTime(call[c].request.times[t]))
                          ELSE ToFileTime(times[t])]
  BY DEF BasicView
<1>1. /\ call[c] # NoCall /\ ~Plain(c) /\ ~At(c, "overwrite", "half")
      /\ ~At(c, "cleanup", "half") /\ ~At(c, "cleanup", "looked")
  BY DEF Plain, At
<1>2. Halfway("overwrite") = {} /\ Halfway("basic") = {c} /\ ~ArchiveToSet
  BY <1>1, HalfwayIs
<1> QED
  BY <1>2, TimesOf DEF CompleteAttributes

\* A cleanup is seen with the archive bit as soon as with its times.
LEMMA CleanupViewOK == Inv => CleanupView
<1> SUFFICES ASSUME Inv, NEW c \in Client, At(c, "cleanup", "half") \/ At(c, "cleanup", "looked")
             PROVE  /\ CompleteAttributes = IF directory THEN attributes ELSE attributes \cup {"archive"}
                    /\ CompleteTimes = PlainTimes
  BY DEF CleanupView
<1>1. call[c] # NoCall /\ ~Plain(c) /\ ~At(c, "overwrite", "half") /\ ~At(c, "basic", "half")
  BY DEF Plain, At
<1>2. Halfway("overwrite") = {} /\ Halfway("basic") = {} /\ ArchiveToSet
  BY <1>1, HalfwayIs
<1> QED
  BY <1>2, TimesOf DEF CompleteAttributes

Views == PlainView /\ CallerView /\ OverwriteView /\ BasicView /\ CleanupView

\* All of these.
LEMMA ViewsOK == Inv => Views
BY PlainViewOK, CallerViewOK, OverwriteViewOK, BasicViewOK, CleanupViewOK DEF Views

\* And all of these after a step.
LEMMA ViewsNext == Inv' => Views'
BY ViewsOK, PTL

\* Nothing half done before or after: the view is that of the node.
LEMMA PlainStays ==
  ASSUME Views, Views', NEW c \in Client,
         (call[c] # NoCall /\ Plain(c)) \/ \A d \in Client : Plain(d),
         NEW y, call' = [call EXCEPT ![c] = y], Plain(c)', call \in [Client -> Callback \cup {NoCall}]
  PROVE  /\ CompleteAttributes = attributes /\ CompleteTimes = PlainTimes
         /\ CompleteAttributes' = attributes' /\ CompleteTimes' = PlainTimes'
<1>1. /\ \A d \in Client : Plain(d)
      /\ CompleteAttributes = attributes /\ CompleteTimes = PlainTimes
  BY DEF Views, PlainView, CallerView
<1>2. ASSUME NEW d \in Client
      PROVE  Plain(d)'
  <2>1. CASE d = c
    BY <2>1
  <2>2. CASE d # c
    BY <1>1, <2>2 DEF Plain, At
  <2> QED
    BY <2>1, <2>2
<1>3. CompleteAttributes' = attributes' /\ CompleteTimes' = PlainTimes'
  BY <1>2 DEF Views, PlainView
<1> QED
  BY <1>1, <1>3

\* A step of one callback changes nothing of the calls of the others, which
\* it leaves the file as they see it unless there are none.
LEMMA OthersViewed ==
  ASSUME Inv, NEW c \in Client, NEW y, call' = [call EXCEPT ![c] = y],
         ViewedInfo' = ViewedInfo \/ \A d \in Client : d # c => call[d] = NoCall
  PROVE  \A d \in Client : d # c => ViewedCall(d)' = ViewedCall(d)
<1> SUFFICES ASSUME NEW d \in Client, d # c
             PROVE  ViewedCall(d)' = ViewedCall(d)
  OBVIOUS
<1>1. call'[d] = call[d]
  BY DEF Inv, CallsOK
<1>2. CASE call[d] = NoCall
  BY <1>1, <1>2 DEF ViewedCall
<1>3. CASE call[d] # NoCall
  <2>1. ViewedInfo' = ViewedInfo
    BY <1>3
  <2>2. ViewedAnswer(d)' = ViewedAnswer(d)
    BY <1>1, <2>1 DEF ViewedAnswer
  <2> QED
    BY <1>1, <2>2 DEF ViewedCall
<1> QED
  BY <1>2, <1>3

\* The view of a call that goes on is that of its answer.
LEMMA CallViewed ==
  ASSUME Inv, NEW c \in Client, call[c] # NoCall, NEW y \in Callback, y.request = call[c].request,
         call' = [call EXCEPT ![c] = y],
         ViewedInfo' = ViewedInfo \/ \A d \in Client : d # c => call[d] = NoCall
  PROVE  FileCalls' = [FileCalls EXCEPT ![c].answer = ViewedAnswer(c)']
<1>1. \A d \in Client : d # c => ViewedCall(d)' = ViewedCall(d)
  BY OthersViewed
<1>2. call'[c] = y /\ y # NoCall
  BY RequestsAssumption DEF Inv, CallsOK
<1>3. ViewedCall(c)' = [request |-> call[c].request, answer |-> ViewedAnswer(c)']
  BY <1>2 DEF ViewedCall
<1>4. FileCalls[c] = [request |-> call[c].request, answer |-> ViewedAnswer(c)]
  BY DEF FileCalls, ViewedCall
<1>5. PICK a : a = ViewedAnswer(c)'
  OBVIOUS
<1>6. [FileCalls[c] EXCEPT !.answer = a] = [request |-> call[c].request, answer |-> a]
  BY <1>4
<1>7. FileCalls' = [d \in Client |-> IF d = c THEN [request |-> call[c].request, answer |-> a]
                                   ELSE FileCalls[d]]
  BY <1>1, <1>3, <1>5 DEF FileCalls
<1>8. [FileCalls EXCEPT ![c].answer = a]
        = [d \in Client |-> IF d = c THEN [request |-> call[c].request, answer |-> a]
                            ELSE FileCalls[d]]
  <2>1. PICK f : f = FileCalls
    OBVIOUS
  <2>2. f = [d \in Client |-> f[d]]
    BY <2>1 DEF FileCalls
  <2>3. [f EXCEPT ![c].answer = a] = [d \in Client |-> IF d = c THEN [f[c] EXCEPT !.answer = a] ELSE f[d]]
    BY <2>2
  <2> QED
    BY <1>6, <2>1, <2>3
<1> QED
  BY <1>5, <1>7, <1>8

\* What is seen of the node can be answered.
LEMMA NodeIsVisible == ASSUME Inv PROVE ViewedInfo \in Visible
<1>1. /\ attributes \in SUBSET Attribute /\ length \in 0 .. MaxSize
      /\ times \in [TimeNames -> Int]
  BY DEF Inv, NodeOK
<1>2. PlainTimes \in [TimeNames -> Nat]
  BY <1>1, TimesFit DEF PlainTimes
<1>3. Views
  BY ViewsOK
<1>4. CompleteAttributes \in SUBSET Attribute /\ CompleteTimes \in [TimeNames -> Nat]
  <2>1. CASE \A c \in Client : Plain(c)
    BY <1>1, <1>2, <1>3, <2>1 DEF Views, PlainView
  <2>2. ASSUME NEW c \in Client, At(c, "overwrite", "half")
        PROVE  CompleteAttributes \in SUBSET Attribute /\ CompleteTimes \in [TimeNames -> Nat]
    <3>1. /\ call[c].request \in Request /\ call[c].request.kind = "overwrite"
          /\ call[c].seen \in Seen
      BY <2>2, CallIs DEF At, CallFits
    <3>2. call[c].request.attributes \in SUBSET Attribute
      BY <3>1, Arguments
    <3>3. OverwriteAttributes(c) \in SUBSET Attribute
      BY <3>1, <3>2, AttributeAssumption DEF OverwriteAttributes, Seen
    <3> QED
      BY <1>2, <1>3, <2>2, <3>3 DEF Views, OverwriteView
  <2>3. ASSUME NEW c \in Client, At(c, "basic", "half")
        PROVE  CompleteAttributes \in SUBSET Attribute /\ CompleteTimes \in [TimeNames -> Nat]
    <3>1. PICK asked : asked = call[c].request.times
      OBVIOUS
    <3>2. asked \in [{"creation", "access", "write", "change"} -> Nat]
      BY <2>3, <3>1, CallIs, Arguments DEF At
    <3>3. /\ CompleteAttributes = attributes
          /\ CompleteTimes = [t \in TimeNames |->
                IF asked[t] # 0 THEN ToFileTime(FromFileTime(asked[t])) ELSE ToFileTime(times[t])]
      BY <1>3, <2>3, <3>1 DEF Views, BasicView
    <3>4. ASSUME NEW t \in TimeNames
          PROVE  ToFileTime(FromFileTime(asked[t])) \in Nat /\ ToFileTime(times[t]) \in Nat
      <4>1. asked[t] \in Nat
        BY <3>2 DEF TimeNames
      <4>2. FromFileTime(asked[t]) \in Int
        BY <4>1, TimeAssumption DEF FromFileTime
      <4> QED
        BY <1>1, <4>2, TimesFit
    <3> QED
      BY <1>1, <3>3, <3>4
  <2>4. ASSUME NEW c \in Client, At(c, "cleanup", "half") \/ At(c, "cleanup", "looked")
        PROVE  CompleteAttributes \in SUBSET Attribute /\ CompleteTimes \in [TimeNames -> Nat]
    BY <1>1, <1>2, <1>3, <2>4, AttributeAssumption DEF Views, CleanupView
  <2> QED
    BY <2>1, <2>2, <2>3, <2>4 DEF Plain
<1>5. FileAttributes \in SUBSET Attribute
  BY <1>4 DEF FileAttributes, ViewedAttributes
<1> QED
  BY <1>1, <1>4, <1>5 DEF ViewedInfo, Visible, TimeNames

\* A call is seen under way, and as unanswered until it takes effect.
LEMMA CallSeen ==
  ASSUME Inv, NEW c \in Client, call[c] # NoCall
  PROVE  /\ FileCalls[c] # NoCall
         /\ FileCalls[c].request = call[c].request
         /\ FileCalls[c].answer = ViewedAnswer(c)
         /\ FileCalls[c].answer.status = call[c].status
<1>1. FileCalls[c] = [request |-> call[c].request, answer |-> ViewedAnswer(c)]
  BY DEF FileCalls, ViewedCall
<1>2. ViewedAnswer(c).status = call[c].status
  BY DEF ViewedAnswer
<1>3. /\ call[c].request \in Request /\ call[c].data \in Seq(Byte) /\ call[c].count \in Nat
      /\ call[c].status \in Status /\ call[c].info \in Seq(Info)
  BY CallIs DEF Callback
<1>4. ViewedAnswer(c).info \in Seq(Visible)
  <2>1. <<ViewedInfo>> \in Seq(Visible) /\ <<>> \in Seq(Visible)
    BY NodeIsVisible
  <2>2. ASSUME call[c].info # <<>>
        PROVE  <<[size |-> call[c].info[1].size,
                  attributes |-> ViewedAttributes(call[c].info[1].attributes),
                  times |-> call[c].info[1].times]>> \in Seq(Visible)
    <3>1. PICK i : i = call[c].info[1]
      OBVIOUS
    <3>2. i \in Info
      BY <1>3, <2>2, <3>1
    <3>3. [size |-> i.size, attributes |-> ViewedAttributes(i.attributes), times |-> i.times]
            \in Visible
      BY <3>2 DEF Info, Visible, ViewedAttributes
    <3> QED
      BY <3>1, <3>3
  <2> QED
    BY <2>1, <2>2 DEF ViewedAnswer
<1>5. ViewedAnswer(c) \in [status : Status, data : Seq(Byte), count : Nat, info : Seq(Visible)]
  BY <1>3, <1>4 DEF ViewedAnswer
<1>6. FileCalls[c] # NoCall
  BY <1>1, <1>3, <1>5, RequestsAssumption DEF Call
<1> QED
  BY <1>1, <1>2, <1>6

\* Of the content nothing is seen but its bytes.
LEMMA BytesSeen ==
  ASSUME Inv
  PROVE  /\ Len(FileBytes) = length
         /\ FileBytes \in Seq(Byte)
         /\ \A i \in 1 .. length : FileBytes[i] = bytes[i - 1]
<1>1. length \in Nat /\ bytes \in [0 .. length - 1 -> Byte]
  BY SizeAssumption DEF Inv, NodeOK
<1>2. \A i \in 1 .. length : bytes[i - 1] \in Byte
  <2> SUFFICES ASSUME NEW i \in 1 .. length PROVE bytes[i - 1] \in Byte
    OBVIOUS
  <2>1. i - 1 \in 0 .. length - 1
    BY <1>1
  <2> QED
    BY <1>1, <2>1
<1> QED
  BY <1>1, <1>2 DEF FileBytes

-----------------------------------------------------------------------------
(***************************************************************************)
(* A step of a callback, as it is seen.                                    *)
(***************************************************************************)
Appearance == <<FileBytes, FileAttributes, CompleteTimes>>

\* A step that does nothing to the node, and has nothing half done before or
\* after, is not seen.
LEMMA NothingSeen ==
  ASSUME Inv, Inv', NEW c \in Client, call[c] # NoCall, Plain(c),
         NEW y \in Callback \cup {NoCall}, call' = [call EXCEPT ![c] = y],
         y # NoCall => y.phase # "half" /\ (y.phase # "looked" \/ y.request.kind # "cleanup"),
         UNCHANGED node
  PROVE  UNCHANGED <<directory, Appearance>> /\ ViewedInfo' = ViewedInfo
<1>1. Views /\ Views' /\ call \in [Client -> Callback \cup {NoCall}]
  BY ViewsOK, ViewsNext DEF Inv, CallsOK
<1>2. Plain(c)'
  <2>1. call'[c] = y
    BY <1>1
  <2> QED
    BY <2>1 DEF Plain, At
<1>3. /\ CompleteAttributes = attributes /\ CompleteTimes = PlainTimes
      /\ CompleteAttributes' = attributes' /\ CompleteTimes' = PlainTimes'
  BY <1>1, <1>2, PlainStays
<1>4. CompleteAttributes' = CompleteAttributes /\ CompleteTimes' = CompleteTimes
  BY <1>3 DEF node, PlainTimes
<1>5. FileAttributes' = FileAttributes /\ FileBytes' = FileBytes
  BY <1>4 DEF FileAttributes, FileBytes, ViewedAttributes, node
<1> QED
  BY <1>4, <1>5 DEF Appearance, ViewedInfo, node

\* A callback that begins is seen as a call that is made.
LEMMA BeginIsMade ==
  ASSUME Inv, Inv', NEW c \in Client, NEW r \in Requests, Begin(c, r)
  PROVE  File!Make(c, r)
<1>1. call[c] = NoCall /\ Granted(c, r) /\ call' = [call EXCEPT ![c] = Begun(r)] /\ UNCHANGED node
  BY DEF Begin
<1>2. PICK y : y = Begun(r)
  OBVIOUS
<1>3. /\ y \in Callback /\ y # NoCall /\ y.request = r /\ y.phase = "begun" /\ y.status = "none"
      /\ y.data = <<>> /\ y.count = 0
  <2>1. r \in Request
    BY RequestsAssumption
  <2>2. y \in Callback
    BY <1>2, <2>1 DEF Begun, Callback, Status
  <2>3. y # NoCall
    BY <2>2, RequestsAssumption
  <2> QED
    BY <1>2, <2>2, <2>3 DEF Begun
<1>4. call' = [call EXCEPT ![c] = y] /\ call'[c] = y
  BY <1>1, <1>2 DEF Inv, CallsOK
<1>5. ASSUME NEW d \in Client
      PROVE  Plain(d)
  BY <1>1 DEF Granted, Plain, At, Shared
<1>6. Plain(c)'
  BY <1>3, <1>4 DEF Plain, At
<1>7. Views /\ Views' /\ call \in [Client -> Callback \cup {NoCall}]
  BY ViewsOK, ViewsNext DEF Inv, CallsOK
<1>8. /\ CompleteAttributes = attributes /\ CompleteTimes = PlainTimes
      /\ CompleteAttributes' = attributes' /\ CompleteTimes' = PlainTimes'
  BY <1>4, <1>5, <1>6, <1>7, PlainStays
<1>9. CompleteAttributes' = CompleteAttributes /\ CompleteTimes' = CompleteTimes
  BY <1>1, <1>8 DEF node, PlainTimes
<1>10. FileAttributes' = FileAttributes /\ FileBytes' = FileBytes /\ directory' = directory
  BY <1>1, <1>9 DEF FileAttributes, FileBytes, ViewedAttributes, node
<1>11. ViewedInfo' = ViewedInfo
  BY <1>1, <1>9, <1>10 DEF ViewedInfo, node
<1>12. \A d \in Client : d # c => ViewedCall(d)' = ViewedCall(d)
  BY <1>4, <1>11, OthersViewed
<1>13. PICK a : a = [status |-> "none", data |-> <<>>, count |-> 0, info |-> <<>>]
  OBVIOUS
<1>14. ViewedCall(c)' = [request |-> r, answer |-> a]
  <2>1. ViewedAnswer(c)' = a
    BY <1>3, <1>4, <1>13 DEF ViewedAnswer
  <2> QED
    BY <1>3, <1>4, <2>1 DEF ViewedCall
<1>15. FileCalls' = [FileCalls EXCEPT ![c] = [request |-> r, answer |-> a]]
  BY <1>12, <1>14 DEF FileCalls
<1>16. FileCalls[c] = NoCall
  BY <1>1 DEF FileCalls, ViewedCall
<1> QED
  BY <1>9, <1>10, <1>13, <1>15, <1>16 DEF File!Make, File!Answer, File!file

\* One that returns is seen to.
LEMMA ReturnIsSeen ==
  ASSUME Inv, Inv', NEW c \in Client, Return(c)
  PROVE  File!Return(c)
<1>1. /\ call[c] # NoCall /\ call[c].phase = "answered" /\ call' = [call EXCEPT ![c] = NoCall]
      /\ UNCHANGED node
  BY DEF Return
<1>2. call[c].status # "none" /\ Plain(c)
  BY <1>1, CallIs DEF CallFits, Plain, At
<1>3. UNCHANGED <<directory, Appearance>> /\ ViewedInfo' = ViewedInfo
  BY <1>1, <1>2, NothingSeen
<1>4. \A d \in Client : d # c => ViewedCall(d)' = ViewedCall(d)
  BY <1>1, <1>3, OthersViewed
<1>5. ViewedCall(c)' = NoCall
  <2>1. call'[c] = NoCall
    BY <1>1 DEF Inv, CallsOK
  <2> QED
    BY <2>1 DEF ViewedCall
<1>6. FileCalls' = [FileCalls EXCEPT ![c] = NoCall]
  BY <1>4, <1>5 DEF FileCalls
<1>7. FileCalls[c] # NoCall /\ FileCalls[c].answer.status # "none"
  BY <1>1, <1>2, CallSeen
<1> QED
  BY <1>3, <1>6, <1>7 DEF File!Return, File!Unanswered, File!file, Appearance

\* Who is not shared is alone.
LEMMA NobodyElse ==
  ASSUME Inv, NEW c \in Client, call[c] # NoCall, ~Shared(call[c].request)
  PROVE  \A d \in Client : d # c => call[d] = NoCall
BY WriterIsAlone

\* The answer that is seen of a callback that ends.
LEMMA EndSeen ==
  ASSUME Inv, NEW c \in Client, call[c] # NoCall, call[c].info = <<>>,
         NEW status \in Status \ {"none"}, NEW data \in Seq(Byte), NEW count \in Nat,
         Ends(c, status, data, count),
         ViewedInfo' = ViewedInfo \/ ~Shared(call[c].request)
  PROVE  FileCalls' = [FileCalls EXCEPT ![c].answer =
             [status |-> status, data |-> data, count |-> count,
              info |-> IF status # "SUCCESS" \/ call[c].request.kind \in {"read", "cleanup"} THEN <<>>
                       ELSE <<ViewedInfo'>>]]
<1>1. call[c] \in Callback
  BY CallIs
<1>2. PICK y : y = [call[c] EXCEPT !.phase = IF status = "SUCCESS" THEN "done" ELSE "answered",
                                   !.status = status, !.data = data, !.count = count]
  OBVIOUS
<1>3. /\ y \in Callback /\ y.request = call[c].request /\ y.info = <<>>
      /\ y.status = status /\ y.data = data /\ y.count = count
  BY <1>1, <1>2 DEF Callback
<1>4. call' = [call EXCEPT ![c] = y] /\ call'[c] = y
  BY <1>1, <1>2 DEF Ends, Inv, CallsOK
<1>5. ViewedAnswer(c)' =
        [status |-> status, data |-> data, count |-> count,
         info |-> IF status # "SUCCESS" \/ call[c].request.kind \in {"read", "cleanup"} THEN <<>>
                  ELSE <<ViewedInfo'>>]
  BY <1>3, <1>4 DEF ViewedAnswer
<1>6. ViewedInfo' = ViewedInfo \/ \A d \in Client : d # c => call[d] = NoCall
  BY NobodyElse
<1> QED
  BY <1>3, <1>4, <1>5, <1>6, CallViewed

\* The answer that is seen of one that has made its first change.
LEMMA HalfSeen ==
  ASSUME Inv, NEW c \in Client, call[c] # NoCall, NoAnswer(call[c]), Half(c),
         ~Shared(call[c].request), call[c].request.kind # "read"
  PROVE  FileCalls' = [FileCalls EXCEPT ![c].answer =
             [status |-> "SUCCESS", data |-> <<>>, count |-> 0,
              info |-> IF call[c].request.kind = "cleanup" THEN <<>> ELSE <<ViewedInfo'>>]]
<1>1. call[c] \in Callback
  BY CallIs
<1>2. PICK y : y = [call[c] EXCEPT !.phase = "half", !.status = "SUCCESS"]
  OBVIOUS
<1>3. /\ y \in Callback /\ y.request = call[c].request /\ y.info = <<>>
      /\ y.status = "SUCCESS" /\ y.data = <<>> /\ y.count = 0
  BY <1>1, <1>2 DEF Callback, Status, NoAnswer
<1>4. call' = [call EXCEPT ![c] = y] /\ call'[c] = y
  BY <1>1, <1>2 DEF Half, Inv, CallsOK
<1>5. ViewedAnswer(c)' =
        [status |-> "SUCCESS", data |-> <<>>, count |-> 0,
         info |-> IF call[c].request.kind = "cleanup" THEN <<>> ELSE <<ViewedInfo'>>]
  BY <1>3, <1>4 DEF ViewedAnswer
<1> QED
  BY <1>3, <1>4, <1>5, NobodyElse, CallViewed

\* A step that leaves all that is seen.
LEMMA Unseen ==
  ASSUME Inv, NEW c \in Client, call[c] # NoCall,
         NEW y \in Callback, y.request = call[c].request, call' = [call EXCEPT ![c] = y],
         UNCHANGED <<directory, Appearance>>, ViewedInfo' = ViewedInfo,
         ViewedAnswer(c)' = ViewedAnswer(c)
  PROVE  UNCHANGED File!vars
<1>1. \A d \in Client : d # c => ViewedCall(d)' = ViewedCall(d)
  BY OthersViewed
<1>2. call'[c] = y /\ y # NoCall
  BY RequestsAssumption DEF Inv, CallsOK
<1>3. ViewedCall(c)' = ViewedCall(c)
  BY <1>2 DEF ViewedCall
<1>4. FileCalls' = FileCalls
  BY <1>1, <1>3 DEF FileCalls
<1> QED
  BY <1>4 DEF File!vars, Appearance

SizeSeen == Len(FileBytes) = length

\* The size of a file is the number of its bytes.
LEMMA SizeIsSeen == Inv => SizeSeen
BY BytesSeen DEF SizeSeen

\* And so after a step.
LEMMA SizeIsSeenNext == Inv' => SizeSeen'
BY SizeIsSeen, PTL

\* A callback that fails is seen as refused.
LEMMA FailIsRefused ==
  ASSUME Inv, Inv', NEW c \in Client, call[c] # NoCall, call[c].phase = "looked",
         call[c].request.kind # "cleanup",
         NEW status \in Status \ {"none", "SUCCESS"}, Fails(c, status),
         NEW r, r = call[c].request, File!Reason(r, status)
  PROVE  File!Refuse(c, status)
<1>1. Ends(c, status, <<>>, 0) /\ UNCHANGED node
  BY DEF Fails
<1>2. /\ call[c] \in Callback /\ call[c].info = <<>> /\ call[c].status = "none" /\ Plain(c)
  BY CallIs DEF CallFits, NoAnswer, Plain, At
<1>3. PICK y : y = [call[c] EXCEPT !.phase = "answered", !.status = status, !.data = <<>>, !.count = 0]
  OBVIOUS
<1>4. y \in Callback /\ y.phase = "answered"
  <2>1. <<>> \in Seq(Byte) /\ 0 \in Nat
    OBVIOUS
  <2> QED
    BY <1>2, <1>3, <2>1 DEF Callback
<1>5. call' = [call EXCEPT ![c] = y]
  BY <1>1, <1>2, <1>3 DEF Ends, Inv, CallsOK
<1>6. UNCHANGED <<directory, Appearance>> /\ ViewedInfo' = ViewedInfo
  BY <1>1, <1>2, <1>4, <1>5, NothingSeen
<1>7. PICK d \in Seq(Byte), n \in Nat : d = <<>> /\ n = 0
  <2>1. <<>> \in Seq(Byte) /\ 0 \in Nat
    OBVIOUS
  <2> QED
    BY <2>1
<1>8. FileCalls' = [FileCalls EXCEPT ![c].answer =
         [status |-> status, data |-> <<>>, count |-> 0, info |-> <<>>]]
  <2>1. Ends(c, status, d, n)
    BY <1>1, <1>7
  <2>2. FileCalls' = [FileCalls EXCEPT ![c].answer =
           [status |-> status, data |-> d, count |-> n,
            info |-> IF status # "SUCCESS" \/ call[c].request.kind \in {"read", "cleanup"} THEN <<>>
                     ELSE <<ViewedInfo'>>]]
    BY <1>2, <1>6, <2>1, EndSeen
  <2> QED
    BY <1>7, <2>2
<1>9. FileCalls[c] # NoCall /\ FileCalls[c].request = r /\ FileCalls[c].answer.status = "none"
  BY <1>2, CallSeen
<1> QED
  BY <1>6, <1>8, <1>9 DEF File!Refuse, File!Unanswered, File!Gets, File!Answer, File!file, Appearance

\* A call on the content of a directory is refused as one.
LEMMA IsDirectoryIsRefused ==
  ASSUME Inv, Inv', NEW c \in Client, IsDirectory(c)
  PROVE  File!Refuse(c, "FILE_IS_A_DIRECTORY")
<1>1. /\ call[c] # NoCall /\ call[c].phase = "looked" /\ directory
      /\ call[c].request.kind \in {"read", "write", "size", "overwrite"}
      /\ Fails(c, "FILE_IS_A_DIRECTORY")
  BY DEF IsDirectory, At
<1>2. PICK r : r = call[c].request
  OBVIOUS
<1>3. File!Reason(r, "FILE_IS_A_DIRECTORY")
  BY <1>1, <1>2 DEF File!Reason
<1> QED
  BY <1>1, <1>2, <1>3, FailIsRefused DEF Status

\* The positions that a write is seen to replace are those of what it hands to
\* the tree.
LEMMA ReplacedIs ==
  ASSUME Inv, NEW c \in Client, At(c, "write", "looked"),
         NEW r, r = call[c].request,
         r.toEnd \/ r.offset # MaxSize, r.constrained \/ Len(r.data) <= MaxSize - Offset(c)
  PROVE  /\ File!Start(r) = Offset(c)
         /\ File!Replaced(r) = Offset(c) + 1 .. Offset(c) + Len(Input(c))
         /\ Cardinality(File!Replaced(r)) = Len(Input(c))
<1>1. PICK o : o = Offset(c)
  OBVIOUS
<1>2. PICK n : n = Len(Input(c))
  OBVIOUS
<1>3. PICK l : l = Len(r.data)
  OBVIOUS
<1>4. /\ o = (IF r.toEnd THEN length ELSE r.offset) /\ o \in 0 .. MaxSize
      /\ n = IF ~r.constrained \/ l <= length - o THEN l ELSE IF length < o THEN 0 ELSE length - o
      /\ n \in Nat /\ l \in Nat
  <2>1. /\ r.data \in Seq(Byte) /\ Input(c) \in Seq(Byte)
        /\ Offset(c) = (IF r.toEnd THEN length ELSE r.offset) /\ Offset(c) \in 0 .. MaxSize
        /\ Len(Input(c)) = IF ~r.constrained \/ Len(r.data) <= length - Offset(c) THEN Len(r.data)
                           ELSE IF length < Offset(c) THEN 0 ELSE length - Offset(c)
    BY WriteArguments
  <2>2. n \in Nat /\ l \in Nat
    BY <1>2, <1>3, <2>1
  <2> QED
    BY <1>1, <1>2, <1>3, <2>1, <2>2
<1>5. length \in Nat /\ MaxSize \in Nat /\ o \in Nat
  BY <1>4, SizeAssumption DEF Inv, NodeOK
<1>6. Len(FileBytes) = length
  BY BytesSeen
<1>7. File!Start(r) = o /\ File!End(r) = o + l
  BY <1>3, <1>4, <1>6 DEF File!Start, File!End
<1>8. File!Replaced(r) = {i \in o + 1 .. o + l : r.constrained => i <= length}
  BY <1>6, <1>7 DEF File!Replaced
<1>9. File!Replaced(r) = o + 1 .. o + n
  <2>1. CASE ~r.constrained
    BY <1>4, <1>8, <2>1
  <2>2. CASE r.constrained
    BY <1>4, <1>5, <1>8, <2>2
  <2> QED
    BY <2>1, <2>2
<1>10. Cardinality(o + 1 .. o + n) = n
  <2>1. o \in Nat /\ n \in Nat
    BY <1>4, <1>5
  <2>2. PICK a \in Int, b \in Int : a = o + 1 /\ b = o + n
    BY <2>1
  <2>3. Cardinality(a .. b) = IF a > b THEN 0 ELSE b - a + 1
    BY FS_Interval
  <2>4. (IF a > b THEN 0 ELSE b - a + 1) = n
    BY <2>1, <2>2
  <2> QED
    BY <2>2, <2>3, <2>4
<1> QED
  BY <1>1, <1>2, <1>7, <1>9, <1>10

\* A write out of range is refused for being that.
LEMMA WriteRefusedIsRefused ==
  ASSUME Inv, Inv', NEW c \in Client, WriteRefused(c)
  PROVE  \E status \in File!Status : File!Refuse(c, status)
<1>1. /\ call[c] # NoCall /\ call[c].phase = "looked" /\ call[c].request.kind = "write"
      /\ ~directory
  BY DEF WriteRefused, At
<1>2. PICK r : r = call[c].request
  OBVIOUS
<1>3. /\ r \in Request /\ r.kind = "write" /\ call[c].seen.size = length /\ length \in Nat
      /\ Len(FileBytes) = length
  BY <1>1, <1>2, CallIs, BytesSeen, SizeAssumption DEF CallFits, Inv, NodeOK
<1>4. r.offset \in Nat /\ MaxSize \in Nat /\ r.data \in Seq(Byte) /\ Len(r.data) \in Nat
  BY <1>3, Arguments, SizeAssumption
<1>5. File!Start(r) = Offset(c) /\ Offset(c) \in Nat
  BY <1>2, <1>3, <1>4 DEF File!Start, Offset
<1>6. CASE Fails(c, "INVALID_PARAMETER") /\ ~r.toEnd /\ r.offset = MaxSize
  <2>1. File!Reason(r, "INVALID_PARAMETER")
    BY <1>1, <1>3, <1>6 DEF File!Reason
  <2>2. File!Refuse(c, "INVALID_PARAMETER")
    BY <1>1, <1>2, <1>6, <2>1, FailIsRefused DEF Status
  <2> QED
    BY <2>2 DEF File!Status
<1>7. CASE Fails(c, "FILE_TOO_LARGE") /\ ~r.constrained /\ Len(r.data) > MaxSize - Offset(c)
  <2>1. File!End(r) > MaxSize
    BY <1>4, <1>5, <1>7 DEF File!End
  <2>2. File!Reason(r, "FILE_TOO_LARGE")
    BY <1>1, <1>3, <1>7, <2>1 DEF File!Reason
  <2>3. File!Refuse(c, "FILE_TOO_LARGE")
    BY <1>1, <1>2, <1>7, <2>2, FailIsRefused DEF Status
  <2> QED
    BY <2>3 DEF File!Status
<1> QED
  BY <1>2, <1>6, <1>7 DEF WriteRefused

-----------------------------------------------------------------------------
(***************************************************************************)
(* The content.                                                            *)
(***************************************************************************)
\* A slice of a sequence, by its elements.
LEMMA Slice ==
  ASSUME NEW S, NEW s \in Seq(S), NEW m \in Nat, NEW n \in Nat, m <= n, n <= Len(s)
  PROVE  SubSeq(s, m + 1, n) = [i \in 1 .. n - m |-> s[m + i]]
<1>1. PICK q : q = SubSeq(s, m + 1, n)
  OBVIOUS
<1>2. PICK f : f = [i \in 1 .. n - m |-> s[m + i]]
  OBVIOUS
<1>3. PICK k \in Int : k = m + 1
  OBVIOUS
<1>4. n - m \in Nat
  OBVIOUS
<1>5. ASSUME NEW i \in k .. n
      PROVE  s[i] \in S
  <2>1. i \in 1 .. Len(s)
    BY <1>3
  <2> QED
    BY <2>1
<1>6. /\ q \in Seq(S) /\ Len(q) = (IF k <= n THEN n - k + 1 ELSE 0)
      /\ \A i \in 1 .. n - k + 1 : q[i] = s[k + i - 1]
  BY <1>1, <1>3, <1>5, SubSeqProperties
<1>7. Len(q) = n - m
  BY <1>3, <1>6
<1>8. ASSUME NEW i \in 1 .. n - m
      PROVE  q[i] = s[m + i] /\ s[m + i] \in S
  <2>1. i \in 1 .. n - k + 1 /\ k + i - 1 = m + i /\ m + i \in k .. n
    BY <1>3
  <2> QED
    BY <1>5, <1>6, <2>1
<1>9. f \in Seq(S) /\ Len(f) = n - m
  BY <1>2, <1>4, <1>8
<1>10. q = f
  BY <1>2, <1>6, <1>7, <1>8, <1>9, SeqEqual
<1> QED
  BY <1>1, <1>2, <1>10

\* What an error of the archive comes to is a failure of it to those who use
\* the file.
LEMMA ArchiveErrorSeen ==
  ASSUME NEW error \in ArchiveErrors
  PROVE  /\ StatusFromError[error] \in File!ArchiveFailure
         /\ StatusFromError[error] \in Status \ {"none", "SUCCESS"}
         /\ StatusFromError[error] \in File!Status
BY DEF ArchiveErrors, StatusFromError, Status, File!ArchiveFailure, File!OutOfResources, File!Status

\* A read answers the bytes there are, or that there are none, or the archive
\* fails where there are bytes.
LEMMA ReadIsSeen ==
  ASSUME Inv, Inv', NEW c \in Client, Read(c)
  PROVE  File!Read(c) \/ \E status \in File!Status : File!Refuse(c, status)
<1>1. /\ call[c] # NoCall /\ call[c].phase = "looked" /\ call[c].request.kind = "read"
      /\ ~directory /\ UNCHANGED node
  BY DEF Read, At
<1>2. /\ call[c] \in Callback /\ call[c].info = <<>> /\ call[c].status = "none" /\ Plain(c)
      /\ call[c].seen.size = length /\ call[c].request \in Request
  BY <1>1, CallIs DEF CallFits, NoAnswer, Plain, At
<1>3. PICK r : r = call[c].request
  OBVIOUS
<1>4. /\ r.offset \in Nat /\ r.length \in Nat /\ length \in Nat /\ r.kind = "read"
      /\ bytes \in [0 .. length - 1 -> Byte]
  BY <1>1, <1>2, <1>3, Arguments, SizeAssumption DEF Inv, NodeOK
<1>5. Len(FileBytes) = length
  BY BytesSeen
<1>6. CASE r.length # 0 /\ r.offset >= length
  <2>1. Fails(c, "END_OF_FILE")
    BY <1>1, <1>2, <1>3, <1>6 DEF Read, Fails
  <2>2. r.length > 0
    BY <1>4, <1>6
  <2>3. File!Reason(r, "END_OF_FILE")
    BY <1>1, <1>4, <1>5, <1>6, <2>2 DEF File!Reason
  <2>4. File!Refuse(c, "END_OF_FILE")
    BY <1>1, <1>3, <2>1, <2>3, FailIsRefused DEF Status
  <2>5. "END_OF_FILE" \in File!Status
    BY DEF File!Status
  <2> QED
    BY <2>4, <2>5
<1>7. CASE /\ r.length # 0 /\ r.offset < length
           /\ \E error \in ArchiveErrors : Ends(c, StatusFromError[error], <<>>, 0)
  <2>1. PICK error \in ArchiveErrors : Fails(c, StatusFromError[error])
    BY <1>1, <1>7 DEF Fails
  <2>2. PICK status : status = StatusFromError[error]
    OBVIOUS
  <2>3. /\ status \in File!ArchiveFailure /\ status \in Status \ {"none", "SUCCESS"}
        /\ status \in File!Status
    BY <2>2, ArchiveErrorSeen
  <2>4. r.length > 0 /\ r.offset < Len(FileBytes)
    BY <1>4, <1>5, <1>7
  <2>5. File!Reason(r, status)
    BY <1>1, <1>4, <2>3, <2>4 DEF File!Reason
  <2>6. File!Refuse(c, status)
    BY <1>1, <1>3, <2>1, <2>2, <2>3, <2>5, FailIsRefused
  <2> QED
    BY <2>3, <2>6
<1>8. CASE /\ r.length = 0 \/ r.offset < length
           /\ ~(/\ r.length # 0 /\ r.offset < length
                /\ \E error \in ArchiveErrors : Ends(c, StatusFromError[error], <<>>, 0))
  <2>1. PICK e : e = IF r.offset + r.length < length THEN r.offset + r.length ELSE length
    OBVIOUS
  <2>2. e \in Nat /\ e <= length
    BY <1>4, <2>1
  <2>3. PICK data :
           data = IF r.length = 0 THEN <<>> ELSE [i \in 1 .. e - r.offset |-> bytes[r.offset + i - 1]]
    OBVIOUS
  <2>4. Ends(c, "SUCCESS", data, 0)
    <3>1. Smaller(Smaller(r.offset + r.length, length), length) = e
      BY <1>4, <2>1 DEF Smaller
    <3>2. CASE r.length = 0
      BY <1>3, <2>3, <3>2 DEF Read
    <3>3. CASE r.length # 0
      <4>1. ~(r.offset >= length)
        BY <1>4, <1>8, <3>3
      <4>2. Ends(c, "SUCCESS", [i \in 1 .. e - r.offset |-> bytes[r.offset + i - 1]], 0)
        BY <1>2, <1>3, <1>4, <1>8, <3>1, <3>3, <4>1 DEF Read
      <4> QED
        BY <2>3, <3>3, <4>2
    <3> QED
      BY <3>2, <3>3
  <2>5. data = SubSeq(FileBytes, r.offset + 1, e) /\ data \in Seq(Byte)
    <3>1. CASE r.length = 0
      <4>1. r.offset + 1 > e
        BY <1>4, <2>1, <3>1
      <4>2. SubSeq(FileBytes, r.offset + 1, e) = <<>>
        <5>1. PICK k \in Int : k = r.offset + 1
          BY <1>4
        <5> QED
          BY <2>2, <4>1, <5>1, SubSeqEmpty
      <4>3. data = <<>> /\ <<>> \in Seq(Byte)
        BY <2>3, <3>1
      <4> QED
        BY <4>2, <4>3
    <3>2. CASE r.length # 0
      <4>1. r.offset < length /\ e - r.offset \in Nat
        BY <1>4, <1>8, <2>1, <3>2
      <4>2. ASSUME NEW i \in 1 .. e - r.offset
            PROVE  /\ bytes[r.offset + i - 1] = FileBytes[r.offset + i]
                   /\ bytes[r.offset + i - 1] \in Byte
        <5>1. PICK j \in Int : j = r.offset + i
          BY <1>4
        <5>2. j \in 1 .. length /\ j - 1 \in 0 .. length - 1 /\ r.offset + i - 1 = j - 1
          BY <1>4, <2>2, <4>1, <5>1, SMTT(30)
        <5>3. FileBytes[j] = bytes[j - 1] /\ bytes[j - 1] \in Byte
          BY <1>4, <5>2, BytesSeen
        <5> QED
          BY <5>1, <5>2, <5>3
      <4>3. SubSeq(FileBytes, r.offset + 1, e) = [i \in 1 .. e - r.offset |-> FileBytes[r.offset + i]]
        <5>1. r.offset <= e /\ FileBytes \in Seq(Byte)
          BY <1>4, <2>2, <4>1, BytesSeen
        <5>2. PICK m \in Nat : m = r.offset
          BY <1>4
        <5>3. PICK q \in Seq(Byte) : q = FileBytes
          BY <5>1
        <5>4. m <= e /\ e \in Nat /\ e <= Len(q)
          BY <1>5, <2>2, <5>1, <5>2, <5>3
        <5>5. SubSeq(q, m + 1, e) = [i \in 1 .. e - m |-> q[m + i]]
          BY <5>4, Slice
        <5> QED
          BY <5>2, <5>3, <5>5
      <4>4. data = [i \in 1 .. e - r.offset |-> FileBytes[r.offset + i]]
        BY <2>3, <3>2, <4>2
      <4>5. data \in Seq(Byte)
        BY <4>1, <4>2, <4>4
      <4> QED
        BY <4>3, <4>4, <4>5
    <3> QED
      BY <3>1, <3>2
  <2>6. PICK y : y = [call[c] EXCEPT !.phase = "done", !.status = "SUCCESS", !.data = data, !.count = 0]
    OBVIOUS
  <2>7. y \in Callback /\ y.phase = "done"
    BY <1>2, <2>5, <2>6 DEF Callback, Status
  <2>8. call' = [call EXCEPT ![c] = y]
    BY <1>2, <2>4, <2>6 DEF Ends, Inv, CallsOK
  <2>9. UNCHANGED <<directory, Appearance>> /\ ViewedInfo' = ViewedInfo
    BY <1>1, <1>2, <2>7, <2>8, NothingSeen
  <2>10. FileCalls' = [FileCalls EXCEPT ![c].answer =
            [status |-> "SUCCESS", data |-> data, count |-> 0, info |-> <<>>]]
    <3>1. PICK n \in Nat : n = 0
      OBVIOUS
    <3>2. FileCalls' = [FileCalls EXCEPT ![c].answer =
             [status |-> "SUCCESS", data |-> data, count |-> n,
              info |-> IF "SUCCESS" # "SUCCESS" \/ call[c].request.kind \in {"read", "cleanup"} THEN <<>>
                       ELSE <<ViewedInfo'>>]]
      <4>1. "SUCCESS" \in Status \ {"none"} /\ Ends(c, "SUCCESS", data, n) /\ data \in Seq(Byte)
        BY <2>4, <2>5, <3>1 DEF Status
      <4> QED
        BY <1>1, <1>2, <2>9, <4>1, EndSeen
    <3> QED
      BY <1>1, <3>1, <3>2
  <2>11. FileCalls[c] # NoCall /\ FileCalls[c].request = r /\ FileCalls[c].answer.status = "none"
    BY <1>1, <1>2, <1>3, CallSeen
  <2>12. File!Lesser(r.offset + r.length, Len(FileBytes)) = e
    BY <1>5, <2>1 DEF File!Lesser
  <2>13. r.length > 0 => r.offset < Len(FileBytes)
    BY <1>4, <1>5, <1>8
  <2> QED
    BY <1>1, <1>4, <2>5, <2>9, <2>10, <2>11, <2>12, <2>13
    DEF File!Read, File!Asks, File!Unanswered, File!Gets, File!Answer, File!file, Appearance
<1> QED
  BY <1>4, <1>6, <1>7, <1>8

\* What is seen of a change that the tree has made.
LEMMA MarkSeen ==
  ASSUME Inv, Inv', NEW c \in Client, call[c] # NoCall, Plain(c), call'[c] # NoCall, Plain(c)',
         NEW y, call' = [call EXCEPT ![c] = y], MarkWritten
  PROVE  /\ FileAttributes' = FileAttributes \cup {"archive"}
         /\ CompleteTimes' = [CompleteTimes EXCEPT !["write"] = ToFileTime(Now)]
<1>1. Views /\ Views' /\ call \in [Client -> Callback \cup {NoCall}] /\ times \in [TimeNames -> Int]
  BY ViewsOK, ViewsNext DEF Inv, CallsOK, NodeOK
<1>2. /\ CompleteAttributes = attributes /\ CompleteTimes = PlainTimes
      /\ CompleteAttributes' = attributes' /\ CompleteTimes' = PlainTimes'
  BY <1>1, PlainStays
<1>3. FileAttributes' = FileAttributes \cup {"archive"}
  BY <1>2 DEF FileAttributes, ViewedAttributes, MarkWritten
<1>4. PlainTimes' = [PlainTimes EXCEPT !["write"] = ToFileTime(Now)]
  BY <1>1 DEF PlainTimes, MarkWritten, TimeNames
<1> QED
  BY <1>2, <1>3, <1>4

\* What is seen of a write that the tree makes, and of one of nothing.
LEMMA TreeWriteSeen ==
  ASSUME Inv, NEW offset \in Nat, NEW input \in Seq(Byte), input # <<>>, TreeWrite(offset, input)
  PROVE  /\ length' = IF length > offset + Len(input) THEN length ELSE offset + Len(input)
         /\ FileBytes' = [i \in 1 .. length' |->
                IF offset + 1 <= i /\ i <= offset + Len(input) THEN input[i - offset]
                ELSE IF i <= length THEN FileBytes[i] ELSE Zero]
<1>1. /\ length \in Nat /\ Len(input) \in Nat
      /\ length' = IF length > offset + Len(input) THEN length ELSE offset + Len(input)
  BY SizeAssumption DEF TreeWrite, Content!Write, Content!Larger, Inv, NodeOK
<1>2. PICK l : l = length'
  OBVIOUS
<1>3. l \in Nat
  BY <1>1, <1>2
<1>4. bytes' = [i \in 0 .. l - 1 |->
                   IF offset <= i /\ i < offset + Len(input) THEN input[i - offset + 1]
                   ELSE IF i < length THEN bytes[i] ELSE Zero]
  BY <1>2 DEF TreeWrite, Content!Write
<1>5. FileBytes' = [i \in 1 .. l |-> bytes'[i - 1]]
  BY <1>2 DEF FileBytes
<1>6. ASSUME NEW i \in 1 .. l
      PROVE  bytes'[i - 1] = IF offset + 1 <= i /\ i <= offset + Len(input) THEN input[i - offset]
                             ELSE IF i <= length THEN FileBytes[i] ELSE Zero
  <2>1. PICK j \in Int : j = i - 1
    OBVIOUS
  <2>2. /\ j \in 0 .. l - 1 /\ j + 1 = i
        /\ offset <= j <=> offset + 1 <= i
        /\ j < offset + Len(input) <=> i <= offset + Len(input)
        /\ j < length <=> i <= length
        /\ j - offset + 1 = i - offset
    BY <1>1, <1>3, <2>1
  <2>3. bytes'[j] = IF offset <= j /\ j < offset + Len(input) THEN input[j - offset + 1]
                    ELSE IF j < length THEN bytes[j] ELSE Zero
    BY <1>4, <2>2
  <2>4. i <= length => FileBytes[i] = bytes[j]
    BY <1>1, <2>1, BytesSeen
  <2> QED
    BY <2>1, <2>2, <2>3, <2>4
<1> QED
  BY <1>1, <1>2, <1>5, <1>6

\* What is seen of a resize that the tree makes.
LEMMA TreeResizeSeen ==
  ASSUME Inv, NEW size \in Nat, TreeResize(size)
  PROVE  /\ length' = size
         /\ FileBytes' = [i \in 1 .. size |-> IF i <= length THEN FileBytes[i] ELSE Zero]
<1>1. length \in Nat /\ length' = size
  BY SizeAssumption DEF TreeResize, Content!Resize, Inv, NodeOK
<1>2. bytes' = [i \in 0 .. size - 1 |-> IF i < length THEN bytes[i] ELSE Zero]
  BY DEF TreeResize, Content!Resize
<1>3. FileBytes' = [i \in 1 .. size |-> bytes'[i - 1]]
  BY <1>1 DEF FileBytes
<1>4. ASSUME NEW i \in 1 .. size
      PROVE  bytes'[i - 1] = IF i <= length THEN FileBytes[i] ELSE Zero
  <2>1. PICK j \in Int : j = i - 1
    OBVIOUS
  <2>2. j \in 0 .. size - 1 /\ (j < length <=> i <= length)
    BY <1>1, <2>1
  <2>3. bytes'[j] = IF j < length THEN bytes[j] ELSE Zero
    BY <1>2, <2>2
  <2>4. i <= length => FileBytes[i] = bytes[j]
    BY <1>1, <2>1, BytesSeen
  <2> QED
    BY <2>1, <2>2, <2>3, <2>4
<1> QED
  BY <1>1, <1>3, <1>4

\* What the view tells of the file afterwards.
LEMMA InfoAfter ==
  ASSUME Inv'
  PROVE  File!FileInfo' = ViewedInfo'
<1>1. Len(FileBytes)' = length'
  BY SizeIsSeenNext DEF SizeSeen
<1> QED
  BY <1>1 DEF File!FileInfo, ViewedInfo

\* A callback that ends has nothing half done.
LEMMA EndIsPlain ==
  ASSUME Inv, NEW c \in Client, call[c] # NoCall,
         NEW status \in Status, NEW data \in Seq(Byte), NEW count \in Nat,
         Ends(c, status, data, count)
  PROVE  /\ \E y \in Callback : /\ call' = [call EXCEPT ![c] = y] /\ y.phase \in {"done", "answered"}
                                /\ y.request = call[c].request
         /\ call'[c] # NoCall /\ Plain(c)'
<1>1. call[c] \in Callback
  BY CallIs
<1>2. PICK y : y = [call[c] EXCEPT !.phase = IF status = "SUCCESS" THEN "done" ELSE "answered",
                                   !.status = status, !.data = data, !.count = count]
  OBVIOUS
<1>3. y \in Callback /\ y.phase \in {"done", "answered"} /\ y.request = call[c].request
  BY <1>1, <1>2 DEF Callback
<1>4. call' = [call EXCEPT ![c] = y] /\ call'[c] = y
  BY <1>1, <1>2 DEF Ends, Inv, CallsOK
<1>5. y # NoCall /\ Plain(c)'
  BY <1>3, <1>4, RequestsAssumption DEF Plain, At
<1> QED
  BY <1>3, <1>4, <1>5

\* The answer that is seen of a callback that ends well.
LEMMA SuccessSeen ==
  ASSUME Inv, Inv', NEW c \in Client, call[c] # NoCall, call[c].info = <<>>,
         call[c].request.kind \notin {"read", "cleanup"}, NEW count \in Nat,
         Ends(c, "SUCCESS", <<>>, count),
         ViewedInfo' = ViewedInfo \/ ~Shared(call[c].request)
  PROVE  FileCalls' = [FileCalls EXCEPT ![c].answer =
             File!Answer("SUCCESS", <<>>, count, <<File!FileInfo'>>)]
<1>1. PICK d \in Seq(Byte), s \in Status \ {"none"} : d = <<>> /\ s = "SUCCESS"
  <2>1. <<>> \in Seq(Byte) /\ "SUCCESS" \in Status \ {"none"}
    BY DEF Status
  <2> QED
    BY <2>1
<1>2. Ends(c, s, d, count)
  BY <1>1
<1>3. FileCalls' = [FileCalls EXCEPT ![c].answer =
         [status |-> s, data |-> d, count |-> count,
          info |-> IF s # "SUCCESS" \/ call[c].request.kind \in {"read", "cleanup"} THEN <<>>
                   ELSE <<ViewedInfo'>>]]
  BY <1>2, EndSeen
<1>4. File!FileInfo' = ViewedInfo'
  BY InfoAfter
<1> QED
  BY <1>1, <1>3, <1>4 DEF File!Answer

\* The module of the file counts as this one does.
LEMMA SameCardinality == ASSUME NEW S PROVE File!Cardinality(S) = Cardinality(S)
BY DEF File!Cardinality, Cardinality

\* What is seen of a write that runs out of memory: bytes it was to replace are
\* gone.
LEMMA OutOfMemorySeen ==
  ASSUME Inv, Inv', NEW c \in Client, At(c, "write", "looked"), ~directory,
         NEW lost, OutOfMemory(c, lost),
         {i + 1 : i \in lost} \subseteq File!Replaced(call[c].request),
         lost \subseteq 0 .. length - 1
  PROVE  File!Spoil(c)
<1>1. /\ call[c] # NoCall /\ call[c].phase = "looked" /\ call[c].request.kind = "write"
  BY DEF At
<1>2. /\ call[c].info = <<>> /\ call[c].status = "none" /\ Plain(c) /\ ~Shared(call[c].request)
  BY <1>1, CallIs DEF CallFits, NoAnswer, Plain, At, Shared
<1>3. PICK s \in Status \ {"none"}, d \in Seq(Byte), n \in Nat :
         s = "INSUFFICIENT_RESOURCES" /\ d = <<>> /\ n = 0
  <2>1. "INSUFFICIENT_RESOURCES" \in Status \ {"none"} /\ <<>> \in Seq(Byte) /\ 0 \in Nat
    BY DEF Status
  <2> QED
    BY <2>1
<1>4. Ends(c, s, d, n) /\ UNCHANGED <<directory, length, attributes, times>>
  BY <1>3 DEF OutOfMemory, StatusFromError
<1>5. UNCHANGED <<FileAttributes, CompleteTimes>>
  <2>1. /\ \E y \in Callback : /\ call' = [call EXCEPT ![c] = y] /\ y.phase \in {"done", "answered"}
                               /\ y.request = call[c].request
        /\ call'[c] # NoCall /\ Plain(c)'
    BY <1>1, <1>4, EndIsPlain
  <2>2. Views /\ Views' /\ call \in [Client -> Callback \cup {NoCall}]
    BY ViewsOK, ViewsNext DEF Inv, CallsOK
  <2>3. /\ CompleteAttributes = attributes /\ CompleteTimes = PlainTimes
        /\ CompleteAttributes' = attributes' /\ CompleteTimes' = PlainTimes'
    BY <1>1, <1>2, <2>1, <2>2, PlainStays
  <2>4. CompleteAttributes' = CompleteAttributes /\ CompleteTimes' = CompleteTimes
    BY <1>4, <2>3 DEF PlainTimes
  <2> QED
    BY <2>4 DEF FileAttributes, ViewedAttributes
<1>6. PICK gone : gone = {i + 1 : i \in lost}
  OBVIOUS
<1>7. FileBytes' = [i \in DOMAIN FileBytes |-> IF i \in gone THEN Zero ELSE FileBytes[i]]
  <2>1. length \in Nat /\ bytes \in [0 .. length - 1 -> Byte]
    BY SizeAssumption DEF Inv, NodeOK
  <2>2. bytes' = [i \in 0 .. length - 1 |-> IF i \in lost THEN Zero ELSE bytes[i]]
    BY <2>1 DEF OutOfMemory
  <2>3. FileBytes' = [i \in 1 .. length |-> bytes'[i - 1]]
    BY <1>4 DEF FileBytes
  <2>4. ASSUME NEW i \in 1 .. length
        PROVE  bytes'[i - 1] = IF i \in gone THEN Zero ELSE bytes[i - 1]
    <3>1. PICK j \in 0 .. length - 1 : j = i - 1
      BY <2>1
    <3>2. i \in gone <=> j \in lost
      BY <1>6, <2>1, <3>1
    <3> QED
      BY <2>2, <3>1, <3>2
  <2>5. DOMAIN FileBytes = 1 .. length /\ \A i \in 1 .. length : FileBytes[i] = bytes[i - 1]
    BY DEF FileBytes
  <2> QED
    BY <2>3, <2>4, <2>5
<1>8. gone \in SUBSET (File!Replaced(call[c].request) \cap DOMAIN FileBytes)
  <2>1. length \in Nat /\ DOMAIN FileBytes = 1 .. length
    BY SizeAssumption DEF FileBytes, Inv, NodeOK
  <2>2. gone \subseteq 1 .. length
    BY <1>6, <2>1
  <2> QED
    BY <1>6, <2>1, <2>2
<1>9. FileCalls' = [FileCalls EXCEPT ![c].answer =
         File!Answer("INSUFFICIENT_RESOURCES", <<>>, 0, <<>>)]
  <2>1. FileCalls' = [FileCalls EXCEPT ![c].answer =
           [status |-> s, data |-> d, count |-> n,
            info |-> IF s # "SUCCESS" \/ call[c].request.kind \in {"read", "cleanup"} THEN <<>>
                     ELSE <<ViewedInfo'>>]]
    BY <1>1, <1>2, <1>4, EndSeen
  <2> QED
    BY <1>3, <2>1 DEF File!Answer
<1>10. /\ FileCalls[c] # NoCall /\ FileCalls[c].request = call[c].request
       /\ FileCalls[c].answer.status = "none"
  BY <1>1, <1>2, CallSeen
<1> QED
  BY <1>1, <1>4, <1>5, <1>7, <1>8, <1>9, <1>10
  DEF File!Spoil, File!Asks, File!Unanswered, File!Gets

\* A write of the file, by its parts.
LEMMA WriteParts ==
  ASSUME NEW c \in Client, File!Asks(c, "write"), ~directory, directory' = directory,
         NEW r, r = FileCalls[c].request, r.toEnd \/ r.offset < MaxSize,
         NEW last,
         last = IF \E i \in File!Replaced(r) : i > Len(FileBytes) THEN File!End(r) ELSE Len(FileBytes),
         last <= MaxSize,
         IF File!Replaced(r) = {} THEN UNCHANGED Appearance
         ELSE /\ FileBytes' = [i \in 1 .. last |->
                     IF i \in File!Replaced(r) THEN r.data[i - File!Start(r)]
                     ELSE IF i <= Len(FileBytes) THEN FileBytes[i] ELSE Zero]
              /\ FileAttributes' = FileAttributes \cup {"archive"}
              /\ CompleteTimes' = [CompleteTimes EXCEPT !["write"] = ToFileTime(Now)],
         NEW n, n = Cardinality(File!Replaced(r)),
         FileCalls' = [FileCalls EXCEPT ![c].answer = File!Answer("SUCCESS", <<>>, n, <<File!FileInfo'>>)]
  PROVE  File!Write(c)
<1>1. CASE File!Replaced(r) = {}
  BY <1>1, SameCardinality DEF File!Write, File!Gets, File!file, Appearance
<1>2. CASE File!Replaced(r) # {}
  BY <1>2, SameCardinality DEF File!Write, File!Gets, File!Becomes
<1> QED
  BY <1>1, <1>2

\* A write replaces what it is seen to, is cut where it is constrained, is
\* refused for want of resources with nothing changed, or runs out of memory
\* and has lost no more than it was to replace.
LEMMA WriteIsSeen ==
  ASSUME Inv, Inv', NEW c \in Client, Write(c)
  PROVE  File!Write(c) \/ File!Spoil(c) \/ \E status \in File!Status : File!Refuse(c, status)
<1>1. /\ At(c, "write", "looked") /\ call[c] # NoCall /\ call[c].phase = "looked"
      /\ call[c].request.kind = "write" /\ ~directory
  BY DEF Write, At
<1>2. /\ call[c] \in Callback /\ call[c].info = <<>> /\ call[c].status = "none" /\ Plain(c)
      /\ ~Shared(call[c].request) /\ call[c].request \in Request
  BY <1>1, CallIs DEF CallFits, NoAnswer, Plain, At, Shared
<1>3. PICK r : r = call[c].request
  OBVIOUS
<1>4. /\ r.offset \in 0 .. MaxSize /\ r.data \in Seq(Byte) /\ length \in 0 .. MaxSize /\ MaxSize \in Nat
      /\ Len(FileBytes) = length
  BY <1>1, <1>2, <1>3, Arguments, SizeAssumption, BytesSeen DEF Inv, NodeOK
<1>5. r.toEnd \/ r.offset # MaxSize
  BY <1>3 DEF Write
<1>6. r.constrained \/ Len(r.data) <= MaxSize - Offset(c)
  BY <1>3 DEF Write
<1>7. PICK o : o = Offset(c)
  OBVIOUS
<1>8. PICK input : input = Input(c)
  OBVIOUS
<1>9. PICK n : n = Len(input)
  OBVIOUS
<1>10. /\ o \in 0 .. MaxSize /\ input \in Seq(Byte) /\ n \in Nat /\ (input = <<>> <=> n = 0)
       /\ \A i \in 1 .. n : input[i] = r.data[i]
       /\ n > 0 => o + n <= MaxSize
  <2>1. /\ Offset(c) \in 0 .. MaxSize /\ Input(c) \in Seq(Byte)
        /\ \A i \in 1 .. Len(Input(c)) : Input(c)[i] = r.data[i]
        /\ Input(c) # <<>> => Offset(c) + Len(Input(c)) <= MaxSize
    BY <1>1, <1>3, <1>5, <1>6, WriteArguments
  <2>2. n \in Nat /\ (input = <<>> <=> n = 0)
    BY <1>8, <1>9, <2>1
  <2> QED
    BY <1>7, <1>8, <1>9, <2>1, <2>2
<1>11. /\ File!Start(r) = o
       /\ File!Replaced(r) = o + 1 .. o + n
       /\ Cardinality(File!Replaced(r)) = n
  BY <1>1, <1>3, <1>5, <1>6, <1>7, <1>8, <1>9, ReplacedIs
<1>12. FileCalls[c] # NoCall /\ FileCalls[c].request = r /\ FileCalls[c].answer.status = "none"
  BY <1>1, <1>2, <1>3, CallSeen
<1>13. File!Asks(c, "write") /\ (r.toEnd \/ r.offset < MaxSize)
  BY <1>1, <1>3, <1>4, <1>5, <1>12 DEF File!Asks, File!Unanswered
<1>14. CASE input = <<>>
  <2>1. Ends(c, "SUCCESS", <<>>, 0) /\ UNCHANGED node
    BY <1>8, <1>14 DEF Write
  <2>2. UNCHANGED <<directory, Appearance>> /\ ViewedInfo' = ViewedInfo
    <3>1. PICK s \in Status, d \in Seq(Byte), m \in Nat : s = "SUCCESS" /\ d = <<>> /\ m = 0
      <4>1. "SUCCESS" \in Status /\ <<>> \in Seq(Byte) /\ 0 \in Nat
        BY DEF Status
      <4> QED
        BY <4>1
    <3>2. PICK y \in Callback : /\ call' = [call EXCEPT ![c] = y] /\ y.phase \in {"done", "answered"}
                                /\ y.request = call[c].request
      <4>1. Ends(c, s, d, m)
        BY <2>1, <3>1
      <4> QED
        BY <1>1, <4>1, EndIsPlain
    <3> QED
      BY <1>1, <1>2, <2>1, <3>2, NothingSeen
  <2>3. PICK m \in Nat : m = 0
    OBVIOUS
  <2>4. FileCalls' = [FileCalls EXCEPT ![c].answer = File!Answer("SUCCESS", <<>>, m, <<File!FileInfo'>>)]
    BY <1>1, <1>2, <2>1, <2>2, <2>3, SuccessSeen
  <2>5. n = 0 /\ File!Replaced(r) = {}
    BY <1>10, <1>11, <1>14
  <2>6. PICK last : last = IF \E i \in File!Replaced(r) : i > Len(FileBytes) THEN File!End(r)
                           ELSE Len(FileBytes)
    OBVIOUS
  <2>7. last <= MaxSize
    BY <1>4, <2>5, <2>6
  <2> QED
    BY <1>1, <1>11, <1>12, <1>13, <2>2, <2>3, <2>4, <2>5, <2>6, <2>7, WriteParts
<1>15. CASE input # <<>> /\ TreeWrite(o, input) /\ Ends(c, "SUCCESS", <<>>, n)
  <2>1. n > 0 /\ o + n <= MaxSize /\ File!Replaced(r) # {}
    <3>1. n > 0 /\ o + n <= MaxSize
      BY <1>10, <1>15
    <3>2. o + 1 \in o + 1 .. o + n
      BY <1>4, <1>10, <3>1
    <3> QED
      BY <1>11, <3>1, <3>2
  <2>2. PICK last : last = IF \E i \in File!Replaced(r) : i > Len(FileBytes) THEN File!End(r)
                           ELSE Len(FileBytes)
    OBVIOUS
  <2>3. last = IF length > o + n THEN length ELSE o + n
    <3>1. CASE o + n > length
      <4>1. o + n \in File!Replaced(r)
        BY <1>4, <1>10, <1>11, <2>1
      <4>2. last = File!End(r)
        BY <1>4, <2>2, <3>1, <4>1
      <4>3. File!End(r) = o + Len(r.data) /\ Len(r.data) \in Nat
        BY <1>4, <1>11 DEF File!End
      <4>4. ~r.constrained
        <5>1. o + n \in {i \in o + 1 .. o + Len(r.data) : r.constrained => i <= length}
          BY <1>4, <1>11, <4>1, <4>3 DEF File!Replaced
        <5> QED
          BY <1>4, <1>10, <3>1, <5>1
      <4>5. n = Len(r.data)
        BY <1>3, <1>8, <1>9, <4>4 DEF Input
      <4> QED
        BY <1>4, <1>10, <3>1, <4>2, <4>3, <4>5
    <3>2. CASE ~(o + n > length)
      <4>1. ~(\E i \in File!Replaced(r) : i > Len(FileBytes))
        BY <1>4, <1>10, <1>11, <3>2
      <4>2. last = length
        BY <1>4, <2>2, <4>1
      <4> QED
        BY <1>4, <1>10, <3>2, <4>2
    <3> QED
      BY <3>1, <3>2
  <2>4. /\ length' = last
        /\ FileBytes' = [i \in 1 .. length' |->
               IF o + 1 <= i /\ i <= o + n THEN input[i - o]
               ELSE IF i <= length THEN FileBytes[i] ELSE Zero]
    <3>1. o \in Nat
      BY <1>4, <1>10
    <3> QED
      BY <1>9, <1>10, <1>15, <2>3, <3>1, TreeWriteSeen
  <2>5. FileBytes' = [i \in 1 .. last |->
            IF i \in File!Replaced(r) THEN r.data[i - File!Start(r)]
            ELSE IF i <= Len(FileBytes) THEN FileBytes[i] ELSE Zero]
    <3>1. ASSUME NEW i \in 1 .. last, i \in File!Replaced(r)
          PROVE  o + 1 <= i /\ i <= o + n /\ input[i - o] = r.data[i - File!Start(r)]
      <4>1. o + 1 <= i /\ i <= o + n /\ i - o \in 1 .. n
        BY <1>4, <1>10, <1>11, <3>1
      <4> QED
        BY <1>10, <1>11, <4>1
    <3>2. ASSUME NEW i \in 1 .. last, i \notin File!Replaced(r)
          PROVE  ~(o + 1 <= i /\ i <= o + n)
      BY <1>4, <1>10, <1>11, <2>3, <3>2
    <3> QED
      BY <1>4, <2>4, <3>1, <3>2
  <2>6. /\ FileAttributes' = FileAttributes \cup {"archive"}
        /\ CompleteTimes' = [CompleteTimes EXCEPT !["write"] = ToFileTime(Now)]
    <3>1. MarkWritten
      BY <1>15 DEF TreeWrite
    <3>2. PICK s \in Status, d \in Seq(Byte) : s = "SUCCESS" /\ d = <<>>
      <4>1. "SUCCESS" \in Status /\ <<>> \in Seq(Byte)
        BY DEF Status
      <4> QED
        BY <4>1
    <3>3. Ends(c, s, d, n)
      BY <1>15, <3>2
    <3>4. /\ \E y \in Callback : /\ call' = [call EXCEPT ![c] = y] /\ y.phase \in {"done", "answered"}
                                 /\ y.request = call[c].request
          /\ call'[c] # NoCall /\ Plain(c)'
      BY <1>1, <1>10, <3>3, EndIsPlain
    <3> QED
      BY <1>1, <1>2, <3>1, <3>4, MarkSeen
  <2>7. FileCalls' = [FileCalls EXCEPT ![c].answer = File!Answer("SUCCESS", <<>>, n, <<File!FileInfo'>>)]
    BY <1>1, <1>2, <1>10, <1>15, SuccessSeen
  <2>8. last <= MaxSize /\ directory' = directory
    <3>1. directory' = directory
      BY <1>15 DEF TreeWrite
    <3> QED
      BY <1>4, <1>10, <2>1, <2>3, <3>1
  <2> QED
    BY <1>1, <1>11, <1>12, <1>13, <2>1, <2>2, <2>5, <2>6, <2>7, <2>8, WriteParts
<1>16. CASE input # <<>> /\ \E error \in DOMAIN StatusFromError : Fails(c, StatusFromError[error])
  <2>1. PICK error \in DOMAIN StatusFromError : Fails(c, StatusFromError[error])
    BY <1>16
  <2>2. PICK status : status = StatusFromError[error]
    OBVIOUS
  <2>3. /\ status \in Status \ {"none", "SUCCESS"} /\ status \in File!OutOfResources
        /\ status \in File!Status
    BY <2>2 DEF StatusFromError, Status, File!OutOfResources, File!ArchiveFailure, File!Status
  <2>4. File!Replaced(r) # {}
    <3>1. o + 1 \in o + 1 .. o + n
      BY <1>4, <1>10, <1>16
    <3> QED
      BY <1>11, <3>1
  <2>5. File!Reason(r, status)
    BY <1>1, <1>3, <2>3, <2>4 DEF File!Reason
  <2>6. File!Refuse(c, status)
    BY <1>1, <1>3, <2>1, <2>2, <2>3, <2>5, FailIsRefused
  <2> QED
    BY <2>3, <2>6
<1>17. CASE \E lost \in SUBSET Unread(c) : OutOfMemory(c, lost)
  <2>1. PICK lost \in SUBSET Unread(c) : OutOfMemory(c, lost)
    BY <1>17
  <2>2. ASSUME NEW i \in lost
        PROVE  i + 1 \in File!Replaced(call[c].request) /\ i \in 0 .. length - 1
    <3>1. i \in Nat /\ i < length /\ o <= i /\ i < o + n
      BY <1>7, <1>8, <1>9, <2>1, ByteAssumption DEF Unread
    <3> QED
      BY <1>3, <1>4, <1>10, <1>11, <3>1
  <2> QED
    BY <1>1, <2>1, <2>2, OutOfMemorySeen
<1>18. \/ input = <<>>
       \/ input # <<>> /\ TreeWrite(o, input) /\ Ends(c, "SUCCESS", <<>>, n)
       \/ input # <<>> /\ TreeWriteFails(c)
  BY <1>7, <1>8, <1>9 DEF Write
<1>19. TreeWriteFails(c) =>
         \/ \E error \in DOMAIN StatusFromError : Fails(c, StatusFromError[error])
         \/ \E lost \in SUBSET Unread(c) : OutOfMemory(c, lost)
  BY ErrorStatus DEF TreeWriteFails, StatusFromError
<1> QED
  BY <1>14, <1>15, <1>16, <1>17, <1>18, <1>19

\* A callback that ends well and has done nothing to the node is not seen to
\* do anything.
LEMMA SuccessIsQuiet ==
  ASSUME Inv, Inv', NEW c \in Client, call[c] # NoCall, Plain(c),
         call[c].request.kind # "cleanup",
         Ends(c, "SUCCESS", <<>>, 0), UNCHANGED node
  PROVE  UNCHANGED <<directory, Appearance>> /\ ViewedInfo' = ViewedInfo
<1>1. PICK s \in Status, d \in Seq(Byte), m \in Nat : s = "SUCCESS" /\ d = <<>> /\ m = 0
  <2>1. "SUCCESS" \in Status /\ <<>> \in Seq(Byte) /\ 0 \in Nat
    BY DEF Status
  <2> QED
    BY <2>1
<1>2. Ends(c, s, d, m)
  BY <1>1
<1>3. PICK y \in Callback : /\ call' = [call EXCEPT ![c] = y] /\ y.phase \in {"done", "answered"}
                            /\ y.request = call[c].request
  BY <1>2, EndIsPlain
<1> QED
  BY <1>3, NothingSeen

\* A change of the size, or of the room, is seen as one, or is refused.
LEMMA SetFileSizeIsSeen ==
  ASSUME Inv, Inv', NEW c \in Client, SetFileSize(c)
  PROVE  File!SetSize(c) \/ File!Refuse(c, "DISK_FULL")
<1>1. /\ call[c] # NoCall /\ call[c].phase = "looked" /\ call[c].request.kind = "size" /\ ~directory
  BY DEF SetFileSize, At
<1>2. /\ call[c] \in Callback /\ call[c].info = <<>> /\ call[c].status = "none" /\ Plain(c)
      /\ call[c].seen.size = length /\ ~Shared(call[c].request) /\ call[c].request \in Request
  BY <1>1, CallIs DEF CallFits, NoAnswer, Plain, At, Shared
<1>3. PICK r : r = call[c].request
  OBVIOUS
<1>4. /\ r.size \in Nat /\ r.allocation \in BOOLEAN /\ r.kind = "size" /\ length \in Nat
      /\ Len(FileBytes) = length /\ Quota \in Nat
  BY <1>1, <1>2, <1>3, Arguments, SizeAssumption, BytesSeen DEF Inv, NodeOK
<1>5. FileCalls[c] # NoCall /\ FileCalls[c].request = r /\ FileCalls[c].answer.status = "none"
  BY <1>1, <1>2, <1>3, CallSeen
<1>6. File!Asks(c, "size")
  BY <1>3, <1>4, <1>5 DEF File!Asks, File!Unanswered
<1>7. CASE r.allocation /\ r.size > Quota
  <2>1. Fails(c, "DISK_FULL")
    BY <1>3, <1>7 DEF SetFileSize
  <2>2. File!Reason(r, "DISK_FULL")
    BY <1>1, <1>4, <1>7 DEF File!Reason
  <2> QED
    BY <1>1, <1>3, <2>1, <2>2, FailIsRefused DEF Status
<1>8. CASE ~(r.allocation /\ r.size > Quota)
  <2>1. /\ Ends(c, "SUCCESS", <<>>, 0)
        /\ IF r.allocation /\ r.size >= length THEN UNCHANGED node ELSE TreeResize(r.size)
    BY <1>2, <1>3, <1>8 DEF SetFileSize
  <2>2. PICK n \in Nat : n = 0
    OBVIOUS
  <2>3. FileCalls' = [FileCalls EXCEPT ![c].answer = File!Answer("SUCCESS", <<>>, n, <<File!FileInfo'>>)]
    BY <1>1, <1>2, <2>1, <2>2, SuccessSeen
  <2>4. CASE r.allocation /\ r.size >= length
    <3>1. UNCHANGED <<directory, Appearance>>
      BY <1>1, <1>2, <2>1, <2>4, SuccessIsQuiet
    <3>2. r.size <= Quota
      BY <1>4, <1>8, <2>4
    <3> QED
      BY <1>1, <1>4, <1>5, <1>6, <2>2, <2>3, <2>4, <3>1, <3>2
      DEF File!SetSize, File!Gets, File!file, Appearance
  <2>5. CASE ~(r.allocation /\ r.size >= length)
    <3>1. /\ FileBytes' = [i \in 1 .. r.size |-> IF i <= length THEN FileBytes[i] ELSE Zero]
      BY <1>4, <2>1, <2>5, TreeResizeSeen
    <3>2. PICK s \in Status, d \in Seq(Byte) : s = "SUCCESS" /\ d = <<>>
      <4>1. "SUCCESS" \in Status /\ <<>> \in Seq(Byte)
        BY DEF Status
      <4> QED
        BY <4>1
    <3>3. Ends(c, s, d, n)
      BY <2>1, <2>2, <3>2
    <3>4. /\ \E y \in Callback : /\ call' = [call EXCEPT ![c] = y] /\ y.phase \in {"done", "answered"}
                                 /\ y.request = call[c].request
          /\ call'[c] # NoCall /\ Plain(c)'
      BY <1>1, <3>3, EndIsPlain
    <3>5. MarkWritten /\ directory' = directory
      BY <2>1, <2>5 DEF TreeResize
    <3>6. /\ FileAttributes' = FileAttributes \cup {"archive"}
          /\ CompleteTimes' = [CompleteTimes EXCEPT !["write"] = ToFileTime(Now)]
      BY <1>1, <1>2, <3>4, <3>5, MarkSeen
    <3> QED
      BY <1>1, <1>4, <1>5, <1>6, <2>2, <2>3, <2>5, <3>1, <3>5, <3>6
      DEF File!SetSize, File!Gets, File!Becomes
  <2> QED
    BY <2>4, <2>5
<1> QED
  BY <1>7, <1>8

-----------------------------------------------------------------------------
(***************************************************************************)
(* What is known of the file.                                              *)
(***************************************************************************)
\* An overwrite is seen whole with its first change.
LEMMA OverwriteIsSeen ==
  ASSUME Inv, Inv', NEW c \in Client, Overwrite(c)
  PROVE  File!Overwrite(c) \/ File!Refuse(c, "DISK_FULL")
<1>1. /\ call[c] # NoCall /\ call[c].phase = "looked" /\ call[c].request.kind = "overwrite"
      /\ ~directory
  BY DEF Overwrite, At
<1>2. /\ call[c] \in Callback /\ NoAnswer(call[c]) /\ call[c].status = "none" /\ Plain(c)
      /\ call[c].seen.attributes = attributes
      /\ ~Shared(call[c].request) /\ call[c].request \in Request
  BY <1>1, CallIs DEF CallFits, Plain, At, Shared
<1>3. PICK r : r = call[c].request
  OBVIOUS
<1>4. /\ r.allocation \in Nat /\ r.replace \in BOOLEAN /\ r.kind = "overwrite" /\ Quota \in Nat
  BY <1>1, <1>2, <1>3, Arguments, SizeAssumption
<1>5. FileCalls[c] # NoCall /\ FileCalls[c].request = r /\ FileCalls[c].answer.status = "none"
  BY <1>1, <1>2, <1>3, CallSeen
<1>6. CASE r.allocation > Quota
  <2>1. Fails(c, "DISK_FULL")
    BY <1>3, <1>6 DEF Overwrite
  <2>2. File!Reason(r, "DISK_FULL")
    BY <1>1, <1>4, <1>6 DEF File!Reason
  <2> QED
    BY <1>1, <1>3, <2>1, <2>2, FailIsRefused DEF Status
<1>7. CASE ~(r.allocation > Quota)
  <2>1. TreeResize(0) /\ Half(c)
    BY <1>3, <1>7 DEF Overwrite
  <2>2. PICK y : y = [call[c] EXCEPT !.phase = "half", !.status = "SUCCESS"]
    OBVIOUS
  <2>3. /\ y \in Callback /\ y.request = r /\ y.phase = "half" /\ y.seen = call[c].seen
        /\ call' = [call EXCEPT ![c] = y] /\ call'[c] = y /\ y # NoCall
    <3>1. y \in Callback /\ y.request = r /\ y.phase = "half" /\ y.seen = call[c].seen
      BY <1>2, <1>3, <2>2 DEF Callback, Status
    <3>2. call' = [call EXCEPT ![c] = y] /\ call'[c] = y
      BY <1>2, <2>1, <2>2 DEF Half, Inv, CallsOK
    <3> QED
      BY <3>1, <3>2, RequestsAssumption
  <2>4. Views /\ Views' /\ times \in [TimeNames -> Int]
    BY ViewsOK, ViewsNext DEF Inv, NodeOK
  <2>5. CompleteAttributes = attributes /\ CompleteTimes = PlainTimes
    BY <1>1, <1>2, <2>4 DEF Views, CallerView
  <2>6. At(c, "overwrite", "half")'
    BY <1>4, <2>3 DEF At
  <2>7. CompleteAttributes' = OverwriteAttributes(c)' /\ CompleteTimes' = PlainTimes'
    BY <2>4, <2>6 DEF Views, OverwriteView
  <2>8. OverwriteAttributes(c)' =
          {"archive"} \cup (((IF r.replace THEN {} ELSE attributes) \cup r.attributes) \ {"directory"})
    BY <1>2, <2>3 DEF OverwriteAttributes
  <2>9. FileAttributes' = {"archive"} \cup (r.attributes \ {"normal", "directory"}) \cup
                          (IF r.replace THEN {} ELSE FileAttributes)
    BY <2>5, <2>7, <2>8 DEF FileAttributes, ViewedAttributes
  <2>10. CompleteTimes' = [CompleteTimes EXCEPT !["write"] = ToFileTime(Now)]
    BY <2>1, <2>4, <2>5, <2>7 DEF PlainTimes, TreeResize, MarkWritten, TimeNames
  <2>11. FileBytes' = <<>>
    <3>1. PICK z \in Nat : z = 0
      OBVIOUS
    <3>2. FileBytes' = [i \in 1 .. z |-> IF i <= length THEN FileBytes[i] ELSE Zero]
      BY <2>1, <3>1, TreeResizeSeen
    <3> QED
      BY <3>1, <3>2
  <2>12. FileCalls' = [FileCalls EXCEPT ![c].answer =
            [status |-> "SUCCESS", data |-> <<>>, count |-> 0, info |-> <<File!FileInfo'>>]]
    <3>1. FileCalls' = [FileCalls EXCEPT ![c].answer =
             [status |-> "SUCCESS", data |-> <<>>, count |-> 0,
              info |-> IF call[c].request.kind = "cleanup" THEN <<>> ELSE <<ViewedInfo'>>]]
      BY <1>1, <1>2, <2>1, HalfSeen
    <3>2. File!FileInfo' = ViewedInfo'
      BY InfoAfter
    <3> QED
      BY <1>1, <3>1, <3>2
  <2>13. directory' = directory /\ r.allocation <= Quota
    BY <1>4, <1>7, <2>1 DEF TreeResize
  <2>14. File!Asks(c, "overwrite")
    BY <1>4, <1>5 DEF File!Asks, File!Unanswered
  <2> QED
    BY <1>1, <1>5, <2>9, <2>10, <2>11, <2>12, <2>13, <2>14
    DEF File!Overwrite, File!Gets, File!Answer, File!Proper
<1> QED
  BY <1>6, <1>7

\* The second change of an overwrite is not seen: it was seen with the first.
LEMMA OverwriteAttributesSetIsUnseen ==
  ASSUME Inv, Inv', NEW c \in Client, OverwriteAttributesSet(c)
  PROVE  UNCHANGED File!vars
<1>1. /\ call[c] # NoCall /\ call[c].phase = "half" /\ call[c].request.kind = "overwrite"
      /\ At(c, "overwrite", "half") /\ Ends(c, "SUCCESS", <<>>, 0)
      /\ UNCHANGED <<directory, length, bytes, times>> /\ attributes' = OverwriteAttributes(c)
  BY DEF OverwriteAttributesSet, SetAttributes, At
<1>2. /\ call[c] \in Callback /\ NoAnswer(call[c]) /\ call[c].status = "SUCCESS"
  BY <1>1, CallIs DEF CallFits
<1>3. PICK y : y = [call[c] EXCEPT !.phase = "done", !.status = "SUCCESS", !.data = <<>>, !.count = 0]
  OBVIOUS
<1>4. y = [call[c] EXCEPT !.phase = "done"]
  BY <1>2, <1>3 DEF Callback, NoAnswer
<1>5. /\ y \in Callback /\ y.request = call[c].request /\ y.phase = "done" /\ y.status = "SUCCESS"
      /\ NoAnswer(y)
  BY <1>2, <1>4 DEF Callback, NoAnswer
<1>6. call' = [call EXCEPT ![c] = y] /\ call'[c] = y /\ y # NoCall
  BY <1>1, <1>2, <1>3, <1>5, RequestsAssumption DEF Ends, Inv, CallsOK
<1>7. Views /\ Views'
  BY ViewsOK, ViewsNext
<1>8. CompleteAttributes = OverwriteAttributes(c) /\ CompleteTimes = PlainTimes
  BY <1>1, <1>7 DEF Views, OverwriteView
<1>9. CompleteAttributes' = attributes' /\ CompleteTimes' = PlainTimes'
  <2>1. Plain(c)' /\ call'[c] # NoCall
    BY <1>5, <1>6 DEF Plain, At
  <2> QED
    BY <1>7, <2>1 DEF Views, CallerView
<1>10. CompleteAttributes' = CompleteAttributes /\ CompleteTimes' = CompleteTimes
  BY <1>1, <1>8, <1>9 DEF PlainTimes
<1>11. UNCHANGED <<directory, Appearance>> /\ ViewedInfo' = ViewedInfo
  BY <1>1, <1>10 DEF Appearance, ViewedInfo, FileAttributes, FileBytes, ViewedAttributes
<1>12. ViewedAnswer(c)' = ViewedAnswer(c)
  BY <1>2, <1>5, <1>6, <1>11 DEF ViewedAnswer, NoAnswer
<1> QED
  BY <1>1, <1>5, <1>6, <1>11, <1>12, Unseen

\* What a callback has become that has made its first change.
LEMMA HalfIs ==
  ASSUME Inv, NEW c \in Client, call[c] # NoCall, Half(c)
  PROVE  \E y \in Callback : /\ call' = [call EXCEPT ![c] = y] /\ call'[c] = y /\ y # NoCall
                             /\ y.request = call[c].request /\ y.seen = call[c].seen
                             /\ y.phase = "half"
<1>1. call[c] \in Callback
  BY CallIs
<1>2. PICK y : y = [call[c] EXCEPT !.phase = "half", !.status = "SUCCESS"]
  OBVIOUS
<1>3. /\ y \in Callback /\ y.request = call[c].request /\ y.phase = "half" /\ y.seen = call[c].seen
  BY <1>1, <1>2 DEF Callback, Status
<1>4. call' = [call EXCEPT ![c] = y] /\ call'[c] = y
  BY <1>1, <1>2 DEF Half, Inv, CallsOK
<1>5. y # NoCall
  BY <1>3, RequestsAssumption
<1> QED
  BY <1>3, <1>4, <1>5

\* So is a SetBasicInfo, whose times return as they were given.
LEMMA SetBasicInfoIsSeen ==
  ASSUME Inv, Inv', NEW c \in Client, SetBasicInfo(c)
  PROVE  File!SetInfo(c) \/ File!Refuse(c, "INVALID_PARAMETER")
<1>1. /\ call[c] # NoCall /\ call[c].phase = "looked" /\ call[c].request.kind = "basic"
  BY DEF SetBasicInfo, At
<1>2. /\ call[c] \in Callback /\ NoAnswer(call[c]) /\ call[c].status = "none" /\ Plain(c)
      /\ ~Shared(call[c].request) /\ call[c].request \in Request
  BY <1>1, CallIs DEF CallFits, Plain, At, Shared
<1>3. PICK r : r = call[c].request
  OBVIOUS
<1>4. PICK asked : asked = r.times
  OBVIOUS
<1>5. /\ r.given \in BOOLEAN /\ asked \in [{"creation", "access", "write", "change"} -> Nat]
      /\ r.kind = "basic" /\ r.attributes \in SUBSET Attribute
  BY <1>1, <1>2, <1>3, <1>4, Arguments
<1>6. FileCalls[c] # NoCall /\ FileCalls[c].request = r /\ FileCalls[c].answer.status = "none"
  BY <1>1, <1>2, <1>3, CallSeen
<1>7. MaxTicks \in Nat /\ Epoch \in Nat
  BY TimeAssumption
<1>8. TimesValid(c) <=> \A t \in DOMAIN asked : asked[t] <= MaxTicks + Epoch
  BY <1>3, <1>4 DEF TimesValid, ValidFileTime
<1>9. CASE ~TimesValid(c)
  <2>1. Fails(c, "INVALID_PARAMETER")
    BY <1>9 DEF SetBasicInfo
  <2>2. \E t \in DOMAIN asked : asked[t] > MaxTicks + Epoch
    BY <1>5, <1>7, <1>8, <1>9
  <2>3. File!Reason(r, "INVALID_PARAMETER")
    BY <1>4, <1>5, <2>2 DEF File!Reason
  <2> QED
    BY <1>1, <1>3, <2>1, <2>3, FailIsRefused DEF Status
<1>10. CASE TimesValid(c)
  <2>1. /\ Half(c) /\ UNCHANGED <<directory, length, bytes, times>>
        /\ IF ~r.given THEN attributes' = attributes
           ELSE attributes' = IF directory THEN r.attributes \cup {"directory"}
                              ELSE r.attributes \ {"directory"}
    BY <1>3, <1>10 DEF SetBasicInfo, SetAttributes
  <2>2. PICK y \in Callback : /\ call' = [call EXCEPT ![c] = y] /\ call'[c] = y /\ y # NoCall
                              /\ y.request = call[c].request /\ y.seen = call[c].seen
                              /\ y.phase = "half"
    BY <1>1, <2>1, HalfIs
  <2>3. Views /\ Views' /\ times \in [TimeNames -> Int]
    BY ViewsOK, ViewsNext DEF Inv, NodeOK
  <2>4. CompleteAttributes = attributes /\ CompleteTimes = PlainTimes
    BY <1>1, <1>2, <2>3 DEF Views, CallerView
  <2>5. At(c, "basic", "half")' /\ call'[c].request.times = asked
    BY <1>1, <1>3, <1>4, <2>2 DEF At
  <2>6. /\ CompleteAttributes' = attributes'
        /\ CompleteTimes' = [t \in TimeNames |->
               IF asked[t] # 0 THEN ToFileTime(FromFileTime(asked[t])) ELSE ToFileTime(times'[t])]
    BY <2>3, <2>5 DEF Views, BasicView
  <2>7. FileAttributes' = IF r.given THEN r.attributes \ {"normal", "directory"} ELSE FileAttributes
    BY <2>1, <2>4, <2>6 DEF FileAttributes, ViewedAttributes
  <2>8. CompleteTimes' = [t \in DOMAIN CompleteTimes |->
            IF asked[t] = 0 THEN CompleteTimes[t]
            ELSE IF asked[t] < MaxTicks THEN asked[t] ELSE MaxTicks]
    <3>1. DOMAIN CompleteTimes = TimeNames /\ \A t \in TimeNames : CompleteTimes[t] = ToFileTime(times[t])
      BY <2>4 DEF PlainTimes
    <3>2. ASSUME NEW t \in TimeNames, asked[t] # 0
          PROVE  ToFileTime(FromFileTime(asked[t])) = IF asked[t] < MaxTicks THEN asked[t] ELSE MaxTicks
      <4>1. PICK time : time = asked[t]
        OBVIOUS
      <4>2. time \in Nat \ {0}
        BY <1>5, <3>2, <4>1 DEF TimeNames
      <4> QED
        BY <4>1, <4>2, TimesReturn
    <3> QED
      BY <2>1, <2>6, <3>1, <3>2
  <2>9. FileBytes' = FileBytes /\ directory' = directory
    BY <2>1 DEF FileBytes
  <2>10. FileCalls' = [FileCalls EXCEPT ![c].answer =
            [status |-> "SUCCESS", data |-> <<>>, count |-> 0, info |-> <<File!FileInfo'>>]]
    <3>1. FileCalls' = [FileCalls EXCEPT ![c].answer =
             [status |-> "SUCCESS", data |-> <<>>, count |-> 0,
              info |-> IF call[c].request.kind = "cleanup" THEN <<>> ELSE <<ViewedInfo'>>]]
      BY <1>1, <1>2, <2>1, HalfSeen
    <3>2. File!FileInfo' = ViewedInfo'
      BY InfoAfter
    <3> QED
      BY <1>1, <3>1, <3>2
  <2>11. File!Asks(c, "basic")
    BY <1>5, <1>6 DEF File!Asks, File!Unanswered
  <2>12. \A t \in DOMAIN asked : asked[t] <= MaxTicks + Epoch
    BY <1>8, <1>10
  <2> QED
    BY <1>4, <1>6, <2>7, <2>8, <2>9, <2>10, <2>11, <2>12
    DEF File!SetInfo, File!Gets, File!Answer, File!Proper, File!Lesser
<1> QED
  BY <1>9, <1>10

\* Nor is the second change of a SetBasicInfo seen.
LEMMA SetBasicInfoTimesIsUnseen ==
  ASSUME Inv, Inv', NEW c \in Client, SetBasicInfoTimes(c)
  PROVE  UNCHANGED File!vars
<1>1. /\ call[c] # NoCall /\ call[c].phase = "half" /\ call[c].request.kind = "basic"
      /\ At(c, "basic", "half") /\ Ends(c, "SUCCESS", <<>>, 0)
      /\ UNCHANGED <<directory, length, bytes, attributes>> /\ SetTimes(GivenTimes(c))
  BY DEF SetBasicInfoTimes, At
<1>2. /\ call[c] \in Callback /\ NoAnswer(call[c]) /\ call[c].status = "SUCCESS"
  BY <1>1, CallIs DEF CallFits
<1>3. PICK y : y = [call[c] EXCEPT !.phase = "done", !.status = "SUCCESS", !.data = <<>>, !.count = 0]
  OBVIOUS
<1>4. y = [call[c] EXCEPT !.phase = "done"]
  BY <1>2, <1>3 DEF Callback, NoAnswer
<1>5. /\ y \in Callback /\ y.request = call[c].request /\ y.phase = "done" /\ y.status = "SUCCESS"
      /\ NoAnswer(y)
  BY <1>2, <1>4 DEF Callback, NoAnswer
<1>6. call' = [call EXCEPT ![c] = y] /\ call'[c] = y /\ y # NoCall
  BY <1>1, <1>2, <1>3, <1>5, RequestsAssumption DEF Ends, Inv, CallsOK
<1>7. Views /\ Views' /\ DOMAIN times = TimeNames
  BY ViewsOK, ViewsNext DEF Inv, NodeOK
<1>8. PICK asked : asked = call[c].request.times
  OBVIOUS
<1>9. /\ CompleteAttributes = attributes
      /\ CompleteTimes = [t \in TimeNames |->
             IF asked[t] # 0 THEN ToFileTime(FromFileTime(asked[t])) ELSE ToFileTime(times[t])]
  BY <1>1, <1>7, <1>8 DEF Views, BasicView
<1>10. CompleteAttributes' = attributes' /\ CompleteTimes' = PlainTimes'
  <2>1. Plain(c)' /\ call'[c] # NoCall
    BY <1>5, <1>6 DEF Plain, At
  <2> QED
    BY <1>7, <2>1 DEF Views, CallerView
<1>11. PlainTimes' = CompleteTimes
  <2>1. PICK given : given = GivenTimes(c)
    OBVIOUS
  <2>2. /\ DOMAIN given = {u \in TimeNames : asked[u] # 0}
        /\ \A t \in DOMAIN given : given[t] = FromFileTime(asked[t])
    BY <1>7, <1>8, <2>1 DEF GivenTimes
  <2>3. times' = [t \in TimeNames |-> IF t \in DOMAIN given THEN given[t] ELSE times[t]]
    BY <1>1, <1>7, <2>1 DEF SetTimes
  <2>4. PlainTimes' = [t \in TimeNames |-> ToFileTime(times'[t])]
    BY DEF PlainTimes
  <2> QED
    BY <1>9, <2>2, <2>3, <2>4
<1>12. CompleteAttributes' = CompleteAttributes /\ CompleteTimes' = CompleteTimes
  BY <1>1, <1>9, <1>10, <1>11
<1>13. UNCHANGED <<directory, Appearance>> /\ ViewedInfo' = ViewedInfo
  BY <1>1, <1>12 DEF Appearance, ViewedInfo, FileAttributes, FileBytes, ViewedAttributes
<1>14. ViewedAnswer(c)' = ViewedAnswer(c)
  BY <1>2, <1>5, <1>6, <1>13 DEF ViewedAnswer, NoAnswer
<1> QED
  BY <1>1, <1>5, <1>6, <1>13, <1>14, Unseen

\* A query is seen to tell the file.
LEMMA GetFileInfoIsSeen ==
  ASSUME Inv, Inv', NEW c \in Client, GetFileInfo(c)
  PROVE  File!GetInfo(c)
<1>1. /\ call[c] # NoCall /\ call[c].phase = "begun" /\ call[c].request.kind = "info"
      /\ Ends(c, "SUCCESS", <<>>, 0) /\ UNCHANGED node
  BY DEF GetFileInfo, At
<1>2. call[c].info = <<>> /\ call[c].status = "none" /\ Plain(c)
  BY <1>1, CallIs DEF CallFits, NoAnswer, Plain, At
<1>3. UNCHANGED <<directory, Appearance>> /\ ViewedInfo' = ViewedInfo
  BY <1>1, <1>2, SuccessIsQuiet
<1>4. PICK n \in Nat : n = 0
  OBVIOUS
<1>5. FileCalls' = [FileCalls EXCEPT ![c].answer = File!Answer("SUCCESS", <<>>, n, <<File!FileInfo'>>)]
  BY <1>1, <1>2, <1>3, <1>4, SuccessSeen
<1>6. File!FileInfo' = File!FileInfo
  BY <1>3 DEF File!FileInfo, Appearance
<1>7. File!Asks(c, "info")
  <2>1. /\ FileCalls[c] # NoCall /\ FileCalls[c].request = call[c].request
        /\ FileCalls[c].answer.status = "none"
    BY <1>1, <1>2, CallSeen
  <2> QED
    BY <1>1, <2>1 DEF File!Asks, File!Unanswered
<1> QED
  BY <1>3, <1>4, <1>5, <1>6, <1>7 DEF File!GetInfo, File!Gets, File!file, Appearance

\* A cleanup is seen whole with the times it touches.
LEMMA CleanupIsSeen ==
  ASSUME Inv, Inv', NEW c \in Client, Cleanup(c)
  PROVE  File!Cleanup(c)
<1>1. /\ call[c] # NoCall /\ call[c].phase = "begun" /\ call[c].request.kind = "cleanup"
      /\ UNCHANGED <<directory, length, bytes, attributes>>
  BY DEF Cleanup, At
<1>2. /\ call[c] \in Callback /\ NoAnswer(call[c]) /\ call[c].status = "none" /\ Plain(c)
      /\ ~Shared(call[c].request) /\ call[c].request \in Request
  BY <1>1, CallIs DEF CallFits, Plain, At, Shared
<1>3. PICK r : r = call[c].request
  OBVIOUS
<1>4. r.touched \in SUBSET TimeNames /\ r.archive \in BOOLEAN /\ r.kind = "cleanup"
  BY <1>1, <1>2, <1>3, Arguments DEF TimeNames
<1>5. FileCalls[c] # NoCall /\ FileCalls[c].request = r /\ FileCalls[c].answer.status = "none"
  BY <1>1, <1>2, <1>3, CallSeen
<1>6. Views /\ Views' /\ DOMAIN times = TimeNames
  BY ViewsOK, ViewsNext DEF Inv, NodeOK
<1>7. CompleteAttributes = attributes /\ CompleteTimes = PlainTimes
  BY <1>1, <1>2, <1>6 DEF Views, CallerView
<1>8. PlainTimes' = [t \in DOMAIN CompleteTimes |->
                        IF t \in r.touched THEN ToFileTime(Now) ELSE CompleteTimes[t]]
  <2>1. times' = [t \in TimeNames |-> IF t \in r.touched THEN Now ELSE times[t]]
    <3>1. PICK given : given = [t \in r.touched |-> Now]
      OBVIOUS
    <3>2. SetTimes(given)
      BY <1>3, <3>1 DEF Cleanup
    <3>3. times' = [t \in TimeNames |-> IF t \in DOMAIN given THEN given[t] ELSE times[t]]
      BY <1>6, <3>2 DEF SetTimes
    <3> QED
      BY <3>1, <3>3
  <2>2. DOMAIN CompleteTimes = TimeNames /\ \A t \in TimeNames : CompleteTimes[t] = ToFileTime(times[t])
    BY <1>7 DEF PlainTimes
  <2> QED
    BY <2>1, <2>2 DEF PlainTimes
<1>9. /\ CompleteTimes' = PlainTimes'
      /\ CompleteAttributes' = IF r.archive /\ ~directory THEN attributes \cup {"archive"} ELSE attributes
      /\ FileCalls' = [FileCalls EXCEPT ![c].answer =
             [status |-> "SUCCESS", data |-> <<>>, count |-> 0, info |-> <<>>]]
  <2>1. CASE r.archive
    <3>1. Half(c)
      BY <1>3, <2>1 DEF Cleanup
    <3>2. PICK y \in Callback : /\ call' = [call EXCEPT ![c] = y] /\ call'[c] = y /\ y # NoCall
                                /\ y.request = call[c].request /\ y.seen = call[c].seen
                                /\ y.phase = "half"
      BY <1>1, <3>1, HalfIs
    <3>3. At(c, "cleanup", "half")'
      BY <1>1, <3>2 DEF At
    <3>4. /\ CompleteTimes' = PlainTimes'
          /\ CompleteAttributes' = IF directory' THEN attributes' ELSE attributes' \cup {"archive"}
      BY <1>6, <3>3 DEF Views, CleanupView
    <3>5. FileCalls' = [FileCalls EXCEPT ![c].answer =
             [status |-> "SUCCESS", data |-> <<>>, count |-> 0,
              info |-> IF call[c].request.kind = "cleanup" THEN <<>> ELSE <<ViewedInfo'>>]]
      BY <1>1, <1>2, <3>1, HalfSeen
    <3>6. FileCalls' = [FileCalls EXCEPT ![c].answer =
             [status |-> "SUCCESS", data |-> <<>>, count |-> 0, info |-> <<>>]]
      BY <1>1, <3>5
    <3> QED
      BY <1>1, <2>1, <3>4, <3>6
  <2>2. CASE ~r.archive
    <3>1. call' = [call EXCEPT ![c].phase = "answered", ![c].status = "SUCCESS"]
      BY <1>3, <2>2 DEF Cleanup
    <3>2. PICK y : y = [call[c] EXCEPT !.phase = "answered", !.status = "SUCCESS"]
      OBVIOUS
    <3>3. /\ y \in Callback /\ y.request = call[c].request /\ y.phase = "answered"
          /\ y.status = "SUCCESS" /\ NoAnswer(y)
      BY <1>2, <3>2 DEF Callback, Status, NoAnswer
    <3>4. call' = [call EXCEPT ![c] = y] /\ call'[c] = y /\ y # NoCall
      BY <1>2, <3>1, <3>2, <3>3, RequestsAssumption DEF Inv, CallsOK
    <3>5. Plain(c)' /\ call'[c] # NoCall
      BY <3>3, <3>4 DEF Plain, At
    <3>6. CompleteAttributes' = attributes' /\ CompleteTimes' = PlainTimes'
      BY <1>6, <3>5 DEF Views, CallerView
    <3>7. ViewedAnswer(c)' = [status |-> "SUCCESS", data |-> <<>>, count |-> 0, info |-> <<>>]
      BY <1>1, <3>3, <3>4 DEF ViewedAnswer, NoAnswer
    <3>8. FileCalls' = [FileCalls EXCEPT ![c].answer = ViewedAnswer(c)']
      BY <1>1, <1>2, <3>3, <3>4, NobodyElse, CallViewed
    <3> QED
      BY <1>1, <2>2, <3>6, <3>7, <3>8
  <2> QED
    BY <1>4, <2>1, <2>2
<1>10. /\ CompleteTimes' = [t \in DOMAIN CompleteTimes |->
              IF t \in r.touched THEN ToFileTime(Now) ELSE CompleteTimes[t]]
       /\ FileAttributes' = IF r.archive /\ ~directory THEN FileAttributes \cup {"archive"}
                            ELSE FileAttributes
  BY <1>7, <1>8, <1>9 DEF FileAttributes, ViewedAttributes
<1>11. FileBytes' = FileBytes /\ directory' = directory
  BY <1>1 DEF FileBytes
<1>12. File!Asks(c, "cleanup")
  BY <1>4, <1>5 DEF File!Asks, File!Unanswered
<1> QED
  BY <1>5, <1>9, <1>10, <1>11, <1>12 DEF File!Cleanup, File!Gets, File!Answer

\* That a cleanup sets the archive bit is seen with its times.
LEMMA CleanupArchiveIsUnseen ==
  ASSUME Inv, Inv', NEW c \in Client, CleanupArchive(c)
  PROVE  UNCHANGED File!vars
<1>1. /\ call[c] # NoCall /\ call[c].phase = "looked" /\ call[c].request.kind = "cleanup"
      /\ At(c, "cleanup", "looked") /\ Phase(c, "answered")
      /\ UNCHANGED <<directory, length, bytes, times>>
      /\ attributes' = IF directory THEN attributes ELSE call[c].seen.attributes \cup {"archive"}
  BY DEF CleanupArchive, SetAttributes, At
<1>2. /\ call[c] \in Callback /\ NoAnswer(call[c]) /\ call[c].status = "SUCCESS"
      /\ call[c].seen.attributes = attributes
  BY <1>1, CallIs DEF CallFits
<1>3. PICK y : y = [call[c] EXCEPT !.phase = "answered"]
  OBVIOUS
<1>4. /\ y \in Callback /\ y.request = call[c].request /\ y.phase = "answered" /\ y.status = "SUCCESS"
      /\ NoAnswer(y)
  BY <1>2, <1>3 DEF Callback, NoAnswer
<1>5. call' = [call EXCEPT ![c] = y] /\ call'[c] = y /\ y # NoCall
  BY <1>1, <1>2, <1>3, <1>4, RequestsAssumption DEF Phase, Inv, CallsOK
<1>6. Views /\ Views'
  BY ViewsOK, ViewsNext
<1>7. /\ CompleteAttributes = IF directory THEN attributes ELSE attributes \cup {"archive"}
      /\ CompleteTimes = PlainTimes
  BY <1>1, <1>6 DEF Views, CleanupView
<1>8. CompleteAttributes' = attributes' /\ CompleteTimes' = PlainTimes'
  <2>1. Plain(c)' /\ call'[c] # NoCall
    BY <1>4, <1>5 DEF Plain, At
  <2> QED
    BY <1>6, <2>1 DEF Views, CallerView
<1>9. CompleteAttributes' = CompleteAttributes /\ CompleteTimes' = CompleteTimes
  BY <1>1, <1>2, <1>7, <1>8 DEF PlainTimes
<1>10. UNCHANGED <<directory, Appearance>> /\ ViewedInfo' = ViewedInfo
  BY <1>1, <1>9 DEF Appearance, ViewedInfo, FileAttributes, FileBytes, ViewedAttributes
<1>11. ViewedAnswer(c)' = ViewedAnswer(c)
  BY <1>1, <1>2, <1>4, <1>5 DEF ViewedAnswer, NoAnswer
<1> QED
  BY <1>1, <1>4, <1>5, <1>10, <1>11, Unseen

\* Nothing is seen of a callback that looks.
LEMMA LookIsUnseen ==
  ASSUME Inv, Inv', NEW c \in Client, Look(c)
  PROVE  UNCHANGED File!vars
<1>1. call[c] # NoCall /\ UNCHANGED node
  BY DEF Look, At
<1>2. call[c] \in Callback /\ CallFits(call[c]) /\ NodeOK
  BY <1>1, CallIs DEF Inv
<1>3. PICK s : s = [size |-> length, attributes |-> attributes]
  OBVIOUS
<1>4. s \in Seen
  BY <1>2, <1>3 DEF Seen, NodeOK
<1>5. PICK y : y = [call[c] EXCEPT !.phase = "looked", !.seen = s]
  OBVIOUS
<1>6. /\ y \in Callback /\ y.request = call[c].request /\ y.phase = "looked"
      /\ y.status = call[c].status /\ y.data = call[c].data /\ y.count = call[c].count
      /\ y.info = call[c].info
  BY <1>2, <1>4, <1>5 DEF Callback
<1>7. call' = [call EXCEPT ![c] = y] /\ call'[c] = y /\ y # NoCall
  BY <1>2, <1>3, <1>5, <1>6, RequestsAssumption DEF Look, Inv, CallsOK
<1>8. UNCHANGED <<directory, Appearance>> /\ ViewedInfo' = ViewedInfo
  <2>1. CASE At(c, "cleanup", "half")
    <3>1. Views /\ Views'
      BY ViewsOK, ViewsNext
    <3>2. At(c, "cleanup", "looked")'
      BY <1>6, <1>7, <2>1 DEF At
    <3>3. /\ CompleteAttributes = IF directory THEN attributes ELSE attributes \cup {"archive"}
          /\ CompleteTimes = PlainTimes
      BY <2>1, <3>1 DEF Views, CleanupView
    <3>4. /\ CompleteAttributes' = IF directory' THEN attributes' ELSE attributes' \cup {"archive"}
          /\ CompleteTimes' = PlainTimes'
      BY <3>1, <3>2 DEF Views, CleanupView
    <3>5. CompleteAttributes' = CompleteAttributes /\ CompleteTimes' = CompleteTimes
      BY <1>1, <3>3, <3>4 DEF PlainTimes, node
    <3> QED
      BY <1>1, <3>5 DEF Appearance, ViewedInfo, FileAttributes, FileBytes, ViewedAttributes, node
  <2>2. CASE ~At(c, "cleanup", "half")
    <3>1. call[c].phase = "begun" /\ call[c].request.kind # "cleanup"
      BY <2>2 DEF Look, At
    <3>2. Plain(c)
      BY <3>1 DEF Plain, At
    <3> QED
      BY <1>1, <1>6, <1>7, <3>1, <3>2, NothingSeen
  <2> QED
    BY <2>1, <2>2
<1>9. ViewedAnswer(c)' = ViewedAnswer(c)
  <2>1. call[c].status # "SUCCESS" \/ call[c].request.kind = "cleanup"
    BY <1>2 DEF Look, At, CallFits
  <2> QED
    BY <1>6, <1>7, <2>1 DEF ViewedAnswer
<1> QED
  BY <1>1, <1>6, <1>7, <1>8, <1>9, Unseen

\* The answer that a callback fills in is the one that was seen before.
LEMMA AnswerIsUnseen ==
  ASSUME Inv, Inv', NEW c \in Client, Answer(c)
  PROVE  UNCHANGED File!vars
<1>1. call[c] # NoCall /\ call[c].phase = "done" /\ UNCHANGED node
  BY DEF Answer
<1>2. /\ call[c] \in Callback /\ call[c].status = "SUCCESS" /\ call[c].info = <<>> /\ Plain(c)
      /\ call[c].request.kind # "cleanup" /\ FileInfo \in Info
  BY <1>1, CallIs, FileInfoOK DEF CallFits, Plain, At, Inv
<1>3. PICK i : i = IF call[c].request.kind = "read" THEN <<>> ELSE <<FileInfo>>
  OBVIOUS
<1>4. i \in Seq(Info)
  BY <1>2, <1>3
<1>5. PICK y : y = [call[c] EXCEPT !.phase = "answered", !.info = i]
  OBVIOUS
<1>6. /\ y \in Callback /\ y.request = call[c].request /\ y.phase = "answered"
      /\ y.status = call[c].status /\ y.data = call[c].data /\ y.count = call[c].count /\ y.info = i
  BY <1>2, <1>4, <1>5 DEF Callback
<1>7. call' = [call EXCEPT ![c] = y] /\ call'[c] = y
  BY <1>2, <1>3, <1>5 DEF Answer, Inv, CallsOK
<1>8. UNCHANGED <<directory, Appearance>> /\ ViewedInfo' = ViewedInfo
  BY <1>1, <1>2, <1>6, <1>7, NothingSeen
<1>9. [size |-> FileInfo.size, attributes |-> ViewedAttributes(FileInfo.attributes), times |-> FileInfo.times]
        = ViewedInfo
  <2>1. CompleteAttributes = attributes /\ CompleteTimes = PlainTimes /\ DOMAIN times = TimeNames
    BY <1>1, <1>2, ViewsOK DEF Views, CallerView, Inv, NodeOK
  <2>2. ViewedAttributes(ReportedAttributes(attributes)) = FileAttributes
    BY <2>1 DEF ViewedAttributes, ReportedAttributes, FileAttributes
  <2>3. /\ FileInfo.size = length /\ FileInfo.attributes = ReportedAttributes(attributes)
        /\ FileInfo.times = CompleteTimes
    BY <2>1 DEF FileInfo, PlainTimes
  <2> QED
    BY <2>2, <2>3 DEF ViewedInfo
<1>10. ViewedAnswer(c)' = ViewedAnswer(c)
  <2>1. CASE call[c].request.kind = "read"
    BY <1>6, <1>7, <2>1 DEF ViewedAnswer
  <2>2. CASE call[c].request.kind # "read"
    <3>1. i = <<FileInfo>> /\ i # <<>> /\ i[1] = FileInfo
      BY <1>3, <2>2
    <3>2. call'[c].info = i /\ call'[c].info[1] = FileInfo
      BY <1>6, <1>7, <3>1
    <3>3. PICK w : w = FileInfo
      OBVIOUS
    <3>4. ViewedAnswer(c)' = [status |-> call[c].status, data |-> call[c].data, count |-> call[c].count,
             info |-> <<[size |-> w.size, attributes |-> ViewedAttributes(w.attributes), times |-> w.times]>>]
      BY <1>2, <1>6, <1>7, <2>2, <3>1, <3>2, <3>3 DEF ViewedAnswer, ViewedAttributes
    <3>5. ViewedAnswer(c) = [status |-> call[c].status, data |-> call[c].data, count |-> call[c].count,
             info |-> <<ViewedInfo>>]
      BY <1>2, <2>2 DEF ViewedAnswer
    <3> QED
      BY <1>9, <3>3, <3>4, <3>5
  <2> QED
    BY <2>1, <2>2
<1> QED
  BY <1>1, <1>6, <1>7, <1>8, <1>10, Unseen

-----------------------------------------------------------------------------
(***************************************************************************)
(* The callbacks implement the file.                                       *)
(***************************************************************************)
\* The file as it is projected is a file.
LEMMA InitIsSeen == Init => File!Init
<1> SUFFICES ASSUME Init PROVE File!Init
  OBVIOUS
<1>1. Inv
  BY InitInv
<1>2. \A c \in Client : call[c] = NoCall
  BY DEF Init
<1>3. CompleteAttributes = attributes /\ CompleteTimes = PlainTimes
  <2>1. \A c \in Client : Plain(c)
    BY <1>2 DEF Plain, At
  <2> QED
    BY <1>1, <2>1, ViewsOK DEF Views, PlainView
<1>4. FileCalls = [c \in Client |-> NoCall]
  BY <1>2 DEF FileCalls, ViewedCall
<1>5. FileAttributes \in {{}, {"archive"}}
  BY <1>3 DEF FileAttributes, ViewedAttributes, Init
<1>6. CompleteTimes = [t \in {"creation", "access", "write"} |-> ToFileTime(Now)]
  BY <1>3 DEF PlainTimes, Init, TimeNames
<1>7. \E n \in 0 .. MaxSize : FileBytes \in [1 .. n -> Byte]
  <2>1. length \in 0 .. MaxSize /\ FileBytes \in Seq(Byte) /\ Len(FileBytes) = length
    BY <1>1, BytesSeen DEF Inv, NodeOK
  <2>2. FileBytes \in [1 .. length -> Byte]
    BY <2>1
  <2> QED
    BY <2>1, <2>2
<1> QED
  BY <1>4, <1>5, <1>6, <1>7 DEF Init, File!Init

\* Every step of a callback is seen as a step of the file, or not at all.
LEMMA StepIsSeen ==
  ASSUME Inv, Inv', NEW c \in Client, Step(c)
  PROVE  [File!Next]_(File!vars)
<1>1. CASE Look(c) \/ OverwriteAttributesSet(c) \/ SetBasicInfoTimes(c) \/ CleanupArchive(c) \/ Answer(c)
  BY <1>1, LookIsUnseen, OverwriteAttributesSetIsUnseen, SetBasicInfoTimesIsUnseen,
     CleanupArchiveIsUnseen, AnswerIsUnseen
<1>2. CASE IsDirectory(c) \/ WriteRefused(c)
  <2>1. "FILE_IS_A_DIRECTORY" \in File!Status
    BY DEF File!Status
  <2>2. \E status \in File!Status : File!Refuse(c, status)
    BY <1>2, <2>1, IsDirectoryIsRefused, WriteRefusedIsRefused
  <2> QED
    BY <2>2 DEF File!Next
<1>3. CASE Read(c)
  BY <1>3, ReadIsSeen DEF File!Next
<1>4. CASE Write(c)
  BY <1>4, WriteIsSeen DEF File!Next
<1>5. CASE SetFileSize(c) \/ Overwrite(c)
  <2>1. "DISK_FULL" \in File!Status
    BY DEF File!Status, File!OutOfResources
  <2> QED
    BY <1>5, <2>1, SetFileSizeIsSeen, OverwriteIsSeen DEF File!Next
<1>6. CASE SetBasicInfo(c)
  <2>1. "INVALID_PARAMETER" \in File!Status
    BY DEF File!Status
  <2> QED
    BY <1>6, <2>1, SetBasicInfoIsSeen DEF File!Next
<1>7. CASE GetFileInfo(c) \/ Cleanup(c) \/ Return(c)
  BY <1>7, GetFileInfoIsSeen, CleanupIsSeen, ReturnIsSeen DEF File!Next
<1> QED
  BY <1>1, <1>2, <1>3, <1>4, <1>5, <1>6, <1>7 DEF Step

\* Though a callback asks, decides, changes and answers in separate calls to
\* the tree, to its users each call on the file takes effect at one moment and
\* is answered with the file as that moment left it, or is refused for a reason
\* and changes nothing, but that a write out of memory may have lost some of the
\* bytes it was to replace.  A failure of the archive is such a reason.
THEOREM CallbacksImplementFile == Spec => RefinesMountedFile
<1>1. Inv /\ Inv' /\ [Next]_vars => [File!Next]_(File!vars)
  <2> SUFFICES ASSUME Inv, Inv', [Next]_vars
               PROVE  [File!Next]_(File!vars)
    OBVIOUS
  <2>1. CASE UNCHANGED vars
    BY <2>1 DEF vars, File!vars, FileBytes, FileAttributes, CompleteAttributes, CompleteTimes,
       FileCalls, ViewedCall, ViewedAnswer, ViewedInfo, Halfway, ArchiveToSet, At, GivenTimes,
       OverwriteAttributes, ViewedAttributes, ToFileTime, FromFileTime
  <2>2. ASSUME NEW c \in Client, NEW r \in Requests, Begin(c, r)
        PROVE  File!Next
    BY <2>2, BeginIsMade DEF File!Next
  <2> QED
    BY <2>1, <2>2, StepIsSeen DEF Next
<1>2. Spec => []Inv
  BY CallbacksAreConsistent
<1> QED
  BY <1>1, <1>2, InitIsSeen, PTL DEF Spec, RefinesMountedFile, File!Spec

=============================================================================
