------------------------- MODULE FileContent_proofs -------------------------
(***************************************************************************)
(* Proofs about FileContent, for every page size, file size and input.     *)
(***************************************************************************)
EXTENDS FileContent, TLAPS

\* A position lies in its page.
LEMMA DivBounds ==
  ASSUME NEW i \in Nat
  PROVE  /\ PageOf(i) \in Nat
         /\ PageOf(i) * PageSize <= i
         /\ i < PageOf(i) * PageSize + PageSize
         /\ PageOf(i) <= i
         /\ i % PageSize = i - PageOf(i) * PageSize
BY PageSizeAssumption, Z3 DEF PageOf

\* Pages are ordered as their positions are.
LEMMA DivMono ==
  ASSUME NEW i \in Nat, NEW j \in Nat, i <= j
  PROVE  PageOf(i) <= PageOf(j)
BY PageSizeAssumption, Z3 DEF PageOf

\* The positions below the start of page p are those of smaller pages.
LEMMA DivLess ==
  ASSUME NEW i \in Nat, NEW p \in Nat
  PROVE  PageOf(i) < p <=> i < p * PageSize
BY PageSizeAssumption, Z3 DEF PageOf

\* The input of a write has at least one byte, all of them in Byte.
LEMMA InputLength ==
  ASSUME NEW input \in Inputs
  PROVE  /\ Len(input) \in Nat \ {0}
         /\ \A k \in 1 .. Len(input) : input[k] \in Byte
<1>1. input \in Seq(Byte) /\ input # <<>>
  BY InputAssumption
<1>2. QED
  BY <1>1

\* Every position is in a page, and every page starts at a position.
LEMMA PagePosition ==
  /\ \A i \in Position : i \in Nat /\ PageOf(i) \in Page
  /\ \A p \in Page : p \in Nat /\ p * PageSize \in Nat /\ p * PageSize < MaxSize
<1>1. ASSUME NEW i \in Position PROVE i \in Nat /\ PageOf(i) \in Page
  BY SizeAssumption, DivMono, DivBounds DEF Position, Page
<1>2. ASSUME NEW p \in Page
      PROVE  p \in Nat /\ p * PageSize \in Nat /\ p * PageSize < MaxSize
  <2>1. p \in Nat /\ p <= PageOf(MaxSize - 1) /\ MaxSize - 1 \in Nat
    BY SizeAssumption DEF Page
  <2>2. p * PageSize \in Nat
    BY <2>1, PageSizeAssumption
  <2>3. ~(PageOf(MaxSize - 1) < p)
    BY <2>1, DivBounds
  <2>4. ~(MaxSize - 1 < p * PageSize)
    BY <2>1, <2>3, DivLess
  <2>5. QED
    BY <2>1, <2>2, <2>4, SizeAssumption
<1>3. QED
  BY <1>1, <1>2

\* The pages of a write that fits in the file are pages of the file.
LEMMA RequestRange ==
  ASSUME NEW r \in Request, EndOf(r) <= MaxSize
  PROVE  /\ r.offset \in Nat /\ EndOf(r) \in Nat /\ EndOf(r) > r.offset
         /\ FirstPage(r) \in Page /\ LastPage(r) \in Page
         /\ LastPage(r) + 1 <= MaxSize
         /\ \A i \in Position : Covers(r, i) =>
               /\ FirstPage(r) <= PageOf(i) /\ PageOf(i) <= LastPage(r)
               /\ r.input[i - r.offset + 1] \in Byte
<1>1. /\ r.offset \in 0 .. MaxSize /\ r.input \in Inputs /\ Len(r.input) \in Nat \ {0}
      /\ \A k \in 1 .. Len(r.input) : r.input[k] \in Byte
  BY InputLength DEF Request
<1>2. r.offset \in Nat /\ EndOf(r) \in Nat /\ EndOf(r) > r.offset /\ EndOf(r) - 1 \in Position
      /\ r.offset \in Position
  BY <1>1, SizeAssumption DEF EndOf, Position
<1>3. FirstPage(r) \in Page /\ LastPage(r) \in Page
  BY <1>2, PagePosition DEF FirstPage, LastPage
<1>4. LastPage(r) + 1 <= MaxSize
  <2>1. LastPage(r) <= EndOf(r) - 1
    BY <1>2, PagePosition, DivBounds DEF LastPage
  <2>2. QED
    BY <2>1, <1>2, <1>3, SizeAssumption, PagePosition
<1>5. ASSUME NEW i \in Position, Covers(r, i)
      PROVE  /\ FirstPage(r) <= PageOf(i) /\ PageOf(i) <= LastPage(r)
             /\ r.input[i - r.offset + 1] \in Byte
  <2>1. r.offset <= i /\ i <= EndOf(r) - 1 /\ i \in Nat
    BY <1>2, <1>5, PagePosition DEF Covers
  <2>2. FirstPage(r) <= PageOf(i) /\ PageOf(i) <= LastPage(r)
    BY <2>1, <1>2, PagePosition, DivMono DEF FirstPage, LastPage
  <2>3. i - r.offset + 1 \in 1 .. Len(r.input)
    BY <2>1, <1>1, <1>2 DEF EndOf
  <2>4. QED
    BY <2>2, <2>3, <1>1
<1>6. QED
  BY <1>2, <1>3, <1>4, <1>5

-----------------------------------------------------------------------------
\* The inductive invariant: a commit publishes what was staged, so it keeps the
\* invariants of the file only because of what StagedPagesMatch says of it.
IInv ==
    /\ TypeOK
    /\ BaseWithinFile
    /\ TailIsZero
    /\ NoPageBeyondEnd
    /\ StagedPagesMatch

\* Below the pages of the file, archive bytes show exactly below baseLimit.
LEMMA ByteAtType ==
  ASSUME TypeOK, BaseWithinFile, NEW i \in Position
  PROVE  ByteAt(i) \in Byte
<1>1. i < baseLimit => i \in 0 .. BaseSize - 1
  BY SizeAssumption, PagePosition DEF TypeOK, BaseWithinFile
<1>2. QED
  BY <1>1, ByteAssumption DEF TypeOK, ByteAt

LEMMA InitIInv == Init => IInv
<1> SUFFICES ASSUME Init PROVE IInv
  OBVIOUS
<1>1. TypeOK
  BY SizeAssumption, ByteAssumption DEF Init, TypeOK, NoPages
<1>2. BaseWithinFile /\ TailIsZero /\ NoPageBeyondEnd /\ StagedPagesMatch
  BY SizeAssumption, ByteAssumption
  DEF Init, BaseWithinFile, TailIsZero, NoPageBeyondEnd, StagedPagesMatch
<1>3. QED
  BY <1>1, <1>2 DEF IInv

LEMMA BeginWriteIInv ==
  ASSUME IInv, NEW offset \in 0 .. MaxSize, NEW input \in Inputs, BeginWrite(offset, input)
  PROVE  IInv'
<1>1. /\ request' = [offset |-> offset, input |-> input, page |-> PageOf(offset)]
      /\ UNCHANGED <<size, baseLimit, dirty, buf, staged, stage>>
  BY DEF BeginWrite, node
<1>2. offset \in Nat /\ Len(input) \in Nat \ {0} /\ offset + Len(input) <= MaxSize
  BY InputLength, SizeAssumption DEF BeginWrite, Fits
<1>3. PageOf(offset) \in 0 .. MaxSize
  BY <1>2, DivBounds, SizeAssumption
<1>4. request' \in Request /\ EndOf(request') = offset + Len(input)
  BY <1>1, <1>3 DEF Request, EndOf
<1>5. TypeOK'
  BY <1>1, <1>4 DEF TypeOK, IInv
<1>6. FirstPage(request') \in Nat /\ LastPage(request') \in Nat
      /\ FirstPage(request') <= LastPage(request')
  <2>1. offset <= EndOf(request') - 1 /\ EndOf(request') - 1 \in Nat
    BY <1>2, <1>4
  <2>2. QED
    BY <2>1, <1>1, <1>2, DivBounds, DivMono DEF FirstPage, LastPage
<1>7. StagedPagesMatch'
  <2>1. staged = {} /\ request' # NoWrite
    BY <1>4, NoWriteAssumption DEF IInv, StagedPagesMatch, BeginWrite
  <2>2. request'.page = FirstPage(request')
    BY <1>1 DEF FirstPage
  <2>3. QED
    BY <2>1, <2>2, <1>1, <1>2, <1>4, <1>6, PagePosition DEF StagedPagesMatch
<1>8. BaseWithinFile' /\ TailIsZero' /\ NoPageBeyondEnd'
  BY <1>1 DEF IInv, BaseWithinFile, TailIsZero, NoPageBeyondEnd
<1>9. QED
  BY <1>5, <1>7, <1>8 DEF IInv

\* A page staged from the archive holds what the file shows there, except where
\* the write will replace it.
LEMMA StagedByteCorrect ==
  ASSUME TypeOK, BaseWithinFile, NEW r \in Request, EndOf(r) <= MaxSize,
         NEW i \in Position, PageOf(i) \notin dirty
  PROVE  /\ StagedByte(r, PageOf(i), i) \in Byte
         /\ Covers(r, i) \/ StagedByte(r, PageOf(i), i) = ByteAt(i)
<1> DEFINE p == PageOf(i)
<1>1. /\ i \in Nat /\ p \in Nat /\ p * PageSize \in Nat
      /\ p * PageSize <= i /\ i < p * PageSize + PageSize
  BY PagePosition, DivBounds
<1>2. /\ baseLimit \in Nat /\ size \in Nat /\ baseLimit <= size /\ PageSize \in Nat
      /\ r.offset \in Nat /\ EndOf(r) \in Nat
  BY RequestRange, SizeAssumption, PageSizeAssumption DEF TypeOK, BaseWithinFile
<1>3. PreservedEnd = baseLimit
  BY <1>2 DEF PreservedEnd, Smaller
<1>4. HasPreserved(p) => (i - p * PageSize < PreservedAmount(p) <=> i < baseLimit)
  BY <1>1, <1>2, <1>3 DEF HasPreserved, PreservedAmount, Smaller
<1>5. ~HasPreserved(p) => ~(i < baseLimit)
  BY <1>1, <1>2, <1>3 DEF HasPreserved
<1>6. ByteAt(i) = IF i < baseLimit THEN Base[i] ELSE Zero
  BY DEF ByteAt
<1>7. StagedByte(r, p, i) \in Byte
  <2>1. i < baseLimit => i \in 0 .. BaseSize - 1
    BY <1>1, <1>2, SizeAssumption DEF BaseWithinFile
  <2>2. QED
    BY <2>1, <1>4, ByteAssumption DEF StagedByte, NeedsHydration
<1>8. CASE NeedsHydration(r, p)
  BY <1>4, <1>6, <1>7, <1>8 DEF StagedByte, NeedsHydration
<1>9. CASE ~NeedsHydration(r, p)
  <2>1. CASE ~(i < baseLimit)
    BY <2>1, <1>6, <1>7, <1>9 DEF StagedByte
  <2>2. CASE i < baseLimit
    <3>1. HasPreserved(p) /\ WriteCoversPreserved(r, p)
      BY <2>2, <1>5, <1>9 DEF NeedsHydration
    <3>2. PreservedAmount(p) \in Int
      BY <1>1, <1>2, <1>3 DEF PreservedAmount, Smaller
    <3>3. Covers(r, i)
      BY <3>1, <3>2, <2>2, <1>1, <1>2, <1>4 DEF WriteCoversPreserved, Covers
    <3>4. QED
      BY <3>3, <1>7
  <2>3. QED
    BY <2>1, <2>2
<1>10. QED
  BY <1>8, <1>9

LEMMA StagePageIInv == IInv /\ StagePage => IInv'
<1> SUFFICES ASSUME IInv, StagePage PROVE IInv'
  OBVIOUS
<1> DEFINE p == request.page
<1>1. /\ request \in Request /\ request # NoWrite /\ EndOf(request) <= MaxSize
      /\ p \in 0 .. MaxSize /\ FirstPage(request) <= p /\ p <= LastPage(request)
      /\ TypeOK /\ BaseWithinFile
  BY DEF IInv, TypeOK, StagedPagesMatch, StagePage, Request
<1>2. /\ p \in Page /\ p \in Nat /\ LastPage(request) \in Page /\ FirstPage(request) \in Page
      /\ p + 1 \in 0 .. MaxSize
  <2>1. /\ LastPage(request) \in Page /\ FirstPage(request) \in Page
        /\ LastPage(request) \in Nat /\ LastPage(request) + 1 <= MaxSize
    BY <1>1, RequestRange, PagePosition
  <2>2. p \in Nat /\ p + 1 \in 0 .. MaxSize
    BY <2>1, <1>1, SizeAssumption
  <2>3. PageOf(MaxSize - 1) \in Nat
    BY SizeAssumption, DivBounds
  <2>4. p \in Page
    BY <2>1, <2>2, <2>3, <1>1 DEF Page
  <2>5. QED
    BY <2>1, <2>2, <2>4
<1>3. UNCHANGED <<size, baseLimit, dirty, buf>> /\ request' = [request EXCEPT !.page = p + 1]
  BY DEF StagePage, node
<1>4. /\ request' \in Request /\ EndOf(request') = EndOf(request)
      /\ request'.offset = request.offset /\ request'.input = request.input
      /\ request'.page = p + 1
      /\ FirstPage(request') = FirstPage(request) /\ LastPage(request') = LastPage(request)
  BY <1>1, <1>2, <1>3 DEF Request, EndOf, FirstPage, LastPage
<1>5. BaseWithinFile' /\ TailIsZero' /\ NoPageBeyondEnd'
  BY <1>3 DEF IInv, BaseWithinFile, TailIsZero, NoPageBeyondEnd
<1>6. \A i \in Position : /\ PageOf(i)' = PageOf(i) /\ ByteAt(i)' = ByteAt(i)
                          /\ (Covers(request', i) <=> Covers(request, i))
  BY <1>3, <1>4 DEF PageOf, ByteAt, Covers
<1>7. CASE p \in dirty
  <2>1. UNCHANGED <<staged, stage>>
    BY <1>7 DEF StagePage
  <2>2. TypeOK'
    BY <2>1, <1>3, <1>4 DEF IInv, TypeOK
  <2>3. \A q \in Page : q >= FirstPage(request) /\ q < p + 1 => q \in dirty \cup staged
    BY <1>1, <1>2, <1>7, PagePosition DEF IInv, StagedPagesMatch
  <2>4. StagedPagesMatch'
    BY <2>1, <2>3, <1>1, <1>2, <1>3, <1>4, <1>6, NoWriteAssumption, PagePosition
    DEF IInv, StagedPagesMatch, TypeOK
  <2>5. QED
    BY <2>2, <2>4, <1>5 DEF IInv
<1>8. CASE p \notin dirty
  <2>1. /\ staged' = staged \cup {p}
        /\ stage' = [i \in Position |-> IF PageOf(i) = p THEN StagedByte(request, p, i)
                                        ELSE stage[i]]
    BY <1>8 DEF StagePage
  <2>2. \A i \in Position : PageOf(i) = p =>
           /\ stage'[i] \in Byte
           /\ Covers(request, i) \/ stage'[i] = ByteAt(i)
    BY <2>1, <1>1, <1>8, StagedByteCorrect
  <2>3. \A i \in Position : PageOf(i) # p => stage'[i] = stage[i] /\ stage[i] \in Byte
    BY <2>1, <1>1 DEF TypeOK
  <2>4. TypeOK'
    <3>1. stage' \in [Position -> Byte]
      BY <2>1, <2>2, <2>3
    <3>2. staged' \subseteq Page
      BY <2>1, <1>1, <1>2 DEF TypeOK
    <3>3. QED
      BY <3>1, <3>2, <1>3, <1>4 DEF IInv, TypeOK
  <2>5. \A q \in Page : q >= FirstPage(request) /\ q < p + 1 => q \in dirty \cup staged'
    BY <2>1, <1>1, <1>2, PagePosition DEF IInv, StagedPagesMatch
  <2>6. \A q \in staged' : q >= FirstPage(request) /\ q < p + 1
    BY <2>1, <1>1, <1>2, PagePosition DEF IInv, StagedPagesMatch, TypeOK
  <2>7. staged' \cap dirty = {}
    BY <2>1, <1>1, <1>8 DEF IInv, StagedPagesMatch
  <2>8. \A i \in Position : PageOf(i) \in staged' => Covers(request, i) \/ stage'[i] = ByteAt(i)
    BY <2>1, <2>2, <2>3, <1>1 DEF IInv, StagedPagesMatch
  <2>9. StagedPagesMatch'
    BY <2>5, <2>6, <2>7, <2>8, <1>1, <1>2, <1>3, <1>4, <1>6, NoWriteAssumption, PagePosition
    DEF StagedPagesMatch
  <2>10. QED
    BY <2>4, <2>9, <1>5 DEF IInv
<1>9. QED
  BY <1>7, <1>8

LEMMA HydrationFailsIInv == IInv /\ HydrationFails => IInv'
<1> SUFFICES ASSUME IInv, HydrationFails PROVE IInv'
  OBVIOUS
<1>1. UNCHANGED <<size, baseLimit, dirty, buf>> /\ request' = NoWrite /\ staged' = {}
      /\ stage' = NoPages
  BY DEF HydrationFails, EndWrite, node
<1>2. NoPages \in [Position -> Byte]
  BY ByteAssumption DEF NoPages
<1>3. QED
  BY <1>1, <1>2
  DEF IInv, TypeOK, BaseWithinFile, TailIsZero, NoPageBeyondEnd, StagedPagesMatch

\* What a commit does, position by position.
LEMMA CommitBytes ==
  ASSUME IInv, CommitWrite
  PROVE  /\ request \in Request /\ EndOf(request) \in Nat /\ EndOf(request) <= MaxSize
         /\ size \in Nat /\ size' \in Nat /\ size <= size' /\ EndOf(request) <= size'
         /\ \A i \in Position : Covers(request, i) =>
               /\ PageOf(i) \in dirty'
               /\ buf'[i] = request.input[i - request.offset + 1]
               /\ buf'[i] \in Byte
         /\ \A i \in Position : ~Covers(request, i) =>
               /\ buf'[i] \in Byte
               /\ PageOf(i) \in dirty' => buf'[i] = ByteAt(i)
<1>1. /\ request \in Request /\ EndOf(request) <= MaxSize /\ TypeOK /\ BaseWithinFile
      /\ request # NoWrite /\ LastPage(request) < request.page /\ request.page \in Nat
  BY SizeAssumption DEF IInv, TypeOK, StagedPagesMatch, CommitWrite, AllStaged, Request
<1>2. /\ dirty' = dirty \cup staged
      /\ size' = IF EndOf(request) > size THEN EndOf(request) ELSE size
      /\ buf' = [i \in Position |->
                  IF Covers(request, i) THEN request.input[i - request.offset + 1]
                  ELSE IF PageOf(i) \in staged THEN stage[i]
                  ELSE buf[i]]
  BY DEF CommitWrite
<1>3. /\ EndOf(request) \in Nat /\ size \in Nat /\ size' \in Nat
      /\ size <= size' /\ EndOf(request) <= size'
  BY <1>1, <1>2, RequestRange, SizeAssumption DEF TypeOK
<1>4. ASSUME NEW i \in Position, Covers(request, i)
      PROVE  /\ PageOf(i) \in dirty'
             /\ buf'[i] = request.input[i - request.offset + 1]
             /\ buf'[i] \in Byte
  <2>1. /\ FirstPage(request) <= PageOf(i) /\ PageOf(i) <= LastPage(request)
        /\ request.input[i - request.offset + 1] \in Byte
        /\ PageOf(i) \in Page /\ PageOf(i) \in Nat
        /\ FirstPage(request) \in Nat /\ LastPage(request) \in Nat
    BY <1>1, <1>4, RequestRange, PagePosition
  <2>2. PageOf(i) >= FirstPage(request) /\ PageOf(i) < request.page
    BY <2>1, <1>1
  <2>3. PageOf(i) \in dirty \cup staged
    BY <2>1, <2>2, <1>1 DEF IInv, StagedPagesMatch
  <2>4. QED
    BY <2>1, <2>3, <1>2, <1>4
<1>5. ASSUME NEW i \in Position, ~Covers(request, i)
      PROVE  /\ buf'[i] \in Byte
             /\ PageOf(i) \in dirty' => buf'[i] = ByteAt(i)
  <2>1. CASE PageOf(i) \in staged
    BY <2>1, <1>1, <1>2, <1>5 DEF IInv, StagedPagesMatch, TypeOK
  <2>2. CASE PageOf(i) \notin staged
    BY <2>2, <1>1, <1>2, <1>5 DEF TypeOK, ByteAt
  <2>3. QED
    BY <2>1, <2>2
<1>6. QED
  BY <1>1, <1>3, <1>4, <1>5

\* Beyond the end of the file there is nothing to see.
LEMMA ZeroBeyondEnd ==
  ASSUME IInv, NEW i \in Position, i >= size
  PROVE  ByteAt(i) = Zero
<1>1. ~(i < baseLimit)
  BY SizeAssumption, PagePosition DEF IInv, TypeOK, BaseWithinFile
<1>2. QED
  BY <1>1 DEF IInv, TailIsZero, ByteAt

LEMMA CommitWriteIInv == IInv /\ CommitWrite => IInv'
<1> SUFFICES ASSUME IInv, CommitWrite PROVE IInv'
  OBVIOUS
<1>1. /\ dirty' = dirty \cup staged /\ baseLimit' = baseLimit
      /\ size' = IF EndOf(request) > size THEN EndOf(request) ELSE size
      /\ request' = NoWrite /\ staged' = {} /\ stage' = NoPages
      /\ buf' = [i \in Position |-> buf'[i]]
  BY DEF CommitWrite, EndWrite
<1>2. NoPages \in [Position -> Byte]
  BY ByteAssumption DEF NoPages
<1>3. TypeOK'
  <2>1. size' \in 0 .. MaxSize
    BY <1>1, CommitBytes, SizeAssumption DEF IInv, TypeOK
  <2>2. buf' \in [Position -> Byte]
    BY <1>1, CommitBytes
  <2>3. QED
    BY <2>1, <2>2, <1>1, <1>2 DEF IInv, TypeOK
<1>4. BaseWithinFile'
  BY <1>1, CommitBytes, SizeAssumption DEF IInv, TypeOK, BaseWithinFile
<1>5. TailIsZero'
  <2> SUFFICES ASSUME NEW i \in Position, i >= size', PageOf(i) \in dirty'
               PROVE  buf'[i] = Zero
    BY DEF TailIsZero, PageOf
  <2>1. i \in Nat /\ i >= size /\ ~Covers(request, i)
    BY CommitBytes, PagePosition DEF Covers
  <2>2. QED
    BY <2>1, CommitBytes, ZeroBeyondEnd
<1>6. NoPageBeyondEnd'
  <2> SUFFICES ASSUME NEW p \in dirty' PROVE p * PageSize < size'
    BY DEF NoPageBeyondEnd
  <2>1. size \in Nat /\ size' \in Nat /\ size <= size' /\ EndOf(request) <= size'
        /\ EndOf(request) \in Nat
    BY CommitBytes
  <2>2. CASE p \in dirty
    <3>1. p * PageSize < size /\ p * PageSize \in Nat
      BY <2>2, PagePosition DEF IInv, TypeOK, NoPageBeyondEnd
    <3>2. QED
      BY <2>1, <3>1
  <2>3. CASE p \in staged
    <3>1. /\ p \in Nat /\ p * PageSize \in Nat /\ LastPage(request) \in Nat
          /\ EndOf(request) - 1 \in Nat /\ request \in Request
      BY <2>3, CommitBytes, RequestRange, PagePosition DEF IInv, TypeOK
    <3>2. p <= LastPage(request)
      <4>1. request.page \in Nat /\ request.page <= LastPage(request) + 1 /\ p < request.page
        BY <2>3, SizeAssumption DEF IInv, StagedPagesMatch, CommitWrite, TypeOK, Request
      <4>2. QED
        BY <4>1, <3>1
    <3>3. ~(EndOf(request) - 1 < p * PageSize)
      BY <3>1, <3>2, DivLess DEF LastPage
    <3>4. QED
      BY <3>1, <3>3, <2>1
  <2>4. QED
    BY <2>2, <2>3, <1>1
<1>7. StagedPagesMatch'
  BY <1>1 DEF StagedPagesMatch
<1>8. QED
  BY <1>3, <1>4, <1>5, <1>6, <1>7 DEF IInv

\* The pages a truncation keeps are those that start below the new end, and the
\* only kept page that reaches beyond it is the page the end falls in.
LEMMA FirstRemovedCorrect ==
  ASSUME NEW n \in Nat, NEW p \in Nat
  PROVE  /\ p < FirstRemoved(n) <=> p * PageSize < n
         /\ \A i \in Nat : i >= n /\ PageOf(i) = p /\ p < FirstRemoved(n) => PageOf(n) = p
         /\ \A i \in Nat : i < n => PageOf(i) < FirstRemoved(n)
<1> DEFINE q == PageOf(n)
<1>1. /\ q \in Nat /\ q * PageSize \in Nat /\ p * PageSize \in Nat
      /\ q * PageSize <= n /\ n < q * PageSize + PageSize
      /\ n % PageSize = n - q * PageSize
  <2>1. p * PageSize \in Nat
    BY PageSizeAssumption
  <2>2. \A k \in Nat : k * PageSize \in Nat
    BY PageSizeAssumption
  <2>3. QED
    BY <2>1, <2>2, DivBounds
<1>2. FirstRemoved(n) = IF q * PageSize < n THEN q + 1 ELSE q
  BY <1>1 DEF FirstRemoved
<1>3. p < q <=> ~(n < (p + 1) * PageSize)
  BY <1>1, DivLess
<1>4. (p + 1) * PageSize = p * PageSize + PageSize
  BY PageSizeAssumption
<1>5. p < FirstRemoved(n) <=> p * PageSize < n
  <2>1. CASE p < q
    BY <2>1, <1>1, <1>2, <1>3, <1>4, PageSizeAssumption
  <2>2. CASE p = q
    BY <2>2, <1>1, <1>2
  <2>3. CASE p > q
    <3>1. n < p * PageSize
      BY <2>3, <1>1, DivLess
    <3>2. QED
      BY <2>3, <3>1, <1>1, <1>2
  <2>4. QED
    BY <2>1, <2>2, <2>3, <1>1
<1>6. \A i \in Nat : (i >= n => q <= PageOf(i)) /\ (i < n => PageOf(i) <= q)
  BY DivMono
<1>7. \A i \in Nat : i >= n /\ PageOf(i) = p /\ p < FirstRemoved(n) => q = p
  BY <1>1, <1>2, <1>6
<1>8. ASSUME NEW i \in Nat, i < n PROVE PageOf(i) < FirstRemoved(n)
  BY <1>1, <1>2, <1>6, <1>8, DivBounds
<1>9. QED
  BY <1>5, <1>7, <1>8

\* What a resize leaves of the file, position by position.
LEMMA ResizeBytes ==
  ASSUME IInv, NEW newSize \in 0 .. MaxSize, Resize(newSize)
  PROVE  /\ newSize \in Nat /\ size \in Nat /\ size' = newSize
         /\ baseLimit' = Smaller(baseLimit, newSize)
         /\ dirty' = {p \in dirty : p * PageSize < newSize}
         /\ buf' \in [Position -> Byte]
         /\ \A i \in Position : i < newSize /\ PageOf(i) \in dirty =>
               PageOf(i) \in dirty' /\ buf'[i] = buf[i]
         /\ \A i \in Position : i >= newSize /\ PageOf(i) \in dirty' => buf'[i] = Zero
<1>1. /\ newSize \in Nat /\ size \in Nat /\ size' = newSize
      /\ baseLimit \in Nat /\ baseLimit <= size
      /\ buf \in [Position -> Byte] /\ dirty \subseteq Page
  BY SizeAssumption DEF IInv, TypeOK, BaseWithinFile, Resize
<1>2. CASE newSize < size
  <2>1. /\ baseLimit' = Smaller(baseLimit, newSize)
        /\ dirty' = {p \in dirty : p < FirstRemoved(newSize)}
        /\ buf' = [i \in Position |->
                      IF \/ PageOf(i) \notin dirty'
                         \/ PageOf(i) = PageOf(newSize) /\ i >= newSize
                      THEN Zero ELSE buf[i]]
    BY <1>2 DEF Resize, LimitAfter, InCutTail
  <2>2. dirty' = {p \in dirty : p * PageSize < newSize}
    BY <2>1, <1>1, FirstRemovedCorrect, PagePosition
  <2>3. buf' \in [Position -> Byte]
    BY <2>1, <1>1, ByteAssumption
  <2>4. ASSUME NEW i \in Position, i < newSize, PageOf(i) \in dirty
        PROVE  PageOf(i) \in dirty' /\ buf'[i] = buf[i]
    BY <2>1, <2>4, <1>1, FirstRemovedCorrect, PagePosition
  <2>5. ASSUME NEW i \in Position, i >= newSize, PageOf(i) \in dirty'
        PROVE  buf'[i] = Zero
    BY <2>1, <2>5, <1>1, FirstRemovedCorrect, PagePosition
  <2>6. QED
    BY <2>1, <2>2, <2>3, <2>4, <2>5, <1>1
<1>3. CASE ~(newSize < size)
  <2>1. UNCHANGED <<baseLimit, dirty, buf>>
    BY <1>3 DEF Resize
  <2>2. baseLimit = Smaller(baseLimit, newSize)
    BY <1>1, <1>3 DEF Smaller
  <2>3. \A p \in dirty : p * PageSize < newSize
    BY <1>1, <1>3, PagePosition DEF IInv, NoPageBeyondEnd
  <2>4. \A i \in Position : i >= newSize /\ PageOf(i) \in dirty => buf[i] = Zero
    BY <1>1, <1>3, PagePosition DEF IInv, TailIsZero
  <2>5. QED
    BY <2>1, <2>2, <2>3, <2>4, <1>1
<1>4. QED
  BY <1>2, <1>3

LEMMA ResizeIInv ==
  ASSUME IInv, NEW newSize \in 0 .. MaxSize, Resize(newSize)
  PROVE  IInv'
<1>1. /\ UNCHANGED <<request, staged, stage>> /\ request = NoWrite
      /\ size' = newSize /\ baseLimit' = Smaller(baseLimit, newSize)
      /\ dirty' = {p \in dirty : p * PageSize < newSize}
  BY ResizeBytes DEF Resize
<1>2. TypeOK' /\ BaseWithinFile'
  BY <1>1, ResizeBytes, SizeAssumption DEF IInv, TypeOK, BaseWithinFile, Smaller
<1>3. TailIsZero'
  BY <1>1, ResizeBytes DEF TailIsZero, PageOf
<1>4. NoPageBeyondEnd' /\ StagedPagesMatch'
  BY <1>1 DEF NoPageBeyondEnd, StagedPagesMatch, IInv
<1>5. QED
  BY <1>2, <1>3, <1>4 DEF IInv

\* Type correctness and every invariant of the file, in all behaviours.
THEOREM FileInvariant == Spec => []IInv
<1>1. IInv /\ [Next]_vars => IInv'
  <2> SUFFICES ASSUME IInv, [Next]_vars PROVE IInv'
    OBVIOUS
  <2>1. ASSUME NEW offset \in 0 .. MaxSize, NEW input \in Inputs, BeginWrite(offset, input)
        PROVE  IInv'
    BY <2>1, BeginWriteIInv
  <2>2. CASE StagePage
    BY <2>2, StagePageIInv
  <2>3. CASE HydrationFails
    BY <2>3, HydrationFailsIInv
  <2>4. CASE CommitWrite
    BY <2>4, CommitWriteIInv
  <2>5. ASSUME NEW newSize \in 0 .. MaxSize, Resize(newSize)
        PROVE  IInv'
    BY <2>5, ResizeIInv
  <2>6. CASE UNCHANGED vars
    BY <2>6 DEF vars, IInv, TypeOK, BaseWithinFile, TailIsZero, NoPageBeyondEnd,
                StagedPagesMatch, ByteAt
  <2>7. QED
    BY <2>1, <2>2, <2>3, <2>4, <2>5, <2>6 DEF Next
<1>2. QED
  BY <1>1, InitIInv, PTL DEF Spec

\* The variables of the file always have their types.
THEOREM TypeCorrect == Spec => []TypeOK
BY FileInvariant, PTL DEF IInv

\* A truncated file never shows its old bytes again: neither those of the
\* archive nor those of a dirty page survive beyond the end, and the pages
\* wholly beyond it are given back.
THEOREM TruncationForgets == Spec => []NothingSurvivesTruncation
BY FileInvariant, PTL DEF IInv, NothingSurvivesTruncation

\* A write publishes all of its pages or none.
THEOREM WritesAreAtomic == Spec => PagesCommitTogether
<1>1. ASSUME IInv, [Next]_vars
      PROVE  [\A p \in dirty' \ dirty :
                 /\ request # NoWrite
                 /\ \A q \in FirstPage(request) .. LastPage(request) : q \in dirty']_vars
  <2>1. CASE CommitWrite
    <3>1. /\ request \in Request /\ request # NoWrite /\ EndOf(request) <= MaxSize
          /\ LastPage(request) < request.page /\ request.page \in Nat
          /\ dirty' = dirty \cup staged
      <4>1. request \in Request /\ EndOf(request) <= MaxSize
        BY <1>1, <2>1, CommitBytes
      <4>2. QED
        BY <4>1, <2>1, SizeAssumption DEF CommitWrite, AllStaged, Request
    <3>2. ASSUME NEW q \in FirstPage(request) .. LastPage(request) PROVE q \in dirty'
      <4>1. /\ FirstPage(request) \in Nat /\ LastPage(request) \in Nat
            /\ LastPage(request) <= PageOf(MaxSize - 1) /\ PageOf(MaxSize - 1) \in Nat
        BY <3>1, RequestRange, PagePosition, SizeAssumption, DivBounds DEF Page
      <4>2. q \in Page /\ q >= FirstPage(request) /\ q < request.page
        BY <4>1, <3>1 DEF Page
      <4>3. QED
        BY <4>2, <3>1, <1>1 DEF IInv, StagedPagesMatch
    <3>3. QED
      BY <3>1, <3>2
  <2>2. ASSUME NEW newSize \in 0 .. MaxSize, Resize(newSize) PROVE dirty' \subseteq dirty
    BY <2>2, <1>1, ResizeBytes
  <2>3. CASE UNCHANGED dirty
    BY <2>3
  <2>4. QED
    BY <1>1, <2>1, <2>2, <2>3 DEF Next, BeginWrite, StagePage, HydrationFails, vars, node
<1>2. QED
  BY <1>1, FileInvariant, PTL DEF Spec, PagesCommitTogether

-----------------------------------------------------------------------------
(***************************************************************************)
(* The paged file implements the plain one.                                *)
(***************************************************************************)

\* The file starts as the archive file.
LEMMA InitRefines == Init => Abstract!Init
<1> SUFFICES ASSUME Init PROVE Abstract!Init
  OBVIOUS
<1>1. BaseSize \in 0 .. MaxSize /\ DOMAIN Base = 0 .. BaseSize - 1
      /\ Base \in [0 .. BaseSize - 1 -> Byte]
  BY SizeAssumption, ByteAssumption
<1>2. \A i \in 0 .. BaseSize - 1 : ByteAt(i) = Base[i]
  BY <1>1, SizeAssumption DEF Init, ByteAt
<1>3. View = [i \in 0 .. BaseSize - 1 |-> Base[i]]
  BY <1>2 DEF View, Init
<1>4. View = Base
  BY <1>1, <1>3
<1>5. QED
  BY <1>1, <1>4 DEF Abstract!Init, Init

\* Committing a write is the abstract write of the request.
LEMMA CommitRefines ==
  ASSUME IInv, CommitWrite
  PROVE  Abstract!Next
<1> DEFINE r == request
<1>1. /\ r \in Request /\ r.offset \in 0 .. MaxSize /\ r.input \in Inputs
      /\ r.offset \in Nat /\ EndOf(r) \in Nat /\ EndOf(r) <= MaxSize
      /\ EndOf(r) = r.offset + Len(r.input)
      /\ size \in Nat /\ size <= MaxSize
  BY CommitBytes, RequestRange, SizeAssumption DEF Request, EndOf, IInv, TypeOK
<1>2. size' = Abstract!Larger(size, r.offset + Len(r.input))
  BY <1>1 DEF CommitWrite, Abstract!Larger
<1>3. PICK n \in 0 .. MaxSize : size' = n
  BY <1>1, SizeAssumption DEF CommitWrite
<1>4. ASSUME NEW i \in 0 .. n - 1
      PROVE  ByteAt(i)' = IF r.offset <= i /\ i < r.offset + Len(r.input)
                          THEN r.input[i - r.offset + 1]
                          ELSE IF i < size THEN View[i]
                          ELSE Zero
  <2>1. i \in Position /\ i \in Nat
    BY <1>3, SizeAssumption DEF Position
  <2>2. CASE Covers(r, i)
    <3>1. PageOf(i) \in dirty' /\ buf'[i] = r.input[i - r.offset + 1]
      BY <2>1, <2>2, CommitBytes
    <3>2. QED
      BY <3>1, <2>2, <1>1 DEF Covers, ByteAt, PageOf
  <2>3. CASE ~Covers(r, i)
    <3>1. ByteAt(i)' = ByteAt(i)
      <4>1. CASE PageOf(i) \in dirty'
        BY <4>1, <2>1, <2>3, CommitBytes DEF ByteAt, PageOf
      <4>2. CASE PageOf(i) \notin dirty'
        BY <4>2 DEF ByteAt, PageOf, CommitWrite
      <4>3. QED
        BY <4>1, <4>2
    <3>2. i < size => ByteAt(i) = View[i]
      BY <2>1, <1>1 DEF View
    <3>3. ~(i < size) => ByteAt(i) = Zero
      BY <2>1, <1>1, ZeroBeyondEnd
    <3>4. QED
      BY <3>1, <3>2, <3>3, <2>3, <1>1 DEF Covers
  <2>4. QED
    BY <2>2, <2>3
<1>5. View' = [i \in 0 .. size' - 1 |->
                 IF r.offset <= i /\ i < r.offset + Len(r.input)
                 THEN r.input[i - r.offset + 1]
                 ELSE IF i < size THEN View[i]
                 ELSE Zero]
  BY <1>3, <1>4 DEF View
<1>6. Abstract!Write(r.offset, r.input)
  BY <1>2, <1>5 DEF Abstract!Write
<1>7. QED
  BY <1>1, <1>6 DEF Abstract!Next

\* VirtualTree::resize is the abstract resize.
LEMMA ResizeRefines ==
  ASSUME IInv, NEW newSize \in 0 .. MaxSize, Resize(newSize)
  PROVE  Abstract!Next
<1>1. /\ size' = newSize /\ newSize \in Nat /\ size \in Nat /\ size <= MaxSize
      /\ newSize <= MaxSize /\ baseLimit' = Smaller(baseLimit, newSize)
      /\ baseLimit \in Nat /\ baseLimit <= size
      /\ dirty' = {p \in dirty : p * PageSize < newSize}
  BY ResizeBytes, SizeAssumption DEF IInv, TypeOK, BaseWithinFile
<1>2. ASSUME NEW i \in 0 .. newSize - 1
      PROVE  ByteAt(i)' = IF i < size THEN View[i] ELSE Zero
  <2>1. i \in Position /\ i \in Nat /\ i < newSize
    BY <1>1, SizeAssumption DEF Position
  <2>2. ByteAt(i)' = ByteAt(i)
    <3>1. CASE PageOf(i) \in dirty
      <4>1. PageOf(i) \in dirty' /\ buf'[i] = buf[i]
        BY <3>1, <2>1, ResizeBytes
      <4>2. QED
        BY <4>1, <3>1 DEF ByteAt, PageOf
    <3>2. CASE PageOf(i) \notin dirty
      <4>1. PageOf(i) \notin dirty' /\ (i < baseLimit' <=> i < baseLimit)
        BY <3>2, <2>1, <1>1 DEF Smaller
      <4>2. QED
        BY <4>1, <3>2 DEF ByteAt, PageOf
    <3>3. QED
      BY <3>1, <3>2
  <2>3. i < size => ByteAt(i) = View[i]
    BY <2>1, <1>1 DEF View
  <2>4. ~(i < size) => ByteAt(i) = Zero
    BY <2>1, <1>1, ZeroBeyondEnd
  <2>5. QED
    BY <2>2, <2>3, <2>4
<1>3. View' = [i \in 0 .. newSize - 1 |-> IF i < size THEN View[i] ELSE Zero]
  BY <1>1, <1>2 DEF View
<1>4. Abstract!Resize(newSize)
  BY <1>1, <1>3 DEF Abstract!Resize
<1>5. QED
  BY <1>4 DEF Abstract!Next

\* Every step of the paged file is a step of the plain file or invisible.
LEMMA StepRefines == IInv /\ [Next]_vars => [Abstract!Next]_(Abstract!vars)
<1> SUFFICES ASSUME IInv, [Next]_vars PROVE [Abstract!Next]_(Abstract!vars)
  OBVIOUS
<1>1. CASE UNCHANGED node
  BY <1>1 DEF node, Abstract!vars, View, ByteAt, PageOf
<1>2. CASE CommitWrite
  BY <1>2, CommitRefines
<1>3. ASSUME NEW newSize \in 0 .. MaxSize, Resize(newSize)
      PROVE  Abstract!Next
  BY <1>3, ResizeRefines
<1>4. QED
  BY <1>1, <1>2, <1>3 DEF Next, BeginWrite, StagePage, HydrationFails, vars, node

\* While a write is under way, its staged pages lie inside its range, and hold
\* the archive's bytes for as long as the file does: what is put into the file
\* by the commit was not overtaken by a resize between two stages.
THEOREM StagesStayValid == Spec => []StagedPagesMatch
<1>1. IInv => StagedPagesMatch
  BY DEF IInv
<1>2. QED
  BY <1>1, FileInvariant, PTL

\* Reads, writes and resizes of a copy-on-write file behave as those of a plain
\* file of bytes, for every page size and every archive file.
THEOREM FileRefinesByteFile == Spec => RefinesByteFile
<1>1. IInv /\ [Next]_vars => [Abstract!Next]_(Abstract!vars)
  BY StepRefines
<1>2. QED
  BY <1>1, InitRefines, FileInvariant, PTL DEF Spec, RefinesByteFile, Abstract!Spec

=============================================================================
