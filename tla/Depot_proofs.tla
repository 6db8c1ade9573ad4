---------------------------- MODULE Depot_proofs ----------------------------
(***************************************************************************)
(* Proofs about Depot, for every blob, table, manifest and DAT, for every  *)
(* set of threads that read and for blocks of any size.                    *)
(***************************************************************************)
EXTENDS Depot, Induction, FiniteSetTheorems, SequenceTheorems, TLAPS

-----------------------------------------------------------------------------
(***************************************************************************)
(* Blocks.  Block i of a file holds its positions from (i - 1) * BlockSize *)
(* up to BlockEnd.                                                         *)
(***************************************************************************)
LEMMA BlockSizeType == BlockSize \in Nat \ {0}
BY DataAssumption DEF Data!Assumptions

\* The order of blocks is that of their positions.
LEMMA BlockOrder ==
  ASSUME NEW i \in Nat, NEW j \in Nat
  PROVE  /\ i * BlockSize \in Nat
         /\ (i + 1) * BlockSize = i * BlockSize + BlockSize
         /\ i <= j => i * BlockSize <= j * BlockSize
         /\ i < j => i * BlockSize + BlockSize <= j * BlockSize
         /\ i * BlockSize < j * BlockSize + BlockSize => i <= j
<1>1. BlockSize \in Nat \ {0}
  BY BlockSizeType
<1>2. /\ i * BlockSize \in Nat
      /\ (i + 1) * BlockSize = i * BlockSize + BlockSize
  BY <1>1
<1>3. i <= j => i * BlockSize <= j * BlockSize
  BY <1>1, Z3
<1>4. i < j => i * BlockSize + BlockSize <= j * BlockSize
  BY <1>1, Z3
<1>5. j < i => j * BlockSize + BlockSize <= i * BlockSize
  BY <1>1, Z3
<1>6. i * BlockSize < j * BlockSize + BlockSize => i <= j
  <2> DEFINE x == i * BlockSize
             y == j * BlockSize
  <2>1. x \in Nat /\ y \in Nat /\ BlockSize \in Nat
    BY <1>1
  <2>2. j < i => y + BlockSize <= x
    BY <1>5
  <2> HIDE DEF x, y
  <2>3. x < y + BlockSize => i <= j
    BY <2>1, <2>2
  <2> QED
    BY <2>3 DEF x, y
<1> QED
  BY <1>2, <1>3, <1>4, <1>6

\* The block of a position, counted from 0.
LEMMA BlockOf ==
  ASSUME NEW k \in Nat
  PROVE  /\ k \div BlockSize \in Nat
         /\ (k \div BlockSize) * BlockSize <= k
         /\ k < (k \div BlockSize) * BlockSize + BlockSize
         /\ k % BlockSize = k - (k \div BlockSize) * BlockSize
BY BlockSizeType, Z3

\* There is no other: the division is decided by the bounds.
LEMMA BlockUnique ==
  ASSUME NEW k \in Nat, NEW q \in Nat, q * BlockSize <= k, k < q * BlockSize + BlockSize
  PROVE  k \div BlockSize = q /\ k % BlockSize = k - q * BlockSize
<1> DEFINE d == k \div BlockSize
<1>1. d \in Nat /\ d * BlockSize <= k /\ k < d * BlockSize + BlockSize
      /\ k % BlockSize = k - d * BlockSize
  BY BlockOf
<1>2. q * BlockSize \in Nat /\ d * BlockSize \in Nat /\ BlockSize \in Nat
  BY <1>1, BlockOrder, BlockSizeType
<1> HIDE DEF d
<1>3. d <= q /\ q <= d
  BY <1>1, <1>2, BlockOrder
<1>4. d = q
  BY <1>1, <1>3
<1> QED
  BY <1>1, <1>4 DEF d

\* The number of blocks of a file is what covers it exactly.
LEMMA BlockCount ==
  ASSUME NEW total \in Nat, NEW i \in Nat \ {0}
  PROVE  /\ Data!ExpectedBlocks(total) \in Nat
         /\ i <= Data!ExpectedBlocks(total) <=> (i - 1) * BlockSize < total
<1>1. CASE total = 0
  BY <1>1, BlockOrder DEF Data!ExpectedBlocks
<1>2. CASE total # 0
  <2> DEFINE d == (total - 1) \div BlockSize
  <2>1. total - 1 \in Nat /\ i - 1 \in Nat
    BY <1>2
  <2>2. d \in Nat /\ d * BlockSize <= total - 1 /\ total - 1 < d * BlockSize + BlockSize
    BY <2>1, BlockOf
  <2>3. Data!ExpectedBlocks(total) = 1 + d
    BY <1>2 DEF Data!ExpectedBlocks
  <2> HIDE DEF d
  <2>4. /\ (i - 1) * BlockSize \in Nat /\ d * BlockSize \in Nat /\ BlockSize \in Nat
        /\ i - 1 <= d => (i - 1) * BlockSize <= d * BlockSize
        /\ (i - 1) * BlockSize < d * BlockSize + BlockSize => i - 1 <= d
    BY <2>1, <2>2, BlockOrder, BlockSizeType
  <2> QED
    BY <1>2, <2>2, <2>3, <2>4
<1> QED
  BY <1>1, <1>2

-----------------------------------------------------------------------------
(***************************************************************************)
(* Tables.                                                                 *)
(***************************************************************************)
LEMMA BlockOffsetType ==
  ASSUME NEW item \in Data!ItemType, NEW i \in DOMAIN item.encoded
  PROVE  Data!BlockOffset(item, i) \in Nat
<1> DEFINE n == Len(item.encoded)
           step == [k \in 1 .. n |-> [x \in Nat |-> x + item.encoded[k]]]
           Walk(at) == at = [j \in 1 .. n + 1 |->
                                IF j = 1 THEN item.offset ELSE at[j - 1] + item.encoded[j - 1]]
           walk == CHOOSE at : Walk(at)
<1>1. /\ n \in Nat /\ i \in 1 .. n /\ item.offset \in Nat
      /\ \A k \in 1 .. n : item.encoded[k] \in Nat
  <2>1. item.offset \in Nat /\ item.encoded \in Seq(Nat)
    BY DataAssumption DEF Data!ItemType, Data!Assumptions
  <2> QED
    BY <2>1
<1>2. step \in [1 .. n -> [Nat -> Nat]]
  BY <1>1
<1>3. PICK g \in [0 .. n -> Nat] : Iterates(g, item.offset, step, n)
  <2> HIDE DEF step, n
  <2> QED
    BY <1>1, <1>2, IterationExists
<1> HIDE DEF n
<1> DEFINE h == [j \in 1 .. n + 1 |-> g[j - 1]]
<1>4. Walk(h)
  <2>1. ASSUME NEW j \in 1 .. n + 1
        PROVE  h[j] = IF j = 1 THEN item.offset ELSE h[j - 1] + item.encoded[j - 1]
    <3>1. CASE j = 1
      BY <3>1, <1>1, <1>3 DEF Iterates
    <3>2. CASE j # 1
      <4>1. j - 1 \in 1 .. n /\ (j - 1) - 1 \in 0 .. n /\ j - 1 \in 0 .. n /\ j - 1 \in 1 .. n + 1
            /\ j - 1 # 0
        BY <3>2, <1>1
      <4>2. g[j - 1] = step[j - 1][g[(j - 1) - 1]]
        <5> HIDE DEF step
        <5> QED
          BY <4>1, <1>3 DEF Iterates
      <4>3. g[(j - 1) - 1] \in Nat
        BY <4>1, <1>3
      <4>4. g[j - 1] = g[(j - 1) - 1] + item.encoded[j - 1]
        BY <4>1, <4>2, <4>3
      <4> QED
        BY <4>1, <4>4, <3>2
    <3> QED
      BY <3>1, <3>2
  <2> HIDE DEF step
  <2> QED
    BY <2>1
<1>5. Walk(walk)
  <2> HIDE DEF Walk
  <2> QED
    BY <1>4
<1>6. \A j \in 1 .. n + 1 : walk[j] \in Nat
  <2> DEFINE bad == {j \in 1 .. n + 1 : walk[j] \notin Nat}
  <2> SUFFICES ASSUME bad # {} PROVE FALSE
    OBVIOUS
  <2>1. PICK j \in bad : \A m \in bad : j <= m
    <3>1. bad \in SUBSET Nat
      BY <1>1
    <3> HIDE DEF bad
    <3> QED
      BY <3>1, NatLeast
  <2> HIDE DEF walk
  <2>2. j \in 1 .. n + 1 /\ walk[j] \notin Nat
    OBVIOUS
  <2>3. walk[j] = IF j = 1 THEN item.offset ELSE walk[j - 1] + item.encoded[j - 1]
    BY <1>5, <2>2
  <2>4. j # 1
    BY <2>2, <2>3, <1>1
  <2>5. j - 1 \in 1 .. n + 1 /\ j - 1 \in 1 .. n /\ j - 1 \notin bad
    BY <2>1, <2>2, <2>4, <1>1
  <2>6. walk[j - 1] \in Nat /\ item.encoded[j - 1] \in Nat
    BY <2>5, <1>1
  <2>7. walk[j] = walk[j - 1] + item.encoded[j - 1]
    BY <2>3, <2>4
  <2> HIDE DEF bad
  <2> QED
    BY <2>2, <2>6, <2>7
<1> QED
  BY <1>1, <1>6 DEF Data!BlockOffset, n

\* What is known of the mapping of a file.
Mapping(item) == item \in Data!ItemType /\ Data!ItemAccepted(item)

\* The blocks of a file that is not empty cover it exactly, and lie in the DAT.
LEMMA MappingFacts ==
  ASSUME NEW item, Mapping(item)
  PROVE  /\ item.size \in Nat /\ item.encoded \in Seq(Nat)
         /\ \A i \in DOMAIN item.encoded :
               /\ i \in Nat \ {0} /\ item.encoded[i] \in Nat
               /\ Data!BlockOffset(item, i) \in Nat
               /\ Data!BlockOffset(item, i) + item.encoded[i] <= Data!DatSize
         /\ item.size # 0 => \A i \in Nat \ {0} :
               i \in DOMAIN item.encoded <=> (i - 1) * BlockSize < item.size
<1>1. /\ item.size \in Nat /\ item.encoded \in Seq(Nat) /\ Len(item.encoded) \in Nat
      /\ \A i \in DOMAIN item.encoded : i \in Nat \ {0} /\ item.encoded[i] \in Nat
      /\ DOMAIN item.encoded = 1 .. Len(item.encoded)
  BY DataAssumption DEF Data!ItemType, Data!Assumptions, Mapping
<1>2. \A i \in DOMAIN item.encoded :
         /\ Data!BlockOffset(item, i) \in Nat
         /\ Data!BlockOffset(item, i) + item.encoded[i] <= Data!DatSize
  BY BlockOffsetType DEF Mapping, Data!ItemAccepted, Data!FitsDat
<1>3. ASSUME item.size # 0, NEW i \in Nat \ {0}
      PROVE  i \in DOMAIN item.encoded <=> (i - 1) * BlockSize < item.size
  <2>1. Len(item.encoded) = Data!ExpectedBlocks(item.size)
    BY <1>3 DEF Mapping, Data!ItemAccepted, Data!ZeroSizeMetadata
  <2>2. i \in DOMAIN item.encoded <=> i <= Len(item.encoded)
    BY <1>1, <1>3
  <2> QED
    BY <1>1, <1>3, <2>1, <2>2, BlockCount
<1> QED
  BY <1>1, <1>2, <1>3

\* A table that is accepted maps ids of 32 bits to such mappings.
LEMMA MappedType ==
  ASSUME NEW table \in Tables, Data!TableAccepted(table)
  PROVE  /\ DOMAIN Data!Mapped(table) \subseteq 0 .. MaxU32
         /\ \A id \in DOMAIN Data!Mapped(table) : Mapping(Data!Mapped(table)[id])
<1>1. table \in Data!TableType /\ MaxU32 \in Nat
  BY DataAssumption DEF Data!Assumptions
<1> DEFINE M == Data!Mapped(table)
<1> SUFFICES ASSUME NEW id \in DOMAIN M PROVE id \in 0 .. MaxU32 /\ Mapping(M[id])
  OBVIOUS
<1> DEFINE all == {table.runs[r] : r \in DOMAIN table.runs}
           run == CHOOSE x \in all : id \in Data!RunIds(x)
<1>2. id \in UNION {Data!RunIds(table.runs[r]) : r \in DOMAIN table.runs}
  BY DEF Data!Mapped
<1>3. run \in all /\ id \in Data!RunIds(run)
  <2>1. \E x \in all : id \in Data!RunIds(x)
    BY <1>2
  <2> HIDE DEF all
  <2> QED
    BY <2>1
<1>4. M[id] = run.items[id - run.start + 1]
  BY <1>2 DEF Data!Mapped
<1> HIDE DEF run, M
<1>5. PICK r \in DOMAIN table.runs : run = table.runs[r]
  BY <1>3
<1>6. run.start \in 0 .. MaxU32 /\ run.items \in Seq(Data!ItemType)
  <2> DEFINE Run == [start : 0 .. MaxU32, items : Seq(Data!ItemType)]
  <2>1. table.runs \in Seq(Run)
    BY <1>1 DEF Data!TableType
  <2>2. run \in Run
    <3> HIDE DEF all, Run
    <3> QED
      BY <2>1, <1>5
  <2> QED
    BY <2>2
<1>7. PICK i \in DOMAIN run.items : id = run.start + i - 1
  BY <1>3 DEF Data!RunIds
<1>8. i \in 1 .. Len(run.items) /\ Len(run.items) \in Nat /\ run.items # <<>>
  BY <1>6, <1>7
<1>9. id \in 0 .. MaxU32
  <2>1. run.start <= MaxU32 - (Len(run.items) - 1)
    BY <1>5, <1>8 DEF Data!TableAccepted, Data!IdsFit
  <2>2. /\ run.start \in Nat /\ Len(run.items) \in Nat /\ i \in Nat /\ MaxU32 \in Nat
        /\ 1 <= i /\ i <= Len(run.items) /\ id = run.start + i - 1
    BY <1>1, <1>6, <1>7, <1>8
  <2> HIDE DEF all
  <2>3. \A a, n, j, x \in Nat : a <= x - (n - 1) /\ 1 <= j /\ j <= n =>
                                     a + j - 1 \in Nat /\ a + j - 1 <= x
    OBVIOUS
  <2>4. run.start + i - 1 \in Nat /\ run.start + i - 1 <= MaxU32
    BY <2>1, <2>2, <2>3
  <2> QED
    BY <2>2, <2>4
<1>10. M[id] = run.items[i]
  <2>1. id - run.start + 1 = i
    BY <1>1, <1>6, <1>7, <1>8
  <2> QED
    BY <2>1, <1>4
<1>11. run.items[i] \in Data!TableItems(table)
  BY <1>5, <1>7 DEF Data!TableItems
<1>12. run.items[i] \in Data!ItemType
  BY <1>6, <1>7
<1> QED
  BY <1>9, <1>10, <1>11, <1>12 DEF Data!TableAccepted, Mapping

-----------------------------------------------------------------------------
(***************************************************************************)
(* The blocks of a request.                                                *)
(***************************************************************************)
LEMMA BlockBounds ==
  ASSUME NEW item, Mapping(item), item.size # 0, NEW i \in DOMAIN item.encoded
  PROVE  /\ i \in Nat \ {0} /\ (i - 1) * BlockSize \in Nat
         /\ Data!LogicalSize(item, i) \in Nat \ {0}
         /\ Data!BlockEnd(item, i) = (i - 1) * BlockSize + Data!LogicalSize(item, i)
         /\ Data!BlockEnd(item, i) <= item.size
         /\ Data!LogicalSize(item, i) <= BlockSize
         /\ Data!BlockEnd(item, i) < item.size => Data!LogicalSize(item, i) = BlockSize
<1> DEFINE s == (i - 1) * BlockSize
<1>1. /\ i \in Nat \ {0} /\ i - 1 \in Nat /\ BlockSize \in Nat \ {0} /\ item.size \in Nat
      /\ s < item.size
  <2>1. i \in Nat \ {0} /\ item.size \in Nat
    BY MappingFacts
  <2>2. s < item.size
    BY <2>1, MappingFacts
  <2> QED
    BY <2>1, <2>2, BlockSizeType
<1>2. s \in Nat
  BY <1>1, BlockOrder
<1>3. /\ Data!LogicalSize(item, i) = IF item.size - s < BlockSize THEN item.size - s ELSE BlockSize
      /\ Data!BlockEnd(item, i) = s + Data!LogicalSize(item, i)
  BY DEF Data!LogicalSize, Data!BlockEnd
<1> HIDE DEF s
<1> DEFINE l == Data!LogicalSize(item, i)
<1>4. l \in Nat \ {0} /\ l <= BlockSize /\ s + l <= item.size /\ (s + l < item.size => l = BlockSize)
  <2>1. l = IF item.size - s < BlockSize THEN item.size - s ELSE BlockSize
    BY <1>3
  <2> HIDE DEF l
  <2> QED
    BY <2>1, <1>1, <1>2
<1> QED
  BY <1>1, <1>2, <1>3, <1>4 DEF s

\* The blocks that are still to be read when all before p is.
Rest(item, p, end) == {i \in Data!BlocksIn(item, p, end) : p # end}

First(S) == CHOOSE i \in S : \A j \in S : i <= j

\* A set of numbers with a member has a least one.
LEMMA FirstType ==
  ASSUME NEW S \in SUBSET Nat, S # {}
  PROVE  First(S) \in S /\ \A j \in S : First(S) <= j
BY NatLeast DEF First

\* The first of them contains p, and what is to be read after it begins where
\* it ends.
LEMMA FirstBlock ==
  ASSUME NEW item, Mapping(item), NEW p \in Nat, NEW end \in Nat,
         p < end, end <= item.size
  PROVE  LET b == First(Rest(item, p, end))
             e == Data!Lesser(end, Data!BlockEnd(item, b))
         IN  /\ Rest(item, p, end) # {} /\ Rest(item, p, end) \in SUBSET Nat
             /\ b \in Rest(item, p, end) /\ b \in DOMAIN item.encoded
             /\ (b - 1) * BlockSize <= p /\ p < Data!BlockEnd(item, b)
             /\ e \in Nat /\ p < e /\ e <= end
             /\ e # end => e = b * BlockSize
             /\ Rest(item, p, end) \ {b} = Rest(item, e, end)
<1> DEFINE S == Rest(item, p, end)
           d == p \div BlockSize
           b == First(S)
           B(i) == Data!BlockEnd(item, i)
           e == Data!Lesser(end, B(b))
<1>1. item.size \in Nat /\ item.size # 0 /\ BlockSize \in Nat \ {0}
  BY MappingFacts, BlockSizeType
<1>2. \A i \in DOMAIN item.encoded :
         /\ i \in Nat \ {0} /\ (i - 1) * BlockSize \in Nat /\ i - 1 \in Nat
         /\ i * BlockSize = (i - 1) * BlockSize + BlockSize /\ i * BlockSize \in Nat
         /\ B(i) \in Nat /\ (i - 1) * BlockSize < B(i) /\ B(i) <= item.size
         /\ B(i) <= i * BlockSize
         /\ B(i) < item.size => B(i) = i * BlockSize
  <2> TAKE i \in DOMAIN item.encoded
  <2> DEFINE s == (i - 1) * BlockSize
             l == Data!LogicalSize(item, i)
  <2>1. /\ i \in Nat \ {0} /\ s \in Nat /\ l \in Nat \ {0} /\ B(i) = s + l /\ B(i) <= item.size
        /\ l <= BlockSize /\ (B(i) < item.size => l = BlockSize)
    BY <1>1, BlockBounds
  <2>2. i - 1 \in Nat /\ i = (i - 1) + 1
    BY <2>1
  <2>3. i * BlockSize = s + BlockSize
    BY <2>2, BlockOrder
  <2> HIDE DEF s, l, B
  <2>4. s + BlockSize \in Nat /\ s + l \in Nat
    BY <1>1, <2>1
  <2>5. /\ B(i) \in Nat /\ s < B(i) /\ B(i) <= s + BlockSize
        /\ B(i) < item.size => B(i) = s + BlockSize
    BY <1>1, <2>1
  <2> QED
    BY <2>1, <2>2, <2>3, <2>4, <2>5 DEF s
<1> HIDE DEF B
<1>3. S = {i \in DOMAIN item.encoded : B(i) > p /\ (i - 1) * BlockSize < end}
  BY DEF Rest, Data!BlocksIn, B
<1>4. S \in SUBSET Nat
  BY <1>2, <1>3
<1>5. /\ d \in Nat /\ d * BlockSize <= p /\ p < d * BlockSize + BlockSize
      /\ d * BlockSize \in Nat /\ (d + 1) * BlockSize = d * BlockSize + BlockSize
      /\ d + 1 \in Nat \ {0} /\ (d + 1) - 1 = d
  <2>1. d \in Nat /\ d * BlockSize <= p /\ p < d * BlockSize + BlockSize
    BY BlockOf
  <2> HIDE DEF d
  <2>2. d * BlockSize \in Nat /\ (d + 1) * BlockSize = d * BlockSize + BlockSize
    BY <2>1, BlockOrder
  <2>3. d + 1 \in Nat \ {0} /\ (d + 1) - 1 = d
    BY <2>1
  <2> QED
    BY <2>1, <2>2, <2>3
<1>6. d + 1 \in S
  <2>1. d + 1 \in DOMAIN item.encoded
    <3>1. \A i \in Nat \ {0} : i \in DOMAIN item.encoded <=> (i - 1) * BlockSize < item.size
      BY <1>1, MappingFacts
    <3> HIDE DEF d
    <3>2. d * BlockSize < item.size
      BY <1>1, <1>5
    <3> QED
      BY <1>5, <3>1, <3>2
  <2>2. B(d + 1) > p
    BY <1>1, <1>2, <1>5, <2>1
  <2> QED
    BY <1>3, <1>5, <2>1, <2>2
<1>7. b \in S /\ b <= d + 1 /\ \A j \in S : b <= j
  <2> HIDE DEF S, d
  <2> QED
    BY <1>4, <1>6, FirstType
<1> HIDE DEF S, d
<1> HIDE DEF b
<1>8. b \in DOMAIN item.encoded /\ b \in Nat \ {0} /\ p < B(b) /\ b - 1 \in Nat /\ B(b) \in Nat
  BY <1>2, <1>3, <1>7
<1>9. (b - 1) * BlockSize <= p
  <2>1. (b - 1) * BlockSize <= d * BlockSize /\ (b - 1) * BlockSize \in Nat
    BY <1>5, <1>7, <1>8, BlockOrder
  <2> QED
    BY <1>5, <2>1
<1>10. e \in Nat /\ p < e /\ e <= end /\ e <= B(b) /\ e \in {end, B(b)}
  BY <1>8 DEF Data!Lesser
<1>11. e # end => e = b * BlockSize
  BY <1>1, <1>2, <1>8, <1>10 DEF Data!Lesser
<1> HIDE DEF e
<1>12. S \ {b} = Rest(item, e, end)
  <2>1. Rest(item, e, end) = {i \in DOMAIN item.encoded : B(i) > e /\ (i - 1) * BlockSize < end /\ e # end}
    BY DEF Rest, Data!BlocksIn, B
  <2>2. ASSUME NEW i \in S, i # b PROVE i \in DOMAIN item.encoded /\ B(i) > e /\ (i - 1) * BlockSize < end /\ e # end
    <3>1. i \in DOMAIN item.encoded /\ (i - 1) * BlockSize < end /\ i \in Nat /\ b < i
      BY <1>2, <1>3, <1>4, <1>7, <1>8, <2>2
    <3>2. b * BlockSize <= (i - 1) * BlockSize
      BY <3>1, <1>2, <1>8, BlockOrder
    <3>3. B(b) <= b * BlockSize /\ b * BlockSize \in Nat /\ (i - 1) * BlockSize \in Nat
          /\ (i - 1) * BlockSize < B(i) /\ B(i) \in Nat
      BY <1>2, <1>8, <3>1
    <3> QED
      BY <3>1, <3>2, <3>3, <1>8, <1>10
  <2>3. ASSUME NEW i \in DOMAIN item.encoded, B(i) > e, (i - 1) * BlockSize < end, e # end
        PROVE  i \in S /\ i # b
    <3>1. e = B(b)
      BY <1>10, <2>3
    <3>2. B(i) \in Nat /\ B(i) > p
      BY <1>2, <1>10, <2>3
    <3> QED
      BY <3>1, <3>2, <1>3, <1>8, <2>3
  <2> QED
    BY <2>1, <2>2, <2>3
<1> QED
  BY <1>4, <1>6, <1>7, <1>8, <1>9, <1>10, <1>11, <1>12 DEF S, b, e, B

-----------------------------------------------------------------------------
(***************************************************************************)
(* The invariant of reading.                                               *)
(***************************************************************************)
Call == [pc : {"idle", "block", "lock", "seek", "read", "decode", "done", "failed"},
         id : Nat, offset : Nat, requested : Nat, todo : SUBSET Nat,
         encoded : Seq(Cell), output : Seq(Cell)]

\* The output of a call is what the file contains there.
Exact(c) ==
    \A k \in 1 .. Len(c.output) :
        c.output[k] = Data!PlainByte(mappings[c.id], c.offset + k - 1)

\* In the loop: what is read so far, and that the rest is to be done.
Reading(c) ==
    LET item == mappings[c.id]
        end == c.offset + c.requested
        p == c.offset + Len(c.output)
    IN  /\ c.requested # 0 /\ end <= item.size /\ p <= end
        /\ c.todo = Rest(item, p, end)
        /\ c.output = <<>> \/ p = end \/ \E q \in Nat : p = q * BlockSize
        /\ Exact(c)

\* The block that is being read, and its place in the DAT.
Current(c) == First(c.todo)
Width(c) == mappings[c.id].encoded[Current(c)]
Place(c) == Data!BlockOffset(mappings[c.id], Current(c))

HasCause(c) ==
    LET item == mappings[c.id]
    IN  \E i \in DOMAIN item.encoded :
            /\ Data!BlockEnd(item, i) > c.offset
            /\ (i - 1) * BlockSize < c.offset + c.requested
            /\ Data!Bad(item, i)

CallOK(c) ==
    /\ c \in Call
    /\ c.pc # "idle" => c.id \in DOMAIN mappings
    /\ c.pc \in {"block", "lock", "seek", "read", "decode"} => Reading(c)
    /\ c.pc \in {"lock", "seek", "read", "decode"} => c.todo # {} /\ Width(c) # 0
    /\ c.pc = "decode" => c.encoded = Data!Stored(Place(c), Width(c))
    /\ c.pc = "done" => Len(c.output) = c.requested /\ Exact(c)
    /\ c.pc = "failed" => HasCause(c)

MappingsOK ==
    /\ ~loaded => DOMAIN mappings = {}
    /\ DOMAIN mappings \subseteq 0 .. MaxU32
    /\ \A id \in DOMAIN mappings : Mapping(mappings[id])

\* Who is between the seek and the end of the read owns the stream.
StreamOK(r) ==
    /\ reader[r].pc \in {"seek", "read"} => owner = r
    /\ reader[r].pc = "read" => stream = [position |-> Place(reader[r]), good |-> TRUE]

DataInv ==
    /\ MappingsOK
    /\ length \in Nat
    /\ stream \in [position : Nat, good : BOOLEAN]
    /\ reader \in [Reader -> Call]
    /\ \A r \in Reader : CallOK(reader[r]) /\ StreamOK(r)

\* No call is there at the start.
LEMMA DataInit == Data!Init => DataInv
<1> SUFFICES ASSUME Data!Init PROVE DataInv
  OBVIOUS
<1>1. Data!Idle \in Call /\ Data!Idle.pc = "idle"
  BY DEF Data!Idle, Call
<1>2. MappingsOK
  BY DEF Data!Init, MappingsOK
<1>3. length \in Nat /\ stream \in [position : Nat, good : BOOLEAN]
  BY DataAssumption DEF Data!Init, Data!Assumptions, Data!DatSize
<1>4. reader \in [Reader -> Call] /\ \A r \in Reader : reader[r] = Data!Idle
  BY <1>1 DEF Data!Init
<1>5. \A r \in Reader : CallOK(reader[r]) /\ StreamOK(r)
  BY <1>1, <1>4 DEF CallOK, StreamOK
<1> QED
  BY <1>2, <1>3, <1>4, <1>5 DEF DataInv

\* Thread r goes on with the call c and keeps its hands off the stream, or owns
\* it.
LEMMA OneCall ==
  ASSUME DataInv, NEW r \in Reader, NEW c, CallOK(c),
         reader' = [reader EXCEPT ![r] = c],
         UNCHANGED <<mappings, loaded, length>>,
         stream' \in [position : Nat, good : BOOLEAN],
         \/ UNCHANGED <<stream, owner>>
         \/ owner = NoReader /\ UNCHANGED stream
         \/ owner = r,
         c.pc \in {"seek", "read"} => owner' = r,
         c.pc = "read" => stream' = [position |-> Place(c), good |-> TRUE]
  PROVE  DataInv'
<1>1. reader \in [Reader -> Call] /\ c \in Call
  BY DEF DataInv, CallOK
<1>2. reader' \in [Reader -> Call] /\ reader'[r] = c /\ \A s \in Reader \ {r} : reader'[s] = reader[s]
  BY <1>1
<1>3. mappings' = mappings /\ length' = length /\ loaded' = loaded
  OBVIOUS
<1>4. \A s \in Reader : CallOK(reader'[s])
  BY <1>2 DEF DataInv
<1>5. \A s \in Reader : CallOK(reader[s])'
  BY <1>3, <1>4 DEF CallOK, Reading, Exact, Width, Place, Current, HasCause, Data!Bad
<1>6. ASSUME NEW s \in Reader PROVE StreamOK(s)'
  <2>1. CASE s = r
    <3>1. /\ reader'[s].pc \in {"seek", "read"} => owner' = s
          /\ reader'[s].pc = "read" => stream' = [position |-> Place(c), good |-> TRUE]
      BY <1>2, <2>1
    <3>2. Place(c)' = Place(c)
      BY <1>3 DEF Place, Current
    <3>3. Place(reader[s])' = Place(c)
      BY <1>2, <1>3, <2>1 DEF Place, Current
    <3> QED
      BY <3>1, <3>3 DEF StreamOK
  <2>2. CASE s # r
    <3>1. reader'[s] = reader[s] /\ StreamOK(s) /\ s # NoReader
      BY <1>2, <2>2, DataAssumption DEF DataInv, Data!Assumptions
    <3>2. Place(reader[s])' = Place(reader[s])
      BY <1>3, <3>1 DEF Place, Current
    <3> QED
      BY <2>2, <3>1, <3>2 DEF StreamOK
  <2> QED
    BY <2>1, <2>2
<1>7. MappingsOK'
  BY <1>3 DEF DataInv, MappingsOK
<1> QED
  BY <1>2, <1>3, <1>5, <1>6, <1>7 DEF DataInv

-----------------------------------------------------------------------------
(***************************************************************************)
(* The steps of a read.                                                    *)
(***************************************************************************)
InLoop == {"block", "lock", "seek", "read", "decode"}

\* The block that a call is at contains the first position it has still to read.
LEMMA CurrentFacts ==
  ASSUME MappingsOK, NEW c, CallOK(c), c.pc \in InLoop, c.todo # {}
  PROVE  LET item == mappings[c.id]
             end == c.offset + c.requested
             p == c.offset + Len(c.output)
             b == Current(c)
             e == Data!Lesser(end, Data!BlockEnd(item, b))
         IN  /\ Mapping(item) /\ item.size # 0
             /\ p \in Nat /\ end \in Nat /\ p < end /\ end <= item.size
             /\ b \in DOMAIN item.encoded
             /\ (b - 1) * BlockSize <= p /\ p < Data!BlockEnd(item, b)
             /\ (b - 1) * BlockSize < end
             /\ e \in Nat /\ p < e /\ e <= end
             /\ e # end => e = b * BlockSize
             /\ c.todo \ {b} = Rest(item, e, end)
             /\ Width(c) \in Nat /\ Place(c) \in Nat /\ Place(c) + Width(c) <= Data!DatSize
<1> DEFINE item == mappings[c.id]
           end == c.offset + c.requested
           p == c.offset + Len(c.output)
<1>1. /\ c \in Call /\ Reading(c) /\ c.id \in DOMAIN mappings
  BY DEF CallOK, InLoop
<1>2. Mapping(item)
  BY <1>1 DEF MappingsOK
<1>3. c.offset \in Nat /\ c.requested \in Nat /\ c.output \in Seq(Cell)
  BY <1>1 DEF Call
<1>4. p \in Nat /\ end \in Nat /\ end <= item.size /\ p <= end /\ c.todo = Rest(item, p, end)
  BY <1>1, <1>3 DEF Reading
<1>5. p # end
  BY <1>4 DEF Rest
<1>6. p < end /\ item.size # 0
  <2>1. item.size \in Nat
    BY <1>2, MappingFacts
  <2> HIDE DEF p, end, item
  <2> QED
    BY <2>1, <1>4, <1>5
<1> HIDE DEF item, p, end
<1>7. Current(c) = First(Rest(item, p, end))
  BY <1>4 DEF Current
<1>8. LET b == Current(c)
          e == Data!Lesser(end, Data!BlockEnd(item, b))
      IN  /\ b \in Rest(item, p, end) /\ b \in DOMAIN item.encoded
          /\ (b - 1) * BlockSize <= p /\ p < Data!BlockEnd(item, b)
          /\ e \in Nat /\ p < e /\ e <= end
          /\ e # end => e = b * BlockSize
          /\ Rest(item, p, end) \ {b} = Rest(item, e, end)
  BY <1>2, <1>4, <1>6, <1>7, FirstBlock
<1>9. (Current(c) - 1) * BlockSize < end
  BY <1>8 DEF Rest, Data!BlocksIn
<1>10. Width(c) \in Nat /\ Place(c) \in Nat /\ Place(c) + Width(c) <= Data!DatSize
  BY <1>2, <1>8, MappingFacts DEF Width, Place, item
<1> QED
  BY <1>2, <1>4, <1>6, <1>8, <1>9, <1>10 DEF item, p, end

\* It fails at a block that is bad.
LEMMA CallFails ==
  ASSUME MappingsOK, NEW c, CallOK(c), c.pc \in InLoop, c.todo # {},
         Data!Bad(mappings[c.id], Current(c))
  PROVE  CallOK([c EXCEPT !.pc = "failed"])
<1> DEFINE x == [c EXCEPT !.pc = "failed"]
<1>1. c \in Call /\ c.id \in DOMAIN mappings
  BY DEF CallOK, InLoop
<1>2. /\ x \in Call /\ x.pc = "failed" /\ x.id = c.id /\ x.offset = c.offset
      /\ x.requested = c.requested
  BY <1>1 DEF Call
<1> HIDE DEF x
<1>3. Data!BlockEnd(mappings[c.id], Current(c)) > c.offset
  <2>1. c.offset \in Nat /\ Len(c.output) \in Nat
    BY <1>1 DEF Call
  <2>2. /\ c.offset + Len(c.output) < Data!BlockEnd(mappings[c.id], Current(c))
        /\ Current(c) \in DOMAIN mappings[c.id].encoded
        /\ Mapping(mappings[c.id]) /\ mappings[c.id].size # 0
    BY CurrentFacts
  <2>3. Data!BlockEnd(mappings[c.id], Current(c)) \in Nat
    BY <2>2, BlockBounds
  <2> QED
    BY <2>1, <2>2, <2>3
<1>4. HasCause(x)
  <2>1. /\ Current(c) \in DOMAIN mappings[c.id].encoded
        /\ (Current(c) - 1) * BlockSize < c.offset + c.requested
    BY CurrentFacts
  <2> QED
    BY <1>2, <1>3, <2>1 DEF HasCause
<1>5. CallOK(x)
  BY <1>1, <1>2, <1>4 DEF CallOK
<1> QED
  BY <1>5 DEF x

\* It goes on with the block it is at.
LEMMA CallGoesOn ==
  ASSUME NEW c, CallOK(c), c.pc \in InLoop, c.todo # {}, Width(c) # 0,
         NEW step \in {"lock", "seek", "read"}
  PROVE  CallOK([c EXCEPT !.pc = step]) /\ Place([c EXCEPT !.pc = step]) = Place(c)
<1> DEFINE x == [c EXCEPT !.pc = step]
<1>1. c \in Call /\ c.id \in DOMAIN mappings /\ Reading(c)
  BY DEF CallOK, InLoop
<1>2. /\ x \in Call /\ x.pc = step /\ x.id = c.id /\ x.offset = c.offset
      /\ x.requested = c.requested /\ x.todo = c.todo /\ x.output = c.output
  BY <1>1 DEF Call
<1> HIDE DEF x
<1>3. Reading(x) /\ Width(x) = Width(c) /\ Place(x) = Place(c)
  BY <1>1, <1>2 DEF Reading, Exact, Width, Place, Current
<1>4. CallOK(x)
  BY <1>1, <1>2, <1>3 DEF CallOK
<1> QED
  BY <1>3, <1>4 DEF x

\* The operators of ArchiveRead, said of the call alone.
LEMMA BlockIsCurrent ==
  ASSUME NEW r
  PROVE  /\ Data!Block(r) = Current(reader[r])
         /\ Data!Item(r) = mappings[reader[r].id]
         /\ Data!EncodedSize(r) = Width(reader[r])
BY DEF Data!Block, Data!Item, Data!EncodedSize, Current, First, Width

\* The guards of Begin are what a new call needs.
LEMMA BeginStep ==
  ASSUME DataInv, NEW r \in Reader, NEW id, NEW offset \in Nat, NEW count \in Nat,
         Data!Begin(r, id, offset, count)
  PROVE  DataInv'
<1> DEFINE item == mappings[id]
           requested == IF offset >= item.size THEN 0 ELSE Data!Lesser(count, item.size - offset)
           end == offset + requested
           blocks == Data!BlocksIn(item, offset, end)
           first == IF requested = 0 THEN "done" ELSE "block"
           c == [Data!Idle EXCEPT !.pc = first,
                                  !.id = id, !.offset = offset, !.requested = requested,
                                  !.todo = blocks]
<1>1. id \in DOMAIN mappings /\ Mapping(item) /\ id \in Nat /\ MappingsOK
  BY DataAssumption DEF Data!Begin, DataInv, MappingsOK, Data!Assumptions
<1>2. item.size \in Nat
  BY <1>1, MappingFacts
<1>3. requested \in Nat /\ (requested # 0 => end <= item.size) /\ end \in Nat
  BY <1>2 DEF Data!Lesser
<1>4. blocks \in SUBSET Nat
  BY <1>1, MappingFacts DEF Data!BlocksIn
<1>5. reader' = [reader EXCEPT ![r] = c] /\ UNCHANGED <<mappings, loaded, length, stream, owner>>
  BY DEF Data!Begin
<1>11. first \in {"done", "block"}
  OBVIOUS
<1> HIDE DEF item, requested, blocks, first
<1>6. /\ c \in Call /\ c.pc = first /\ c.id = id
      /\ c.offset = offset /\ c.requested = requested
      /\ c.todo = blocks /\ c.output = <<>>
  <2> DEFINE idle == Data!Idle
  <2>1. idle \in Call /\ idle.output = <<>>
    BY DEF Data!Idle, Call
  <2> HIDE DEF idle
  <2>2. c = [idle EXCEPT !.pc = first, !.id = id, !.offset = offset,
                         !.requested = requested, !.todo = blocks]
    BY DEF idle
  <2> HIDE DEF c
  <2> QED
    BY <1>1, <1>3, <1>4, <1>11, <2>1, <2>2 DEF Call
<1> HIDE DEF c
<1>7. Len(c.output) = 0 /\ Exact(c)
  BY <1>6 DEF Exact
<1>8. requested # 0 => Reading(c)
  <2> SUFFICES ASSUME requested # 0 PROVE Reading(c)
    OBVIOUS
  <2>1. c.offset + Len(c.output) = offset /\ c.offset + c.requested = end /\ offset # end
        /\ offset <= end
    BY <1>3, <1>6, <1>7
  <2>2. c.todo = Rest(item, offset, end)
    BY <1>6, <2>1 DEF Rest, blocks
  <2> HIDE DEF end
  <2> QED
    BY <1>3, <1>6, <1>7, <2>1, <2>2 DEF Reading, item
<1>9. CallOK(c)
  BY <1>1, <1>6, <1>7, <1>8 DEF CallOK, first
<1>10. c.pc \notin {"seek", "read"} /\ stream' \in [position : Nat, good : BOOLEAN]
  BY <1>5, <1>6 DEF DataInv, first
<1> QED
  BY <1>5, <1>9, <1>10, OneCall

\* TakeBlock either fails on an empty block, or goes on to the lock.
LEMMA TakeBlockStep ==
  ASSUME DataInv, NEW r \in Reader, Data!TakeBlock(r)
  PROVE  DataInv'
<1> DEFINE c == reader[r]
<1>1. /\ CallOK(c) /\ MappingsOK /\ c.pc = "block" /\ c.todo # {} /\ c.pc \in InLoop
      /\ UNCHANGED <<mappings, loaded, length, stream, owner>>
      /\ stream' \in [position : Nat, good : BOOLEAN]
  BY DEF DataInv, Data!TakeBlock, InLoop
<1>2. CASE Width(c) = 0
  <2>1. reader' = [reader EXCEPT ![r] = [c EXCEPT !.pc = "failed"]]
    BY <1>2, BlockIsCurrent DEF Data!TakeBlock, Data!Goto
  <2>2. CallOK([c EXCEPT !.pc = "failed"])
    BY <1>1, <1>2, CallFails DEF Data!Bad, Width
  <2>3. [c EXCEPT !.pc = "failed"].pc = "failed"
    BY <1>1 DEF CallOK, Call
  <2> QED
    BY <1>1, <2>1, <2>2, <2>3, OneCall
<1>3. CASE Width(c) # 0
  <2>1. reader' = [reader EXCEPT ![r] = [c EXCEPT !.pc = "lock"]]
    BY <1>3, BlockIsCurrent DEF Data!TakeBlock, Data!Goto
  <2>2. CallOK([c EXCEPT !.pc = "lock"])
    BY <1>1, <1>3, CallGoesOn
  <2>3. [c EXCEPT !.pc = "lock"].pc = "lock"
    BY <1>1 DEF CallOK, Call
  <2> QED
    BY <1>1, <2>1, <2>2, <2>3, OneCall
<1> QED
  BY <1>2, <1>3

\* A call without blocks left has all of its bytes.
LEMMA ReturnStep ==
  ASSUME DataInv, NEW r \in Reader, Data!Return(r)
  PROVE  DataInv'
<1> DEFINE c == reader[r]
           x == [c EXCEPT !.pc = "done"]
<1>1. /\ CallOK(c) /\ c.pc = "block" /\ c.todo = {} /\ c.id \in DOMAIN mappings
      /\ c \in Call /\ Reading(c) /\ Mapping(mappings[c.id])
      /\ UNCHANGED <<mappings, loaded, length, stream, owner>>
      /\ stream' \in [position : Nat, good : BOOLEAN]
  BY DEF DataInv, MappingsOK, CallOK, Data!Return
<1>2. Len(c.output) = c.requested
  <2> DEFINE p == c.offset + Len(c.output)
             end == c.offset + c.requested
  <2>1. c.offset \in Nat /\ c.requested \in Nat /\ Len(c.output) \in Nat
    BY <1>1 DEF Call
  <2> HIDE DEF c
  <2>2. p <= end /\ end <= mappings[c.id].size /\ Rest(mappings[c.id], p, end) = {}
    BY <1>1 DEF Reading
  <2>3. p \in Nat /\ end \in Nat
    BY <2>1
  <2>4. ~(p < end)
    BY <1>1, <2>2, <2>3, FirstBlock
  <2> QED
    BY <2>1, <2>2, <2>4
<1>3. reader' = [reader EXCEPT ![r] = x]
  BY <1>2 DEF Data!Return, Data!Goto
<1>4. /\ x \in Call /\ x.pc = "done" /\ x.id = c.id /\ x.offset = c.offset
      /\ x.requested = c.requested /\ x.output = c.output
  BY <1>1 DEF Call
<1> HIDE DEF x
<1>5. CallOK(x)
  BY <1>1, <1>2, <1>4 DEF CallOK, Reading, Exact
<1> QED
  BY <1>1, <1>3, <1>4, <1>5, OneCall

\* The mutex is free when it is taken.
LEMMA LockStep ==
  ASSUME DataInv, NEW r \in Reader, Data!Lock(r)
  PROVE  DataInv'
<1> DEFINE c == reader[r]
<1>1. /\ CallOK(c) /\ MappingsOK /\ c.pc = "lock" /\ c.todo # {} /\ c.pc \in InLoop /\ Width(c) # 0
      /\ UNCHANGED <<mappings, loaded, length, stream>>
      /\ stream' \in [position : Nat, good : BOOLEAN]
  BY DEF DataInv, CallOK, Data!Lock, InLoop
<1>2. ~Data!Outside(r)
  <2>1. Width(c) \in Nat /\ Place(c) \in Nat /\ Place(c) + Width(c) <= Data!DatSize
    BY <1>1, CurrentFacts
  <2>2. Data!DatSize \in Nat
    BY DataAssumption DEF Data!Assumptions, Data!DatSize
  <2>3. Data!Outside(r) <=> Place(c) + Width(c) > Data!DatSize
    BY BlockIsCurrent DEF Data!Outside, Place
  <2> QED
    BY <2>1, <2>2, <2>3
<1>3. owner = NoReader /\ owner' = r
  BY <1>2 DEF Data!Lock, Data!LockIsFree
<1>4. reader' = [reader EXCEPT ![r] = [c EXCEPT !.pc = "seek"]]
  BY <1>2 DEF Data!Lock, Data!Goto
<1>5. CallOK([c EXCEPT !.pc = "seek"])
  BY <1>1, CallGoesOn
<1>6. [c EXCEPT !.pc = "seek"].pc = "seek"
  BY <1>1 DEF CallOK, Call
<1> QED
  BY <1>1, <1>3, <1>4, <1>5, <1>6, OneCall

\* The owner of the mutex moves the stream, and no other call has placed it.
LEMMA SeekStep ==
  ASSUME DataInv, NEW r \in Reader, Data!Seek(r)
  PROVE  DataInv'
<1> DEFINE c == reader[r]
           x == [c EXCEPT !.pc = "read"]
<1>1. /\ CallOK(c) /\ MappingsOK /\ c.pc = "seek" /\ c.todo # {} /\ c.pc \in InLoop /\ Width(c) # 0
      /\ UNCHANGED <<mappings, loaded, length, owner>> /\ owner = r
  BY DEF DataInv, CallOK, StreamOK, Data!Seek, InLoop
<1>2. stream' = [position |-> Place(c), good |-> TRUE]
  BY BlockIsCurrent DEF Data!Seek, Data!ClearAndSeek, Place
<1>3. Place(c) \in Nat
  BY <1>1, CurrentFacts
<1>4. reader' = [reader EXCEPT ![r] = x]
  BY DEF Data!Seek, Data!Goto
<1>5. CallOK(x) /\ Place(x) = Place(c)
  BY <1>1, CallGoesOn
<1>6. stream' \in [position : Nat, good : BOOLEAN]
  BY <1>2, <1>3
<1> HIDE DEF x
<1> QED
  BY <1>1, <1>2, <1>4, <1>5, <1>6, OneCall

\* The bytes read are those of the block, as the stream is still where the owner
\* put it; a stream cut short fails and has a bad block.
LEMMA ReadStreamStep ==
  ASSUME DataInv, NEW r \in Reader, Data!ReadStream(r)
  PROVE  DataInv'
<1> DEFINE c == reader[r]
<1>1. /\ CallOK(c) /\ MappingsOK /\ c.pc = "read" /\ c.todo # {} /\ c.pc \in InLoop /\ Width(c) # 0
      /\ UNCHANGED <<mappings, loaded, length>> /\ owner = r
      /\ stream = [position |-> Place(c), good |-> TRUE]
      /\ c \in Call /\ Reading(c) /\ c.id \in DOMAIN mappings
      /\ length \in Nat
  BY DEF DataInv, CallOK, StreamOK, Data!ReadStream, InLoop
<1>2. Width(c) \in Nat /\ Place(c) \in Nat /\ Place(c) + Width(c) <= Data!DatSize
  BY <1>1, CurrentFacts
<1>3. CASE /\ reader' = [reader EXCEPT ![r].pc = "decode",
                                       ![r].encoded = Data!Stored(stream.position, Data!EncodedSize(r))]
           /\ stream' = [stream EXCEPT !.position = @ + Data!EncodedSize(r)]
  <2> DEFINE cells == Data!Stored(Place(c), Width(c))
             x == [c EXCEPT !.pc = "decode", !.encoded = cells]
  <2>1. reader' = [reader EXCEPT ![r] = x]
    BY <1>1, <1>3, BlockIsCurrent DEF DataInv
  <2>2. stream' \in [position : Nat, good : BOOLEAN]
    <3>1. stream.position = Place(c) /\ Data!EncodedSize(r) = Width(c)
      BY <1>1, BlockIsCurrent
    <3>2. stream.position + Data!EncodedSize(r) \in Nat
      BY <1>2, <3>1
    <3>3. stream \in [position : Nat, good : BOOLEAN]
      BY <1>1, <1>2
    <3> QED
      BY <1>3, <3>2, <3>3
  <2>3. cells \in Seq(Cell)
    BY <1>2, DataAssumption DEF Data!Stored, Data!Assumptions, Data!DatSize
  <2> HIDE DEF cells
  <2>4. /\ x \in Call /\ x.pc = "decode" /\ x.id = c.id /\ x.offset = c.offset
        /\ x.requested = c.requested /\ x.todo = c.todo /\ x.output = c.output
        /\ x.encoded = cells
    BY <1>1, <2>3 DEF Call
  <2> HIDE DEF x
  <2>5. Reading(x) /\ Width(x) = Width(c) /\ Place(x) = Place(c)
    BY <1>1, <2>4 DEF Reading, Exact, Width, Place, Current
  <2>6. CallOK(x)
    BY <1>1, <2>4, <2>5 DEF CallOK, cells
  <2> QED
    BY <1>1, <2>1, <2>2, <2>4, <2>6, OneCall
<1>4. CASE /\ ~(stream.good /\ stream.position + Data!EncodedSize(r) <= length)
           /\ reader' = Data!Goto(r, "failed")
           /\ stream' = [stream EXCEPT !.good = FALSE]
  <2> DEFINE x == [c EXCEPT !.pc = "failed"]
  <2>1. reader' = [reader EXCEPT ![r] = x]
    BY <1>4 DEF Data!Goto
  <2>2. stream' \in [position : Nat, good : BOOLEAN]
    BY <1>1, <1>2, <1>4
  <2>3. Place(c) + Width(c) > length
    BY <1>1, <1>2, <1>4, BlockIsCurrent
  <2>4. Data!Bad(mappings[c.id], Current(c))
    BY <2>3 DEF Data!Bad, Place, Width
  <2>5. CallOK(x)
    BY <1>1, <2>4, CallFails
  <2>6. x.pc = "failed"
    BY <1>1 DEF Call
  <2> HIDE DEF x
  <2> QED
    BY <1>1, <2>1, <2>2, <2>5, <2>6, OneCall
<1> QED
  BY <1>3, <1>4 DEF Data!ReadStream

\* A block that decodes has the size it should have.
LEMMA DecodedType ==
  ASSUME NEW item, Mapping(item), NEW i \in DOMAIN item.encoded, NEW cells \in Seq(Cell),
         Data!Decodes(item, i, cells)
  PROVE  /\ Data!Decoded(item, cells) \in Seq(Cell)
         /\ Len(Data!Decoded(item, cells)) = Data!LogicalSize(item, i)
<1>1. CASE item.mode = 3
  <2>1. Data!Decoded(item, cells) = [k \in DOMAIN cells |-> Decrypt[cells[k]]]
    BY <1>1 DEF Data!Decoded, Data!DecryptAll
  <2>2. Len(cells) = Data!LogicalSize(item, i)
    BY <1>1 DEF Data!Decodes
  <2>3. DOMAIN cells = 1 .. Len(cells) /\ \A k \in DOMAIN cells : Decrypt[cells[k]] \in Cell
    BY DataAssumption DEF Data!Assumptions
  <2>4. [k \in 1 .. Len(cells) |-> Decrypt[cells[k]]] \in Seq(Cell)
    BY <2>3
  <2> QED
    BY <2>1, <2>2, <2>3, <2>4
<1>2. CASE item.mode # 3
  BY <1>2, DataAssumption DEF Data!Decodes, Data!Decoded, Data!Assumptions
<1> QED
  BY <1>1, <1>2

\* A part of one sequence after another.
LEMMA PartAppended ==
  ASSUME NEW s \in Seq(Cell), NEW t \in Seq(Cell), NEW m \in Nat, NEW n \in Nat,
         m < n, n <= Len(t)
  PROVE  LET u == s \o SubSeq(t, m + 1, n)
         IN  /\ u \in Seq(Cell) /\ Len(u) = Len(s) + (n - m)
             /\ \A k \in 1 .. Len(s) : u[k] = s[k]
             /\ \A k \in Len(s) + 1 .. Len(u) : u[k] = t[m + (k - Len(s))]
<1> DEFINE v == SubSeq(t, m + 1, n)
           u == s \o v
<1>1. /\ v \in Seq(Cell) /\ Len(v) = n - m
      /\ \A k \in 1 .. n - m : v[k] = t[(m + 1) + k - 1]
  OBVIOUS
<1> HIDE DEF v
<1>2. /\ u \in Seq(Cell) /\ Len(u) = Len(s) + Len(v)
      /\ \A k \in 1 .. Len(s) : u[k] = s[k]
      /\ \A k \in Len(s) + 1 .. Len(u) : u[k] = v[k - Len(s)]
  <2>1. /\ u \in Seq(Cell) /\ Len(u) = Len(s) + Len(v)
        /\ \A k \in 1 .. Len(s) + Len(v) : u[k] = IF k <= Len(s) THEN s[k] ELSE v[k - Len(s)]
    <3>1. v \in Seq(Cell)
      BY <1>1
    <3> QED
      BY <3>1, ConcatProperties, Zenon DEF u
  <2>2. Len(s) \in Nat /\ Len(v) \in Nat
    BY <1>1
  <2> HIDE DEF u
  <2> QED
    BY <2>1, <2>2
<1> HIDE DEF u
<1>3. ASSUME NEW k \in Len(s) + 1 .. Len(u) PROVE u[k] = t[m + (k - Len(s))]
  <2>1. /\ k - Len(s) \in 1 .. n - m
        /\ (m + 1) + (k - Len(s)) - 1 = m + (k - Len(s))
    BY <1>1, <1>2
  <2> QED
    BY <1>1, <1>2, <2>1
<1> QED
  BY <1>1, <1>2, <1>3 DEF u, v

\* A block that decodes is added to the output.
LEMMA DecodeStep ==
  ASSUME DataInv, NEW r \in Reader, Data!Decode(r)
  PROVE  DataInv'
<1> DEFINE c == reader[r]
           item == mappings[c.id]
           b == Current(c)
           start == (b - 1) * BlockSize
           end == c.offset + c.requested
           p == c.offset + Len(c.output)
           e == Data!Lesser(end, Data!BlockEnd(item, b))
           plain == Data!Decoded(item, c.encoded)
           from == Data!Greater(c.offset, start)
           out == c.output \o SubSeq(plain, from - start + 1, e - start)
           x == [c EXCEPT !.pc = "block", !.todo = @ \ {b}, !.encoded = <<>>, !.output = out]
<1>1. /\ CallOK(c) /\ MappingsOK /\ c.pc = "decode" /\ c.todo # {} /\ c.pc \in InLoop
      /\ c \in Call /\ Reading(c) /\ c.id \in DOMAIN mappings
      /\ c.encoded = Data!Stored(Place(c), Width(c))
      /\ UNCHANGED <<mappings, loaded, length, stream, owner>>
      /\ stream' \in [position : Nat, good : BOOLEAN]
  BY DEF DataInv, CallOK, Data!Decode, InLoop
<1>2. \/ /\ Data!Decodes(item, b, c.encoded)
         /\ reader' = [reader EXCEPT ![r] = x]
      \/ /\ ~Data!Decodes(item, b, c.encoded)
         /\ reader' = [reader EXCEPT ![r] = [c EXCEPT !.pc = "failed"]]
  <2>1. Data!Block(r) = b /\ Data!Item(r) = item
    BY BlockIsCurrent
  <2> QED
    BY <2>1 DEF Data!Decode, Data!Goto
<1>3. CASE /\ ~Data!Decodes(item, b, c.encoded)
           /\ reader' = [reader EXCEPT ![r] = [c EXCEPT !.pc = "failed"]]
  <2>1. Data!Bad(item, b)
    BY <1>1, <1>3 DEF Data!Bad, Place, Width
  <2>2. CallOK([c EXCEPT !.pc = "failed"])
    BY <1>1, <2>1, CallFails
  <2>3. [c EXCEPT !.pc = "failed"].pc = "failed"
    BY <1>1 DEF Call
  <2> HIDE DEF c
  <2> QED
    BY <1>1, <1>3, <2>2, <2>3, OneCall
<1>4. CASE Data!Decodes(item, b, c.encoded) /\ reader' = [reader EXCEPT ![r] = x]
  <2>1. /\ Mapping(item) /\ item.size # 0
        /\ p \in Nat /\ end \in Nat /\ p < end /\ end <= item.size
        /\ b \in DOMAIN item.encoded
        /\ start <= p /\ p < Data!BlockEnd(item, b)
        /\ e \in Nat /\ p < e /\ e <= end
        /\ e # end => e = b * BlockSize
        /\ c.todo \ {b} = Rest(item, e, end)
    BY <1>1, CurrentFacts
  <2>2. /\ b \in Nat \ {0} /\ start \in Nat /\ BlockSize \in Nat \ {0}
        /\ Data!LogicalSize(item, b) \in Nat \ {0}
        /\ Data!BlockEnd(item, b) = start + Data!LogicalSize(item, b)
        /\ Data!LogicalSize(item, b) <= BlockSize
    BY <2>1, BlockBounds, BlockSizeType
  <2>3. c.offset \in Nat /\ c.requested \in Nat /\ c.output \in Seq(Cell) /\ c.encoded \in Seq(Cell)
        /\ Len(c.output) \in Nat /\ c.todo \in SUBSET Nat /\ c.id \in Nat
    BY <1>1 DEF Call
  <2>4. plain \in Seq(Cell) /\ Len(plain) = Data!LogicalSize(item, b)
    BY <1>4, <2>1, <2>3, DecodedType
  <2>5. plain = Data!PlainBlock(item, b)
    BY <1>1 DEF Data!PlainBlock, Place, Width
  <2>6. c.output = <<>> \/ p = end \/ \E q \in Nat : p = q * BlockSize
    BY <1>1 DEF Reading
  <2>7. \A k \in 1 .. Len(c.output) : c.output[k] = Data!PlainByte(item, c.offset + k - 1)
    BY <1>1 DEF Reading, Exact
  <2>8. e <= start + Data!LogicalSize(item, b)
    BY <2>1, <2>2 DEF Data!Lesser
  <2> HIDE DEF c, item, b, end, e, plain, start
  <2>9. from = p
    <3>1. CASE c.output = <<>>
      BY <3>1, <2>1, <2>2, <2>3 DEF Data!Greater
    <3>2. CASE p = end
      BY <3>2, <2>1
    <3>3. CASE \E q \in Nat : p = q * BlockSize
      <4>1. PICK q \in Nat : p = q * BlockSize
        BY <3>3
      <4>2. b - 1 \in Nat /\ start = (b - 1) * BlockSize
        BY <2>2 DEF start
      <4>3. p < start + BlockSize
        <5>1. start + Data!LogicalSize(item, b) <= start + BlockSize
              /\ start + Data!LogicalSize(item, b) \in Nat /\ start + BlockSize \in Nat
          BY <2>2
        <5> HIDE DEF p
        <5> QED
          BY <2>1, <2>2, <5>1
      <4>4. q <= b - 1 /\ b - 1 <= q
        <5>1. q * BlockSize < (b - 1) * BlockSize + BlockSize
          BY <4>1, <4>2, <4>3
        <5>2. (b - 1) * BlockSize < q * BlockSize + BlockSize
          <6>1. start < p + BlockSize
            BY <2>1, <2>2
          <6> QED
            BY <6>1, <4>1, <4>2
        <5> QED
          BY <5>1, <5>2, <4>2, BlockOrder
      <4>5. q = b - 1
        BY <4>2, <4>4
      <4>6. p = start
        BY <4>1, <4>2, <4>5
      <4> QED
        BY <4>6, <2>2, <2>3 DEF Data!Greater
    <3> QED
      BY <3>1, <3>2, <3>3, <2>6
  <2> DEFINE m == p - start
             n == e - start
  <2>10. m \in Nat /\ n \in Nat /\ m < n /\ n <= Len(plain)
    BY <2>1, <2>2, <2>4, <2>8
  <2>11. out = c.output \o SubSeq(plain, m + 1, n)
    BY <2>9
  <2> HIDE DEF out, m, n
  <2>12. /\ out \in Seq(Cell) /\ Len(out) = Len(c.output) + (n - m)
         /\ \A k \in 1 .. Len(c.output) : out[k] = c.output[k]
         /\ \A k \in Len(c.output) + 1 .. Len(out) : out[k] = plain[m + (k - Len(c.output))]
    <3> DEFINE s == c.output
               u == s \o SubSeq(plain, m + 1, n)
    <3>1. s \in Seq(Cell)
      BY <2>3
    <3> HIDE DEF s
    <3>2. /\ u \in Seq(Cell) /\ Len(u) = Len(s) + (n - m)
          /\ \A k \in 1 .. Len(s) : u[k] = s[k]
          /\ \A k \in Len(s) + 1 .. Len(u) : u[k] = plain[m + (k - Len(s))]
      BY <3>1, <2>4, <2>10, PartAppended
    <3>3. out = u
      BY <2>11 DEF s
    <3> HIDE DEF u
    <3> QED
      BY <3>2, <3>3 DEF s
  <2>13. Len(out) \in Nat /\ c.offset + Len(out) = e
    <3>1. n - m = e - p
      <4>1. \A i, j, l \in Nat : (i - l) - (j - l) = i - j
        OBVIOUS
      <4> HIDE DEF p
      <4> QED
        BY <2>1, <2>2, <4>1 DEF m, n
    <3>2. Len(out) = Len(c.output) + (e - p)
      BY <2>12, <3>1
    <3>3. \A i, j, l \in Nat : i + j < l => j + (l - (i + j)) \in Nat /\ i + (j + (l - (i + j))) = l
      OBVIOUS
    <3>4. c.offset \in Nat /\ Len(c.output) \in Nat /\ e \in Nat /\ c.offset + Len(c.output) < e
      BY <2>1, <2>3
    <3>5. Len(out) = Len(c.output) + (e - (c.offset + Len(c.output)))
      BY <3>2
    <3> QED
      BY <3>3, <3>4, <3>5
  <2>14. ASSUME NEW k \in 1 .. Len(out)
         PROVE  out[k] = Data!PlainByte(item, c.offset + k - 1)
    <3>1. CASE k <= Len(c.output)
      BY <3>1, <2>3, <2>7, <2>12
    <3>2. CASE k > Len(c.output)
      <4> DEFINE pos == c.offset + k - 1
      <4>1. k \in Len(c.output) + 1 .. Len(out)
        BY <3>2, <2>3, <2>13
      <4>2. pos \in Nat /\ p <= pos /\ pos < e
        BY <4>1, <2>3, <2>13
      <4>3. out[k] = plain[(pos - start) + 1]
        <5>1. m + (k - Len(c.output)) = (pos - start) + 1
          <6>1. \A o, l, i, j \in Nat : ((o + l) - i) + (j - l) = ((o + j - 1) - i) + 1
            OBVIOUS
          <6>2. /\ start \in Nat /\ c.offset \in Nat /\ Len(c.output) \in Nat /\ k \in Nat
                /\ p = c.offset + Len(c.output)
            BY <2>2, <2>3, <4>1
          <6>3. m = (c.offset + Len(c.output)) - start
            BY <6>2 DEF m
          <6>4. pos = c.offset + k - 1
            OBVIOUS
          <6>5. ((c.offset + Len(c.output)) - start) + (k - Len(c.output))
                   = ((c.offset + k - 1) - start) + 1
            BY <6>1, <6>2
          <6> QED
            BY <6>3, <6>4, <6>5
        <5> QED
          BY <4>1, <5>1, <2>12
      <4> HIDE DEF pos
      <4>4. start <= pos /\ pos < start + BlockSize
        BY <4>2, <2>1, <2>2, <2>8
      <4>5. b - 1 \in Nat /\ start = (b - 1) * BlockSize /\ (b - 1) + 1 = b
        BY <2>2 DEF start
      <4>6. pos \div BlockSize = b - 1 /\ pos % BlockSize = pos - start
        BY <4>2, <4>4, <4>5, BlockUnique
      <4>7. Data!PlainByte(item, pos) = Data!PlainBlock(item, b)[(pos - start) + 1]
        BY <4>5, <4>6 DEF Data!PlainByte
      <4> QED
        BY <4>3, <4>7, <2>5 DEF pos
    <3> QED
      BY <3>1, <3>2, <2>3
  <2>15. x \in Call
    <3>1. <<>> \in Seq(Cell) /\ c.todo \ {b} \in SUBSET Nat
      BY <2>3
    <3> QED
      BY <1>1, <2>12, <3>1 DEF Call
  <2>16. /\ x.pc = "block" /\ x.id = c.id /\ x.offset = c.offset /\ x.requested = c.requested
         /\ x.todo = c.todo \ {b} /\ x.output = out
    BY <1>1 DEF Call
  <2> HIDE DEF x
  <2>17. Exact(x)
    BY <2>14, <2>16 DEF Exact, item
  <2>18. x.requested # 0 /\ x.offset + x.requested = end /\ x.offset + Len(x.output) = e
    BY <1>1, <2>13, <2>16 DEF Reading, end
  <2>19. x.output = <<>> \/ e = end \/ \E q \in Nat : e = q * BlockSize
    BY <2>1, <2>2
  <2>20. Reading(x)
    BY <2>1, <2>16, <2>17, <2>18, <2>19 DEF Reading, item
  <2>21. CallOK(x)
    BY <1>1, <2>15, <2>16, <2>20 DEF CallOK
  <2> QED
    BY <1>1, <1>4, <2>16, <2>21, OneCall
<1> QED
  BY <1>2, <1>3, <1>4

\* A DAT that is cut gives more reasons to fail, and takes none away.
LEMMA CutStep ==
  ASSUME DataInv, Data!CutDat
  PROVE  DataInv'
<1>1. /\ length' \in Nat /\ length' < length /\ length \in Nat
      /\ UNCHANGED <<mappings, loaded, stream, owner, reader>>
  BY DEF DataInv, Data!CutDat
<1>2. ASSUME NEW r \in Reader PROVE CallOK(reader[r])' /\ StreamOK(r)'
  <2>1. CallOK(reader[r]) /\ StreamOK(r) /\ MappingsOK
    BY DEF DataInv
  <2>2. StreamOK(r)'
    BY <1>1, <2>1 DEF StreamOK, Place, Current
  <2>3. ASSUME reader[r].pc = "failed" PROVE HasCause(reader[r])'
    <3> DEFINE item == mappings[reader[r].id]
    <3>1. Mapping(item) /\ HasCause(reader[r])
      BY <2>1, <2>3 DEF CallOK, MappingsOK
    <3>2. PICK i \in DOMAIN item.encoded :
             /\ Data!BlockEnd(item, i) > reader[r].offset
             /\ (i - 1) * BlockSize < reader[r].offset + reader[r].requested
             /\ Data!Bad(item, i)
      BY <3>1 DEF HasCause
    <3> HIDE DEF item
    <3>3. Data!BlockOffset(item, i) \in Nat /\ item.encoded[i] \in Nat
      BY <3>1, MappingFacts
    <3>4. Data!Bad(item, i)'
      <4>1. Data!BlockOffset(item, i) + item.encoded[i] > length =>
               Data!BlockOffset(item, i) + item.encoded[i] > length'
        BY <1>1, <3>3
      <4>2. item' = item
        BY <1>1 DEF item
      <4> QED
        BY <3>2, <4>1, <4>2 DEF Data!Bad
    <3> QED
      BY <1>1, <3>2, <3>4 DEF HasCause, item
  <2>4. CallOK(reader[r])'
    BY <1>1, <2>1, <2>3 DEF CallOK, Reading, Exact, Width, Place, Current
  <2> QED
    BY <2>2, <2>4
<1>3. MappingsOK'
  BY <1>1 DEF DataInv, MappingsOK
<1> QED
  BY <1>1, <1>2, <1>3 DEF DataInv

\* A table accepted gives mappings that are right; no call has begun.
LEMMA LoadStep ==
  ASSUME DataInv, NEW table \in Tables, Data!LoadTable(table)
  PROVE  DataInv'
<1>1. /\ ~loaded /\ loaded' /\ Data!TableAccepted(table) /\ mappings' = Data!Mapped(table)
      /\ UNCHANGED <<length, stream, owner, reader>>
  BY DEF Data!LoadTable
<1>2. MappingsOK'
  BY <1>1, MappedType DEF MappingsOK
<1>3. ASSUME NEW r \in Reader PROVE CallOK(reader[r])' /\ StreamOK(r)'
  <2>1. reader[r] \in Call /\ reader[r].pc = "idle"
    BY <1>1 DEF DataInv, CallOK, MappingsOK
  <2> QED
    BY <1>1, <2>1 DEF CallOK, StreamOK
<1> QED
  BY <1>1, <1>2, <1>3 DEF DataInv

\* All steps of a call.
LEMMA ReadingStep ==
  ASSUME DataInv, NEW r \in Reader, Data!Continue(r)
  PROVE  DataInv'
BY TakeBlockStep, ReturnStep, LockStep, SeekStep, ReadStreamStep, DecodeStep DEF Data!Continue

\* The reads do not depend on the other two parts.
LEMMA DataIdle == DataInv /\ UNCHANGED dataVars => DataInv'
BY DEF DataInv, dataVars, MappingsOK, CallOK, Reading, Exact, Width, Place, Current, HasCause,
       Data!Bad, StreamOK

\* Both properties of reads are parts of the invariant.
LEMMA DataRight == DataInv => Data!ReadIsExact /\ Data!FailureHasCause
<1> SUFFICES ASSUME DataInv PROVE Data!ReadIsExact /\ Data!FailureHasCause
  OBVIOUS
<1>1. Data!ReadIsExact
  <2>1. DOMAIN mappings \subseteq 0 .. MaxU32
    BY DEF DataInv, MappingsOK
  <2>2. ASSUME NEW r \in Reader, reader[r].pc = "done"
        PROVE  /\ Len(reader[r].output) = reader[r].requested
               /\ \A k \in 1 .. reader[r].requested :
                     reader[r].output[k] = Data!PlainByte(Data!Item(r), reader[r].offset + k - 1)
    BY <2>2 DEF DataInv, CallOK, Exact, Data!Item
  <2> QED
    BY <2>1, <2>2 DEF Data!ReadIsExact
<1>2. Data!FailureHasCause
  BY DEF DataInv, CallOK, HasCause, Data!FailureHasCause, Data!Item
<1> QED
  BY <1>1, <1>2

-----------------------------------------------------------------------------
(***************************************************************************)
(* The walk from a file to the root.                                       *)
(***************************************************************************)
\* The nodes that a chain of parents from i passes are the ancestors of i.
LEMMA ChainAncestors ==
  ASSUME nodes \in Seq(Paths!NodeType), Paths!ParentsInside, NEW i \in DOMAIN nodes,
         NEW d \in Nat, NEW e \in [0 .. d -> DOMAIN nodes], e[0] = i,
         \A m \in 0 .. d : m # 0 => nodes[e[m - 1]].parent = e[m]
  PROVE  /\ d <= Len(nodes) => e[d] \in Paths!Ancestors(i)
         /\ d >= Len(nodes) => \A j \in Paths!Ancestors(i) : \E m \in 0 .. Len(nodes) : j = e[m]
<1> DEFINE n == Len(nodes)
           D == DOMAIN nodes
           Up(x) == x \cup ({nodes[j].parent : j \in x} \ {NoParent})
           step == [k \in 1 .. n |-> [x \in SUBSET D |-> Up(x)]]
           Walk(up) == up = [k \in 0 .. n |->
                                IF k = 0 THEN {i}
                                ELSE up[k - 1] \cup ({nodes[j].parent : j \in up[k - 1]} \ {NoParent})]
           up == CHOOSE up : Walk(up)
<1>1. n \in Nat /\ NoParent \notin D /\ \A j \in D : nodes[j].parent \in D \cup {NoParent}
  BY PathsAssumption DEF Paths!Assumptions, Paths!ParentsInside
<1>2. step \in [1 .. n -> [SUBSET D -> SUBSET D]]
  <2>1. \A x \in SUBSET D : Up(x) \in SUBSET D
    BY <1>1
  <2> HIDE DEF Up, D
  <2> QED
    BY <2>1
<1>3. PICK g \in [0 .. n -> SUBSET D] : Iterates(g, {i}, step, n)
  <2>1. {i} \in SUBSET D
    OBVIOUS
  <2> HIDE DEF step, n, D
  <2> QED
    BY <1>1, <1>2, <2>1, IterationExists
<1>4. Walk(g)
  <2>1. ASSUME NEW k \in 0 .. n PROVE g[k] = IF k = 0 THEN {i} ELSE Up(g[k - 1])
    <3>1. g[k] = IF k = 0 THEN {i} ELSE step[k][g[k - 1]]
      <4> HIDE DEF step
      <4> QED
        BY <1>3 DEF Iterates
    <3>2. CASE k # 0
      <4> HIDE DEF Up, D, step
      <4>1. k \in 1 .. n /\ k - 1 \in 0 .. n
        BY <1>1, <3>2
      <4>2. g[k - 1] \in SUBSET D
        BY <1>3, <4>1
      <4> USE DEF step
      <4> QED
        BY <4>1, <4>2, <3>1, <3>2
    <3> QED
      BY <3>1, <3>2
  <2> HIDE DEF step, D
  <2> QED
    BY <2>1, <1>3
<1>5. Walk(up)
  <2> HIDE DEF Walk
  <2> QED
    BY <1>4
<1>6. \A k \in 0 .. n : up[k] = IF k = 0 THEN {i} ELSE Up(up[k - 1])
  <2> HIDE DEF up
  <2> QED
    BY <1>5
<1>7. Paths!Ancestors(i) = up[n]
  BY DEF Paths!Ancestors
<1> HIDE DEF up, step, Walk
<1> DEFINE passed(m) == {e[j] : j \in 0 .. m}
<1>8. \A m \in 0 .. n : m <= d => up[m] = passed(m)
  <2> DEFINE bad == {m \in 0 .. n : m <= d /\ up[m] # passed(m)}
  <2> SUFFICES ASSUME bad # {} PROVE FALSE
    OBVIOUS
  <2>1. PICK m \in bad : \A j \in bad : m <= j
    <3>1. bad \in SUBSET Nat
      BY <1>1
    <3> HIDE DEF bad
    <3> QED
      BY <3>1, NatLeast
  <2>10. passed(0) = {i}
    BY <1>1
  <2> HIDE DEF passed
  <2>2. m \in 0 .. n /\ m <= d /\ up[m] # passed(m) /\ m \in Nat
    BY <2>1, <1>1
  <2>3. m # 0
    BY <2>2, <2>10, <1>6, <1>1
  <2>4. m - 1 \in 0 .. n /\ m - 1 <= d /\ m - 1 \in 0 .. d /\ m \in 0 .. d
    BY <2>2, <2>3, <1>1
  <2>5. up[m - 1] = passed(m - 1)
    BY <2>1, <2>4
  <2> HIDE DEF bad
  <2> USE DEF passed
  <2>6. up[m] = Up(up[m - 1])
    BY <1>6, <2>2, <2>3
  <2>7. \A j \in 0 .. m : j # 0 => nodes[e[j - 1]].parent = e[j] /\ e[j] # NoParent
    <3>1. \A j \in 0 .. m : j \in 0 .. d
      BY <2>2
    <3> QED
      BY <3>1, <1>1
  <2>8. up[m] \subseteq passed(m)
    <3> SUFFICES ASSUME NEW y \in Up(passed(m - 1)) PROVE y \in passed(m)
      BY <2>5, <2>6
    <3>1. CASE y \in passed(m - 1)
      BY <3>1, <2>2, <2>3
    <3>2. CASE \E j \in 0 .. m - 1 : y = nodes[e[j]].parent
      <4>1. PICK j \in 0 .. m - 1 : y = nodes[e[j]].parent
        BY <3>2
      <4>2. j + 1 \in 0 .. m /\ j + 1 # 0 /\ (j + 1) - 1 = j
        BY <2>2, <2>3
      <4>3. y = e[j + 1]
        BY <4>1, <4>2, <2>7
      <4> QED
        BY <4>2, <4>3
    <3> QED
      BY <3>1, <3>2
  <2>9. passed(m) \subseteq up[m]
    <3> SUFFICES ASSUME NEW j \in 0 .. m PROVE e[j] \in Up(passed(m - 1))
      BY <2>5, <2>6
    <3>1. CASE j <= m - 1
      BY <3>1, <2>2
    <3>2. CASE j = m
      <4>1. m - 1 \in 0 .. m - 1
        BY <2>2, <2>3
      <4>2. e[m - 1] \in passed(m - 1)
        BY <4>1
      <4>3. nodes[e[m - 1]].parent = e[m] /\ e[m] # NoParent
        BY <2>2, <2>3, <2>7
      <4> HIDE DEF passed
      <4> QED
        BY <4>2, <4>3, <3>2
    <3> QED
      BY <3>1, <3>2, <2>2
  <2> QED
    BY <2>2, <2>8, <2>9
<1>9. ASSUME NEW k \in 0 .. n, NEW m \in 0 .. n, k <= m PROVE up[k] \subseteq up[m]
  <2> DEFINE bad == {j \in 0 .. n : k <= j /\ ~(up[k] \subseteq up[j])}
  <2> SUFFICES ASSUME bad # {} PROVE FALSE
    BY <1>9
  <2>1. PICK j \in bad : \A l \in bad : j <= l
    <3>1. bad \in SUBSET Nat
      BY <1>1
    <3> HIDE DEF bad
    <3> QED
      BY <3>1, NatLeast
  <2>2. j \in 0 .. n /\ k <= j /\ ~(up[k] \subseteq up[j])
    BY <2>1
  <2>3. j # k
    BY <2>2
  <2>4. j - 1 \in 0 .. n /\ k <= j - 1 /\ j # 0 /\ ~(j <= j - 1)
    BY <2>2, <2>3, <1>1
  <2>5. up[k] \subseteq up[j - 1]
    BY <2>1, <2>4
  <2>6. up[j] = Up(up[j - 1])
    BY <1>6, <2>2, <2>4
  <2> QED
    BY <2>2, <2>5, <2>6
<1>10. d <= n => e[d] \in up[n]
  <2> SUFFICES ASSUME d <= n PROVE e[d] \in up[n]
    OBVIOUS
  <2>1. d \in 0 .. n /\ n \in 0 .. n /\ d \in 0 .. d
    BY <1>1
  <2>2. e[d] \in passed(d) /\ up[d] = passed(d)
    BY <1>8, <2>1
  <2> HIDE DEF passed
  <2> QED
    BY <2>1, <2>2, <1>9
<1>11. d >= n => \A j \in up[n] : \E m \in 0 .. n : j = e[m]
  <2> SUFFICES ASSUME d >= n PROVE \A j \in up[n] : \E m \in 0 .. n : j = e[m]
    OBVIOUS
  <2>1. n \in 0 .. n /\ n <= d
    BY <1>1
  <2>2. up[n] = passed(n)
    <3> HIDE DEF passed
    <3> QED
      BY <1>8, <2>1
  <2> QED
    BY <2>2
<1> QED
  BY <1>7, <1>10, <1>11

-----------------------------------------------------------------------------
(***************************************************************************)
(* The invariant of the manifest.                                          *)
(***************************************************************************)
\* Manifest has its Cardinality from FiniteSets, as has Depot.
LEMMA SameCardinality ==
  ASSUME NEW S
  PROVE  Paths!Cardinality(S) = Cardinality(S)
BY DEF Cardinality, Paths!Cardinality

FileType == [node : Nat, path : Seq(Word)]

\* e is the way from the file at index to the node the walk has reached, and
\* the parts are the names on it.
WayUp(e) ==
    /\ e[0] = index /\ e[depth] = current
    /\ \A m \in 0 .. depth : m # 0 => nodes[e[m - 1]].parent = e[m]
    /\ \A k \in 1 .. depth : parts[k] = nodes[e[depth - k]].name /\ parts[k] # Empty

WalkOK ==
    /\ index \in Nat \ {0} /\ index <= Len(nodes) + 1
    /\ parts \in Seq(Word) /\ Len(parts) = depth
    /\ index <= Len(nodes) => \E e \in [0 .. depth -> DOMAIN nodes] : WayUp(e)

\* The files are those of the nodes below n, in order.
FilesBelow(n) == {i \in Paths!FileNodes : i < n}
FilesOK(n) ==
    /\ {files[k].node : k \in DOMAIN files} = FilesBelow(n)
    /\ Len(files) = Cardinality(FilesBelow(n))
    /\ \A k \in DOMAIN files : Paths!IsPathOf(files[k].path, files[k].node)

\* The files projected so far have paths of their own.
ProjectedApart ==
    \A k, l \in 1 .. index - 1 :
        k # l => Paths!ProjectedPath(files[k].path) # Paths!ProjectedPath(files[l].path)

ProjectedOK ==
    /\ index \in Nat \ {0} /\ index <= Len(files) + 1
    /\ projected = {Paths!ProjectedPath(files[k].path) : k \in 1 .. index - 1}
    /\ \A k \in 1 .. index - 1 : Paths!EntryId(k) \in DOMAIN mappings
    /\ ProjectedApart

ParsedOK == Paths!ParentsInside /\ Paths!NamesSafe

\* Why a manifest is rejected.
BadNodes == ~Paths!ParentsInside \/ ~Paths!NamesSafe
BadCount == fileCount # Cardinality(Paths!FileNodes)
BadPath == \E i \in Paths!FileNodes : Paths!PathBad(i)
BadId == \E k \in DOMAIN files : Paths!EntryId(k) \notin DOMAIN mappings

Reason == BadNodes \/ BadCount \/ BadPath \/ BadId \/ Paths!PathsClash

PathInv ==
    /\ nodes \in Seq(Paths!NodeType) /\ fileCount \in Nat
    /\ files \in Seq(FileType) /\ depth \in Nat
    /\ pc \in {"none", "check", "walk", "project", "accepted", "rejected"}
    /\ pc \in {"none", "check"} =>
          index = 1 /\ current = 1 /\ depth = 0 /\ parts = <<>> /\ files = <<>> /\ projected = {}
    /\ pc \in {"walk", "project", "accepted"} => ParsedOK
    /\ pc = "walk" => WalkOK /\ FilesOK(index) /\ projected = {}
    /\ pc \in {"project", "accepted"} => FilesOK(Len(nodes) + 1) /\ ProjectedOK
    /\ pc = "accepted" => index > Len(files)
    /\ pc = "rejected" => Reason

\* No manifest is there at the start.
LEMMA PathInit == Paths!Init => PathInv
<1> SUFFICES ASSUME Paths!Init PROVE PathInv
  OBVIOUS
<1>1. nodes \in Seq(Paths!NodeType) /\ files \in Seq(FileType) /\ Len(nodes) = 0
  BY DEF Paths!Init
<1> QED
  BY <1>1 DEF Paths!Init, PathInv

\* What is said of the nodes does not change with the walk.
LEMMA NodesUnchanged ==
  ASSUME UNCHANGED <<nodes, fileCount>>
  PROVE  /\ ParsedOK' = ParsedOK
         /\ Paths!ParentsInside' = Paths!ParentsInside /\ Paths!NamesSafe' = Paths!NamesSafe
         /\ Paths!FileNodes' = Paths!FileNodes
         /\ \A n : FilesBelow(n)' = FilesBelow(n)
         /\ \A i : Paths!PathBad(i)' = Paths!PathBad(i)
         /\ \A path, i : Paths!IsPathOf(path, i)' = Paths!IsPathOf(path, i)
BY DEF ParsedOK, Paths!ParentsInside, Paths!NamesSafe, Paths!FileNodes, FilesBelow, Paths!PathBad,
       Paths!IsPathOf, Paths!BelowRoot, Paths!Ancestors

\* What is said of the files found depends on the table and on them.
LEMMA FilesUnchanged ==
  ASSUME UNCHANGED <<nodes, fileCount, files>>
  PROVE  \A n : FilesOK(n)' = FilesOK(n)
BY DEF FilesOK, FilesBelow, Paths!FileNodes, Paths!IsPathOf

\* The files of the table can be counted.
LEMMA FileNodesFinite ==
  ASSUME nodes \in Seq(Paths!NodeType)
  PROVE  /\ Paths!FileNodes \subseteq 1 .. Len(nodes)
         /\ IsFiniteSet(Paths!FileNodes)
         /\ Cardinality(Paths!FileNodes) \in Nat /\ Cardinality(Paths!FileNodes) <= Len(nodes)
         /\ FilesBelow(Len(nodes) + 1) = Paths!FileNodes
         /\ \A n : IsFiniteSet(FilesBelow(n))
<1>1. Len(nodes) \in Nat /\ Paths!FileNodes \subseteq 1 .. Len(nodes)
  BY DEF Paths!FileNodes
<1>2. IsFiniteSet(1 .. Len(nodes)) /\ Cardinality(1 .. Len(nodes)) = Len(nodes)
  <2>1. 1 \in Int /\ Len(nodes) \in Int
    BY <1>1
  <2>2. /\ IsFiniteSet(1 .. Len(nodes))
        /\ Cardinality(1 .. Len(nodes)) = IF 1 > Len(nodes) THEN 0 ELSE Len(nodes) - 1 + 1
    BY <2>1, FS_Interval
  <2> QED
    BY <1>1, <2>2
<1>3. /\ IsFiniteSet(Paths!FileNodes)
      /\ Cardinality(Paths!FileNodes) \in Nat /\ Cardinality(Paths!FileNodes) <= Len(nodes)
  BY <1>1, <1>2, FS_Subset, FS_CardinalityType
<1>4. FilesBelow(Len(nodes) + 1) = Paths!FileNodes
  <2>1. \A i \in Paths!FileNodes : i < Len(nodes) + 1
    BY <1>1
  <2> QED
    BY <2>1 DEF FilesBelow
<1>5. \A n : FilesBelow(n) \subseteq Paths!FileNodes
  BY DEF FilesBelow
<1>6. \A n : IsFiniteSet(FilesBelow(n))
  BY <1>3, <1>5, FS_Subset
<1> QED
  BY <1>1, <1>3, <1>4, <1>6

\* A manifest is rejected; everything else stays as it is.
LEMMA Rejected ==
  ASSUME PathInv, Paths!Reject, UNCHANGED mappings, Reason
  PROVE  PathInv'
<1>1. /\ UNCHANGED <<nodes, fileCount, index, current, depth, parts, files, projected, mappings>>
      /\ pc' = "rejected"
  BY DEF Paths!Reject
<1>2. Reason'
  <2>1. BadNodes' = BadNodes
    BY <1>1 DEF BadNodes, Paths!ParentsInside, Paths!NamesSafe
  <2>2. BadCount' = BadCount
    BY <1>1 DEF BadCount, Paths!FileNodes
  <2>3. BadPath' = BadPath
    BY <1>1 DEF BadPath, Paths!FileNodes, Paths!PathBad, Paths!BelowRoot, Paths!Ancestors
  <2>4. BadId' = BadId
    BY <1>1 DEF BadId, Paths!EntryId
  <2>5. Paths!PathsClash' = Paths!PathsClash
    BY <1>1 DEF Paths!PathsClash, Paths!ProjectedPath
  <2> QED
    BY <2>1, <2>2, <2>3, <2>4, <2>5 DEF Reason
<1> QED
  BY <1>1, <1>2 DEF PathInv

\* The invariant of the walk gives the three properties of the manifest.
LEMMA PathRight == PathInv => /\ PathsAreRight
                              /\ PathsDistinct
                              /\ Paths!RejectedWithReason(DOMAIN mappings)
<1> SUFFICES ASSUME PathInv
             PROVE  /\ PathsAreRight
                    /\ PathsDistinct
                    /\ Paths!RejectedWithReason(DOMAIN mappings)
  OBVIOUS
<1>1. ASSUME pc = "accepted"
      PROVE  /\ {files[k].node : k \in DOMAIN files} = Paths!FileNodes
             /\ Len(files) = Cardinality(Paths!FileNodes)
             /\ \A k \in DOMAIN files : Paths!IsPathOf(files[k].path, files[k].node)
             /\ \A k \in DOMAIN files : Paths!EntryId(k) \in DOMAIN mappings
             /\ ~Paths!PathsClash
  <2>1. FilesOK(Len(nodes) + 1) /\ ProjectedOK /\ index > Len(files)
    BY <1>1 DEF PathInv
  <2>2. FilesBelow(Len(nodes) + 1) = Paths!FileNodes
    BY FileNodesFinite DEF PathInv
  <2>3. \A k \in DOMAIN files : k \in 1 .. index - 1
    BY <2>1 DEF ProjectedOK, PathInv
  <2>4. ~Paths!PathsClash
    BY <2>1, <2>3 DEF ProjectedOK, ProjectedApart, Paths!PathsClash
  <2> QED
    BY <2>1, <2>2, <2>3, <2>4 DEF FilesOK, ProjectedOK
<1>2. PathsAreRight
  BY <1>1, SameCardinality DEF PathsAreRight, Paths!PathsAreRight, Mounted
<1>3. PathsDistinct
  BY <1>1 DEF PathsDistinct, Paths!PathsDistinct
<1>4. Paths!RejectedWithReason(DOMAIN mappings)
  BY SameCardinality
  DEF PathInv, Reason, BadNodes, BadCount, BadPath, BadId, Paths!RejectedWithReason
<1> QED
  BY <1>2, <1>3, <1>4

-----------------------------------------------------------------------------
(***************************************************************************)
(* Every step of the manifest keeps the invariant.                         *)
(***************************************************************************)
LEMMA ParseStep ==
  ASSUME PathInv, NEW manifest \in Manifests, Paths!Parse(manifest), UNCHANGED mappings
  PROVE  PathInv'
<1>1. /\ pc = "none" /\ pc' = "check"
      /\ nodes' = manifest.nodes /\ fileCount' = manifest.fileCount
      /\ UNCHANGED <<index, current, depth, parts, files, projected>>
  BY DEF Paths!Parse
<1>2. nodes' \in Seq(Paths!NodeType) /\ fileCount' \in Nat
  BY <1>1, PathsAssumption DEF Paths!Assumptions
<1>3. /\ index = 1 /\ current = 1 /\ depth = 0 /\ parts = <<>> /\ files = <<>> /\ projected = {}
      /\ files \in Seq(FileType)
  BY <1>1 DEF PathInv
<1> QED
  BY <1>1, <1>2, <1>3 DEF PathInv

\* The walk from a file begins with the file itself.
LEMMA WalkBegins ==
  ASSUME nodes' \in Seq(Paths!NodeType), index' \in Nat \ {0}, index' <= Len(nodes') + 1,
         current' = index', depth' = 0, parts' = <<>>
  PROVE  WalkOK'
<1>1. ASSUME index' <= Len(nodes')
      PROVE  \E e \in [0 .. depth' -> DOMAIN nodes'] : WayUp(e)'
  <2>1. PICK e \in [0 .. depth' -> DOMAIN nodes'] : e[0] = index'
    <3> DEFINE e0 == [m \in 0 .. 0 |-> index']
    <3>1. e0 \in [0 .. depth' -> DOMAIN nodes']
      BY <1>1
    <3>2. e0[0] = index'
      OBVIOUS
    <3> HIDE DEF e0
    <3> QED
      BY <3>1, <3>2
  <2>2. (\A m \in 0 .. 0 : m = 0) /\ \A k \in 1 .. 0 : FALSE
    OBVIOUS
  <2>3. WayUp(e)'
    BY <2>1, <2>2 DEF WayUp
  <2> QED
    BY <2>1, <2>3
<1>2. parts' \in Seq(Word) /\ Len(parts') = depth'
  OBVIOUS
<1> QED
  BY <1>1, <1>2 DEF WalkOK

\* Check rejects a parent outside of the table, an unsafe name or a count too
\* large, and begins the walk otherwise.
LEMMA CheckStep ==
  ASSUME PathInv, Paths!Check, UNCHANGED mappings
  PROVE  PathInv'
<1>1. /\ pc = "check" /\ nodes \in Seq(Paths!NodeType) /\ fileCount \in Nat
      /\ index = 1 /\ current = 1 /\ depth = 0 /\ parts = <<>> /\ files = <<>> /\ projected = {}
      /\ files \in Seq(FileType) /\ Len(nodes) \in Nat
  BY DEF PathInv, Paths!Check
<1>2. CASE /\ Paths!ParentsInside
           /\ Paths!NamesSafe
           /\ pc' = "walk"
           /\ UNCHANGED <<nodes, fileCount, index, current, depth, parts, files, projected>>
  <2>1. ParsedOK'
    BY <1>2, NodesUnchanged DEF ParsedOK
  <2>2. WalkOK'
    BY <1>1, <1>2, WalkBegins
  <2>3. FilesOK(index)'
    <3>1. FilesBelow(1) = {}
      BY <1>1, FileNodesFinite DEF FilesBelow
    <3>2. Cardinality({}) = 0
      BY FS_EmptySet
    <3>3. FilesOK(1)
      <4>1. DOMAIN files = {} /\ Len(files) = 0
        BY <1>1
      <4> QED
        BY <3>1, <3>2, <4>1 DEF FilesOK
    <3> QED
      BY <1>1, <1>2, <3>3, FilesUnchanged
  <2> QED
    BY <1>1, <1>2, <2>1, <2>2, <2>3 DEF PathInv
<1>3. CASE ~(Paths!ParentsInside /\ Paths!NamesSafe /\ fileCount <= Len(nodes)) /\ Paths!Reject
  <2>1. CASE ~Paths!ParentsInside \/ ~Paths!NamesSafe
    BY <1>3, <2>1, Rejected DEF Reason, BadNodes
  <2>2. CASE ~(fileCount <= Len(nodes))
    <3>1. fileCount # Cardinality(Paths!FileNodes)
      BY <1>1, <2>2, FileNodesFinite
    <3> QED
      BY <1>3, <3>1, Rejected DEF Reason, BadCount
  <2> QED
    BY <1>3, <2>1, <2>2
<1> QED
  BY <1>2, <1>3 DEF Paths!Check

\* A node that is no file has no path, and the next one is begun.
LEMMA SkipDirectoryStep ==
  ASSUME PathInv, Paths!SkipDirectory, UNCHANGED mappings
  PROVE  PathInv'
<1>1. /\ pc = "walk" /\ index <= Len(nodes) /\ ~nodes[index].file
      /\ index' = index + 1 /\ current' = index + 1 /\ depth' = 0 /\ parts' = <<>>
      /\ UNCHANGED <<nodes, fileCount, pc, files, projected>>
  BY DEF Paths!SkipDirectory, Paths!Next1
<1>2. /\ nodes \in Seq(Paths!NodeType) /\ fileCount \in Nat /\ files \in Seq(FileType)
      /\ Len(nodes) \in Nat /\ index \in Nat \ {0} /\ FilesOK(index) /\ ParsedOK /\ projected = {}
  BY <1>1 DEF PathInv, WalkOK
<1>3. WalkOK'
  BY <1>1, <1>2, WalkBegins
<1>4. FilesOK(index)'
  <2>1. FilesBelow(index + 1) = FilesBelow(index)
    BY <1>1, <1>2 DEF FilesBelow, Paths!FileNodes
  <2>2. FilesOK(index + 1)
    BY <1>2, <2>1 DEF FilesOK
  <2> QED
    BY <1>1, <2>2, FilesUnchanged
<1>5. ParsedOK'
  BY <1>1, <1>2, NodesUnchanged
<1> QED
  BY <1>1, <1>2, <1>3, <1>4, <1>5 DEF PathInv

\* What a step of the walk begins with.
LEMMA WalkFacts ==
  ASSUME PathInv, Paths!Walking
  PROVE  /\ pc = "walk" /\ nodes \in Seq(Paths!NodeType) /\ fileCount \in Nat
         /\ files \in Seq(FileType) /\ Len(nodes) \in Nat /\ depth \in Nat
         /\ index \in DOMAIN nodes /\ index \in Nat \ {0} /\ index \in Paths!FileNodes
         /\ FilesOK(index) /\ ParsedOK /\ projected = {}
         /\ NoParent \notin Nat
         /\ parts \in Seq(Word) /\ Len(parts) = depth
         /\ \E e \in [0 .. depth -> DOMAIN nodes] : WayUp(e)
<1>1. /\ pc = "walk" /\ index <= Len(nodes) /\ nodes[index].file
  BY DEF Paths!Walking
<1>2. /\ nodes \in Seq(Paths!NodeType) /\ fileCount \in Nat
      /\ files \in Seq(FileType) /\ depth \in Nat
      /\ FilesOK(index) /\ ParsedOK /\ projected = {} /\ WalkOK
  BY <1>1 DEF PathInv
<1>3. NoParent \notin Nat
  BY PathsAssumption DEF Paths!Assumptions
<1>4. index \in DOMAIN nodes /\ Len(nodes) \in Nat
  BY <1>1, <1>2 DEF WalkOK
<1>5. index \in Paths!FileNodes
  BY <1>1, <1>4 DEF Paths!FileNodes
<1> QED
  BY <1>1, <1>2, <1>3, <1>4, <1>5 DEF WalkOK

\* A walk of more steps than there are nodes has met one twice, so the node is
\* below a circle or its parents are outside.
LEMMA CycleFoundStep ==
  ASSUME PathInv, Paths!CycleFound, UNCHANGED mappings
  PROVE  PathInv'
<1>1. Paths!Walking /\ depth > Len(nodes) /\ Paths!Reject
  BY DEF Paths!CycleFound, Paths!TooDeep
<1>2. /\ nodes \in Seq(Paths!NodeType) /\ Len(nodes) \in Nat /\ depth \in Nat
      /\ index \in DOMAIN nodes /\ index \in Paths!FileNodes /\ Paths!ParentsInside
      /\ NoParent \notin Nat
  BY <1>1, WalkFacts DEF ParsedOK
<1>3. PICK e \in [0 .. depth -> DOMAIN nodes] : WayUp(e)
  BY <1>1, WalkFacts
<1>4. e[0] = index /\ \A m \in 0 .. depth : m # 0 => nodes[e[m - 1]].parent = e[m]
  BY <1>3 DEF WayUp
<1>5. \A j \in Paths!Ancestors(index) : \E m \in 0 .. Len(nodes) : j = e[m]
  <2>1. depth >= Len(nodes)
    BY <1>1, <1>2
  <2> QED
    BY <1>2, <1>4, <2>1, ChainAncestors
<1>6. ASSUME NEW j \in Paths!Ancestors(index) PROVE nodes[j].parent # NoParent
  <2>1. PICK m \in 0 .. Len(nodes) : j = e[m]
    BY <1>5
  <2>2. m + 1 \in 0 .. depth /\ m + 1 # 0 /\ (m + 1) - 1 = m
    BY <1>1, <1>2
  <2>3. nodes[j].parent = e[m + 1] /\ e[m + 1] \in DOMAIN nodes
    BY <1>4, <2>1, <2>2
  <2> QED
    BY <2>3, <1>2
<1>7. Reason
  BY <1>2, <1>6 DEF Reason, BadPath, Paths!PathBad
<1> QED
  BY <1>1, <1>7, Rejected

\* A step up prolongs the way and puts the name before the parts, or finds a
\* reason to reject.
LEMMA StepUpStep ==
  ASSUME PathInv, Paths!StepUp, UNCHANGED mappings
  PROVE  PathInv'
<1>1. /\ Paths!Walking /\ ~(depth > Len(nodes)) /\ nodes[current].parent # NoParent
  BY DEF Paths!StepUp, Paths!TooDeep, Paths!AtRoot
<1>2. /\ pc = "walk" /\ nodes \in Seq(Paths!NodeType) /\ fileCount \in Nat
      /\ files \in Seq(FileType) /\ Len(nodes) \in Nat /\ depth \in Nat
      /\ index \in DOMAIN nodes /\ index \in Nat \ {0} /\ index \in Paths!FileNodes
      /\ FilesOK(index) /\ ParsedOK /\ projected = {}
      /\ parts \in Seq(Word) /\ Len(parts) = depth
  BY <1>1, WalkFacts
<1>3. PICK e \in [0 .. depth -> DOMAIN nodes] : WayUp(e)
  BY <1>1, WalkFacts
<1>4. /\ e[0] = index /\ e[depth] = current
      /\ \A m \in 0 .. depth : m # 0 => nodes[e[m - 1]].parent = e[m]
      /\ \A k \in 1 .. depth : parts[k] = nodes[e[depth - k]].name /\ parts[k] # Empty
  BY <1>3 DEF WayUp
<1>5. current \in DOMAIN nodes /\ nodes[current].parent \in DOMAIN nodes
  <2>1. current \in DOMAIN nodes
    BY <1>2, <1>4
  <2> QED
    BY <1>1, <1>2, <2>1 DEF ParsedOK, Paths!ParentsInside
<1>6. CASE Paths!Nameless(nodes[current].name) /\ Paths!Reject
  <2>1. current \in Paths!Ancestors(index)
    <3>1. Paths!ParentsInside /\ depth <= Len(nodes)
      BY <1>1, <1>2 DEF ParsedOK
    <3> QED
      BY <1>2, <1>4, <3>1, ChainAncestors
  <2>2. nodes[current].name = Empty
    BY <1>6 DEF Paths!Nameless
  <2>3. Reason
    BY <1>1, <1>2, <2>1, <2>2 DEF Reason, BadPath, Paths!PathBad, Paths!BelowRoot
  <2> QED
    BY <1>6, <2>3, Rejected
<1>7. CASE /\ ~Paths!Nameless(nodes[current].name)
           /\ parts' = Paths!InFront(nodes[current].name)
           /\ current' = nodes[current].parent
           /\ depth' = depth + 1
           /\ UNCHANGED <<nodes, fileCount, pc, index, files, projected>>
  <2> DEFINE w == nodes[current].name
             p == nodes[current].parent
  <2>1. w # Empty /\ w \in Word /\ parts' = <<w>> \o parts /\ p \in DOMAIN nodes
    <3>1. nodes[current] \in Paths!NodeType
      BY <1>2, <1>5
    <3>2. w \in Word
      BY <3>1 DEF Paths!NodeType
    <3>3. w # Empty /\ parts' = <<w>> \o parts
      BY <1>7 DEF Paths!Nameless, Paths!InFront
    <3> QED
      BY <3>2, <3>3, <1>5
  <2>2. /\ parts' \in Seq(Word) /\ Len(parts') = depth + 1
        /\ parts'[1] = w /\ \A k \in 2 .. depth + 1 : parts'[k] = parts[k - 1]
    <3> HIDE DEF w
    <3> QED
      BY <1>2, <2>1
  <2>3. PICK g \in [0 .. depth + 1 -> DOMAIN nodes] :
           \A m \in 0 .. depth + 1 : g[m] = IF m = depth + 1 THEN p ELSE e[m]
    <3> DEFINE g == [m \in 0 .. depth + 1 |-> IF m = depth + 1 THEN p ELSE e[m]]
    <3> HIDE DEF p
    <3>1. g \in [0 .. depth + 1 -> DOMAIN nodes]
      BY <1>2, <2>1
    <3>2. \A m \in 0 .. depth + 1 : g[m] = IF m = depth + 1 THEN p ELSE e[m]
      OBVIOUS
    <3> HIDE DEF g
    <3> QED
      BY <3>1, <3>2
  <2>4. g[0] = index /\ g[depth + 1] = p
    BY <1>2, <1>4, <2>3
  <2>5. ASSUME NEW m \in 0 .. depth + 1, m # 0 PROVE nodes[g[m - 1]].parent = g[m]
    <3>1. CASE m = depth + 1
      <4>1. g[m - 1] = e[depth] /\ g[m] = p
        BY <1>2, <2>3, <3>1
      <4> QED
        BY <4>1, <1>4
    <3>2. CASE m # depth + 1
      <4>1. m \in 0 .. depth /\ m - 1 \in 0 .. depth + 1 /\ m - 1 # depth + 1
        BY <1>2, <2>5, <3>2
      <4>2. g[m - 1] = e[m - 1] /\ g[m] = e[m]
        BY <2>3, <3>2, <4>1
      <4> QED
        BY <4>1, <4>2, <1>4, <2>5
    <3> QED
      BY <3>1, <3>2
  <2>6. ASSUME NEW k \in 1 .. depth + 1
        PROVE  parts'[k] = nodes[g[(depth + 1) - k]].name /\ parts'[k] # Empty
    <3>1. CASE k = 1
      <4>1. (depth + 1) - k = depth /\ depth \in 0 .. depth + 1 /\ depth # depth + 1
        BY <1>2, <3>1
      <4>2. g[(depth + 1) - k] = current
        BY <4>1, <1>4, <2>3
      <4> QED
        BY <3>1, <4>2, <2>1, <2>2
    <3>2. CASE k # 1
      <4>1. /\ k \in 2 .. depth + 1 /\ k - 1 \in 1 .. depth
            /\ (depth + 1) - k = depth - (k - 1) /\ depth - (k - 1) \in 0 .. depth + 1
            /\ depth - (k - 1) # depth + 1
        BY <1>2, <3>2
      <4>2. g[(depth + 1) - k] = e[depth - (k - 1)]
        BY <4>1, <2>3
      <4> QED
        BY <4>1, <4>2, <1>4, <2>2
    <3> QED
      BY <3>1, <3>2
  <2>7. WayUp(g)'
    <3> HIDE DEF p
    <3>1. p = current' /\ depth' = depth + 1 /\ nodes' = nodes /\ index' = index
      BY <1>7 DEF p
    <3> QED
      BY <2>4, <2>5, <2>6, <3>1 DEF WayUp
  <2>8. WalkOK'
    <3>1. index' \in Nat \ {0} /\ index' <= Len(nodes') + 1
      BY <1>2, <1>7
    <3> QED
      BY <2>2, <2>3, <2>7, <3>1, <1>7 DEF WalkOK
  <2>9. FilesOK(index)' /\ ParsedOK'
    <3>1. FilesOK(index)'
      BY <1>2, <1>7, FilesUnchanged
    <3>2. ParsedOK'
      BY <1>2, <1>7, NodesUnchanged
    <3> QED
      BY <3>1, <3>2
  <2>10. depth' \in Nat
    BY <1>2, <1>7
  <2> HIDE DEF w, p
  <2> QED
    BY <1>2, <1>7, <2>8, <2>9, <2>10 DEF PathInv
<1> QED
  BY <1>6, <1>7 DEF Paths!StepUp

\* At the root the parts are the names on the way, in their order, and the files
\* so far grow by this one; a path of no parts is a reason to reject.
LEMMA EndOfPathStep ==
  ASSUME PathInv, Paths!EndOfPath, UNCHANGED mappings
  PROVE  PathInv'
<1>1. /\ Paths!Walking /\ ~(depth > Len(nodes)) /\ nodes[current].parent = NoParent
  BY DEF Paths!EndOfPath, Paths!TooDeep, Paths!AtRoot
<1>2. /\ pc = "walk" /\ nodes \in Seq(Paths!NodeType) /\ fileCount \in Nat
      /\ files \in Seq(FileType) /\ Len(nodes) \in Nat /\ depth \in Nat
      /\ index \in DOMAIN nodes /\ index \in Nat \ {0} /\ index \in Paths!FileNodes
      /\ FilesOK(index) /\ ParsedOK /\ projected = {}
      /\ parts \in Seq(Word) /\ Len(parts) = depth
  BY <1>1, WalkFacts
<1>3. PICK e \in [0 .. depth -> DOMAIN nodes] : WayUp(e)
  BY <1>1, WalkFacts
<1>4. /\ e[0] = index /\ e[depth] = current
      /\ \A m \in 0 .. depth : m # 0 => nodes[e[m - 1]].parent = e[m]
      /\ \A k \in 1 .. depth : parts[k] = nodes[e[depth - k]].name /\ parts[k] # Empty
  BY <1>3 DEF WayUp
<1>5. CASE parts = <<>> /\ Paths!Reject
  <2>1. depth = 0
    BY <1>2, <1>5
  <2>2. nodes[index].parent = NoParent
    BY <2>1, <1>1, <1>4
  <2>3. Reason
    BY <1>2, <2>2 DEF Reason, BadPath, Paths!PathBad
  <2> QED
    BY <1>5, <2>3, Rejected
<1>6. CASE /\ parts # <<>>
           /\ files' = Append(files, [node |-> index, path |-> parts])
           /\ Paths!Next1
           /\ UNCHANGED <<nodes, fileCount, pc, projected>>
  <2>1. /\ index' = index + 1 /\ current' = index + 1 /\ depth' = 0 /\ parts' = <<>>
        /\ depth # 0
    <3>1. depth # 0
      BY <1>2, <1>6
    <3> QED
      BY <1>6, <3>1 DEF Paths!Next1
  <2>2. Paths!IsPathOf(parts, index)
    <3>1. PICK chain \in [1 .. depth -> DOMAIN nodes] : \A k \in 1 .. depth : chain[k] = e[depth - k]
      <4> DEFINE chain == [k \in 1 .. depth |-> e[depth - k]]
      <4>1. \A k \in 1 .. depth : depth - k \in 0 .. depth
        BY <1>2
      <4>2. chain \in [1 .. depth -> DOMAIN nodes]
        BY <4>1
      <4>3. \A k \in 1 .. depth : chain[k] = e[depth - k]
        OBVIOUS
      <4> HIDE DEF chain
      <4> QED
        BY <4>2, <4>3
    <3>2. DOMAIN parts = 1 .. depth /\ Len(parts) = depth
      BY <1>2
    <3>3. chain[depth] = index
      <4>1. depth \in 1 .. depth /\ depth - depth = 0
        BY <1>2, <2>1
      <4> QED
        BY <3>1, <4>1, <1>4
    <3>4. nodes[chain[1]].parent = current /\ current # NoParent
      <4>1. 1 \in 1 .. depth /\ depth \in 0 .. depth
        BY <1>2, <2>1
      <4>2. chain[1] = e[depth - 1] /\ e[depth] \in DOMAIN nodes
        BY <3>1, <4>1
      <4>3. NoParent \notin Nat
        BY PathsAssumption DEF Paths!Assumptions
      <4> QED
        BY <4>1, <4>2, <4>3, <1>2, <1>4, <2>1
    <3>5. \A k \in 1 .. depth : parts[k] = nodes[chain[k]].name /\ parts[k] # Empty
      BY <3>1, <1>4
    <3>6. ASSUME NEW k \in 1 .. depth, k > 1 PROVE nodes[chain[k]].parent = chain[k - 1]
      <4>1. /\ k - 1 \in 1 .. depth /\ depth - (k - 1) \in 0 .. depth /\ depth - (k - 1) # 0
            /\ (depth - (k - 1)) - 1 = depth - k
        BY <1>2, <3>6
      <4>2. nodes[e[depth - k]].parent = e[depth - (k - 1)]
        BY <4>1, <1>4
      <4> QED
        BY <4>1, <4>2, <3>1
    <3> QED
      BY <1>1, <3>1, <3>2, <3>3, <3>4, <3>5, <3>6 DEF Paths!IsPathOf
  <2>3. FilesOK(index)'
    <3> DEFINE new == [node |-> index, path |-> parts]
    <3>1. /\ Len(files') = Len(files) + 1 /\ DOMAIN files' = DOMAIN files \cup {Len(files) + 1}
          /\ files'[Len(files) + 1] = new /\ \A k \in DOMAIN files : files'[k] = files[k]
      <4> HIDE DEF new
      <4>1. files' = Append(files, new)
        BY <1>6 DEF new
      <4> QED
        BY <4>1, <1>2
    <3>2. FilesBelow(index + 1) = FilesBelow(index) \cup {index} /\ index \notin FilesBelow(index)
      <4>1. Paths!FileNodes \subseteq Nat
        BY <1>2 DEF Paths!FileNodes
      <4> QED
        BY <1>2, <4>1 DEF FilesBelow
    <3>3. Cardinality(FilesBelow(index + 1)) = Cardinality(FilesBelow(index)) + 1
      <4>1. IsFiniteSet(FilesBelow(index))
        BY <1>2, FileNodesFinite
      <4> QED
        BY <3>2, <4>1, FS_AddElement
    <3>4. {files'[k].node : k \in DOMAIN files'} = {files[k].node : k \in DOMAIN files} \cup {index}
      BY <3>1
    <3>5. \A k \in DOMAIN files' : Paths!IsPathOf(files'[k].path, files'[k].node)
      <4>1. ASSUME NEW k \in DOMAIN files PROVE Paths!IsPathOf(files[k].path, files[k].node)
        BY <1>2 DEF FilesOK
      <4>2. new.path = parts /\ new.node = index
        OBVIOUS
      <4> HIDE DEF new
      <4> QED
        BY <3>1, <4>1, <4>2, <2>2
    <3>6. (\A k \in DOMAIN files : Paths!IsPathOf(files[k].path, files[k].node))'
      BY <1>6, <3>5 DEF Paths!IsPathOf
    <3>7. FilesBelow(index)' = FilesBelow(index + 1)
      BY <1>6, <2>1 DEF FilesBelow, Paths!FileNodes
    <3>8. ({files[k].node : k \in DOMAIN files})' = FilesBelow(index + 1)
      BY <1>2, <3>2, <3>4 DEF FilesOK
    <3>9. Len(files') = Cardinality(FilesBelow(index + 1))
      BY <1>2, <3>1, <3>3 DEF FilesOK
    <3> HIDE DEF new
    <3> QED
      BY <3>6, <3>7, <3>8, <3>9 DEF FilesOK
  <2>4. files' \in Seq(FileType)
    <3>1. [node |-> index, path |-> parts] \in FileType
      BY <1>2 DEF FileType
    <3> QED
      BY <1>2, <1>6, <3>1
  <2>5. WalkOK'
    BY <1>2, <1>6, <2>1, WalkBegins
  <2>6. ParsedOK'
    BY <1>2, <1>6, NodesUnchanged
  <2> QED
    BY <1>2, <1>6, <2>1, <2>3, <2>4, <2>5, <2>6 DEF PathInv
<1> QED
  BY <1>5, <1>6 DEF Paths!EndOfPath

\* After the last node all files are found.
LEMMA EndOfNodesStep ==
  ASSUME PathInv, Paths!EndOfNodes, UNCHANGED mappings
  PROVE  PathInv'
<1>1. /\ pc = "walk" /\ index > Len(nodes)
      /\ nodes \in Seq(Paths!NodeType) /\ fileCount \in Nat /\ files \in Seq(FileType)
      /\ depth \in Nat /\ Len(nodes) \in Nat /\ Len(files) \in Nat
      /\ FilesOK(index) /\ ParsedOK /\ projected = {} /\ WalkOK
  BY DEF PathInv, Paths!EndOfNodes
<1>2. FilesOK(Len(nodes) + 1) /\ FilesBelow(Len(nodes) + 1) = Paths!FileNodes
  <2>1. index = Len(nodes) + 1
    BY <1>1 DEF WalkOK
  <2> QED
    BY <1>1, <2>1, FileNodesFinite
<1>3. CASE Len(files) # fileCount /\ Paths!Reject
  <2>1. Reason
    BY <1>2, <1>3 DEF Reason, BadCount, FilesOK
  <2> QED
    BY <1>3, <2>1, Rejected
<1>4. CASE /\ pc' = "project" /\ index' = 1
           /\ UNCHANGED <<nodes, fileCount, current, depth, parts, files, projected>>
  <2>1. FilesOK(Len(nodes) + 1)'
    BY <1>2, <1>4, FilesUnchanged
  <2>2. ParsedOK'
    BY <1>1, <1>4, NodesUnchanged
  <2>3. ProjectedOK'
    BY <1>1, <1>4 DEF ProjectedOK, ProjectedApart
  <2> QED
    BY <1>1, <1>4, <2>1, <2>2, <2>3 DEF PathInv
<1> QED
  BY <1>3, <1>4 DEF Paths!EndOfNodes

\* A path projected is new and has a mapping, or is a reason to reject.
LEMMA ProjectFileStep ==
  ASSUME PathInv, Paths!ProjectFile(DOMAIN mappings), UNCHANGED mappings
  PROVE  PathInv'
<1> DEFINE p(k) == Paths!ProjectedPath(files[k].path)
<1>1. /\ pc = "project" /\ index <= Len(files)
      /\ nodes \in Seq(Paths!NodeType) /\ fileCount \in Nat /\ files \in Seq(FileType)
      /\ depth \in Nat /\ Len(nodes) \in Nat /\ Len(files) \in Nat
      /\ FilesOK(Len(nodes) + 1) /\ ParsedOK /\ ProjectedOK
  BY DEF PathInv, Paths!ProjectFile
<1>2. /\ index \in Nat \ {0} /\ index \in DOMAIN files
      /\ projected = {p(k) : k \in 1 .. index - 1}
      /\ \A k \in 1 .. index - 1 : Paths!EntryId(k) \in DOMAIN mappings
      /\ \A k, l \in 1 .. index - 1 : k # l => p(k) # p(l)
  BY <1>1 DEF ProjectedOK, ProjectedApart
<1>3. CASE Paths!EntryId(index) \notin DOMAIN mappings /\ Paths!Reject
  <2>1. Reason
    BY <1>2, <1>3 DEF Reason, BadId
  <2> QED
    BY <1>3, <2>1, Rejected
<1>4. CASE p(index) \in projected /\ Paths!Reject
  <2>1. PICK k \in 1 .. index - 1 : p(index) = p(k)
    BY <1>2, <1>4
  <2>2. k \in DOMAIN files /\ k # index
    BY <1>1, <1>2
  <2>3. Paths!PathsClash
    BY <1>2, <2>1, <2>2 DEF Paths!PathsClash
  <2> QED
    BY <1>4, <2>3, Rejected DEF Reason
<1>5. CASE /\ Paths!EntryId(index) \in DOMAIN mappings /\ p(index) \notin projected
           /\ projected' = projected \cup {p(index)}
           /\ index' = index + 1
           /\ UNCHANGED <<nodes, fileCount, pc, current, depth, parts, files>>
  <2>1. FilesOK(Len(nodes) + 1)'
    BY <1>1, <1>5, FilesUnchanged
  <2>2. ParsedOK'
    BY <1>1, <1>5, NodesUnchanged
  <2>3. ProjectedOK'
    <3>1. 1 .. index' - 1 = (1 .. index - 1) \cup {index}
      BY <1>2, <1>5
    <3>2. projected' = {p(k) : k \in 1 .. index' - 1}
      <4> HIDE DEF p
      <4> QED
        BY <1>2, <1>5, <3>1
    <3>3. \A k \in 1 .. index' - 1 : Paths!EntryId(k) \in DOMAIN mappings
      BY <1>2, <1>5, <3>1
    <3>4. \A k : Paths!ProjectedPath(files[k].path)' = p(k) /\ Paths!EntryId(k)' = Paths!EntryId(k)
      BY <1>5 DEF Paths!ProjectedPath, Paths!EntryId
    <3>5. index' \in Nat \ {0} /\ index' <= Len(files') + 1
      BY <1>1, <1>2, <1>5
    <3> HIDE DEF p
    <3>6. ASSUME NEW k \in 1 .. index' - 1, NEW l \in 1 .. index' - 1, k # l
          PROVE  p(k) # p(l)
      <4>1. \A m \in 1 .. index - 1 : p(m) # p(index)
        BY <1>2, <1>5
      <4> QED
        BY <1>2, <3>1, <3>6, <4>1
    <3>7. ProjectedApart'
      BY <3>4, <3>6 DEF ProjectedApart
    <3>8. (projected = {Paths!ProjectedPath(files[k].path) : k \in 1 .. index - 1})'
      BY <3>2, <3>4
    <3>9. (\A k \in 1 .. index - 1 : Paths!EntryId(k) \in DOMAIN mappings)'
      BY <3>3, <3>4
    <3> QED
      BY <3>5, <3>7, <3>8, <3>9 DEF ProjectedOK
  <2> HIDE DEF p
  <2> QED
    BY <1>1, <1>5, <2>1, <2>2, <2>3 DEF PathInv
<1> QED
  BY <1>3, <1>4, <1>5 DEF Paths!ProjectFile, Paths!Taken

\* What is accepted has been projected in whole.
LEMMA AcceptStep ==
  ASSUME PathInv, Paths!Accept, UNCHANGED mappings
  PROVE  PathInv'
<1>1. /\ pc = "project" /\ index > Len(files) /\ pc' = "accepted"
      /\ UNCHANGED <<nodes, fileCount, index, current, depth, parts, files, projected, mappings>>
  BY DEF Paths!Accept
<1>2. FilesOK(Len(nodes) + 1)' /\ ParsedOK' /\ ProjectedOK'
  <2>1. FilesOK(Len(nodes) + 1)'
    BY <1>1, FilesUnchanged DEF PathInv
  <2>2. ParsedOK'
    BY <1>1, NodesUnchanged DEF PathInv
  <2>3. ProjectedOK'
    <3>1. ProjectedOK
      BY <1>1 DEF PathInv
    <3>2. \A k : /\ Paths!ProjectedPath(files[k].path)' = Paths!ProjectedPath(files[k].path)
               /\ Paths!EntryId(k)' = Paths!EntryId(k)
      BY <1>1 DEF Paths!ProjectedPath, Paths!EntryId
    <3> QED
      BY <1>1, <3>1, <3>2 DEF ProjectedOK, ProjectedApart
  <2> QED
    BY <2>1, <2>2, <2>3
<1> QED
  BY <1>1, <1>2 DEF PathInv

-----------------------------------------------------------------------------
(***************************************************************************)
(* The entries of a blob.                                                  *)
(***************************************************************************)
\* A header that is right, of a blob whose cells are numbers.
LEMMA HeaderFacts ==
  ASSUME NEW b \in Seq(Nat), Metadata!HeaderRight(b)
  PROVE  /\ Metadata!Total(b) \in Nat /\ Metadata!Total(b) >= 3 /\ Metadata!Total(b) <= Len(b)
         /\ Len(b) \in Nat
         /\ \A p \in Nat : p + 2 < Metadata!Total(b) =>
               /\ b[p + 2] \in Nat /\ b[p + 1] \in Nat /\ b[p + 3] \in Nat
               /\ Metadata!EntryEnd(b, p) = p + 3 + b[p + 2]
               /\ Metadata!EntryEnd(b, p) \in Nat /\ Metadata!EntryEnd(b, p) >= p + 3
<1>1. /\ Len(b) \in Nat /\ Len(b) >= 3 /\ b[2] \in Nat /\ b[2] >= 3 /\ b[2] <= Len(b)
  BY DEF Metadata!HeaderRight, Metadata!HeaderSize, Metadata!Total
<1>2. ASSUME NEW p \in Nat, p + 2 < b[2]
      PROVE  /\ b[p + 2] \in Nat /\ b[p + 1] \in Nat /\ b[p + 3] \in Nat
             /\ Metadata!EntryEnd(b, p) = p + 3 + b[p + 2]
  <2>1. p + 1 \in 1 .. Len(b) /\ p + 2 \in 1 .. Len(b) /\ p + 3 \in 1 .. Len(b)
    BY <1>1, <1>2
  <2>2. b[p + 2] \in Nat /\ b[p + 1] \in Nat /\ b[p + 3] \in Nat
    BY <2>1
  <2> QED
    BY <2>2 DEF Metadata!EntryEnd, Metadata!EntryHeaderSize
<1>3. ASSUME NEW p \in Nat, p + 2 < b[2]
      PROVE  Metadata!EntryEnd(b, p) \in Nat /\ Metadata!EntryEnd(b, p) >= p + 3
  <2>1. b[p + 2] \in Nat /\ Metadata!EntryEnd(b, p) = p + 3 + b[p + 2]
    BY <1>2, <1>3
  <2>2. \A x \in Nat : p + 3 + x \in Nat /\ p + 3 + x >= p + 3
    OBVIOUS
  <2> QED
    BY <2>1, <2>2
<1> QED
  BY <1>1, <1>2, <1>3 DEF Metadata!Total

\* Boundaries are the least set that has the end of the header and, with each
\* entry's start, its end.
LEMMA BoundariesLeast ==
  ASSUME NEW b \in Seq(Nat), Metadata!HeaderRight(b)
  PROVE  /\ Metadata!Boundaries(b) \in SUBSET Nat
         /\ 3 \in Metadata!Boundaries(b)
         /\ \A p \in Metadata!Boundaries(b) :
               /\ p >= 3
               /\ p + 2 < Metadata!Total(b) =>
                     Metadata!EntryEnd(b, p) \in Metadata!Boundaries(b)
         /\ \A S : /\ 3 \in S
                   /\ \A p \in S : p + 2 < Metadata!Total(b) => Metadata!EntryEnd(b, p) \in S
                   => Metadata!Boundaries(b) \subseteq S
<1> DEFINE n == Metadata!Total(b)
           End(p) == Metadata!EntryEnd(b, p)
           More(x) == x \cup {End(p) : p \in {q \in x : q + 2 < n}}
           step == [k \in 1 .. n |-> [x \in SUBSET Nat |-> More(x)]]
           Walk(r) == r = [k \in 0 .. n |->
                              IF k = 0 THEN {3}
                              ELSE LET before == r[k - 1]
                                   IN  before \cup {End(p) : p \in {q \in before : q + 2 < n}}]
           r == CHOOSE r : Walk(r)
<1>1. /\ n \in Nat /\ n >= 3
      /\ \A p \in Nat : p + 2 < n => End(p) \in Nat /\ End(p) >= p + 3
  BY HeaderFacts
<1>2. step \in [1 .. n -> [SUBSET Nat -> SUBSET Nat]]
  <2>1. \A x \in SUBSET Nat : More(x) \in SUBSET Nat
    <3> HIDE DEF n, End
    <3> QED
      BY <1>1
  <2> HIDE DEF More, n
  <2> QED
    BY <2>1
<1> HIDE DEF n, End
<1>3. PICK g \in [0 .. n -> SUBSET Nat] : Iterates(g, {3}, step, n)
  <2>1. {3} \in SUBSET Nat
    OBVIOUS
  <2> HIDE DEF step
  <2> QED
    BY <1>1, <1>2, <2>1, IterationExists
<1>4. Walk(g)
  <2>1. ASSUME NEW k \in 0 .. n PROVE g[k] = IF k = 0 THEN {3} ELSE More(g[k - 1])
    <3>1. g[k] = IF k = 0 THEN {3} ELSE step[k][g[k - 1]]
      <4> HIDE DEF step
      <4> QED
        BY <1>3 DEF Iterates
    <3>2. CASE k # 0
      <4>1. k \in 1 .. n /\ g[k - 1] \in SUBSET Nat
        BY <1>1, <1>3, <3>2
      <4> HIDE DEF More
      <4> QED
        BY <4>1, <3>1, <3>2
    <3> QED
      BY <3>1, <3>2
  <2> HIDE DEF step
  <2> QED
    BY <2>1, <1>3
<1>5. Walk(r)
  <2> HIDE DEF Walk
  <2> QED
    BY <1>4
<1>6. \A k \in 0 .. n : r[k] = IF k = 0 THEN {3} ELSE More(r[k - 1])
  <2> HIDE DEF r
  <2> QED
    BY <1>5
<1>7. Metadata!Boundaries(b) = r[n]
  BY DEF Metadata!Boundaries, Metadata!HeaderSize, Metadata!EntryHeaderSize, n, End
<1> HIDE DEF r, step, Walk
<1>zero. r[0] = {3}
  <2> HIDE DEF More
  <2>1. 0 \in 0 .. n
    BY <1>1
  <2> QED
    BY <2>1, <1>6
<1>8. \A k \in 0 .. n : r[k] \in SUBSET Nat /\ \A p \in r[k] : p >= 3
  <2> DEFINE bad == {k \in 0 .. n : ~(r[k] \in SUBSET Nat /\ \A p \in r[k] : p >= 3)}
  <2> SUFFICES ASSUME bad # {} PROVE FALSE
    OBVIOUS
  <2>1. PICK k \in bad : \A j \in bad : k <= j
    <3>1. bad \in SUBSET Nat
      BY <1>1
    <3> HIDE DEF bad
    <3> QED
      BY <3>1, NatLeast
  <2>10. r[0] = {3}
    BY <1>zero
  <2>2. k \in 0 .. n /\ k # 0
    BY <2>1, <2>10
  <2>3. k - 1 \in 0 .. n /\ ~(k <= k - 1)
    BY <2>2, <1>1
  <2>4. r[k - 1] \in SUBSET Nat /\ \A p \in r[k - 1] : p >= 3
    BY <2>1, <2>3
  <2>5. r[k] = More(r[k - 1])
    BY <1>6, <2>2
  <2>6. r[k] \in SUBSET Nat /\ \A p \in r[k] : p >= 3
    <3>1. \A p \in r[k - 1] : p + 2 < n => End(p) \in Nat /\ End(p) >= 3
      <4>1. \A x, y \in Nat : x >= y + 3 => x >= 3
        OBVIOUS
      <4> HIDE DEF More, bad
      <4> QED
        BY <1>1, <2>4, <4>1
    <3> QED
      BY <2>4, <2>5, <3>1
  <2> QED
    BY <2>1, <2>6
<1>9. ASSUME NEW k \in 0 .. n, NEW m \in 0 .. n, k <= m PROVE r[k] \subseteq r[m]
  <2> DEFINE bad == {j \in 0 .. n : k <= j /\ ~(r[k] \subseteq r[j])}
  <2> SUFFICES ASSUME bad # {} PROVE FALSE
    BY <1>9
  <2>1. PICK j \in bad : \A l \in bad : j <= l
    <3>1. bad \in SUBSET Nat
      BY <1>1
    <3> HIDE DEF bad
    <3> QED
      BY <3>1, NatLeast
  <2>2. j \in 0 .. n /\ k <= j /\ ~(r[k] \subseteq r[j])
    BY <2>1
  <2>3. j # k
    BY <2>2
  <2>4. j - 1 \in 0 .. n /\ k <= j - 1 /\ j # 0 /\ ~(j <= j - 1)
    BY <2>2, <2>3, <1>1
  <2>5. r[k] \subseteq r[j - 1]
    BY <2>1, <2>4
  <2>6. r[j] = More(r[j - 1])
    BY <1>6, <2>2, <2>4
  <2> QED
    BY <2>2, <2>5, <2>6
\* A boundary is found in as many turns as there are cells before it.
<1>10. \A k \in 0 .. n : \A p \in r[k] : \E m \in 0 .. n : m + 3 <= p /\ p \in r[m]
  <2> DEFINE early(p) == \E m \in 0 .. n : m + 3 <= p /\ p \in r[m]
             bad == {k \in 0 .. n : \E p \in r[k] : ~early(p)}
  <2> SUFFICES ASSUME bad # {} PROVE FALSE
    OBVIOUS
  <2>1. PICK k \in bad : \A j \in bad : k <= j
    <3>1. bad \in SUBSET Nat
      BY <1>1
    <3> HIDE DEF bad
    <3> QED
      BY <3>1, NatLeast
  <2>2. k \in 0 .. n
    BY <2>1
  <2>3. PICK p \in r[k] : ~early(p)
    BY <2>1
  <2>4. k # 0
    <3> SUFFICES ASSUME k = 0 PROVE FALSE
      OBVIOUS
    <3>1. p = 3 /\ p \in r[0] /\ 0 \in 0 .. n
      BY <1>1, <1>6, <2>3
    <3>2. early(p)
      BY <3>1
    <3> QED
      BY <3>2, <2>3
  <2>5. k - 1 \in 0 .. n /\ ~(k <= k - 1)
    BY <2>2, <2>4, <1>1
  <2>6. \A q \in r[k - 1] : early(q)
    <3> HIDE DEF early
    <3> QED
      BY <2>1, <2>5
  <2>7. r[k] = More(r[k - 1])
    BY <1>6, <2>2, <2>4
  <2>8. PICK q \in r[k - 1] : q + 2 < n /\ p = End(q)
    BY <2>3, <2>6, <2>7
  <2>9. PICK m \in 0 .. n : m + 3 <= q /\ q \in r[m]
    BY <2>6
  <2>10. q \in Nat /\ p \in Nat /\ p >= q + 3
    BY <1>1, <1>8, <2>5, <2>8
  <2>11. m + 1 \in 0 .. n /\ m + 1 # 0 /\ (m + 1) - 1 = m /\ (m + 1) + 3 <= p
    <3>1. \A x, y, z, w \in Nat : x + 3 <= y /\ y + 2 < z /\ w >= y + 3 =>
             x + 1 \in 0 .. z /\ x + 1 # 0 /\ (x + 1) - 1 = x /\ (x + 1) + 3 <= w
      OBVIOUS
    <3> HIDE DEF More, early, bad
    <3>2. m \in Nat /\ m + 3 <= q /\ q + 2 < n
      BY <1>1, <2>8, <2>9
    <3> QED
      BY <1>1, <2>10, <3>1, <3>2
  <2>12. p \in r[m + 1]
    <3>1. r[m + 1] = More(r[m])
      BY <1>6, <2>11
    <3> QED
      BY <3>1, <2>8, <2>9
  <2> QED
    BY <2>3, <2>11, <2>12
<1>11. ASSUME NEW p \in r[n], p + 2 < n PROVE End(p) \in r[n]
  <2>1. n \in 0 .. n
    BY <1>1
  <2>2. PICK m \in 0 .. n : m + 3 <= p /\ p \in r[m]
    BY <1>10, <2>1
  <2>3. p \in Nat
    BY <1>8, <2>1
  <2>4. m + 1 \in 0 .. n /\ m + 1 # 0 /\ (m + 1) - 1 = m /\ m + 1 <= n
    <3>1. \A x, y, z \in Nat : x + 3 <= y /\ y + 2 < z =>
             x + 1 \in 0 .. z /\ x + 1 # 0 /\ (x + 1) - 1 = x /\ x + 1 <= z
      OBVIOUS
    <3> HIDE DEF More
    <3>2. m \in Nat /\ m + 3 <= p /\ p + 2 < n
      BY <1>1, <1>11, <2>2
    <3> QED
      BY <1>1, <2>3, <3>1, <3>2
  <2>5. r[m + 1] = More(r[m])
    BY <1>6, <2>4
  <2>6. End(p) \in r[m + 1]
    BY <2>2, <2>5, <1>11
  <2> HIDE DEF More
  <2> QED
    BY <2>1, <2>4, <2>6, <1>9
<1>12. ASSUME NEW S, 3 \in S, \A p \in S : p + 2 < n => End(p) \in S
       PROVE  \A k \in 0 .. n : r[k] \subseteq S
  <2> DEFINE bad == {k \in 0 .. n : ~(r[k] \subseteq S)}
  <2> SUFFICES ASSUME bad # {} PROVE FALSE
    OBVIOUS
  <2>1. PICK k \in bad : \A j \in bad : k <= j
    <3>1. bad \in SUBSET Nat
      BY <1>1
    <3> HIDE DEF bad
    <3> QED
      BY <3>1, NatLeast
  <2>2. k \in 0 .. n /\ k # 0
    BY <2>1, <1>6, <1>1, <1>12
  <2>3. k - 1 \in 0 .. n /\ ~(k <= k - 1)
    BY <2>2, <1>1
  <2>4. r[k - 1] \subseteq S
    BY <2>1, <2>3
  <2>5. r[k] = More(r[k - 1])
    BY <1>6, <2>2
  <2>6. r[k] \subseteq S
    BY <1>12, <2>4, <2>5
  <2> QED
    BY <2>1, <2>6
<1>13. 3 \in r[n]
  <2>1. 0 \in 0 .. n /\ n \in 0 .. n /\ 0 <= n /\ 3 \in r[0]
    BY <1>1, <1>zero
  <2> QED
    BY <2>1, <1>9
<1>14. n \in 0 .. n
  BY <1>1
<1>15. /\ r[n] \in SUBSET Nat
       /\ \A p \in r[n] : p >= 3 /\ (p + 2 < n => End(p) \in r[n])
  BY <1>8, <1>11, <1>14
<1>16. \A S : 3 \in S /\ (\A p \in S : p + 2 < n => End(p) \in S) => r[n] \subseteq S
  BY <1>12, <1>14
<1> HIDE DEF More
<1> QED
  BY <1>7, <1>13, <1>15, <1>16 DEF n, End

\* The entries before p, and what the parser knows when it has come to p.
Before(b, p) == {q \in Metadata!Boundaries(b) : q < p}
KeysBefore(b, p) == {Metadata!EntryKey(b, q) : q \in Before(b, p)}
ParsedTo(b, p, v) ==
    /\ b \in Seq(Nat) /\ Metadata!HeaderRight(b)
    /\ p \in Metadata!Boundaries(b) /\ p <= Metadata!Total(b)
    /\ \A q \in Before(b, p) :
          /\ q + 2 < Metadata!Total(b) /\ b[q + 1] = KeyWidth /\ Metadata!EntryEnd(b, q) <= p
    /\ \A q, s \in Before(b, p) : Metadata!EntryKey(b, q) = Metadata!EntryKey(b, s) => q = s
    /\ v \in [KeysBefore(b, p) -> {Metadata!EntryValue(b, q) : q \in Before(b, p)}]
    /\ \A q \in Before(b, p) : v[Metadata!EntryKey(b, q)] = Metadata!EntryValue(b, q)

\* Before the first entry nothing is parsed.
LEMMA ParseBegins ==
  ASSUME NEW b \in Seq(Nat), Metadata!HeaderRight(b)
  PROVE  ParsedTo(b, 3, <<>>)
<1>1. Before(b, 3) = {}
  <2>1. \A q \in Metadata!Boundaries(b) : q \in Nat /\ q >= 3
    BY BoundariesLeast
  <2>2. \A q \in Metadata!Boundaries(b) : ~(q < 3)
    BY <2>1
  <2> QED
    BY <2>2 DEF Before
<1>2. KeysBefore(b, 3) = {}
  BY <1>1 DEF KeysBefore
<1>3. <<>> \in [{} -> {Metadata!EntryValue(b, q) : q \in {}}]
  OBVIOUS
<1>4. 3 \in Metadata!Boundaries(b) /\ 3 <= Metadata!Total(b)
  BY BoundariesLeast, HeaderFacts
<1> QED
  BY <1>1, <1>2, <1>3, <1>4 DEF ParsedTo

\* No entry begins inside another.
LEMMA NextBoundary ==
  ASSUME NEW b, NEW p, NEW v, ParsedTo(b, p, v), p + 2 < Metadata!Total(b)
  PROVE  /\ p \in Nat
         /\ Metadata!EntryEnd(b, p) \in Metadata!Boundaries(b)
         /\ Metadata!EntryEnd(b, p) >= p + 3
         /\ Before(b, Metadata!EntryEnd(b, p)) = Before(b, p) \cup {p}
<1> DEFINE B == Metadata!Boundaries(b)
           End(q) == Metadata!EntryEnd(b, q)
           n == Metadata!Total(b)
           C == {q \in B : q <= p \/ q >= End(p)}
<1>1. /\ b \in Seq(Nat) /\ Metadata!HeaderRight(b) /\ p \in B /\ p + 2 < n
      /\ \A q \in B : q < p => End(q) <= p
  BY DEF ParsedTo, Before
<1>2. /\ B \in SUBSET Nat /\ 3 \in B
      /\ \A q \in B : q >= 3 /\ (q + 2 < n => End(q) \in B)
      /\ \A S : 3 \in S /\ (\A q \in S : q + 2 < n => End(q) \in S) => B \subseteq S
  BY <1>1, BoundariesLeast
<1>3. \A q \in Nat : q + 2 < n => End(q) \in Nat /\ End(q) >= q + 3
  BY <1>1, HeaderFacts
<1>4. B \subseteq C
  <2> HIDE DEF B, End, n
  <2>1. 3 \in C
    BY <1>1, <1>2
  <2>2. ASSUME NEW q \in C, q + 2 < n PROVE End(q) \in C
    <3>1. q \in B /\ q \in Nat /\ p \in Nat /\ End(q) \in B /\ End(q) >= q + 3 /\ End(q) \in Nat
      BY <1>1, <1>2, <1>3, <2>2
    <3>2. CASE q < p
      BY <3>1, <3>2, <1>1
    <3>3. CASE q = p
      BY <3>1, <3>3
    <3>4. CASE q >= End(p)
      <4>1. End(p) \in Nat
        BY <1>1, <1>2, <1>3
      <4> QED
        BY <3>1, <3>4, <4>1
    <3> QED
      BY <2>2, <3>1, <3>2, <3>3, <3>4
  <2> HIDE DEF C
  <2> QED
    BY <2>1, <2>2, <1>2
<1>5. Before(b, End(p)) = Before(b, p) \cup {p}
  <2>1. p \in Nat /\ End(p) \in Nat /\ End(p) >= p + 3
    BY <1>1, <1>2, <1>3
  <2>2. \A q \in B : q \in Nat /\ (q <= p \/ q >= End(p))
    BY <1>2, <1>4
  <2> HIDE DEF B, End
  <2>3. \A q \in B : q < End(p) <=> q < p \/ q = p
    <3> SUFFICES ASSUME NEW q \in B PROVE q < End(p) <=> q < p \/ q = p
      OBVIOUS
    <3>1. q \in Nat /\ (q <= p \/ q >= End(p))
      BY <2>2
    <3> QED
      BY <3>1, <2>1
  <2>4. {q \in B : q < End(p)} = {q \in B : q < p} \cup {p}
    BY <1>1, <2>3
  <2> QED
    BY <2>4 DEF Before, B
<1> QED
  BY <1>1, <1>2, <1>3, <1>5

\* An entry that is right adds its key and value to what the parser has.
LEMMA EntryParsed ==
  ASSUME ParsedTo(bytes, position, values), Metadata!EntryRight,
         NEW w, w = [k \in DOMAIN values \cup {Metadata!EntryKey(bytes, position)} |->
                       IF k = Metadata!EntryKey(bytes, position)
                       THEN Metadata!EntryValue(bytes, position) ELSE values[k]],
         position < Metadata!Total(bytes)
  PROVE  ParsedTo(bytes, Metadata!EntryEnd(bytes, position), w)
<1> DEFINE B == Before(bytes, position)
           e == Metadata!EntryEnd(bytes, position)
           Key(q) == Metadata!EntryKey(bytes, q)
           Val(q) == Metadata!EntryValue(bytes, q)
           n == Metadata!Total(bytes)
<1>1. /\ bytes \in Seq(Nat) /\ Metadata!HeaderRight(bytes)
      /\ position \in Metadata!Boundaries(bytes) /\ position <= n
      /\ \A q \in B : q + 2 < n /\ bytes[q + 1] = KeyWidth /\ Metadata!EntryEnd(bytes, q) <= position
      /\ \A q, s \in B : Key(q) = Key(s) => q = s
      /\ values \in [{Key(q) : q \in B} -> {Val(q) : q \in B}]
      /\ \A q \in B : values[Key(q)] = Val(q)
  BY DEF ParsedTo, KeysBefore
<1>2. n \in Nat /\ n <= Len(bytes) /\ Len(bytes) \in Nat
  BY <1>1, HeaderFacts
<1>3. position \in Nat
  BY <1>1, BoundariesLeast
<1>4. /\ position + 2 <= Len(bytes) /\ bytes[position + 1] = KeyWidth
      /\ e <= n /\ Key(position) \notin DOMAIN values
  BY DEF Metadata!EntryRight, Metadata!EntryHeaderSize, Metadata!IsNew
<1>5. position + 2 < n
  <2>1. position + 1 \in 1 .. Len(bytes) /\ position + 2 \in 1 .. Len(bytes)
    BY <1>2, <1>3, <1>4
  <2>2. bytes[position + 2] \in Nat
    BY <1>1, <2>1
  <2>3. e = position + 3 + bytes[position + 2]
    BY <1>3, <2>2 DEF Metadata!EntryEnd, Metadata!EntryHeaderSize
  <2> HIDE DEF e, n
  <2> QED
    BY <1>2, <1>3, <1>4, <2>2, <2>3
<1>6. e \in Metadata!Boundaries(bytes) /\ e >= position + 3 /\ Before(bytes, e) = B \cup {position}
  BY <1>5, NextBoundary
<1>7. position \notin B
  BY <1>3 DEF Before
<1>8. \A q \in B : Key(q) \in DOMAIN values /\ Key(q) # Key(position)
  <2> HIDE DEF Key, B, Val
  <2> QED
    BY <1>1, <1>4
<1>9. \A q \in B \cup {position} :
         q + 2 < n /\ bytes[q + 1] = KeyWidth /\ Metadata!EntryEnd(bytes, q) <= e
  <2>1. ASSUME NEW q \in B PROVE Metadata!EntryEnd(bytes, q) <= e
    <3>1. q \in Nat /\ q + 2 < n
      BY <1>1, BoundariesLeast DEF Before
    <3>2. Metadata!EntryEnd(bytes, q) \in Nat /\ e \in Nat
      BY <3>1, <1>1, <1>3, <1>5, HeaderFacts
    <3>3. Metadata!EntryEnd(bytes, q) <= position
      BY <1>1
    <3> HIDE DEF e
    <3> QED
      BY <3>2, <3>3, <1>3, <1>6
  <2>2. e <= e
    <3>1. e \in Nat
      BY <1>1, <1>3, <1>5, HeaderFacts
    <3> QED
      BY <3>1
  <2> QED
    BY <2>1, <2>2, <1>1, <1>4, <1>5
<1>10. \A q, s \in B \cup {position} : Key(q) = Key(s) => q = s
  <2> HIDE DEF Key, B
  <2> QED
    BY <1>1, <1>8
<1>11. /\ w \in [{Key(q) : q \in B \cup {position}} -> {Val(q) : q \in B \cup {position}}]
       /\ \A q \in B \cup {position} : w[Key(q)] = Val(q)
  <2> HIDE DEF Key, B, Val
  <2>1. w = [k \in DOMAIN values \cup {Key(position)} |->
                IF k = Key(position) THEN Val(position) ELSE values[k]]
    BY DEF Key, Val
  <2>2. DOMAIN values = {Key(q) : q \in B}
    BY <1>1
  <2>3. DOMAIN values \cup {Key(position)} = {Key(q) : q \in B \cup {position}}
    BY <2>2
  <2>4. \A k \in DOMAIN values : values[k] \in {Val(q) : q \in B}
    BY <1>1
  <2>5. \A k \in DOMAIN values \cup {Key(position)} :
           (IF k = Key(position) THEN Val(position) ELSE values[k]) \in {Val(q) : q \in B \cup {position}}
    BY <2>4
  <2>6. w \in [{Key(q) : q \in B \cup {position}} -> {Val(q) : q \in B \cup {position}}]
    BY <2>1, <2>3, <2>5
  <2>7. \A q \in B \cup {position} : w[Key(q)] = Val(q)
    BY <1>1, <1>8, <2>1
  <2> QED
    BY <2>6, <2>7
<1> HIDE DEF Key, Val, B
<1>12. w \in [KeysBefore(bytes, e) -> {Metadata!EntryValue(bytes, q) : q \in Before(bytes, e)}]
  BY <1>6, <1>11 DEF KeysBefore, Key, Val
<1>13. /\ \A q \in Before(bytes, e) : w[Metadata!EntryKey(bytes, q)] = Metadata!EntryValue(bytes, q)
       /\ \A q, s \in Before(bytes, e) :
             Metadata!EntryKey(bytes, q) = Metadata!EntryKey(bytes, s) => q = s
  BY <1>6, <1>10, <1>11 DEF Key, Val
<1> HIDE DEF e
<1>14. ParsedTo(bytes, e, w)
  BY <1>1, <1>4, <1>6, <1>9, <1>12, <1>13 DEF ParsedTo
<1> QED
  BY <1>14 DEF e

\* An entry that is refused leaves nothing that is a blob.
LEMMA EntryRefused ==
  ASSUME ParsedTo(bytes, position, values), ~Metadata!EntryRight,
         position < Metadata!Total(bytes)
  PROVE  ~Metadata!WellFormed(bytes)
<1> DEFINE e == Metadata!EntryEnd(bytes, position)
           Key(q) == Metadata!EntryKey(bytes, q)
           n == Metadata!Total(bytes)
<1> SUFFICES ASSUME Metadata!WellFormed(bytes) PROVE FALSE
  OBVIOUS
<1>1. /\ bytes \in Seq(Nat) /\ Metadata!HeaderRight(bytes)
      /\ position \in Metadata!Boundaries(bytes)
      /\ values \in [KeysBefore(bytes, position) -> {Metadata!EntryValue(bytes, q) : q \in Before(bytes, position)}]
  BY DEF ParsedTo
<1>2. n \in Nat /\ n <= Len(bytes) /\ Len(bytes) \in Nat
  BY <1>1, HeaderFacts
<1>3. position \in Nat
  BY <1>1, BoundariesLeast
<1>4. position \in Metadata!Starts(bytes)
  BY <1>1, <1>2, <1>3 DEF Metadata!Starts
<1>5. position + 2 < n /\ bytes[position + 1] = KeyWidth
  BY <1>4 DEF Metadata!WellFormed, Metadata!EntryHeaderSize
<1>6. e \in Metadata!Boundaries(bytes) /\ e \in Nat
  BY <1>1, <1>3, <1>5, BoundariesLeast, HeaderFacts
<1>7. e <= n
  <2>1. CASE e = n
    BY <2>1, <1>2
  <2>2. CASE e # n
    <3>1. e + 2 < n
      BY <1>6, <2>2 DEF Metadata!Starts, Metadata!WellFormed, Metadata!EntryHeaderSize
    <3> HIDE DEF e, n
    <3> QED
      BY <3>1, <1>2, <1>6
  <2> QED
    BY <2>1, <2>2
<1>8. Key(position) \notin DOMAIN values
  <2> SUFFICES ASSUME Key(position) \in DOMAIN values PROVE FALSE
    OBVIOUS
  <2>1. PICK q \in Before(bytes, position) : Key(position) = Key(q)
    BY <1>1 DEF KeysBefore
  <2>2. q \in Metadata!Boundaries(bytes) /\ q < position
    BY <2>1 DEF Before
  <2>3. q \in Nat
    BY <1>1, <2>2, BoundariesLeast
  <2>4. q # n /\ q # position
    <3> HIDE DEF n
    <3> QED
      BY <1>2, <1>3, <1>5, <2>2, <2>3
  <2>5. q \in Metadata!Starts(bytes)
    BY <2>2, <2>4 DEF Metadata!Starts
  <2> QED
    BY <1>4, <2>1, <2>4, <2>5 DEF Metadata!WellFormed
<1>9. e <= Len(bytes) /\ position + 2 <= Len(bytes)
  <2> HIDE DEF e, n
  <2> QED
    BY <1>2, <1>3, <1>5, <1>6, <1>7
<1> QED
  BY <1>5, <1>7, <1>8, <1>9 DEF Metadata!EntryRight, Metadata!EntryHeaderSize, Metadata!IsNew

\* When the entries end, the whole is a blob and its values are found.
LEMMA ParseEnds ==
  ASSUME NEW b, NEW p, NEW v, ParsedTo(b, p, v), p >= Metadata!Total(b)
  PROVE  p = Metadata!Total(b) /\ Metadata!WellFormed(b) /\ v = Metadata!ValuesOf(b)
<1> DEFINE B == Metadata!Boundaries(b)
           End(q) == Metadata!EntryEnd(b, q)
           Key(q) == Metadata!EntryKey(b, q)
           Val(q) == Metadata!EntryValue(b, q)
           n == Metadata!Total(b)
           S == Metadata!Starts(b)
<1>1. /\ b \in Seq(Nat) /\ Metadata!HeaderRight(b) /\ p \in B /\ p <= n /\ p >= n
      /\ \A q \in Before(b, p) : q + 2 < n /\ b[q + 1] = KeyWidth /\ End(q) <= p
      /\ \A q, s \in Before(b, p) : Key(q) = Key(s) => q = s
      /\ v \in [{Key(q) : q \in Before(b, p)} -> {Val(q) : q \in Before(b, p)}]
      /\ \A q \in Before(b, p) : v[Key(q)] = Val(q)
  BY DEF ParsedTo, KeysBefore
<1>2. /\ B \in SUBSET Nat /\ 3 \in B
      /\ \A q \in B : q >= 3 /\ (q + 2 < n => End(q) \in B)
      /\ \A C : 3 \in C /\ (\A q \in C : q + 2 < n => End(q) \in C) => B \subseteq C
      /\ n \in Nat /\ n >= 3
  BY <1>1, BoundariesLeast, HeaderFacts
<1>3. p = n
  <2> HIDE DEF n, B
  <2> QED
    BY <1>1, <1>2
<1>4. \A q \in B : q <= n
  <2> DEFINE C == {q \in B : q <= n}
  <2>1. 3 \in C
    BY <1>2
  <2>2. ASSUME NEW q \in C, q + 2 < n PROVE End(q) \in C
    <3>1. q \in B /\ q \in Nat /\ End(q) \in B
      BY <1>2, <2>2
    <3>2. q \in Before(b, p)
      <4>1. q < p
        <5> HIDE DEF n, B
        <5> QED
          BY <1>2, <1>3, <2>2, <3>1
      <4> QED
        BY <3>1, <4>1 DEF Before
    <3> QED
      BY <1>1, <1>3, <3>1, <3>2
  <2>3. B \subseteq C
    <3> HIDE DEF C, B, n, End
    <3> QED
      BY <1>2, <2>1, <2>2
  <2> QED
    BY <2>3
<1>5. S = Before(b, p)
  <2>1. \A q \in B : q # n <=> q < n
    <3> HIDE DEF B, n
    <3> QED
      BY <1>2, <1>4
  <2> QED
    BY <1>3, <2>1 DEF Before, Metadata!Starts
<1>6. Metadata!WellFormed(b)
  <2> HIDE DEF B, S, n, End, Key, Val
  <2>1. (\A q \in S : q + 2 < n /\ b[q + 1] = KeyWidth) /\ n \in B
    BY <1>1, <1>3, <1>5
  <2>2. \A q, s \in S : Key(q) = Key(s) => q = s
    BY <1>1, <1>5
  <2> QED
    BY <1>1, <2>1, <2>2 DEF Metadata!WellFormed, Metadata!EntryHeaderSize, B, S, n, Key
<1>7. v = Metadata!ValuesOf(b)
  <2> HIDE DEF S, Key, Val
  <2> DEFINE u == [k \in {Key(q) : q \in S} |-> Val(CHOOSE q \in S : Key(q) = k)]
  <2>1. ASSUME NEW k \in {Key(q) : q \in S} PROVE v[k] = u[k]
    <3>1. PICK q \in S : k = Key(q)
      OBVIOUS
    <3>2. (CHOOSE s \in S : Key(s) = k) = q
      <4>1. \A s \in S : Key(s) = k <=> s = q
        BY <3>1, <1>1, <1>5
      <4> QED
        BY <3>1, <4>1
    <3>3. v[k] = Val(q)
      BY <3>1, <1>1, <1>5
    <3> QED
      BY <3>2, <3>3
  <2>2. v = [k \in {Key(q) : q \in S} |-> v[k]]
    BY <1>1, <1>5
  <2>3. v = u
    BY <2>1, <2>2
  <2> QED
    BY <2>3 DEF Metadata!ValuesOf, S, Key, Val
<1> QED
  BY <1>3, <1>6, <1>7

\* Sequences that begin alike have the same parts there.
LEMMA SameSubSeq ==
  ASSUME NEW b \in Seq(Nat), NEW f \in Seq(Nat), NEW m \in Nat \ {0}, NEW e \in Nat,
         e <= Len(b), e <= Len(f), \A i \in 1 .. e : b[i] = f[i]
  PROVE  SubSeq(b, m, e) = SubSeq(f, m, e)
<1> DEFINE u == SubSeq(b, m, e)
           v == SubSeq(f, m, e)
<1>1. /\ u \in Seq(Nat) /\ v \in Seq(Nat) /\ Len(u) = Len(v)
      /\ Len(u) = IF m <= e THEN e - m + 1 ELSE 0
      /\ \A i \in 1 .. e - m + 1 : u[i] = b[m + i - 1] /\ v[i] = f[m + i - 1]
  <2>1. \A i \in m .. e : b[i] \in Nat /\ f[i] \in Nat
    OBVIOUS
  <2> QED
    BY <2>1, SubSeqProperties
<1>2. \A i \in 1 .. Len(u) : u[i] = v[i]
  <2> SUFFICES ASSUME NEW i \in 1 .. Len(u) PROVE u[i] = v[i]
    OBVIOUS
  <2> HIDE DEF u, v
  <2>1. m <= e /\ i \in 1 .. e - m + 1 /\ m + i - 1 \in 1 .. e
    BY <1>1
  <2> QED
    BY <1>1, <2>1
<1> HIDE DEF u, v
<1>3. u = v
  BY <1>1, <1>2, SeqEqual
<1> QED
  BY <1>3 DEF u, v

\* b is the first part of f, perhaps all of it.
Begins(b, f) ==
    b \in Seq(Nat) /\ f \in Seq(Nat) /\ Len(b) <= Len(f) /\ \A i \in 1 .. Len(b) : b[i] = f[i]

\* What follows a blob in its file does not change the blob's entries.
LEMMA EntriesOfPart ==
  ASSUME NEW b, NEW f, Begins(b, f), Metadata!HeaderRight(b)
  PROVE  /\ Metadata!HeaderRight(f) /\ Metadata!Total(f) = Metadata!Total(b)
         /\ \A p \in Nat : p + 2 < Metadata!Total(b) =>
               /\ Metadata!EntryEnd(f, p) = Metadata!EntryEnd(b, p)
               /\ Metadata!EntryKey(f, p) = Metadata!EntryKey(b, p)
               /\ f[p + 1] = b[p + 1]
               /\ Metadata!EntryEnd(b, p) <= Metadata!Total(b) =>
                     Metadata!EntryValue(f, p) = Metadata!EntryValue(b, p)
<1> DEFINE n == Metadata!Total(b)
<1>1. /\ b \in Seq(Nat) /\ f \in Seq(Nat) /\ Len(b) \in Nat /\ Len(f) \in Nat /\ Len(b) <= Len(f)
      /\ \A i \in 1 .. Len(b) : b[i] = f[i]
      /\ n \in Nat /\ n >= 3 /\ n <= Len(b)
  BY HeaderFacts DEF Begins
<1>2. b[1] = f[1] /\ b[2] = f[2] /\ b[3] = f[3]
  <2>1. 1 \in 1 .. Len(b) /\ 2 \in 1 .. Len(b) /\ 3 \in 1 .. Len(b)
    BY <1>1
  <2> QED
    BY <2>1, <1>1
<1>3. Metadata!HeaderRight(f) /\ Metadata!Total(f) = n
  <2>1. /\ b[3] \in Nat /\ b[2] \in Nat /\ Len(b) >= 3 /\ b[1] = BlobMagic /\ b[2] >= 3
        /\ b[2] <= Len(b) /\ b[3] <= Len(b) - b[2]
    <3>1. 3 \in 1 .. Len(b) /\ 2 \in 1 .. Len(b)
      BY <1>1
    <3>2. b[3] \in Nat /\ b[2] \in Nat
      <4>1. b \in Seq(Nat)
        BY <1>1
      <4> QED
        BY <3>1, <4>1
    <3>3. /\ Len(b) >= 3 /\ b[1] = BlobMagic /\ b[2] >= 3
          /\ b[2] <= Len(b) /\ b[3] <= Len(b) - b[2]
      BY DEF Metadata!HeaderRight, Metadata!HeaderSize, Metadata!Total, Metadata!Slack
    <3> QED
      BY <3>2, <3>3
  <2>2. f[2] <= Len(f) /\ f[3] <= Len(f) - f[2] /\ Len(f) >= 3
    <3>1. b[2] \in Nat /\ b[3] \in Nat /\ Len(b) <= Len(f) /\ Len(b) \in Nat /\ Len(f) \in Nat
      BY <1>1, <2>1
    <3>2. \A x, y, l, m \in Nat : x <= l /\ y <= l - x /\ l <= m => x <= m /\ y <= m - x
      OBVIOUS
    <3>3. b[2] <= Len(f) /\ b[3] <= Len(f) - b[2]
      BY <2>1, <3>1, <3>2
    <3> QED
      BY <3>1, <3>3, <1>2, <2>1
  <2> QED
    BY <1>2, <2>1, <2>2 DEF Metadata!HeaderRight, Metadata!HeaderSize, Metadata!Total, Metadata!Slack
<1>4. ASSUME NEW p \in Nat, p + 2 < n
      PROVE  /\ Metadata!EntryEnd(f, p) = Metadata!EntryEnd(b, p)
             /\ Metadata!EntryKey(f, p) = Metadata!EntryKey(b, p)
             /\ f[p + 1] = b[p + 1]
             /\ Metadata!EntryEnd(b, p) <= n =>
                   Metadata!EntryValue(f, p) = Metadata!EntryValue(b, p)
  <2>1. p + 1 \in 1 .. Len(b) /\ p + 2 \in 1 .. Len(b) /\ p + 3 \in 1 .. Len(b) /\ p + 2 + 1 = p + 3
    <3>1. \A m, l \in Nat : p + 2 < m /\ m <= l =>
             p + 1 \in 1 .. l /\ p + 2 \in 1 .. l /\ p + 3 \in 1 .. l
      OBVIOUS
    <3> HIDE DEF n
    <3>2. n \in Nat /\ n <= Len(b) /\ Len(b) \in Nat /\ p + 2 < n
      BY <1>1, <1>4
    <3> QED
      BY <3>1, <3>2
  <2>2. f[p + 1] = b[p + 1] /\ f[p + 2] = b[p + 2] /\ f[p + 3] = b[p + 3]
    BY <1>1, <2>1
  <2>3. Metadata!EntryEnd(f, p) = Metadata!EntryEnd(b, p)
    BY <2>2 DEF Metadata!EntryEnd
  <2>4. Metadata!EntryKey(f, p) = Metadata!EntryKey(b, p)
    BY <2>1, <2>2 DEF Metadata!EntryKey, Metadata!EntryHeaderSize
  <2>5. ASSUME Metadata!EntryEnd(b, p) <= n
        PROVE  Metadata!EntryValue(f, p) = Metadata!EntryValue(b, p)
    <3> DEFINE e == Metadata!EntryEnd(b, p)
    <3>1. e \in Nat /\ e <= Len(b)
      <4>1. e \in Nat
        BY <1>4, HeaderFacts DEF Begins
      <4> HIDE DEF e, n
      <4>2. e <= n
        BY <2>5 DEF e, n
      <4> QED
        BY <4>1, <4>2, <1>1
    <3> HIDE DEF e
    <3>2. e <= Len(f) /\ p + 4 \in Nat \ {0} /\ \A i \in 1 .. e : b[i] = f[i]
      <4> HIDE DEF n
      <4>1. \A i \in 1 .. e : i \in 1 .. Len(b)
        BY <3>1, <1>1
      <4> QED
        BY <3>1, <4>1, <1>1
    <3>4. SubSeq(b, p + 4, e) = SubSeq(f, p + 4, e)
      BY <1>1, <3>1, <3>2, SameSubSeq
    <3>5. p + Metadata!EntryHeaderSize + 2 = p + 4
      BY DEF Metadata!EntryHeaderSize
    <3> QED
      BY <2>3, <3>4, <3>5 DEF Metadata!EntryValue, e
  <2> QED
    BY <2>2, <2>3, <2>4, <2>5
<1> QED
  BY <1>3, <1>4

\* A blob at the beginning of a file is what the whole file is read as.
LEMMA PartIsBlob ==
  ASSUME NEW b, NEW f, Begins(b, f), Metadata!WellFormed(b)
  PROVE  Metadata!WellFormed(f) /\ Metadata!ValuesOf(f) = Metadata!ValuesOf(b)
<1> DEFINE B == Metadata!Boundaries(b)
           F == Metadata!Boundaries(f)
           S == Metadata!Starts(b)
           n == Metadata!Total(b)
<1>1. /\ b \in Seq(Nat) /\ f \in Seq(Nat) /\ Metadata!HeaderRight(b) /\ Metadata!HeaderRight(f)
      /\ Metadata!Total(f) = n
      /\ n \in B /\ \A p \in S : p + 2 < n /\ b[p + 1] = KeyWidth
      /\ \A p, q \in S : Metadata!EntryKey(b, p) = Metadata!EntryKey(b, q) => p = q
  BY EntriesOfPart DEF Begins, Metadata!WellFormed, Metadata!EntryHeaderSize
<1>2. \A p \in Nat : p + 2 < n =>
         /\ Metadata!EntryEnd(f, p) = Metadata!EntryEnd(b, p)
         /\ Metadata!EntryKey(f, p) = Metadata!EntryKey(b, p)
         /\ f[p + 1] = b[p + 1]
         /\ Metadata!EntryEnd(b, p) <= n => Metadata!EntryValue(f, p) = Metadata!EntryValue(b, p)
  BY <1>1, EntriesOfPart
<1>3. /\ B \in SUBSET Nat /\ F \in SUBSET Nat /\ 3 \in B /\ 3 \in F /\ n \in Nat
      /\ \A p \in B : p + 2 < n => Metadata!EntryEnd(b, p) \in B
      /\ \A p \in F : p + 2 < n => Metadata!EntryEnd(f, p) \in F
      /\ \A C : 3 \in C /\ (\A p \in C : p + 2 < n => Metadata!EntryEnd(b, p) \in C) => B \subseteq C
      /\ \A C : 3 \in C /\ (\A p \in C : p + 2 < n => Metadata!EntryEnd(f, p) \in C) => F \subseteq C
  BY <1>1, BoundariesLeast, HeaderFacts
<1>4. B = F
  <2> HIDE DEF B, F, n
  <2>1. \A p \in F : p + 2 < n => Metadata!EntryEnd(b, p) \in F
    BY <1>2, <1>3
  <2>2. \A p \in B : p + 2 < n => Metadata!EntryEnd(f, p) \in B
    BY <1>2, <1>3
  <2>3. B \subseteq F
    BY <2>1, <1>3
  <2>4. F \subseteq B
    BY <2>2, <1>3
  <2> QED
    BY <2>3, <2>4
<1>5. Metadata!Starts(f) = S
  BY <1>1, <1>4 DEF Metadata!Starts
<1>6. \A p \in S : p \in Nat /\ Metadata!EntryEnd(b, p) <= n
  <2>1. ASSUME NEW p \in S PROVE p \in Nat /\ Metadata!EntryEnd(b, p) <= n
    <3> DEFINE e == Metadata!EntryEnd(b, p)
    <3>1. p \in B /\ p \in Nat /\ p + 2 < n
      BY <1>1, <1>3 DEF Metadata!Starts
    <3>2. e \in B /\ e \in Nat
      BY <1>3, <3>1
    <3>3. CASE e = n
      BY <3>1, <3>3, <1>3
    <3>4. CASE e # n
      <4>1. e + 2 < n
        BY <1>1, <3>2, <3>4 DEF Metadata!Starts
      <4>2. e <= n
        <5> HIDE DEF e, n
        <5> QED
          BY <4>1, <3>2, <1>3
      <4> QED
        BY <3>1, <4>2
    <3> QED
      BY <3>3, <3>4
  <2> QED
    BY <2>1
<1>7. \A p \in S : /\ Metadata!EntryKey(f, p) = Metadata!EntryKey(b, p)
                   /\ Metadata!EntryValue(f, p) = Metadata!EntryValue(b, p)
                   /\ f[p + 1] = b[p + 1]
  BY <1>1, <1>2, <1>6
<1>8. Metadata!WellFormed(f)
  <2> HIDE DEF B, F, n, S
  <2>1. \A p \in S : p + 2 < n /\ f[p + 1] = KeyWidth
    BY <1>1, <1>7
  <2>2. \A p, q \in S : Metadata!EntryKey(f, p) = Metadata!EntryKey(f, q) => p = q
    BY <1>1, <1>7
  <2>3. n \in F
    BY <1>1, <1>4
  <2> QED
    BY <1>1, <1>5, <2>1, <2>2, <2>3 DEF Metadata!WellFormed, Metadata!EntryHeaderSize, F
<1>9. Metadata!ValuesOf(f) = Metadata!ValuesOf(b)
  <2> HIDE DEF B, F, n, S
  <2>1. {Metadata!EntryKey(f, p) : p \in S} = {Metadata!EntryKey(b, p) : p \in S}
    BY <1>7
  <2>2. ASSUME NEW k \in {Metadata!EntryKey(b, p) : p \in S}
        PROVE  Metadata!EntryValue(f, CHOOSE p \in S : Metadata!EntryKey(f, p) = k)
                  = Metadata!EntryValue(b, CHOOSE p \in S : Metadata!EntryKey(b, p) = k)
    <3>1. PICK q \in S : k = Metadata!EntryKey(b, q)
      OBVIOUS
    <3>2. (CHOOSE p \in S : Metadata!EntryKey(f, p) = k) = q
      <4>1. \A p \in S : Metadata!EntryKey(f, p) = k <=> p = q
        BY <3>1, <1>1, <1>7
      <4> QED
        BY <3>1, <4>1
    <3>3. (CHOOSE p \in S : Metadata!EntryKey(b, p) = k) = q
      <4>1. \A p \in S : Metadata!EntryKey(b, p) = k <=> p = q
        BY <3>1, <1>1
      <4> QED
        BY <3>1, <4>1
    <3> QED
      BY <3>2, <3>3, <1>7
  <2>3. /\ Metadata!ValuesOf(f) = [k \in {Metadata!EntryKey(f, p) : p \in S} |->
              Metadata!EntryValue(f, CHOOSE p \in S : Metadata!EntryKey(f, p) = k)]
        /\ Metadata!ValuesOf(b) = [k \in {Metadata!EntryKey(b, p) : p \in S} |->
              Metadata!EntryValue(b, CHOOSE p \in S : Metadata!EntryKey(b, p) = k)]
    BY <1>5 DEF Metadata!ValuesOf, S
  <2> QED
    BY <2>1, <2>2, <2>3
<1> QED
  BY <1>8, <1>9

-----------------------------------------------------------------------------
(***************************************************************************)
(* The invariant of the metadata.                                          *)
(***************************************************************************)
NothingTaken == fields = Metadata!NoValues

\* The bytes of the blob inside.
InsideBytes == Metadata!HasPackedManifest(fields) /\ bytes = Unpack[Metadata!Payload(fields[3])]

\* The reason for which a revision is refused.
RefusedRight == Metadata!WrongBlob \/ (4 \in DOMAIN fields /\ ~TableRight)

BlobInv ==
    /\ file \in Seq(Nat) /\ size \in Nat
    /\ stage \in {"size", "read", "header", "entries", "fields", "table", "unpack", "inner",
                  "parsed", "refused"}
    /\ stage \in {"size", "read", "fields"} => NothingTaken
    /\ stage \in {"table", "unpack", "inner", "parsed"} => ~NothingTaken
    /\ ~NothingTaken => Metadata!Usable(file) /\ fields = Metadata!ValuesOf(file)
    /\ stage \in {"header", "entries", "fields", "inner"} =>
          IF NothingTaken THEN Begins(bytes, file) ELSE InsideBytes /\ bytes \in Seq(Nat)
    /\ stage = "entries" => ParsedTo(bytes, position, values)
    /\ stage \in {"fields", "inner"} =>
          Metadata!WellFormed(bytes) /\ values = Metadata!ValuesOf(bytes)
    /\ stage = "parsed" =>
          /\ Metadata!HasManifest(file)
          /\ values = Metadata!ValuesOf(Unpack[Metadata!Payload(fields[3])])
    /\ stage = "refused" => RefusedRight

\* The invariant of the blob gives its property.
LEMMA BlobRight == BlobInv => BlobReadRight
BY DEF BlobInv, BlobReadRight, RefusedRight, NothingTaken, Metadata!TakenIsRight

\* No file has been looked at.
LEMMA BlobInit == Metadata!Init => BlobInv
<1> SUFFICES ASSUME Metadata!Init PROVE BlobInv
  OBVIOUS
<1>1. file \in Seq(Nat)
  BY MetadataAssumption DEF Metadata!Init, Metadata!Assumptions
<1> QED
  BY <1>1 DEF Metadata!Init, BlobInv, NothingTaken

\* The fields that make a blob usable are those that are tested.
LEMMA FieldsUsable ==
  ASSUME NEW b, Metadata!WellFormed(b)
  PROVE  Metadata!FieldsRight(Metadata!ValuesOf(b)) <=> Metadata!Usable(b)
<1> DEFINE v == Metadata!ValuesOf(b)
<1> HIDE DEF v
<1>1. <<3>> # <<4>>
  OBVIOUS
<1>2. Metadata!FieldsRight(v) <=>
         /\ Metadata!HasWidth(v, 0, 1) /\ Metadata!HasWidth(v, 12, 1)
         /\ \/ v[0] = <<3>> /\ Metadata!HasWidth(v, 13, 1)
            \/ v[0] = <<4>> /\ Metadata!HasWidth(v, 13, 2)
  BY <1>1 DEF Metadata!FieldsRight, Metadata!SizeWidth
<1> QED
  BY <1>2 DEF Metadata!Usable, v

\* A revision is refused; the rest stays as it is.
LEMMA RefuseStep ==
  ASSUME BlobInv, Metadata!Refuse, RefusedRight
  PROVE  BlobInv'
<1>1. UNCHANGED <<file, size, bytes, position, values, fields>> /\ stage' = "refused"
  BY DEF Metadata!Refuse, Metadata!Goto
<1>2. RefusedRight' = RefusedRight /\ NothingTaken' = NothingTaken
  BY <1>1 DEF RefusedRight, Metadata!WrongBlob, TableRight, Table, NothingTaken
<1>3. ~NothingTaken => Metadata!Usable(file) /\ fields = Metadata!ValuesOf(file)
  BY DEF BlobInv
<1>4. (~NothingTaken => Metadata!Usable(file) /\ fields = Metadata!ValuesOf(file))'
  BY <1>1, <1>2, <1>3
<1>5. file' \in Seq(Nat) /\ size' \in Nat
  BY <1>1 DEF BlobInv
<1> QED
  BY <1>1, <1>2, <1>4, <1>5 DEF BlobInv

\* The file may change until it is read.
LEMMA SizeFileStep ==
  ASSUME BlobInv, Metadata!SizeFile \/ Metadata!FileChanges
  PROVE  BlobInv'
<1>1. /\ NothingTaken /\ UNCHANGED <<bytes, position, values, fields>> /\ stage' = "read"
      /\ file' \in Seq(Nat) /\ size' \in Nat
  BY MetadataAssumption DEF BlobInv, Metadata!SizeFile, Metadata!FileChanges, Metadata!Assumptions
<1>2. NothingTaken'
  BY <1>1 DEF NothingTaken
<1> QED
  BY <1>1, <1>2 DEF BlobInv

\* What is read is the beginning of the file that is there by then, as long as
\* the size says, or the read fails.
LEMMA ReadFileStep ==
  ASSUME BlobInv, Metadata!ReadFile
  PROVE  BlobInv'
<1>1. file \in Seq(Nat) /\ size \in Nat /\ Len(file) \in Nat /\ NothingTaken
  BY DEF BlobInv, Metadata!ReadFile
<1>2. CASE Metadata!ReadsShort /\ Metadata!Refuse
  BY <1>2, RefuseStep DEF Metadata!ReadsShort, RefusedRight, Metadata!WrongBlob
<1>3. CASE /\ ~Metadata!ReadsShort
           /\ bytes' = [i \in 1 .. size |-> IF i <= Len(file) THEN file[i] ELSE 0]
           /\ stage' = "header"
           /\ UNCHANGED <<file, size, position, values, fields>>
  <2>1. size <= Len(file)
    BY <1>1, <1>3 DEF Metadata!ReadsShort
  <2>2. \A i \in 1 .. size : i <= Len(file) /\ file[i] \in Nat
    BY <1>1, <2>1
  <2>3. \A i \in 1 .. size : (IF i <= Len(file) THEN file[i] ELSE 0) = file[i]
    BY <2>2
  <2>4. bytes' \in Seq(Nat) /\ Len(bytes') = size /\ \A i \in 1 .. size : bytes'[i] = file[i]
    BY <1>1, <1>3, <2>2, <2>3
  <2>5. Begins(bytes, file)'
    BY <1>1, <1>3, <2>1, <2>4 DEF Begins
  <2>6. NothingTaken'
    BY <1>1, <1>3 DEF NothingTaken
  <2> QED
    BY <1>1, <1>3, <2>5, <2>6 DEF BlobInv
<1> QED
  BY <1>2, <1>3 DEF Metadata!ReadFile

\* What is parsed is not a blob: the reason is found with the bytes that are
\* parsed now.
LEMMA NotABlob ==
  ASSUME BlobInv, stage \in {"header", "entries", "fields", "inner"}, ~Metadata!WellFormed(bytes)
  PROVE  RefusedRight
<1>1. CASE NothingTaken
  BY <1>1 DEF NothingTaken, RefusedRight, Metadata!WrongBlob, Metadata!Usable
<1>2. CASE ~NothingTaken
  <2>1. fields = Metadata!ValuesOf(file) /\ bytes = Unpack[Metadata!Payload(fields[3])]
    BY <1>2 DEF BlobInv, InsideBytes
  <2>2. ~Metadata!HasManifest(file)
    BY <2>1 DEF Metadata!HasManifest
  <2> QED
    BY <1>2, <2>2 DEF NothingTaken, RefusedRight, Metadata!WrongBlob
<1> QED
  BY <1>1, <1>2

\* The header is refused if wrong; if right, the entries begin.
LEMMA ReadHeaderStep ==
  ASSUME BlobInv, Metadata!ReadHeader
  PROVE  BlobInv'
<1>1. stage = "header" /\ bytes \in Seq(Nat)
  BY DEF BlobInv, Metadata!ReadHeader, Begins
<1>2. CASE ~Metadata!HeaderRight(bytes) /\ Metadata!Refuse
  <2>1. ~Metadata!WellFormed(bytes)
    BY <1>2 DEF Metadata!WellFormed
  <2> QED
    BY <1>1, <1>2, <2>1, NotABlob, RefuseStep
<1>3. CASE /\ Metadata!HeaderRight(bytes)
           /\ position' = Metadata!HeaderSize
           /\ values' = Metadata!NoValues
           /\ stage' = "entries"
           /\ UNCHANGED <<file, size, bytes, fields>>
  <2>1. ParsedTo(bytes, 3, <<>>)
    BY <1>1, <1>3, ParseBegins
  <2>2. ParsedTo(bytes, position, values)'
    BY <1>3, <2>1 DEF Metadata!HeaderSize, Metadata!NoValues, ParsedTo, Before, KeysBefore
  <2>3. /\ IF NothingTaken THEN Begins(bytes, file) ELSE InsideBytes /\ bytes \in Seq(Nat)
        /\ ~NothingTaken => Metadata!Usable(file) /\ fields = Metadata!ValuesOf(file)
        /\ file \in Seq(Nat) /\ size \in Nat
    BY <1>1 DEF BlobInv
  <2>4. NothingTaken' = NothingTaken /\ InsideBytes' = InsideBytes
    BY <1>3 DEF NothingTaken, InsideBytes
  <2> QED
    BY <1>3, <2>2, <2>3, <2>4 DEF BlobInv
<1> QED
  BY <1>2, <1>3 DEF Metadata!ReadHeader

\* One entry, right or refused.
LEMMA ReadEntryStep ==
  ASSUME BlobInv, Metadata!ReadEntry
  PROVE  BlobInv'
<1>1. stage = "entries" /\ position < Metadata!Total(bytes) /\ ParsedTo(bytes, position, values)
  BY DEF BlobInv, Metadata!ReadEntry
<1>2. CASE ~Metadata!EntryRight /\ Metadata!Refuse
  <2>1. ~Metadata!WellFormed(bytes)
    BY <1>1, <1>2, EntryRefused
  <2> QED
    BY <1>1, <1>2, <2>1, NotABlob, RefuseStep
<1>3. CASE /\ Metadata!EntryRight
           /\ position' = Metadata!EntryEnd(bytes, position)
           /\ values' = [k \in DOMAIN values \cup {Metadata!EntryKey(bytes, position)} |->
                            IF k = Metadata!EntryKey(bytes, position)
                            THEN Metadata!EntryValue(bytes, position) ELSE values[k]]
           /\ UNCHANGED <<file, size, stage, bytes, fields>>
  <2>1. PICK w : w = values'
    OBVIOUS
  <2>2. ParsedTo(bytes, Metadata!EntryEnd(bytes, position), w)
    BY <1>1, <1>3, <2>1, EntryParsed
  <2>3. PICK e : e = Metadata!EntryEnd(bytes, position)
    OBVIOUS
  <2>4. ParsedTo(bytes, e, w) /\ position' = e /\ values' = w
    BY <1>3, <2>1, <2>2, <2>3
  <2>5. ParsedTo(bytes, position, values)'
    BY <1>3, <2>4
  <2>6. /\ IF NothingTaken THEN Begins(bytes, file) ELSE InsideBytes /\ bytes \in Seq(Nat)
        /\ ~NothingTaken => Metadata!Usable(file) /\ fields = Metadata!ValuesOf(file)
        /\ file \in Seq(Nat) /\ size \in Nat
    BY <1>1 DEF BlobInv
  <2>7. NothingTaken' = NothingTaken /\ InsideBytes' = InsideBytes
    BY <1>3 DEF NothingTaken, InsideBytes
  <2> QED
    BY <1>1, <1>3, <2>5, <2>6, <2>7 DEF BlobInv
<1> QED
  BY <1>2, <1>3 DEF Metadata!ReadEntry

\* After the last entry the values are the blob's.
LEMMA EndOfEntriesStep ==
  ASSUME BlobInv, Metadata!EndOfEntries
  PROVE  BlobInv'
<1>1. /\ stage = "entries" /\ position >= Metadata!Total(bytes) /\ ParsedTo(bytes, position, values)
      /\ UNCHANGED <<file, size, bytes, position, values, fields>>
      /\ stage' = IF position # Metadata!Total(bytes) THEN "refused"
                  ELSE IF NothingTaken THEN "fields" ELSE "inner"
  BY DEF BlobInv, Metadata!EndOfEntries, Metadata!Goto, NothingTaken
<1>2. /\ position = Metadata!Total(bytes) /\ Metadata!WellFormed(bytes)
      /\ values = Metadata!ValuesOf(bytes)
  BY <1>1, ParseEnds
<1>3. /\ IF NothingTaken THEN Begins(bytes, file) ELSE InsideBytes /\ bytes \in Seq(Nat)
      /\ ~NothingTaken => Metadata!Usable(file) /\ fields = Metadata!ValuesOf(file)
      /\ file \in Seq(Nat) /\ size \in Nat
  BY <1>1 DEF BlobInv
<1>4. NothingTaken' = NothingTaken /\ InsideBytes' = InsideBytes
  BY <1>1 DEF NothingTaken, InsideBytes
<1>5. stage' = IF NothingTaken THEN "fields" ELSE "inner"
  BY <1>1, <1>2
<1>6. (Metadata!WellFormed(bytes) /\ values = Metadata!ValuesOf(bytes))'
  BY <1>1, <1>2
<1> QED
  BY <1>1, <1>3, <1>4, <1>5, <1>6 DEF BlobInv

\* A blob without the fields asked for is refused.
LEMMA TakeFieldsStep ==
  ASSUME BlobInv, Metadata!TakeFields
  PROVE  BlobInv'
<1>1. /\ stage = "fields" /\ NothingTaken /\ Begins(bytes, file)
      /\ Metadata!WellFormed(bytes) /\ values = Metadata!ValuesOf(bytes)
      /\ file \in Seq(Nat) /\ size \in Nat
  BY DEF BlobInv, Metadata!TakeFields
<1>2. CASE ~Metadata!FieldsRight(values) /\ Metadata!Refuse
  <2>1. ~Metadata!Usable(bytes)
    BY <1>1, <1>2, FieldsUsable
  <2>2. RefusedRight
    BY <1>1, <2>1 DEF NothingTaken, RefusedRight, Metadata!WrongBlob
  <2> QED
    BY <1>2, <2>2, RefuseStep
<1>3. CASE /\ Metadata!FieldsRight(values)
           /\ fields' = values
           /\ stage' = "table"
           /\ UNCHANGED <<file, size, bytes, position, values>>
  <2>1. Metadata!WellFormed(file) /\ Metadata!ValuesOf(file) = values
    BY <1>1, PartIsBlob
  <2>2. Metadata!Usable(file)
    BY <1>3, <2>1, FieldsUsable
  <2>3. values # Metadata!NoValues
    <3>1. 0 \in DOMAIN values
      BY <1>3 DEF Metadata!FieldsRight, Metadata!HasWidth
    <3> QED
      BY <3>1 DEF Metadata!NoValues
  <2>4. ~NothingTaken'
    BY <1>3, <2>3 DEF NothingTaken
  <2>5. (Metadata!Usable(file) /\ fields = Metadata!ValuesOf(file))'
    BY <1>3, <2>1, <2>2
  <2> QED
    BY <1>1, <1>3, <2>4, <2>5 DEF BlobInv
<1> QED
  BY <1>2, <1>3 DEF Metadata!TakeFields

\* A blob without a table is refused.
LEMMA MissesTableStep ==
  ASSUME BlobInv, Metadata!MissesTable
  PROVE  BlobInv'
<1>1. stage = "table" /\ 4 \notin DOMAIN fields /\ Metadata!Refuse /\ ~NothingTaken
  BY DEF BlobInv, Metadata!MissesTable
<1>2. RefusedRight
  BY <1>1 DEF NothingTaken, RefusedRight, Metadata!WrongBlob
<1> QED
  BY <1>1, <1>2, RefuseStep

\* A table that is accepted lets the manifest be unpacked.
LEMMA TableDoneStep ==
  ASSUME BlobInv, Metadata!HasTable, Metadata!TableDone
  PROVE  BlobInv'
<1>1. /\ stage = "table" /\ stage' = "unpack"
      /\ UNCHANGED <<file, size, bytes, position, values, fields>>
  BY DEF Metadata!HasTable, Metadata!TableDone, Metadata!Goto
<1>2. /\ ~NothingTaken /\ file \in Seq(Nat) /\ size \in Nat
      /\ Metadata!Usable(file) /\ fields = Metadata!ValuesOf(file)
  BY <1>1 DEF BlobInv
<1>3. (Metadata!Usable(file) /\ fields = Metadata!ValuesOf(file))' /\ ~NothingTaken'
  BY <1>1, <1>2 DEF NothingTaken
<1> QED
  BY <1>1, <1>2, <1>3 DEF BlobInv

\* A manifest that is packed as its field says is a blob again; any other is
\* refused.
LEMMA UnpackManifestStep ==
  ASSUME BlobInv, Metadata!UnpackManifest
  PROVE  BlobInv'
<1>1. /\ stage = "unpack" /\ ~NothingTaken /\ file \in Seq(Nat) /\ size \in Nat
      /\ Metadata!Usable(file) /\ fields = Metadata!ValuesOf(file)
  BY DEF BlobInv, Metadata!UnpackManifest
<1>2. CASE ~Metadata!HasPackedManifest(fields) /\ Metadata!Refuse
  <2>1. ~Metadata!HasManifest(file)
    BY <1>1, <1>2 DEF Metadata!HasManifest
  <2>2. RefusedRight
    BY <1>1, <2>1 DEF NothingTaken, RefusedRight, Metadata!WrongBlob
  <2> QED
    BY <1>2, <2>2, RefuseStep
<1>3. CASE /\ Metadata!HasPackedManifest(fields)
           /\ bytes' = Unpack[Metadata!Payload(fields[3])]
           /\ stage' = "header"
           /\ UNCHANGED <<file, size, position, values, fields>>
  <2>1. bytes' \in Seq(Nat)
    BY <1>3, MetadataAssumption
    DEF Metadata!Assumptions, Metadata!HasPackedManifest, Metadata!Unpacks
  <2>2. ~NothingTaken' /\ InsideBytes'
    BY <1>1, <1>3 DEF NothingTaken, InsideBytes
  <2>3. (Metadata!Usable(file) /\ fields = Metadata!ValuesOf(file))'
    BY <1>1, <1>3
  <2> QED
    BY <1>1, <1>3, <2>1, <2>2, <2>3 DEF BlobInv
<1> QED
  BY <1>2, <1>3 DEF Metadata!UnpackManifest

\* An inner blob without a manifest is refused.
LEMMA TakeManifestStep ==
  ASSUME BlobInv, Metadata!TakeManifest
  PROVE  BlobInv'
<1>1. /\ stage = "inner" /\ ~NothingTaken /\ file \in Seq(Nat) /\ size \in Nat
      /\ Metadata!Usable(file) /\ fields = Metadata!ValuesOf(file) /\ InsideBytes
      /\ Metadata!WellFormed(bytes) /\ values = Metadata!ValuesOf(bytes)
  BY DEF BlobInv, Metadata!TakeManifest
<1>2. CASE 0 \in DOMAIN values
  <2>1. UNCHANGED <<file, size, bytes, position, values, fields>> /\ stage' = "parsed"
    BY <1>2 DEF Metadata!TakeManifest, Metadata!Goto
  <2>2. Metadata!HasManifest(file)
    BY <1>1, <1>2 DEF Metadata!HasManifest, InsideBytes
  <2>3. values = Metadata!ValuesOf(Unpack[Metadata!Payload(fields[3])])
    BY <1>1 DEF InsideBytes
  <2>4. /\ ~NothingTaken' /\ Metadata!HasManifest(file)'
        /\ (Metadata!Usable(file) /\ fields = Metadata!ValuesOf(file))'
        /\ (values = Metadata!ValuesOf(Unpack[Metadata!Payload(fields[3])]))'
    BY <1>1, <2>1, <2>2, <2>3 DEF NothingTaken
  <2> QED
    BY <1>1, <2>1, <2>4 DEF BlobInv
<1>3. CASE 0 \notin DOMAIN values
  <2>1. Metadata!Refuse
    BY <1>3 DEF Metadata!TakeManifest, Metadata!Refuse
  <2>2. ~Metadata!HasManifest(file)
    BY <1>1, <1>3 DEF Metadata!HasManifest, InsideBytes
  <2>3. RefusedRight
    BY <1>1, <2>2 DEF NothingTaken, RefusedRight, Metadata!WrongBlob
  <2> QED
    BY <2>1, <2>3, RefuseStep
<1> QED
  BY <1>2, <1>3

\* All steps of the blob.
LEMMA MetadataStep ==
  ASSUME BlobInv, Metadata!Step
  PROVE  BlobInv'
BY SizeFileStep, ReadFileStep, ReadHeaderStep, ReadEntryStep, EndOfEntriesStep, TakeFieldsStep,
   MissesTableStep, UnpackManifestStep, TakeManifestStep DEF Metadata!Step

\* The blob does not depend on the other two parts.
LEMMA BlobIdle ==
  ASSUME BlobInv, UNCHANGED blobVars
  PROVE  BlobInv'
<1>1. UNCHANGED <<file, size, stage, bytes, position, values, fields>>
  BY DEF blobVars
<1>2. NothingTaken' = NothingTaken /\ InsideBytes' = InsideBytes /\ RefusedRight' = RefusedRight
  BY <1>1 DEF NothingTaken, InsideBytes, RefusedRight, Metadata!WrongBlob, TableRight, Table
<1> QED
  BY <1>1, <1>2 DEF BlobInv

-----------------------------------------------------------------------------
(***************************************************************************)
(* The revision as a whole.  The parts hand on what they found and leave   *)
(* each other alone: nothing is said of the manifest until the table has   *)
(* been parsed, and nothing is read until the manifest is accepted.        *)
(***************************************************************************)
DepotInv ==
    /\ BlobInv
    /\ DataInv
    /\ PathInv
    /\ pc # "none" => stage = "parsed"

\* Nor the manifest, but for the mappings, which stay as they are once there is
\* a manifest.
LEMMA PathIdle ==
  ASSUME PathInv, UNCHANGED pathVars, pc = "none" \/ UNCHANGED mappings
  PROVE  PathInv'
<1>1. UNCHANGED <<nodes, fileCount, pc, index, current, depth, parts, files, projected>>
  BY DEF pathVars
<1>2. CASE pc = "none"
  BY <1>1, <1>2 DEF PathInv
<1>3. CASE UNCHANGED mappings
  <2>1. /\ ParsedOK' = ParsedOK /\ WalkOK' = WalkOK /\ ProjectedOK' = ProjectedOK
    <3>1. ParsedOK' = ParsedOK
      BY <1>1 DEF ParsedOK, Paths!ParentsInside, Paths!NamesSafe
    <3>2. WalkOK' = WalkOK
      BY <1>1 DEF WalkOK, WayUp
    <3>3. ProjectedOK' = ProjectedOK
      BY <1>1, <1>3 DEF ProjectedOK, ProjectedApart, Paths!ProjectedPath, Paths!EntryId
    <3> QED
      BY <3>1, <3>2, <3>3
  <2>2. FilesOK(index)' = FilesOK(index) /\ FilesOK(Len(nodes) + 1)' = FilesOK(Len(nodes) + 1)
    BY <1>1, FilesUnchanged
  <2>3. Reason' = Reason
    <3>1. BadNodes' = BadNodes
      BY <1>1 DEF BadNodes, Paths!ParentsInside, Paths!NamesSafe
    <3>2. BadCount' = BadCount
      BY <1>1 DEF BadCount, Paths!FileNodes
    <3>3. BadPath' = BadPath
      BY <1>1 DEF BadPath, Paths!FileNodes, Paths!PathBad, Paths!BelowRoot, Paths!Ancestors
    <3>4. BadId' = BadId
      BY <1>1, <1>3 DEF BadId, Paths!EntryId
    <3>5. Paths!PathsClash' = Paths!PathsClash
      BY <1>1 DEF Paths!PathsClash, Paths!ProjectedPath
    <3> QED
      BY <3>1, <3>2, <3>3, <3>4, <3>5 DEF Reason
  <2> QED
    BY <1>1, <2>1, <2>2, <2>3 DEF PathInv
<1> QED
  BY <1>2, <1>3

\* All steps of the manifest.
LEMMA PathStep ==
  ASSUME PathInv, Paths!Step(DOMAIN mappings), UNCHANGED mappings
  PROVE  PathInv'
BY CheckStep, SkipDirectoryStep, StepUpStep, CycleFoundStep, EndOfPathStep, EndOfNodesStep,
   ProjectFileStep, AcceptStep DEF Paths!Step

\* Each part starts in its invariant.
LEMMA DepotInit == Init => DepotInv
BY BlobInit, DataInit, PathInit DEF Init, DepotInv, Paths!Init

\* Every step of the composition is one of a part, and idle for the others.
LEMMA DepotStep == DepotInv /\ [Next]_vars => DepotInv'
<1> SUFFICES ASSUME DepotInv, [Next]_vars PROVE DepotInv'
  OBVIOUS
<1>1. BlobInv /\ DataInv /\ PathInv /\ (pc # "none" => stage = "parsed")
  BY DEF DepotInv
<1>2. CASE ReadMetadata
  <2>1. Metadata!Step /\ UNCHANGED dataVars /\ UNCHANGED pathVars
    BY <1>2 DEF ReadMetadata
  <2>2. stage # "parsed"
    BY <2>1 DEF Metadata!Step, Metadata!FileChanges, Metadata!SizeFile, Metadata!ReadFile,
                Metadata!ReadHeader, Metadata!ReadEntry, Metadata!EndOfEntries, Metadata!TakeFields,
                Metadata!MissesTable, Metadata!UnpackManifest, Metadata!TakeManifest
  <2>3. pc = "none" /\ pc' = "none"
    BY <1>1, <2>1, <2>2 DEF pathVars
  <2>4. BlobInv' /\ DataInv' /\ PathInv'
    BY <1>1, <2>1, <2>3, MetadataStep, DataIdle, PathIdle
  <2> QED
    BY <2>3, <2>4 DEF DepotInv
<1>3. CASE ParseTable
  <2>1. Metadata!HasTable /\ UNCHANGED pathVars
    BY <1>3 DEF ParseTable
  <2>2. pc = "none" /\ pc' = "none"
    BY <1>1, <2>1 DEF Metadata!HasTable, pathVars
  <2>3. CASE TableRight /\ Data!LoadTable(Table) /\ Metadata!TableDone
    <3>1. Table \in Tables
      BY <2>3, TableInAssumption DEF TableRight, Table
    <3>2. DataInv'
      BY <1>1, <2>3, <3>1, LoadStep
    <3>3. BlobInv' /\ PathInv'
      BY <1>1, <2>1, <2>2, <2>3, TableDoneStep, PathIdle
    <3> QED
      BY <2>2, <3>2, <3>3 DEF DepotInv
  <2>4. CASE ~TableRight /\ Metadata!Refuse /\ UNCHANGED dataVars
    <3>1. RefusedRight
      BY <2>1, <2>4 DEF RefusedRight, Metadata!HasTable
    <3>2. BlobInv' /\ DataInv' /\ PathInv'
      BY <1>1, <2>1, <2>2, <2>4, <3>1, RefuseStep, DataIdle, PathIdle
    <3> QED
      BY <2>2, <3>2 DEF DepotInv
  <2> QED
    BY <1>3, <2>3, <2>4 DEF ParseTable
<1>4. CASE ParseManifest
  <2>1. PICK manifest \in ManifestsIn[values[0]] : Paths!Parse(manifest)
    BY <1>4 DEF ParseManifest
  <2>2. /\ stage = "parsed" /\ values[0] \in DOMAIN ManifestsIn
        /\ UNCHANGED blobVars /\ UNCHANGED dataVars /\ stage' = stage /\ mappings' = mappings
    BY <1>4 DEF ParseManifest, blobVars, dataVars
  <2>3. manifest \in Manifests
    BY <2>1, <2>2, ManifestsInAssumption
  <2>4. PathInv'
    BY <1>1, <2>1, <2>2, <2>3, ParseStep
  <2>5. BlobInv' /\ DataInv'
    BY <1>1, <2>2, BlobIdle, DataIdle
  <2> QED
    BY <2>2, <2>4, <2>5 DEF DepotInv
<1>5. CASE BuildEntries
  <2>1. /\ Paths!Step(DOMAIN mappings) /\ UNCHANGED blobVars /\ UNCHANGED dataVars
        /\ stage' = stage /\ mappings' = mappings
    BY <1>5 DEF BuildEntries, blobVars, dataVars
  <2>2. pc # "none"
    BY <2>1 DEF Paths!Step, Paths!Check, Paths!SkipDirectory, Paths!StepUp, Paths!CycleFound,
                Paths!EndOfPath, Paths!EndOfNodes, Paths!ProjectFile, Paths!Accept, Paths!Walking
  <2>3. BlobInv' /\ DataInv' /\ PathInv'
    BY <1>1, <2>1, BlobIdle, DataIdle, PathStep
  <2> QED
    BY <1>1, <2>1, <2>2, <2>3 DEF DepotInv
<1>6. ASSUME NEW r \in Reader, NEW k \in DOMAIN files, NEW request \in Request,
             ReadFile(r, k, request)
      PROVE  DepotInv'
  <2>1. Data!Begin(r, Paths!EntryId(k), request[1], request[2])
    BY <1>6 DEF ReadFile
  <2>2. /\ UNCHANGED blobVars /\ UNCHANGED pathVars /\ stage' = stage /\ pc' = pc
        /\ mappings' = mappings
    BY <1>6, <2>1 DEF ReadFile, blobVars, pathVars, Data!Begin
  <2>3. request[1] \in Nat /\ request[2] \in Nat
    BY DataAssumption DEF Data!Assumptions
  <2>4. DataInv'
    BY <1>1, <2>1, <2>3, BeginStep
  <2>5. BlobInv' /\ PathInv'
    BY <1>1, <2>2, BlobIdle, PathIdle
  <2> QED
    BY <1>1, <2>2, <2>4, <2>5 DEF DepotInv
<1>7. ASSUME NEW r \in Reader, ContinueRead(r)
      PROVE  DepotInv'
  <2>1. Data!Continue(r)
    BY <1>7 DEF ContinueRead
  <2>2. /\ UNCHANGED blobVars /\ UNCHANGED pathVars /\ stage' = stage /\ pc' = pc
        /\ mappings' = mappings
    BY <1>7, <2>1 DEF ContinueRead, blobVars, pathVars, Data!Continue, Data!TakeBlock, Data!Return,
                     Data!Lock, Data!Seek, Data!ReadStream, Data!Decode
  <2>3. BlobInv' /\ DataInv' /\ PathInv'
    BY <1>1, <2>1, <2>2, BlobIdle, ReadingStep, PathIdle
  <2> QED
    BY <1>1, <2>2, <2>3 DEF DepotInv
<1>8. CASE CutDat
  <2>1. Data!CutDat
    BY <1>8 DEF CutDat
  <2>2. /\ UNCHANGED blobVars /\ UNCHANGED pathVars /\ stage' = stage /\ pc' = pc
        /\ mappings' = mappings
    BY <1>8, <2>1 DEF CutDat, blobVars, pathVars, Data!CutDat
  <2>3. BlobInv' /\ DataInv' /\ PathInv'
    BY <1>1, <2>1, <2>2, BlobIdle, CutStep, PathIdle
  <2> QED
    BY <1>1, <2>2, <2>3 DEF DepotInv
<1>9. CASE UNCHANGED vars
  <2>1. /\ UNCHANGED blobVars /\ UNCHANGED dataVars /\ UNCHANGED pathVars /\ stage' = stage
        /\ pc' = pc /\ mappings' = mappings
    BY <1>9 DEF vars, blobVars, dataVars, pathVars
  <2>2. BlobInv' /\ DataInv' /\ PathInv'
    BY <1>1, <2>1, BlobIdle, DataIdle, PathIdle
  <2> QED
    BY <1>1, <2>1, <2>2 DEF DepotInv
<1> QED
  BY <1>2, <1>3, <1>4, <1>5, <1>6, <1>7, <1>8, <1>9 DEF Next

-----------------------------------------------------------------------------
(***************************************************************************)
(* Theorems.                                                               *)
(***************************************************************************)
\* The inductive invariant of a revision: for any files, tables, manifests,
\* number of readers, block size and widths.
THEOREM Invariance == Spec => []DepotInv
<1> QED
  BY DepotInit, DepotStep, PTL DEF Spec

\* BlobReadRight: what load_blob_candidate takes is what the file holds, entry
\* by entry, and a file is refused only for what is wrong with it.
THEOREM BlobIsReadRight == Spec => []BlobReadRight
<1>1. DepotInv => BlobReadRight
  BY BlobRight DEF DepotInv
<1> QED
  BY <1>1, Invariance, PTL

\* ReadIsExact: a Steam2File::read that succeeds has given each byte that was
\* asked for, whatever other readers did to the stream meanwhile.
THEOREM ReadsAreExact == Spec => []ReadIsExact
<1>1. DepotInv => ReadIsExact
  BY DataRight DEF DepotInv, ReadIsExact
<1> QED
  BY <1>1, Invariance, PTL

\* FailureHasCause: a read fails only if a block that it needs cannot be had
\* from the DAT.
THEOREM FailuresHaveCauses == Spec => []FailureHasCause
<1>1. DepotInv => FailureHasCause
  BY DataRight DEF DepotInv, FailureHasCause
<1> QED
  BY <1>1, Invariance, PTL

\* PathsAreRight: a manifest that is accepted has projected each of its files
\* once, under the names of its ancestors, and with a mapping.
THEOREM PathsAlwaysRight == Spec => []PathsAreRight
<1>1. DepotInv => PathsAreRight
  BY PathRight DEF DepotInv
<1> QED
  BY <1>1, Invariance, PTL

\* PathsDistinct: Steam2Depot::load accepts no manifest of which two files have
\* the same path once their colons are gone.
THEOREM PathsNeverClash == Spec => []PathsDistinct
<1>1. DepotInv => PathsDistinct
  BY PathRight DEF DepotInv
<1> QED
  BY <1>1, Invariance, PTL

\* RejectedWithReason: parse_manifest rejects a manifest only for a fault in it,
\* and no path for its depth.
THEOREM RejectionHasReason == Spec => []RejectedWithReason
<1>1. DepotInv => RejectedWithReason
  BY PathRight DEF DepotInv, RejectedWithReason
<1> QED
  BY <1>1, Invariance, PTL

=============================================================================
