---------------------------- MODULE ArchiveRead -----------------------------
(***************************************************************************)
(* Reading a file out of an archive (steam2_archive.cpp): the checksum     *)
(* table, which says where the blocks of each file are in the DAT, and     *)
(* Steam2File::read, which decodes the blocks that a request touches.      *)
(*                                                                         *)
(* All files of a DAT share one stream.  read_exact() seeks and reads it   *)
(* under a mutex, as several threads of the mounted drive read at once.    *)
(* Another program may cut the DAT short while it is open.                 *)
(*                                                                         *)
(* A DAT is a sequence of cells.  Decryption and decompression are what    *)
(* the constants Decrypt and Inflate say: one maps cell to cell and cannot *)
(* fail, the other knows whole streams and refuses everything else.  The   *)
(* layout of the table in bytes (magics, offsets of runs, the footer) is   *)
(* left out.  Module Depot composes this with the blob and the manifest.   *)
(*                                                                         *)
(* An operator whose comment begins with "Fault:" is no part of the model. *)
(***************************************************************************)
EXTENDS Integers, Sequences, FiniteSets

CONSTANTS
    Reader,     \* threads that read
    NoReader,   \* the mutex is free
    Cell,       \* the values of an encoded or decoded byte
    Dat,        \* the DAT as it was when the depot was loaded
    Decrypt,    \* the cell that a cell is decrypted to
    Inflate,    \* what each valid compressed stream is inflated to
    BlockSize,  \* kBlockSize
    MaxU32,     \* largest 32-bit number
    MaxU64,     \* largest 64-bit number
    Tables,     \* checksum tables that an archive may contain
    Request     \* requests that are made: <<offset, length>>

DatSize == Len(Dat)

\* An item of a table as stored: count and the encoded sizes of the blocks,
\* which follow each other in the DAT from offset on.
ItemType == [size : 0 .. MaxU64, offset : 0 .. MaxU64, mode : Nat,
             encoded : Seq(0 .. MaxU32)]
TableType == [runs : Seq([start : 0 .. MaxU32, items : Seq(ItemType)]),
              itemCount : 0 .. MaxU32, largest : 0 .. MaxU32]

\* Assumed of the constants by who uses this module.
Assumptions ==
    /\ BlockSize \in Nat \ {0} /\ MaxU32 \in Nat /\ MaxU64 \in Nat
    /\ Dat \in Seq(Cell) /\ Decrypt \in [Cell -> Cell]
    /\ \A s \in DOMAIN Inflate : s \in Seq(Cell) /\ Inflate[s] \in Seq(Cell)
    /\ \A t \in Tables : t \in TableType
    /\ \A q \in Request : q \in Nat \X Nat
    /\ NoReader \notin Reader

VARIABLES
    files,      \* FileMapping for every file id that is mapped
    loaded,     \* whether a table has been accepted
    length,     \* the present length of the DAT on disk
    stream,     \* DatSource::stream: its position, and whether it is good()
    owner,      \* DatSource::mutex
    reader      \* the call of Steam2File::read in each thread

vars == <<files, loaded, length, stream, owner, reader>>

-----------------------------------------------------------------------------
(***************************************************************************)
(* The checksum table.                                                     *)
(***************************************************************************)
ExpectedBlocks(size) == IF size = 0 THEN 0 ELSE 1 + (size - 1) \div BlockSize

\* Where block i of an item begins in the DAT.
BlockOffset(item, i) ==
    LET at[j \in 1 .. Len(item.encoded) + 1] ==
            IF j = 1 THEN item.offset ELSE at[j - 1] + item.encoded[j - 1]
    IN  at[i]

LogicalSize(item, i) ==
    LET remaining == item.size - (i - 1) * BlockSize
    IN  IF remaining < BlockSize THEN remaining ELSE BlockSize

ZeroSizeMetadata(item) == item.size = 0 /\ Len(item.encoded) = 1 /\ item.mode = 1

FitsDat(item, i) == BlockOffset(item, i) + item.encoded[i] <= DatSize

ItemAccepted(item) ==
    /\ item.mode \in 1 .. 3
    /\ Len(item.encoded) = ExpectedBlocks(item.size) \/ ZeroSizeMetadata(item)
    /\ \A i \in DOMAIN item.encoded :
          /\ BlockOffset(item, i) + item.encoded[i] <= MaxU64
          /\ item.encoded[i] <= 2 * BlockSize
          /\ FitsDat(item, i)
          /\ item.mode = 3 => item.encoded[i] \in {0, LogicalSize(item, i)}

\* Fault: the range of file ids is not tested for overflow (ReadIsExact).
AnyIds(run) == TRUE

IdsFit(run) == run.items # <<>> => run.start <= MaxU32 - (Len(run.items) - 1)

RunIds(run) == {run.start + i - 1 : i \in DOMAIN run.items}

ItemTotal(table) ==
    LET sum[i \in 0 .. Len(table.runs)] ==
            IF i = 0 THEN 0 ELSE sum[i - 1] + Len(table.runs[i].items)
    IN  sum[Len(table.runs)]

TableItems(table) ==
    UNION {{table.runs[r].items[i] : i \in DOMAIN table.runs[r].items} : r \in DOMAIN table.runs}

LargestCount(table) ==
    LET counts == {0} \cup {Len(item.encoded) : item \in TableItems(table)}
    IN  CHOOSE n \in counts : \A m \in counts : m <= n

\* parse_checksum_table does not throw.
TableAccepted(table) ==
    /\ \A r \in DOMAIN table.runs :
          LET run == table.runs[r]
          IN  /\ IdsFit(run)
              /\ \A q \in 1 .. r - 1 : RunIds(run) \cap RunIds(table.runs[q]) = {}
    /\ \A item \in TableItems(table) : ItemAccepted(item)
    /\ ItemTotal(table) = table.itemCount
    /\ LargestCount(table) = table.largest

\* The mapping of each file id in the table.
Mapped(table) ==
    [id \in UNION {RunIds(table.runs[r]) : r \in DOMAIN table.runs} |->
        LET run == CHOOSE run \in {table.runs[r] : r \in DOMAIN table.runs} : id \in RunIds(run)
        IN  run.items[id - run.start + 1]]

-----------------------------------------------------------------------------
(***************************************************************************)
(* Decoding.                                                               *)
(***************************************************************************)
\* The cells of the DAT from offset on, as it was.
Stored(offset, count) == SubSeq(Dat, offset + 1, offset + count)

DecryptAll(cells) == [i \in DOMAIN cells |-> Decrypt[cells[i]]]

\* decode_block succeeds, and what it returns.
Decodes(item, i, cells) ==
    IF item.mode = 3 THEN Len(cells) = LogicalSize(item, i)
    ELSE cells \in DOMAIN Inflate /\ Len(Inflate[cells]) = LogicalSize(item, i)

Decoded(item, cells) == IF item.mode = 3 THEN DecryptAll(cells) ELSE Inflate[cells]

-----------------------------------------------------------------------------
(***************************************************************************)
(* Steam2File::read.                                                       *)
(***************************************************************************)
Idle == [pc |-> "idle", id |-> 0, offset |-> 0, requested |-> 0, todo |-> {},
         encoded |-> <<>>, output |-> <<>>]

Init ==
    /\ files = <<>>
    /\ loaded = FALSE
    /\ length = DatSize
    /\ stream = [position |-> 0, good |-> TRUE]
    /\ owner = NoReader
    /\ reader = [r \in Reader |-> Idle]

\* A table that is not accepted throws, and there is nothing to read.
LoadTable(table) ==
    /\ ~loaded
    /\ TableAccepted(table)
    /\ files' = Mapped(table)
    /\ loaded' = TRUE
    /\ UNCHANGED <<length, stream, owner, reader>>

\* Another program cuts the DAT.
CutDat ==
    /\ \E n \in 0 .. length - 1 : length' = n
    /\ UNCHANGED <<files, loaded, stream, owner, reader>>

BlockEnd(item, i) == (i - 1) * BlockSize + LogicalSize(item, i)

\* The blocks that the loop does not pass over.
BlocksIn(item, offset, end) ==
    {i \in DOMAIN item.encoded : BlockEnd(item, i) > offset /\ (i - 1) * BlockSize < end}

Lesser(a, b) == IF a < b THEN a ELSE b
Greater(a, b) == IF a > b THEN a ELSE b

Begin(r, id, offset, count) ==
    /\ reader[r].pc \in {"idle", "done", "failed"}
    /\ id \in DOMAIN files
    /\ LET item == files[id]
           requested == IF offset >= item.size THEN 0 ELSE Lesser(count, item.size - offset)
       IN  reader' = [reader EXCEPT ![r] =
                [Idle EXCEPT !.pc = IF requested = 0 THEN "done" ELSE "block",
                             !.id = id, !.offset = offset, !.requested = requested,
                             !.todo = BlocksIn(item, offset, offset + requested)]]
    /\ UNCHANGED <<files, loaded, length, stream, owner>>

Item(r) == files[reader[r].id]

\* The loop takes them in order.
Block(r) == CHOOSE i \in reader[r].todo : \A j \in reader[r].todo : i <= j
EncodedSize(r) == Item(r).encoded[Block(r)]

Goto(r, pc) == [reader EXCEPT ![r].pc = pc]

\* The loop goes on with the next block, if it has a payload.
TakeBlock(r) ==
    /\ reader[r].pc = "block"
    /\ reader[r].todo # {}
    /\ reader' = Goto(r, IF EncodedSize(r) = 0 THEN "failed" ELSE "lock")
    /\ UNCHANGED <<files, loaded, length, stream, owner>>

\* The loop is over.
Return(r) ==
    /\ reader[r].pc = "block"
    /\ reader[r].todo = {}
    /\ reader' = Goto(r, IF Len(reader[r].output) = reader[r].requested THEN "done" ELSE "failed")
    /\ UNCHANGED <<files, loaded, length, stream, owner>>

\* Fault: does not wait for the mutex (ReadIsExact).
LockIsFreeOrNot(r) == TRUE

LockIsFree(r) == owner = NoReader

Outside(r) == BlockOffset(Item(r), Block(r)) + EncodedSize(r) > DatSize

\* read_exact: the range is tested before the mutex is taken.
Lock(r) ==
    /\ reader[r].pc = "lock"
    /\ Outside(r) \/ LockIsFree(r)
    /\ owner' = IF Outside(r) THEN owner ELSE r
    /\ reader' = Goto(r, IF Outside(r) THEN "failed" ELSE "seek")
    /\ UNCHANGED <<files, loaded, length, stream>>

\* Fault: the stream is not cleared before the seek (FailureHasCause).
SeekOnly(offset) == IF stream.good THEN [stream EXCEPT !.position = offset] ELSE stream

\* stream.clear() and stream.seekg().
ClearAndSeek(offset) == [position |-> offset, good |-> TRUE]

Seek(r) ==
    /\ reader[r].pc = "seek"
    /\ stream' = ClearAndSeek(BlockOffset(Item(r), Block(r)))
    /\ reader' = Goto(r, "read")
    /\ UNCHANGED <<files, loaded, length, owner>>

\* The scoped_lock goes, also with an exception.
Unlock(r, failed) == NoReader

\* stream.read() and the test of gcount().  A short read spoils the stream.
ReadStream(r) ==
    /\ reader[r].pc = "read"
    /\ LET n == EncodedSize(r)
       IN  \/ /\ stream.good
              /\ stream.position + n <= length
              /\ reader' = [reader EXCEPT ![r].pc = "decode",
                                          ![r].encoded = Stored(stream.position, n)]
              /\ stream' = [stream EXCEPT !.position = @ + n]
              /\ owner' = Unlock(r, FALSE)
           \/ /\ ~(stream.good /\ stream.position + n <= length)
              /\ reader' = Goto(r, "failed")
              /\ stream' = [stream EXCEPT !.good = FALSE]
              /\ owner' = Unlock(r, TRUE)
    /\ UNCHANGED <<files, loaded, length>>

\* decode_block, and the part of the block that was asked for.
Decode(r) ==
    /\ reader[r].pc = "decode"
    /\ LET i == Block(r)
           start == (i - 1) * BlockSize
           copyBegin == Greater(reader[r].offset, start)
           copyEnd == Lesser(reader[r].offset + reader[r].requested, BlockEnd(Item(r), i))
           plain == Decoded(Item(r), reader[r].encoded)
       IN  \/ /\ Decodes(Item(r), i, reader[r].encoded)
              /\ reader' = [reader EXCEPT ![r].pc = "block", ![r].todo = @ \ {i},
                                          ![r].encoded = <<>>,
                                          ![r].output = @ \o SubSeq(plain, copyBegin - start + 1,
                                                                    copyEnd - start)]
           \/ /\ ~Decodes(Item(r), i, reader[r].encoded)
              /\ reader' = Goto(r, "failed")
    /\ UNCHANGED <<files, loaded, length, stream, owner>>

Continue(r) ==
    \/ TakeBlock(r)
    \/ Return(r)
    \/ Lock(r)
    \/ Seek(r)
    \/ ReadStream(r)
    \/ Decode(r)

-----------------------------------------------------------------------------
(***************************************************************************)
(* Properties.                                                             *)
(***************************************************************************)

\* The file that an archive contains: byte k is in block k \div BlockSize.
PlainBlock(item, i) == Decoded(item, Stored(BlockOffset(item, i), item.encoded[i]))
PlainByte(item, k) == PlainBlock(item, k \div BlockSize + 1)[(k % BlockSize) + 1]

\* A read that succeeds has all of what was asked for and the file contains, and
\* every byte of it is the file's: with other threads at the same stream, at
\* the ends of blocks, and with a DAT that is cut off in the meantime.  No id
\* of a file passes 32 bits and comes to stand for another file.
ReadIsExact ==
    /\ DOMAIN files \subseteq 0 .. MaxU32
    /\ \A r \in Reader : reader[r].pc = "done" =>
          /\ Len(reader[r].output) = reader[r].requested
          /\ \A k \in 1 .. reader[r].requested :
                reader[r].output[k] = PlainByte(Item(r), reader[r].offset + k - 1)

\* What can be wrong with block i of a file: it has no payload, its payload is
\* not valid, or it is in a part of the DAT that has been cut off.
Bad(item, i) ==
    \/ item.encoded[i] = 0
    \/ ~Decodes(item, i, Stored(BlockOffset(item, i), item.encoded[i]))
    \/ BlockOffset(item, i) + item.encoded[i] > length

\* A read fails only when a block that it needs is bad.  A table that has been
\* accepted leaves no gap and leads to nowhere outside the DAT, and a read that
\* has failed does not make another one fail.
FailureHasCause ==
    \A r \in Reader : reader[r].pc = "failed" =>
        \E i \in DOMAIN Item(r).encoded :
            /\ BlockEnd(Item(r), i) > reader[r].offset
            /\ (i - 1) * BlockSize < reader[r].offset + reader[r].requested
            /\ Bad(Item(r), i)

=============================================================================
