-------------------------------- MODULE Blob --------------------------------
(***************************************************************************)
(* The metadata of one revision (steam2_archive.cpp): read_file and        *)
(* parse_blob as load_blob_candidate calls them, decompress_blob, and      *)
(* parse_blob again on what is inside.                                     *)
(*                                                                         *)
(* A blob is a header, entries of a key and a value, and slack.  The file  *)
(* is sized, opened and read at different moments, and the user may put    *)
(* another one in its place.                                               *)
(*                                                                         *)
(* A number of 16 or 32 bits is one cell here, and one of 64 bits two; all *)
(* sizes count cells.  What the checksum table (field 4) and the manifest  *)
(* say is in the modules ArchiveRead and Manifest.                         *)
(*                                                                         *)
(* An operator whose comment begins with "Fault:" is no part of the model. *)
(***************************************************************************)
EXTENDS Integers, Sequences, FiniteSets

CONSTANTS
    Contents,           \* what the file of the blob may contain
    BlobMagic,          \* kBlobMagic
    CompressedMagic,    \* kCompressedBlobMagic
    KeyWidth,           \* the width that every key must have
    Unpack              \* what each valid compressed payload is inflated to

\* Assumed of the constants by who uses this module.
Assumptions ==
    /\ \A b \in Contents : b \in Seq(Nat)
    /\ BlobMagic \in Nat /\ CompressedMagic \in Nat \ {BlobMagic} /\ KeyWidth \in Nat
    /\ \A s \in DOMAIN Unpack : s \in Seq(Nat) /\ Unpack[s] \in Seq(Nat)

VARIABLES
    file,       \* the file on disk, until it has been read
    size,       \* the size it was found to have
    stage,      \* what is done next, "parsed" or "refused"
    bytes,      \* the bytes being parsed
    position,   \* Reader::position_
    values,     \* the entries found in them so far
    fields      \* the entries of the blob itself, once its contents are parsed

vars == <<file, size, stage, bytes, position, values, fields>>

HeaderSize == 3
EntryHeaderSize == 2
NoValues == <<>>

Init ==
    /\ file \in Contents
    /\ size = 0
    /\ stage = "size"
    /\ bytes = <<>>
    /\ position = 0
    /\ values = NoValues
    /\ fields = NoValues

\* The user replaces the file.  What happens to it after it is read is left out.
FileChanges ==
    /\ stage = "read"
    /\ file' \in Contents
    /\ UNCHANGED <<size, stage, bytes, position, values, fields>>

Goto(next) ==
    /\ stage' = next
    /\ UNCHANGED <<file, size, bytes, position, values, fields>>

\* An exception leaves the parsers.
Refuse == Goto("refused")

-----------------------------------------------------------------------------
(***************************************************************************)
(* read_file                                                               *)
(***************************************************************************)
SizeFile ==
    /\ stage = "size"
    /\ size' = Len(file)
    /\ stage' = "read"
    /\ UNCHANGED <<file, bytes, position, values, fields>>

\* Fault: gcount() is not looked at (BlobReadRight).
NeverShort == FALSE

\* gcount() is not the size that was asked for.
ReadsShort == Len(file) < size

\* A buffer of the size is filled from the start of what is there now.
ReadFile ==
    /\ stage = "read"
    /\ \/ /\ ~ReadsShort
          /\ bytes' = [i \in 1 .. size |-> IF i <= Len(file) THEN file[i] ELSE 0]
          /\ stage' = "header"
          /\ UNCHANGED <<file, size, position, values, fields>>
       \/ ReadsShort /\ Refuse

-----------------------------------------------------------------------------
(***************************************************************************)
(* parse_blob                                                              *)
(***************************************************************************)
Total(b) == b[2]
Slack(b) == b[3]

HeaderRight(b) ==
    /\ Len(b) >= HeaderSize
    /\ b[1] = BlobMagic
    /\ Total(b) >= HeaderSize
    /\ Total(b) <= Len(b)
    /\ Slack(b) <= Len(b) - Total(b)

ReadHeader ==
    /\ stage = "header"
    /\ \/ /\ HeaderRight(bytes)
          /\ position' = HeaderSize
          /\ values' = NoValues
          /\ stage' = "entries"
          /\ UNCHANGED <<file, size, bytes, fields>>
       \/ ~HeaderRight(bytes) /\ Refuse

\* Where the entry at p ends, its key and its value.
EntryEnd(b, p) == p + EntryHeaderSize + 1 + b[p + 2]
EntryKey(b, p) == b[p + EntryHeaderSize + 1]
EntryValue(b, p) == SubSeq(b, p + EntryHeaderSize + 2, EntryEnd(b, p))

\* Fault: a key that is there already is met again (BlobReadRight).
Unseen(key) == TRUE

\* emplace() inserts.
IsNew(key) == key \notin DOMAIN values

\* No read of the entry passes the end of the bytes, nor the entry that of the
\* entries, and its key is new.
EntryRight ==
    /\ position + EntryHeaderSize <= Len(bytes)
    /\ bytes[position + 1] = KeyWidth
    /\ EntryEnd(bytes, position) <= Len(bytes)
    /\ EntryEnd(bytes, position) <= Total(bytes)
    /\ IsNew(EntryKey(bytes, position))

ReadEntry ==
    /\ stage = "entries"
    /\ position < Total(bytes)
    /\ \/ /\ EntryRight
          /\ position' = EntryEnd(bytes, position)
          /\ values' = [k \in DOMAIN values \cup {EntryKey(bytes, position)} |->
                           IF k = EntryKey(bytes, position) THEN EntryValue(bytes, position)
                           ELSE values[k]]
          /\ UNCHANGED <<file, size, stage, bytes, fields>>
       \/ ~EntryRight /\ Refuse

\* Entries end at the boundary: one that passed it would have been refused.
EndOfEntries ==
    /\ stage = "entries"
    /\ position >= Total(bytes)
    /\ Goto(IF position # Total(bytes) THEN "refused"
            ELSE IF fields = NoValues THEN "fields" ELSE "inner")

-----------------------------------------------------------------------------
(***************************************************************************)
(* load_blob_candidate, and the manifest's blob in field 3.                *)
(***************************************************************************)
HasWidth(v, key, width) == key \in DOMAIN v /\ Len(v[key]) = width

\* Fault: the size of the DAT has one width in both formats (BlobReadRight).
OneWidth(v) == 1

\* The width of field 13: a format 3 gives the size of the DAT in 32 bits.
SizeWidth(v) == IF v[0] = <<3>> THEN 1 ELSE 2

FieldsRight(v) ==
    /\ HasWidth(v, 0, 1)
    /\ v[0] \in {<<3>>, <<4>>}
    /\ HasWidth(v, 13, SizeWidth(v))
    /\ HasWidth(v, 12, 1)

TakeFields ==
    /\ stage = "fields"
    /\ \/ /\ FieldsRight(values)
          /\ fields' = values
          /\ stage' = "table"
          /\ UNCHANGED <<file, size, bytes, position, values>>
       \/ ~FieldsRight(values) /\ Refuse

\* required_value(4): the table may be parsed.
HasTable == stage = "table" /\ 4 \in DOMAIN fields

MissesTable ==
    /\ stage = "table"
    /\ 4 \notin DOMAIN fields
    /\ Refuse

\* The table has been parsed.
TableDone == Goto("unpack")

\* magic, packed size (2 cells), unpacked size (2 cells) and a hint.
CompressedHeaderSize == 6
Payload(b) == SubSeq(b, CompressedHeaderSize + 1, Len(b))

\* decompress_blob succeeds.  The packed size may be that of the payload or
\* of all.  The upper cells of the sizes are zero.
Unpacks(b) ==
    /\ Len(b) >= CompressedHeaderSize
    /\ b[1] = CompressedMagic
    /\ b[2] \in {Len(Payload(b)), Len(b)}
    /\ b[3] = 0
    /\ Payload(b) \in DOMAIN Unpack
    /\ b[4] = Len(Unpack[Payload(b)])
    /\ b[5] = 0

HasPackedManifest(v) == 3 \in DOMAIN v /\ Unpacks(v[3])

UnpackManifest ==
    /\ stage = "unpack"
    /\ \/ /\ HasPackedManifest(fields)
          /\ bytes' = Unpack[Payload(fields[3])]
          /\ stage' = "header"
          /\ UNCHANGED <<file, size, position, values, fields>>
       \/ ~HasPackedManifest(fields) /\ Refuse

\* required_value(0) of the blob inside.
TakeManifest ==
    /\ stage = "inner"
    /\ Goto(IF 0 \in DOMAIN values THEN "parsed" ELSE "refused")

Step ==
    \/ FileChanges
    \/ SizeFile
    \/ ReadFile
    \/ ReadHeader
    \/ ReadEntry
    \/ EndOfEntries
    \/ TakeFields
    \/ MissesTable
    \/ UnpackManifest
    \/ TakeManifest

-----------------------------------------------------------------------------
(***************************************************************************)
(* What a blob is, in the whole.                                           *)
(***************************************************************************)
\* The positions that following the sizes of entries leads to.
Boundaries(b) ==
    LET reached[n \in 0 .. Total(b)] ==
            IF n = 0 THEN {HeaderSize}
            ELSE LET before == reached[n - 1]
                 IN  before \cup {EntryEnd(b, p) : p \in
                                     {q \in before : q + EntryHeaderSize < Total(b)}}
    IN  reached[Total(b)]

Starts(b) == Boundaries(b) \ {Total(b)}

\* Entries with keys of the right width, all different, fill it exactly.
WellFormed(b) ==
    /\ HeaderRight(b)
    /\ Total(b) \in Boundaries(b)
    /\ \A p \in Starts(b) : p + EntryHeaderSize < Total(b) /\ b[p + 1] = KeyWidth
    /\ \A p, q \in Starts(b) : EntryKey(b, p) = EntryKey(b, q) => p = q

ValuesOf(b) ==
    [k \in {EntryKey(b, p) : p \in Starts(b)} |->
        EntryValue(b, CHOOSE p \in Starts(b) : EntryKey(b, p) = k)]

Usable(b) ==
    /\ WellFormed(b)
    /\ LET v == ValuesOf(b)
       IN  /\ HasWidth(v, 0, 1) /\ HasWidth(v, 12, 1)
           /\ \/ v[0] = <<3>> /\ HasWidth(v, 13, 1)
              \/ v[0] = <<4>> /\ HasWidth(v, 13, 2)

HasManifest(b) ==
    LET v == ValuesOf(b)
        inside == Unpack[Payload(v[3])]
    IN  HasPackedManifest(v) /\ WellFormed(inside) /\ 0 \in DOMAIN ValuesOf(inside)

\* What is taken from a blob is what the file contains, as it was when it was
\* read: replaced after it was sized, it is refused, unless the part of it that
\* was read is a whole blob by itself.  The blob inside a blob is what its
\* payload says.
TakenIsRight ==
    /\ fields # NoValues => Usable(file) /\ fields = ValuesOf(file)
    /\ stage = "parsed" => HasManifest(file) /\ values = ValuesOf(Unpack[Payload(fields[3])])

\* Why a blob is refused: it came up short, or is wrong in some respect.
WrongBlob ==
    \/ Len(file) < size
    \/ fields = NoValues /\ ~Usable(bytes)
    \/ fields # NoValues /\ 4 \notin DOMAIN fields
    \/ fields # NoValues /\ ~HasManifest(file)

=============================================================================
