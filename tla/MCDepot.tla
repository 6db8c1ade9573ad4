------------------------------ MODULE MCDepot -------------------------------
(***************************************************************************)
(* A DAT of five cells with five kinds of file: one compressed in two      *)
(* blocks, of which the second is short, an encrypted one that shares the  *)
(* last cells, an empty one, one with an invalid stream, and one whose     *)
(* only block has no payload.  The other tables are wrong in one respect   *)
(* each.                                                                   *)
(*                                                                         *)
(* The manifests are all tables of three nodes whose names are empty,      *)
(* unsafe, or one of two that differ by a colon, and of which each may be  *)
(* the parent of any, or lie outside the table; they come with a table of  *)
(* three empty files.  The DAT is read with manifests of two files.        *)
(*                                                                         *)
(* The blobs are good ones with and without slack, in both formats, and    *)
(* others that are wrong in one respect each.  Any may take the place of   *)
(* any other.                                                              *)
(***************************************************************************)
EXTENDS Depot, TLC

MCCell == 0 .. 6
MCDat == <<1, 2, 3, 1, 2>>
MCDecrypt == [c \in MCCell |-> (c + 3) % 7]
MCInflate == (<<1, 2, 3>> :> <<4, 5>>) @@ (<<1, 2>> :> <<6>>)
MCRequest == {<<0, 1>>, <<0, 3>>, <<1, 2>>, <<2, 1>>}

MCItem(s, offset, mode, encoded) ==
    [size |-> s, offset |-> offset, mode |-> mode, encoded |-> encoded]
MCCompressed == MCItem(3, 0, 1, <<3, 2>>)
MCEncrypted == MCItem(2, 3, 3, <<2>>)
MCEmpty == MCItem(0, 5, 1, <<0>>)
MCInvalid == MCItem(1, 1, 1, <<2>>)
MCNoPayload == MCItem(2, 5, 2, <<0>>)

MCTable(items, count, largest) ==
    [runs |-> <<[start |-> 1, items |-> items]>>, itemCount |-> count, largest |-> largest]

MCGoodTable == MCTable(<<MCCompressed, MCEncrypted>>, 2, 2)
MCTableSeq ==
    <<MCGoodTable,
      [MCGoodTable EXCEPT !.runs = <<[start |-> 4, items |-> <<MCCompressed>>],
                                     [start |-> 3, items |-> <<MCNoPayload>>]>>],
      MCTable(<<MCEmpty, MCEncrypted, MCInvalid>>, 3, 1),
      MCTable(<<MCItem(3, 0, 1, <<3>>)>>, 1, 1),
      MCTable(<<MCItem(3, 1, 1, <<3, 2>>)>>, 1, 2),
      MCTable(<<MCItem(2, 0, 1, <<5>>)>>, 1, 1),
      MCTable(<<MCItem(2, 0, 3, <<1>>)>>, 1, 1),
      MCTable(<<MCItem(2, 7, 1, <<4>>)>>, 1, 1),
      MCTable(<<MCEncrypted>>, 2, 1),
      [MCGoodTable EXCEPT !.runs[1].start = 7],
      MCTable(<<MCEmpty, MCEmpty, MCEmpty>>, 3, 1),
      MCTable(<<>>, 0, 0)>>
MCTables == {MCTableSeq[i] : i \in DOMAIN MCTableSeq}
MCTableIn == [v \in {<<i>> : i \in DOMAIN MCTableSeq} |-> MCTableSeq[v[1]]]

-----------------------------------------------------------------------------
MCWord == {"", "..", "a", "a:", "b"}
MCStrip == [w \in MCWord |-> IF w = "a:" THEN "a" ELSE w]

MCNode(i, names, kinds) ==
    [name : names, id : {i}, parent : {1, 2, 3, 4, NoParent}, file : kinds]

\* The first node is a directory or a file; the header reports the right number
\* of files or two.
MCFiles(t) == Cardinality({i \in DOMAIN t : t[i].file})
MCNodeTables ==
    {<<a, b, c>> : a \in MCNode(1, {"", "a"}, BOOLEAN), b \in MCNode(2, {"", "..", "a"}, BOOLEAN),
                   c \in MCNode(3, {"a", "a:"}, {TRUE})}
MCAllManifests ==
    {[nodes |-> t, fileCount |-> MCFiles(t)] : t \in MCNodeTables}
        \cup {[nodes |-> t, fileCount |-> 2] : t \in {t \in MCNodeTables : MCFiles(t) = 1}}

MCDirectory == [name |-> "", id |-> 0, parent |-> NoParent, file |-> FALSE]
MCFile(i, name) == [name |-> name, id |-> i, parent |-> 1, file |-> TRUE]
MCTwoFiles ==
    {[nodes |-> <<MCDirectory, MCFile(ids[1], "a"), MCFile(ids[2], "b")>>, fileCount |-> 2] :
        ids \in {<<1, 2>>, <<4, 3>>, <<2, 3>>}}
MCNoFiles == {[nodes |-> <<MCDirectory>>, fileCount |-> 0]}

MCManifestsIn == (<<1>> :> MCTwoFiles) @@ (<<2>> :> MCAllManifests) @@ (<<3>> :> MCNoFiles)
MCManifests == UNION {MCManifestsIn[v] : v \in DOMAIN MCManifestsIn}

-----------------------------------------------------------------------------
MCBlobMagic == 50
MCCompressedMagic == 51
MCKeyWidth == 4

MCEntry(key, value) == <<MCKeyWidth, Len(value), key>> \o value
MCBlob(entries, slack) ==
    <<MCBlobMagic, 3 + Len(entries), Len(slack)>> \o entries \o slack

\* A manifest is packed into one cell of the same value.
MCInside(m) == MCBlob(MCEntry(0, <<m>>), <<>>)
MCPacked(m) == <<MCCompressedMagic, 1, 0, Len(MCInside(m)), 0, 6, m>>
MCUnpack ==
    [v \in {<<1>>, <<2>>, <<3>>} |-> MCInside(v[1])]
        @@ (<<4>> :> MCBlob(MCEntry(7, <<1>>), <<>>))
        @@ (<<5>> :> <<MCBlobMagic, 7, 1, MCKeyWidth, 1, 0, 1>>)

MCEntries(format, width, t, m) ==
    MCEntry(0, <<format>>) \o MCEntry(12, <<0>>) \o MCEntry(13, width)
        \o MCEntry(4, <<t>>) \o MCEntry(3, m)
MCGoodBlob(t, m) == MCBlob(MCEntries(3, <<5>>, t, MCPacked(m)), <<>>)

\* What follows the entries is slack, or nothing that the header speaks of.
MCPlain == MCEntries(3, <<5>>, 12, MCPacked(3))
MCGoodBlobs ==
    {MCGoodBlob(t, 1) : t \in 1 .. 10}
        \cup {MCGoodBlob(11, 2), MCGoodBlob(12, 3),
              MCBlob(MCEntries(4, <<5, 0>>, 12, MCPacked(3)), <<>>),
              MCBlob(MCPlain, <<0, 0>>),
              MCBlob(MCPlain, <<>>) \o <<MCKeyWidth, 0>>,
              MCBlob(MCEntries(3, <<5>>, 12, [MCPacked(3) EXCEPT ![2] = 7]), <<>>)}

MCBadFields ==
    {MCBlob(MCEntries(5, <<5>>, 12, MCPacked(3)), <<>>),
     MCBlob(MCEntries(4, <<5>>, 12, MCPacked(3)), <<>>),
     MCBlob(MCEntry(0, <<3>>) \o MCEntry(12, <<0>>) \o MCEntry(13, <<5>>) \o MCEntry(3, MCPacked(3)),
            <<>>),
     MCBlob(MCEntry(0, <<3>>) \o MCEntry(12, <<0>>) \o MCEntry(13, <<5>>) \o MCEntry(4, <<12>>),
            <<>>)}
        \cup {MCBlob(MCEntries(3, <<5>>, 12, m), <<>>) :
                 m \in {MCPacked(4), <<51, 1, 0, 7, 0, 6, 5>>, <<51, 1, 0, 8, 0, 6, 3>>,
                        <<50, 1, 0, 7, 0, 6, 3>>, <<51, 2, 0, 7, 0, 6, 3>>, <<51, 1, 0, 7>>}}

MCTwice == MCPlain \o MCEntry(4, <<11>>)
MCBadBlobs ==
    {<<>>,
     <<MCBlobMagic, 2, 0>>,
     [MCBlob(MCPlain, <<>>) EXCEPT ![1] = 0],
     [MCBlob(MCPlain, <<>>) EXCEPT ![2] = @ + 1],
     [MCBlob(MCPlain, <<>>) EXCEPT ![2] = @ - 1, ![3] = 1],
     [MCBlob(MCPlain, <<>>) EXCEPT ![3] = 1],
     [MCBlob(MCPlain, <<>>) EXCEPT ![4] = 2],
     MCBlob(MCTwice, <<>>),
     SubSeq(MCBlob(MCPlain, <<>>), 1, Len(MCPlain)),
     MCBlob(MCPlain \o <<MCKeyWidth>>, <<>>)}

MCContents == MCGoodBlobs \cup MCBadFields \cup MCBadBlobs

=============================================================================
