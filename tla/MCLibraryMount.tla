--------------------------- MODULE MCLibraryMount ---------------------------
(***************************************************************************)
(* A small library in two folders: depot 1 with versions 0 to 2, a twin of *)
(* version 1 in the same folder and a copy in the other, two DATs for      *)
(* version 2 in one folder and a third in the other, a blob with a lax     *)
(* name, and a depot 2 without a key.                                      *)
(***************************************************************************)
EXTENDS LibraryMount

MCNaming(kind, depot, version, crc, strict) ==
    [kind |-> kind, depot |-> depot, version |-> version, crc |-> crc, strict |-> strict]

MCName ==
    [root |-> MCNaming("blob", 1, 0, 1, TRUE),
     mid |-> MCNaming("blob", 1, 1, 2, TRUE),
     twin |-> MCNaming("blob", 1, 1, 2, TRUE),
     copy |-> MCNaming("blob", 1, 1, 2, TRUE),
     lax |-> MCNaming("blob", 1, 1, NoCrc, FALSE),
     top |-> MCNaming("blob", 1, 2, 3, TRUE),
     other |-> MCNaming("blob", 2, 0, 1, TRUE),
     dat0 |-> MCNaming("dat", 1, 0, 4, TRUE),
     dat1 |-> MCNaming("dat", 1, 1, 4, TRUE),
     dat2 |-> MCNaming("dat", 1, 2, 5, TRUE),
     dat2x |-> MCNaming("dat", 1, 2, 6, TRUE),
     dat2y |-> MCNaming("dat", 1, 2, 5, TRUE),
     otherDat |-> MCNaming("dat", 2, 0, 4, TRUE)]

MCPath == DOMAIN MCName
MCSorted == <<"copy", "dat2y", "dat0", "dat1", "dat2", "dat2x", "lax", "mid", "other",
              "otherDat", "root", "top", "twin">>

MCDirectory == {"library", "backup"}
MCFolder == [p \in MCPath |-> IF p \in {"copy", "dat2y"} THEN "backup" ELSE "library"]

MCBlob(parent, table, manifest) ==
    [parent |-> parent, datSize |-> 1, table |-> table, manifest |-> manifest, clash |-> FALSE]
MCDat(size) == [size |-> size]

\* What the disk may hold.
MCAll == {"f", "g"}
MCContents ==
    [root |-> {Absent, Garbled, MCBlob(0, MCAll, {"f"}), MCBlob(2, MCAll, {"f"})},
     mid |-> {Absent, MCBlob(1, {"f"}, {"f", "g"}), MCBlob(0, {"f"}, {"f"}),
              MCBlob(2, {"f"}, {"f"}), MCBlob(1, {"f"}, Malformed),
             [MCBlob(1, {"f"}, {"f", "g"}) EXCEPT !.datSize = 2]},
     twin |-> {Absent, MCBlob(1, {"f"}, {"f", "g"})},
     copy |-> {Absent, MCBlob(0, {"f"}, {"f"})},
     lax |-> {Absent, MCBlob(1, {"f"}, {"f"})},
     top |-> {Absent, MCBlob(2, {}, {"f", "g"}), MCBlob(0, {"f"}, {"f", "g"}),
              MCBlob(2, Malformed, {"f"}),
              [MCBlob(2, {"f"}, {"f", "g"}) EXCEPT !.clash = TRUE]},
     other |-> {MCBlob(0, {"f"}, {"f"})},
     dat0 |-> {Absent, MCDat(1)},
     dat1 |-> {MCDat(1), MCDat(2)},
     dat2 |-> {MCDat(1), MCDat(2)},
     dat2x |-> {Absent, MCDat(1)},
     dat2y |-> {Absent, MCDat(1)},
     otherDat |-> {MCDat(1)}]

\* The DATs: as they should be, or missing, of the wrong size, doubled.
MCDats(dat0, dat1, dat2, dat2x, dat2y) ==
    [dat0 |-> dat0, dat1 |-> dat1, dat2 |-> dat2, dat2x |-> dat2x, dat2y |-> dat2y]
MCGoodDats == MCDats(MCDat(1), MCDat(1), MCDat(1), Absent, Absent)
MCDatSets ==
    {MCGoodDats,
     MCDats(Absent, MCDat(1), MCDat(1), Absent, Absent),
     MCDats(MCDat(1), MCDat(2), MCDat(1), Absent, Absent),
     MCDats(MCDat(1), MCDat(1), MCDat(2), Absent, Absent),
     MCDats(MCDat(1), MCDat(1), MCDat(2), MCDat(1), Absent),
     MCDats(MCDat(1), MCDat(1), MCDat(1), MCDat(1), Absent),
     MCDats(Absent, MCDat(1), MCDat(1), MCDat(1), Absent),
     MCDats(MCDat(1), MCDat(1), MCDat(1), Absent, MCDat(1))}

\* Version 1 is there once, or with a namesake: one with the same CRC in the same
\* folder or in the other, or one without a CRC.
MCSpare(twin, copy, lax) == [twin |-> twin, copy |-> copy, lax |-> lax]
MCNoSpare == MCSpare(Absent, Absent, Absent)
MCSpares == {MCNoSpare}
    \cup {MCSpare(b, Absent, Absent) : b \in MCContents.twin \ {Absent}}
    \cup {MCSpare(Absent, b, Absent) : b \in MCContents.copy \ {Absent}}
    \cup {MCSpare(Absent, Absent, b) : b \in MCContents.lax \ {Absent}}

MCDisk(root, mid, spare, top, dats) ==
    [root |-> root, mid |-> mid, twin |-> spare.twin, copy |-> spare.copy,
     lax |-> spare.lax, top |-> top,
     other |-> MCBlob(0, {"f"}, {"f"}), otherDat |-> MCDat(1),
     dat0 |-> dats.dat0, dat1 |-> dats.dat1, dat2 |-> dats.dat2, dat2x |-> dats.dat2x,
     dat2y |-> dats.dat2y]

\* Every combination of blobs, with namesakes or with any DATs.
MCDisks ==
    {MCDisk(root, mid, choice[1], top, choice[2]) :
        root \in MCContents.root, mid \in MCContents.mid, top \in MCContents.top,
        choice \in {<<spare, dats>> \in MCSpares \X MCDatSets :
            spare = MCNoSpare \/ dats = MCGoodDats}}

\* Files change where everything is in order.
MCChanging ==
    {MCDisk(MCBlob(0, MCAll, {"f"}), MCBlob(1, {"f"}, {"f", "g"}), MCNoSpare,
            MCBlob(2, {}, {"f", "g"}), MCGoodDats)}

MCKeyed == {1}

MCBuild(version, crc, folder) ==
    [id |-> 1, version |-> version, crc |-> crc, blobFiles |-> {}, datFiles |-> {},
     blobFolder |-> folder, datFolder |-> "library"]

\* The last takes its blob from one folder and its DAT from the other.
MCBuilds ==
    {MCBuild(version, crc, "library") :
        <<version, crc>> \in {<<2, 3>>, <<1, 2>>, <<1, NoCrc>>, <<0, 1>>}}
    \cup {MCBuild(1, 2, "backup")}

=============================================================================
