--------------------------- MODULE MCFileContent ----------------------------
(***************************************************************************)
(* FileContent on a file of at most six bytes in pages of two: an archive  *)
(* file of three bytes, so that its end falls inside a page, and writes of *)
(* one, two and three bytes, so that a write can cover part of a page, a   *)
(* page, or more than one page at any alignment.                           *)
(***************************************************************************)
EXTENDS FileContent

CONSTANTS zero, archived, written

MCByte == {zero, archived, written}
MCBase == [i \in 0 .. 2 |-> archived]
MCInputs == {<<written>>, <<written, archived>>, <<written, written, archived>>}

=============================================================================
