---------------------------- MODULE MCHashFile ------------------------------
(***************************************************************************)
(* Files of three different bytes, shingles of two of them, a heap of four *)
(* and a table of eight slots.  In the file 0 0 1 0 2 1 1 2 2 0 the nine   *)
(* checksums come in descending order, so that each is kept for a while.   *)
(* Nine checksums begin their search at four slots.                        *)
(***************************************************************************)
EXTENDS HashFile

NineChecksums == {0, 1, 2, 3, 8, 9, 10, 16, 24}

CrcOf == [s \in [1 .. 2 -> 0 .. 2] |->
  <<<<24, 16, 9>>, <<10, 3, 2>>, <<0, 8, 1>>>>[s[1] + 1][s[2] + 1]]
=============================================================================
