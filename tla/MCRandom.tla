------------------------------ MODULE MCRandom ------------------------------
(***************************************************************************)
(* Random with words of a few bits and every range that fits into a word.  *)
(***************************************************************************)
EXTENDS Random

EveryRange == 1 .. 2 ^ WordBits - 1
=============================================================================
