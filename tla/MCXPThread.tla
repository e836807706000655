----------------------------- MODULE MCXPThread -----------------------------
(***************************************************************************)
(* XPThread with a base thread and up to three others.                     *)
(***************************************************************************)
EXTENDS XPThread, TLC

CONSTANTS c1, c2, c3

ChildSymmetry == Permutations(Children)
=============================================================================
