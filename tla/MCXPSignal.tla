----------------------------- MODULE MCXPSignal -----------------------------
(***************************************************************************)
(* XPSignal with two threads and two signals.                              *)
(***************************************************************************)
EXTENDS XPSignal

CONSTANTS t1, t2, s1, s2
=============================================================================
