----------------------------- MODULE MCDistances ----------------------------
(***************************************************************************)
(* Distances for all numbers of hashes and workers up to a bound.          *)
(***************************************************************************)
EXTENDS Distances

CONSTANTS MaxHashes, MaxWorkers

UpToMaxHashes == 3 .. MaxHashes
UpToMaxWorkers == 1 .. MaxWorkers
=============================================================================
