----------------------------- MODULE MCOptimize -----------------------------
(***************************************************************************)
(* Small instances of Optimize for TLC: few files, of which one has no     *)
(* hash, and distances small except for a few, so that segments are both   *)
(* accepted and rejected.                                                  *)
(***************************************************************************)
EXTENDS Optimize, TLC

CONSTANTS w1, w2

\* Neighbours of the initial order are close, a few other pairs far apart.
NearFar ==
  [pair \in HashedPair |->
     LET d == IF pair[1] > pair[2] THEN pair[1] - pair[2] ELSE pair[2] - pair[1]
         s == pair[1] + pair[2]
     IN  IF d = 1 THEN 1 + ((s \div 2) % 2) ELSE IF s % 5 = 0 THEN 255 ELSE (d * s) % 4]

AllButOne == 0 .. NumFiles - 2

\* The workers are interchangeable.
WorkerSymmetry == Permutations(Workers)
=============================================================================
