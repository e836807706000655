--------------------------- MODULE AtomicReversal ---------------------------
(***************************************************************************)
(* What the optimization of binsort promises, however many workers run:    *)
(* the order of the files changes only by reversing, in one indivisible    *)
(* step, a segment of at most half of the tour; the running distance is    *)
(* always the length of the tour; and what is published in the end is the  *)
(* tour, cut open at a longest edge.                                       *)
(***************************************************************************)
EXTENDS Tour, Sequences

VARIABLES order, currentDistance, output

vars == <<order, currentDistance, output>>

Init ==
  /\ order = [p \in Position |-> p]
  /\ currentDistance = TourLength(order)
  /\ output = <<>>

Reverse ==
  /\ output = <<>>
  /\ \E a, b \in Position :
       /\ 2 * SegmentLength(a, b) <= NumFiles
       /\ order' = Reversed(order, a, b)
  /\ currentDistance' = TourLength(order')
  /\ UNCHANGED output

Publish ==
  /\ output = <<>>
  /\ \E cut \in Position :
       /\ \A p \in Position : EdgeAt(order, p) <= EdgeAt(order, cut)
       /\ output' = [k \in 1 .. NumFiles |-> order[(cut + k) % NumFiles]]
  /\ UNCHANGED <<order, currentDistance>>

Next == Reverse \/ Publish

Spec == Init /\ [][Next]_vars
=============================================================================
