-------------------------------- MODULE Tour --------------------------------
(***************************************************************************)
(* The order of the files as binsort_genorder and the optimization workers *)
(* see it: a cyclic tour through all files, the distance between           *)
(* neighbours, and the pure calculations the C code makes on positions of  *)
(* that tour (binsort.c: getdist, getdelta and the index arithmetic of     *)
(* binsort_worker_optimize).                                               *)
(*                                                                         *)
(* A file is named by its position in the initial order, so the initial    *)
(* order is the identity.  A file whose hash could not be computed keeps   *)
(* den_Index = -1 and has no distances: it is a file outside Hashed.       *)
(***************************************************************************)
EXTENDS Integers

CONSTANTS
  NumFiles,   \* b_NumFiles, the number of files in the order
  Hashed,     \* the files with a hash (den_Index >= 0)
  Distances   \* b_Distances; its diagonal is never written by the code

File == 0 .. NumFiles - 1
Position == 0 .. NumFiles - 1
HashedPair == {pair \in Hashed \X Hashed : pair[1] # pair[2]}

\* binsort_run only optimizes when more than two files have a hash.
ASSUME TourAssumption ==
  /\ NumFiles \in Nat /\ NumFiles > 2
  /\ Hashed \subseteq File
  /\ Distances \in [HashedPair -> 0 .. 255]
  /\ \A x, y \in Hashed : x # y => Distances[<<x, y>>] = Distances[<<y, x>>]

-----------------------------------------------------------------------------
(* Positions: (i + 1) % num, and --i with "if (i < 0) i += num".           *)

Succ(p) == IF p = NumFiles - 1 THEN 0 ELSE p + 1
Pred(p) == IF p = 0 THEN NumFiles - 1 ELSE p - 1

\* How many steps it takes to walk from a to p.
Offset(p, a) == IF p >= a THEN p - a ELSE p - a + NumFiles

\* The segment from a to b, walking upwards and round the end if a > b: is p
\* on it, how many positions has it, and where does p go when it is reversed?
Inside(p, a, b) == Offset(p, a) <= Offset(b, a)
SegmentLength(a, b) == Offset(b, a) + 1
Mirror(p, a, b) ==
  LET q == a + b - p
  IN  IF q < 0 THEN q + NumFiles ELSE IF q >= NumFiles THEN q - NumFiles ELSE q
Reversed(tour, a, b) ==
  [p \in Position |-> IF Inside(p, a, b) THEN tour[Mirror(p, a, b)] ELSE tour[p]]

-----------------------------------------------------------------------------
(* Distances.                                                              *)

Edge(x, y) == IF x \in Hashed /\ y \in Hashed THEN Distances[<<x, y>>] ELSE 0

EdgeAt(tour, p) == Edge(tour[p], tour[Succ(p)])

\* getdist: the length of the closed tour.
TourLength(tour) ==
  LET d[k \in 0 .. NumFiles] == IF k = 0 THEN 0 ELSE d[k - 1] + EdgeAt(tour, k - 1)
  IN  d[NumFiles]

\* getdelta: what swapping the two ends of the segment i0 .. i1 (and with them
\* everything between) changes in the length of the tour.
DeltaOneSided(tour, i0, i1) ==
  Edge(tour[i1], tour[Pred(i0)]) - Edge(tour[i0], tour[Pred(i0)])
Delta(tour, i0, i1) ==
  LET a == tour[i0]  b == tour[i1]  c == tour[Pred(i0)]  d == tour[Succ(i1)]
  IN  Edge(a, d) - Edge(a, c) + Edge(b, c) - Edge(b, d)

\* getdist's p_startpos: the first position followed by the worst distance.
BehindWorst(tour) ==
  Succ(CHOOSE p \in Position : \A q \in Position : EdgeAt(tour, q) <= EdgeAt(tour, p))
StartPos(tour) ==
  LET Known == {p \in Position : tour[p] \in Hashed /\ tour[Succ(p)] \in Hashed}
  IN  IF Known = {} THEN 0
      ELSE CHOOSE p \in Known : \A q \in Known :
             \/ EdgeAt(tour, q) < EdgeAt(tour, p)
             \/ EdgeAt(tour, q) = EdgeAt(tour, p) /\ p <= q

\* The files return to b_DirList beginning behind that position.
ListingButLast(tour) ==
  LET start == StartPos(tour)
  IN  [k \in 1 .. NumFiles - 1 |-> tour[(k + start) % NumFiles]]
Listing(tour) ==
  LET start == StartPos(tour)
  IN  [k \in 1 .. NumFiles |-> tour[(k + start) % NumFiles]]

-----------------------------------------------------------------------------
(* The two random numbers of an iteration become a segment.                *)

\* The draws that do not "goto again": two positions that span a segment and
\* leave at least one file outside of it.
ValidDraw(r0, r1) == r0 >= r1 + 2 \/ (r1 > r0 /\ r1 - r0 <= NumFiles - 2)

\* A drawn segment is replaced by the rest of the tour where that is shorter;
\* n is the number of files on the segment, as the code computes it.
Segment(r0, r1) ==
  IF r0 > r1
    THEN IF NumFiles - r0 + r1 + 1 > r0 - r1 - 1
           THEN [i0 |-> r1 + 1, i1 |-> r0 - 1, n |-> r0 - r1 - 1]
           ELSE [i0 |-> r0, i1 |-> r1, n |-> NumFiles - r0 + r1 + 1]
    ELSE IF NumFiles - r1 + r0 - 1 < r1 - r0 + 1
           THEN LET a == Succ(r1)  b == Pred(r0)
                IN  [i0 |-> a, i1 |-> b,
                     n |-> IF a > b THEN NumFiles - a + b + 1 ELSE b - a + 1]
           ELSE [i0 |-> r0, i1 |-> r1, n |-> r1 - r0 + 1]

Segments == {Segment(r[1], r[2]) :
               r \in {d \in Position \X Position : ValidDraw(d[1], d[2])}}

\* The test with the segments that wrap round the end forgotten.
ClearNoWrap(i0, i1, a, b) == i1 < a \/ i0 > b

\* The test a worker makes of its segment i0 .. i1 against a segment a .. b
\* on b_RangeList: TRUE where the loop goes on to the next node.
Clear(i0, i1, a, b) ==
  IF a < b
    THEN IF i0 < i1 THEN i1 < a \/ i0 > b ELSE i1 < a /\ i0 > b
    ELSE i0 < i1 /\ i0 > b /\ i1 > b /\ i1 < a /\ i0 < a
=============================================================================
