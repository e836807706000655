--------------------------- MODULE OptimizeProofs ---------------------------
(***************************************************************************)
(* Inv is an inductive invariant of Optimize, for any number of files,     *)
(* workers and iterations; with it the segments in progress are disjoint   *)
(* and the workers do not race for the cells of order.  And Optimize       *)
(* implements AtomicReversal: with the segments in progress finished in    *)
(* mind, every step of a worker reverses a segment in one step or changes  *)
(* nothing.                                                                *)
(***************************************************************************)
EXTENDS Optimize, WellFoundedInduction, TLAPS

-----------------------------------------------------------------------------
(* Facts about positions and segments of the tour.                         *)

\* The neighbours of a position are positions.
LEMMA NeighbourType ==
  ASSUME NEW p \in Position
  PROVE  Succ(p) \in Position /\ Pred(p) \in Position
BY TourAssumption DEF Position, Succ, Pred

\* An offset is a number of steps of less than one round.
LEMMA OffsetType ==
  ASSUME NEW p \in Position, NEW a \in Position
  PROVE  Offset(p, a) \in 0 .. NumFiles - 1
BY TourAssumption DEF Position, Offset

\* A segment has at most as many positions as there are files.
LEMMA SegmentLengthType ==
  ASSUME NEW a \in Position, NEW b \in Position
  PROVE  SegmentLength(a, b) \in 0 .. NumFiles
BY TourAssumption DEF Position, Offset, SegmentLength

\* A segment a worker draws begins and ends at a position, n is its length,
\* and it is not longer than the rest of the tour (binsort.c:690-718).
LEMMA SegmentsType ==
  ASSUME NEW s \in Segments
  PROVE  /\ s.i0 \in Position /\ s.i1 \in Position
         /\ s.n = SegmentLength(s.i0, s.i1)
         /\ 2 * s.n <= NumFiles
<1>1. PICK d \in Position \X Position : ValidDraw(d[1], d[2]) /\ s = Segment(d[1], d[2])
  BY DEF Segments
<1>2. d[1] \in Position /\ d[2] \in Position
  BY <1>1
<1>3. ASSUME NEW r0 \in Position, NEW r1 \in Position, ValidDraw(r0, r1)
      PROVE  /\ Segment(r0, r1).i0 \in Position /\ Segment(r0, r1).i1 \in Position
             /\ Segment(r0, r1).n = SegmentLength(Segment(r0, r1).i0, Segment(r0, r1).i1)
             /\ 2 * Segment(r0, r1).n <= NumFiles
  <2> USE TourAssumption DEF Position, ValidDraw
  <2>1. CASE r0 > r1 /\ NumFiles - r0 + r1 + 1 > r0 - r1 - 1
    <3>1. Segment(r0, r1) = [i0 |-> r1 + 1, i1 |-> r0 - 1, n |-> r0 - r1 - 1]
      BY <1>3, <2>1 DEF Segment
    <3> QED BY <1>3, <2>1, <3>1 DEF SegmentLength, Offset
  <2>2. CASE r0 > r1 /\ ~(NumFiles - r0 + r1 + 1 > r0 - r1 - 1)
    <3>1. Segment(r0, r1) = [i0 |-> r0, i1 |-> r1, n |-> NumFiles - r0 + r1 + 1]
      BY <1>3, <2>2 DEF Segment
    <3> QED BY <1>3, <2>2, <3>1 DEF SegmentLength, Offset
  <2>3. CASE ~(r0 > r1) /\ NumFiles - r1 + r0 - 1 < r1 - r0 + 1
    <3> DEFINE a == Succ(r1)  b == Pred(r0)
               m == IF a > b THEN NumFiles - a + b + 1 ELSE b - a + 1
    <3>1. Segment(r0, r1) = [i0 |-> a, i1 |-> b, n |-> m]
      BY <1>3, <2>3 DEF Segment
    <3>2. a \in Position /\ b \in Position
      BY <1>3, NeighbourType
    <3>3. m = SegmentLength(a, b) /\ 2 * m <= NumFiles
      BY <1>3, <2>3 DEF SegmentLength, Offset, Succ, Pred
    <3> QED BY <3>1, <3>2, <3>3
  <2>4. CASE ~(r0 > r1) /\ ~(NumFiles - r1 + r0 - 1 < r1 - r0 + 1)
    <3>1. Segment(r0, r1) = [i0 |-> r0, i1 |-> r1, n |-> r1 - r0 + 1]
      BY <1>3, <2>4 DEF Segment
    <3> QED BY <1>3, <2>4, <3>1 DEF SegmentLength, Offset
  <2> QED BY <2>1, <2>2, <2>3, <2>4
<1> QED BY <1>1, <1>2, <1>3

\* The scan of b_RangeList (binsort.c:728-755) is right, wrapped segments
\* included: a segment it finds clear of a linked one shares no position with it.
LEMMA ClearDisjoint ==
  ASSUME NEW x \in Position, NEW y \in Position,
         NEW a \in Position, NEW b \in Position,
         Clear(x, y, a, b), NEW p \in Position
  PROVE  ~(Inside(p, x, y) /\ Inside(p, a, b))
BY TourAssumption DEF Position, Clear, Inside, Offset

\* The inner loop goes on only while two positions are left.
LEMMA MoreThanOne ==
  ASSUME NEW k \in Nat, NEW length \in Nat, k < length \div 2
  PROVE  2 * k + 2 <= length
OBVIOUS

\* Without k + 1 positions at either end there is one step less at either side
\* than without k.
LEMMA OneStepIn ==
  ASSUME NEW a \in Position, NEW b \in Position,
         NEW x \in Position, NEW y \in Position, NEW k \in Nat,
         Offset(x, a) = k, Offset(b, y) = k, 2 * k + 2 <= SegmentLength(a, b)
  PROVE  /\ Offset(Succ(x), a) = k + 1
         /\ Offset(b, Pred(y)) = k + 1
BY TourAssumption DEF Position, Offset, SegmentLength, Succ, Pred

\* One step leads from a position to its successor.
LEMMA NeighbourOffset ==
  ASSUME NEW p \in Position
  PROVE  Offset(Succ(p), p) = 1 /\ Offset(p, Pred(p)) = 1
BY TourAssumption DEF Position, Offset, Succ, Pred

\* What is left between x and y after k swaps is on the segment, without its ends.
LEMMA RestInside ==
  ASSUME NEW a \in Position, NEW b \in Position,
         NEW x \in Position, NEW y \in Position, NEW k \in Nat, k >= 1,
         Offset(x, a) = k, Offset(b, y) = k, 2 * k + 2 <= SegmentLength(a, b),
         NEW p \in Position, Inside(p, x, y)
  PROVE  Inside(p, a, b) /\ p # a /\ p # b
BY TourAssumption DEF Position, Offset, SegmentLength, Inside

\* It is shorter by the 2 k swapped ones, and has two ends.
LEMMA RestLength ==
  ASSUME NEW a \in Position, NEW b \in Position,
         NEW x \in Position, NEW y \in Position, NEW k \in Nat,
         Offset(x, a) = k, Offset(b, y) = k, 2 * k + 2 <= SegmentLength(a, b)
  PROVE  SegmentLength(x, y) = SegmentLength(a, b) - 2 * k /\ x # y
BY TourAssumption DEF Position, Offset, SegmentLength

\* A neighbour of a segment that lies on another, disjoint segment is an end of it.
LEMMA NeighbourIsEnd ==
  ASSUME NEW x \in Position, NEW y \in Position,
         NEW a \in Position, NEW b \in Position,
         \A p \in Position : ~(Inside(p, x, y) /\ Inside(p, a, b))
  PROVE  /\ Inside(Pred(x), a, b) => Pred(x) = b
         /\ Inside(Succ(y), a, b) => Succ(y) = a
<1>1. ~Inside(x, a, b) /\ ~Inside(y, a, b)
  BY TourAssumption DEF Position, Offset, Inside
<1>2. Inside(Pred(x), a, b) => Pred(x) = b
  BY <1>1, TourAssumption DEF Position, Offset, Inside, Pred
<1>3. Inside(Succ(y), a, b) => Succ(y) = a
  BY <1>1, TourAssumption DEF Position, Offset, Inside, Succ
<1> QED BY <1>2, <1>3

-----------------------------------------------------------------------------
(* Reversals.                                                              *)

\* The mirror image of a position on a segment is as far from the one end as
\* the position from the other.
LEMMA MirrorInside ==
  ASSUME NEW a \in Position, NEW b \in Position, NEW p \in Position, Inside(p, a, b)
  PROVE  /\ Mirror(p, a, b) \in Position
         /\ Inside(Mirror(p, a, b), a, b)
         /\ Mirror(Mirror(p, a, b), a, b) = p
         /\ Offset(Mirror(p, a, b), a) = Offset(b, a) - Offset(p, a)
BY TourAssumption DEF Position, Inside, Offset, Mirror

\* The ends are mirror images of each other.
LEMMA MirrorEnds ==
  ASSUME NEW a \in Position, NEW b \in Position
  PROVE  /\ Inside(a, a, b) /\ Inside(b, a, b)
         /\ Mirror(a, a, b) = b /\ Mirror(b, a, b) = a
BY TourAssumption DEF Position, Inside, Offset, Mirror

\* When the ends of a segment have been swapped, the rest of its reversal is the
\* reversal of the rest.
LEMMA InnerSegment ==
  ASSUME NEW a \in Position, NEW b \in Position, NEW p \in Position,
         SegmentLength(a, b) >= 3
  PROVE  /\ Inside(p, Succ(a), Pred(b)) <=> Inside(p, a, b) /\ p # a /\ p # b
         /\ Inside(p, Succ(a), Pred(b)) => Mirror(p, Succ(a), Pred(b)) = Mirror(p, a, b)
BY TourAssumption DEF Position, SegmentLength, Inside, Offset, Mirror, Succ, Pred

\* A segment of two or three has nothing to swap but its ends.
LEMMA ShortSegment ==
  ASSUME NEW a \in Position, NEW b \in Position, NEW p \in Position,
         SegmentLength(a, b) <= 3, Inside(p, a, b), p # a, p # b
  PROVE  Mirror(p, a, b) = p
BY TourAssumption DEF Position, SegmentLength, Inside, Offset, Mirror

\* Every file is in the tour, once.
Permutation(tour) ==
  /\ tour \in [Position -> File]
  /\ \A p, q \in Position : tour[p] = tour[q] => p = q
  /\ \A f \in File : \E p \in Position : tour[p] = f

\* A reversal loses no file.
LEMMA ReversedPermutation ==
  ASSUME NEW tour, Permutation(tour), NEW a \in Position, NEW b \in Position
  PROVE  Permutation(Reversed(tour, a, b))
<1> DEFINE new == Reversed(tour, a, b)
           to(p) == IF Inside(p, a, b) THEN Mirror(p, a, b) ELSE p
<1>1. \A p \in Position : to(p) \in Position /\ to(to(p)) = p /\ new[p] = tour[to(p)]
  BY MirrorInside DEF Reversed
<1>2. new \in [Position -> File]
  BY <1>1 DEF Permutation, Reversed
<1> HIDE DEF new, to
<1>3. \A p, q \in Position : new[p] = new[q] => p = q
  BY <1>1 DEF Permutation
<1>4. ASSUME NEW f \in File PROVE \E p \in Position : new[p] = f
  <2>1. PICK p \in Position : tour[p] = f
    BY DEF Permutation
  <2>2. new[to(p)] = f
    BY <1>1, <2>1
  <2> QED BY <1>1, <2>2
<1> QED BY <1>2, <1>3, <1>4 DEF Permutation, new

-----------------------------------------------------------------------------
(* Sums.                                                                   *)

\* Every non-empty set of natural numbers has a least element.
LEMMA LeastNatural ==
  ASSUME NEW T, T \subseteq Nat, T # {}
  PROVE  \E m \in T : \A k \in T : m <= k
<1>1. PICK m \in T : \A k \in T : <<k, m>> \notin OpToRel(<, Nat)
  BY NatLessThanWellFounded, WFMin
<1>2. \A k \in T : ~ (k < m)
  BY <1>1 DEF OpToRel
<1> QED BY <1>2

\* d[k] is the sum of the first k values of e.
SumsOf(d, e, m) ==
  /\ d \in [0 .. m -> Int] /\ d[0] = 0
  /\ \A k \in 0 .. m - 1 : d[k + 1] = d[k] + e[k]

LEMMA SumsExist ==
  ASSUME NEW m \in Nat, NEW e \in [0 .. m - 1 -> Int]
  PROVE  \E d : SumsOf(d, e, m)
<1> DEFINE T == {k \in 0 .. m : ~ \E d : SumsOf(d, e, k)}
<1> SUFFICES ASSUME T # {} PROVE FALSE
  <2> m \in 0 .. m
    OBVIOUS
  <2> QED OBVIOUS
<1>0. T \subseteq Nat
  OBVIOUS
<1> HIDE DEF T
<1>1. PICK k \in T : \A l \in T : k <= l
  BY <1>0, LeastNatural
<1>2. k \in 0 .. m /\ ~ \E d : SumsOf(d, e, k)
  BY <1>1 DEF T
<1>3. k # 0
  <2>1. SumsOf([l \in 0 .. 0 |-> 0], e, 0)
    BY DEF SumsOf
  <2> QED BY <1>2, <2>1
<1>4. PICK d : SumsOf(d, e, k - 1)
  BY <1>1, <1>2, <1>3 DEF T
<1>5. SumsOf([l \in 0 .. k |-> IF l = k THEN d[k - 1] + e[k - 1] ELSE d[l]], e, k)
  BY <1>2, <1>3, <1>4 DEF SumsOf
<1> QED BY <1>2, <1>5

\* Who adds up the same gets the same.
LEMMA SumsUnique ==
  ASSUME NEW m \in Nat, NEW e, NEW d, NEW c, d[0] = c[0],
         \A k \in 0 .. m - 1 : d[k + 1] = d[k] + e[k] /\ c[k + 1] = c[k] + e[k]
  PROVE  d[m] = c[m]
<1> DEFINE T == {k \in 0 .. m : d[k] # c[k]}
<1> SUFFICES ASSUME T # {} PROVE FALSE
  <2> m \in 0 .. m
    OBVIOUS
  <2> QED OBVIOUS
<1>0. T \subseteq Nat
  OBVIOUS
<1> HIDE DEF T
<1>1. PICK k \in T : \A l \in T : k <= l
  BY <1>0, LeastNatural
<1>2. k \in 0 .. m /\ d[k] # c[k] /\ k # 0
  BY <1>1 DEF T
<1>3. k - 1 \in 0 .. m - 1 /\ d[k - 1] = c[k - 1]
  BY <1>1, <1>2 DEF T
<1>4. d[(k - 1) + 1] = c[(k - 1) + 1]
  BY <1>3
<1> QED BY <1>2, <1>4

-----------------------------------------------------------------------------
(* The length of a tour, and what a reversal changes in it.                *)

\* Distances are symmetric.
LEMMA EdgeType ==
  ASSUME NEW x \in File, NEW y \in File, x # y
  PROVE  Edge(x, y) \in 0 .. 255 /\ Edge(x, y) = Edge(y, x)
<1>1. CASE x \in Hashed /\ y \in Hashed
  <2>1. <<x, y>> \in HashedPair /\ <<y, x>> \in HashedPair
    BY <1>1 DEF HashedPair
  <2> QED BY <1>1, <2>1, TourAssumption DEF Edge
<1>2. CASE ~(x \in Hashed /\ y \in Hashed)
  BY <1>2 DEF Edge
<1> QED BY <1>1, <1>2

Edges(tour) == [p \in Position |-> EdgeAt(tour, p)]

LEMMA EdgesType ==
  ASSUME NEW tour, Permutation(tour)
  PROVE  Edges(tour) \in [Position -> 0 .. 255]
<1> SUFFICES ASSUME NEW p \in Position PROVE EdgeAt(tour, p) \in 0 .. 255
  BY DEF Edges
<1>1. Succ(p) \in Position /\ Succ(p) # p
  BY TourAssumption DEF Position, Succ
<1> QED BY <1>1, EdgeType DEF Permutation, EdgeAt

\* TourLength adds them up.
LEMMA TourLengthSum ==
  ASSUME NEW tour, Permutation(tour)
  PROVE  \E d : SumsOf(d, Edges(tour), NumFiles) /\ TourLength(tour) = d[NumFiles]
<1> DEFINE Sums(f) == [k \in 0 .. NumFiles |->
                         IF k = 0 THEN 0 ELSE f[k - 1] + EdgeAt(tour, k - 1)]
           d == CHOOSE f : f = Sums(f)
<1>1. TourLength(tour) = d[NumFiles]
  BY DEF TourLength
<1>2. PICK c : SumsOf(c, Edges(tour), NumFiles)
  <2>1. NumFiles \in Nat /\ Edges(tour) \in [Position -> Int]
    BY EdgesType, TourAssumption
  <2>2. Position = 0 .. NumFiles - 1
    BY DEF Position
  <2> QED BY <2>1, <2>2, SumsExist
<1>3. c = Sums(c)
  <2> SUFFICES ASSUME NEW k \in 0 .. NumFiles
               PROVE  c[k] = IF k = 0 THEN 0 ELSE c[k - 1] + EdgeAt(tour, k - 1)
    BY <1>2 DEF SumsOf
  <2>1. CASE k = 0
    BY <1>2, <2>1 DEF SumsOf
  <2>2. CASE k # 0
    <3>1. k - 1 \in Position /\ (k - 1) + 1 = k
      BY <2>2, TourAssumption DEF Position
    <3>2. c[(k - 1) + 1] = c[k - 1] + Edges(tour)[k - 1]
      BY <1>2, <3>1 DEF SumsOf, Position
    <3> QED BY <2>2, <3>1, <3>2 DEF Edges
  <2> QED BY <2>1, <2>2
<1>4. d = Sums(d)
  BY <1>3
<1> HIDE DEF d
<1>5. \A k \in 0 .. NumFiles : d[k] = IF k = 0 THEN 0 ELSE d[k - 1] + EdgeAt(tour, k - 1)
  BY <1>4
<1>6. \A k \in 0 .. NumFiles - 1 : d[k + 1] = d[k] + Edges(tour)[k]
  <2> SUFFICES ASSUME NEW k \in 0 .. NumFiles - 1 PROVE d[k + 1] = d[k] + Edges(tour)[k]
    OBVIOUS
  <2>1. k + 1 \in 0 .. NumFiles /\ k + 1 # 0 /\ (k + 1) - 1 = k
    BY TourAssumption
  <2>2. d[k + 1] = d[(k + 1) - 1] + EdgeAt(tour, (k + 1) - 1)
    BY <1>5, <2>1
  <2> QED BY <2>1, <2>2 DEF Edges, Position
<1>7. d[0] = 0
  BY <1>5, TourAssumption
<1>8. d[NumFiles] = c[NumFiles]
  <2>1. c[0] = 0 /\ \A k \in 0 .. NumFiles - 1 : c[k + 1] = c[k] + Edges(tour)[k]
    BY <1>2 DEF SumsOf
  <2> QED BY <1>6, <1>7, <2>1, SumsUnique, TourAssumption
<1> QED BY <1>1, <1>2, <1>8

\* The position after k steps from a, and the distances met on a walk from a.
At(a, k) == IF a + k >= NumFiles THEN a + k - NumFiles ELSE a + k
EdgesFrom(tour, a) == [k \in Position |-> EdgeAt(tour, At(a, k))]

LEMMA AtType ==
  ASSUME NEW a \in Position, NEW k \in 0 .. NumFiles
  PROVE  /\ At(a, k) \in Position
         /\ k # NumFiles => Succ(At(a, k)) = At(a, k + 1)
         /\ k # NumFiles => Offset(At(a, k), a) = k
BY TourAssumption DEF Position, At, Succ, Offset

\* A walk round the tour is as long wherever it begins.
LEMMA Rotation ==
  ASSUME NEW tour, Permutation(tour), NEW a \in Position,
         NEW c, SumsOf(c, EdgesFrom(tour, a), NumFiles)
  PROVE  TourLength(tour) = c[NumFiles]
<1>1. PICK d : SumsOf(d, Edges(tour), NumFiles) /\ TourLength(tour) = d[NumFiles]
  BY TourLengthSum
<1>2. /\ NumFiles \in Nat /\ a \in 0 .. NumFiles - 1 /\ Position = 0 .. NumFiles - 1
      /\ NumFiles > 2
  BY TourAssumption DEF Position
<1>3. /\ d \in [0 .. NumFiles -> Int] /\ d[0] = 0
      /\ Edges(tour) \in [0 .. NumFiles - 1 -> Int]
      /\ \A k \in 0 .. NumFiles - 1 : d[k + 1] = d[k] + Edges(tour)[k]
  <2>1. Edges(tour) \in [Position -> Int]
    BY EdgesType
  <2> QED BY <1>1, <1>2, <2>1 DEF SumsOf
<1> DEFINE r == [k \in 0 .. NumFiles |->
                   IF k <= NumFiles - a THEN d[a + k] - d[a]
                   ELSE d[NumFiles] - d[a] + d[a + k - NumFiles]]
<1>4. ASSUME NEW k \in 0 .. NumFiles - 1
      PROVE  r[k + 1] = r[k] + EdgesFrom(tour, a)[k]
  <2>1. EdgesFrom(tour, a)[k] = Edges(tour)[At(a, k)]
    BY <1>2, AtType DEF EdgesFrom, Edges
  <2>2. k \in 0 .. NumFiles /\ k + 1 \in 0 .. NumFiles
    BY <1>2
  <2>3. CASE k + 1 <= NumFiles - a
    <3>1. At(a, k) = a + k /\ a + k \in 0 .. NumFiles - 1 /\ a + (k + 1) = (a + k) + 1
      BY <1>2, <2>3 DEF At
    <3>2. r[k] = d[a + k] - d[a] /\ r[k + 1] = d[(a + k) + 1] - d[a]
      BY <1>2, <2>2, <2>3, <3>1
    <3>3. d[(a + k) + 1] = d[a + k] + Edges(tour)[a + k]
      BY <1>3, <3>1
    <3>4. d[a] \in Int /\ d[a + k] \in Int /\ Edges(tour)[a + k] \in Int
      BY <1>2, <1>3, <3>1
    <3> HIDE DEF r
    <3> QED BY <2>1, <3>1, <3>2, <3>3, <3>4
  <2>4. CASE ~(k + 1 <= NumFiles - a)
    <3> DEFINE q == a + k - NumFiles
    <3>1. /\ At(a, k) = q /\ q \in 0 .. NumFiles - 1
          /\ a + (k + 1) - NumFiles = q + 1
      BY <1>2, <2>4 DEF At
    <3>2. r[k + 1] = d[NumFiles] - d[a] + d[q + 1]
      BY <2>2, <2>4, <3>1
    <3>3. r[k] = d[NumFiles] - d[a] + d[q]
      <4>1. CASE k <= NumFiles - a
        <5>1. k = NumFiles - a
          BY <1>2, <2>4, <4>1
        <5>2. q = 0 /\ a + k = NumFiles /\ d[NumFiles] \in Int /\ d[a] \in Int
          BY <1>2, <1>3, <5>1
        <5>3. r[k] = d[NumFiles] - d[a]
          BY <2>2, <4>1, <5>2
        <5> HIDE DEF r, q
        <5> QED BY <1>3, <5>2, <5>3
      <4>2. CASE ~(k <= NumFiles - a)
        BY <2>2, <4>2
      <4> QED BY <4>1, <4>2
    <3>4. d[q + 1] = d[q] + Edges(tour)[q]
      BY <1>3, <3>1
    <3>5. d[a] \in Int /\ d[q] \in Int /\ Edges(tour)[q] \in Int /\ d[NumFiles] \in Int
      BY <1>2, <1>3, <3>1
    <3> HIDE DEF r, q
    <3> QED BY <2>1, <3>1, <3>2, <3>3, <3>4, <3>5
  <2> QED BY <2>3, <2>4
<1>5. r[0] = 0
  BY <1>2, <1>3
<1>6. r[NumFiles] = d[NumFiles]
  <2>1. d[a] \in Int /\ d[NumFiles] \in Int
    BY <1>2, <1>3
  <2>2. CASE a = 0
    BY <1>2, <1>3, <2>1, <2>2
  <2>3. CASE a # 0
    <3>1. r[NumFiles] = d[NumFiles] - d[a] + d[a + NumFiles - NumFiles]
      BY <1>2, <2>3
    <3>2. a + NumFiles - NumFiles = a
      BY <1>2
    <3> HIDE DEF r
    <3> QED BY <2>1, <3>1, <3>2
  <2> QED BY <2>2, <2>3
<1>7. c[NumFiles] = r[NumFiles]
  <2>1. c[0] = 0 /\ \A k \in 0 .. NumFiles - 1 : c[k + 1] = c[k] + EdgesFrom(tour, a)[k]
    BY DEF SumsOf
  <2> HIDE DEF r
  <2> QED BY <1>2, <1>4, <1>5, <2>1, SumsUnique
<1> QED BY <1>1, <1>6, <1>7

\* getdelta (binsort.c:631-656) is right: what it computes from the ends of a
\* segment and their neighbours is the difference of the two tours' lengths.
LEMMA ReversalDelta ==
  ASSUME NEW tour, Permutation(tour), NEW a \in Position, NEW b \in Position,
         2 * SegmentLength(a, b) <= NumFiles
  PROVE  TourLength(Reversed(tour, a, b)) = TourLength(tour) + Delta(tour, a, b)
<1> DEFINE new == Reversed(tour, a, b)
           m == SegmentLength(a, b)
           f == EdgesFrom(tour, a)
           g == EdgesFrom(new, a)
<1>1. /\ NumFiles \in Nat /\ NumFiles > 2 /\ Position = 0 .. NumFiles - 1
      /\ m \in Nat /\ m >= 1 /\ m <= NumFiles - 2
  BY TourAssumption DEF Position, SegmentLength, Offset
<1>2. Permutation(new)
  BY ReversedPermutation
<1>3. /\ f \in [0 .. NumFiles - 1 -> Int]
      /\ \A k \in Position : f[k] = Edge(tour[At(a, k)], tour[At(a, k + 1)])
      /\ \A k \in Position : g[k] = Edge(new[At(a, k)], new[At(a, k + 1)])
  <2>1. \A k \in Position : EdgeAt(tour, At(a, k)) \in Int
    <3> SUFFICES ASSUME NEW k \in Position PROVE EdgeAt(tour, At(a, k)) \in Int
      OBVIOUS
    <3>1. At(a, k) \in Position
      <4>1. k \in 0 .. NumFiles
        BY <1>1
      <4> QED BY <4>1, AtType
    <3>2. Edges(tour)[At(a, k)] \in 0 .. 255
      BY <3>1, EdgesType
    <3> QED BY <3>1, <3>2 DEF Edges
  <2>2. \A k \in Position : Succ(At(a, k)) = At(a, k + 1)
    BY <1>1, AtType
  <2> QED BY <1>1, <2>1, <2>2 DEF EdgesFrom, EdgeAt
\* The tour walked from a, before and after.
<1>4. /\ \A k \in 0 .. m - 1 : new[At(a, k)] = tour[At(a, m - 1 - k)]
      /\ \A k \in m .. NumFiles - 1 : new[At(a, k)] = tour[At(a, k)]
  <2>1. ASSUME NEW k \in 0 .. m - 1
        PROVE  new[At(a, k)] = tour[At(a, m - 1 - k)]
    <3>1. Mirror(At(a, k), a, b) = At(a, m - 1 - k) /\ Inside(At(a, k), a, b)
      BY TourAssumption DEF Position, At, Mirror, SegmentLength, Offset, Inside
    <3>2. At(a, k) \in Position
      <4>1. k \in 0 .. NumFiles
        BY <1>1
      <4> QED BY <4>1, AtType
    <3> QED BY <3>1, <3>2 DEF Reversed
  <2>2. ASSUME NEW k \in m .. NumFiles - 1
        PROVE  new[At(a, k)] = tour[At(a, k)]
    <3>1. ~Inside(At(a, k), a, b)
      BY TourAssumption DEF Position, At, SegmentLength, Offset, Inside
    <3>2. At(a, k) \in Position
      BY <1>1, AtType
    <3> QED BY <3>1, <3>2 DEF Reversed
  <2> QED BY <2>1, <2>2
<1>5. /\ At(a, 0) = a /\ At(a, NumFiles) = a /\ At(a, m - 1) = b
      /\ At(a, m) = Succ(b) /\ At(a, NumFiles - 1) = Pred(a)
  BY TourAssumption DEF Position, At, SegmentLength, Offset, Succ, Pred
<1> DEFINE x == tour[a]  y == tour[b]  u == tour[Pred(a)]  v == tour[Succ(b)]
<1>6. /\ f[m - 1] = Edge(y, v) /\ g[m - 1] = Edge(x, v)
      /\ f[NumFiles - 1] = Edge(u, x) /\ g[NumFiles - 1] = Edge(u, y)
  <2>1. /\ m - 1 \in Position /\ NumFiles - 1 \in Position /\ (m - 1) + 1 = m
        /\ (NumFiles - 1) + 1 = NumFiles
    BY <1>1
  <2>2. new[At(a, 0)] = y /\ new[At(a, m - 1)] = x
    <3>1. 0 \in 0 .. m - 1 /\ m - 1 \in 0 .. m - 1 /\ m - 1 - 0 = m - 1 /\ m - 1 - (m - 1) = 0
      BY <1>1
    <3> QED BY <1>4, <1>5, <3>1
  <2>3. new[At(a, m)] = v /\ new[At(a, NumFiles - 1)] = u
    BY <1>1, <1>4, <1>5
  <2> HIDE DEF new, m, f, g
  <2> QED BY <1>3, <1>5, <2>1, <2>2, <2>3
<1>7. \A k \in 0 .. m - 2 : g[k] = f[m - 2 - k]
  <2> SUFFICES ASSUME NEW k \in 0 .. m - 2 PROVE g[k] = f[m - 2 - k]
    OBVIOUS
  <2>1. /\ k \in Position /\ m - 2 - k \in Position /\ (m - 2 - k) + 1 = m - 1 - k
        /\ k \in 0 .. m - 1 /\ k + 1 \in 0 .. m - 1 /\ m - 1 - (k + 1) = m - 2 - k
    BY <1>1
  <2>2. g[k] = Edge(tour[At(a, m - 1 - k)], tour[At(a, m - 2 - k)])
    <3> HIDE DEF new, m, f, g
    <3> QED BY <1>3, <1>4, <2>1
  <2>3. f[m - 2 - k] = Edge(tour[At(a, m - 2 - k)], tour[At(a, m - 1 - k)])
    <3> HIDE DEF new, m, f, g
    <3> QED BY <1>3, <2>1
  <2>4. At(a, m - 1 - k) \in Position /\ At(a, m - 2 - k) \in Position
    <3>1. m - 1 - k \in 0 .. NumFiles /\ m - 2 - k \in 0 .. NumFiles
      BY <1>1
    <3> HIDE DEF m
    <3> QED BY <3>1, AtType
  <2>5. At(a, m - 1 - k) # At(a, m - 2 - k)
    <3>1. /\ m - 1 - k \in 0 .. NumFiles /\ m - 1 - k # NumFiles
          /\ m - 2 - k \in 0 .. NumFiles /\ m - 2 - k # NumFiles
          /\ m - 1 - k # m - 2 - k
      BY <1>1
    <3> HIDE DEF m
    <3>2. Offset(At(a, m - 1 - k), a) = m - 1 - k /\ Offset(At(a, m - 2 - k), a) = m - 2 - k
      BY <3>1, AtType
    <3> QED BY <3>1, <3>2
  <2>6. /\ tour[At(a, m - 1 - k)] \in File /\ tour[At(a, m - 2 - k)] \in File
        /\ tour[At(a, m - 1 - k)] # tour[At(a, m - 2 - k)]
    BY <2>4, <2>5 DEF Permutation
  <2> QED BY <2>2, <2>3, <2>6, EdgeType
<1>8. \A k \in m .. NumFiles - 2 : g[k] = f[k]
  <2> SUFFICES ASSUME NEW k \in m .. NumFiles - 2 PROVE g[k] = f[k]
    OBVIOUS
  <2>1. k \in Position /\ k \in m .. NumFiles - 1 /\ k + 1 \in m .. NumFiles - 1
    BY <1>1
  <2> HIDE DEF new, m, f, g
  <2> QED BY <1>3, <1>4, <2>1
\* The sums of the distances met on either walk.
<1>9. PICK d : SumsOf(d, f, NumFiles)
  BY <1>1, <1>3, SumsExist
<1>10. /\ d \in [0 .. NumFiles -> Int] /\ d[0] = 0
       /\ \A k \in 0 .. NumFiles - 1 : d[k + 1] = d[k] + f[k]
  BY <1>9 DEF SumsOf
<1> DEFINE r == [k \in 0 .. NumFiles |->
                   IF k < m THEN d[m - 1] - d[m - 1 - k]
                   ELSE IF k < NumFiles THEN d[m - 1] + g[m - 1] + (d[k] - d[m])
                   ELSE d[m - 1] + g[m - 1] + (d[NumFiles - 1] - d[m]) + g[NumFiles - 1]]
<1>11. g[m - 1] \in Int /\ g[NumFiles - 1] \in Int
  <2>1. m - 1 \in Position /\ NumFiles - 1 \in Position
    BY <1>1
  <2>2. At(a, m - 1) \in Position /\ At(a, NumFiles - 1) \in Position
    <3>1. m - 1 \in 0 .. NumFiles /\ NumFiles - 1 \in 0 .. NumFiles
      BY <1>1
    <3> HIDE DEF m
    <3> QED BY <3>1, AtType
  <2>3. Edges(new)[At(a, m - 1)] \in 0 .. 255 /\ Edges(new)[At(a, NumFiles - 1)] \in 0 .. 255
    BY <1>2, <2>2, EdgesType
  <2> QED BY <2>1, <2>2, <2>3 DEF Edges, EdgesFrom
<1> HIDE DEF f, g, new, m
<1>12. SumsOf(r, g, NumFiles)
  <2>1. r \in [0 .. NumFiles -> Int]
    <3> SUFFICES ASSUME NEW k \in 0 .. NumFiles PROVE r[k] \in Int
      OBVIOUS
    <3>1. m - 1 \in 0 .. NumFiles /\ m \in 0 .. NumFiles /\ NumFiles - 1 \in 0 .. NumFiles
      BY <1>1
    <3>2. d[m - 1] \in Int /\ d[m] \in Int /\ d[k] \in Int /\ d[NumFiles - 1] \in Int
      BY <1>10, <3>1
    <3>3. k < m => d[m - 1 - k] \in Int
      <4>1. k < m => m - 1 - k \in 0 .. NumFiles
        BY <1>1
      <4> QED BY <1>10, <4>1
    <3> QED BY <1>11, <3>2, <3>3
  <2>2. r[0] = 0
    <3>1. m - 1 \in 0 .. NumFiles /\ 0 \in 0 .. NumFiles /\ 0 < m /\ m - 1 - 0 = m - 1
      BY <1>1
    <3>2. r[0] = d[m - 1] - d[m - 1]
      BY <3>1
    <3>3. d[m - 1] \in Int
      BY <1>10, <3>1
    <3> HIDE DEF r
    <3> QED BY <3>2, <3>3
  <2>3. ASSUME NEW k \in 0 .. NumFiles - 1 PROVE r[k + 1] = r[k] + g[k]
    <3>1. CASE k <= m - 2
      <4>1. r[k] = d[m - 1] - d[m - 1 - k] /\ r[k + 1] = d[m - 1] - d[m - 1 - (k + 1)]
        BY <1>1, <3>1
      <4>2. d[(m - 2 - k) + 1] = d[m - 2 - k] + f[m - 2 - k]
        BY <1>1, <1>10, <3>1
      <4>3. (m - 2 - k) + 1 = m - 1 - k /\ m - 1 - (k + 1) = m - 2 - k
        BY <1>1
      <4>4. g[k] = f[m - 2 - k]
        BY <1>1, <1>7, <3>1
      <4>5. d[m - 1] \in Int /\ d[m - 2 - k] \in Int /\ f[m - 2 - k] \in Int
        <5>1. /\ m - 1 \in 0 .. NumFiles /\ m - 2 - k \in 0 .. NumFiles
              /\ m - 2 - k \in 0 .. NumFiles - 1
          BY <1>1, <3>1
        <5> QED BY <1>3, <1>10, <5>1
      <4> HIDE DEF r
      <4> QED BY <4>1, <4>2, <4>3, <4>4, <4>5
    <3>2. CASE k = m - 1
      <4>1. r[k] = d[m - 1] - d[m - 1 - k] /\ m - 1 - k = 0
        BY <1>1, <3>2
      <4>2. r[k + 1] = d[m - 1] + g[m - 1] + (d[m] - d[m])
        BY <1>1, <3>2
      <4>3. d[m - 1] \in Int /\ d[m] \in Int
        <5>1. m - 1 \in 0 .. NumFiles /\ m \in 0 .. NumFiles
          BY <1>1
        <5> QED BY <1>10, <5>1
      <4>4. r[k] = d[m - 1]
        <5> HIDE DEF r
        <5> QED BY <1>10, <4>1, <4>3
      <4> HIDE DEF r
      <4> QED BY <1>11, <3>2, <4>2, <4>3, <4>4
    <3>3. CASE k >= m /\ k <= NumFiles - 2
      <4>1. /\ r[k] = d[m - 1] + g[m - 1] + (d[k] - d[m])
            /\ r[k + 1] = d[m - 1] + g[m - 1] + (d[k + 1] - d[m])
        BY <1>1, <3>3
      <4>2. d[k + 1] = d[k] + f[k] /\ g[k] = f[k]
        <5>1. k \in 0 .. NumFiles - 1 /\ k \in m .. NumFiles - 2
          BY <1>1, <3>3
        <5> QED BY <1>8, <1>10, <5>1
      <4>3. d[m - 1] \in Int /\ d[m] \in Int /\ d[k] \in Int /\ f[k] \in Int
        <5>1. m - 1 \in 0 .. NumFiles /\ m \in 0 .. NumFiles /\ k \in 0 .. NumFiles
          BY <1>1
        <5> QED BY <1>3, <1>10, <5>1
      <4> HIDE DEF r
      <4> QED BY <1>11, <4>1, <4>2, <4>3
    <3>4. CASE k = NumFiles - 1
      BY <1>1, <1>10, <1>11, <3>4
    <3> QED BY <1>1, <3>1, <3>2, <3>3, <3>4
  <2> HIDE DEF r
  <2> QED BY <2>1, <2>2, <2>3 DEF SumsOf
<1>13. TourLength(tour) = d[NumFiles] /\ TourLength(new) = r[NumFiles]
  <2> HIDE DEF r
  <2> QED BY <1>2, <1>9, <1>12, Rotation DEF f, g
<1>14. r[NumFiles] = d[m - 1] + g[m - 1] + (d[NumFiles - 1] - d[m]) + g[NumFiles - 1]
  BY <1>1
<1>15. d[m] = d[m - 1] + f[m - 1] /\ d[NumFiles] = d[NumFiles - 1] + f[NumFiles - 1]
  <2>1. (m - 1) + 1 = m /\ (NumFiles - 1) + 1 = NumFiles /\ m - 1 \in 0 .. NumFiles - 1
        /\ NumFiles - 1 \in 0 .. NumFiles - 1
    BY <1>1
  <2> QED BY <1>10, <2>1
<1>16. /\ d[m - 1] \in Int /\ d[NumFiles - 1] \in Int /\ d[m] \in Int
       /\ f[m - 1] \in Int /\ f[NumFiles - 1] \in Int
  <2>1. /\ m - 1 \in 0 .. NumFiles /\ NumFiles - 1 \in 0 .. NumFiles /\ m \in 0 .. NumFiles
        /\ m - 1 \in 0 .. NumFiles - 1 /\ NumFiles - 1 \in 0 .. NumFiles - 1
    BY <1>1
  <2> QED BY <1>3, <1>10, <2>1
<1> HIDE DEF r
<1>17. TourLength(new) = TourLength(tour) + (g[m - 1] - f[NumFiles - 1])
                         + g[NumFiles - 1] - f[m - 1]
  BY <1>11, <1>13, <1>14, <1>15, <1>16
\* Distances are symmetric, also where the segment is a single file.
<1>18. Edge(u, x) = Edge(x, u) /\ Edge(u, y) = Edge(y, u)
  <2>1. Pred(a) \in Position /\ Pred(a) # a /\ Pred(a) # b
    BY <1>1, TourAssumption DEF Position, Pred, m, SegmentLength, Offset
  <2>2. u \in File /\ x \in File /\ y \in File /\ u # x /\ u # y
    BY <2>1 DEF Permutation
  <2> QED BY <2>2, EdgeType
<1>19. Delta(tour, a, b) = Edge(x, v) - Edge(x, u) + Edge(y, u) - Edge(y, v)
  BY DEF Delta
<1>20. /\ Edge(x, v) \in Int /\ Edge(x, u) \in Int /\ Edge(y, u) \in Int /\ Edge(y, v) \in Int
  BY <1>6, <1>11, <1>16, <1>18
<1> HIDE DEF x, y, u, v
<1>21. TourLength(new) = TourLength(tour) + Delta(tour, a, b)
  <2>1. TourLength(tour) \in Int
    BY <1>13, <1>15, <1>16
  <2> QED BY <1>6, <1>17, <1>18, <1>19, <1>20, <2>1
<1> QED BY <1>21 DEF new

\* The length of a tour is an integer.
LEMMA TourLengthType ==
  ASSUME NEW tour, Permutation(tour)
  PROVE  TourLength(tour) \in Int
<1>1. PICK d : SumsOf(d, Edges(tour), NumFiles) /\ TourLength(tour) = d[NumFiles]
  BY TourLengthSum
<1> QED BY <1>1, TourAssumption DEF SumsOf

-----------------------------------------------------------------------------
\* Where the files are listed from (binsort.c:472-498, 619-621): getdist finds a
\* position, and no edge of the tour is longer than the one it cuts, also when
\* too few files have a hash to measure one.
LEMMA StartsBehindLongest ==
  ASSUME NEW tour, Permutation(tour)
  PROVE  /\ StartPos(tour) \in Position
         /\ \A p \in Position : EdgeAt(tour, p) <= EdgeAt(tour, StartPos(tour))
<1> DEFINE known == {p \in Position : tour[p] \in Hashed /\ tour[Succ(p)] \in Hashed}
           best(p) == \A q \in known :
             \/ EdgeAt(tour, q) < EdgeAt(tour, p)
             \/ EdgeAt(tour, q) = EdgeAt(tour, p) /\ p <= q
<1>1. StartPos(tour) = IF known = {} THEN 0 ELSE CHOOSE p \in known : best(p)
  BY DEF StartPos
<1>2. \A p \in Position : EdgeAt(tour, p) \in 0 .. 255
  BY EdgesType DEF Edges
<1>3. \A p \in Position : p \notin known => EdgeAt(tour, p) = 0
  BY DEF EdgeAt, Edge
<1>4. known \subseteq Position /\ \A p \in known : EdgeAt(tour, p) \in 0 .. 255
  BY <1>2
<1> HIDE DEF known
<1>5. CASE known = {}
  <2>1. 0 \in Position
    BY TourAssumption DEF Position
  <2> HIDE DEF best
  <2> QED BY <1>1, <1>3, <1>5, <2>1
<1>6. CASE known # {}
  <2> DEFINE gaps == {255 - EdgeAt(tour, p) : p \in known}
  <2>1. gaps \subseteq Nat /\ gaps # {}
    BY <1>2, <1>4, <1>6
  <2>2. PICK g \in gaps : \A h \in gaps : g <= h
    <3> HIDE DEF gaps
    <3> QED BY <2>1, LeastNatural
  <2>3. PICK r \in known : g = 255 - EdgeAt(tour, r)
    BY <2>2
  <2>4. \A q \in known : EdgeAt(tour, q) <= EdgeAt(tour, r)
    <3> SUFFICES ASSUME NEW q \in known PROVE EdgeAt(tour, q) <= EdgeAt(tour, r)
      OBVIOUS
    <3>1. g <= 255 - EdgeAt(tour, q)
      BY <2>2
    <3>2. EdgeAt(tour, q) \in Int /\ EdgeAt(tour, r) \in Int
      BY <1>4
    <3> QED BY <2>3, <3>1, <3>2
  <2> DEFINE longest == {q \in known : EdgeAt(tour, q) = EdgeAt(tour, r)}
  <2>5. longest \subseteq Nat /\ longest # {}
    <3>1. Position \subseteq Nat
      BY TourAssumption DEF Position
    <3>2. r \in longest
      BY <2>3
    <3> QED BY <1>4, <3>1, <3>2
  <2>6. PICK p \in longest : \A q \in longest : p <= q
    <3> HIDE DEF longest
    <3> QED BY <2>5, LeastNatural
  <2>7. p \in known /\ best(p)
    <3>1. p \in known /\ EdgeAt(tour, p) = EdgeAt(tour, r)
      OBVIOUS
    <3> SUFFICES ASSUME NEW q \in known
                 PROVE  \/ EdgeAt(tour, q) < EdgeAt(tour, p)
                        \/ EdgeAt(tour, q) = EdgeAt(tour, p) /\ p <= q
      BY <3>1
    <3>2. EdgeAt(tour, q) <= EdgeAt(tour, p)
      BY <2>4, <3>1
    <3>3. EdgeAt(tour, q) = EdgeAt(tour, p) => p <= q
      BY <2>6, <3>1
    <3>4. EdgeAt(tour, q) \in Int /\ EdgeAt(tour, p) \in Int
      BY <1>2, <1>4, <3>1
    <3> QED BY <3>2, <3>3, <3>4
  <2> DEFINE s == CHOOSE q \in known : best(q)
  <2>8. s \in known /\ best(s)
    <3> HIDE DEF best
    <3> QED BY <2>7
  <2>9. StartPos(tour) = s
    <3> HIDE DEF best
    <3> QED BY <1>1, <1>6
  <2> HIDE DEF s
  <2>10. \A q \in known : EdgeAt(tour, q) <= EdgeAt(tour, s)
    <3> SUFFICES ASSUME NEW q \in known PROVE EdgeAt(tour, q) <= EdgeAt(tour, s)
      OBVIOUS
    <3>1. EdgeAt(tour, q) \in Int /\ EdgeAt(tour, s) \in Int
      BY <1>4, <2>8
    <3> QED BY <2>8, <3>1
  <2>11. \A q \in Position : q \notin known => EdgeAt(tour, q) <= EdgeAt(tour, s)
    BY <1>2, <1>3, <1>4, <2>8
  <2> QED BY <1>4, <2>8, <2>9, <2>10, <2>11
<1> QED BY <1>5, <1>6

\* What is listed are the files, from there on.
LEMMA ListingType ==
  ASSUME NEW tour, Permutation(tour)
  PROVE  /\ Listing(tour) \in [1 .. NumFiles -> File]
         /\ Listing(tour) =
              [k \in 1 .. NumFiles |-> tour[(StartPos(tour) + k) % NumFiles]]
<1> DEFINE s == StartPos(tour)
<1>1. s \in Position
  BY StartsBehindLongest
<1>2. Listing(tour) = [k \in 1 .. NumFiles |-> tour[(k + s) % NumFiles]]
  BY DEF Listing
<1> HIDE DEF s
<1>3. \A k \in 1 .. NumFiles : k + s = s + k /\ (k + s) % NumFiles \in Position
  BY <1>1, TourAssumption DEF Position
<1> QED BY <1>2, <1>3 DEF Permutation, s

-----------------------------------------------------------------------------
(* The invariant of Optimize.                                              *)

\* The initial state, in which no worker has drawn, satisfies Inv.
LEMMA InitInv == Init => Inv
<1> SUFFICES ASSUME Init PROVE Inv
  OBVIOUS
<1> 0 \in Position /\ 0 \in File /\ 0 \in 0 .. NumFiles
  BY TourAssumption DEF Position, File
<1>1. StateType
  BY DEF Init, StateType, Position, File
<1>2. LockHeld
  BY OptimizeAssumption DEF Init, LockHeld
<1> QED BY <1>1, <1>2 DEF Init, Inv, LengthKnown, LinkedInProgress, Remaining, RangesDisjoint

\* Forgetting a worker's segment keeps the types of its variables.
LEMMA ForgetType ==
  ASSUME StateType, NEW w \in Workers, Forget(w)
  PROVE  /\ i0' \in [Workers -> Position] /\ i1' \in [Workers -> Position]
         /\ first' \in [Workers -> Position] /\ last' \in [Workers -> Position]
         /\ n' \in [Workers -> 0 .. NumFiles] /\ j' \in [Workers -> 0 .. NumFiles]
         /\ t' \in [Workers -> File]
<1> 0 \in Position /\ 0 \in File /\ 0 \in 0 .. NumFiles
  BY TourAssumption DEF Position, File
<1> QED BY DEF StateType, Forget

\* Every step of a worker keeps the types.
LEMMA StepType ==
  ASSUME Inv, NEW w \in Workers, Step(w)
  PROVE  StateType'
<1> USE DEF Inv, StateType
<1>a. /\ order \in [Position -> File] /\ rangeList \subseteq Workers
      /\ iter \in [Workers -> Nat \ {0}]
      /\ i0[w] \in Position /\ i1[w] \in Position
      /\ Succ(i0[w]) \in Position /\ Pred(i1[w]) \in Position
  BY NeighbourType
<1>b. Swapped(order, i0[w], i1[w]) \in [Position -> File]
  BY <1>a DEF Swapped
<1>1. CASE Lock(w)
  <2>1. PICK s \in Segments :
          /\ i0' = [i0 EXCEPT ![w] = s.i0]
          /\ i1' = [i1 EXCEPT ![w] = s.i1]
          /\ n' = [n EXCEPT ![w] = s.n]
    BY <1>1 DEF Lock
  <2>2. s.i0 \in Position /\ s.i1 \in Position
    BY SegmentsType
  <2>3. s.n \in 0 .. NumFiles
    BY <2>2, SegmentsType, SegmentLengthType
  <2> QED BY <1>1, <2>1, <2>2, <2>3 DEF Lock
<1>2. CASE Retry(w)
  BY <1>2, ForgetType DEF Retry
<1>3. CASE Reject(w)
  BY <1>3, ForgetType DEF Reject
<1>4. CASE ReverseShort(w)
  BY <1>4, <1>b, ForgetType DEF ReverseShort, SwapEnds
<1>5. CASE ReverseLong(w)
  <2>1. 1 \in 0 .. NumFiles
    BY TourAssumption
  <2> QED BY <1>5, <1>a, <1>b, <2>1 DEF ReverseLong, SwapEnds, Link
<1>6. CASE SwapLeft(w)
  BY <1>6, <1>a DEF SwapLeft
<1>7. CASE SwapRight(w)
  <2>1. j[w] + 1 \in 0 .. NumFiles
    BY <1>7, TourAssumption DEF SwapRight, Remaining
  <2>2. order' \in [Position -> File]
    BY <1>7 DEF SwapRight
  <2> QED BY <1>7, <1>a, <2>1, <2>2 DEF SwapRight
<1>8. CASE Unlink(w)
  BY <1>8, ForgetType DEF Unlink, Drop
<1>9. CASE Exit(w)
  BY <1>9 DEF Exit, shared
<1> QED BY <1>1, <1>2, <1>3, <1>4, <1>5, <1>6, <1>7, <1>8, <1>9 DEF Step

\* Only the worker that takes b_Lock enters the critical section, and it
\* leaves it with the lock released.
LEMMA StepLockHeld ==
  ASSUME Inv, NEW w \in Workers, Step(w)
  PROVE  LockHeld'
BY OptimizeAssumption
   DEF Inv, StateType, LockHeld, Step, Lock, Retry, Reject, ReverseShort, ReverseLong,
       SwapEnds, SwapLeft, SwapRight, Unlink, Exit, shared

\* n is computed with the segment.
LEMMA StepLengthKnown ==
  ASSUME Inv, NEW w \in Workers, Step(w)
  PROVE  LengthKnown'
<1> USE DEF Inv, StateType, LengthKnown
<1>1. CASE Lock(w)
  <2>1. PICK s \in Segments :
          /\ i0' = [i0 EXCEPT ![w] = s.i0]
          /\ i1' = [i1 EXCEPT ![w] = s.i1]
          /\ n' = [n EXCEPT ![w] = s.n]
    BY <1>1 DEF Lock
  <2>2. s.n = SegmentLength(s.i0, s.i1)
    BY SegmentsType
  <2> QED BY <1>1, <2>1, <2>2 DEF Lock
<1>2. CASE Retry(w) \/ Reject(w) \/ ReverseShort(w) \/ Unlink(w)
  BY <1>2 DEF Retry, Reject, ReverseShort, Unlink, Forget
<1>3. CASE ReverseLong(w)
  BY <1>3 DEF ReverseLong
<1>4. CASE SwapLeft(w) \/ SwapRight(w) \/ Exit(w)
  BY <1>4 DEF SwapLeft, SwapRight, Exit, shared
<1> QED BY <1>1, <1>2, <1>3, <1>4 DEF Step

\* A range node is linked when a segment is begun and unlinked when it is done.
LEMMA StepLinkedInProgress ==
  ASSUME Inv, NEW w \in Workers, Step(w)
  PROVE  LinkedInProgress'
BY DEF Inv, StateType, LinkedInProgress, Step, Lock, Retry, Reject, ReverseShort, ReverseLong,
       SwapEnds, SwapLeft, SwapRight, Unlink, Exit, shared, Link, Drop

\* Every swap takes one position off either end of what remains.
LEMMA StepRemaining ==
  ASSUME Inv, NEW w \in Workers, Step(w)
  PROVE  Remaining'
<1> USE DEF Inv, StateType, Remaining
<1>1. CASE Lock(w)
  <2>1. \A v \in Workers \ {w} : i0'[v] = i0[v] /\ i1'[v] = i1[v] /\ n'[v] = n[v]
    BY <1>1 DEF Lock
  <2> QED BY <1>1, <2>1 DEF Lock
<1>2. CASE Retry(w) \/ Reject(w) \/ ReverseShort(w) \/ Unlink(w)
  BY <1>2 DEF Retry, Reject, ReverseShort, Unlink, Forget
<1>3. CASE ReverseLong(w)
  <2>1. /\ first'[w] = i0[w] /\ last'[w] = i1[w] /\ j'[w] = 1 /\ n'[w] = n[w]
        /\ i0'[w] = Succ(i0[w]) /\ i1'[w] = Pred(i1[w])
    BY <1>3 DEF ReverseLong
  <2>2. n[w] = SegmentLength(i0[w], i1[w]) /\ n[w] > 3
    BY <1>3 DEF LengthKnown, ReverseLong, SwapEnds
  <2>3. Offset(Succ(i0[w]), i0[w]) = 1 /\ Offset(i1[w], Pred(i1[w])) = 1
    BY NeighbourOffset
  <2> QED BY <1>3, <2>1, <2>2, <2>3 DEF ReverseLong
<1>4. CASE SwapLeft(w)
  BY <1>4 DEF SwapLeft
<1>5. CASE SwapRight(w)
  <2>1. /\ j'[w] = j[w] + 1 /\ i0'[w] = Succ(i0[w]) /\ i1'[w] = Pred(i1[w])
        /\ pc[w] = "swap2" /\ n' = n /\ first' = first /\ last' = last
        /\ pc'[w] = "swap" <=> j[w] + 1 < n[w] \div 2
        /\ pc'[w] # "swap2"
    BY <1>5 DEF SwapRight, MorePairs
  <2>2. Offset(Succ(i0[w]), first[w]) = j[w] + 1 /\ Offset(last[w], Pred(i1[w])) = j[w] + 1
    BY <2>1, OneStepIn
  <2>3. j[w] + 1 < n[w] \div 2 => 2 * (j[w] + 1) + 2 <= n[w]
    BY MoreThanOne
  <2> QED BY <1>5, <2>1, <2>2, <2>3 DEF SwapRight
<1>6. CASE Exit(w)
  BY <1>6 DEF Exit, shared
<1> QED BY <1>1, <1>2, <1>3, <1>4, <1>5, <1>6 DEF Step

\* A segment is linked only after it was found clear of all linked ones, with
\* the lock held in between.
LEMMA StepRangesDisjoint ==
  ASSUME Inv, NEW w \in Workers, Step(w)
  PROVE  RangesDisjoint'
<1> USE DEF Inv, StateType, RangesDisjoint
<1>1. CASE ReverseLong(w)
  <2>1. /\ rangeList' = rangeList \cup {w}
        /\ first'[w] = i0[w] /\ last'[w] = i1[w] /\ w \notin rangeList
        /\ \A v \in rangeList : first'[v] = first[v] /\ last'[v] = last[v]
    BY <1>1 DEF ReverseLong, SwapEnds, Link, LinkedInProgress
  <2>2. ASSUME NEW v \in rangeList, NEW p \in Position
        PROVE  ~(Inside(p, i0[w], i1[w]) /\ Inside(p, first[v], last[v]))
    <3>1. Clear(i0[w], i1[w], first[v], last[v])
      BY <1>1 DEF ReverseLong, SwapEnds, AllClear
    <3> QED BY <3>1, ClearDisjoint
  <2> QED BY <2>1, <2>2
<1>2. CASE Unlink(w)
  BY <1>2 DEF Unlink, Drop, Forget
<1>3. CASE Retry(w) \/ Reject(w) \/ ReverseShort(w)
  <2>1. w \notin rangeList /\ rangeList' = rangeList
    BY <1>3 DEF Retry, Reject, ReverseShort, SwapEnds, LinkedInProgress
  <2> QED BY <1>3, <2>1 DEF Retry, Reject, ReverseShort, Forget
<1>4. CASE Lock(w) \/ SwapLeft(w) \/ SwapRight(w) \/ Exit(w)
  BY <1>4 DEF Lock, SwapLeft, SwapRight, Exit, shared
<1> QED BY <1>1, <1>2, <1>3, <1>4 DEF Step

\* Inv is inductive.
LEMMA NextInv == Inv /\ [Next]_vars => Inv'
<1> SUFFICES ASSUME Inv, [Next]_vars PROVE Inv'
  OBVIOUS
<1>1. ASSUME NEW w \in Workers, Step(w)
      PROVE  Inv'
  BY <1>1, StepType, StepLockHeld, StepLengthKnown, StepLinkedInProgress,
     StepRemaining, StepRangesDisjoint DEF Inv
<1>2. CASE Finish
  BY <1>2 DEF Finish, Inv, StateType, LockHeld, LengthKnown, LinkedInProgress,
              Remaining, RangesDisjoint
<1>3. CASE UNCHANGED vars
  BY <1>3 DEF vars, Inv, StateType, LockHeld, LengthKnown, LinkedInProgress,
              Remaining, RangesDisjoint
<1> QED BY <1>1, <1>2, <1>3 DEF Next, Terminated

\* Every reachable state satisfies the inductive invariant.
THEOREM InvHolds == Spec => []Inv
BY InitInv, NextInv, PTL DEF Spec

\* No position is in two segments in progress (binsort.c:728-755).
THEOREM Exclusion == Spec => []RangesDisjoint
<1>1. Inv => RangesDisjoint
  BY DEF Inv
<1> QED BY <1>1, InvHolds, PTL

\* What a worker still swaps without the lock is on its linked segment, but
\* not at an end of it.
LEMMA FreeCellsInside ==
  ASSUME Inv, NEW v \in Workers, NEW p \in FreeCells(v)
  PROVE  /\ v \in rangeList /\ p \in Position
         /\ Inside(p, first[v], last[v]) /\ p # first[v] /\ p # last[v]
<1>1. pc[v] \in {"swap", "swap2"} /\ p \in Position /\ Inside(p, i0[v], i1[v])
  BY DEF FreeCells
<1>2. /\ i0[v] \in Position /\ i1[v] \in Position /\ first[v] \in Position /\ last[v] \in Position
      /\ j[v] \in Nat /\ j[v] >= 1 /\ 2 * j[v] + 2 <= SegmentLength(first[v], last[v])
      /\ Offset(i0[v], first[v]) = j[v] /\ Offset(last[v], i1[v]) = j[v]
  BY <1>1 DEF Inv, StateType, Remaining
<1>3. Inside(p, first[v], last[v]) /\ p # first[v] /\ p # last[v]
  BY <1>1, <1>2, RestInside
<1> QED BY <1>1, <1>3 DEF Inv, LinkedInProgress

\* No two workers race for a cell of order.
LEMMA InvNoRace == Inv => NoRace
<1> SUFFICES ASSUME Inv, NEW v \in Workers, NEW w \in Workers, v # w
             PROVE  /\ FreeCells(v) \cap FreeCells(w) = {}
                    /\ FreeCells(v) \cap LockedCells(w) = {}
  BY DEF NoRace
<1>1. FreeCells(v) \cap FreeCells(w) = {}
  BY FreeCellsInside DEF Inv, RangesDisjoint
<1>2. ASSUME NEW p \in FreeCells(v), p \in LockedCells(w) PROVE FALSE
  <2>1. /\ AllClear(w)
        /\ p \in {i0[w], i1[w], Pred(i0[w]), Succ(i1[w])}
    BY <1>2 DEF LockedCells
  <2>2. /\ v \in rangeList /\ p \in Position
        /\ Inside(p, first[v], last[v]) /\ p # first[v] /\ p # last[v]
    BY FreeCellsInside
  <2>3. /\ i0[w] \in Position /\ i1[w] \in Position
        /\ first[v] \in Position /\ last[v] \in Position
    BY DEF Inv, StateType
  <2>4. \A q \in Position : ~(Inside(q, i0[w], i1[w]) /\ Inside(q, first[v], last[v]))
    BY <2>1, <2>2, <2>3, ClearDisjoint DEF AllClear
  <2>5. Inside(i0[w], i0[w], i1[w]) /\ Inside(i1[w], i0[w], i1[w])
    BY <2>3, TourAssumption DEF Position, Inside, Offset
  <2>6. p # i0[w] /\ p # i1[w]
    BY <2>2, <2>3, <2>4, <2>5
  <2>7. p # Pred(i0[w]) /\ p # Succ(i1[w])
    BY <2>2, <2>3, <2>4, NeighbourIsEnd
  <2> QED BY <2>1, <2>6, <2>7
<1> QED BY <1>1, <1>2

\* The deltas are computed from cells nobody writes, and the swaps outside of
\* the lock are of cells nobody else touches (binsort.c:757-787).
THEOREM RaceFree == Spec => []NoRace
BY InvNoRace, InvHolds, PTL

-----------------------------------------------------------------------------
(* The segments in progress, finished in mind.                             *)

\* What a worker will have made of position p of the part it still swaps.
Coming(w, p) ==
  IF pc[w] = "swap2" /\ p = i1[w] THEN t[w] ELSE order[Mirror(p, i0[w], i1[w])]

SettledKnown ==
  \A p \in Position :
    /\ \A w \in Workers : p \in FreeCells(w) => Settled[p] = Coming(w, p)
    /\ (\A w \in Workers : p \notin FreeCells(w)) => Settled[p] = order[p]

\* Nobody else works on what a worker still swaps, so that Settled is what
\* that worker will have made of it.
LEMMA SettledIs == Inv => SettledKnown
<1> SUFFICES ASSUME Inv, NEW p \in Position
             PROVE  /\ \A w \in Workers : p \in FreeCells(w) => Settled[p] = Coming(w, p)
                    /\ (\A w \in Workers : p \notin FreeCells(w)) => Settled[p] = order[p]
  BY DEF SettledKnown
<1> DEFINE busy == {w \in rangeList : /\ pc[w] \in {"swap", "swap2"}
                                      /\ Inside(p, i0[w], i1[w])}
<1>1. Settled[p] = IF busy = {} THEN order[p]
                   ELSE Coming(CHOOSE v \in busy : TRUE, p)
  BY DEF Settled, Coming
<1>2. \A w \in Workers : w \in busy <=> p \in FreeCells(w)
  BY DEF Inv, LinkedInProgress, FreeCells
<1>3. busy \subseteq Workers
  BY DEF Inv, StateType
<1> HIDE DEF busy
<1>4. ASSUME NEW w \in Workers, p \in FreeCells(w) PROVE Settled[p] = Coming(w, p)
  <2>1. w \in busy
    BY <1>2, <1>4
  <2>2. \A v \in busy : v = w
    BY <1>2, <1>3, <1>4, InvNoRace DEF NoRace
  <2>3. (CHOOSE v \in busy : TRUE) = w
    BY <2>1, <2>2
  <2> QED BY <1>1, <2>1, <2>3
<1>5. (\A w \in Workers : p \notin FreeCells(w)) => busy = {}
  BY <1>2, <1>3
<1> QED BY <1>1, <1>4, <1>5

\* Of what a worker still swaps, the mirror image of a position is a part.
LEMMA MirrorFree ==
  ASSUME Inv, NEW w \in Workers, NEW p \in FreeCells(w)
  PROVE  /\ i0[w] \in FreeCells(w) /\ i1[w] \in FreeCells(w)
         /\ Mirror(p, i0[w], i1[w]) \in FreeCells(w)
<1>1. i0[w] \in Position /\ i1[w] \in Position /\ p \in Position /\ Inside(p, i0[w], i1[w])
  BY DEF Inv, StateType, FreeCells
<1>2. /\ Inside(i0[w], i0[w], i1[w]) /\ Inside(i1[w], i0[w], i1[w])
      /\ Mirror(p, i0[w], i1[w]) \in Position
      /\ Inside(Mirror(p, i0[w], i1[w]), i0[w], i1[w])
  BY <1>1, MirrorInside, MirrorEnds
<1> QED BY <1>1, <1>2 DEF FreeCells

\* What relates the two, beside Inv: a drawn segment is at most half of the
\* tour; between the two writes of a swap one file is in the tour twice; with
\* all segments finished no file is lost and the running distance is the
\* length of the tour; the files are listed when all workers are done.
Halved == \A w \in Workers : pc[w] = "critical" => 2 * n[w] <= NumFiles
Twice == \A w \in Workers : pc[w] = "swap2" => order[i0[w]] = order[i1[w]]
NoFileLost == Permutation(Settled)
DistanceKnown == currentDistance = TourLength(Settled)
ListedLast == output = <<>> \/ (AllDone /\ output \in [1 .. NumFiles -> File])

AtomicInv == Inv /\ Halved /\ Twice /\ NoFileLost /\ DistanceKnown /\ ListedLast

-----------------------------------------------------------------------------
\* A step that touches no cell of order and no unfinished segment.
LEMMA QuietStep ==
  ASSUME Inv, Inv', order' = order,
         \A v \in Workers : FreeCells(v)' = FreeCells(v),
         \A v \in Workers : FreeCells(v) # {} =>
           i0'[v] = i0[v] /\ i1'[v] = i1[v] /\ t'[v] = t[v] /\ pc'[v] = pc[v]
  PROVE  Settled' = Settled
<1>1. SettledKnown /\ SettledKnown'
  BY SettledIs, PTL
<1>2. ASSUME NEW p \in Position PROVE Settled'[p] = Settled[p]
  <2>1. CASE \E v \in Workers : p \in FreeCells(v)
    <3>1. PICK v \in Workers : p \in FreeCells(v)
      BY <2>1
    <3>2. Settled[p] = Coming(v, p) /\ Settled'[p] = Coming(v, p)'
      BY <1>1, <3>1 DEF SettledKnown
    <3>3. Coming(v, p)' = Coming(v, p)
      BY <3>1 DEF Coming
    <3> QED BY <3>2, <3>3
  <2>2. CASE \A v \in Workers : p \notin FreeCells(v)
    BY <1>1, <2>2 DEF SettledKnown
  <2> QED BY <2>1, <2>2
<1>3. Settled = [p \in Position |-> Settled[p]] /\ Settled' = [p \in Position |-> Settled'[p]]
  BY DEF Settled
<1> QED BY <1>2, <1>3

\* The steps that do not write to order.
LEMMA WritesNothing ==
  ASSUME Inv, Inv', NEW w \in Workers,
         Lock(w) \/ Retry(w) \/ Reject(w) \/ Unlink(w) \/ Exit(w)
  PROVE  Settled' = Settled
<1> USE DEF Inv, StateType
<1>1. order' = order
  BY DEF Lock, Retry, Reject, Unlink, Exit, shared
<1>2. pc[w] \notin {"swap", "swap2"} /\ pc'[w] \notin {"swap", "swap2"}
  BY DEF Lock, Retry, Reject, Unlink, Exit
<1>3. FreeCells(w) = {} /\ FreeCells(w)' = {}
  BY <1>2 DEF FreeCells
<1>4. ASSUME NEW v \in Workers, v # w
      PROVE  i0'[v] = i0[v] /\ i1'[v] = i1[v] /\ t'[v] = t[v] /\ pc'[v] = pc[v]
  BY <1>4 DEF Lock, Retry, Reject, Unlink, Exit, Forget, shared
<1>5. \A v \in Workers : FreeCells(v)' = FreeCells(v)
  BY <1>3, <1>4 DEF FreeCells
<1> HIDE DEF Inv, StateType
<1> QED BY <1>1, <1>3, <1>4, <1>5, QuietStep

\* The first write of a swap: what it overwrites is kept in t.
LEMMA LeftWrites ==
  ASSUME Inv, Inv', Twice, NEW w \in Workers, SwapLeft(w)
  PROVE  Settled' = Settled /\ Twice'
<1>1. SettledKnown /\ SettledKnown'
  BY SettledIs, PTL
<1>2. /\ order' = [order EXCEPT ![i0[w]] = order[i1[w]]]
      /\ order \in [Position -> File]
      /\ pc[w] = "swap" /\ pc'[w] = "swap2" /\ t'[w] = order[i0[w]]
      /\ \A v \in Workers \ {w} : pc'[v] = pc[v] /\ t'[v] = t[v]
      /\ i0' = i0 /\ i1' = i1
      /\ \A v \in Workers : i0[v] \in Position /\ i1[v] \in Position
  BY DEF SwapLeft, Inv, StateType
<1>3. \A v \in Workers : FreeCells(v)' = FreeCells(v)
  BY <1>2 DEF FreeCells
<1>4. i0[w] \in FreeCells(w) /\ i1[w] \in FreeCells(w)
  BY <1>2, MirrorEnds DEF FreeCells
<1>5. \A v \in Workers \ {w} : i0[w] \notin FreeCells(v)
  BY <1>4, InvNoRace DEF NoRace
<1>6. ASSUME NEW p \in Position PROVE Settled'[p] = Settled[p]
  <2>1. CASE p \in FreeCells(w)
    <3>1. Settled[p] = order[Mirror(p, i0[w], i1[w])]
      BY <1>1, <1>2, <2>1 DEF SettledKnown, Coming
    <3>2. Settled'[p] = IF p = i1[w] THEN order[i0[w]]
                        ELSE order'[Mirror(p, i0[w], i1[w])]
      BY <1>1, <1>2, <1>3, <2>1 DEF SettledKnown, Coming
    <3>3. CASE p = i1[w]
      BY <1>2, <3>1, <3>2, <3>3, MirrorEnds
    <3>4. CASE p # i1[w]
      <4>1. Inside(p, i0[w], i1[w])
        BY <2>1 DEF FreeCells
      <4>2. Mirror(p, i0[w], i1[w]) # i0[w] /\ Mirror(p, i0[w], i1[w]) \in Position
        BY <1>2, <3>4, <4>1, MirrorInside, MirrorEnds
      <4> QED BY <1>2, <3>1, <3>2, <3>4, <4>2
    <3> QED BY <3>3, <3>4
  <2>2. CASE \E v \in Workers \ {w} : p \in FreeCells(v)
    <3>1. PICK v \in Workers \ {w} : p \in FreeCells(v)
      BY <2>2
    <3>2. Settled[p] = Coming(v, p) /\ Settled'[p] = Coming(v, p)'
      BY <1>1, <1>3, <3>1 DEF SettledKnown
    <3>3. Mirror(p, i0[v], i1[v]) \in FreeCells(v)
      BY <3>1, MirrorFree
    <3>4. order'[Mirror(p, i0[v], i1[v])] = order[Mirror(p, i0[v], i1[v])]
      BY <1>2, <1>5, <3>1, <3>3 DEF FreeCells
    <3>5. pc'[v] = pc[v] /\ t'[v] = t[v]
      BY <1>2, <3>1
    <3> QED BY <1>2, <3>2, <3>4, <3>5 DEF Coming
  <2>3. CASE \A v \in Workers : p \notin FreeCells(v)
    <3>1. p # i0[w] /\ order'[p] = order[p]
      BY <1>2, <1>4, <2>3
    <3> QED BY <1>1, <1>3, <2>3, <3>1 DEF SettledKnown
  <2> QED BY <2>1, <2>2, <2>3
<1>7. Settled = [p \in Position |-> Settled[p]] /\ Settled' = [p \in Position |-> Settled'[p]]
  BY DEF Settled
<1>8. ASSUME NEW v \in Workers, pc'[v] = "swap2" PROVE order'[i0'[v]] = order'[i1'[v]]
  <2>1. CASE v = w
    BY <1>2, <2>1
  <2>2. CASE v # w
    <3>1. pc[v] = "swap2" /\ order[i0[v]] = order[i1[v]]
      BY <1>2, <1>8, <2>2 DEF Twice
    <3>2. i0[v] \in FreeCells(v) /\ i1[v] \in FreeCells(v)
      BY <1>2, <3>1, MirrorEnds DEF FreeCells
    <3> QED BY <1>2, <1>5, <2>2, <3>1, <3>2
  <2> QED BY <2>1, <2>2
<1> QED BY <1>6, <1>7, <1>8 DEF Twice

\* The second write of a swap: what it writes was in t.
LEMMA RightWrites ==
  ASSUME Inv, Inv', Twice, NEW w \in Workers, SwapRight(w)
  PROVE  Settled' = Settled /\ Twice'
<1>1. SettledKnown /\ SettledKnown'
  BY SettledIs, PTL
<1>2. /\ order' = [order EXCEPT ![i1[w]] = t[w]]
      /\ order \in [Position -> File] /\ t' = t
      /\ pc[w] = "swap2" /\ pc' = [pc EXCEPT ![w] = pc'[w]]
      /\ pc'[w] = IF j[w] + 1 < n[w] \div 2 THEN "swap" ELSE "relock"
      /\ i0'[w] = Succ(i0[w]) /\ i1'[w] = Pred(i1[w])
      /\ \A v \in Workers : i0[v] \in Position /\ i1[v] \in Position
      /\ \A v \in Workers \ {w} : i0'[v] = i0[v] /\ i1'[v] = i1[v] /\ pc'[v] = pc[v]
  BY DEF SwapRight, MorePairs, Inv, StateType
<1>3. \A v \in Workers \ {w} : FreeCells(v)' = FreeCells(v)
  BY <1>2 DEF FreeCells
<1>4. i0[w] \in FreeCells(w) /\ i1[w] \in FreeCells(w)
  BY <1>2, MirrorEnds DEF FreeCells
<1>5. \A v \in Workers \ {w} : FreeCells(v) \cap FreeCells(w) = {}
  BY InvNoRace DEF NoRace
<1>6. ASSUME NEW v \in Workers \ {w}, NEW p \in Position, p \in FreeCells(v)
      PROVE  Settled'[p] = Settled[p]
  <2>1. Settled[p] = Coming(v, p) /\ Settled'[p] = Coming(v, p)'
    BY <1>1, <1>3, <1>6 DEF SettledKnown
  <2>2. Mirror(p, i0[v], i1[v]) \in FreeCells(v)
    BY <1>6, MirrorFree
  <2>3. order'[Mirror(p, i0[v], i1[v])] = order[Mirror(p, i0[v], i1[v])]
    BY <1>2, <1>4, <1>5, <2>2 DEF FreeCells
  <2> QED BY <1>2, <2>1, <2>3 DEF Coming
\* The part that is left is the one that was left without its two ends.
<1> DEFINE inner(p) == p \in FreeCells(w) /\ p # i0[w] /\ p # i1[w]
<1>7. ASSUME NEW p \in Position
      PROVE  /\ p \in FreeCells(w)' => inner(p)
             /\ p \in FreeCells(w)' => Mirror(p, i0'[w], i1'[w]) = Mirror(p, i0[w], i1[w])
             /\ inner(p) /\ p \notin FreeCells(w)' => Mirror(p, i0[w], i1[w]) = p
             /\ i0[w] # i1[w]
  <2>1. /\ j[w] \in Nat /\ n[w] \in Nat /\ first[w] \in Position /\ last[w] \in Position
        /\ n[w] = SegmentLength(first[w], last[w]) /\ 1 <= j[w] /\ 2 * j[w] + 2 <= n[w]
        /\ Offset(i0[w], first[w]) = j[w] /\ Offset(last[w], i1[w]) = j[w]
    BY <1>2 DEF Inv, StateType, Remaining
  <2>2. SegmentLength(i0[w], i1[w]) = n[w] - 2 * j[w]
    BY <1>2, <2>1, RestLength
  <2>3. i0[w] # i1[w]
    BY <1>2, <2>1, RestLength
  <2>4. CASE j[w] + 1 < n[w] \div 2
    <3>1. SegmentLength(i0[w], i1[w]) >= 3
      BY <2>1, <2>2, <2>4
    <3>2. p \in FreeCells(w)' <=> Inside(p, Succ(i0[w]), Pred(i1[w]))
      BY <1>2, <2>4 DEF FreeCells
    <3>3. p \in FreeCells(w) <=> Inside(p, i0[w], i1[w])
      BY <1>2 DEF FreeCells
    <3> QED BY <1>2, <2>3, <3>1, <3>2, <3>3, InnerSegment
  <2>5. CASE ~(j[w] + 1 < n[w] \div 2)
    <3>1. SegmentLength(i0[w], i1[w]) <= 3
      BY <2>1, <2>2, <2>5
    <3>2. FreeCells(w)' = {}
      BY <1>2, <2>5 DEF FreeCells
    <3>3. p \in FreeCells(w) => Inside(p, i0[w], i1[w])
      BY DEF FreeCells
    <3> QED BY <1>2, <2>3, <3>1, <3>2, <3>3, ShortSegment
  <2> QED BY <2>4, <2>5
<1>8. ASSUME NEW p \in Position, p \in FreeCells(w)
      PROVE  Settled'[p] = Settled[p]
  <2> DEFINE q == Mirror(p, i0[w], i1[w])
  <2>1. q \in Position /\ (p # i0[w] => q # i1[w]) /\ (p = i0[w] => q = i1[w])
    <3>1. Inside(p, i0[w], i1[w])
      BY <1>8 DEF FreeCells
    <3> QED BY <1>2, <3>1, MirrorInside, MirrorEnds
  <2>2. Settled[p] = IF p = i1[w] THEN t[w] ELSE order[q]
    BY <1>1, <1>2, <1>8 DEF SettledKnown, Coming
  <2>3. \A v \in Workers \ {w} : p \notin FreeCells(v)'
    BY <1>3, <1>5, <1>8
  <2>4. CASE p \in FreeCells(w)'
    <3>1. inner(p) /\ Mirror(p, i0'[w], i1'[w]) = q /\ pc'[w] # "swap2"
      BY <1>2, <1>7, <2>4
    <3>2. Settled'[p] = order'[q]
      BY <1>1, <2>4, <3>1 DEF SettledKnown, Coming
    <3> QED BY <1>2, <2>1, <2>2, <3>1, <3>2
  <2>5. CASE p \notin FreeCells(w)'
    <3>1. Settled'[p] = order'[p]
      BY <1>1, <2>3, <2>5 DEF SettledKnown
    <3>2. CASE p = i1[w]
      BY <1>2, <2>2, <3>1, <3>2
    <3>3. CASE p = i0[w] /\ p # i1[w]
      <4>1. order[i0[w]] = order[i1[w]]
        BY <1>2 DEF Twice
      <4> QED BY <1>2, <2>1, <2>2, <3>1, <3>3, <4>1
    <3>4. CASE p # i0[w] /\ p # i1[w]
      <4>1. q = p
        BY <1>7, <1>8, <2>5, <3>4
      <4> QED BY <1>2, <2>2, <3>1, <3>4, <4>1
    <3> QED BY <3>2, <3>3, <3>4
  <2> QED BY <2>4, <2>5
<1>9. ASSUME NEW p \in Position, \A v \in Workers : p \notin FreeCells(v)
      PROVE  Settled'[p] = Settled[p]
  <2>1. \A v \in Workers : p \notin FreeCells(v)'
    BY <1>3, <1>7, <1>9
  <2>2. order'[p] = order[p]
    BY <1>2, <1>4, <1>9
  <2> QED BY <1>1, <1>9, <2>1, <2>2 DEF SettledKnown
<1>10. \A p \in Position : Settled'[p] = Settled[p]
  BY <1>6, <1>8, <1>9
<1>11. Settled = [p \in Position |-> Settled[p]] /\ Settled' = [p \in Position |-> Settled'[p]]
  BY DEF Settled
<1>12. ASSUME NEW v \in Workers, pc'[v] = "swap2" PROVE order'[i0'[v]] = order'[i1'[v]]
  <2>1. v # w
    BY <1>2, <1>12
  <2>2. pc[v] = "swap2" /\ order[i0[v]] = order[i1[v]]
    BY <1>2, <1>12, <2>1 DEF Twice
  <2>3. i0[v] \in FreeCells(v) /\ i1[v] \in FreeCells(v)
    BY <1>2, <2>2, MirrorEnds DEF FreeCells
  <2> QED BY <1>2, <1>4, <1>5, <2>1, <2>2, <2>3
<1> QED BY <1>10, <1>11, <1>12 DEF Twice

-----------------------------------------------------------------------------
\* Of an accepted segment and its two neighbours no position is still swapped
\* by anyone, so that its delta is the same in the tour and in the settled one.
LEMMA AcceptedFree ==
  ASSUME Inv, Halved, NEW w \in Workers, SwapEnds(w)
  PROVE  /\ i0[w] \in Position /\ i1[w] \in Position
         /\ 2 * SegmentLength(i0[w], i1[w]) <= NumFiles
         /\ \A p \in Position : Inside(p, i0[w], i1[w]) =>
              (\A v \in Workers : p \notin FreeCells(v)) /\ Settled[p] = order[p]
         /\ Delta(Settled, i0[w], i1[w]) = Delta(order, i0[w], i1[w])
<1> DEFINE a == i0[w]  b == i1[w]
<1>1. /\ a \in Position /\ b \in Position /\ pc[w] = "critical" /\ AllClear(w)
      /\ Pred(a) \in Position /\ Succ(b) \in Position
  BY NeighbourType DEF SwapEnds, Inv, StateType
<1>2. FreeCells(w) = {}
  BY <1>1 DEF FreeCells
<1>3. SettledKnown
  BY SettledIs
<1>4. ASSUME NEW p \in Position, Inside(p, a, b), NEW v \in Workers
      PROVE  p \notin FreeCells(v)
  <2> SUFFICES ASSUME p \in FreeCells(v) PROVE FALSE
    OBVIOUS
  <2>1. v \in rangeList /\ Inside(p, first[v], last[v])
    BY FreeCellsInside
  <2>2. first[v] \in Position /\ last[v] \in Position /\ Clear(a, b, first[v], last[v])
    BY <1>1, <2>1 DEF AllClear, Inv, StateType
  <2> QED BY <1>1, <1>4, <2>1, <2>2, ClearDisjoint
<1>5. \A p \in Position : Inside(p, a, b) => Settled[p] = order[p]
  BY <1>3, <1>4 DEF SettledKnown
<1>6. \A p \in LockedCells(w) : Settled[p] = order[p]
  <2> SUFFICES ASSUME NEW p \in LockedCells(w) PROVE Settled[p] = order[p]
    OBVIOUS
  <2>1. p \in Position
    BY <1>1 DEF LockedCells
  <2>2. \A v \in Workers : p \notin FreeCells(v)
    BY <1>2, InvNoRace DEF NoRace
  <2> QED BY <1>3, <2>1, <2>2 DEF SettledKnown
<1>7. /\ Settled[a] = order[a] /\ Settled[b] = order[b]
      /\ Settled[Pred(a)] = order[Pred(a)] /\ Settled[Succ(b)] = order[Succ(b)]
  BY <1>1, <1>6 DEF LockedCells
<1>8. Delta(Settled, a, b) = Delta(order, a, b)
  BY <1>7 DEF Delta
<1>9. 2 * SegmentLength(a, b) <= NumFiles
  BY <1>1 DEF Halved, Inv, LengthKnown
<1> QED BY <1>1, <1>4, <1>5, <1>8, <1>9

\* To accept a segment is to reverse it in the settled tour.
LEMMA AcceptReverses ==
  ASSUME Inv, Inv', Halved, Twice, NEW w \in Workers,
         ReverseShort(w) \/ ReverseLong(w)
  PROVE  Settled' = Reversed(Settled, i0[w], i1[w]) /\ Twice'
<1> DEFINE a == i0[w]  b == i1[w]
<1>1. SettledKnown /\ SettledKnown'
  BY SettledIs, PTL
<1>2. SwapEnds(w)
  BY DEF ReverseShort, ReverseLong
<1>3. /\ a \in Position /\ b \in Position
      /\ \A p \in Position : Inside(p, a, b) =>
           (\A v \in Workers : p \notin FreeCells(v)) /\ Settled[p] = order[p]
  BY <1>2, AcceptedFree
<1>4. /\ order \in [Position -> File]
      /\ order' = [order EXCEPT ![a] = order[b], ![b] = order[a]]
      /\ pc'[w] \notin {"critical", "swap2"}
      /\ \A v \in Workers : i0[v] \in Position /\ i1[v] \in Position
      /\ \A v \in Workers \ {w} : /\ i0'[v] = i0[v] /\ i1'[v] = i1[v]
                                  /\ pc'[v] = pc[v] /\ t'[v] = t[v]
  BY <1>2 DEF ReverseShort, ReverseLong, SwapEnds, Swapped, Forget, Inv, StateType
<1>5. \A v \in Workers \ {w} : FreeCells(v)' = FreeCells(v)
  BY <1>4 DEF FreeCells
<1>6. Inside(a, a, b) /\ Inside(b, a, b)
  BY <1>3, MirrorEnds
<1>7. \A p \in Position : p \in FreeCells(w)' =>
        /\ ReverseLong(w) /\ Inside(p, a, b) /\ p # a /\ p # b
        /\ Coming(w, p)' = order'[Mirror(p, a, b)]
  <2>1. CASE ReverseShort(w)
    <3>1. FreeCells(w)' = {}
      BY <2>1 DEF FreeCells, ReverseShort, Inv, StateType
    <3> QED BY <3>1
  <2>2. CASE ReverseLong(w)
    <3>1. SegmentLength(a, b) >= 3
      BY <1>2, <2>2 DEF ReverseLong, SwapEnds, Inv, StateType, LengthKnown
    <3>2. i0'[w] = Succ(a) /\ i1'[w] = Pred(b) /\ pc'[w] = "swap"
      BY <2>2 DEF ReverseLong, Inv, StateType
    <3>3. FreeCells(w)' = {p \in Position : Inside(p, Succ(a), Pred(b))}
      BY <3>2 DEF FreeCells
    <3>4. \A p \in Position : Coming(w, p)' = order'[Mirror(p, Succ(a), Pred(b))]
      BY <3>2 DEF Coming
    <3> QED BY <1>3, <2>2, <3>1, <3>3, <3>4, InnerSegment
  <2> QED BY <2>1, <2>2
<1>8. ASSUME NEW p \in Position, Inside(p, a, b)
      PROVE  Settled'[p] = Settled[Mirror(p, a, b)]
  <2> DEFINE q == Mirror(p, a, b)
  <2>1. /\ q \in Position /\ Inside(q, a, b) /\ (q = a <=> p = b) /\ (q = b <=> p = a)
    BY <1>3, <1>8, MirrorInside, MirrorEnds
  <2>2. Settled[q] = order[q]
    BY <1>3, <2>1
  <2>3. \A v \in Workers \ {w} : p \notin FreeCells(v)'
    BY <1>3, <1>5, <1>8
  <2>4. CASE p \in FreeCells(w)'
    <3>1. Settled'[p] = order'[q] /\ p # a /\ p # b
      BY <1>1, <1>7, <2>4 DEF SettledKnown
    <3> QED BY <1>4, <2>1, <2>2, <3>1
  <2>5. CASE p \notin FreeCells(w)'
    <3>1. Settled'[p] = order'[p]
      BY <1>1, <2>3, <2>5 DEF SettledKnown
    <3>2. CASE p = a \/ p = b
      BY <1>3, <1>4, <2>1, <2>2, <3>1, <3>2
    <3>3. CASE p # a /\ p # b
      <4>1. CASE ReverseShort(w)
        <5>1. SegmentLength(a, b) <= 3
          BY <1>2, <4>1 DEF ReverseShort, SwapEnds, Inv, StateType, LengthKnown
        <5>2. q = p
          BY <1>3, <1>8, <3>3, <5>1, ShortSegment
        <5> QED BY <1>4, <2>2, <3>1, <3>3, <5>2
      <4>2. CASE ReverseLong(w)
        <5>1. SegmentLength(a, b) >= 3
          BY <1>2, <4>2 DEF ReverseLong, SwapEnds, Inv, StateType, LengthKnown
        <5>2. Inside(p, Succ(a), Pred(b))
          BY <1>3, <1>8, <3>3, <5>1, InnerSegment
        <5>3. p \in FreeCells(w)'
          BY <4>2, <5>2 DEF ReverseLong, FreeCells, Inv, StateType
        <5> QED BY <2>5, <5>3
      <4> QED BY <4>1, <4>2
    <3> QED BY <3>2, <3>3
  <2> QED BY <2>4, <2>5
<1>9. ASSUME NEW p \in Position, ~Inside(p, a, b)
      PROVE  Settled'[p] = Settled[p]
  <2>1. p \notin FreeCells(w)' /\ p \notin FreeCells(w)
    BY <1>2, <1>7, <1>9 DEF FreeCells, SwapEnds
  <2>2. CASE \E v \in Workers \ {w} : p \in FreeCells(v)
    <3>1. PICK v \in Workers \ {w} : p \in FreeCells(v)
      BY <2>2
    <3>2. Settled[p] = Coming(v, p) /\ Settled'[p] = Coming(v, p)'
      BY <1>1, <1>5, <3>1 DEF SettledKnown
    <3>3. Mirror(p, i0[v], i1[v]) \in FreeCells(v)
      BY <3>1, MirrorFree
    <3>4. Mirror(p, i0[v], i1[v]) \in Position /\ ~Inside(Mirror(p, i0[v], i1[v]), a, b)
      BY <1>3, <3>3 DEF FreeCells
    <3>5. order'[Mirror(p, i0[v], i1[v])] = order[Mirror(p, i0[v], i1[v])]
      BY <1>4, <1>6, <3>4
    <3> QED BY <1>4, <3>2, <3>5 DEF Coming
  <2>3. CASE \A v \in Workers : p \notin FreeCells(v)
    <3>1. \A v \in Workers : p \notin FreeCells(v)'
      BY <1>5, <2>1, <2>3
    <3>2. order'[p] = order[p]
      BY <1>4, <1>6, <1>9
    <3> QED BY <1>1, <2>3, <3>1, <3>2 DEF SettledKnown
  <2> QED BY <2>1, <2>2, <2>3
<1>10. Settled' = [p \in Position |-> Settled'[p]]
  BY DEF Settled
<1>11. Settled' = Reversed(Settled, a, b)
  BY <1>8, <1>9, <1>10 DEF Reversed
<1>12. ASSUME NEW v \in Workers, pc'[v] = "swap2" PROVE order'[i0'[v]] = order'[i1'[v]]
  <2>1. v # w /\ pc[v] = "swap2" /\ order[i0[v]] = order[i1[v]]
    BY <1>4, <1>12 DEF Twice
  <2>2. i0[v] \in FreeCells(v) /\ i1[v] \in FreeCells(v)
    BY <1>4, <2>1, MirrorEnds DEF FreeCells
  <2>3. i0[v] \notin {a, b} /\ i1[v] \notin {a, b}
    BY <1>3, <1>6, <2>2
  <2> QED BY <1>4, <2>1, <2>3
<1> QED BY <1>11, <1>12 DEF Twice

-----------------------------------------------------------------------------
\* When all workers are done nothing is left to swap.
LEMMA DoneSettled == Inv /\ AllDone => Settled = order
<1> SUFFICES ASSUME Inv, AllDone PROVE Settled = order
  OBVIOUS
<1>1. \A w \in Workers : FreeCells(w) = {}
  BY DEF AllDone, FreeCells
<1>2. \A p \in Position : Settled[p] = order[p]
  BY <1>1, SettledIs DEF SettledKnown
<1>3. order \in [Position -> File] /\ Settled = [p \in Position |-> Settled[p]]
  BY DEF Inv, StateType, Settled
<1> QED BY <1>2, <1>3

\* In the beginning nothing is swapped, and the distance is that of the tour.
LEMMA InitAtomic == Init => AtomicInv /\ Settled = order
<1> SUFFICES ASSUME Init PROVE AtomicInv /\ Settled = order
  OBVIOUS
<1>1. Inv
  BY InitInv
<1>2. \A w \in Workers : pc[w] = "again"
  BY DEF Init
<1>3. Settled = order
  <2>1. \A w \in Workers : FreeCells(w) = {}
    BY <1>2 DEF FreeCells
  <2>2. \A p \in Position : Settled[p] = order[p]
    BY <1>1, <2>1, SettledIs DEF SettledKnown
  <2>3. order \in [Position -> File] /\ Settled = [p \in Position |-> Settled[p]]
    BY <1>1 DEF Inv, StateType, Settled
  <2> QED BY <2>2, <2>3
<1>4. Permutation(order)
  BY DEF Init, Permutation, Position, File
<1>5. currentDistance = TourLength(order) /\ output = <<>>
  BY DEF Init, InitialDistance
<1> QED BY <1>1, <1>2, <1>3, <1>4, <1>5
        DEF AtomicInv, Halved, Twice, NoFileLost, DistanceKnown, ListedLast

\* A step of a worker before the files are listed.
LEMMA StepUnlisted ==
  ASSUME AtomicInv, NEW w \in Workers, Step(w)
  PROVE  output = <<>> /\ output' = <<>>
<1>1. pc[w] # "done" /\ output' = output
  BY DEF Step, Lock, Retry, Reject, ReverseShort, ReverseLong, SwapEnds,
         SwapLeft, SwapRight, Unlink, Exit, shared
<1>2. ~AllDone
  BY <1>1 DEF AllDone
<1> QED BY <1>1, <1>2 DEF AtomicInv, ListedLast

\* What is drawn is at most half of the tour.
LEMMA StepHalved ==
  ASSUME Inv, Halved, NEW w \in Workers, Step(w)
  PROVE  Halved'
<1>1. CASE Lock(w)
  <2>1. PICK s \in Segments : n' = [n EXCEPT ![w] = s.n]
    BY <1>1 DEF Lock
  <2>2. 2 * s.n <= NumFiles
    BY SegmentsType
  <2> QED BY <1>1, <2>1, <2>2 DEF Lock, Halved, Inv, StateType
<1>2. CASE ~Lock(w)
  <2>1. /\ pc'[w] # "critical"
        /\ \A v \in Workers \ {w} : pc'[v] = pc[v] /\ n'[v] = n[v]
    BY <1>2 DEF Step, Retry, Reject, ReverseShort, ReverseLong, SwapEnds, Forget,
                SwapLeft, SwapRight, Unlink, Exit, shared, Inv, StateType
  <2> QED BY <2>1 DEF Halved
<1> QED BY <1>1, <1>2

\* The steps that do not write to order keep what is in it twice.
LEMMA StepTwice ==
  ASSUME Inv, Twice, NEW w \in Workers,
         Lock(w) \/ Retry(w) \/ Reject(w) \/ Unlink(w) \/ Exit(w)
  PROVE  Twice'
<1>1. /\ pc'[w] # "swap2" /\ order' = order
      /\ \A v \in Workers \ {w} : pc'[v] = pc[v] /\ i0'[v] = i0[v] /\ i1'[v] = i1[v]
  BY DEF Lock, Retry, Reject, Unlink, Exit, Forget, shared, Inv, StateType
<1> QED BY <1>1 DEF Twice

\* A step of a worker is an indivisible reversal, or nothing at all.
LEMMA StepAtomic ==
  ASSUME AtomicInv, Inv', NEW w \in Workers, Step(w)
  PROVE  /\ Twice'
         /\ \/ Settled' = Settled /\ currentDistance' = currentDistance
            \/ \E a, b \in Position :
                 /\ 2 * SegmentLength(a, b) <= NumFiles
                 /\ Settled' = Reversed(Settled, a, b)
                 /\ currentDistance' = TourLength(Settled')
<1> USE DEF AtomicInv
<1>1. CASE Lock(w) \/ Retry(w) \/ Reject(w) \/ Unlink(w) \/ Exit(w)
  <2>1. currentDistance' = currentDistance
    BY <1>1 DEF Lock, Retry, Reject, Unlink, Exit, shared
  <2> QED BY <1>1, <2>1, WritesNothing, StepTwice
<1>2. CASE SwapLeft(w)
  BY <1>2, LeftWrites DEF SwapLeft
<1>3. CASE SwapRight(w)
  BY <1>3, RightWrites DEF SwapRight
<1>4. CASE ReverseShort(w) \/ ReverseLong(w)
  <2> DEFINE a == i0[w]  b == i1[w]
  <2>1. SwapEnds(w)
    BY <1>4 DEF ReverseShort, ReverseLong
  <2>2. /\ a \in Position /\ b \in Position /\ 2 * SegmentLength(a, b) <= NumFiles
        /\ Delta(Settled, a, b) = Delta(order, a, b)
    BY <2>1, AcceptedFree
  <2>3. Settled' = Reversed(Settled, a, b) /\ Twice'
    BY <1>4, AcceptReverses
  <2>4. TourLength(Reversed(Settled, a, b)) = TourLength(Settled) + Delta(Settled, a, b)
    BY <2>2, ReversalDelta DEF NoFileLost
  <2>5. currentDistance' = currentDistance + Delta(order, a, b)
    BY <2>1 DEF SwapEnds
  <2>6. currentDistance' = TourLength(Settled')
    BY <2>2, <2>3, <2>4, <2>5 DEF DistanceKnown
  <2> QED BY <2>2, <2>3, <2>6
<1> QED BY <1>1, <1>2, <1>3, <1>4 DEF Step

\* AtomicInv is inductive.
LEMMA NextAtomic == AtomicInv /\ [Next]_vars => AtomicInv'
<1> SUFFICES ASSUME AtomicInv, [Next]_vars PROVE AtomicInv'
  OBVIOUS
<1>1. Inv'
  BY NextInv DEF AtomicInv
<1>2. ASSUME NEW w \in Workers, Step(w) PROVE AtomicInv'
  <2>1. Halved'
    BY <1>2, StepHalved DEF AtomicInv
  <2>2. Twice'
    BY <1>1, <1>2, StepAtomic
  <2>3. NoFileLost' /\ DistanceKnown'
    <3>1. CASE Settled' = Settled /\ currentDistance' = currentDistance
      BY <3>1 DEF AtomicInv, NoFileLost, DistanceKnown
    <3>2. CASE \E a, b \in Position :
                 /\ 2 * SegmentLength(a, b) <= NumFiles
                 /\ Settled' = Reversed(Settled, a, b)
                 /\ currentDistance' = TourLength(Settled')
      BY <3>2, ReversedPermutation DEF AtomicInv, NoFileLost, DistanceKnown
    <3> QED BY <1>1, <1>2, <3>1, <3>2, StepAtomic
  <2>4. ListedLast'
    BY <1>2, StepUnlisted DEF ListedLast
  <2> QED BY <1>1, <2>1, <2>2, <2>3, <2>4 DEF AtomicInv
<1>3. CASE Finish
  <2>1. /\ order' = order /\ Settled' = Settled /\ currentDistance' = currentDistance
        /\ pc' = pc /\ n' = n /\ i0' = i0 /\ i1' = i1
    BY <1>3 DEF Finish, Settled
  <2>2. Permutation(order)
    BY <1>3, DoneSettled DEF Finish, AtomicInv, NoFileLost
  <2>3. output' \in [1 .. NumFiles -> File] /\ AllDone'
    BY <1>3, <2>1, <2>2, ListingType DEF Finish, AllDone
  <2> QED BY <1>1, <2>1, <2>3
          DEF AtomicInv, Halved, Twice, NoFileLost, DistanceKnown, ListedLast
<1>4. CASE UNCHANGED vars
  <2>1. /\ order' = order /\ Settled' = Settled /\ currentDistance' = currentDistance
        /\ pc' = pc /\ n' = n /\ i0' = i0 /\ i1' = i1 /\ output' = output
    BY <1>4 DEF vars, Settled
  <2> QED BY <1>1, <2>1
          DEF AtomicInv, Halved, Twice, NoFileLost, DistanceKnown, ListedLast, AllDone
<1> QED BY <1>2, <1>3, <1>4 DEF Next, Terminated

LEMMA AtomicInvHolds == Spec => []AtomicInv
<1>1. Init => AtomicInv
  BY InitAtomic
<1> QED BY <1>1, NextAtomic, PTL DEF Spec

\* Every variable has its type.
THEOREM OptimizeTypes == Spec => []TypeOK
<1>1. AtomicInv => TypeOK
  BY TourLengthType DEF AtomicInv, Inv, NoFileLost, DistanceKnown, ListedLast, TypeOK
<1> QED BY <1>1, AtomicInvHolds, PTL

\* assert(B->b_CurrentDistance == d) in binsort_genorder (binsort.c:614)
\* never fails, however many workers have added their deltas.
THEOREM DistanceSum == Spec => []DistanceAdds
<1>1. AtomicInv => DistanceAdds
  BY DoneSettled DEF AtomicInv, DistanceKnown, DistanceAdds
<1> QED BY <1>1, AtomicInvHolds, PTL

\* No file is lost or listed twice by the swaps of concurrent workers.
THEOREM AllFilesKept == Spec => [](AllDone => Permutation(order))
<1>1. AtomicInv => (AllDone => Permutation(order))
  BY DoneSettled DEF AtomicInv, NoFileLost
<1> QED BY <1>1, AtomicInvHolds, PTL

-----------------------------------------------------------------------------
\* The operators of the abstract specification are those of the detailed one.
LEMMA SameOperators ==
  /\ Atomic!Position = Position
  /\ \A tour : Atomic!TourLength(tour) = TourLength(tour)
  /\ \A tour, p : Atomic!EdgeAt(tour, p) = EdgeAt(tour, p)
  /\ \A a, b : Atomic!SegmentLength(a, b) = SegmentLength(a, b)
  /\ \A tour, a, b : Atomic!Reversed(tour, a, b) = Reversed(tour, a, b)
BY DEF Atomic!Position, Position, Atomic!TourLength, TourLength, Atomic!EdgeAt, EdgeAt,
       Atomic!Edge, Edge, Atomic!Succ, Succ, Atomic!SegmentLength, SegmentLength,
       Atomic!Offset, Offset, Atomic!Reversed, Reversed, Atomic!Inside, Inside,
       Atomic!Mirror, Mirror

\* The files are listed from the order all workers leave behind.
LEMMA FinishPublishes ==
  ASSUME AtomicInv, Finish
  PROVE  Atomic!Publish
<1>1. /\ Settled' = Settled /\ currentDistance' = currentDistance
      /\ Settled = order /\ Permutation(order)
  <2>1. Settled' = Settled /\ currentDistance' = currentDistance
    BY DEF Finish, Settled
  <2> QED BY <2>1, DoneSettled DEF Finish, AtomicInv, NoFileLost
<1>2. /\ StartPos(order) \in Position
      /\ \A p \in Position : EdgeAt(order, p) <= EdgeAt(order, StartPos(order))
      /\ output' = [k \in 1 .. NumFiles |-> order[(StartPos(order) + k) % NumFiles]]
  BY <1>1, StartsBehindLongest, ListingType DEF Finish
<1>3. output = <<>>
  BY DEF Finish
<1> QED BY <1>1, <1>2, <1>3, SameOperators DEF Atomic!Publish

\* However many workers swap at a time, together they do one reversal after
\* another, each in one step and with the right delta (binsort.c:658-796).
THEOREM Refinement == Spec => AtomicSpec
<1>1. Init => Atomic!Init
  <2> SUFFICES ASSUME Init PROVE Atomic!Init
    OBVIOUS
  <2>1. Settled = order /\ AtomicInv
    BY InitAtomic
  <2> QED BY <2>1, SameOperators DEF Atomic!Init, Init, AtomicInv, DistanceKnown
<1>2. AtomicInv /\ AtomicInv' /\ [Next]_vars => [Atomic!Next]_Atomic!vars
  <2> SUFFICES ASSUME AtomicInv, AtomicInv', [Next]_vars
               PROVE  [Atomic!Next]_Atomic!vars
    OBVIOUS
  <2>1. ASSUME NEW w \in Workers, Step(w) PROVE [Atomic!Next]_Atomic!vars
    <3>1. output = <<>> /\ output' = <<>>
      BY <2>1, StepUnlisted
    <3>2. CASE Settled' = Settled /\ currentDistance' = currentDistance
      BY <3>1, <3>2 DEF Atomic!vars
    <3>3. CASE \E a, b \in Position :
                 /\ 2 * SegmentLength(a, b) <= NumFiles
                 /\ Settled' = Reversed(Settled, a, b)
                 /\ currentDistance' = TourLength(Settled')
      BY <3>1, <3>3, SameOperators DEF Atomic!Next, Atomic!Reverse
    <3> QED BY <2>1, <3>2, <3>3, StepAtomic DEF AtomicInv
  <2>2. CASE Finish
    BY <2>2, FinishPublishes DEF Atomic!Next
  <2>3. CASE UNCHANGED vars
    BY <2>3 DEF vars, Atomic!vars, Settled
  <2> QED BY <2>1, <2>2, <2>3 DEF Next, Terminated
<1> QED BY <1>1, <1>2, AtomicInvHolds, PTL DEF Spec, AtomicSpec, Atomic!Spec
=============================================================================
