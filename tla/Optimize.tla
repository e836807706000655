------------------------------ MODULE Optimize ------------------------------
(***************************************************************************)
(* binsort_genorder and the binsort_worker_optimize loops it starts, one   *)
(* per worker thread (binsort.c).                                          *)
(*                                                                         *)
(* Every worker draws a segment of the tour, and under b_Lock checks it    *)
(* against the segments other workers have in progress (b_RangeList),      *)
(* computes what its reversal would change, and accepts or rejects it.  A  *)
(* segment of two or three files is reversed under the lock.  Of a longer  *)
(* one only the ends are swapped under the lock; it is put on b_RangeList, *)
(* and the rest is swapped pair by pair with the lock released.            *)
(*                                                                         *)
(* A swap is t = order[i0]; order[i0] = order[i1]; order[i1] = t: the two  *)
(* writes are two steps.  Under the lock everything is one step, for the   *)
(* other workers touch order outside of it only in their own segments,     *)
(* which is what NoRace says.                                              *)
(***************************************************************************)
EXTENDS Tour, FiniteSets, Sequences

CONSTANTS
  Workers,        \* the worker threads, b_Workers
  NoWorker,       \* b_Lock is free
  NumIterations   \* om_NumIterations, pow(d, 1.1) * quality / numworkers

ASSUME OptimizeAssumption ==
  /\ NoWorker \notin Workers
  /\ NumIterations \in Nat

VARIABLES
  order,            \* b_Order
  currentDistance,  \* b_CurrentDistance
  rangeList,        \* b_RangeList: the workers whose rangelock is linked
  lock,             \* b_Lock: its holder
  output,           \* the files in the order they return to b_DirList
  pc,               \* where each worker is
  iter,             \* i of the outer loop
  i0, i1,           \* the segment, later the part still to be reversed
  n,                \* the length of the segment
  j,                \* i of the inner loop
  t,                \* the file taken out of order[i0]
  first, last       \* rangelock.rn_First, rangelock.rn_Last

shared == <<order, currentDistance, rangeList, lock, output>>
vars == <<order, currentDistance, rangeList, lock, output,
          pc, iter, i0, i1, n, j, t, first, last>>

InitialDistance == TourLength([p \in Position |-> p])

\* delta < thresh, where thresh = 20 D / i - 20 D * 1.1 / iterations, but at
\* least 0; multiplied out, so in integers.
Accept(delta, i) ==
  \/ delta < 0
  \/ 10 * NumIterations * i * delta
       < 20 * InitialDistance * (10 * NumIterations - 11 * i)

\* Swap the files at two positions.
Swapped(tour, a, b) == [tour EXCEPT ![a] = tour[b], ![b] = tour[a]]

AllClear(w) == \A v \in rangeList : Clear(i0[w], i1[w], first[v], last[v])

\* AddTail and Remove of a worker's range node; a list is what is on it, for
\* its order plays no part.
NoLink(list, w) == list
Link(list, w) == list \cup {w}
NoDrop(list, w) == list
Drop(list, w) == list \ {w}

\* i < n / 2, the condition of the inner loop.
MorePairsTo(k, length) == k <= length \div 2
MorePairs(k, length) == k < length \div 2

-----------------------------------------------------------------------------
Init ==
  /\ order = [p \in Position |-> p]
  /\ currentDistance = InitialDistance
  /\ rangeList = {}
  /\ lock = NoWorker
  /\ output = <<>>
  /\ pc = [w \in Workers |-> "again"]
  /\ iter = [w \in Workers |-> 1]
  /\ i0 = [w \in Workers |-> 0]
  /\ i1 = [w \in Workers |-> 0]
  /\ n = [w \in Workers |-> 0]
  /\ j = [w \in Workers |-> 0]
  /\ t = [w \in Workers |-> 0]
  /\ first = [w \in Workers |-> 0]
  /\ last = [w \in Workers |-> 0]

\* What the worker kept for its segment is dead when an iteration is over; to
\* have fewer states it is then forgotten.
Forget(w) ==
  /\ i0' = [i0 EXCEPT ![w] = 0]
  /\ i1' = [i1 EXCEPT ![w] = 0]
  /\ n' = [n EXCEPT ![w] = 0]
  /\ j' = [j EXCEPT ![w] = 0]
  /\ t' = [t EXCEPT ![w] = 0]
  /\ first' = [first EXCEPT ![w] = 0]
  /\ last' = [last EXCEPT ![w] = 0]

\* The draws touch only the worker's own state, so they are part of the step
\* that takes the lock; a draw that is drawn again is no step.
Lock(w) ==
  /\ pc[w] = "again"
  /\ iter[w] < NumIterations
  /\ lock = NoWorker
  /\ \E s \in Segments :
       /\ i0' = [i0 EXCEPT ![w] = s.i0]
       /\ i1' = [i1 EXCEPT ![w] = s.i1]
       /\ n' = [n EXCEPT ![w] = s.n]
  /\ lock' = w
  /\ pc' = [pc EXCEPT ![w] = "critical"]
  /\ UNCHANGED <<order, currentDistance, rangeList, output, iter, j, t, first, last>>

\* The segment meets one in progress: unlock and "goto again".
Retry(w) ==
  /\ pc[w] = "critical"
  /\ ~AllClear(w)
  /\ lock' = NoWorker
  /\ pc' = [pc EXCEPT ![w] = "again"]
  /\ Forget(w)
  /\ UNCHANGED <<order, currentDistance, rangeList, output, iter>>

Reject(w) ==
  /\ pc[w] = "critical"
  /\ AllClear(w)
  /\ ~Accept(Delta(order, i0[w], i1[w]), iter[w])
  /\ lock' = NoWorker
  /\ iter' = [iter EXCEPT ![w] = @ + 1]
  /\ pc' = [pc EXCEPT ![w] = "again"]
  /\ Forget(w)
  /\ UNCHANGED <<order, currentDistance, rangeList, output>>

\* What every accepted segment starts with, under the lock.
SwapEnds(w) ==
  LET delta == Delta(order, i0[w], i1[w])
  IN  /\ pc[w] = "critical"
      /\ AllClear(w)
      /\ Accept(delta, iter[w])
      /\ currentDistance' = currentDistance + delta
      /\ order' = Swapped(order, i0[w], i1[w])
      /\ lock' = NoWorker

ReverseShort(w) ==
  /\ SwapEnds(w)
  /\ n[w] <= 3
  /\ iter' = [iter EXCEPT ![w] = @ + 1]
  /\ pc' = [pc EXCEPT ![w] = "again"]
  /\ Forget(w)
  /\ UNCHANGED <<rangeList, output>>

ReverseLong(w) ==
  /\ SwapEnds(w)
  /\ n[w] > 3
  /\ first' = [first EXCEPT ![w] = i0[w]]
  /\ last' = [last EXCEPT ![w] = i1[w]]
  /\ rangeList' = Link(rangeList, w)
  /\ i0' = [i0 EXCEPT ![w] = Succ(@)]
  /\ i1' = [i1 EXCEPT ![w] = Pred(@)]
  /\ j' = [j EXCEPT ![w] = 1]
  /\ pc' = [pc EXCEPT ![w] = "swap"]
  /\ UNCHANGED <<output, iter, n, t>>

\* The two writes of one swap, without the lock.
SwapLeft(w) ==
  /\ pc[w] = "swap"
  /\ t' = [t EXCEPT ![w] = order[i0[w]]]
  /\ order' = [order EXCEPT ![i0[w]] = order[i1[w]]]
  /\ pc' = [pc EXCEPT ![w] = "swap2"]
  /\ UNCHANGED <<currentDistance, rangeList, lock, output,
                 iter, i0, i1, n, j, first, last>>

SwapRight(w) ==
  /\ pc[w] = "swap2"
  /\ order' = [order EXCEPT ![i1[w]] = t[w]]
  /\ i0' = [i0 EXCEPT ![w] = Succ(@)]
  /\ i1' = [i1 EXCEPT ![w] = Pred(@)]
  /\ j' = [j EXCEPT ![w] = @ + 1]
  /\ pc' = [pc EXCEPT ![w] = IF MorePairs(j[w] + 1, n[w]) THEN "swap" ELSE "relock"]
  /\ UNCHANGED <<currentDistance, rangeList, lock, output, iter, n, t, first, last>>

\* Lock, unlink rangelock, unlock.
Unlink(w) ==
  /\ pc[w] = "relock"
  /\ lock = NoWorker
  /\ rangeList' = Drop(rangeList, w)
  /\ iter' = [iter EXCEPT ![w] = @ + 1]
  /\ pc' = [pc EXCEPT ![w] = "again"]
  /\ Forget(w)
  /\ UNCHANGED <<order, currentDistance, lock, output>>

\* The loop is over and the message is replied to.
Exit(w) ==
  /\ pc[w] = "again"
  /\ iter[w] >= NumIterations
  /\ pc' = [pc EXCEPT ![w] = "done"]
  /\ UNCHANGED <<shared, iter, i0, i1, n, j, t, first, last>>

AllDone == \A w \in Workers : pc[w] = "done"

\* With all replies in, the main thread lists the files, beginning behind the
\* longest edge.
Finish ==
  /\ AllDone
  /\ output = <<>>
  /\ output' = Listing(order)
  /\ UNCHANGED <<order, currentDistance, rangeList, lock,
                 pc, iter, i0, i1, n, j, t, first, last>>

Terminated == output # <<>> /\ UNCHANGED vars

Step(w) ==
  \/ Lock(w) \/ Retry(w) \/ Reject(w) \/ ReverseShort(w) \/ ReverseLong(w)
  \/ SwapLeft(w) \/ SwapRight(w) \/ Unlink(w) \/ Exit(w)

Next == (\E w \in Workers : Step(w)) \/ Finish \/ Terminated

Spec == Init /\ [][Next]_vars

\* Every thread is scheduled for ever, which is weak fairness of its steps.
\* The mutex is not fair, but a worker that wants it again and again while it
\* is free gets it in the end: strong fairness of the two steps that lock it.
\* The draws are fair in that they produce a valid segment in the end.
Fairness ==
  /\ \A w \in Workers : WF_vars(Step(w)) /\ SF_vars(Lock(w)) /\ SF_vars(Unlink(w))
  /\ WF_vars(Finish)

FairSpec == Spec /\ Fairness
-----------------------------------------------------------------------------
(* Properties.                                                             *)

\* Every variable holds a value of its kind; apart from the two whose type
\* rests on order being a permutation.
StateType ==
  /\ order \in [Position -> File]
  /\ rangeList \subseteq Workers
  /\ lock \in Workers \cup {NoWorker}
  /\ pc \in [Workers -> {"again", "critical", "swap", "swap2", "relock", "done"}]
  /\ iter \in [Workers -> Nat \ {0}]
  /\ i0 \in [Workers -> Position] /\ i1 \in [Workers -> Position]
  /\ first \in [Workers -> Position] /\ last \in [Workers -> Position]
  /\ n \in [Workers -> 0 .. NumFiles] /\ j \in [Workers -> 0 .. NumFiles]
  /\ t \in [Workers -> File]

TypeOK ==
  /\ StateType
  /\ currentDistance \in Int
  /\ output = <<>> \/ output \in [1 .. NumFiles -> File]

\* No position is in two segments that are in progress: what the scan of
\* b_RangeList (binsort.c:728) is for.
RangesDisjoint ==
  \A v, w \in rangeList : v # w =>
    \A p \in Position :
      ~(Inside(p, first[v], last[v]) /\ Inside(p, first[w], last[w]))

\* What makes it so, with StateType: only the holder of b_Lock is in the critical
\* section, where n is the length of its segment; a range node is linked
\* exactly while its segment is in progress; and what is still to be swapped
\* is the linked segment without j positions at either end.
LockHeld == \A w \in Workers : pc[w] = "critical" <=> lock = w

LengthKnown ==
  \A w \in Workers : pc[w] = "critical" => n[w] = SegmentLength(i0[w], i1[w])

LinkedInProgress ==
  \A w \in Workers : w \in rangeList <=> pc[w] \in {"swap", "swap2", "relock"}

Remaining ==
  \A w \in Workers : pc[w] \in {"swap", "swap2"} =>
    /\ n[w] = SegmentLength(first[w], last[w])
    /\ 1 <= j[w] /\ 2 * j[w] + 2 <= n[w]
    /\ Offset(i0[w], first[w]) = j[w]
    /\ Offset(last[w], i1[w]) = j[w]

Inv ==
  StateType /\ LockHeld /\ LengthKnown /\ LinkedInProgress /\ Remaining /\ RangesDisjoint

\* The positions a worker reads or writes next under the lock, once it has
\* checked its segment, and those it writes outside of the lock.
LockedCells(w) ==
  IF pc[w] = "critical" /\ AllClear(w)
    THEN {i0[w], i1[w], Pred(i0[w]), Succ(i1[w])}
    ELSE {}
FreeCells(w) ==
  IF pc[w] \in {"swap", "swap2"}
    THEN {p \in Position : Inside(p, i0[w], i1[w])}
    ELSE {}

\* No data race on order: what one worker still writes without the lock,
\* no other worker writes, and none reads under the lock for its getdelta,
\* the two neighbours of the segment (binsort.c:721-724) included.
NoRace ==
  \A v, w \in Workers : v # w =>
    /\ FreeCells(v) \cap FreeCells(w) = {}
    /\ FreeCells(v) \cap LockedCells(w) = {}

\* assert(B->b_CurrentDistance == d) in binsort_genorder (binsort.c:614):
\* the sum of the workers' deltas is the length of the tour they leave behind.
DistanceAdds == AllDone => currentDistance = TourLength(order)

\* The order as it is when every segment in progress is finished.
Settled ==
  LET Ahead(p) == {w \in rangeList : /\ pc[w] \in {"swap", "swap2"}
                                     /\ Inside(p, i0[w], i1[w])}
  IN  [p \in Position |->
         IF Ahead(p) = {} THEN order[p]
         ELSE LET w == CHOOSE v \in Ahead(p) : TRUE
              IN  IF pc[w] = "swap2" /\ p = i1[w] THEN t[w]
                  ELSE order[Mirror(p, i0[w], i1[w])]]

\* The workers together implement indivisible reversals: the swaps of
\* concurrent workers lose no file, and every delta is the true difference of
\* two tours although other segments are half reversed when it is taken.
Atomic == INSTANCE AtomicReversal WITH order <- Settled
AtomicSpec == Atomic!Spec

\* Every worker ends and the files are listed: no set of segments in progress
\* makes the others draw again for ever (goto again, binsort.c:754).
Termination == <>(output # <<>>)
=============================================================================
