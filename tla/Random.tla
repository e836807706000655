------------------------------- MODULE Random -------------------------------
(***************************************************************************)
(* The random numbers of a worker (binsort.c, random_init and random_get): *)
(* a pool of twice the bits of a word, from which numbers are taken at the *)
(* low end, and into which another word is merged behind the bits that are *)
(* left when they are fewer than a word.  The generator (TinyMT) may       *)
(* return any word.                                                        *)
(***************************************************************************)
EXTENDS Integers, Sequences

CONSTANTS
  WordBits,  \* the bits of a word, 32 in the code
  Ranges     \* the ranges that random_init is called with

VARIABLES
  range,     \* rnd_NumRange
  pool,      \* rnd_RandPool, its bits by their places
  randbits,  \* rnd_RandBits, how many of them are still to be used
  number     \* what random_get has returned; NoNumber before that, and while
             \* its loop goes on

vars == <<range, pool, randbits, number>>

Bit == {0, 1}
Words == [1 .. WordBits -> Bit]
Places == 0 .. 2 * WordBits - 1

\* The loop of random_init: numbits for a range, when bitmask = 2 ^ numbits - 1.
BitMask(k) == 2 ^ k - 1
NumBits(r) ==
  CHOOSE k \in 1 .. WordBits :
    BitMask(k) >= r /\ \A j \in 1 .. k - 1 : BitMask(j) < r

\* A number of any of the ranges fits into a word.
ASSUME RandomAssumption ==
  /\ WordBits \in Nat \ {0}
  /\ \A r \in Ranges : r \in Nat \ {0} /\ NumBits(r) \in 1 .. WordBits

\* The bits that are left, as a sequence that begins with the next.
Unread == [k \in 1 .. randbits |-> pool[k - 1]]

Stream == INSTANCE BitStream WITH unread <- Unread, Width <- NumBits

-----------------------------------------------------------------------------
Init ==
  /\ range \in Ranges
  /\ pool = [b \in Places |-> 0]
  /\ randbits = 0
  /\ number = Stream!NoNumber

Or(a, b) == IF a = 1 THEN 1 ELSE b

\* The pool with a word merged in behind the bits that are left; it has no
\* place for what is shifted past its end.
MergedInFront(word) ==
  [b \in Places |-> IF b < WordBits THEN Or(pool[b], word[b + 1]) ELSE pool[b]]
Merged(word) ==
  [b \in Places |->
    IF b - randbits \in 0 .. WordBits - 1 THEN Or(pool[b], word[b - randbits + 1]) ELSE pool[b]]

\* The pool p shifted to the right by n bits.
Kept(p, n) == p
Shifted(p, n) == [b \in Places |-> IF b + n \in Places THEN p[b + n] ELSE 0]

Low(p, n) == [k \in 1 .. n |-> p[k - 1]]

\* A number is taken from the pool p of n bits.
TakeFrom(p, n) ==
  /\ number' = Stream!NumberBelow(range, Low(p, NumBits(range)))
  /\ pool' = Shifted(p, NumBits(range))
  /\ randbits' = n - NumBits(range)
  /\ UNCHANGED range

\* One round of the loop of random_get; after the last round a next call goes
\* on from what is left.
Few == randbits < WordBits

Refill == Few /\ \E word \in Words : TakeFrom(Merged(word), randbits + WordBits)
Take == ~Few /\ TakeFrom(pool, randbits)

Next == Refill \/ Take

Spec == Init /\ [][Next]_vars

-----------------------------------------------------------------------------
(* Properties.                                                             *)

\* Every variable holds a value of its kind: there are never fewer bits than a
\* number takes nor more than the pool has places for, and behind them the
\* pool is clean, as the next word is only or'ed into it.
TypeOK ==
  /\ range \in Ranges
  /\ pool \in [Places -> Bit]
  /\ randbits \in Places
  /\ \A b \in Places : b >= randbits => pool[b] = 0
  /\ number < range

\* The numbers are read off the stream of the generator's bits, none of which
\* is lost, used twice or spoilt by the merging of words (random_get).
ImplementsStream == Stream!Spec
=============================================================================
