----------------------------- MODULE BitStream ------------------------------
(***************************************************************************)
(* What a source of random numbers below range promises (binsort.c, struct *)
(* Random): the words of the generator are one stream of bits, and it is   *)
(* cut into pieces of the same width.  A piece that is a number below the  *)
(* range is the number drawn, any other is thrown away.  No bit is used    *)
(* twice and none is skipped, so that the numbers are as uniform and as    *)
(* independent as the bits are.                                            *)
(***************************************************************************)
EXTENDS Integers, Sequences

CONSTANTS
  Words,    \* what the generator may return, the lowest bit first
  Ranges,   \* the ranges numbers are drawn from
  Width(_)  \* the bits a number of a range takes

VARIABLES
  range,   \* numbers are drawn below it
  unread,  \* the bits of the stream that have come but are not used yet
  number   \* the last number drawn; NoNumber before the first, or when it
           \* was thrown away

vars == <<range, unread, number>>

NoNumber == -1

\* The number that a sequence of bits stands for.
ValueOf(bits) ==
  LET value[k \in 0 .. Len(bits)] ==
        IF k = 0 THEN 0 ELSE value[k - 1] + bits[k] * 2 ^ (k - 1)
  IN  value[Len(bits)]

NumberBelow(limit, bits) == IF ValueOf(bits) < limit THEN ValueOf(bits) ELSE NoNumber

Init ==
  /\ range \in Ranges
  /\ unread = <<>>
  /\ number = NoNumber

\* Words come as they are needed, the next bits of the stream are used.
Draw(more) ==
  LET bits == unread \o more
  IN  /\ Len(bits) >= Width(range)
      /\ number' = NumberBelow(range, SubSeq(bits, 1, Width(range)))
      /\ unread' = SubSeq(bits, Width(range) + 1, Len(bits))
      /\ UNCHANGED range

Next == \E more \in Words \cup {<<>>} : Draw(more)

Spec == Init /\ [][Next]_vars
=============================================================================
