------------------------------ MODULE Simhash -------------------------------
(***************************************************************************)
(* The algorithms of the similarity hash (simhash.c).  The smallest        *)
(* checksums of a file are kept in a heap with the greatest on top, and in *)
(* a hash table that tells which are kept already.  Deleted entries of the *)
(* table are only marked; when a search finds no empty slot the table is   *)
(* built anew (gc).  What is kept becomes the list of the file's features, *)
(* and two lists are compared by walking both from their small ends.       *)
(***************************************************************************)
EXTENDS Integers, Sequences, FiniteSets

CONSTANTS
  NumFeatures,      \* SIMHASH_NFEATURE, 128 in the code
  SlotsPerFeature,  \* 7 in the code
  Checksums         \* the checksums that may come

ASSUME SimhashAssumption ==
  /\ NumFeatures \in Nat \ {0} /\ SlotsPerFeature \in Nat \ {0}
  /\ Checksums \subseteq Nat /\ IsFiniteSet(Checksums)

RangeOf(seq) == {seq[k] : k \in DOMAIN seq}

\* A loop: n rounds of a step, which leaves what is finished as it is.
Loop(step, x, n) ==
  LET at[k \in 0 .. n] == IF k = 0 THEN x ELSE step[at[k - 1]] IN at[n]

-----------------------------------------------------------------------------
(* The heap.  The children of i are 2 i and 2 i + 1, counting from 1.      *)

Exchange(h, a, b) == [h EXCEPT ![a] = h[b], ![b] = h[a]]

GreaterChild(h, i) ==
  IF 2 * i + 1 <= Len(h) /\ h[2 * i] <= h[2 * i + 1] THEN 2 * i + 1 ELSE 2 * i

\* A heap and the place that is out of order.
HeapAt == Seq(Checksums) \X Nat

OverChildren(h, i) == \A c \in {2 * i, 2 * i + 1} : c <= Len(h) => h[i] >= h[c]
Sink ==
  [s \in HeapAt |->
    LET h == s[1]
        i == s[2]
    IN  IF OverChildren(h, i) THEN s ELSE <<Exchange(h, i, GreaterChild(h, i)), GreaterChild(h, i)>>]
Downheap(h, i) == Loop(Sink, <<h, i>>, Len(h))[1]

UnderParent(h, i) == i = 1 \/ h[i \div 2] >= h[i]
Rise ==
  [s \in HeapAt |->
    LET h == s[1]
        i == s[2]
    IN  IF UnderParent(h, i) THEN s ELSE <<Exchange(h, i, i \div 2), i \div 2>>]
Upheap(h, i) == Loop(Rise, <<h, i>>, Len(h))[1]

HeapInsert(h, v) == Upheap(Append(h, v), Len(h) + 1)

\* What heap_extract_max leaves of the heap, when it returns its top.
WithoutTop(h) == Downheap(SubSeq([h EXCEPT ![1] = h[Len(h)]], 1, Len(h) - 1), 1)

HeapOver(h) == Len(h) > NumFeatures
HeapFull(h) == Len(h) = NumFeatures

-----------------------------------------------------------------------------
(* The hash table.                                                         *)

EMPTY == -1
DELETED == -2

\* next_pow2 doubles its result for each bit of n.
Doubling ==
  [s \in Nat \X Nat |-> IF s[1] = 0 THEN s ELSE <<s[1] \div 2, 2 * s[2]>>]
NextPow2(n) == Loop(Doubling, <<n, 1>>, n)[2]

NumSlots == NextPow2(SlotsPerFeature * NumFeatures)
Slot == 0 .. NumSlots - 1
Table == [Slot -> Checksums \cup {EMPTY, DELETED}]
EmptyTable == [s \in Slot |-> EMPTY]

\* The slots that are tried for a checksum, in their order.
EvenProbe(crc, k) == (crc + k * 2 * (NumSlots \div 4)) % NumSlots
Probe(crc, k) == (crc + k * (2 * (NumSlots \div 4) + 1)) % NumSlots

\* The first of them that holds one of the values, if there is any.
Tries(t, crc, values) == {k \in Slot : t[Probe(crc, k)] \in values}
FirstSlot(t, crc, values) ==
  LET tries == Tries(t, crc, values)
  IN  Probe(crc, CHOOSE k \in tries : \A l \in tries : k <= l)

\* do_hash_insert takes the first slot that is not FULL; it changes nothing
\* if the checksum is met before that, or if there is none.
DoInsert(t, crc) ==
  IF Tries(t, crc, {EMPTY, DELETED, crc}) = {} THEN t
  ELSE [t EXCEPT ![FirstSlot(t, crc, {EMPTY, DELETED, crc})] = crc]

\* gc goes through the slots of the old table.
Copying(t) ==
  [p \in Table \X Nat |->
    IF p[2] = NumSlots THEN p
    ELSE <<IF t[p[2]] \in Checksums THEN DoInsert(p[1], t[p[2]]) ELSE p[1], p[2] + 1>>]
Gc(t) == Loop(Copying(t), <<EmptyTable, 0>>, NumSlots)[1]

\* A search ends at an empty slot.  Where there is none and the checksum is
\* not met, the table is built anew, and searched again.
Searchable(t, crc) == Tries(t, crc, {EMPTY, crc}) # {}
Cleaned(t, crc) == IF Searchable(t, crc) THEN t ELSE Gc(t)
Contains(t, crc) ==
  Searchable(t, crc) /\ t[FirstSlot(t, crc, {EMPTY, crc})] = crc

\* hash_insert cleans the table when there is no slot to be had.
HashInsert(t, crc) ==
  DoInsert(IF Tries(t, crc, {EMPTY, DELETED, crc}) = {} THEN Gc(t) ELSE t, crc)

Emptied(t, s) == [t EXCEPT ![s] = EMPTY]
Marked(t, s) == [t EXCEPT ![s] = DELETED]
HashDelete(t, crc) ==
  LET u == Cleaned(t, crc)
  IN  IF Contains(u, crc) THEN Marked(u, FirstSlot(u, crc, {EMPTY, crc})) ELSE u

\* get_hashinfo takes the features off the heap, the greatest first.
Extraction == [h \in Seq(Checksums) |-> WithoutTop(h)]
Extracted(h) == [k \in 1 .. Len(h) |-> Loop(Extraction, h, k - 1)[1]]

-----------------------------------------------------------------------------
(* The score of two lists of features.                                     *)

\* The list with the smaller last feature goes on.
AheadGoesOn(x, y) == x > y
BehindGoesOn(x, y) == x < y

\* How far from the beginnings of the lists the walk is, and the matches.
Walking(f, g) ==
  [s \in Nat \X Nat \X Nat |->
    LET i == s[1]
        j == s[2]
        count == s[3]
    IN  IF i = 0 \/ j = 0 THEN s
        ELSE IF f[i] = g[j] THEN <<i - 1, j - 1, count + 1>>
        ELSE IF BehindGoesOn(f[i], g[j]) THEN <<i - 1, j, count>>
        ELSE <<i, j - 1, count>>]
MatchCount(f, g) == Loop(Walking(f, g), <<Len(f), Len(g), 0>>, Len(f) + Len(g))[3]

\* hashinfo_score, as the worker makes a distance of it.
Distance(f, g) ==
  LET count == IF Len(f) > Len(g) THEN Len(g) ELSE Len(f)
      matches == MatchCount(f, g)
  IN  255 - (255 * matches) \div (2 * count - matches)

-----------------------------------------------------------------------------
(* What is to be kept.                                                     *)

\* The smallest checksums of a set, NumFeatures if it has as many.
Smallest(set) ==
  {c \in set : Cardinality({d \in set : d < c}) < NumFeatures}

\* A set as a list that begins with its greatest.
Descending(set) ==
  LET At(k) == CHOOSE c \in set : Cardinality({d \in set : d > c}) = k - 1
  IN  [k \in 1 .. Cardinality(set) |-> At(k)]

\* The lists of features that files may have.
FeatureLists ==
  {Descending(set) : set \in {s \in SUBSET Checksums : Cardinality(s) \in 1 .. NumFeatures}}
=============================================================================
