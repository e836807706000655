---------------------------- MODULE RandomProofs ----------------------------
(***************************************************************************)
(* Random keeps its pool clean and implements BitStream, whatever the      *)
(* length of a word and whatever the ranges.                               *)
(***************************************************************************)
EXTENDS Random, SequenceTheorems, TLAPS

\* What the proofs need of a number's width.
LEMMA WidthFits ==
  ASSUME NEW r \in Ranges
  PROVE  NumBits(r) \in 1 .. WordBits
BY RandomAssumption

\* A pool p of n bits is clean if there is nothing behind them.
Clean(p, n) ==
  /\ p \in [Places -> Bit]
  /\ \A b \in Places : b >= n => p[b] = 0

\* A word merged in behind the bits of a clean pool leaves it clean.
LEMMA MergedClean ==
  ASSUME TypeOK, Few, NEW word \in Words
  PROVE  /\ Clean(Merged(word), randbits + WordBits)
         /\ randbits + WordBits \in WordBits .. 2 * WordBits - 1
<1> USE RandomAssumption DEF TypeOK, Few, Places, Bit, Words
<1>1. randbits + WordBits \in WordBits .. 2 * WordBits - 1
  OBVIOUS
<1>2. ASSUME NEW b \in Places PROVE Merged(word)[b] \in Bit
  <2>1. CASE b - randbits \in 0 .. WordBits - 1
    <3>1. b - randbits + 1 \in 1 .. WordBits
      BY <2>1
    <3>2. word[b - randbits + 1] \in Bit
      BY <3>1
    <3> QED BY <2>1, <3>2 DEF Merged, Or
  <2>2. CASE b - randbits \notin 0 .. WordBits - 1
    BY <2>2 DEF Merged
  <2> QED BY <2>1, <2>2
<1>3. ASSUME NEW b \in Places, b >= randbits + WordBits PROVE Merged(word)[b] = 0
  BY <1>3 DEF Merged
<1>4. Merged(word) \in [Places -> Bit]
  BY <1>2 DEF Merged
<1> QED BY <1>1, <1>3, <1>4 DEF Clean

\* Two sequences of bits, one behind the other.
LEMMA Behind ==
  ASSUME NEW m \in Nat, NEW n \in Nat, NEW s \in [1 .. m -> Bit], NEW u \in [1 .. n -> Bit]
  PROVE  /\ s \o u = [k \in 1 .. m + n |-> IF k <= m THEN s[k] ELSE u[k - m]]
         /\ Len(s \o u) = m + n
<1>1. s \in Seq(Bit) /\ Len(s) = m
  OBVIOUS
<1>2. u \in Seq(Bit) /\ Len(u) = n
  OBVIOUS
<1>3. /\ s \o u \in Seq(Bit)
      /\ Len(s \o u) = m + n
      /\ \A k \in 1 .. m + n : (s \o u)[k] = IF k <= m THEN s[k] ELSE u[k - m]
  BY <1>1, <1>2, ConcatProperties
<1>4. s \o u \in [1 .. m + n -> Bit]
  BY <1>3, LenProperties
<1> QED BY <1>3, <1>4

\* The bits of the stream, with those of a word behind those of the pool.
LEMMA MergedBits ==
  ASSUME TypeOK, Few, NEW word \in Words
  PROVE  Low(Merged(word), randbits + WordBits) = Unread \o word
<1> USE RandomAssumption DEF TypeOK, Few, Places
<1>1. Unread \in [1 .. randbits -> Bit]
  BY DEF Unread
<1>2. Unread \o word =
        [k \in 1 .. randbits + WordBits |-> IF k <= randbits THEN Unread[k] ELSE word[k - randbits]]
  <2>1. randbits \in Nat /\ WordBits \in Nat /\ word \in [1 .. WordBits -> Bit]
    BY DEF Words
  <2> QED BY ONLY <1>1, <2>1, Behind
<1>3. ASSUME NEW k \in 1 .. randbits + WordBits
      PROVE  Merged(word)[k - 1] = IF k <= randbits THEN Unread[k] ELSE word[k - randbits]
  <2>1. k - 1 \in Places
    OBVIOUS
  <2>2. CASE k <= randbits
    <3>1. ~(k - 1 - randbits \in 0 .. WordBits - 1)
      BY <2>2
    <3>2. Merged(word)[k - 1] = pool[k - 1]
      BY <2>1, <3>1 DEF Merged
    <3> QED BY <2>2, <3>2 DEF Unread
  <2>3. CASE k > randbits
    <3>1. k - 1 - randbits \in 0 .. WordBits - 1 /\ k - 1 - randbits + 1 = k - randbits
      BY <2>3
    <3>2. Merged(word)[k - 1] = Or(pool[k - 1], word[k - randbits])
      BY <2>1, <3>1 DEF Merged
    <3>3. pool[k - 1] = 0
      BY <2>1, <2>3
    <3> QED BY <2>3, <3>2, <3>3 DEF Or
  <2> QED BY <2>2, <2>3
<1> QED BY <1>2, <1>3 DEF Low

\* Taking a number off a clean pool of n bits is a draw from them.
LEMMA TakenBits ==
  ASSUME TypeOK, NEW p, NEW n \in WordBits .. 2 * WordBits - 1, Clean(p, n), TakeFrom(p, n)
  PROVE  /\ TypeOK'
         /\ Len(Low(p, n)) >= NumBits(range)
         /\ SubSeq(Low(p, n), 1, NumBits(range)) = Low(p, NumBits(range))
         /\ SubSeq(Low(p, n), NumBits(range) + 1, Len(Low(p, n))) = Unread'
<1> DEFINE w == NumBits(range)
           bits == Low(p, n)
<1>1. w \in 1 .. WordBits /\ range \in Nat /\ range' = range
  BY RandomAssumption DEF TypeOK, TakeFrom
<1>2. WordBits \in Nat \ {0}
  BY RandomAssumption
<1> HIDE DEF w
<1>3. randbits' = n - w /\ pool' = Shifted(p, w)
  BY DEF TakeFrom, w
<1>4. /\ bits = [k \in 1 .. n |-> p[k - 1]]
      /\ bits \in Seq(Bit) /\ Len(bits) = n
      /\ \A k \in 1 .. n : bits[k] = p[k - 1] /\ bits[k] \in Bit
  BY <1>2 DEF Low, Clean, Places
<1>5. n - w \in Places /\ n >= w
  BY <1>1, <1>2 DEF Places
<1>6. pool' \in [Places -> Bit]
  BY <1>3 DEF Shifted, Clean, Bit
<1>7. ASSUME NEW b \in Places, b >= n - w PROVE pool'[b] = 0
  <2>1. CASE b + w \in Places
    BY <1>1, <1>2, <1>3, <1>7, <2>1 DEF Shifted, Clean, Places
  <2>2. CASE b + w \notin Places
    BY <1>3, <2>2 DEF Shifted
  <2> QED BY <2>1, <2>2
<1>8. number' < range'
  BY <1>1 DEF TakeFrom, Stream!NumberBelow, Stream!NoNumber
<1>9. TypeOK'
  BY <1>1, <1>3, <1>5, <1>6, <1>7, <1>8 DEF TypeOK
<1>10. SubSeq(bits, 1, w) = Low(p, w)
  <2>1. /\ SubSeq(bits, 1, w) \in Seq(Bit)
        /\ Len(SubSeq(bits, 1, w)) = w
        /\ \A k \in 1 .. w : SubSeq(bits, 1, w)[k] = bits[k]
    BY ONLY <1>1, <1>4, <1>5, SubSeqProperties
  <2>2. Low(p, w) = [k \in 1 .. w |-> p[k - 1]]
    BY DEF Low
  <2>3. SubSeq(bits, 1, w) \in [1 .. w -> Bit]
    BY ONLY <1>1, <2>1, LenProperties
  <2> QED BY <1>1, <1>4, <1>5, <2>1, <2>2, <2>3
<1>11. SubSeq(bits, w + 1, n) = Unread'
  <2>1. /\ SubSeq(bits, w + 1, n) \in Seq(Bit)
        /\ Len(SubSeq(bits, w + 1, n)) = n - w
        /\ \A k \in 1 .. n - w : SubSeq(bits, w + 1, n)[k] = bits[k + w]
    BY ONLY <1>1, <1>4, <1>5, SubSeqProperties
  <2>2. Unread' = [k \in 1 .. n - w |-> pool'[k - 1]]
    BY <1>3 DEF Unread
  <2>3. SubSeq(bits, w + 1, n) \in [1 .. n - w -> Bit]
    BY ONLY <2>1, LenProperties
  <2>4. ASSUME NEW l \in w + 1 .. n PROVE pool'[l - w - 1] = bits[l]
    <3>1. l - w - 1 \in Places /\ l - w - 1 + w \in Places /\ l - w - 1 + w = l - 1
      BY <1>1, <1>2 DEF Places
    <3>2. pool'[l - w - 1] = p[l - 1]
      BY <1>3, <3>1 DEF Shifted
    <3>3. l \in 1 .. n
      BY <1>1
    <3> QED BY <1>4, <3>2, <3>3
  <2>5. ASSUME NEW k \in 1 .. n - w PROVE pool'[k - 1] = bits[k + w]
    <3>1. k + w \in w + 1 .. n /\ k + w - w - 1 = k - 1
      BY <1>1
    <3> QED BY <1>1, <1>2, <2>4, <3>1
  <2> QED BY <2>1, <2>2, <2>3, <2>5
<1> QED BY <1>1, <1>4, <1>5, <1>9, <1>10, <1>11 DEF w

\* With an empty pool no bit of the stream has come.
LEMMA InitStream == Init => TypeOK /\ Stream!Init
<1> SUFFICES ASSUME Init PROVE TypeOK /\ Stream!Init
  OBVIOUS
<1>1. TypeOK
  BY RandomAssumption DEF Init, TypeOK, Places, Bit, Stream!NoNumber
<1>2. Unread = <<>>
  BY DEF Init, Unread
<1> QED BY <1>1, <1>2 DEF Init, Stream!Init

\* A round of random_get is a draw from the stream.
LEMMA StepStream ==
  ASSUME TypeOK, Next
  PROVE  TypeOK' /\ Stream!Next
<1>1. CASE Refill
  <2>1. PICK word \in Words : Few /\ TakeFrom(Merged(word), randbits + WordBits)
    BY <1>1 DEF Refill
  <2>2. /\ Clean(Merged(word), randbits + WordBits)
        /\ randbits + WordBits \in WordBits .. 2 * WordBits - 1
    BY <2>1, MergedClean
  <2>3. Low(Merged(word), randbits + WordBits) = Unread \o word
    BY <2>1, MergedBits
  <2>4. /\ TypeOK'
        /\ Len(Unread \o word) >= NumBits(range)
        /\ SubSeq(Unread \o word, 1, NumBits(range)) = Low(Merged(word), NumBits(range))
        /\ SubSeq(Unread \o word, NumBits(range) + 1, Len(Unread \o word)) = Unread'
    BY <2>1, <2>2, <2>3, TakenBits
  <2>5. Stream!Draw(word)
    BY <2>1, <2>4 DEF Stream!Draw, TakeFrom
  <2> QED BY <2>4, <2>5 DEF Stream!Next
<1>2. CASE Take
  <2>1. ~Few /\ TakeFrom(pool, randbits)
    BY <1>2 DEF Take
  <2>2. /\ Clean(pool, randbits)
        /\ randbits \in WordBits .. 2 * WordBits - 1
    BY <2>1, RandomAssumption DEF TypeOK, Clean, Few, Places
  <2>3. Low(pool, randbits) = Unread
    BY DEF Low, Unread
  <2>4. Unread \in Seq(Bit)
    BY <2>2, RandomAssumption DEF Unread, TypeOK, Places
  <2>5. Unread \o <<>> = Unread
    BY ONLY <2>4, ConcatEmptySeq
  <2>6. /\ TypeOK'
        /\ Len(Unread) >= NumBits(range)
        /\ SubSeq(Unread, 1, NumBits(range)) = Low(pool, NumBits(range))
        /\ SubSeq(Unread, NumBits(range) + 1, Len(Unread)) = Unread'
    BY <2>1, <2>2, <2>3, TakenBits
  <2>7. Stream!Draw(<<>>)
    BY <2>1, <2>5, <2>6 DEF Stream!Draw, TakeFrom
  <2> QED BY <2>6, <2>7 DEF Stream!Next
<1> QED BY <1>1, <1>2 DEF Next

\* The pool never has fewer bits than a number takes nor more than places, and
\* is clean behind them (random_get, binsort.c:519-541).
THEOREM PoolClean == Spec => []TypeOK
<1>1. Init => TypeOK
  BY InitStream
<1>2. TypeOK /\ [Next]_vars => TypeOK'
  <2>1. ASSUME TypeOK, UNCHANGED vars PROVE TypeOK'
    BY <2>1 DEF TypeOK, vars
  <2> QED BY <2>1, StepStream
<1> QED BY <1>1, <1>2, PTL DEF Spec

\* The numbers are read off the bits of the generator, each of them used once
\* and in order, for words of any length and any range that fits into one.
THEOREM ReadsStream == Spec => ImplementsStream
<1>1. Init => Stream!Init
  BY InitStream
<1>2. TypeOK /\ [Next]_vars => [Stream!Next]_(Stream!vars)
  <2>1. ASSUME UNCHANGED vars PROVE UNCHANGED Stream!vars
    BY <2>1 DEF vars, Stream!vars, Unread
  <2> QED BY <2>1, StepStream
<1> QED BY <1>1, <1>2, PoolClean, PTL DEF Spec, ImplementsStream, Stream!Spec
=============================================================================
