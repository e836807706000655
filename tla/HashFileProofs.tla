--------------------------- MODULE HashFileProofs ---------------------------
(***************************************************************************)
(* Theorems about Simhash and HashFile: for any checksums, any number of   *)
(* features and any file, what the heap and the hash table keep, what the  *)
(* comparison of two lists counts, and that all memory is given back.      *)
(***************************************************************************)
EXTENDS HashFile, FiniteSetTheorems, SequenceTheorems, WellFoundedInduction, TLAPS

-----------------------------------------------------------------------------
(* Loops.                                                                  *)

\* A set of natural numbers has a least one: what every induction rests on.
LEMMA LeastNatural ==
  ASSUME NEW T, T \subseteq Nat, T # {}
  PROVE  \E m \in T : \A k \in T : m <= k
<1>1. PICK m \in T : \A k \in T : <<k, m>> \notin OpToRel(<, Nat)
  BY NatLessThanWellFounded, WFMin
<1>2. \A k \in T : ~ (k < m)
  BY <1>1 DEF OpToRel
<1> QED BY <1>2

\* What the rounds of a loop yield.
Rounds(at, step, x, n) == at = [k \in 0 .. n |-> IF k = 0 THEN x ELSE step[at[k - 1]]]

LEMMA RoundsExist ==
  ASSUME NEW step, NEW x, NEW n \in Nat
  PROVE  \E at : Rounds(at, step, x, n)
<1> DEFINE T == {k \in Nat : ~ \E at : Rounds(at, step, x, k)}
<1> SUFFICES ASSUME T # {} PROVE FALSE
  OBVIOUS
<1>1. T \subseteq Nat
  OBVIOUS
<1> HIDE DEF T
<1>2. PICK k \in T : \A l \in T : k <= l
  BY <1>1, LeastNatural
<1>3. k \in Nat /\ ~ \E at : Rounds(at, step, x, k)
  BY <1>2 DEF T
<1>4. k # 0
  <2> DEFINE at == [l \in 0 .. 0 |-> x]
  <2>1. at = [l \in 0 .. 0 |-> IF l = 0 THEN x ELSE step[at[l - 1]]]
    OBVIOUS
  <2> HIDE DEF at
  <2>2. Rounds(at, step, x, 0)
    BY <2>1 DEF Rounds
  <2> QED BY <1>3, <2>2
<1>5. k - 1 \in Nat /\ k - 1 \notin T
  BY <1>2, <1>3, <1>4
<1>6. PICK d : Rounds(d, step, x, k - 1)
  BY <1>5 DEF T
<1> DEFINE at == [l \in 0 .. k |-> IF l = 0 THEN x ELSE step[d[l - 1]]]
<1>7. \A l \in 0 .. k - 1 : d[l] = IF l = 0 THEN x ELSE step[d[l - 1]]
  BY <1>6 DEF Rounds
<1>8. \A l \in 0 .. k - 1 : at[l] = d[l]
  BY <1>3, <1>7
<1>9. \A l \in 0 .. k : l # 0 => step[d[l - 1]] = step[at[l - 1]]
  <2> TAKE l \in 0 .. k
  <2> HAVE l # 0
  <2>1. l - 1 \in 0 .. k - 1
    BY <1>3
  <2>2. at[l - 1] = d[l - 1]
    BY <1>8, <2>1
  <2> QED BY <2>2
<1>10. at = [l \in 0 .. k |-> IF l = 0 THEN x ELSE step[at[l - 1]]]
  BY <1>9
<1> HIDE DEF at
<1>11. Rounds(at, step, x, k)
  BY <1>10 DEF Rounds
<1> QED BY <1>3, <1>11

\* Each round is a step.
LEMMA LoopStep ==
  ASSUME NEW step, NEW x
  PROVE  /\ Loop(step, x, 0) = x
         /\ \A n \in Nat : Loop(step, x, n + 1) = step[Loop(step, x, n)]
<1> DEFINE at(n) == CHOOSE d : Rounds(d, step, x, n)
<1>1. \A n \in Nat : Rounds(at(n), step, x, n)
  BY RoundsExist
<1>2. \A n : Loop(step, x, n) = at(n)[n]
  BY DEF Loop, Rounds
<1> HIDE DEF at
<1>3. \A n \in Nat : at(n)[0] = x /\ \A k \in 0 .. n : k # 0 => at(n)[k] = step[at(n)[k - 1]]
  BY <1>1 DEF Rounds
<1>4. ASSUME NEW n \in Nat PROVE at(n + 1)[n] = at(n)[n]
  <2> DEFINE T == {k \in Nat : k <= n /\ at(n + 1)[k] # at(n)[k]}
  <2> SUFFICES ASSUME T # {} PROVE FALSE
    BY <1>4
  <2>1. T \subseteq Nat
    OBVIOUS
  <2> HIDE DEF T
  <2>2. PICK k \in T : \A l \in T : k <= l
    BY <2>1, LeastNatural
  <2>3. k \in Nat /\ k <= n /\ at(n + 1)[k] # at(n)[k]
    BY <2>2 DEF T
  <2>4. n + 1 \in Nat
    OBVIOUS
  <2>5. k # 0
    BY <1>3, <2>3, <2>4
  <2>6. k - 1 \in Nat /\ k - 1 <= n /\ k - 1 \notin T
    BY <2>2, <2>3, <2>5
  <2>7. at(n + 1)[k - 1] = at(n)[k - 1]
    BY <2>6 DEF T
  <2>8. k \in 0 .. n /\ k \in 0 .. n + 1
    BY <2>3
  <2>9. at(n + 1)[k] = step[at(n + 1)[k - 1]] /\ at(n)[k] = step[at(n)[k - 1]]
    BY <1>3, <2>4, <2>5, <2>8
  <2> QED BY <2>3, <2>7, <2>9
<1>5. Loop(step, x, 0) = x
  BY <1>2, <1>3
<1>6. ASSUME NEW n \in Nat PROVE Loop(step, x, n + 1) = step[Loop(step, x, n)]
  <2>1. n + 1 \in Nat /\ n + 1 \in 0 .. n + 1 /\ n + 1 # 0 /\ (n + 1) - 1 = n
    OBVIOUS
  <2>2. at(n + 1)[n + 1] = step[at(n + 1)[n]]
    BY <1>3, <2>1
  <2> QED BY <1>2, <1>4, <2>2
<1> QED BY <1>5, <1>6

\* What every step keeps the loop keeps.
LEMMA LoopKeeps ==
  ASSUME NEW step, NEW I, NEW x \in I, \A y \in I : step[y] \in I
  PROVE  \A n \in Nat : Loop(step, x, n) \in I
<1> DEFINE T == {n \in Nat : Loop(step, x, n) \notin I}
<1> SUFFICES ASSUME T # {} PROVE FALSE
  OBVIOUS
<1>1. T \subseteq Nat
  OBVIOUS
<1> HIDE DEF T
<1>2. PICK n \in T : \A l \in T : n <= l
  BY <1>1, LeastNatural
<1>3. n \in Nat /\ Loop(step, x, n) \notin I
  BY <1>2 DEF T
<1>4. n # 0
  BY <1>3, LoopStep
<1>5. n - 1 \in Nat /\ n - 1 \notin T /\ (n - 1) + 1 = n
  BY <1>2, <1>3, <1>4
<1>6. Loop(step, x, n - 1) \in I
  BY <1>5 DEF T
<1>7. Loop(step, x, (n - 1) + 1) = step[Loop(step, x, n - 1)]
  BY <1>5, LoopStep
<1> QED BY <1>3, <1>5, <1>6, <1>7

\* With enough rounds the loop comes to its end, where a step changes nothing.
LEMMA LoopEnds ==
  ASSUME NEW step, NEW I, NEW x \in I, \A y \in I : step[y] \in I,
         NEW left \in [I -> Nat], \A y \in I : step[y] = y \/ left[step[y]] < left[y],
         NEW n \in Nat, left[x] <= n
  PROVE  step[Loop(step, x, n)] = Loop(step, x, n)
<1> DEFINE at(k) == Loop(step, x, k)
<1>0. \A k \in Nat : at(k) \in I
  BY LoopKeeps
<1>1. at(0) = x /\ \A k \in Nat : at(k + 1) = step[at(k)]
  BY LoopStep
<1>t. \A k \in Nat : left[at(k)] \in Nat
  BY <1>0
<1> HIDE DEF at
<1> SUFFICES ASSUME step[at(n)] # at(n) PROVE FALSE
  BY DEF at
<1>2. ASSUME NEW k \in Nat, k < n, step[at(k + 1)] # at(k + 1) PROVE step[at(k)] # at(k)
  BY <1>1, <1>2
<1> DEFINE T == {k \in Nat : k <= n /\ (step[at(k)] = at(k) \/ left[at(k)] + k > left[x])}
<1>3. T = {}
  <2> SUFFICES ASSUME T # {} PROVE FALSE
    OBVIOUS
  <2>1. \A k \in Nat : k <= n => step[at(k)] # at(k)
    <3> DEFINE U == {m \in Nat : m <= n /\ step[at(n - m)] = at(n - m)}
    <3> SUFFICES ASSUME U # {} PROVE FALSE
      <4> SUFFICES ASSUME NEW k \in Nat, k <= n, step[at(k)] = at(k) PROVE n - k \in U
        OBVIOUS
      <4>1. n - k \in Nat /\ n - k <= n /\ n - (n - k) = k
        OBVIOUS
      <4> QED BY <4>1
    <3>1. U \subseteq Nat
      OBVIOUS
    <3> HIDE DEF U
    <3>2. PICK m \in U : \A l \in U : m <= l
      BY <3>1, LeastNatural
    <3>3. m \in Nat /\ m <= n /\ step[at(n - m)] = at(n - m)
      BY <3>2 DEF U
    <3>4. m # 0
      BY <3>3
    <3>5. m - 1 \in Nat /\ m - 1 <= n /\ m - 1 \notin U /\ n - (m - 1) = (n - m) + 1 /\ n - m \in Nat /\ n - m < n
      BY <3>2, <3>3, <3>4
    <3>6. step[at((n - m) + 1)] # at((n - m) + 1)
      BY <3>5 DEF U
    <3> QED BY <1>2, <3>3, <3>5, <3>6
  <2>2. T \subseteq Nat
    OBVIOUS
  <2> HIDE DEF T
  <2>3. PICK k \in T : \A l \in T : k <= l
    BY <2>2, LeastNatural
  <2>4. k \in Nat /\ k <= n /\ left[at(k)] + k > left[x]
    BY <2>1, <2>3 DEF T
  <2>5. left[x] \in Nat
    OBVIOUS
  <2>6. k # 0
    BY <1>1, <2>4, <2>5
  <2>7. k - 1 \in Nat /\ k - 1 <= n /\ k - 1 \notin T /\ (k - 1) + 1 = k
    BY <2>3, <2>4, <2>6
  <2>8. left[at(k - 1)] + (k - 1) <= left[x]
    BY <1>t, <2>5, <2>7 DEF T
  <2>9. step[at(k - 1)] # at(k - 1) /\ at(k) = step[at(k - 1)] /\ at(k - 1) \in I
    BY <1>0, <1>1, <2>1, <2>7
  <2>10. left[at(k)] < left[at(k - 1)]
    BY <2>9
  <2>11. left[at(k)] \in Nat /\ left[at(k - 1)] \in Nat
    BY <1>t, <2>4, <2>7
  <2> QED BY <2>4, <2>5, <2>7, <2>8, <2>10, <2>11
<1>4. n \in Nat /\ n <= n /\ n \notin T
  BY <1>3
<1>5. left[at(n)] + n <= left[x]
  <2>1. left[at(n)] \in Nat /\ left[x] \in Nat
    BY <1>t
  <2> QED BY <1>4, <2>1
<1>6. left[at(n)] = 0
  BY <1>5, <1>t
<1>7. left[step[at(n)]] < left[at(n)] /\ step[at(n)] \in I
  BY <1>0
<1>8. left[step[at(n)]] \in Nat
  BY <1>7
<1> QED BY <1>6, <1>7, <1>8

-----------------------------------------------------------------------------
(* The heap.                                                               *)

\* No value twice, and no child greater than its parent.
Distinct(h) == \A a, b \in 1 .. Len(h) : h[a] = h[b] => a = b
Heap(h) == \A k \in 2 .. Len(h) : h[k \div 2] >= h[k]

LEMMA Half ==
  ASSUME NEW k \in Nat, k >= 2
  PROVE  k \div 2 \in Nat /\ 1 <= k \div 2 /\ k \div 2 < k /\ (k = 2 * (k \div 2) \/ k = 2 * (k \div 2) + 1)
OBVIOUS

LEMMA HalfOfChild ==
  ASSUME NEW q \in Nat, q >= 1
  PROVE  (2 * q) \div 2 = q /\ (2 * q + 1) \div 2 = q
OBVIOUS

\* The members of a heap are numbers.
LEMMA HeapValues ==
  ASSUME NEW h \in Seq(Checksums)
  PROVE  /\ Len(h) \in Nat
         /\ \A k \in 1 .. Len(h) : h[k] \in Checksums /\ h[k] \in Nat
         /\ RangeOf(h) = {h[k] : k \in 1 .. Len(h)} /\ RangeOf(h) \subseteq Checksums
<1>1. Checksums \subseteq Nat
  BY SimhashAssumption
<1>2. Len(h) \in Nat /\ \A k \in 1 .. Len(h) : h[k] \in Checksums
  OBVIOUS
<1>3. DOMAIN h = 1 .. Len(h)
  OBVIOUS
<1>4. RangeOf(h) = {h[k] : k \in 1 .. Len(h)}
  BY <1>3 DEF RangeOf
<1> QED BY <1>1, <1>2, <1>4

\* The top of a heap is the greatest.
LEMMA TopIsGreatest ==
  ASSUME NEW h \in Seq(Checksums), Heap(h)
  PROVE  \A k \in 1 .. Len(h) : h[1] >= h[k]
<1> DEFINE T == {k \in 1 .. Len(h) : ~ (h[1] >= h[k])}
<1> SUFFICES ASSUME T # {} PROVE FALSE
  OBVIOUS
<1>1. T \subseteq Nat
  OBVIOUS
<1> HIDE DEF T
<1>2. PICK k \in T : \A l \in T : k <= l
  BY <1>1, LeastNatural
<1>3. k \in 1 .. Len(h) /\ ~ (h[1] >= h[k])
  BY <1>2 DEF T
<1>4. \A l \in 1 .. Len(h) : h[l] \in Nat
  BY HeapValues
<1>5. k >= 2 /\ k \in Nat /\ 1 \in 1 .. Len(h)
  BY <1>3, <1>4
<1>6. k \div 2 \in 1 .. Len(h) /\ k \div 2 < k
  BY <1>3, <1>5, Half
<1>7. h[1] >= h[k \div 2]
  <2>1. k \div 2 \notin T
    BY <1>1, <1>2, <1>6
  <2> QED BY <1>6, <2>1 DEF T
<1>8. h[k \div 2] >= h[k]
  BY <1>3, <1>5 DEF Heap
<1>9. h[1] \in Nat /\ h[k] \in Nat /\ h[k \div 2] \in Nat
  BY <1>3, <1>4, <1>5, <1>6
<1> QED BY <1>3, <1>7, <1>8, <1>9

\* An exchange of two moves nothing else.
LEMMA Exchanged ==
  ASSUME NEW h \in Seq(Checksums), NEW a \in 1 .. Len(h), NEW b \in 1 .. Len(h), a # b
  PROVE  LET e == Exchange(h, a, b)
         IN  /\ e \in Seq(Checksums) /\ Len(e) = Len(h)
             /\ e[a] = h[b] /\ e[b] = h[a]
             /\ \A k \in 1 .. Len(h) : k # a /\ k # b => e[k] = h[k]
             /\ RangeOf(e) = RangeOf(h)
             /\ Distinct(h) => Distinct(e)
<1> DEFINE e == Exchange(h, a, b)
<1>1. \A k \in 1 .. Len(h) : h[k] \in Checksums
  BY HeapValues
<1>2. e = [k \in 1 .. Len(h) |-> IF k = b THEN h[a] ELSE IF k = a THEN h[b] ELSE h[k]]
  BY DEF Exchange
<1>3. e \in Seq(Checksums) /\ Len(e) = Len(h)
  <2>1. e \in [1 .. Len(h) -> Checksums]
    BY <1>1, <1>2
  <2>2. Len(h) \in Nat
    OBVIOUS
  <2> QED BY <2>1, <2>2, SeqDef
<1>4. e[a] = h[b] /\ e[b] = h[a] /\ \A k \in 1 .. Len(h) : k # a /\ k # b => e[k] = h[k]
  BY <1>2
<1> HIDE DEF e
<1>5. RangeOf(e) = {e[k] : k \in 1 .. Len(h)} /\ RangeOf(h) = {h[k] : k \in 1 .. Len(h)}
  BY <1>3, HeapValues
<1>6. RangeOf(e) \subseteq RangeOf(h)
  BY <1>4, <1>5
<1>7. RangeOf(h) \subseteq RangeOf(e)
  <2> SUFFICES ASSUME NEW k \in 1 .. Len(h) PROVE \E l \in 1 .. Len(h) : e[l] = h[k]
    BY <1>5
  <2>1. CASE k = a
    BY <1>4, <2>1
  <2>2. CASE k = b
    BY <1>4, <2>2
  <2>3. CASE k # a /\ k # b
    BY <1>4, <2>3
  <2> QED BY <2>1, <2>2, <2>3
<1>8. Distinct(h) => Distinct(e)
  <2> SUFFICES ASSUME Distinct(h), NEW k \in 1 .. Len(h), NEW l \in 1 .. Len(h), e[k] = e[l] PROVE k = l
    BY <1>3 DEF Distinct
  <2> QED BY <1>4 DEF Distinct
<1> QED BY <1>3, <1>4, <1>6, <1>7, <1>8 DEF e

\* What is on the heap stays on it while one of its members goes up or down.
Same(h, g) ==
  /\ g \in Seq(Checksums) /\ Len(g) = Len(h)
  /\ RangeOf(g) = RangeOf(h) /\ Distinct(g)

\* A heap but for the children of q, which are not greater than its parent.
SinkOrder(h, q) ==
  \A k \in 2 .. Len(h) :
    /\ k \div 2 # q => h[k \div 2] >= h[k]
    /\ k \div 2 = q /\ q > 1 => h[q \div 2] >= h[k]

LEMMA SinkStep ==
  ASSUME NEW h \in Seq(Checksums), NEW q \in 1 .. Len(h), Distinct(h), SinkOrder(h, q),
         ~OverChildren(h, q)
  PROVE  LET c == GreaterChild(h, q)
             e == Exchange(h, q, c)
         IN  c \in 1 .. Len(h) /\ c > q /\ Same(h, e) /\ SinkOrder(e, c)
<1> DEFINE c == GreaterChild(h, q)
           e == Exchange(h, q, c)
<1>n. Len(h) \in Nat /\ q \in Nat /\ q >= 1 /\ q <= Len(h)
  OBVIOUS
<1>v. \A k \in 1 .. Len(h) : h[k] \in Nat
  BY HeapValues
<1>1. PICK d \in {2 * q, 2 * q + 1} : d <= Len(h) /\ ~ (h[q] >= h[d])
  BY DEF OverChildren
<1>2. /\ c \in {2 * q, 2 * q + 1} /\ c \in 1 .. Len(h) /\ c > q
      /\ \A k \in {2 * q, 2 * q + 1} : k <= Len(h) => h[c] >= h[k]
  <2>1. 2 * q \in 1 .. Len(h) /\ h[2 * q] \in Nat
    BY <1>n, <1>v, <1>1
  <2>2. CASE 2 * q + 1 <= Len(h) /\ h[2 * q] <= h[2 * q + 1]
    <3>1. c = 2 * q + 1
      BY <2>2 DEF GreaterChild
    <3>2. 2 * q + 1 \in 1 .. Len(h) /\ h[2 * q + 1] \in Nat
      BY <1>n, <1>v, <2>2
    <3> QED BY <1>n, <2>1, <2>2, <3>1, <3>2
  <2>3. CASE ~ (2 * q + 1 <= Len(h) /\ h[2 * q] <= h[2 * q + 1])
    <3>1. c = 2 * q
      BY <2>3 DEF GreaterChild
    <3>2. 2 * q + 1 <= Len(h) => h[2 * q + 1] \in Nat /\ h[2 * q] >= h[2 * q + 1]
      <4> SUFFICES ASSUME 2 * q + 1 <= Len(h) PROVE h[2 * q + 1] \in Nat /\ h[2 * q] >= h[2 * q + 1]
        OBVIOUS
      <4>1. h[2 * q + 1] \in Nat
        BY <1>n, <1>v
      <4> QED BY <2>1, <2>3, <4>1
    <3> QED BY <1>n, <2>1, <3>1, <3>2
  <2> QED BY <2>2, <2>3
<1>3. h[c] > h[q] /\ h[q] \in Nat /\ h[c] \in Nat
  <2>1. d \in 1 .. Len(h)
    BY <1>n, <1>1
  <2>2. h[d] \in Nat /\ h[q] \in Nat /\ h[c] \in Nat
    BY <1>v, <1>2, <2>1
  <2>3. h[c] >= h[d]
    BY <1>1, <1>2
  <2> QED BY <1>1, <2>2, <2>3
<1> HIDE DEF c
<1>4. /\ e \in Seq(Checksums) /\ Len(e) = Len(h) /\ e[q] = h[c] /\ e[c] = h[q]
      /\ \A k \in 1 .. Len(h) : k # q /\ k # c => e[k] = h[k]
      /\ RangeOf(e) = RangeOf(h) /\ Distinct(e)
  <2>1. c # q
    BY <1>2
  <2> QED BY <1>2, <2>1, Exchanged
<1> HIDE DEF e
<1>5. SinkOrder(e, c)
  <2> SUFFICES ASSUME NEW k \in 2 .. Len(h)
               PROVE  /\ k \div 2 # c => e[k \div 2] >= e[k]
                      /\ k \div 2 = c /\ c > 1 => e[c \div 2] >= e[k]
    BY <1>4 DEF SinkOrder
  <2>1. /\ k \in Nat /\ k \in 1 .. Len(h) /\ k \div 2 \in 1 .. Len(h) /\ k \div 2 < k
        /\ k = 2 * (k \div 2) \/ k = 2 * (k \div 2) + 1
    BY <1>n, Half
  <2>2. h[k] \in Nat /\ h[k \div 2] \in Nat
    BY <1>v, <2>1
  <2>3. k \div 2 # q => h[k \div 2] >= h[k]
    BY DEF SinkOrder
  <2>4. k \div 2 = q => h[c] >= h[k]
    BY <1>2, <2>1
  <2>5. c \div 2 = q
    BY <1>n, <1>2, HalfOfChild
  <2>6. ASSUME k \div 2 # c PROVE e[k \div 2] >= e[k]
    <3>1. CASE k = c
      BY <1>3, <1>4, <2>5, <3>1
    <3>2. CASE k = q
      <4>1. c \in 2 .. Len(h) /\ c \div 2 = q /\ q > 1
        BY <1>n, <1>2, <2>5, <3>2
      <4>2. h[q \div 2] >= h[c]
        BY <4>1 DEF SinkOrder
      <4>3. e[k \div 2] = h[k \div 2]
        <5>1. k \div 2 # q /\ k \div 2 \in 1 .. Len(h)
          BY <2>1, <3>2
        <5> QED BY <1>4, <2>6, <5>1
      <4> QED BY <1>4, <3>2, <4>2, <4>3
    <3>3. CASE k # c /\ k # q
      <4>1. e[k] = h[k]
        BY <1>4, <2>1, <3>3
      <4>2. CASE k \div 2 = q
        BY <1>4, <2>4, <4>1, <4>2
      <4>3. CASE k \div 2 # q
        BY <1>4, <2>1, <2>3, <2>6, <4>1, <4>3
      <4> QED BY <4>2, <4>3
    <3> QED BY <3>1, <3>2, <3>3
  <2>7. ASSUME k \div 2 = c PROVE e[c \div 2] >= e[k]
    <3>1. k # c /\ k # q /\ c # q
      BY <1>2, <2>1, <2>7
    <3>2. e[k] = h[k]
      BY <1>4, <2>1, <3>1
    <3> QED BY <1>4, <2>3, <2>5, <2>7, <3>1, <3>2
  <2> QED BY <2>6, <2>7
<1> QED BY <1>2, <1>4, <1>5 DEF c, e, Same

\* When the member at q has come down to its place, there is a heap.
LEMMA Sunk ==
  ASSUME NEW h \in Seq(Checksums), NEW q \in 1 .. Len(h), SinkOrder(h, q), OverChildren(h, q)
  PROVE  Heap(h)
<1> SUFFICES ASSUME NEW k \in 2 .. Len(h) PROVE h[k \div 2] >= h[k]
  BY DEF Heap
<1>1. k \in Nat /\ (k = 2 * (k \div 2) \/ k = 2 * (k \div 2) + 1) /\ k <= Len(h)
  BY Half
<1>2. CASE k \div 2 = q
  BY <1>1, <1>2 DEF OverChildren
<1>3. CASE k \div 2 # q
  BY <1>3 DEF SinkOrder
<1> QED BY <1>2, <1>3

LEMMA SameTrans ==
  ASSUME NEW h, NEW g, NEW e, Same(h, g), Same(g, e)
  PROVE  Same(h, e)
BY DEF Same

LEMMA DownheapRight ==
  ASSUME NEW h \in Seq(Checksums), NEW q \in 1 .. Len(h), Distinct(h), SinkOrder(h, q)
  PROVE  Same(h, Downheap(h, q)) /\ Heap(Downheap(h, q))
<1> DEFINE I == {s \in HeapAt : Same(h, s[1]) /\ s[2] \in 1 .. Len(h) /\ SinkOrder(s[1], s[2])}
           left == [s \in I |-> Len(h) - s[2]]
           end == Loop(Sink, <<h, q>>, Len(h))
<1>1. <<h, q>> \in I
  BY DEF HeapAt, Same
<1>2. ASSUME NEW s \in I
      PROVE  Sink[s] \in I /\ (Sink[s] = s \/ left[Sink[s]] < left[s]) /\ (Sink[s] = s => OverChildren(s[1], s[2]))
  <2> DEFINE g == s[1]
             j == s[2]
             c == GreaterChild(g, j)
  <2>1. /\ s = <<g, j>> /\ g \in Seq(Checksums) /\ Len(g) = Len(h) /\ j \in 1 .. Len(g) /\ Distinct(g)
        /\ SinkOrder(g, j) /\ Same(h, g)
    BY <1>2 DEF HeapAt, Same
  <2>2. Sink[s] = IF OverChildren(g, j) THEN s ELSE <<Exchange(g, j, c), c>>
    BY <1>2 DEF Sink
  <2> HIDE DEF g, j
  <2>3. CASE OverChildren(g, j)
    BY <2>2, <2>3 DEF g, j
  <2>4. CASE ~OverChildren(g, j)
    <3>1. c \in 1 .. Len(g) /\ c > j /\ Same(g, Exchange(g, j, c)) /\ SinkOrder(Exchange(g, j, c), c)
      BY <2>1, <2>4, SinkStep
    <3> HIDE DEF c
    <3>2. Same(h, Exchange(g, j, c))
      BY <2>1, <3>1, SameTrans
    <3>3. <<Exchange(g, j, c), c>> \in I
      BY <2>1, <3>1, <3>2 DEF Same, HeapAt
    <3>4. left[<<Exchange(g, j, c), c>>] = Len(h) - c /\ left[s] = Len(h) - j
      BY <1>2, <3>3 DEF j
    <3>5. Len(h) - c < Len(h) - j /\ c # j
      BY <2>1, <3>1
    <3> QED BY <2>1, <2>2, <2>4, <3>3, <3>4, <3>5
  <2> QED BY <2>3, <2>4
<1>3. left \in [I -> Nat]
  OBVIOUS
<1>4. Len(h) \in Nat /\ left[<<h, q>>] <= Len(h)
  BY <1>1
<1> HIDE DEF left, I
<1>5. end \in I
  BY <1>1, <1>2, <1>4, LoopKeeps
<1>6. Sink[end] = end
  BY <1>1, <1>2, <1>3, <1>4, LoopEnds
<1> HIDE DEF end
<1>7. OverChildren(end[1], end[2])
  BY <1>2, <1>5, <1>6
<1>8. /\ Same(h, end[1]) /\ end[1] \in Seq(Checksums) /\ end[2] \in 1 .. Len(end[1])
      /\ SinkOrder(end[1], end[2])
  BY <1>5 DEF I, Same
<1>9. Heap(end[1])
  BY <1>7, <1>8, Sunk
<1> QED BY <1>8, <1>9 DEF end, Downheap

\* A heap but for q, which may be greater than its parent.
RiseOrder(h, q) ==
  \A k \in 2 .. Len(h) :
    /\ k # q => h[k \div 2] >= h[k]
    /\ k \div 2 = q /\ q > 1 => h[q \div 2] >= h[k]

LEMMA RiseStep ==
  ASSUME NEW h \in Seq(Checksums), NEW q \in 1 .. Len(h), Distinct(h), RiseOrder(h, q),
         ~UnderParent(h, q)
  PROVE  LET p == q \div 2
             e == Exchange(h, q, p)
         IN  p \in 1 .. Len(h) /\ p < q /\ Same(h, e) /\ RiseOrder(e, p)
<1> DEFINE p == q \div 2
           e == Exchange(h, q, p)
<1>n. Len(h) \in Nat /\ q \in Nat /\ q >= 2 /\ q <= Len(h)
  BY DEF UnderParent
<1>v. \A k \in 1 .. Len(h) : h[k] \in Nat
  BY HeapValues
<1>1. p \in 1 .. Len(h) /\ p < q /\ p \in Nat /\ p # q
  BY <1>n, Half
<1>2. h[p] < h[q] /\ h[q] \in Nat /\ h[p] \in Nat
  <2>1. h[q] \in Nat /\ h[p] \in Nat
    BY <1>v, <1>1
  <2> QED BY <2>1 DEF UnderParent
<1> HIDE DEF p
<1>4. /\ e \in Seq(Checksums) /\ Len(e) = Len(h) /\ e[q] = h[p] /\ e[p] = h[q]
      /\ \A k \in 1 .. Len(h) : k # q /\ k # p => e[k] = h[k]
      /\ RangeOf(e) = RangeOf(h) /\ Distinct(e)
  BY <1>1, Exchanged
<1> HIDE DEF e
<1>5. RiseOrder(e, p)
  <2> SUFFICES ASSUME NEW k \in 2 .. Len(h)
               PROVE  /\ k # p => e[k \div 2] >= e[k]
                      /\ k \div 2 = p /\ p > 1 => e[p \div 2] >= e[k]
    BY <1>4 DEF RiseOrder
  <2>1. k \in Nat /\ k \in 1 .. Len(h) /\ k \div 2 \in 1 .. Len(h) /\ k \div 2 < k
    BY <1>n, Half
  <2>2. h[k] \in Nat /\ h[k \div 2] \in Nat
    BY <1>v, <2>1
  <2>3. k # q => h[k \div 2] >= h[k]
    BY DEF RiseOrder
  <2>4. k \div 2 = q => h[p] >= h[k]
    BY <1>n DEF RiseOrder, p
  <2>5. q \div 2 = p
    BY DEF p
  <2>6. ASSUME k # p PROVE e[k \div 2] >= e[k]
    <3>1. CASE k = q
      BY <1>2, <1>4, <2>5, <3>1
    <3>2. CASE k # q /\ k \div 2 = q
      BY <1>4, <2>1, <2>4, <2>6, <3>2
    <3>3. CASE k # q /\ k \div 2 = p
      <4>1. e[k] = h[k]
        BY <1>4, <2>1, <2>6, <3>3
      <4>2. h[p] >= h[k]
        BY <2>3, <3>3
      <4> QED BY <1>2, <1>4, <2>2, <3>3, <4>1, <4>2
    <3>4. CASE k # q /\ k \div 2 # q /\ k \div 2 # p
      BY <1>4, <2>1, <2>3, <2>6, <3>4
    <3> QED BY <3>1, <3>2, <3>3, <3>4
  <2>7. ASSUME k \div 2 = p, p > 1 PROVE e[p \div 2] >= e[k]
    <3>1. p \in 2 .. Len(h) /\ p \div 2 \in 1 .. Len(h) /\ p \div 2 < p
      BY <1>n, <1>1, <2>7, Half
    <3>2. h[p \div 2] >= h[p]
      BY <1>1, <3>1 DEF RiseOrder
    <3>3. e[p \div 2] = h[p \div 2]
      <4>1. p \div 2 # p /\ p \div 2 # q
        BY <1>1, <3>1
      <4> QED BY <1>4, <3>1, <4>1
    <3>4. h[p \div 2] \in Nat
      BY <1>v, <3>1
    <3>5. CASE k = q
      BY <1>4, <3>2, <3>3, <3>5
    <3>6. CASE k # q
      <4>1. e[k] = h[k]
        BY <1>4, <2>1, <2>7, <3>6
      <4>2. h[p] >= h[k]
        BY <2>3, <2>7, <3>6
      <4> QED BY <1>2, <2>2, <3>2, <3>3, <3>4, <4>1, <4>2
    <3> QED BY <3>5, <3>6
  <2> QED BY <2>6, <2>7
<1> QED BY <1>1, <1>4, <1>5 DEF p, e, Same

LEMMA Risen ==
  ASSUME NEW h \in Seq(Checksums), NEW q \in 1 .. Len(h), RiseOrder(h, q), UnderParent(h, q)
  PROVE  Heap(h)
BY DEF Heap, RiseOrder, UnderParent

LEMMA UpheapRight ==
  ASSUME NEW h \in Seq(Checksums), NEW q \in 1 .. Len(h), Distinct(h), RiseOrder(h, q)
  PROVE  Same(h, Upheap(h, q)) /\ Heap(Upheap(h, q))
<1> DEFINE I == {s \in HeapAt : Same(h, s[1]) /\ s[2] \in 1 .. Len(h) /\ RiseOrder(s[1], s[2])}
           left == [s \in I |-> s[2]]
           end == Loop(Rise, <<h, q>>, Len(h))
<1>1. <<h, q>> \in I
  BY DEF HeapAt, Same
<1>2. ASSUME NEW s \in I
      PROVE  Rise[s] \in I /\ (Rise[s] = s \/ left[Rise[s]] < left[s]) /\ (Rise[s] = s => UnderParent(s[1], s[2]))
  <2> DEFINE g == s[1]
             j == s[2]
             p == j \div 2
  <2>1. /\ s = <<g, j>> /\ g \in Seq(Checksums) /\ Len(g) = Len(h) /\ j \in 1 .. Len(g) /\ Distinct(g)
        /\ RiseOrder(g, j) /\ Same(h, g)
    BY <1>2 DEF HeapAt, Same
  <2>2. Rise[s] = IF UnderParent(g, j) THEN s ELSE <<Exchange(g, j, p), p>>
    BY <1>2 DEF Rise
  <2> HIDE DEF g, j
  <2>3. CASE UnderParent(g, j)
    BY <2>2, <2>3 DEF g, j
  <2>4. CASE ~UnderParent(g, j)
    <3>1. p \in 1 .. Len(g) /\ p < j /\ Same(g, Exchange(g, j, p)) /\ RiseOrder(Exchange(g, j, p), p)
      BY <2>1, <2>4, RiseStep
    <3> HIDE DEF p
    <3>2. Same(h, Exchange(g, j, p))
      BY <2>1, <3>1, SameTrans
    <3>3. <<Exchange(g, j, p), p>> \in I
      BY <2>1, <3>1, <3>2 DEF Same, HeapAt
    <3>4. left[<<Exchange(g, j, p), p>>] = p /\ left[s] = j
      BY <1>2, <3>3 DEF j
    <3>5. p # j
      BY <2>1, <3>1
    <3> QED BY <2>1, <2>2, <2>4, <3>1, <3>3, <3>4, <3>5
  <2> QED BY <2>3, <2>4
<1>3. left \in [I -> Nat]
  OBVIOUS
<1>4. Len(h) \in Nat /\ left[<<h, q>>] <= Len(h)
  BY <1>1
<1> HIDE DEF left, I
<1>5. end \in I
  BY <1>1, <1>2, <1>4, LoopKeeps
<1>6. Rise[end] = end
  BY <1>1, <1>2, <1>3, <1>4, LoopEnds
<1> HIDE DEF end
<1>7. UnderParent(end[1], end[2])
  BY <1>2, <1>5, <1>6
<1>8. /\ Same(h, end[1]) /\ end[1] \in Seq(Checksums) /\ end[2] \in 1 .. Len(end[1])
      /\ RiseOrder(end[1], end[2])
  BY <1>5 DEF I, Same
<1>9. Heap(end[1])
  BY <1>7, <1>8, Risen
<1> QED BY <1>8, <1>9 DEF end, Upheap

\* A heap of checksums, each once.
IsHeap(h) == h \in Seq(Checksums) /\ Distinct(h) /\ Heap(h)

LEMMA SeqOf ==
  ASSUME NEW n \in Nat, NEW S, NEW f \in [1 .. n -> S]
  PROVE  f \in Seq(S) /\ Len(f) = n
BY SeqDef

\* heap_insert adds a checksum to the heap,
LEMMA HeapInsertRight ==
  ASSUME NEW h, IsHeap(h), NEW v \in Checksums, v \notin RangeOf(h)
  PROVE  LET g == HeapInsert(h, v)
         IN  IsHeap(g) /\ Len(g) = Len(h) + 1 /\ RangeOf(g) = RangeOf(h) \cup {v}
<1> DEFINE a == Append(h, v)
           n == Len(h) + 1
<1>1. h \in Seq(Checksums) /\ Len(h) \in Nat /\ Distinct(h) /\ Heap(h)
  BY DEF IsHeap
<1>2. /\ a \in Seq(Checksums) /\ Len(a) = n /\ a[n] = v /\ \A k \in 1 .. Len(h) : a[k] = h[k]
      /\ n \in 1 .. n /\ n \in Nat /\ n - 1 = Len(h)
  BY <1>1
<1> HIDE DEF a
<1>3. RangeOf(h) = {h[k] : k \in 1 .. Len(h)} /\ RangeOf(a) = {a[k] : k \in 1 .. n}
  BY <1>1, <1>2, HeapValues
<1>4. \A k \in 1 .. n : k = n \/ k \in 1 .. Len(h)
  BY <1>1
<1>5. RangeOf(a) = RangeOf(h) \cup {v}
  <2>1. \A k \in 1 .. Len(h) : k \in 1 .. n
    BY <1>1
  <2> QED BY <1>2, <1>3, <1>4, <2>1
<1>6. Distinct(a)
  <2> SUFFICES ASSUME NEW k \in 1 .. n, NEW l \in 1 .. n, a[k] = a[l] PROVE k = l
    BY <1>2 DEF Distinct
  <2>1. \A m \in 1 .. Len(h) : h[m] # v
    BY <1>3
  <2> QED BY <1>1, <1>2, <1>4, <2>1 DEF Distinct
<1>7. RiseOrder(a, n)
  <2> SUFFICES ASSUME NEW k \in 2 .. n
               PROVE  (k # n => a[k \div 2] >= a[k]) /\ k \div 2 # n
    BY <1>2 DEF RiseOrder
  <2>1. k \in Nat /\ 1 <= k \div 2 /\ k \div 2 < k /\ k \div 2 \in Nat
    BY <1>1, Half
  <2>2. k \div 2 # n
    BY <1>2, <2>1
  <2>3. ASSUME k # n PROVE a[k \div 2] >= a[k]
    <3>1. k \in 2 .. Len(h) /\ k \in 1 .. Len(h) /\ k \div 2 \in 1 .. Len(h)
      BY <1>1, <2>1, <2>3
    <3>2. h[k \div 2] >= h[k]
      BY <1>1, <3>1 DEF Heap
    <3> QED BY <1>2, <3>1, <3>2
  <2> QED BY <2>2, <2>3
<1> HIDE DEF n
<1>8. Same(a, Upheap(a, n)) /\ Heap(Upheap(a, n))
  BY <1>2, <1>6, <1>7, UpheapRight
<1>9. HeapInsert(h, v) = Upheap(a, n)
  BY DEF HeapInsert, a, n
<1> QED BY <1>2, <1>5, <1>8, <1>9 DEF Same, IsHeap, n

\* and heap_extract_max takes the greatest off.
LEMMA WithoutTopRight ==
  ASSUME NEW h, IsHeap(h), h # <<>>
  PROVE  LET g == WithoutTop(h)
         IN  IsHeap(g) /\ Len(g) = Len(h) - 1 /\ RangeOf(g) = RangeOf(h) \ {h[1]}
<1> DEFINE n == Len(h) - 1
           a == SubSeq([h EXCEPT ![1] = h[Len(h)]], 1, n)
<1>1. h \in Seq(Checksums) /\ Len(h) \in Nat /\ Len(h) >= 1 /\ Distinct(h) /\ Heap(h) /\ n \in Nat
  BY DEF IsHeap
<1>v. \A k \in 1 .. Len(h) : h[k] \in Checksums /\ h[k] \in Nat
  BY <1>1, HeapValues
<1>2. /\ a \in Seq(Checksums) /\ Len(a) = n
      /\ \A k \in 1 .. n : a[k] = IF k = 1 THEN h[Len(h)] ELSE h[k]
  <2> DEFINE b == [h EXCEPT ![1] = h[Len(h)]]
  <2>1. b = [k \in 1 .. Len(h) |-> IF k = 1 THEN h[Len(h)] ELSE h[k]]
    BY <1>1
  <2>2. b \in [1 .. Len(h) -> Checksums]
    BY <1>1, <1>v, <2>1
  <2>3. b \in Seq(Checksums) /\ Len(b) = Len(h)
    BY <1>1, <2>2, SeqDef
  <2> HIDE DEF b
  <2>4. \A k \in 1 .. n : b[k] \in Checksums
    BY <1>1, <2>2
  <2>5. a = [k \in 1 .. n |-> b[k]]
    BY <1>1, <2>3 DEF b
  <2>6. a \in [1 .. n -> Checksums]
    BY <2>4, <2>5
  <2>7. a \in Seq(Checksums) /\ Len(a) = n
    BY <1>1, <2>6, SeqOf
  <2>8. \A k \in 1 .. n : a[k] = IF k = 1 THEN h[Len(h)] ELSE h[k]
    BY <1>1, <2>1, <2>5
  <2> QED BY <2>7, <2>8
<1>3. Downheap(a, 1) = WithoutTop(h)
  BY DEF WithoutTop
<1> HIDE DEF a
<1>r. RangeOf(h) = {h[k] : k \in 1 .. Len(h)} /\ RangeOf(a) = {a[k] : k \in 1 .. n}
  BY <1>1, <1>2, HeapValues
<1>4. \A k \in 1 .. n : a[k] \in RangeOf(h) /\ a[k] # h[1]
  <2> TAKE k \in 1 .. n
  <2>0. k \in Nat /\ 1 <= k /\ k <= n
    BY <1>1
  <2>1. k \in 1 .. Len(h) /\ Len(h) \in 1 .. Len(h) /\ Len(h) # 1 /\ 1 \in 1 .. Len(h)
    <3>1. n = Len(h) - 1 /\ Len(h) \in Nat /\ Len(h) >= 1
      BY <1>1
    <3> HIDE DEF n
    <3> QED BY <2>0, <3>1
  <2>2. CASE k = 1
    BY <1>1, <1>2, <1>r, <2>1, <2>2 DEF Distinct
  <2>3. CASE k # 1
    BY <1>1, <1>2, <1>r, <2>1, <2>3 DEF Distinct
  <2> QED BY <2>2, <2>3
<1>5. RangeOf(a) = RangeOf(h) \ {h[1]}
  <2>1. RangeOf(a) \subseteq RangeOf(h) \ {h[1]}
    BY <1>4, <1>r
  <2>2. ASSUME NEW k \in 1 .. Len(h), h[k] # h[1] PROVE \E l \in 1 .. n : a[l] = h[k]
    <3>1. CASE k = Len(h)
      <4>1. 1 \in 1 .. n
        BY <1>1, <2>2, <3>1
      <4> QED BY <1>2, <3>1, <4>1
    <3>2. CASE k # Len(h)
      <4>1. k \in 1 .. n /\ k # 1
        BY <1>1, <2>2, <3>2
      <4> QED BY <1>2, <4>1
    <3> QED BY <3>1, <3>2
  <2>3. ASSUME NEW x \in RangeOf(h) \ {h[1]} PROVE x \in RangeOf(a)
    <3>1. PICK k \in 1 .. Len(h) : x = h[k]
      BY <1>r
    <3>2. PICK l \in 1 .. n : a[l] = h[k]
      BY <2>2, <3>1
    <3> QED BY <1>r, <3>1, <3>2
  <2> QED BY <2>1, <2>3
<1>6. Distinct(a)
  <2> SUFFICES ASSUME NEW k \in 1 .. n, NEW l \in 1 .. n, a[k] = a[l] PROVE k = l
    BY <1>2 DEF Distinct
  <2>1. k \in 1 .. Len(h) /\ l \in 1 .. Len(h) /\ Len(h) \in 1 .. Len(h) /\ k # Len(h) /\ l # Len(h)
    BY <1>1
  <2> QED BY <1>1, <1>2, <2>1 DEF Distinct
<1>7. CASE n = 0
  <2>0. Len(a) = 0
    BY <1>2, <1>7
  <2>1. a = <<>> /\ Len(a) = 0
    BY <1>2, <2>0
  <2>2. Downheap(a, 1) = a
    BY <2>1, LoopStep DEF Downheap
  <2>3. Heap(a)
    BY <2>1 DEF Heap
  <2> QED BY <1>2, <1>3, <1>5, <1>6, <2>2, <2>3 DEF IsHeap
<1>8. CASE n # 0
  <2>1. 1 \in 1 .. Len(a)
    BY <1>1, <1>2, <1>8
  <2>2. SinkOrder(a, 1)
    <3> SUFFICES ASSUME NEW k \in 2 .. n, k \div 2 # 1 PROVE a[k \div 2] >= a[k]
      BY <1>2 DEF SinkOrder
    <3>1. k \in Nat /\ k \div 2 \in Nat /\ 1 <= k \div 2 /\ k \div 2 < k
      BY <1>1, Half
    <3>2. k \div 2 \in 1 .. n /\ k \in 1 .. n /\ k # 1 /\ k \in 2 .. Len(h)
      BY <1>1, <3>1
    <3>3. h[k \div 2] >= h[k]
      BY <1>1, <3>2 DEF Heap
    <3> QED BY <1>2, <3>2, <3>3
  <2> HIDE DEF n
  <2>3. Same(a, Downheap(a, 1)) /\ Heap(Downheap(a, 1))
    BY <1>2, <1>6, <2>1, <2>2, DownheapRight
  <2> QED BY <1>2, <1>3, <1>5, <2>3 DEF Same, IsHeap, n
<1> QED BY <1>7, <1>8

-----------------------------------------------------------------------------
(* The slots of the table.                                                 *)

LEMMA DivMod ==
  ASSUME NEW n \in Nat \ {0}, NEW x \in Nat
  PROVE  x \div n \in Nat /\ x % n \in 0 .. n - 1 /\ x = n * (x \div n) + (x % n)
<1>1. n \in Int /\ n > 0 /\ x \in Int
  OBVIOUS
<1>2. x \div n \in Int
  BY <1>1
<1>3. x % n \in 0 .. n - 1
  BY <1>1
<1>4. x = n * (x \div n) + (x % n)
  BY <1>1
<1>5. x \div n \in Nat
  <2> SUFFICES ASSUME x \div n < 0 PROVE FALSE
    BY <1>2
  <2>1. PICK q \in Int : q = x \div n
    BY <1>2
  <2>2. PICK e \in Nat : q = - (e + 1)
    <3>1. - q - 1 \in Nat
      BY <2>1
    <3> QED BY <2>1, <3>1
  <2>3. n * q = - (n * e) - n /\ n * e \in Nat
    BY <1>1, <2>2
  <2> QED BY <1>1, <1>3, <1>4, <2>1, <2>3
<1> QED BY <1>3, <1>4, <1>5

\* What divides the product with an odd number divides the other factor.
NoOddFactor(n) ==
  \A x, a \in Nat : (\E q \in Nat : x * (2 * a + 1) = n * q) => \E q \in Nat : x = n * q

LEMMA DoubledNoOddFactor ==
  ASSUME NEW n \in Nat, NoOddFactor(n)
  PROVE  NoOddFactor(2 * n)
<1> SUFFICES ASSUME NEW x \in Nat, NEW a \in Nat, \E q \in Nat : x * (2 * a + 1) = (2 * n) * q
             PROVE  \E r \in Nat : x = (2 * n) * r
  BY ZenonT(20) DEF NoOddFactor
<1>0. PICK q \in Nat : x * (2 * a + 1) = (2 * n) * q
  OBVIOUS
<1> DEFINE y == n * q - x * a
<1>1. x = 2 * y
  <2>1. PICK m \in Nat : m = x * a
    OBVIOUS
  <2>2. PICK l \in Nat : l = n * q
    OBVIOUS
  <2>3. x * (2 * a + 1) = 2 * m + x
    BY <2>1
  <2>4. (2 * n) * q = 2 * l
    BY <2>2
  <2> QED BY <1>0, <2>1, <2>2, <2>3, <2>4
<1>2. y \in Int
  OBVIOUS
<1>3. y * (2 * a + 1) = n * q
  <2> HIDE DEF y
  <2>1. x * (2 * a + 1) = 2 * (y * (2 * a + 1))
    BY <1>1, <1>2
  <2>2. (2 * n) * q = 2 * (n * q)
    OBVIOUS
  <2>3. y * (2 * a + 1) \in Int /\ n * q \in Int
    BY <1>2
  <2> QED BY <1>0, <2>1, <2>2, <2>3
<1> HIDE DEF y
<1>4. y \in Nat
  BY <1>1, <1>2
<1>5. PICK r \in Nat : y = n * r
  BY <1>3, <1>4 DEF NoOddFactor
<1>6. (2 * n) * r = 2 * (n * r)
  OBVIOUS
<1> QED BY <1>1, <1>5, <1>6

\* next_pow2 yields a power of two greater than its argument.
LEMMA NextPow2Right ==
  ASSUME NEW n \in Nat
  PROVE  NextPow2(n) \in Nat \ {0} /\ NoOddFactor(NextPow2(n)) /\ n < NextPow2(n)
<1> DEFINE I == {s \in Nat \X Nat : s[2] # 0 /\ NoOddFactor(s[2]) /\ n < s[2] * (s[1] + 1)}
           left == [s \in I |-> s[1]]
           end == Loop(Doubling, <<n, 1>>, n)
<1>1. NoOddFactor(1)
  BY DEF NoOddFactor
<1>2. <<n, 1>> \in I
  BY <1>1
<1>3. ASSUME NEW s \in I
      PROVE  Doubling[s] \in I /\ (Doubling[s] = s \/ left[Doubling[s]] < left[s]) /\ (Doubling[s] = s => s[1] = 0)
  <2>1. PICK a \in Nat, b \in Nat : s = <<a, b>> /\ b # 0 /\ NoOddFactor(b) /\ n < b * (a + 1) /\ s \in Nat \X Nat
    OBVIOUS
  <2>2. Doubling[s] = IF a = 0 THEN s ELSE <<a \div 2, 2 * b>>
    BY <2>1 DEF Doubling
  <2>3. CASE a = 0
    BY <2>1, <2>2, <2>3
  <2>4. CASE a # 0
    <3>1. NoOddFactor(2 * b)
      BY <2>1, DoubledNoOddFactor
    <3>2. PICK c \in Nat : c = a \div 2
      OBVIOUS
    <3>3. c < a /\ (a = 2 * c \/ a = 2 * c + 1) /\ 2 * b \in Nat /\ 2 * b # 0
      BY <2>1, <2>4, <3>2
    <3>4. n < (2 * b) * (c + 1)
      <4>1. (2 * b) * (c + 1) = b * (2 * c + 2)
        OBVIOUS
      <4>2. CASE a = 2 * c
        <5>1. b * (2 * c + 2) = b * (a + 1) + b
          BY <4>2
        <5>2. b * (a + 1) \in Nat
          OBVIOUS
        <5> QED BY <2>1, <4>1, <5>1, <5>2
      <4>3. CASE a = 2 * c + 1
        <5>1. b * (2 * c + 2) = b * (a + 1)
          BY <4>3
        <5> QED BY <2>1, <4>1, <5>1
      <4> QED BY <3>3, <4>2, <4>3
    <3>5. <<c, 2 * b>> \in I
      BY <3>1, <3>3, <3>4
    <3>6. Doubling[s] = <<c, 2 * b>> /\ <<c, 2 * b>> # s
      BY <2>1, <2>2, <2>4, <3>2, <3>3
    <3>7. left[<<c, 2 * b>>] = c /\ left[s] = a
      BY <2>1, <3>5
    <3> QED BY <3>3, <3>5, <3>6, <3>7
  <2> QED BY <2>3, <2>4
<1>4. left \in [I -> Nat]
  OBVIOUS
<1>5. left[<<n, 1>>] <= n
  BY <1>2
<1> HIDE DEF I, left
<1>6. end \in I
  BY <1>2, <1>3, LoopKeeps
<1>7. Doubling[end] = end
  BY <1>2, <1>3, <1>4, <1>5, LoopEnds
<1> HIDE DEF end
<1>8. end[1] = 0
  BY <1>3, <1>6, <1>7
<1>9. end[2] \in Nat /\ end[2] # 0 /\ NoOddFactor(end[2]) /\ n < end[2] * (0 + 1)
  BY <1>6, <1>8 DEF I
<1>10. n < end[2]
  BY <1>9
<1> QED BY <1>9, <1>10 DEF end, NextPow2

\* There are more slots than features.
LEMMA NumSlotsRight == NumSlots \in Nat \ {0} /\ NoOddFactor(NumSlots) /\ NumFeatures < NumSlots
<1> DEFINE size == SlotsPerFeature * NumFeatures
<1>1. NumFeatures \in Nat /\ size \in Nat
  BY SimhashAssumption
<1>2. NumFeatures <= size
  <2>1. PICK k \in Nat : SlotsPerFeature = k + 1
    <3>1. SlotsPerFeature - 1 \in Nat /\ SlotsPerFeature = (SlotsPerFeature - 1) + 1
      BY SimhashAssumption
    <3> QED BY <3>1
  <2>2. size = k * NumFeatures + NumFeatures /\ k * NumFeatures \in Nat
    BY <1>1, <2>1
  <2> HIDE DEF size
  <2> QED BY <1>1, <2>2
<1>3. NumSlots = NextPow2(size)
  BY DEF NumSlots
<1> HIDE DEF size
<1>4. NextPow2(size) \in Nat \ {0} /\ NoOddFactor(NextPow2(size)) /\ size < NextPow2(size)
  BY <1>1, NextPow2Right
<1>5. NumFeatures < NextPow2(size)
  <2>1. PICK m \in Nat : m = NextPow2(size)
    BY <1>4
  <2> QED BY <1>1, <1>2, <1>4, <2>1
<1> QED BY <1>3, <1>4, <1>5

LEMMA SlotsFinite == IsFiniteSet(Slot) /\ Cardinality(Slot) = NumSlots
<1>1. NumSlots \in Nat \ {0}
  BY NumSlotsRight
<1> HIDE DEF NumSlots
<1> QED BY <1>1, FS_Interval DEF Slot

\* No slot is tried twice,
LEMMA ProbesDiffer ==
  ASSUME NEW crc \in Nat, NEW k \in Slot, NEW l \in Slot, k < l
  PROVE  Probe(crc, k) # Probe(crc, l)
<1> DEFINE n == NumSlots
           a == NumSlots \div 4
           d == 2 * a + 1
<1>1. n \in Nat \ {0} /\ NoOddFactor(n)
  BY NumSlotsRight
<1>2. a \in Nat /\ k \in Nat /\ l \in Nat /\ l < n /\ d \in Nat
  <2> HIDE DEF NumSlots
  <2> QED BY <1>1 DEF Slot
<1>3. Probe(crc, k) = (crc + k * d) % n /\ Probe(crc, l) = (crc + l * d) % n
  BY DEF Probe
<1> HIDE DEF n
<1> SUFFICES ASSUME (crc + k * d) % n = (crc + l * d) % n PROVE FALSE
  BY <1>3
<1>4. d = 2 * a + 1
  OBVIOUS
<1> HIDE DEF a, d
<1>5. PICK x \in Nat : x = crc + k * d
  BY <1>2
<1>6. PICK y \in Nat : y = crc + l * d
  BY <1>2
<1>7. PICK p \in Nat, r \in Nat : x = n * p + r /\ r = x % n
  <2>1. x \div n \in Nat /\ x % n \in 0 .. n - 1 /\ x = n * (x \div n) + (x % n)
    BY <1>1, <1>5, DivMod
  <2>2. x % n \in Nat
    BY <1>1, <2>1
  <2> QED BY <2>1, <2>2
<1>8. PICK q \in Nat : y = n * q + r
  <2>1. y \div n \in Nat /\ y = n * (y \div n) + (y % n)
    BY <1>1, <1>6, DivMod
  <2>2. y % n = r
    BY <1>5, <1>6, <1>7
  <2> QED BY <2>1, <2>2
<1>9. l - k \in Nat /\ l - k > 0 /\ l - k < n
  BY <1>1, <1>2
<1>10. PICK m \in Nat : m = l - k
  BY <1>9
<1>11. m * d = n * (q - p)
  <2>1. m * d = l * d - k * d
    BY <1>2, <1>10
  <2>2. n * (q - p) = n * q - n * p
    BY <1>1
  <2>3. l * d \in Nat /\ k * d \in Nat /\ n * q \in Nat /\ n * p \in Nat
    BY <1>1, <1>2
  <2> QED BY <1>5, <1>6, <1>7, <1>8, <2>1, <2>2, <2>3
<1>12. q - p \in Nat
  <2> SUFFICES ASSUME q < p PROVE FALSE
    OBVIOUS
  <2>1. m * d \in Nat /\ m * d >= 0
    BY <1>2
  <2>2. PICK e \in Nat : e + 1 = p - q
    OBVIOUS
  <2>3. n * (q - p) = - (n * e) - n
    BY <1>1, <2>2
  <2>4. n * e \in Nat /\ n \in Nat /\ n > 0
    BY <1>1
  <2> QED BY <1>11, <2>1, <2>3, <2>4
<1>13. PICK g \in Nat : m = n * g
  <2>1. PICK h \in Nat : h = q - p
    BY <1>12
  <2>2. m * (2 * a + 1) = n * h
    BY <1>4, <1>11, <2>1
  <2>3. NoOddFactor(n) /\ a \in Nat
    BY <1>1, <1>2
  <2> QED BY <2>2, <2>3 DEF NoOddFactor
<1>14. g # 0
  BY <1>1, <1>9, <1>10, <1>13
<1>15. PICK e \in Nat : g = e + 1
  BY <1>14
<1>16. n * g = n * e + n /\ n * e \in Nat
  BY <1>1, <1>15
<1> QED BY <1>1, <1>9, <1>10, <1>13, <1>16

\* each is in the table, and every one is tried.
LEMMA ProbesReach ==
  ASSUME NEW crc \in Nat
  PROVE  /\ \A k \in Slot : Probe(crc, k) \in Slot
         /\ \A s \in Slot : \E k \in Slot : Probe(crc, k) = s
         /\ \A k, l \in Slot : Probe(crc, k) = Probe(crc, l) => k = l
<1> DEFINE n == NumSlots
           f == [k \in Slot |-> Probe(crc, k)]
<1>1. n \in Nat \ {0}
  BY NumSlotsRight
<1>2. ASSUME NEW k \in Slot PROVE Probe(crc, k) \in Slot
  <2> DEFINE d == 2 * (NumSlots \div 4) + 1
  <2>1. Probe(crc, k) = (crc + k * d) % n /\ Slot = 0 .. n - 1
    BY DEF Probe, Slot
  <2>2. n \div 4 \in Nat
    <3> HIDE DEF n
    <3> QED BY <1>1
  <2>3. d \in Nat
    BY <2>2
  <2> HIDE DEF n, d
  <2>4. crc + k * d \in Nat
    BY <1>1, <2>1, <2>3
  <2> QED BY <1>1, <2>1, <2>4, DivMod
<1>3. ASSUME NEW k \in Slot, NEW l \in Slot, Probe(crc, k) = Probe(crc, l) PROVE k = l
  <2>1. k \in Nat /\ l \in Nat
    BY NumSlotsRight DEF Slot
  <2>2. ~ (k < l) /\ ~ (l < k)
    BY <1>3, ProbesDiffer
  <2> QED BY <2>1, <2>2
<1>4. f \in Injection(Slot, Slot)
  BY <1>2, <1>3 DEF Injection, IsInjective
<1>5. f \in Surjection(Slot, Slot)
  BY <1>4, SlotsFinite, FS_Injection
<1> QED BY <1>2, <1>3, <1>5 DEF Surjection

-----------------------------------------------------------------------------
(* The table.                                                              *)

\* A table that holds the checksums of a set: each is in one slot, and no
\* search for it comes upon an empty slot before that.
Holds(t, set) ==
  /\ t \in Table /\ set \subseteq Checksums
  /\ \A c \in Checksums : c \in set <=> \E s \in Slot : t[s] = c
  /\ \A r, s \in Slot : t[r] \in Checksums /\ t[r] = t[s] => r = s
  /\ \A c \in set : \A k, l \in Slot : t[Probe(c, k)] = c /\ l < k => t[Probe(c, l)] # EMPTY

NoneDeleted(t) == \A s \in Slot : t[s] # DELETED

LEMMA Marks ==
  /\ EMPTY # DELETED
  /\ \A c \in Checksums : c \in Nat /\ c # EMPTY /\ c # DELETED
<1>1. Checksums \subseteq Nat
  BY SimhashAssumption
<1> QED BY <1>1 DEF EMPTY, DELETED

LEMMA FirstSlotRight ==
  ASSUME NEW t, NEW crc \in Nat, NEW values, Tries(t, crc, values) # {}
  PROVE  \E k \in Slot :
           /\ FirstSlot(t, crc, values) = Probe(crc, k) /\ t[Probe(crc, k)] \in values
           /\ \A l \in Slot : l < k => t[Probe(crc, l)] \notin values
<1> DEFINE T == Tries(t, crc, values)
<1>1. T \subseteq Nat /\ T \subseteq Slot
  BY NumSlotsRight DEF Tries, Slot
<1>2. \E k \in T : \A l \in T : k <= l
  BY <1>1, LeastNatural
<1> DEFINE k == CHOOSE k \in T : \A l \in T : k <= l
<1>3. k \in T /\ \A l \in T : k <= l
  BY <1>2
<1>4. FirstSlot(t, crc, values) = Probe(crc, k)
  BY DEF FirstSlot
<1> HIDE DEF k
<1>5. k \in Slot /\ t[Probe(crc, k)] \in values
  BY <1>3 DEF Tries
<1>6. ASSUME NEW l \in Slot, l < k PROVE t[Probe(crc, l)] \notin values
  <2>1. l \notin T
    <3> HIDE DEF T
    <3>1. l \in Nat /\ k \in Nat
      BY <1>1, <1>3, NumSlotsRight DEF Slot
    <3> QED BY <1>3, <1>6, <3>1
  <2> QED BY <2>1 DEF Tries
<1> QED BY <1>4, <1>5, <1>6

\* A search finds what is in the table, and nothing else.
LEMMA ContainsRight ==
  ASSUME NEW t, NEW set, Holds(t, set), NEW crc \in Checksums
  PROVE  Contains(t, crc) <=> crc \in set
<1>1. crc \in Nat /\ crc # EMPTY
  BY Marks
<1>2. ASSUME Contains(t, crc) PROVE crc \in set
  <2>1. Tries(t, crc, {EMPTY, crc}) # {} /\ t[FirstSlot(t, crc, {EMPTY, crc})] = crc
    BY <1>2 DEF Contains, Searchable
  <2>2. PICK k \in Slot :
          /\ FirstSlot(t, crc, {EMPTY, crc}) = Probe(crc, k) /\ t[Probe(crc, k)] \in {EMPTY, crc}
          /\ \A l \in Slot : l < k => t[Probe(crc, l)] \notin {EMPTY, crc}
    BY <1>1, <2>1, FirstSlotRight
  <2>3. Probe(crc, k) \in Slot
    BY <1>1, ProbesReach
  <2> QED BY <2>1, <2>2, <2>3 DEF Holds
<1>3. ASSUME crc \in set PROVE Contains(t, crc)
  <2>1. PICK s \in Slot : t[s] = crc
    BY <1>3 DEF Holds
  <2>2. PICK k \in Slot : Probe(crc, k) = s
    BY <1>1, ProbesReach
  <2>3. k \in Tries(t, crc, {EMPTY, crc})
    BY <2>1, <2>2 DEF Tries
  <2>4. PICK j \in Slot :
          /\ FirstSlot(t, crc, {EMPTY, crc}) = Probe(crc, j) /\ t[Probe(crc, j)] \in {EMPTY, crc}
          /\ \A l \in Slot : l < j => t[Probe(crc, l)] \notin {EMPTY, crc}
    BY <1>1, <2>3, FirstSlotRight
  <2>5. k \in Nat /\ j \in Nat
    BY NumSlotsRight DEF Slot
  <2>6. ~ (k < j)
    BY <2>1, <2>2, <2>4
  <2>7. t[Probe(crc, j)] = crc
    <3>1. CASE j = k
      BY <2>1, <2>2, <3>1
    <3>2. CASE j < k
      BY <1>3, <2>1, <2>2, <2>4, <3>2 DEF Holds
    <3> QED BY <2>5, <2>6, <3>1, <3>2
  <2> QED BY <2>3, <2>4, <2>7 DEF Contains, Searchable
<1> QED BY <1>2, <1>3

\* There are more slots than checksums in the table.
LEMMA SlotLeft ==
  ASSUME NEW t, NEW set, Holds(t, set), IsFiniteSet(set), Cardinality(set) < NumSlots
  PROVE  \E s \in Slot : t[s] \in {EMPTY, DELETED}
<1> SUFFICES ASSUME \A s \in Slot : t[s] \notin {EMPTY, DELETED} PROVE FALSE
  OBVIOUS
<1>1. \A s \in Slot : t[s] \in Checksums /\ t[s] \in set
  BY DEF Holds, Table
<1> DEFINE f == [s \in Slot |-> t[s]]
<1>2. f \in Injection(Slot, set)
  BY <1>1 DEF Injection, IsInjective, Holds
<1>3. Cardinality(Slot) <= Cardinality(set)
  BY <1>2, FS_Injection
<1>4. Cardinality(set) \in Nat /\ NumSlots \in Nat
  BY FS_CardinalityType, NumSlotsRight
<1> QED BY <1>3, <1>4, SlotsFinite

LEMMA SlotToTake ==
  ASSUME NEW t, NEW set, Holds(t, set), IsFiniteSet(set), Cardinality(set) < NumSlots,
         NEW crc \in Checksums
  PROVE  Tries(t, crc, {EMPTY, DELETED, crc}) # {}
<1>1. PICK s \in Slot : t[s] \in {EMPTY, DELETED}
  BY SlotLeft
<1>2. PICK k \in Slot : Probe(crc, k) = s
  BY Marks, ProbesReach
<1>3. k \in Tries(t, crc, {EMPTY, DELETED, crc})
  BY <1>1, <1>2 DEF Tries
<1> QED BY <1>3

\* A new checksum is put into the table where searches will find it.
LEMMA DoInsertRight ==
  ASSUME NEW t, NEW set, Holds(t, set), NEW crc \in Checksums \ set,
         Tries(t, crc, {EMPTY, DELETED, crc}) # {}
  PROVE  Holds(DoInsert(t, crc), set \cup {crc}) /\ (NoneDeleted(t) => NoneDeleted(DoInsert(t, crc)))
<1> DEFINE values == {EMPTY, DELETED, crc}
           u == DoInsert(t, crc)
<1>1. crc \in Checksums /\ crc \in Nat /\ crc # EMPTY /\ crc # DELETED /\ crc \notin set
  BY Marks
<1>2. PICK k \in Slot :
        /\ FirstSlot(t, crc, values) = Probe(crc, k) /\ t[Probe(crc, k)] \in values
        /\ \A l \in Slot : l < k => t[Probe(crc, l)] \notin values
  BY <1>1, FirstSlotRight
<1>3. PICK f \in Slot : f = Probe(crc, k)
  BY <1>1, ProbesReach
<1>4. t \in [Slot -> Checksums \cup {EMPTY, DELETED}]
  BY DEF Holds, Table
<1>5. u = [t EXCEPT ![f] = crc]
  BY <1>2, <1>3 DEF DoInsert
<1>6. \A s \in Slot : u[s] = IF s = f THEN crc ELSE t[s]
  BY <1>4, <1>5
<1>7. u \in [Slot -> Checksums \cup {EMPTY, DELETED}]
  BY <1>1, <1>4, <1>5
<1> HIDE DEF u
<1>8. \A s \in Slot : t[s] # crc
  BY <1>1 DEF Holds
<1>9. t[f] \in {EMPTY, DELETED} /\ t[f] \notin Checksums
  BY <1>2, <1>3, <1>8, Marks
<1>10. \A c \in Checksums : c \in set \cup {crc} <=> \E s \in Slot : u[s] = c
  <2> TAKE c \in Checksums
  <2>1. CASE c = crc
    BY <1>3, <1>6, <2>1
  <2>2. CASE c # crc
    <3>1. c \in set <=> \E s \in Slot : t[s] = c
      BY DEF Holds
    <3>2. \A s \in Slot : u[s] = c <=> t[s] = c
      BY <1>6, <1>9, <2>2
    <3> QED BY <2>2, <3>1, <3>2
  <2> QED BY <2>1, <2>2
<1>11. \A r, s \in Slot : u[r] \in Checksums /\ u[r] = u[s] => r = s
  BY <1>6, <1>8 DEF Holds
<1>12. \A c \in set \cup {crc} : \A j, l \in Slot : u[Probe(c, j)] = c /\ l < j => u[Probe(c, l)] # EMPTY
  <2> SUFFICES ASSUME NEW c \in set \cup {crc}, NEW j \in Slot, NEW l \in Slot, u[Probe(c, j)] = c, l < j
               PROVE  u[Probe(c, l)] # EMPTY
    OBVIOUS
  <2>1. c \in Nat /\ c \in Checksums
    BY <1>1, Marks DEF Holds
  <2>2. Probe(c, j) \in Slot /\ Probe(c, l) \in Slot
    BY <2>1, ProbesReach
  <2>3. CASE Probe(c, l) = f
    BY <1>1, <1>6, <2>2, <2>3
  <2>4. CASE Probe(c, l) # f /\ c = crc
    <3>1. Probe(crc, j) = f
      BY <1>6, <1>8, <2>2, <2>4
    <3>2. j = k
      BY <1>1, <1>3, <3>1, ProbesReach
    <3> QED BY <1>2, <1>6, <2>2, <2>4, <3>2
  <2>5. CASE Probe(c, l) # f /\ c # crc
    <3>1. Probe(c, j) # f
      BY <1>6, <2>2, <2>5
    <3>2. t[Probe(c, j)] = c /\ c \in set
      BY <1>6, <2>2, <2>5, <3>1
    <3>3. t[Probe(c, l)] # EMPTY
      BY <3>2 DEF Holds
    <3> QED BY <1>6, <2>2, <2>5, <3>3
  <2> QED BY <2>3, <2>4, <2>5
<1>13. set \cup {crc} \subseteq Checksums
  BY <1>1 DEF Holds
<1>14. Holds(u, set \cup {crc})
  BY <1>7, <1>10, <1>11, <1>12, <1>13 DEF Holds, Table
<1>15. NoneDeleted(t) => NoneDeleted(u)
  BY <1>1, <1>6 DEF NoneDeleted
<1> QED BY <1>14, <1>15 DEF u

\* hash_insert has never to build the table anew,
LEMMA HashInsertRight ==
  ASSUME NEW t, NEW set, Holds(t, set), IsFiniteSet(set), Cardinality(set) < NumSlots,
         NEW crc \in Checksums \ set
  PROVE  Holds(HashInsert(t, crc), set \cup {crc})
<1>1. Tries(t, crc, {EMPTY, DELETED, crc}) # {}
  BY SlotToTake
<1>2. HashInsert(t, crc) = DoInsert(t, crc)
  BY <1>1 DEF HashInsert
<1> QED BY <1>1, <1>2, DoInsertRight

LEMMA EmptyTableRight == Holds(EmptyTable, {}) /\ NoneDeleted(EmptyTable)
<1>1. \A s \in Slot : EmptyTable[s] = EMPTY
  BY DEF EmptyTable
<1>2. EmptyTable \in Table
  BY DEF EmptyTable, Table
<1>3. \A c \in Checksums : ~ \E s \in Slot : EmptyTable[s] = c
  BY <1>1, Marks
<1>4. \A r, s \in Slot : EmptyTable[r] \notin Checksums
  BY <1>1, Marks
<1> QED BY <1>1, <1>2, <1>3, <1>4, Marks DEF Holds, NoneDeleted

\* and when it is built anew, nothing is lost, and no slot is marked.
LEMMA GcRight ==
  ASSUME NEW t, NEW set, Holds(t, set), IsFiniteSet(set), Cardinality(set) < NumSlots
  PROVE  Holds(Gc(t), set) /\ NoneDeleted(Gc(t))
<1> DEFINE n == NumSlots
           Copied(m) == {t[s] : s \in 0 .. m - 1} \cap Checksums
           I == {p \in Table \X Nat : p[2] <= n /\ Holds(p[1], Copied(p[2])) /\ NoneDeleted(p[1])}
           left == [p \in I |-> n - p[2]]
           end == Loop(Copying(t), <<EmptyTable, 0>>, n)
<1>n. n \in Nat /\ n > 0 /\ Cardinality(set) < n /\ Slot = 0 .. n - 1
  BY NumSlotsRight DEF Slot
<1>g. Gc(t) = end[1]
  BY DEF Gc
<1>c. \A p \in Table \X Nat :
        Copying(t)[p] = IF p[2] = n THEN p
                        ELSE <<IF t[p[2]] \in Checksums THEN DoInsert(p[1], t[p[2]]) ELSE p[1], p[2] + 1>>
  BY DEF Copying
<1> HIDE DEF n
<1>1. <<EmptyTable, 0>> \in I
  <2>1. Copied(0) = {}
    OBVIOUS
  <2> QED BY <1>n, <2>1, EmptyTableRight DEF Holds
<1>2. ASSUME NEW p \in I
      PROVE  Copying(t)[p] \in I /\ (Copying(t)[p] = p \/ left[Copying(t)[p]] < left[p]) /\ (Copying(t)[p] = p => p[2] = n)
  <2>1. /\ p \in Table \X Nat /\ p[1] \in Table /\ p[2] \in Nat /\ p[2] <= n
        /\ Holds(p[1], Copied(p[2])) /\ NoneDeleted(p[1])
    OBVIOUS
  <2> DEFINE u == p[1]
             m == p[2]
             v == IF t[m] \in Checksums THEN DoInsert(u, t[m]) ELSE u
  <2>2. CASE m = n
    BY <1>c, <2>1, <2>2
  <2>3. CASE m # n
    <3>1. m \in Slot /\ m + 1 \in Nat /\ m + 1 <= n
      BY <1>n, <2>1, <2>3
    <3>2. Copying(t)[p] = <<v, m + 1>>
      BY <1>c, <2>1, <2>3
    <3>3. \A s \in 0 .. m - 1 : s \in Slot
      BY <1>n, <2>1
    <3>4. Copied(m) \subseteq set
      BY <3>3 DEF Holds
    <3>5. Copied(m + 1) = Copied(m) \cup ({t[m]} \cap Checksums)
      <4>1. 0 .. (m + 1) - 1 = (0 .. m - 1) \cup {m}
        BY <2>1
      <4> QED BY <4>1
    <3>6. Holds(v, Copied(m + 1)) /\ NoneDeleted(v)
      <4>1. CASE t[m] \notin Checksums
        BY <2>1, <3>5, <4>1
      <4>2. CASE t[m] \in Checksums
        <5>1. t[m] \notin Copied(m)
          <6> SUFFICES ASSUME NEW s \in 0 .. m - 1, t[s] = t[m] PROVE FALSE
            OBVIOUS
          <6>1. s # m /\ s \in Slot
            BY <2>1, <3>3
          <6> QED BY <3>1, <4>2, <6>1 DEF Holds
        <5>2. IsFiniteSet(Copied(m)) /\ Cardinality(Copied(m)) <= Cardinality(set)
          BY <3>4, FS_Subset
        <5>3. Cardinality(Copied(m)) < n
          <6>1. Cardinality(Copied(m)) \in Nat /\ Cardinality(set) \in Nat
            BY <5>2, FS_CardinalityType
          <6> QED BY <1>n, <5>2, <6>1
        <5> HIDE DEF Copied
        <5>4. t[m] \in Checksums \ Copied(m)
          BY <4>2, <5>1
        <5>5. Tries(u, t[m], {EMPTY, DELETED, t[m]}) # {}
          BY <2>1, <4>2, <5>2, <5>3, SlotToTake DEF n
        <5>6. Holds(DoInsert(u, t[m]), Copied(m) \cup {t[m]}) /\ NoneDeleted(DoInsert(u, t[m]))
          BY <2>1, <5>4, <5>5, DoInsertRight
        <5>7. Copied(m + 1) = Copied(m) \cup {t[m]}
          BY <3>5, <4>2
        <5> QED BY <4>2, <5>6, <5>7
      <4> QED BY <4>1, <4>2
    <3>7. v \in Table
      BY <3>6 DEF Holds
    <3> HIDE DEF v, Copied
    <3>8. <<v, m + 1>> \in I
      BY <3>1, <3>6, <3>7
    <3>9. left[<<v, m + 1>>] = n - (m + 1) /\ left[p] = n - m
      BY <3>8
    <3>10. n - (m + 1) < n - m /\ <<v, m + 1>> # p
      BY <1>n, <2>1
    <3> QED BY <2>3, <3>2, <3>8, <3>9, <3>10
  <2> QED BY <2>2, <2>3
<1>3. left \in [I -> Nat]
  BY <1>n
<1>4. left[<<EmptyTable, 0>>] <= n
  BY <1>n, <1>1
<1> HIDE DEF I, left
<1>5. end \in I
  BY <1>n, <1>1, <1>2, LoopKeeps
<1>6. Copying(t)[end] = end
  BY <1>n, <1>1, <1>2, <1>3, <1>4, LoopEnds
<1>7. end[2] = n
  BY <1>2, <1>5, <1>6
<1> HIDE DEF end
<1>8. Holds(end[1], Copied(n)) /\ NoneDeleted(end[1])
  BY <1>5, <1>7 DEF I
<1>9. Copied(n) = set
  BY <1>n DEF Holds
<1> QED BY <1>8, <1>9, <1>g

\* With no slot marked there is an empty one, at which a search ends.
LEMMA NoneDeletedSearchable ==
  ASSUME NEW t, NEW set, Holds(t, set), IsFiniteSet(set), Cardinality(set) < NumSlots, NoneDeleted(t),
         NEW crc \in Checksums
  PROVE  Searchable(t, crc)
<1>1. PICK s \in Slot : t[s] \in {EMPTY, DELETED}
  BY SlotLeft
<1>2. PICK k \in Slot : Probe(crc, k) = s
  BY Marks, ProbesReach
<1>3. t[s] = EMPTY
  BY <1>1 DEF NoneDeleted
<1>4. k \in Tries(t, crc, {EMPTY, crc})
  BY <1>2, <1>3 DEF Tries
<1> QED BY <1>4 DEF Searchable

LEMMA CleanedRight ==
  ASSUME NEW t, NEW set, Holds(t, set), IsFiniteSet(set), Cardinality(set) < NumSlots,
         NEW crc \in Checksums
  PROVE  Holds(Cleaned(t, crc), set) /\ Searchable(Cleaned(t, crc), crc)
<1>1. Holds(Gc(t), set) /\ NoneDeleted(Gc(t))
  BY GcRight
<1>2. Searchable(Gc(t), crc)
  BY <1>1, NoneDeletedSearchable
<1> QED BY <1>1, <1>2 DEF Cleaned

\* A deleted checksum leaves a mark, which no search takes for an empty slot.
LEMMA HashDeleteRight ==
  ASSUME NEW t, NEW set, Holds(t, set), IsFiniteSet(set), Cardinality(set) < NumSlots,
         NEW crc \in set
  PROVE  Holds(HashDelete(t, crc), set \ {crc})
<1> DEFINE u == Cleaned(t, crc)
           w == HashDelete(t, crc)
<1>1. crc \in Checksums /\ crc \in Nat /\ crc # EMPTY /\ crc # DELETED
  BY Marks DEF Holds
<1>2. Holds(u, set)
  BY <1>1, CleanedRight
<1>d. HashDelete(t, crc) = IF Contains(u, crc) THEN Marked(u, FirstSlot(u, crc, {EMPTY, crc})) ELSE u
  BY DEF HashDelete
<1> HIDE DEF u
<1>3. Contains(u, crc)
  BY <1>1, <1>2, ContainsRight
<1>4. Tries(u, crc, {EMPTY, crc}) # {} /\ u[FirstSlot(u, crc, {EMPTY, crc})] = crc
  BY <1>3 DEF Contains, Searchable
<1>5. PICK k \in Slot :
        /\ FirstSlot(u, crc, {EMPTY, crc}) = Probe(crc, k) /\ u[Probe(crc, k)] \in {EMPTY, crc}
        /\ \A l \in Slot : l < k => u[Probe(crc, l)] \notin {EMPTY, crc}
  BY <1>1, <1>4, FirstSlotRight
<1>6. PICK f \in Slot : f = FirstSlot(u, crc, {EMPTY, crc})
  BY <1>1, <1>5, ProbesReach
<1>7. u[f] = crc
  BY <1>4, <1>6
<1>8. w = [u EXCEPT ![f] = DELETED]
  BY <1>3, <1>6, <1>d DEF Marked
<1>9. u \in [Slot -> Checksums \cup {EMPTY, DELETED}]
  BY <1>2 DEF Holds, Table
<1>10. \A s \in Slot : w[s] = IF s = f THEN DELETED ELSE u[s]
  BY <1>8, <1>9
<1>11. w \in [Slot -> Checksums \cup {EMPTY, DELETED}]
  BY <1>8, <1>9
<1> HIDE DEF w
<1>12. \A s \in Slot : u[s] = crc => s = f
  BY <1>1, <1>2, <1>7 DEF Holds
<1>13. \A c \in Checksums : c \in set \ {crc} <=> \E s \in Slot : w[s] = c
  <2> TAKE c \in Checksums
  <2>1. CASE c = crc
    BY <1>10, <1>12, <2>1, Marks
  <2>2. CASE c # crc
    <3>1. c \in set <=> \E s \in Slot : u[s] = c
      BY <1>2 DEF Holds
    <3>2. \A s \in Slot : w[s] = c <=> u[s] = c
      BY <1>7, <1>10, <2>2, Marks
    <3> QED BY <2>2, <3>1, <3>2
  <2> QED BY <2>1, <2>2
<1>14. \A r, s \in Slot : w[r] \in Checksums /\ w[r] = w[s] => r = s
  BY <1>2, <1>10, Marks DEF Holds
<1>15. ASSUME NEW c \in set \ {crc}, NEW j \in Slot, NEW l \in Slot, w[Probe(c, j)] = c, l < j
       PROVE  w[Probe(c, l)] # EMPTY
  <2>1. c \in Checksums /\ c \in Nat
    BY <1>2, Marks DEF Holds
  <2>2. Probe(c, j) \in Slot /\ Probe(c, l) \in Slot
    BY <2>1, ProbesReach
  <2>3. u[Probe(c, j)] = c
    BY <1>10, <1>15, <2>1, <2>2, Marks
  <2>4. u[Probe(c, l)] # EMPTY
    BY <1>2, <1>15, <2>3 DEF Holds
  <2> QED BY <1>10, <2>2, <2>4, Marks
<1>16. set \ {crc} \subseteq Checksums
  BY <1>2 DEF Holds
<1> QED BY <1>11, <1>13, <1>14, <1>15, <1>16 DEF Holds, Table, w

-----------------------------------------------------------------------------
(* Sets as descending lists.                                               *)

\* How many of a set are greater than c.
Rank(S, c) == Cardinality({d \in S : d > c})

\* Every place in a descending list is that of one member.
LEMMA RankRight ==
  ASSUME NEW S, S \subseteq Nat, IsFiniteSet(S)
  PROVE  /\ Cardinality(S) \in Nat
         /\ \A c \in S : Rank(S, c) \in 0 .. Cardinality(S) - 1
         /\ \A c, d \in S : c < d => Rank(S, d) < Rank(S, c)
         /\ \A k \in 0 .. Cardinality(S) - 1 : \E c \in S : Rank(S, c) = k
<1> DEFINE n == Cardinality(S)
           f == [c \in S |-> Rank(S, c)]
<1>1. n \in Nat
  BY FS_CardinalityType
<1>2. \A c : IsFiniteSet({d \in S : d > c}) /\ Rank(S, c) \in Nat
  <2> TAKE c
  <2>1. IsFiniteSet({d \in S : d > c})
    BY FS_Subset
  <2> QED BY <2>1, FS_CardinalityType DEF Rank
<1>3. ASSUME NEW c \in S PROVE Rank(S, c) \in 0 .. n - 1
  <2>1. {d \in S : d > c} \subseteq S \ {c}
    OBVIOUS
  <2>2. IsFiniteSet(S \ {c}) /\ Cardinality(S \ {c}) = n - 1
    BY FS_RemoveElement
  <2>3. Rank(S, c) <= n - 1
    BY <2>1, <2>2, FS_Subset DEF Rank
  <2>4. Rank(S, c) \in Nat
    BY <1>2
  <2> HIDE DEF n
  <2> QED BY <1>1, <2>3, <2>4
<1>4. ASSUME NEW c \in S, NEW d \in S, c < d PROVE Rank(S, d) < Rank(S, c)
  <2> DEFINE C == {e \in S : e > c}
             D == {e \in S : e > d}
  <2>1. D \subseteq C \ {d} /\ d \in C
    <3>1. d \in C /\ c \in Nat /\ d \in Nat
      BY <1>4
    <3>2. ASSUME NEW e \in D PROVE e \in C \ {d}
      <4>1. e \in S /\ e \in Nat /\ e > d
        OBVIOUS
      <4> QED BY <1>4, <3>1, <4>1
    <3> QED BY <3>1, <3>2
  <2>2. IsFiniteSet(C \ {d}) /\ Cardinality(C \ {d}) = Cardinality(C) - 1
    <3>1. IsFiniteSet(C)
      BY <1>2
    <3> HIDE DEF C
    <3> QED BY <2>1, <3>1, FS_RemoveElement
  <2>3. Cardinality(D) <= Cardinality(C) - 1
    BY <2>1, <2>2, FS_Subset
  <2>4. Rank(S, d) = Cardinality(D) /\ Rank(S, c) = Cardinality(C)
    BY DEF Rank
  <2> HIDE DEF C, D
  <2>5. Cardinality(D) \in Nat /\ Cardinality(C) \in Nat
    BY <1>2, <2>4
  <2> QED BY <2>3, <2>4, <2>5
<1>5. f \in Injection(S, 0 .. n - 1)
  <2>1. f \in [S -> 0 .. n - 1]
    BY <1>3
  <2>2. ASSUME NEW c \in S, NEW d \in S, Rank(S, c) = Rank(S, d) PROVE c = d
    <3>1. Rank(S, c) \in Nat /\ c \in Nat /\ d \in Nat
      BY <1>2
    <3>2. ~ (c < d) /\ ~ (d < c)
      BY <1>4, <2>2, <3>1
    <3> QED BY <3>1, <3>2
  <2> QED BY <2>1, <2>2 DEF Injection, IsInjective
<1>6. IsFiniteSet(0 .. n - 1) /\ Cardinality(0 .. n - 1) = n
  <2> HIDE DEF n
  <2> QED BY <1>1, FS_Interval
<1>7. f \in Surjection(S, 0 .. n - 1)
  BY <1>5, <1>6, FS_Injection
<1>8. \A k \in 0 .. n - 1 : \E c \in S : Rank(S, c) = k
  BY <1>7 DEF Surjection
<1> QED BY <1>1, <1>3, <1>4, <1>8

\* A list whose members come in descending order, each once.
IsDescending(f) ==
  /\ f \in Seq(Nat)
  /\ \A k, l \in 1 .. Len(f) : k < l => f[k] > f[l]

LEMMA DescendingRight ==
  ASSUME NEW S, S \subseteq Nat, IsFiniteSet(S)
  PROVE  LET f == Descending(S)
         IN  /\ f \in Seq(S) /\ Len(f) = Cardinality(S)
             /\ \A k \in 1 .. Len(f) : f[k] \in S /\ Rank(S, f[k]) = k - 1
             /\ RangeOf(f) = S /\ IsDescending(f)
<1> DEFINE n == Cardinality(S)
           f == Descending(S)
<1>1. /\ n \in Nat
      /\ \A c \in S : Rank(S, c) \in 0 .. n - 1
      /\ \A c, d \in S : c < d => Rank(S, d) < Rank(S, c)
      /\ \A k \in 0 .. n - 1 : \E c \in S : Rank(S, c) = k
  BY RankRight
<1>2. f = [k \in 1 .. n |-> CHOOSE c \in S : Rank(S, c) = k - 1]
  BY DEF Descending, Rank
<1> HIDE DEF n, f
<1>3. ASSUME NEW k \in 1 .. n PROVE f[k] \in S /\ Rank(S, f[k]) = k - 1
  <2>1. k - 1 \in 0 .. n - 1
    BY <1>1
  <2>2. \E c \in S : Rank(S, c) = k - 1
    BY <1>1, <2>1
  <2> QED BY <1>2, <2>2
<1>4. f \in [1 .. n -> S]
  BY <1>2, <1>3
<1>5. f \in Seq(S) /\ Len(f) = n
  BY <1>1, <1>4, SeqOf
<1>6. f \in Seq(Nat)
  <2>1. f \in [1 .. n -> Nat]
    BY <1>4
  <2> QED BY <1>1, <2>1, SeqOf
<1>7. RangeOf(f) = S
  <2>1. RangeOf(f) = {f[k] : k \in 1 .. n}
    BY <1>4 DEF RangeOf
  <2>2. ASSUME NEW c \in S PROVE \E k \in 1 .. n : f[k] = c
    <3>1. Rank(S, c) + 1 \in 1 .. n /\ (Rank(S, c) + 1) - 1 = Rank(S, c)
      BY <1>1
    <3>2. PICK k \in 1 .. n : k - 1 = Rank(S, c)
      BY <3>1
    <3>3. f[k] \in S /\ Rank(S, f[k]) = Rank(S, c) /\ Rank(S, c) \in Nat
      BY <1>1, <1>3, <3>2
    <3>4. ~ (f[k] < c) /\ ~ (c < f[k])
      <4>1. \A a, b \in S : a < b => Rank(S, b) < Rank(S, a)
        BY <1>1
      <4>2. ~ (Rank(S, c) < Rank(S, c))
        BY <3>3
      <4> QED BY <3>3, <4>1, <4>2
    <3>5. f[k] \in Nat /\ c \in Nat
      BY <3>3
    <3> QED BY <3>4, <3>5
  <2> QED BY <1>3, <2>1, <2>2
<1>8. ASSUME NEW k \in 1 .. n, NEW l \in 1 .. n, k < l PROVE f[k] > f[l]
  <2>1. f[k] \in S /\ f[l] \in S /\ Rank(S, f[k]) = k - 1 /\ Rank(S, f[l]) = l - 1
    BY <1>3
  <2>2. f[k] \in Nat /\ f[l] \in Nat
    BY <2>1
  <2>3. k - 1 < l - 1 /\ k - 1 \in Int /\ l - 1 \in Int
    BY <1>1, <1>8
  <2>4. f[k] # f[l]
    BY <2>1, <2>3
  <2>5. ~ (f[k] < f[l])
    <3>1. f[k] < f[l] => Rank(S, f[l]) < Rank(S, f[k])
      BY <1>1, <2>1
    <3>2. ~ (l - 1 < k - 1)
      BY <2>3
    <3> QED BY <2>1, <3>1, <3>2
  <2> QED BY <2>2, <2>4, <2>5
<1>9. IsDescending(f)
  BY <1>5, <1>6, <1>8 DEF IsDescending
<1> QED BY <1>3, <1>5, <1>7, <1>9 DEF f, n

LEMMA HeapCardinality ==
  ASSUME NEW h \in Seq(Checksums), Distinct(h)
  PROVE  IsFiniteSet(RangeOf(h)) /\ Cardinality(RangeOf(h)) = Len(h)
<1> DEFINE n == Len(h)
           f == [k \in 1 .. n |-> h[k]]
<1>1. n \in Nat /\ RangeOf(h) = {h[k] : k \in 1 .. n}
  BY HeapValues
<1> HIDE DEF n
<1>2. f \in Bijection(1 .. n, RangeOf(h))
  <2>1. f \in [1 .. n -> RangeOf(h)]
    BY <1>1
  <2>2. \A k, l \in 1 .. n : f[k] = f[l] => k = l
    BY DEF Distinct, n
  <2>3. \A x \in RangeOf(h) : \E k \in 1 .. n : f[k] = x
    BY <1>1
  <2> QED BY <2>1, <2>2, <2>3 DEF Bijection, Injection, IsInjective, Surjection
<1>3. IsFiniteSet(1 .. n) /\ Cardinality(1 .. n) = n
  BY <1>1, FS_Interval
<1>4. ExistsBijection(1 .. n, RangeOf(h))
  BY <1>2 DEF ExistsBijection
<1> QED BY <1>3, <1>4, FS_Bijection DEF n

\* What comes off a heap is what is on it, in descending order.
LEMMA ExtractedRight ==
  ASSUME NEW h, IsHeap(h)
  PROVE  Extracted(h) = Descending(RangeOf(h)) /\ Extracted(h) \in Seq(Checksums) /\ Len(Extracted(h)) = Len(h)
<1> DEFINE n == Len(h)
           R == RangeOf(h)
           at(k) == Loop(Extraction, h, k)
           Rest(k) == /\ IsHeap(at(k)) /\ Len(at(k)) = n - k /\ RangeOf(at(k)) \subseteq R
                      /\ \A c \in R \ RangeOf(at(k)) : \A d \in RangeOf(at(k)) : c > d
<1>1. h \in Seq(Checksums) /\ n \in Nat /\ Distinct(h) /\ Heap(h)
  BY DEF IsHeap
<1>2. R \subseteq Checksums /\ R \subseteq Nat /\ IsFiniteSet(R) /\ Cardinality(R) = n
  BY <1>1, HeapValues, HeapCardinality, SimhashAssumption
<1>3. at(0) = h /\ \A k \in Nat : at(k + 1) = Extraction[at(k)]
  BY LoopStep
<1>e. Extracted(h) = [k \in 1 .. n |-> at(k - 1)[1]]
  BY DEF Extracted
<1>0. Rest(0)
  BY <1>1, <1>3 DEF IsHeap
<1> HIDE DEF n, R, at
<1>4. ASSUME NEW k \in Nat, k < n, Rest(k) PROVE Rest(k + 1)
  <2> DEFINE g == at(k)
             m == at(k + 1)
  <2>1. IsHeap(g) /\ g \in Seq(Checksums) /\ Len(g) = n - k /\ RangeOf(g) \subseteq R
    BY <1>4 DEF IsHeap
  <2>2. m = WithoutTop(g)
    BY <1>3, <2>1 DEF Extraction
  <2>3. g # <<>>
    BY <1>1, <1>4, <2>1
  <2>4. IsHeap(m) /\ Len(m) = Len(g) - 1 /\ RangeOf(m) = RangeOf(g) \ {g[1]}
    BY <2>1, <2>2, <2>3, WithoutTopRight
  <2>5. n - k - 1 = n - (k + 1)
    BY <1>1
  <2>6. \A c \in R \ RangeOf(m) : \A d \in RangeOf(m) : c > d
    <3> SUFFICES ASSUME NEW c \in R \ RangeOf(m), NEW d \in RangeOf(m) PROVE c > d
      OBVIOUS
    <3>1. CASE c = g[1]
      <4>1. PICK l \in 1 .. Len(g) : d = g[l]
        BY <2>1, <2>4, HeapValues
      <4>2. g[1] >= g[l]
        BY <2>1, TopIsGreatest DEF IsHeap
      <4>3. c \in Nat /\ d \in Nat /\ d # c
        BY <1>2, <2>1, <2>4, <3>1
      <4> QED BY <3>1, <4>1, <4>2, <4>3
    <3>2. CASE c # g[1]
      BY <1>4, <2>4, <3>2
    <3> QED BY <3>1, <3>2
  <2> HIDE DEF g, m
  <2>7. RangeOf(m) \subseteq R /\ Len(m) = n - (k + 1)
    BY <2>1, <2>4, <2>5
  <2> QED BY <2>4, <2>6, <2>7 DEF m
<1>5. ASSUME NEW k \in Nat, k <= n PROVE Rest(k)
  <2> HIDE DEF Rest
  <2> DEFINE T == {l \in Nat : l <= n /\ ~Rest(l)}
  <2> SUFFICES ASSUME T # {} PROVE FALSE
    BY <1>5
  <2>1. T \subseteq Nat
    OBVIOUS
  <2> HIDE DEF T
  <2>2. PICK l \in T : \A j \in T : l <= j
    BY <2>1, LeastNatural
  <2>3. l \in Nat /\ l <= n /\ ~Rest(l)
    BY <2>2 DEF T
  <2>4. l # 0
    BY <1>0, <2>3
  <2>5. l - 1 \in Nat /\ l - 1 < n /\ l - 1 \notin T /\ (l - 1) + 1 = l
    BY <1>1, <2>2, <2>3, <2>4
  <2>6. Rest(l - 1)
    BY <1>1, <2>5 DEF T
  <2> QED BY <1>4, <2>3, <2>5, <2>6
<1>6. ASSUME NEW k \in 1 .. n PROVE at(k - 1)[1] \in R /\ Rank(R, at(k - 1)[1]) = k - 1
  <2> DEFINE g == at(k - 1)
             x == g[1]
  <2>1. k - 1 \in Nat /\ k - 1 <= n /\ n - (k - 1) \in Nat /\ n - (k - 1) >= 1
    BY <1>1
  <2>2. /\ IsHeap(g) /\ g \in Seq(Checksums) /\ Distinct(g) /\ Heap(g) /\ Len(g) = n - (k - 1)
        /\ RangeOf(g) \subseteq R
        /\ \A c \in R \ RangeOf(g) : \A d \in RangeOf(g) : c > d
    BY <1>5, <2>1 DEF IsHeap
  <2> HIDE DEF g
  <2>3. 1 \in 1 .. Len(g)
    BY <1>1, <2>1, <2>2
  <2>4. x \in RangeOf(g) /\ x \in Nat /\ RangeOf(g) = {g[l] : l \in 1 .. Len(g)}
    BY <1>2, <2>2, <2>3, HeapValues
  <2>5. \A d \in RangeOf(g) : ~ (d > x)
    <3> SUFFICES ASSUME NEW l \in 1 .. Len(g) PROVE ~ (g[l] > x)
      BY <2>4
    <3>1. x >= g[l] /\ g[l] \in Nat
      BY <2>2, TopIsGreatest, HeapValues
    <3> QED BY <2>4, <3>1
  <2> HIDE DEF x
  <2>6. {d \in R : d > x} = R \ RangeOf(g)
    BY <2>2, <2>4, <2>5
  <2>7. R \cap RangeOf(g) = RangeOf(g)
    BY <2>2
  <2>8. Cardinality(RangeOf(g)) = n - (k - 1)
    BY <2>2, HeapCardinality
  <2>9. Cardinality(R \ RangeOf(g)) = n - (n - (k - 1))
    <3>1. Cardinality(R \ RangeOf(g)) = Cardinality(R) - Cardinality(R \cap RangeOf(g))
      BY <1>2, FS_Difference
    <3> QED BY <1>2, <2>7, <2>8, <3>1
  <2>10. n - (n - (k - 1)) = k - 1
    BY <1>1
  <2> QED BY <2>2, <2>4, <2>6, <2>9, <2>10 DEF Rank, x, g
<1>7. Descending(R) = [k \in 1 .. n |-> CHOOSE c \in R : Rank(R, c) = k - 1]
  BY <1>2 DEF Descending, Rank
<1>8. \A k \in 1 .. n : at(k - 1)[1] = CHOOSE c \in R : Rank(R, c) = k - 1
  <2> TAKE k \in 1 .. n
  <2> DEFINE x == at(k - 1)[1]
             y == CHOOSE c \in R : Rank(R, c) = k - 1
  <2>1. x \in R /\ Rank(R, x) = k - 1
    BY <1>6
  <2>2. y \in R /\ Rank(R, y) = k - 1
    BY <2>1
  <2> HIDE DEF x, y
  <2>3. Rank(R, x) \in Int /\ x \in Nat /\ y \in Nat
    BY <1>1, <1>2, <2>1, <2>2
  <2>4. ~ (x < y) /\ ~ (y < x)
    <3>1. \A c, d \in R : c < d => Rank(R, d) < Rank(R, c)
      BY <1>2, RankRight
    <3> QED BY <2>1, <2>2, <2>3, <3>1
  <2> QED BY <2>3, <2>4 DEF x, y
<1>9. Extracted(h) = Descending(R)
  BY <1>e, <1>7, <1>8
<1>10. Extracted(h) \in [1 .. n -> Checksums]
  BY <1>2, <1>6, <1>e
<1>11. Extracted(h) \in Seq(Checksums) /\ Len(Extracted(h)) = n
  BY <1>1, <1>10, SeqOf
<1> QED BY <1>9, <1>11 DEF R, n

-----------------------------------------------------------------------------
(* The smallest of a set.                                                  *)

\* What is kept of a set that has been seen: with every member all that are
\* smaller, and either everything or as many as there is room for.
Kept(kept, S) ==
  /\ kept \subseteq S
  /\ \A c \in kept : \A d \in S : d < c => d \in kept
  /\ Cardinality(kept) <= NumFeatures
  /\ kept = S \/ Cardinality(kept) = NumFeatures

LEMMA KeptAreSmallest ==
  ASSUME NEW S, S \subseteq Nat, IsFiniteSet(S), NEW kept, Kept(kept, S)
  PROVE  kept = Smallest(S)
<1>1. IsFiniteSet(kept) /\ Cardinality(kept) \in Nat /\ NumFeatures \in Nat /\ kept \subseteq S
  BY FS_Subset, FS_CardinalityType, SimhashAssumption DEF Kept
<1>2. ASSUME NEW c \in kept PROVE Cardinality({d \in S : d < c}) < NumFeatures
  <2>1. {d \in S : d < c} \subseteq kept \ {c}
    <3>1. c \in Nat /\ ~ (c < c)
      BY <1>1
    <3> QED BY <3>1 DEF Kept
  <2>2. IsFiniteSet(kept \ {c}) /\ Cardinality(kept \ {c}) = Cardinality(kept) - 1
    BY <1>1, FS_RemoveElement
  <2>3. Cardinality({d \in S : d < c}) <= Cardinality(kept) - 1 /\ IsFiniteSet({d \in S : d < c})
    BY <2>1, <2>2, FS_Subset
  <2>4. Cardinality({d \in S : d < c}) \in Nat /\ Cardinality(kept) <= NumFeatures
    BY <2>3, FS_CardinalityType DEF Kept
  <2> QED BY <1>1, <2>3, <2>4
<1>3. ASSUME NEW c \in S, c \notin kept PROVE ~ (Cardinality({d \in S : d < c}) < NumFeatures)
  <2>1. Cardinality(kept) = NumFeatures
    BY <1>3 DEF Kept
  <2>2. kept \subseteq {d \in S : d < c}
    <3> SUFFICES ASSUME NEW k \in kept PROVE k < c
      BY <1>1
    <3>1. k \in Nat /\ c \in Nat /\ k # c
      BY <1>1, <1>3
    <3>2. ~ (c < k)
      BY <1>3 DEF Kept
    <3> QED BY <3>1, <3>2
  <2>3. IsFiniteSet({d \in S : d < c})
    BY FS_Subset
  <2>4. Cardinality(kept) <= Cardinality({d \in S : d < c}) /\ Cardinality({d \in S : d < c}) \in Nat
    BY <2>2, <2>3, FS_Subset, FS_CardinalityType
  <2> QED BY <1>1, <2>1, <2>4
<1> QED BY <1>1, <1>2, <1>3 DEF Smallest

\* A checksum that is kept already changes nothing,
LEMMA KeptAgain ==
  ASSUME NEW S, NEW kept, Kept(kept, S), NEW c \in kept
  PROVE  Kept(kept, S \cup {c})
<1>1. S \cup {c} = S
  BY DEF Kept
<1> QED BY <1>1

\* nor does one that is not smaller than any that is kept, when they are all
\* there is room for;
LEMMA KeptTooGreat ==
  ASSUME NEW S, S \subseteq Nat, NEW kept, Kept(kept, S), NEW c \in Nat,
         Cardinality(kept) = NumFeatures, \A d \in kept : d <= c
  PROVE  Kept(kept, S \cup {c})
<1>1. kept \subseteq S \cup {c}
  BY DEF Kept
<1>2. ASSUME NEW b \in kept, NEW d \in S \cup {c}, d < b PROVE d \in kept
  <2>1. b \in Nat /\ b <= c
    BY DEF Kept
  <2>2. d # c
    BY <1>2, <2>1
  <2> QED BY <1>2, <2>2 DEF Kept
<1> QED BY <1>1, <1>2 DEF Kept

\* another is added while there is room,
LEMMA KeptAdded ==
  ASSUME NEW S, IsFiniteSet(S), NEW kept, Kept(kept, S), NEW c, c \notin kept,
         Cardinality(kept) # NumFeatures
  PROVE  Kept(kept \cup {c}, S \cup {c})
<1>1. kept = S /\ IsFiniteSet(kept)
  BY DEF Kept
<1>2. Cardinality(kept \cup {c}) = Cardinality(kept) + 1
  BY <1>1, FS_AddElement
<1>3. Cardinality(kept) \in Nat /\ NumFeatures \in Nat /\ Cardinality(kept) <= NumFeatures
  BY <1>1, FS_CardinalityType, SimhashAssumption DEF Kept
<1>4. Cardinality(kept \cup {c}) <= NumFeatures
  BY <1>2, <1>3
<1> QED BY <1>1, <1>4 DEF Kept

\* and takes the place of the greatest when there is none.
LEMMA KeptReplaced ==
  ASSUME NEW S, S \subseteq Nat, IsFiniteSet(S), NEW kept, Kept(kept, S), NEW c \in Nat, c \notin kept,
         NEW m \in kept, \A d \in kept : d <= m, c < m, Cardinality(kept) = NumFeatures
  PROVE  Kept((kept \ {m}) \cup {c}, S \cup {c})
<1> DEFINE rest == kept \ {m}
<1>1. IsFiniteSet(kept) /\ Cardinality(kept) \in Nat /\ kept \subseteq S /\ m \in Nat
  BY FS_Subset, FS_CardinalityType DEF Kept
<1>2. IsFiniteSet(rest) /\ Cardinality(rest) = Cardinality(kept) - 1
  BY <1>1, FS_RemoveElement
<1>3. Cardinality(rest \cup {c}) = Cardinality(rest) + 1
  BY <1>2, FS_AddElement
<1>4. Cardinality(rest \cup {c}) = NumFeatures
  BY <1>1, <1>2, <1>3
<1>5. ASSUME NEW b \in rest \cup {c}, NEW d \in S \cup {c}, d < b PROVE d \in rest \cup {c}
  <2>1. b \in Nat /\ d \in Nat /\ b <= m
    BY <1>1
  <2>2. d < m
    BY <1>1, <1>5, <2>1
  <2>3. d = c \/ d \in kept
    <3>1. CASE d = c
      BY <3>1
    <3>2. CASE d # c
      BY <2>2, <3>2 DEF Kept
    <3> QED BY <3>1, <3>2
  <2>4. d # m
    BY <2>1, <2>2
  <2> QED BY <2>3, <2>4
<1>6. NumFeatures \in Nat
  BY SimhashAssumption
<1> QED BY <1>1, <1>4, <1>5, <1>6 DEF Kept

-----------------------------------------------------------------------------
(* The comparison of two lists.                                            *)

First(f, k) == {f[l] : l \in 1 .. k}

LEMMA FirstNext ==
  ASSUME NEW f, NEW k \in Nat, k # 0
  PROVE  First(f, k) = First(f, k - 1) \cup {f[k]} /\ k - 1 \in Nat
<1>1. 1 .. k = (1 .. k - 1) \cup {k}
  OBVIOUS
<1> QED BY <1>1 DEF First

LEMMA FirstGreater ==
  ASSUME NEW f, IsDescending(f), NEW k \in 1 .. Len(f)
  PROVE  /\ f[k] \in Nat
         /\ \A x \in First(f, k) : x \in Nat /\ x >= f[k]
         /\ \A x \in First(f, k - 1) : x \in Nat /\ x > f[k]
<1>1. \A l \in 1 .. Len(f) : f[l] \in Nat
  BY DEF IsDescending
<1>2. k \in Nat /\ Len(f) \in Nat
  BY DEF IsDescending
<1>3. ASSUME NEW l \in 1 .. k - 1 PROVE f[l] \in Nat /\ f[l] > f[k]
  <2>1. l \in 1 .. Len(f) /\ l < k
    BY <1>2
  <2> QED BY <1>1, <2>1 DEF IsDescending
<1>4. ASSUME NEW l \in 1 .. k PROVE f[l] \in Nat /\ f[l] >= f[k]
  <2>1. CASE l = k
    BY <1>1, <2>1
  <2>2. CASE l # k
    <3>1. l \in 1 .. k - 1
      BY <1>2, <2>2
    <3> QED BY <1>1, <1>3, <3>1
  <2> QED BY <2>1, <2>2
<1> QED BY <1>1, <1>3, <1>4 DEF First

\* The walk counts the members that the lists have in common.
LEMMA MatchCountRight ==
  ASSUME NEW f, IsDescending(f), NEW g, IsDescending(g)
  PROVE  MatchCount(f, g) = Cardinality(RangeOf(f) \cap RangeOf(g))
<1> DEFINE Common(j, k) == First(f, j) \cap First(g, k)
           all == Cardinality(RangeOf(f) \cap RangeOf(g))
           m == Len(f)
           n == Len(g)
           I == {s \in Nat \X Nat \X Nat :
                   s[1] <= m /\ s[2] <= n /\ s[3] + Cardinality(Common(s[1], s[2])) = all}
           left == [s \in I |-> s[1] + s[2]]
           end == Loop(Walking(f, g), <<m, n, 0>>, m + n)
<1>1. m \in Nat /\ n \in Nat /\ RangeOf(f) = First(f, m) /\ RangeOf(g) = First(g, n)
  <2>1. DOMAIN f = 1 .. Len(f) /\ DOMAIN g = 1 .. Len(g) /\ Len(f) \in Nat /\ Len(g) \in Nat
    BY DEF IsDescending
  <2> QED BY <2>1 DEF RangeOf, First
<1>2. all = Cardinality(Common(m, n)) /\ MatchCount(f, g) = end[3]
  BY <1>1 DEF MatchCount
<1> DEFINE Step(j, k, c) ==
             IF j = 0 \/ k = 0 THEN <<j, k, c>>
             ELSE IF f[j] = g[k] THEN <<j - 1, k - 1, c + 1>>
             ELSE IF f[j] < g[k] THEN <<j - 1, k, c>>
             ELSE <<j, k - 1, c>>
<1>3. \A s \in Nat \X Nat \X Nat : Walking(f, g)[s] = Step(s[1], s[2], s[3])
  BY DEF Walking, BehindGoesOn
<1>4. \A j, k \in Nat : j <= m /\ k <= n => IsFiniteSet(Common(j, k)) /\ Cardinality(Common(j, k)) \in Nat
  <2> TAKE j, k \in Nat
  <2> HAVE j <= m /\ k <= n
  <2> DEFINE top == f[1]
  <2>1. CASE j = 0
    <3>1. Common(j, k) = {}
      BY <2>1 DEF First
    <3> QED BY <3>1, FS_EmptySet
  <2>2. CASE j # 0
    <3>1. 1 \in 1 .. m /\ j \in 1 .. m
      BY <1>1, <2>2
    <3>2. f[1] \in Nat
      BY <3>1, FirstGreater
    <3>3. ASSUME NEW l \in 1 .. j PROVE f[l] \in Nat /\ f[l] <= f[1]
      <4>1. l \in 1 .. m /\ (l = 1 \/ 1 < l)
        BY <1>1
      <4>2. f[l] \in Nat
        BY <4>1, FirstGreater
      <4>3. l # 1 => f[1] > f[l]
        BY <3>1, <4>1 DEF IsDescending
      <4> QED BY <3>2, <4>2, <4>3
    <3>4. First(f, j) \in SUBSET Nat /\ \A x \in First(f, j) : x <= f[1]
      BY <3>3 DEF First
    <3>5. IsFiniteSet(First(f, j))
      BY <3>2, <3>4, FS_BoundedSetOfNaturals
    <3>6. IsFiniteSet(Common(j, k))
      BY <3>5, FS_Intersection
    <3> QED BY <3>6, FS_CardinalityType
  <2> QED BY <2>1, <2>2
<1>5. all \in Nat
  <2> HIDE DEF m, n, Common, all
  <2>1. m \in Nat /\ n \in Nat /\ m <= m /\ n <= n
    BY <1>1
  <2>2. Cardinality(Common(m, n)) \in Nat
    BY <1>4, <2>1
  <2> QED BY <1>2, <2>2
<1>6. <<m, n, 0>> \in I
  <2>1. 0 + Cardinality(Common(m, n)) = all
    BY <1>2, <1>5
  <2> HIDE DEF Common, all, m, n
  <2> QED BY <1>1, <2>1
<1>7. ASSUME NEW s \in I
      PROVE  /\ Walking(f, g)[s] \in I
             /\ Walking(f, g)[s] = s \/ left[Walking(f, g)[s]] < left[s]
             /\ Walking(f, g)[s] = s => s[1] = 0 \/ s[2] = 0
  <2> DEFINE j == s[1]
             k == s[2]
             c == s[3]
             to == Walking(f, g)[s]
  <2>1. /\ j \in Nat /\ k \in Nat /\ c \in Nat /\ j <= m /\ k <= n /\ s = <<j, k, c>>
        /\ c + Cardinality(Common(j, k)) = all /\ s \in Nat \X Nat \X Nat
    OBVIOUS
  <2>2. to = Step(j, k, c)
    BY <1>3, <2>1
  <2>l. left[s] = j + k
    OBVIOUS
  <2> HIDE DEF j, k, c, to, m, n, all
  <2>3. CASE j = 0 \/ k = 0
    BY <2>1, <2>2, <2>3 DEF to, j, k
  <2>4. CASE j # 0 /\ k # 0
    <3>1. j \in 1 .. m /\ k \in 1 .. n /\ j - 1 \in Nat /\ k - 1 \in Nat /\ j - 1 <= m /\ k - 1 <= n
      BY <1>1, <2>1, <2>4
    <3>2. /\ f[j] \in Nat /\ g[k] \in Nat
          /\ \A x \in First(f, j) : x \in Nat /\ x >= f[j]
          /\ \A x \in First(f, j - 1) : x \in Nat /\ x > f[j]
          /\ \A x \in First(g, k) : x \in Nat /\ x >= g[k]
          /\ \A x \in First(g, k - 1) : x \in Nat /\ x > g[k]
      BY <3>1, FirstGreater DEF m, n
    <3>3. First(f, j) = First(f, j - 1) \cup {f[j]} /\ First(g, k) = First(g, k - 1) \cup {g[k]}
      BY <2>1, <2>4, FirstNext
    <3>4. CASE f[j] = g[k]
      <4>1. to = <<j - 1, k - 1, c + 1>>
        BY <2>2, <2>4, <3>4
      <4>2. f[j] \notin First(f, j - 1) /\ g[k] \notin First(g, k - 1)
        BY <3>2
      <4>3. Common(j, k) = Common(j - 1, k - 1) \cup {f[j]} /\ f[j] \notin Common(j - 1, k - 1)
        BY <3>3, <3>4, <4>2
      <4> HIDE DEF Common
      <4>4. Cardinality(Common(j, k)) = Cardinality(Common(j - 1, k - 1)) + 1
        BY <1>4, <3>1, <4>3, FS_AddElement
      <4>5. Cardinality(Common(j - 1, k - 1)) \in Nat
        BY <1>4, <3>1
      <4>6. (c + 1) + Cardinality(Common(j - 1, k - 1)) = all
        BY <2>1, <4>4, <4>5
      <4>7. to \in I
        BY <2>1, <3>1, <4>1, <4>6
      <4>8. left[to] = (j - 1) + (k - 1) /\ to # s
        BY <2>1, <4>1, <4>7
      <4> QED BY <2>1, <2>l, <4>7, <4>8 DEF to
    <3>5. CASE f[j] < g[k]
      <4>1. to = <<j - 1, k, c>>
        BY <2>2, <2>4, <3>2, <3>5
      <4>2. f[j] \notin First(g, k)
        BY <3>2, <3>5
      <4>3. Common(j, k) = Common(j - 1, k)
        BY <3>3, <4>2
      <4> HIDE DEF Common
      <4>4. to \in I
        BY <2>1, <3>1, <4>1, <4>3
      <4>5. left[to] = (j - 1) + k /\ to # s
        BY <2>1, <4>1, <4>4
      <4> QED BY <2>1, <2>l, <4>4, <4>5 DEF to
    <3>6. CASE f[j] > g[k]
      <4>1. to = <<j, k - 1, c>>
        BY <2>2, <2>4, <3>2, <3>6
      <4>2. g[k] \notin First(f, j)
        BY <3>2, <3>6
      <4>3. Common(j, k) = Common(j, k - 1)
        BY <3>3, <4>2
      <4> HIDE DEF Common
      <4>4. to \in I
        BY <2>1, <3>1, <4>1, <4>3
      <4>5. left[to] = j + (k - 1) /\ to # s
        BY <2>1, <4>1, <4>4
      <4> QED BY <2>1, <2>l, <4>4, <4>5 DEF to
    <3> QED BY <3>2, <3>4, <3>5, <3>6
  <2> QED BY <2>3, <2>4
<1>8. left \in [I -> Nat]
  OBVIOUS
<1>9. m + n \in Nat /\ left[<<m, n, 0>>] <= m + n
  BY <1>1, <1>6
<1> HIDE DEF I, left
<1>10. end \in I
  BY <1>6, <1>7, <1>9, LoopKeeps
<1>11. Walking(f, g)[end] = end
  BY <1>6, <1>7, <1>8, <1>9, LoopEnds
<1> HIDE DEF end
<1>12. end[1] = 0 \/ end[2] = 0
  BY <1>7, <1>10, <1>11
<1>13. end[3] \in Nat /\ end[3] + Cardinality(Common(end[1], end[2])) = all
  BY <1>10 DEF I
<1>14. Common(end[1], end[2]) = {}
  BY <1>12 DEF First
<1>15. Cardinality(Common(end[1], end[2])) = 0
  BY <1>14, FS_EmptySet
<1> QED BY <1>2, <1>13, <1>15

\* A quotient and what it leaves.
LEMMA Quotient ==
  ASSUME NEW d \in Nat \ {0}, NEW x \in Nat
  PROVE  \E q \in Nat, r \in Nat : q = x \div d /\ r < d /\ x = d * q + r
<1> DEFINE q == x \div d
           r == x % d
<1>1. q \in Nat /\ r \in 0 .. d - 1 /\ x = d * q + r
  BY DivMod, Zenon
<1>2. q = x \div d
  OBVIOUS
<1> HIDE DEF q, r
<1>3. r \in Nat /\ r < d
  BY <1>1
<1> QED BY <1>1, <1>2, <1>3

\* A smaller divisor gives no smaller quotient.
LEMMA QuotientOrder ==
  ASSUME NEW d \in Nat \ {0}, NEW e \in Nat \ {0}, d <= e, NEW x \in Nat
  PROVE  x \div d \in Nat /\ x \div e \in Nat /\ x \div e <= x \div d
<1>1. PICK p \in Nat, r \in Nat : p = x \div d /\ r < d /\ x = d * p + r
  BY Quotient
<1>2. PICK q \in Nat, s \in Nat : q = x \div e /\ s < e /\ x = e * q + s
  BY Quotient
<1>3. q <= p
  <2> SUFFICES ASSUME q > p PROVE FALSE
    OBVIOUS
  <2>1. PICK k \in Nat : q = p + 1 + k
    <3>1. q - p - 1 \in Nat /\ q = p + 1 + (q - p - 1)
      OBVIOUS
    <3> QED BY <3>1
  <2>2. PICK j \in Nat : e = d + j
    <3>1. e - d \in Nat /\ e = d + (e - d)
      OBVIOUS
    <3> QED BY <3>1
  <2>3. /\ e * q = d * q + j * q /\ d * q = d * p + d + d * k
        /\ j * q \in Nat /\ d * k \in Nat /\ d * p \in Nat
    BY <2>1, <2>2
  <2> QED BY <1>1, <1>2, <2>3
<1> QED BY <1>1, <1>2, <1>3

\* 255 times a part m of d is a byte, nothing only if m is, unless d is too great.
LEMMA Portion ==
  ASSUME NEW d \in Nat \ {0}, NEW m \in Nat, m <= d
  PROVE  /\ (255 * m) \div d \in 0 .. 255
         /\ (255 * m) \div d = 255 <=> m = d
         /\ d <= 255 => ((255 * m) \div d = 0 <=> m = 0)
         /\ m = 0 => (255 * m) \div d = 0
<1>1. PICK x \in Nat : x = 255 * m
  OBVIOUS
<1>2. PICK q \in Nat, r \in Nat : q = x \div d /\ r < d /\ x = d * q + r
  BY Quotient
<1>3. q <= 255
  <2> SUFFICES ASSUME q > 255 PROVE FALSE
    OBVIOUS
  <2>1. PICK e \in Nat : q = 256 + e
    <3>1. q - 256 \in Nat /\ q = 256 + (q - 256)
      BY <1>2
    <3> QED BY <3>1
  <2>2. d * q = 256 * d + d * e /\ d * e \in Nat
    BY <2>1
  <2> QED BY <1>1, <1>2, <2>2
<1>4. ASSUME m = d, q < 255 PROVE FALSE
  <2>1. PICK e \in Nat : q + 1 + e = 255
    <3>1. 255 - 1 - q \in Nat /\ q + 1 + (255 - 1 - q) = 255
      BY <1>4
    <3> QED BY <3>1
  <2>2. x = d * (q + 1 + e)
    BY <1>1, <1>4, <2>1
  <2>3. d * (q + 1 + e) = d * q + d + d * e /\ d * e \in Nat /\ d * q \in Nat
    OBVIOUS
  <2> QED BY <1>2, <2>2, <2>3
<1>5. ASSUME q = 255 PROVE m = d
  <2>1. d * q = 255 * d
    BY <1>5
  <2> QED BY <1>1, <1>2, <2>1
<1>6. ASSUME d <= 255, q = 0 PROVE m = 0
  <2>1. d * q = 0
    BY <1>6
  <2> QED BY <1>1, <1>2, <1>6, <2>1
<1>7. ASSUME m = 0 PROVE q = 0
  <2> SUFFICES ASSUME q # 0 PROVE FALSE
    OBVIOUS
  <2>1. PICK e \in Nat : q = 1 + e
    <3>1. q - 1 \in Nat /\ q = 1 + (q - 1)
      OBVIOUS
    <3> QED BY <3>1
  <2>2. d * q = d + d * e /\ d * e \in Nat
    BY <2>1
  <2> QED BY <1>1, <1>2, <1>7, <2>2
<1> QED BY <1>1, <1>2, <1>3, <1>4, <1>5, <1>6, <1>7

\* How far apart two lists are that have m members in common out of d.
Apart(m, d) == 255 - (255 * m) \div d

\* A byte, nothing only for those that have all in common, and the most for those
\* that have nothing (and only for them, unless d is too great).
LEMMA ApartBounds ==
  ASSUME NEW d \in Nat \ {0}, NEW m \in Nat, m <= d
  PROVE  \E a \in Nat : /\ a = Apart(m, d) /\ a <= 255
                        /\ a = 0 <=> m = d
                        /\ m = 0 => a = 255
<1>1. PICK p \in Nat : p = (255 * m) \div d /\ p <= 255
  BY Portion
<1>2. (p = 255 <=> m = d) /\ (m = 0 => p = 0)
  BY <1>1, Portion
<1>3. PICK a \in Nat : a = Apart(m, d) /\ a = 255 - p /\ a <= 255
  <2>1. 255 - p \in Nat /\ 255 - p <= 255 /\ Apart(m, d) = 255 - p
    BY <1>1 DEF Apart
  <2> QED BY <2>1
<1> QED BY <1>2, <1>3

LEMMA ApartMost ==
  ASSUME NEW d \in Nat \ {0}, d <= 255, NEW m \in Nat, m <= d, Apart(m, d) = 255
  PROVE  m = 0
<1>1. PICK p \in Nat : p = (255 * m) \div d /\ p <= 255
  BY Portion
<1>2. p = 0 <=> m = 0
  BY <1>1, Portion
<1>3. Apart(m, d) = 255 - p
  BY <1>1 DEF Apart
<1> QED BY <1>1, <1>2, <1>3

\* Of more, they are farther.
LEMMA ApartOrder ==
  ASSUME NEW d \in Nat \ {0}, NEW e \in Nat \ {0}, d <= e, NEW m \in Nat, m <= d
  PROVE  \E a \in Nat, b \in Nat : a = Apart(m, d) /\ b = Apart(m, e) /\ a <= b
<1>1. PICK p \in Nat : p = (255 * m) \div d /\ p <= 255
  BY Portion
<1>2. m <= e
  OBVIOUS
<1>3. PICK u \in Nat : u = (255 * m) \div e /\ u <= 255
  BY <1>2, Portion
<1>4. u <= p
  <2>1. PICK x \in Nat : x = 255 * m
    OBVIOUS
  <2>2. x \div e <= x \div d
    BY QuotientOrder
  <2> QED BY <1>1, <1>3, <2>1, <2>2
<1>5. PICK a \in Nat : a = Apart(m, d) /\ a = 255 - p
  <2>1. 255 - p \in Nat /\ Apart(m, d) = 255 - p
    BY <1>1 DEF Apart
  <2> QED BY <2>1
<1>6. PICK b \in Nat : b = Apart(m, e) /\ b = 255 - u
  <2>1. 255 - u \in Nat /\ Apart(m, e) = 255 - u
    BY <1>3 DEF Apart
  <2> QED BY <2>1
<1>7. a <= b
  BY <1>4, <1>5, <1>6
<1> QED BY <1>5, <1>6, <1>7

\* How many two sets have in common, how many their union has, and what the code
\* takes for that: at most as many, and as many if the two are of the same size.
CommonSize(S, T) == Cardinality(S \cap T)
FullSize(S, T) == Cardinality(S \cup T)
UnionSize(S, T) ==
  2 * (IF Cardinality(S) > Cardinality(T) THEN Cardinality(T) ELSE Cardinality(S)) - CommonSize(S, T)

LEMMA UnionSizeRight ==
  ASSUME NEW S, IsFiniteSet(S), S # {}, NEW T, IsFiniteSet(T), T # {}
  PROVE  /\ UnionSize(S, T) \in Nat \ {0} /\ CommonSize(S, T) \in Nat /\ FullSize(S, T) \in Nat \ {0}
         /\ CommonSize(S, T) <= UnionSize(S, T) /\ UnionSize(S, T) <= FullSize(S, T)
         /\ Cardinality(S) = Cardinality(T) => UnionSize(S, T) = FullSize(S, T)
         /\ S \subseteq T => CommonSize(S, T) = UnionSize(S, T)
         /\ CommonSize(S, T) = FullSize(S, T) => S = T
         /\ CommonSize(S, T) = 0 <=> S \cap T = {}
<1>1. PICK k \in Nat : k = Cardinality(S) /\ k # 0
  BY FS_CardinalityType, FS_EmptySet
<1>2. PICK l \in Nat : l = Cardinality(T) /\ l # 0
  BY FS_CardinalityType, FS_EmptySet
<1>3. IsFiniteSet(S \cap T) /\ Cardinality(S \cap T) <= k
  BY <1>1, FS_Intersection
<1>4. Cardinality(S \cap T) <= l
  BY <1>2, FS_Intersection
<1>5. PICK m \in Nat : m = Cardinality(S \cap T) /\ (m = 0 <=> S \cap T = {})
  BY <1>3, FS_CardinalityType, FS_EmptySet
<1>6. ASSUME S \subseteq T PROVE m = k /\ k <= l
  <2>1. S \cap T = S
    BY <1>6
  <2> QED BY <1>1, <1>4, <1>5, <2>1
<1>7. Cardinality(S \cup T) = k + l - m /\ IsFiniteSet(S \cup T)
  BY <1>1, <1>2, <1>5, FS_Union
<1>8. ASSUME m = k + l - m PROVE S = T
  <2>1. m = Cardinality(S \cup T)
    BY <1>7, <1>8
  <2>2. S \cap T \in SUBSET (S \cup T)
    OBVIOUS
  <2>3. S \cap T = S \cup T
    BY <1>5, <1>7, <2>1, <2>2, FS_Subset
  <2> QED BY <2>3
<1>9. CommonSize(S, T) = m /\ FullSize(S, T) = k + l - m
  BY <1>5, <1>7 DEF CommonSize, FullSize
<1>10. UnionSize(S, T) = 2 * (IF k > l THEN l ELSE k) - m
  BY <1>1, <1>2, <1>9 DEF UnionSize
<1>11. PICK d \in Nat : d = 2 * (IF k > l THEN l ELSE k) - m
  BY <1>3, <1>4, <1>5, <1>1
<1>12. /\ d # 0 /\ m <= d /\ d <= k + l - m /\ (k = l => d = k + l - m)
       /\ m = k /\ k <= l => m = d
  BY <1>1, <1>2, <1>3, <1>4, <1>5, <1>11
<1>13. k + l - m \in Nat \ {0}
  BY <1>1, <1>2, <1>3, <1>4, <1>5
<1> QED BY <1>1, <1>2, <1>5, <1>6, <1>8, <1>9, <1>10, <1>11, <1>12, <1>13

\* The distance of two files, from what their lists have in common, and the one
\* by the union.
FeatureSet(S) == S \subseteq Nat /\ IsFiniteSet(S) /\ S # {}
ListsOf(f, S, g, T) == FeatureSet(S) /\ FeatureSet(T) /\ f = Descending(S) /\ g = Descending(T)

LEMMA DistanceOfLists ==
  ASSUME NEW S, NEW T, NEW f, NEW g, ListsOf(f, S, g, T)
  PROVE  /\ MatchCount(f, g) = CommonSize(S, T)
         /\ Distance(f, g) = Apart(CommonSize(S, T), UnionSize(S, T))
         /\ Distance(g, f) = Distance(f, g)
         /\ UnionDistance(f, g) = Apart(CommonSize(S, T), FullSize(S, T))
<1> DEFINE m == Cardinality(S \cap T)
           least == IF Len(f) > Len(g) THEN Len(g) ELSE Len(f)
<1>1. /\ RangeOf(f) = S /\ IsDescending(f) /\ Len(f) = Cardinality(S)
      /\ RangeOf(g) = T /\ IsDescending(g) /\ Len(g) = Cardinality(T)
  BY DescendingRight DEF ListsOf, FeatureSet
<1>2. MatchCount(f, g) = m
  BY <1>1, MatchCountRight
<1>3. MatchCount(g, f) = m
  <2>1. T \cap S = S \cap T
    OBVIOUS
  <2> QED BY <1>1, <2>1, MatchCountRight
<1>4. Len(f) \in Nat /\ Len(g) \in Nat
  BY <1>1, FS_CardinalityType DEF ListsOf, FeatureSet
<1>5. least = IF Len(g) > Len(f) THEN Len(f) ELSE Len(g)
  BY <1>4
<1>6. Distance(f, g) = 255 - (255 * m) \div (2 * least - m)
  BY <1>2 DEF Distance
<1>7. Distance(g, f) = 255 - (255 * m) \div (2 * (IF Len(g) > Len(f) THEN Len(f) ELSE Len(g)) - m)
  BY <1>3 DEF Distance
<1>8. UnionSize(S, T) = 2 * least - m /\ CommonSize(S, T) = m
  BY <1>1 DEF UnionSize, CommonSize
<1> HIDE DEF least
<1>9. Distance(f, g) = Apart(m, UnionSize(S, T)) /\ Distance(g, f) = Apart(m, UnionSize(S, T))
  BY <1>5, <1>6, <1>7, <1>8 DEF Apart
<1>10. UnionDistance(f, g) = Apart(m, FullSize(S, T))
  BY <1>1 DEF UnionDistance, Apart, FullSize
<1> QED BY <1>2, <1>8, <1>9, <1>10

\* The two against each other.
LEMMA DistanceBounds ==
  ASSUME NEW S, NEW T, NEW f, NEW g, ListsOf(f, S, g, T)
  PROVE  \E a \in Nat, b \in Nat :
           /\ a = Distance(f, g) /\ b = UnionDistance(f, g) /\ a <= b
           /\ Len(f) = Len(g) => a = b
           /\ CommonSize(S, T) = UnionSize(S, T) => a = 0
           /\ b = 0 => CommonSize(S, T) = FullSize(S, T)
           /\ CommonSize(S, T) = 0 => a = 255
           /\ UnionSize(S, T) <= 255 /\ a = 255 => CommonSize(S, T) = 0
<1>1. FeatureSet(S) /\ FeatureSet(T) /\ Len(f) = Cardinality(S) /\ Len(g) = Cardinality(T)
  BY DescendingRight DEF ListsOf, FeatureSet
<1>2. PICK m \in Nat : m = CommonSize(S, T)
  BY <1>1, UnionSizeRight DEF FeatureSet
<1>3. PICK d \in Nat \ {0} : d = UnionSize(S, T)
  BY <1>1, UnionSizeRight DEF FeatureSet
<1>4. PICK e \in Nat \ {0} : e = FullSize(S, T)
  BY <1>1, UnionSizeRight DEF FeatureSet
<1>5. /\ m <= d /\ d <= e
      /\ Cardinality(S) = Cardinality(T) => d = e
  BY <1>1, <1>2, <1>3, <1>4, UnionSizeRight DEF FeatureSet
<1>6. Distance(f, g) = Apart(m, d) /\ UnionDistance(f, g) = Apart(m, e)
  BY <1>2, <1>3, <1>4, DistanceOfLists
<1>7. m <= e
  BY <1>5
<1>8. PICK a \in Nat : /\ a = Apart(m, d) /\ a <= 255
                       /\ a = 0 <=> m = d
                       /\ m = 0 => a = 255
  BY <1>5, ApartBounds
<1>9. PICK b \in Nat : /\ b = Apart(m, e) /\ b <= 255
                       /\ b = 0 <=> m = e
  BY <1>7, ApartBounds
<1>10. a <= b
  BY <1>5, <1>8, <1>9, ApartOrder
<1>11. ASSUME d <= 255, a = 255 PROVE m = 0
  BY <1>5, <1>8, <1>11, ApartMost
<1>12. d = e => a = b
  BY <1>8, <1>9
<1>13. a = Distance(f, g) /\ b = UnionDistance(f, g)
  BY <1>6, <1>8, <1>9
<1>14. /\ Len(f) = Len(g) => a = b
       /\ CommonSize(S, T) = UnionSize(S, T) => a = 0
       /\ b = 0 => CommonSize(S, T) = FullSize(S, T)
       /\ CommonSize(S, T) = 0 => a = 255
       /\ UnionSize(S, T) <= 255 /\ a = 255 => CommonSize(S, T) = 0
  BY <1>1, <1>2, <1>3, <1>4, <1>5, <1>8, <1>9, <1>11, <1>12
<1> QED BY <1>10, <1>13, <1>14

-----------------------------------------------------------------------------
(* The ring.                                                               *)

LEMMA ModWraps ==
  ASSUME NEW n \in Nat \ {0}, NEW m \in Nat, m < 2 * n
  PROVE  m % n = IF m < n THEN m ELSE m - n
<1>1. PICK q \in Nat, r \in Nat : r = m % n /\ r < n /\ m = n * q + r
  <2>1. m \div n \in Nat /\ m % n \in 0 .. n - 1 /\ m = n * (m \div n) + (m % n)
    BY DivMod
  <2>2. m % n \in Nat /\ m % n < n
    BY <2>1
  <2> QED BY <2>1, <2>2
<1>2. CASE q = 0
  BY <1>1, <1>2
<1>3. CASE q = 1
  BY <1>1, <1>3
<1>4. q < 2
  <2> SUFFICES ASSUME q >= 2 PROVE FALSE
    BY <1>1
  <2>1. PICK e \in Nat : q = 2 + e
    <3>1. q - 2 \in Nat /\ q = 2 + (q - 2)
      BY <1>1
    <3> QED BY <3>1
  <2>2. n * q = 2 * n + n * e /\ n * e \in Nat
    BY <2>1
  <2> QED BY <1>1, <2>2
<1> QED BY <1>1, <1>2, <1>3, <1>4

\* With the next place the whole ring moves on by one.
LEMMA RingMoves ==
  ASSUME NEW n \in Nat \ {0}, NEW at \in 0 .. n - 1
  PROVE  LET to == (at + 1) % n
         IN  /\ to \in 0 .. n - 1
             /\ \A k \in 1 .. n : (at + k - 1) % n \in 0 .. n - 1
             /\ \A k \in 1 .. n - 1 : (to + k - 1) % n = (at + (k + 1) - 1) % n /\ (to + k - 1) % n # at
             /\ (to + n - 1) % n = at
<1> DEFINE to == (at + 1) % n
<1>1. \A m \in Nat : m < 2 * n => m % n = IF m < n THEN m ELSE m - n
  BY ModWraps
<1>2. at \in Nat /\ at < n /\ at + 1 \in Nat /\ at + 1 < 2 * n
  OBVIOUS
<1>3. to = IF at + 1 < n THEN at + 1 ELSE at + 1 - n
  BY <1>1, <1>2
<1> HIDE DEF to
<1>4. to \in 0 .. n - 1
  BY <1>2, <1>3
<1>5. ASSUME NEW k \in 1 .. n PROVE (at + k - 1) % n \in 0 .. n - 1
  <2>1. at + k - 1 \in Nat
    BY <1>2
  <2> QED BY <2>1, DivMod
<1>6. ASSUME NEW k \in 1 .. n - 1
      PROVE  (to + k - 1) % n = (at + (k + 1) - 1) % n /\ (to + k - 1) % n # at
  <2>1. to + k - 1 \in Nat /\ to + k - 1 < 2 * n /\ at + (k + 1) - 1 \in Nat /\ at + (k + 1) - 1 < 2 * n
    BY <1>2, <1>4
  <2>2. (to + k - 1) % n = IF to + k - 1 < n THEN to + k - 1 ELSE to + k - 1 - n
    <3>1. PICK x \in Nat : x = to + k - 1
      BY <2>1
    <3>2. x < 2 * n
      BY <2>1, <3>1
    <3>3. x % n = IF x < n THEN x ELSE x - n
      BY <1>1, <3>2
    <3> QED BY <1>4, <3>1, <3>3
  <2>3. (at + (k + 1) - 1) % n = IF at + (k + 1) - 1 < n THEN at + (k + 1) - 1 ELSE at + (k + 1) - 1 - n
    BY <1>1, <2>1
  <2>4. CASE at + 1 < n
    BY <1>2, <1>3, <2>2, <2>3, <2>4
  <2>5. CASE ~ (at + 1 < n)
    BY <1>2, <1>3, <2>2, <2>3, <2>5
  <2> QED BY <2>4, <2>5
<1>7. (to + n - 1) % n = at
  <2>1. to + n - 1 \in Nat /\ to + n - 1 < 2 * n
    BY <1>2, <1>4
  <2>2. (to + n - 1) % n = IF to + n - 1 < n THEN to + n - 1 ELSE to + n - 1 - n
    <3>1. PICK x \in Nat : x = to + n - 1
      BY <2>1
    <3>2. x < 2 * n
      BY <2>1, <3>1
    <3>3. x % n = IF x < n THEN x ELSE x - n
      BY <1>1, <3>2
    <3> QED BY <1>4, <3>1, <3>3
  <2>3. CASE at + 1 < n
    BY <1>2, <1>3, <2>2, <2>3
  <2>4. CASE ~ (at + 1 < n)
    BY <1>2, <1>3, <2>2, <2>4
  <2> QED BY <2>3, <2>4
<1> QED BY <1>4, <1>5, <1>6, <1>7 DEF to

-----------------------------------------------------------------------------
(* The inductive invariant.                                                *)

\* While the first shingle is read the ring is filled from its beginning; from
\* then on the bytes that were read last are in it from the next place on.
RingInv ==
  /\ pc \in {"open", "global", "buf", "heap", "table"} => i = 0 /\ text = <<>>
  /\ pc = "fill" => Len(text) = i /\ \A k \in 1 .. i : text[k] = buf[k - 1]
  /\ pc \in {"insert", "read"} =>
       /\ Len(text) = NumShingle
       /\ \A k \in 1 .. NumShingle : text[k] = buf[(i + k - 1) % NumShingle]

\* Until they are given back, the heap is one, the table holds what it does,
\* and that is what is to be kept of the checksums seen.
KeepInv ==
  /\ pc \notin {"copy", "done", "aborted"} =>
       IsHeap(heap) /\ Holds(table, RangeOf(heap)) /\ Kept(RangeOf(heap), seen)
  /\ pc \in {"read", "info"} => seen # {}

\* The file has its hash only in the end, and then no error.
ResultInv ==
  /\ pc = "copy" => feature = Descending(Smallest(seen)) /\ feature # <<>>
  /\ node # <<>> => node = Descending(Smallest(seen))
  /\ pc # "done" => node = <<>> /\ error # "SUCCESS"
  /\ pc = "done" => (error = "SUCCESS" <=> node # <<>>)

\* What is allocated at each place.
MemoryInv ==
  /\ pc = "open" => allocated = {}
  /\ pc = "global" => allocated = {"file"}
  /\ pc = "buf" => allocated = {"file", "global"}
  /\ pc = "heap" => allocated = {"file", "global", "buf"}
  /\ pc = "table" => allocated = {"file", "global", "buf", "heap"}
  /\ pc \in {"fill", "insert", "read"} => allocated = {"file", "global", "buf", "heap", "hash", "occ"}
  /\ pc = "info" => allocated = {"file", "global", "heap", "hash", "occ"}
  /\ pc = "copy" => allocated = {"info", "crcs"}
  /\ pc = "done" => allocated = IF error = "SUCCESS" THEN {"node"} ELSE {}

HashInv == TypeOK /\ RingInv /\ KeepInv /\ ResultInv /\ MemoryInv

LEMMA InitHashInv == Init => HashInv
<1> SUFFICES ASSUME Init PROVE HashInv
  OBVIOUS
<1> USE DEF Init
<1>1. NumShingle \in Nat \ {0} /\ 0 \in Ring
  BY HashFileAssumption DEF Ring
<1>2. /\ Holds(table, {}) /\ RangeOf(heap) = {} /\ IsHeap(heap) /\ heap \in Seq(Checksums)
      /\ Len(heap) = 0
  BY EmptyTableRight DEF RangeOf, IsHeap, Distinct, Heap
<1>3. Kept({}, {})
  BY FS_EmptySet, SimhashAssumption DEF Kept
<1>4. TypeOK
  <2>1. table \in Table
    BY <1>2 DEF Holds
  <2>2. 0 <= NumFeatures /\ 0 <= NumShingle
    BY SimhashAssumption, <1>1
  <2>3. buf \in [Ring -> Bytes \cup {NoByte}]
    OBVIOUS
  <2>4. Len(text) = 0 /\ text \in Seq(Bytes) /\ feature \in Seq(Checksums) /\ node \in Seq(Checksums)
    OBVIOUS
  <2> QED BY <1>1, <1>2, <2>1, <2>2, <2>3, <2>4 DEF TypeOK
<1>5. RingInv /\ ResultInv /\ MemoryInv
  BY DEF RingInv, ResultInv, MemoryInv
<1>6. KeepInv
  BY <1>2, <1>3 DEF KeepInv
<1> QED BY <1>4, <1>5, <1>6 DEF HashInv

\* The heap does not get longer than there is room for.
LEMMA HeapFits ==
  ASSUME NEW h, IsHeap(h), NEW S, Kept(RangeOf(h), S)
  PROVE  h \in Seq(Checksums) /\ Len(h) = Cardinality(RangeOf(h)) /\ Len(h) <= NumFeatures
         /\ IsFiniteSet(RangeOf(h)) /\ Cardinality(RangeOf(h)) < NumSlots
<1>1. h \in Seq(Checksums) /\ IsFiniteSet(RangeOf(h)) /\ Cardinality(RangeOf(h)) = Len(h)
  BY HeapCardinality DEF IsHeap
<1>2. Cardinality(RangeOf(h)) <= NumFeatures /\ Cardinality(RangeOf(h)) \in Nat /\ NumFeatures \in Nat
  BY <1>1, FS_CardinalityType, SimhashAssumption DEF Kept
<1>3. NumFeatures < NumSlots /\ NumSlots \in Nat
  BY SimhashAssumption, NumSlotsRight
<1> HIDE DEF NumSlots
<1> QED BY <1>1, <1>2, <1>3

\* Whichever allocation fails, and wherever the file ends too soon, everything
\* is given back.
LEMMA GiveUpInv ==
  ASSUME HashInv, GiveUp, UNCHANGED <<readVars, keptVars, resultVars>>,
         pc \in {"global", "buf", "heap", "fill", "info"}
  PROVE  HashInv'
<1> USE DEF readVars, keptVars, resultVars, GiveUp
<1>1. TypeOK /\ ResultInv /\ MemoryInv
  BY DEF HashInv
<1>2. TypeOK'
  BY <1>1 DEF TypeOK, FreedGlobal
<1>3. RingInv' /\ KeepInv'
  BY DEF RingInv, KeepInv
<1>4. ResultInv'
  BY <1>1 DEF ResultInv
<1>5. allocated' = {}
  BY <1>1 DEF MemoryInv, FreedGlobal
<1>6. MemoryInv'
  BY <1>1, <1>5 DEF MemoryInv, ResultInv
<1> QED BY <1>2, <1>3, <1>4, <1>6 DEF HashInv

\* Nothing but the place and the memory changes.
LEMMA AllocateInv ==
  ASSUME HashInv, NEW what, NEW next,
         <<pc, what, next>> \in {<<"global", "global", "buf">>, <<"buf", "buf", "heap">>, <<"heap", "heap", "table">>},
         Allocate(pc, what, next)
  PROVE  HashInv'
<1>1. TypeOK /\ RingInv /\ KeepInv /\ ResultInv /\ MemoryInv
  BY DEF HashInv
<1>2. UNCHANGED <<readVars, keptVars, resultVars>> /\ pc \in {"global", "buf", "heap"}
  BY DEF Allocate
<1>3. CASE GiveUp
  BY <1>2, <1>3, GiveUpInv
<1>4. CASE allocated' = allocated \cup {what} /\ pc' = next
  <2> USE <1>1, <1>2, <1>4 DEF readVars, keptVars, resultVars
  <2>1. TypeOK'
    BY DEF TypeOK
  <2>2. RingInv'
    BY DEF RingInv
  <2>3. KeepInv'
    BY DEF KeepInv
  <2>4. ResultInv'
    BY DEF ResultInv
  <2>5. MemoryInv'
    BY DEF MemoryInv
  <2> QED BY <2>1, <2>2, <2>3, <2>4, <2>5 DEF HashInv
<1> QED BY <1>3, <1>4 DEF Allocate

LEMMA OpenInv ==
  ASSUME HashInv, Open
  PROVE  HashInv'
<1> USE DEF Open, readVars, keptVars
<1>1. TypeOK /\ RingInv /\ KeepInv /\ ResultInv /\ MemoryInv
  BY DEF HashInv
<1>2. TypeOK'
  BY <1>1 DEF TypeOK
<1>3. RingInv'
  BY <1>1 DEF RingInv
<1>4. KeepInv'
  BY <1>1 DEF KeepInv
<1>5. ResultInv'
  BY <1>1 DEF ResultInv
<1>6. MemoryInv'
  BY <1>1 DEF MemoryInv, ResultInv
<1> QED BY <1>2, <1>3, <1>4, <1>5, <1>6 DEF HashInv

LEMMA HashResetInv ==
  ASSUME HashInv, HashReset
  PROVE  HashInv'
<1> USE DEF readVars, keptVars, resultVars
<1>1. TypeOK /\ RingInv /\ KeepInv /\ ResultInv /\ MemoryInv
  BY DEF HashInv
<1>2. pc = "table" /\ UNCHANGED <<readVars, keptVars, resultVars>>
  BY DEF HashReset
<1>3. PICK got \in SUBSET {"hash", "occ"} :
        IF got = {"hash", "occ"}
          THEN allocated' = allocated \cup got /\ pc' = "fill"
          ELSE allocated' = (allocated \cup got) \ ({"buf", "file"} \cup FreedGlobal) /\ pc' = "done"
  BY DEF HashReset
<1>4. allocated = {"file", "global", "buf", "heap"}
  BY <1>1, <1>2 DEF MemoryInv
<1>5. \/ allocated' = {"file", "global", "buf", "heap", "hash", "occ"} /\ pc' = "fill"
      \/ allocated' = {} /\ pc' = "done"
  BY <1>3, <1>4 DEF FreedGlobal
<1>6. TypeOK'
  BY <1>1, <1>2, <1>5 DEF TypeOK
<1>7. RingInv'
  BY <1>1, <1>2, <1>5 DEF RingInv
<1>8. KeepInv'
  BY <1>1, <1>2, <1>5 DEF KeepInv
<1>9. ResultInv'
  BY <1>1, <1>2, <1>5 DEF ResultInv
<1>10. MemoryInv'
  BY <1>1, <1>2, <1>5 DEF MemoryInv, ResultInv
<1> QED BY <1>6, <1>7, <1>8, <1>9, <1>10 DEF HashInv

\* A byte is put in the ring, and the oldest one is forgotten.
LEMMA PutRight ==
  ASSUME TypeOK, NEW byte \in Bytes, Put(byte)
  PROVE  /\ buf' \in [Ring -> Bytes \cup {NoByte}] /\ i' \in Ring
         /\ buf' = [buf EXCEPT ![i] = byte] /\ i' = (i + 1) % NumShingle
         /\ \A k \in Ring : buf'[k] = IF k = i THEN byte ELSE buf[k]
         /\ text' \in Seq(Bytes)
         /\ Len(text) < NumShingle =>
              /\ Len(text') = Len(text) + 1 /\ text'[Len(text) + 1] = byte
              /\ \A k \in 1 .. Len(text) : text'[k] = text[k]
         /\ Len(text) = NumShingle =>
              /\ Len(text') = NumShingle /\ text'[NumShingle] = byte
              /\ \A k \in 1 .. NumShingle - 1 : text'[k] = text[k + 1]
<1>1. /\ NumShingle \in Nat \ {0} /\ Ring = 0 .. NumShingle - 1
      /\ buf \in [Ring -> Bytes \cup {NoByte}] /\ i \in Ring /\ text \in Seq(Bytes) /\ Len(text) \in Nat
  BY HashFileAssumption DEF TypeOK, Ring
<1>2. /\ buf' = [buf EXCEPT ![i] = byte] /\ i' = (i + 1) % NumShingle
      /\ text' = IF Len(text) = NumShingle THEN Append(Tail(text), byte) ELSE Append(text, byte)
  BY DEF Put
<1>3. i' \in Ring
  BY <1>1, <1>2, RingMoves
<1>4. buf' \in [Ring -> Bytes \cup {NoByte}] /\ \A k \in Ring : buf'[k] = IF k = i THEN byte ELSE buf[k]
  BY <1>1, <1>2
<1>5. ASSUME Len(text) # NumShingle
      PROVE  /\ text' \in Seq(Bytes) /\ Len(text') = Len(text) + 1 /\ text'[Len(text) + 1] = byte
             /\ \A k \in 1 .. Len(text) : text'[k] = text[k]
  BY <1>1, <1>2, <1>5
<1>6. ASSUME Len(text) = NumShingle
      PROVE  /\ text' \in Seq(Bytes) /\ Len(text') = NumShingle /\ text'[NumShingle] = byte
             /\ \A k \in 1 .. NumShingle - 1 : text'[k] = text[k + 1]
  <2> DEFINE t == Tail(text)
  <2>1. t \in Seq(Bytes) /\ Len(t) = NumShingle - 1 /\ \A k \in 1 .. NumShingle - 1 : t[k] = text[k + 1]
    BY <1>1, <1>6
  <2> HIDE DEF t
  <2>2. text' = Append(t, byte)
    BY <1>2, <1>6 DEF t
  <2> QED BY <1>1, <2>1, <2>2
<1>7. Len(text) < NumShingle => Len(text) # NumShingle
  BY <1>1
<1> QED BY <1>2, <1>3, <1>4, <1>5, <1>6, <1>7

LEMMA FillInv ==
  ASSUME HashInv, Fill
  PROVE  HashInv'
<1>1. TypeOK /\ RingInv /\ KeepInv /\ ResultInv /\ MemoryInv
  BY DEF HashInv
<1>2. PICK byte \in Bytes : Put(byte)
  BY DEF Fill
<1>3. /\ pc = "fill" /\ UNCHANGED <<allocated, heap, table, seen, feature, node, error>>
      /\ pc' = IF i = NumShingle - 1 THEN "insert" ELSE "fill"
  BY DEF Fill, keptVars, resultVars
<1>4. NumShingle \in Nat \ {0} /\ Ring = 0 .. NumShingle - 1 /\ i \in Ring /\ i \in Nat /\ i < NumShingle
  BY <1>1, HashFileAssumption DEF TypeOK, Ring
<1>5. Len(text) = i /\ \A k \in 1 .. i : text[k] = buf[k - 1]
  BY <1>1, <1>3 DEF RingInv
<1>6. /\ buf' \in [Ring -> Bytes \cup {NoByte}] /\ i' \in Ring /\ i' = (i + 1) % NumShingle
      /\ \A k \in Ring : buf'[k] = IF k = i THEN byte ELSE buf[k]
      /\ text' \in Seq(Bytes) /\ Len(text') = i + 1 /\ text'[i + 1] = byte
      /\ \A k \in 1 .. i : text'[k] = text[k]
  BY <1>1, <1>2, <1>4, <1>5, PutRight
<1>7. TypeOK'
  BY <1>1, <1>3, <1>4, <1>6 DEF TypeOK
<1>8. \A k \in 1 .. i + 1 : text'[k] = buf'[k - 1]
  <2> TAKE k \in 1 .. i + 1
  <2>1. k - 1 \in Ring /\ k \in Nat
    BY <1>4
  <2>2. CASE k = i + 1
    BY <1>4, <1>6, <2>1, <2>2
  <2>3. CASE k # i + 1
    <3>1. k \in 1 .. i /\ k - 1 # i
      BY <1>4, <2>3
    <3> QED BY <1>5, <1>6, <2>1, <3>1
  <2> QED BY <2>2, <2>3
<1>9. RingInv'
  <2>1. CASE i = NumShingle - 1
    <3>1. i + 1 = NumShingle /\ i' = 0
      <4>1. i' = (i + 1) % NumShingle /\ i + 1 = NumShingle
        BY <1>4, <1>6, <2>1
      <4>2. i' = IF i + 1 < NumShingle THEN i + 1 ELSE i + 1 - NumShingle
        <5>1. PICK m \in Nat : m = i + 1
          BY <1>4
        <5>2. m < 2 * NumShingle
          BY <1>4, <5>1
        <5>3. m % NumShingle = IF m < NumShingle THEN m ELSE m - NumShingle
          BY <1>4, <5>2, ModWraps
        <5> QED BY <1>4, <4>1, <5>1, <5>3
      <4> QED BY <1>4, <4>1, <4>2
    <3>2. \A k \in 1 .. NumShingle : (i' + k - 1) % NumShingle = k - 1
      <4> TAKE k \in 1 .. NumShingle
      <4>1. PICK m \in Nat : m = i' + k - 1
        BY <1>4, <3>1
      <4>2. m = k - 1 /\ m < NumShingle /\ m < 2 * NumShingle
        BY <1>4, <3>1, <4>1
      <4>3. m % NumShingle = m
        BY <1>4, <4>2, ModWraps
      <4> QED BY <3>1, <4>1, <4>2, <4>3
    <3>3. pc' = "insert"
      BY <1>3, <2>1
    <3> QED BY <1>4, <1>6, <1>8, <3>1, <3>2, <3>3 DEF RingInv
  <2>2. CASE i # NumShingle - 1
    <3>1. i' = i + 1
      <4>1. PICK m \in Nat : m = i + 1
        BY <1>4
      <4>2. m < NumShingle /\ m < 2 * NumShingle
        BY <1>4, <2>2, <4>1
      <4>3. m % NumShingle = m
        BY <1>4, <4>2, ModWraps
      <4> QED BY <1>4, <1>6, <4>1, <4>3
    <3>2. pc' = "fill"
      BY <1>3, <2>2
    <3> QED BY <1>6, <1>8, <3>1, <3>2 DEF RingInv
  <2> QED BY <2>1, <2>2
<1>10. KeepInv'
  BY <1>1, <1>3 DEF KeepInv
<1>11. ResultInv'
  BY <1>1, <1>3 DEF ResultInv
<1>12. MemoryInv'
  BY <1>1, <1>3 DEF MemoryInv
<1> QED BY <1>7, <1>9, <1>10, <1>11, <1>12 DEF HashInv

LEMMA ReadInv ==
  ASSUME HashInv, Read
  PROVE  HashInv'
<1>1. TypeOK /\ RingInv /\ KeepInv /\ ResultInv /\ MemoryInv
  BY DEF HashInv
<1>2. PICK byte \in Bytes : Put(byte)
  BY DEF Read
<1>3. pc = "read" /\ UNCHANGED <<allocated, heap, table, seen, feature, node, error>> /\ pc' = "insert"
  BY DEF Read, keptVars, resultVars
<1>4. NumShingle \in Nat \ {0} /\ Ring = 0 .. NumShingle - 1 /\ i \in 0 .. NumShingle - 1
  BY <1>1, HashFileAssumption DEF TypeOK, Ring
<1>5. Len(text) = NumShingle /\ \A k \in 1 .. NumShingle : text[k] = buf[(i + k - 1) % NumShingle]
  BY <1>1, <1>3 DEF RingInv
<1>6. /\ buf' \in [Ring -> Bytes \cup {NoByte}] /\ i' \in Ring /\ i' = (i + 1) % NumShingle
      /\ \A k \in Ring : buf'[k] = IF k = i THEN byte ELSE buf[k]
      /\ text' \in Seq(Bytes) /\ Len(text') = NumShingle /\ text'[NumShingle] = byte
      /\ \A k \in 1 .. NumShingle - 1 : text'[k] = text[k + 1]
  BY <1>1, <1>2, <1>4, <1>5, PutRight
<1>7. TypeOK'
  BY <1>1, <1>3, <1>4, <1>6 DEF TypeOK
<1>8. /\ \A k \in 1 .. NumShingle : (i + k - 1) % NumShingle \in 0 .. NumShingle - 1
      /\ \A k \in 1 .. NumShingle - 1 :
           (i' + k - 1) % NumShingle = (i + (k + 1) - 1) % NumShingle /\ (i' + k - 1) % NumShingle # i
      /\ (i' + NumShingle - 1) % NumShingle = i
  <2>1. \A at \in 0 .. NumShingle - 1 :
          LET to == (at + 1) % NumShingle
          IN  /\ to \in 0 .. NumShingle - 1
              /\ \A k \in 1 .. NumShingle : (at + k - 1) % NumShingle \in 0 .. NumShingle - 1
              /\ \A k \in 1 .. NumShingle - 1 :
                   (to + k - 1) % NumShingle = (at + (k + 1) - 1) % NumShingle /\ (to + k - 1) % NumShingle # at
              /\ (to + NumShingle - 1) % NumShingle = at
    BY <1>4, RingMoves
  <2> DEFINE to == (i + 1) % NumShingle
  <2>2. /\ \A k \in 1 .. NumShingle : (i + k - 1) % NumShingle \in 0 .. NumShingle - 1
        /\ \A k \in 1 .. NumShingle - 1 :
             (to + k - 1) % NumShingle = (i + (k + 1) - 1) % NumShingle /\ (to + k - 1) % NumShingle # i
        /\ (to + NumShingle - 1) % NumShingle = i
    BY <1>4, <2>1, Zenon
  <2>3. i' = to
    BY <1>6
  <2> HIDE DEF to
  <2> QED BY <2>2, <2>3
<1>9. \A k \in 1 .. NumShingle : text'[k] = buf'[(i' + k - 1) % NumShingle]
  <2> TAKE k \in 1 .. NumShingle
  <2>1. CASE k = NumShingle
    BY <1>4, <1>6, <1>8, <2>1
  <2>2. CASE k # NumShingle
    <3>1. k \in 1 .. NumShingle - 1 /\ k + 1 \in 1 .. NumShingle
      BY <1>4, <2>2
    <3>2. text'[k] = buf[(i + (k + 1) - 1) % NumShingle]
      BY <1>5, <1>6, <3>1
    <3>3. (i + (k + 1) - 1) % NumShingle \in Ring
      BY <1>4, <1>8, <3>1
    <3>4. (i' + k - 1) % NumShingle = (i + (k + 1) - 1) % NumShingle /\ (i' + k - 1) % NumShingle # i
      BY <1>8, <3>1
    <3> QED BY <1>6, <3>2, <3>3, <3>4
  <2> QED BY <2>1, <2>2
<1>10. RingInv'
  BY <1>3, <1>6, <1>9 DEF RingInv
<1>11. KeepInv'
  BY <1>1, <1>3 DEF KeepInv
<1>12. ResultInv'
  BY <1>1, <1>3 DEF ResultInv
<1>13. MemoryInv'
  BY <1>1, <1>3 DEF MemoryInv
<1> QED BY <1>7, <1>10, <1>11, <1>12, <1>13 DEF HashInv

\* The ring is read in the order of the file.
LEMMA ShingleIsText ==
  ASSUME HashInv, pc = "insert"
  PROVE  Shingle = text /\ Crc[text] \in Checksums
<1>1. /\ NumShingle \in Nat \ {0} /\ text \in Seq(Bytes) /\ Len(text) = NumShingle
      /\ \A k \in 1 .. NumShingle : text[k] = buf[(i + k - 1) % NumShingle]
  BY HashFileAssumption DEF HashInv, TypeOK, RingInv
<1>2. text = [k \in 1 .. NumShingle |-> text[k]]
  BY <1>1
<1>3. Shingle = [k \in 1 .. NumShingle |-> text[k]]
  BY <1>1 DEF Shingle
<1>4. text \in [1 .. NumShingle -> Bytes]
  BY <1>1
<1> QED BY <1>2, <1>3, <1>4, HashFileAssumption DEF Shingles

\* crc_insert keeps what is to be kept, on the heap and in the table.
LEMMA CrcInsertRight ==
  ASSUME seen \subseteq Checksums, IsHeap(heap), Holds(table, RangeOf(heap)), Kept(RangeOf(heap), seen),
         NEW crc \in Checksums, Skip(crc) \/ Meet(crc) \/ Admit(crc)
  PROVE  IsHeap(heap') /\ Holds(table', RangeOf(heap')) /\ Kept(RangeOf(heap'), seen \cup {crc})
<1> DEFINE kept == RangeOf(heap)
           cleaned == Cleaned(table, crc)
           top == heap[1]
<1>1. /\ heap \in Seq(Checksums) /\ Len(heap) \in Nat /\ Len(heap) = Cardinality(kept) /\ Len(heap) <= NumFeatures
      /\ IsFiniteSet(kept) /\ Cardinality(kept) < NumSlots
  <2>1. heap \in Seq(Checksums)
    BY DEF IsHeap
  <2>2. Len(heap) \in Nat
    BY <2>1
  <2> QED BY <2>1, <2>2, HeapFits
<1>2. IsFiniteSet(seen) /\ seen \subseteq Nat /\ crc \in Nat /\ Cardinality(kept) \in Nat /\ NumSlots \in Nat
  <2>1. IsFiniteSet(seen)
    BY SimhashAssumption, FS_Subset
  <2> QED BY <1>1, <2>1, SimhashAssumption, FS_CardinalityType, NumSlotsRight
<1>3. Holds(cleaned, kept)
  BY <1>1, CleanedRight
<1>4. Contains(cleaned, crc) <=> crc \in kept
  BY <1>3, ContainsRight
<1>5. Len(heap) = NumFeatures =>
        heap # <<>> /\ top \in kept /\ top \in Nat /\ \A d \in kept : d <= top
  <2> SUFFICES ASSUME Len(heap) = NumFeatures PROVE heap # <<>> /\ top \in kept /\ top \in Nat /\ \A d \in kept : d <= top
    OBVIOUS
  <2>1. Len(heap) # 0 /\ 1 \in 1 .. Len(heap)
    BY <1>1, SimhashAssumption
  <2>2. kept = {heap[k] : k \in 1 .. Len(heap)} /\ \A k \in 1 .. Len(heap) : heap[k] \in Nat
    BY <1>1, HeapValues
  <2>3. \A k \in 1 .. Len(heap) : heap[1] >= heap[k]
    BY <1>1, TopIsGreatest DEF IsHeap
  <2>4. heap # <<>>
    BY <1>1, <2>1
  <2>5. \A d \in kept : d <= top
    BY <2>1, <2>2, <2>3
  <2> QED BY <2>1, <2>2, <2>4, <2>5
<1>6. CASE Skip(crc)
  <2>1. Len(heap) = NumFeatures /\ crc >= top /\ heap' = heap /\ table' = table
    BY <1>6 DEF Skip, TooGreat, HeapFull
  <2>2. \A d \in kept : d <= crc
    <3> SUFFICES ASSUME NEW d \in kept PROVE d <= crc
      OBVIOUS
    <3>1. d \in Nat /\ d <= top /\ top \in Nat
      BY <1>2, <1>5, <2>1 DEF Kept
    <3> QED BY <1>2, <2>1, <3>1
  <2>3. Kept(kept, seen \cup {crc})
    BY <1>1, <1>2, <2>1, <2>2, KeptTooGreat
  <2> QED BY <2>1, <2>3
<1>7. CASE Meet(crc)
  <2>1. heap' = heap /\ table' = cleaned /\ crc \in kept
    BY <1>4, <1>7 DEF Meet
  <2>2. Kept(kept, seen \cup {crc})
    BY <2>1, KeptAgain
  <2> QED BY <1>3, <2>1, <2>2
<1>8. CASE Admit(crc)
  <2>1. /\ ~TooGreat(crc) /\ crc \notin kept
        /\ table' = HashInsert(IF HeapFull(heap) THEN HashDelete(cleaned, top) ELSE cleaned, crc)
        /\ heap' = HeapInsert(IF HeapFull(heap) THEN WithoutTop(heap) ELSE heap, crc)
    BY <1>4, <1>8 DEF Admit
  <2> HIDE DEF cleaned
  <2>2. CASE Len(heap) # NumFeatures
    <3>1. table' = HashInsert(cleaned, crc) /\ heap' = HeapInsert(heap, crc)
      BY <2>1, <2>2 DEF HeapFull
    <3>2. IsHeap(heap') /\ RangeOf(heap') = kept \cup {crc}
      BY <2>1, <3>1, HeapInsertRight
    <3>3. Holds(table', kept \cup {crc})
      BY <1>1, <1>3, <2>1, <3>1, HashInsertRight
    <3>4. Kept(kept \cup {crc}, seen \cup {crc})
      BY <1>1, <1>2, <2>1, <2>2, KeptAdded
    <3> QED BY <3>2, <3>3, <3>4
  <2>3. CASE Len(heap) = NumFeatures
    <3> DEFINE rest == kept \ {top}
    <3>1. table' = HashInsert(HashDelete(cleaned, top), crc) /\ heap' = HeapInsert(WithoutTop(heap), crc)
      BY <2>1, <2>3 DEF HeapFull
    <3>2. heap # <<>> /\ top \in kept /\ top \in Nat /\ \A d \in kept : d <= top
      BY <1>5, <2>3
    <3>3. crc < top
      BY <1>2, <2>1, <2>3, <3>2 DEF TooGreat, HeapFull
    <3>4. IsHeap(WithoutTop(heap)) /\ RangeOf(WithoutTop(heap)) = rest
      BY <3>2, WithoutTopRight
    <3>5. IsHeap(heap') /\ RangeOf(heap') = rest \cup {crc}
      BY <2>1, <3>1, <3>4, HeapInsertRight
    <3>6. Holds(HashDelete(cleaned, top), rest)
      BY <1>1, <1>3, <3>2, HashDeleteRight
    <3>7. IsFiniteSet(rest) /\ Cardinality(rest) < NumSlots
      <4>1. IsFiniteSet(rest) /\ Cardinality(rest) <= Cardinality(kept)
        BY <1>1, FS_Subset
      <4>2. Cardinality(rest) \in Nat
        BY <4>1, FS_CardinalityType
      <4> QED BY <1>1, <1>2, <4>1, <4>2
    <3>8. Holds(table', rest \cup {crc})
      BY <2>1, <3>1, <3>6, <3>7, HashInsertRight
    <3>9. Kept(rest \cup {crc}, seen \cup {crc})
      BY <1>1, <1>2, <2>1, <2>3, <3>2, <3>3, KeptReplaced
    <3> QED BY <3>5, <3>8, <3>9
  <2> QED BY <2>2, <2>3
<1> QED BY <1>6, <1>7, <1>8

LEMMA InsertInv ==
  ASSUME HashInv, Insert
  PROVE  HashInv'
<1> DEFINE crc == Crc[text]
<1>1. TypeOK /\ RingInv /\ KeepInv /\ ResultInv /\ MemoryInv
  BY DEF HashInv
<1>2. /\ pc = "insert" /\ pc' = "read" /\ seen' = seen \cup {Crc[text]}
      /\ Skip(Crc[Shingle]) \/ Meet(Crc[Shingle]) \/ Admit(Crc[Shingle])
      /\ UNCHANGED <<allocated, buf, i, text, feature, node, error>>
  BY DEF Insert, readVars, resultVars
<1>3. crc = Crc[Shingle] /\ crc \in Checksums
  BY <1>2, ShingleIsText
<1>4. Skip(crc) \/ Meet(crc) \/ Admit(crc)
  <2>1. Shingle = text
    BY <1>2, ShingleIsText
  <2> QED BY <1>2, <2>1
<1> HIDE DEF crc
<1>5. IsHeap(heap) /\ Holds(table, RangeOf(heap)) /\ Kept(RangeOf(heap), seen) /\ seen \subseteq Checksums
  BY <1>1, <1>2 DEF KeepInv, TypeOK
<1>6. /\ IsHeap(heap') /\ Holds(table', RangeOf(heap')) /\ Kept(RangeOf(heap'), seen \cup {crc})
  BY <1>3, <1>4, <1>5, CrcInsertRight
<1>7. seen' = seen \cup {crc} /\ seen' # {} /\ seen' \subseteq Checksums
  BY <1>2, <1>3, <1>5 DEF crc
<1>8. heap' \in Seq(Checksums) /\ Len(heap') <= NumFeatures
  BY <1>6, HeapFits
<1>9. table' \in Table
  BY <1>6 DEF Holds
<1>10. TypeOK'
  BY <1>1, <1>2, <1>7, <1>8, <1>9 DEF TypeOK
<1>11. RingInv'
  BY <1>1, <1>2 DEF RingInv
<1>12. KeepInv'
  BY <1>2, <1>6, <1>7 DEF KeepInv
<1>13. ResultInv'
  BY <1>1, <1>2 DEF ResultInv
<1>14. MemoryInv'
  BY <1>1, <1>2 DEF MemoryInv
<1> QED BY <1>10, <1>11, <1>12, <1>13, <1>14 DEF HashInv

LEMMA GcFailsInv ==
  ASSUME HashInv, GcFails
  PROVE  HashInv'
<1> USE DEF GcFails, readVars, keptVars, resultVars
<1>1. TypeOK /\ RingInv /\ KeepInv /\ ResultInv /\ MemoryInv
  BY DEF HashInv
<1>2. TypeOK'
  BY <1>1 DEF TypeOK
<1>3. RingInv' /\ KeepInv' /\ MemoryInv'
  BY <1>1 DEF RingInv, KeepInv, MemoryInv
<1>4. ResultInv'
  BY <1>1 DEF ResultInv
<1> QED BY <1>2, <1>3, <1>4 DEF HashInv

LEMMA EndOfFileInv ==
  ASSUME HashInv, EndOfFile
  PROVE  HashInv'
<1> USE DEF EndOfFile, readVars, keptVars, resultVars
<1>1. TypeOK /\ RingInv /\ KeepInv /\ ResultInv /\ MemoryInv
  BY DEF HashInv
<1>2. TypeOK'
  BY <1>1 DEF TypeOK
<1>3. RingInv'
  BY <1>1 DEF RingInv
<1>4. KeepInv'
  BY <1>1 DEF KeepInv
<1>5. ResultInv'
  BY <1>1 DEF ResultInv
<1>6. MemoryInv'
  BY <1>1 DEF MemoryInv
<1> QED BY <1>2, <1>3, <1>4, <1>5, <1>6 DEF HashInv

LEMMA GetHashinfoInv ==
  ASSUME HashInv, GetHashinfo
  PROVE  HashInv'
<1>1. TypeOK /\ RingInv /\ KeepInv /\ ResultInv /\ MemoryInv
  BY DEF HashInv
<1>2. /\ pc = "info" /\ pc' = "copy" /\ feature' = Extracted(heap) /\ heap' = <<>>
      /\ allocated' = (allocated \ (FreedGlobal \cup {"file"})) \cup {"info", "crcs"}
      /\ UNCHANGED <<buf, i, text, table, seen, node, error>>
  BY DEF GetHashinfo, readVars
<1>3. /\ IsHeap(heap) /\ Kept(RangeOf(heap), seen) /\ seen # {} /\ seen \subseteq Checksums
      /\ IsFiniteSet(seen) /\ seen \subseteq Nat
  <2>1. IsHeap(heap) /\ Kept(RangeOf(heap), seen) /\ seen # {} /\ seen \subseteq Checksums
    BY <1>1, <1>2 DEF KeepInv, TypeOK
  <2>2. IsFiniteSet(seen)
    BY <2>1, SimhashAssumption, FS_Subset
  <2> QED BY <2>1, <2>2, SimhashAssumption
<1>4. RangeOf(heap) = Smallest(seen)
  BY <1>3, KeptAreSmallest
<1>5. /\ feature' = Descending(Smallest(seen)) /\ feature' \in Seq(Checksums)
      /\ Len(feature') = Len(heap)
  BY <1>2, <1>3, <1>4, ExtractedRight
<1>6. Len(heap) # 0
  <2>1. Len(heap) = Cardinality(RangeOf(heap)) /\ IsFiniteSet(RangeOf(heap))
    BY <1>3, HeapFits
  <2>2. RangeOf(heap) # {}
    <3> SUFFICES ASSUME RangeOf(heap) = {} PROVE FALSE
      OBVIOUS
    <3>1. Cardinality(RangeOf(heap)) = 0
      BY FS_EmptySet
    <3>2. NumFeatures # 0
      BY SimhashAssumption
    <3> QED BY <1>3, <3>1, <3>2 DEF Kept
  <2> QED BY <2>1, <2>2, FS_EmptySet
<1>7. feature' # <<>>
  BY <1>5, <1>6
<1>8. TypeOK'
  <2>1. heap' \in Seq(Checksums) /\ Len(heap') = 0 /\ 0 <= NumFeatures
    BY <1>2, SimhashAssumption
  <2> QED BY <1>1, <1>2, <1>5, <2>1 DEF TypeOK
<1>9. RingInv' /\ KeepInv'
  BY <1>2 DEF RingInv, KeepInv
<1>10. ResultInv'
  BY <1>1, <1>2, <1>5, <1>7 DEF ResultInv
<1>11. MemoryInv'
  BY <1>1, <1>2 DEF MemoryInv, FreedGlobal
<1> QED BY <1>8, <1>9, <1>10, <1>11 DEF HashInv

LEMMA CopyInv ==
  ASSUME HashInv, Copy
  PROVE  HashInv'
<1>1. TypeOK /\ RingInv /\ KeepInv /\ ResultInv /\ MemoryInv
  BY DEF HashInv
<1>2. /\ pc = "copy" /\ pc' = "done" /\ feature' = <<>>
      /\ UNCHANGED <<buf, i, text, heap, table, seen>>
      /\ \/ /\ node' = feature /\ error' = "SUCCESS"
            /\ allocated' = (allocated \ {"info", "crcs"}) \cup {"node"}
         \/ /\ error' = "OUT_OF_MEMORY" /\ node' = node
            /\ allocated' = allocated \ {"info", "crcs"}
  BY DEF Copy, readVars, keptVars
<1>3. allocated = {"info", "crcs"}
  BY <1>1, <1>2 DEF MemoryInv
<1>4. TypeOK'
  <2>1. feature' \in Seq(Checksums)
    BY <1>2
  <2>2. node' \in Seq(Checksums) /\ error' \in {"SUCCESS", "FILE_OPEN", "HASHING", "OUT_OF_MEMORY"}
    BY <1>1, <1>2 DEF TypeOK
  <2>3. allocated' \subseteq {"file", "global", "buf", "heap", "hash", "occ", "info", "crcs", "node"}
    BY <1>2, <1>3
  <2> QED BY <1>1, <1>2, <2>1, <2>2, <2>3 DEF TypeOK
<1>5. RingInv' /\ KeepInv'
  BY <1>2 DEF RingInv, KeepInv
<1>6. ResultInv'
  BY <1>1, <1>2 DEF ResultInv
<1>7. MemoryInv'
  BY <1>2, <1>3 DEF MemoryInv
<1> QED BY <1>4, <1>5, <1>6, <1>7 DEF HashInv

LEMMA NextHashInv == HashInv /\ [Next]_vars => HashInv'
<1> SUFFICES ASSUME HashInv, [Next]_vars PROVE HashInv'
  OBVIOUS
<1>1. ASSUME AllocGlobal \/ AllocBuf \/ HeapReset PROVE HashInv'
  <2>1. CASE AllocGlobal
    <3>1. Allocate(pc, "global", "buf") /\ pc = "global"
      BY <2>1 DEF AllocGlobal, Allocate
    <3> QED BY <3>1, AllocateInv
  <2>2. CASE AllocBuf
    <3>1. Allocate(pc, "buf", "heap") /\ pc = "buf"
      BY <2>2 DEF AllocBuf, Allocate
    <3> QED BY <3>1, AllocateInv
  <2>3. CASE HeapReset
    <3>1. Allocate(pc, "heap", "table") /\ pc = "heap"
      BY <2>3 DEF HeapReset, Allocate
    <3> QED BY <3>1, AllocateInv
  <2> QED BY <1>1, <2>1, <2>2, <2>3
<1>2. ASSUME TooShort \/ NoHashinfo PROVE HashInv'
  <2>1. GiveUp /\ UNCHANGED <<readVars, keptVars, resultVars>> /\ pc \in {"fill", "info"}
    BY <1>2 DEF TooShort, NoHashinfo
  <2> QED BY <2>1, GiveUpInv
<1>3. ASSUME UNCHANGED vars PROVE HashInv'
  <2> USE <1>3 DEF vars
  <2>1. TypeOK /\ RingInv /\ KeepInv /\ ResultInv /\ MemoryInv
    BY DEF HashInv
  <2>2. TypeOK'
    BY <2>1 DEF TypeOK
  <2>3. RingInv' /\ KeepInv'
    BY <2>1 DEF RingInv, KeepInv
  <2>4. ResultInv' /\ MemoryInv'
    BY <2>1 DEF ResultInv, MemoryInv
  <2> QED BY <2>2, <2>3, <2>4 DEF HashInv
<1>4. \/ Open \/ AllocGlobal \/ AllocBuf \/ HeapReset \/ HashReset
      \/ Fill \/ TooShort \/ Insert \/ GcFails \/ Read \/ EndOfFile
      \/ GetHashinfo \/ NoHashinfo \/ Copy \/ UNCHANGED vars
  BY DEF Next, Terminated
<1> QED BY <1>1, <1>2, <1>3, <1>4, OpenInv, HashResetInv, FillInv, InsertInv, GcFailsInv, ReadInv,
           EndOfFileInv, GetHashinfoInv, CopyInv

-----------------------------------------------------------------------------
(* Theorems.                                                               *)

\* The invariant holds in every state of every run of the worker
\* (binsort.c: binsort_worker_hash; simhash.c: hash_file).
THEOREM HashInvariant == Spec => []HashInv
<1>1. Init => HashInv
  BY InitHashInv
<1>2. HashInv /\ [Next]_vars => HashInv'
  BY NextHashInv
<1> QED BY <1>1, <1>2, PTL DEF Spec

\* Every variable holds a value of its kind, and the heap does not overflow
\* (simhash.c: heap_insert).
THEOREM HashTypes == Spec => []TypeOK
<1>1. HashInv => TypeOK
  BY DEF HashInv
<1> QED BY <1>1, HashInvariant, PTL

\* The heap keeps the smallest checksums of the file, each once, and they come
\* off it in descending order (simhash.c: crc_insert, get_hashinfo).
THEOREM SmallestAreKept == Spec => []KeepsSmallest
<1>1. HashInv => KeepsSmallest
  <2> SUFFICES ASSUME HashInv PROVE KeepsSmallest
    OBVIOUS
  <2>1. TypeOK /\ KeepInv /\ ResultInv
    BY DEF HashInv
  <2>2. ASSUME pc = "read" PROVE RangeOf(heap) = Smallest(seen) /\ Len(heap) = Cardinality(RangeOf(heap))
    <3>1. IsHeap(heap) /\ Kept(RangeOf(heap), seen) /\ seen \subseteq Checksums
      BY <2>1, <2>2 DEF KeepInv, TypeOK
    <3>2. IsFiniteSet(seen) /\ seen \subseteq Nat
      BY <3>1, SimhashAssumption, FS_Subset
    <3> QED BY <3>1, <3>2, KeptAreSmallest, HeapFits
  <2> QED BY <2>1, <2>2 DEF KeepsSmallest, ResultInv
<1> QED BY <1>1, HashInvariant, PTL

\* The table holds what is on the heap, each checksum where a search finds it,
\* and no search fails after a gc (simhash.c: hash_insert, hash_contains,
\* hash_delete, gc).
THEOREM TableHoldsHeap == Spec => []TableAgrees
<1>1. HashInv => TableAgrees
  <2> SUFFICES ASSUME HashInv, pc = "read" PROVE TableAgrees
    BY DEF TableAgrees
  <2> DEFINE kept == RangeOf(heap)
             clean == Gc(table)
  <2>1. IsHeap(heap) /\ Kept(kept, seen) /\ Holds(table, kept)
    BY DEF HashInv, KeepInv
  <2>2. IsFiniteSet(kept) /\ Cardinality(kept) < NumSlots
    BY <2>1, HeapFits
  <2>3. Holds(clean, kept) /\ NoneDeleted(clean)
    BY <2>1, <2>2, GcRight
  <2> HIDE DEF kept, clean
  <2>4. kept = {table[s] : s \in Slot} \ {EMPTY, DELETED}
    <3>1. \A s \in Slot : table[s] \in Checksums \cup {EMPTY, DELETED}
      BY <2>1 DEF Holds, Table
    <3>2. ASSUME NEW c \in kept PROVE c \in {table[s] : s \in Slot} \ {EMPTY, DELETED}
      BY <2>1, Marks DEF Holds
    <3>3. ASSUME NEW s \in Slot, table[s] \notin {EMPTY, DELETED} PROVE table[s] \in kept
      BY <2>1, <3>1, <3>3 DEF Holds
    <3> QED BY <3>2, <3>3
  <2>5. \A r, s \in Slot : r # s /\ table[r] \in Checksums => table[r] # table[s]
    BY <2>1 DEF Holds
  <2>6. \A c \in kept : Contains(table, c)
    <3> TAKE c \in kept
    <3>1. c \in Checksums
      BY <2>1 DEF Holds
    <3> QED BY <2>1, <3>1, ContainsRight
  <2>7. \A c \in Checksums : Searchable(clean, c)
    BY <2>2, <2>3, NoneDeletedSearchable
  <2> QED BY <2>4, <2>5, <2>6, <2>7 DEF TableAgrees, kept, clean
<1> QED BY <1>1, HashInvariant, PTL

\* The walk along two lists counts what they have in common, and makes a
\* distance of it that is symmetric, that of the union for lists of the same
\* length and no greater for others, and the greatest there is only for files
\* with nothing in common (simhash.c: hashinfo_score; binsort.c:
\* binsort_worker_calcdist).
THEOREM DistanceIsRight == Spec => []DistanceRight
<1>1. HashInv => DistanceRight
  <2> SUFFICES ASSUME HashInv, node # <<>>, NEW other \in FeatureLists
               PROVE  LET common == RangeOf(node) \cap RangeOf(other)
                      IN  /\ MatchCount(node, other) = Cardinality(common)
                          /\ Distance(node, other) = Distance(other, node)
                          /\ Distance(node, other) \in 0 .. UnionDistance(node, other)
                          /\ Len(node) = Len(other) => Distance(node, other) = UnionDistance(node, other)
                          /\ NumFeatures <= 128 => (Distance(node, other) = 255 <=> common = {})
    BY DEF DistanceRight
  <2> DEFINE S == Smallest(seen)
  <2>1. node = Descending(S) /\ node \in Seq(Checksums) /\ seen \subseteq Checksums
    BY DEF HashInv, ResultInv, TypeOK
  <2>2. S \subseteq Nat /\ IsFiniteSet(S)
    <3>1. S \subseteq seen
      BY DEF Smallest
    <3>2. S \subseteq Checksums
      BY <2>1, <3>1
    <3> QED BY <3>2, SimhashAssumption, FS_Subset
  <2> HIDE DEF S
  <2>3. RangeOf(node) = S /\ Len(node) = Cardinality(S)
    BY <2>1, <2>2, DescendingRight
  <2>4. S # {}
    <3>1. Len(node) # 0
      BY <2>1
    <3> QED BY <2>3, <3>1, FS_EmptySet
  <2>5. PICK T \in SUBSET Checksums : Cardinality(T) \in 1 .. NumFeatures /\ other = Descending(T)
    BY DEF FeatureLists
  <2>6. FeatureSet(S) /\ FeatureSet(T)
    <3>1. T \subseteq Nat /\ IsFiniteSet(T)
      BY SimhashAssumption, FS_Subset
    <3>2. T # {}
      <4>1. Cardinality(T) # 0
        BY <2>5, SimhashAssumption
      <4> QED BY <4>1, FS_EmptySet
    <3> QED BY <2>2, <2>4, <3>1, <3>2 DEF FeatureSet
  <2>7. RangeOf(other) = T
    BY <2>5, <2>6, DescendingRight DEF FeatureSet
  <2>8. ListsOf(node, S, other, T)
    BY <2>1, <2>5, <2>6 DEF ListsOf
  <2>9. CommonSize(S, T) = Cardinality(S \cap T) /\ (CommonSize(S, T) = 0 <=> S \cap T = {})
    <3>1. IsFiniteSet(S \cap T)
      BY <2>2, FS_Intersection
    <3> QED BY <3>1, FS_EmptySet DEF CommonSize
  <2>10. MatchCount(node, other) = CommonSize(S, T) /\ Distance(node, other) = Distance(other, node)
    BY <2>8, DistanceOfLists
  <2>11. PICK a \in Nat, b \in Nat :
           /\ a = Distance(node, other) /\ b = UnionDistance(node, other) /\ a <= b
           /\ Len(node) = Len(other) => a = b
           /\ CommonSize(S, T) = 0 => a = 255
           /\ UnionSize(S, T) <= 255 /\ a = 255 => CommonSize(S, T) = 0
    BY <2>8, DistanceBounds
  <2>12. ASSUME NumFeatures <= 128, a = 255 PROVE CommonSize(S, T) = 0
    <3>1. PICK l \in Nat : l = Cardinality(T) /\ l <= 128
      BY <2>5, <2>12, SimhashAssumption
    <3>2. PICK k \in Nat : k = Cardinality(S)
      BY <2>2, FS_CardinalityType
    <3>3. PICK m \in Nat : m = CommonSize(S, T)
      BY <2>6, UnionSizeRight DEF FeatureSet
    <3>4. UnionSize(S, T) = 2 * (IF k > l THEN l ELSE k) - m
      BY <3>1, <3>2, <3>3 DEF UnionSize
    <3>5. m # 0 => UnionSize(S, T) <= 255
      BY <3>1, <3>2, <3>3, <3>4
    <3> QED BY <2>11, <2>12, <3>3, <3>5
  <2>13. Distance(node, other) \in 0 .. UnionDistance(node, other)
    BY <2>11
  <2>14. Len(node) = Len(other) => Distance(node, other) = UnionDistance(node, other)
    BY <2>11
  <2>15. NumFeatures <= 128 => (Distance(node, other) = 255 <=> S \cap T = {})
    BY <2>9, <2>11, <2>12
  <2> QED BY <2>3, <2>7, <2>9, <2>10, <2>13, <2>14, <2>15
<1> QED BY <1>1, HashInvariant, PTL

\* What the code makes of two lists of which one has all the features of the
\* other and more: no distance at all, where the comment of hashinfo_score speaks
\* of the union, of which they do not have all in common (simhash.c:574-576,
\* 606-612).
THEOREM ContainedAtNoDistance ==
  ASSUME NEW S, NEW T, T \subseteq Nat, IsFiniteSet(T), S \subseteq T, S # {}, S # T
  PROVE  /\ Distance(Descending(S), Descending(T)) = 0
         /\ UnionDistance(Descending(S), Descending(T)) > 0
<1>1. FeatureSet(S) /\ FeatureSet(T)
  BY FS_Subset DEF FeatureSet
<1>2. PICK f, g : f = Descending(S) /\ g = Descending(T)
  OBVIOUS
<1>3. ListsOf(f, S, g, T)
  BY <1>1, <1>2 DEF ListsOf
<1>4. PICK a \in Nat, b \in Nat :
        /\ a = Distance(f, g) /\ b = UnionDistance(f, g)
        /\ CommonSize(S, T) = UnionSize(S, T) => a = 0
        /\ b = 0 => CommonSize(S, T) = FullSize(S, T)
  BY <1>3, DistanceBounds
<1>5. CommonSize(S, T) = UnionSize(S, T) /\ CommonSize(S, T) # FullSize(S, T)
  BY <1>1, UnionSizeRight DEF FeatureSet
<1>6. Distance(f, g) = 0 /\ UnionDistance(f, g) > 0
  BY <1>4, <1>5
<1> QED BY <1>2, <1>6

\* Whichever allocation fails and wherever the file ends, all that was opened
\* or allocated is given back but for the hash (binsort.c: binsort_worker_hash;
\* simhash.c: simhash_file, hash_file, get_hashinfo).
THEOREM HashFreesAll == Spec => []AllFreed
<1>1. HashInv => AllFreed
  BY DEF HashInv, ResultInv, MemoryInv, AllFreed
<1> QED BY <1>1, HashInvariant, PTL
=============================================================================
