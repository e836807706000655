--------------------------- MODULE DistancesProofs --------------------------
(***************************************************************************)
(* Theorems about Distances, for any number of hashes and of workers: the  *)
(* parts are cut so that no distance is written twice, every one is        *)
(* written, and none outside of the array.                                 *)
(***************************************************************************)
EXTENDS Distances, FiniteSetTheorems, WellFoundedInduction, TLAPS

-----------------------------------------------------------------------------
(* Arithmetic.                                                             *)

\* Every non-empty set of natural numbers has a least element.
LEMMA LeastNatural ==
  ASSUME NEW T, T \subseteq Nat, T # {}
  PROVE  \E n \in T : \A m \in T : n <= m
<1>1. PICK n \in T : \A m \in T : <<m, n>> \notin OpToRel(<, Nat)
  BY NatLessThanWellFounded, WFMin
<1>2. \A m \in T : ~ (m < n)
  BY <1>1 DEF OpToRel
<1> QED BY <1>2

LEMMA SquareMonotone ==
  ASSUME NEW a \in Nat, NEW b \in Nat, a <= b
  PROVE  a * a <= b * b
<1>1. a * a <= a * b
  OBVIOUS
<1>2. a * b <= b * b
  OBVIOUS
<1> QED BY <1>1, <1>2

\* Root is the greatest whole number whose square is not too great.
LEMMA RootExact ==
  ASSUME NEW n \in Nat
  PROVE  /\ Root(n) \in Nat
         /\ Root(n) * Root(n) <= n
         /\ n < (Root(n) + 1) * (Root(n) + 1)
<1> DEFINE T == {r \in Nat : (r + 1) * (r + 1) > n}
<1>1. n \in T
  <2>1. (n + 1) * (n + 1) = n * n + 2 * n + 1
    OBVIOUS
  <2>2. n * n >= 0
    OBVIOUS
  <2> QED BY <2>1, <2>2
<1>2. PICK r \in T : \A m \in T : r <= m
  BY <1>1, LeastNatural
<1>3. r * r <= n
  <2>1. CASE r = 0
    BY <2>1
  <2>2. CASE r # 0
    <3>1. r - 1 \in Nat /\ r - 1 \notin T
      BY <1>2, <2>2
    <3> QED BY <3>1
  <2> QED BY <2>1, <2>2
<1>4. r \in 0 .. n
  BY <1>1, <1>2
<1>5. \E q \in 0 .. n : q * q <= n /\ (q + 1) * (q + 1) > n
  BY <1>3, <1>4
<1> HIDE DEF T
<1>6. Root(n) \in 0 .. n /\ Root(n) * Root(n) <= n /\ (Root(n) + 1) * (Root(n) + 1) > n
  BY <1>5 DEF Root
<1> QED BY <1>6

LEMMA RootMonotone ==
  ASSUME NEW a \in Nat, NEW b \in Nat, a <= b
  PROVE  Root(a) <= Root(b)
<1> DEFINE r == Root(a)
           q == Root(b)
<1>1. /\ r \in Nat /\ r * r <= a
      /\ q \in Nat /\ b < (q + 1) * (q + 1)
  BY RootExact
<1> HIDE DEF r, q
<1>2. ~ (q + 1 <= r)
  <2> SUFFICES ASSUME q + 1 <= r PROVE FALSE
    OBVIOUS
  <2>1. (q + 1) * (q + 1) <= r * r
    BY <1>1, SquareMonotone
  <2> QED BY <1>1, <2>1
<1>3. r <= q
  BY <1>1, <1>2
<1> QED BY <1>3 DEF r, q

\* A bound on the root from a bound on the square.
LEMMA RootBelow ==
  ASSUME NEW a \in Nat, NEW b \in Nat, a < b * b
  PROVE  Root(a) < b
<1> DEFINE r == Root(a)
<1>1. r \in Nat /\ r * r <= a
  BY RootExact
<1> HIDE DEF r
<1>2. ~ (b <= r)
  <2> SUFFICES ASSUME b <= r PROVE FALSE
    OBVIOUS
  <2>1. b * b <= r * r
    BY <1>1, SquareMonotone
  <2> QED BY <1>1, <2>1
<1>3. r < b
  BY <1>1, <1>2
<1> QED BY <1>3 DEF r

LEMMA RootNotBelow ==
  ASSUME NEW a \in Nat, NEW b \in Nat, b * b <= a
  PROVE  b <= Root(a)
<1> DEFINE r == Root(a)
<1>1. r \in Nat /\ a < (r + 1) * (r + 1)
  BY RootExact
<1> HIDE DEF r
<1>2. ~ (r + 1 <= b)
  <2> SUFFICES ASSUME r + 1 <= b PROVE FALSE
    OBVIOUS
  <2>1. (r + 1) * (r + 1) <= b * b
    BY <1>1, SquareMonotone
  <2> QED BY <1>1, <2>1
<1>3. b <= r
  BY <1>1, <1>2
<1> QED BY <1>3 DEF r

-----------------------------------------------------------------------------
(* Where the rows are cut.                                                 *)

\* No part is smaller than two hashes' worth.
Sized ==
  /\ num \in Nat /\ num >= 3
  /\ numworkers \in Nat \ {0}
  /\ numworkers = 1 \/ 2 * numworkers <= num

Share == (num * num) \div numworkers

\* The first row of part k, and the end of the rows for k = numworkers.
Cut(k) == IF k < numworkers THEN Root(k * Share) ELSE num

LEMMA ShareBounds ==
  ASSUME Sized
  PROVE  /\ Share \in Nat /\ Share > 0
         /\ numworkers * Share <= num * num
         /\ numworkers # 1 => 2 * num <= Share
<1> DEFINE n2 == num * num
<1>1. n2 \in Nat /\ n2 >= 3 * num
  BY SMT DEF Sized
<1>2. /\ n2 \div numworkers \in Nat
      /\ numworkers * (n2 \div numworkers) <= n2
      /\ n2 < numworkers * (n2 \div numworkers) + numworkers
  <2> HIDE DEF n2
  <2> QED BY <1>1 DEF Sized
<1>3. Share = n2 \div numworkers
  BY DEF Share
<1> HIDE DEF n2
<1>4. numworkers # 1 => 2 * num <= Share
  <2> SUFFICES ASSUME numworkers # 1, Share + 1 <= 2 * num PROVE FALSE
    BY <1>2, <1>3 DEF Sized
  <2>1. numworkers * (Share + 1) <= numworkers * (2 * num)
    BY <1>2, <1>3 DEF Sized
  <2>2. (2 * numworkers) * num <= n2
    BY DEF Sized, n2
  <2>3. n2 < numworkers * (Share + 1)
    BY <1>2, <1>3 DEF Sized
  <2>4. numworkers * (2 * num) = (2 * numworkers) * num
    BY DEF Sized
  <2> QED BY <1>1, <1>2, <1>3, <2>1, <2>2, <2>3, <2>4 DEF Sized
<1>5. Share > 0
  BY <1>1, <1>2, <1>3, <1>4 DEF Sized
<1> QED BY <1>2, <1>3, <1>4, <1>5 DEF n2

\* Every part begins behind the part before it, and before the end.
LEMMA CutsAscend ==
  ASSUME Sized, NEW k \in Parts
  PROVE  /\ Cut(k) \in 0 .. num - 1
         /\ Cut(k + 1) \in Cut(k) + 1 .. num
         /\ LastRow(k) = Cut(k + 1) - 1
<1>1. k \in Nat /\ k + 1 <= numworkers
  BY DEF Parts, Sized
<1>2. k * Share \in Nat /\ (k + 1) * Share = k * Share + Share
  <2> DEFINE s == Share
  <2>1. s \in Nat
    BY ShareBounds
  <2> HIDE DEF s
  <2>2. k * s \in Nat /\ (k + 1) * s = k * s + s
    BY <1>1, <2>1
  <2> QED BY <2>2 DEF s
<1>3. k * Share + Share <= num * num
  <2>1. (k + 1) * Share <= numworkers * Share
    BY <1>1, ShareBounds DEF Sized
  <2> QED BY <1>2, <2>1, ShareBounds DEF Sized
<1>4. Root(k * Share) \in Nat /\ Root(k * Share) * Root(k * Share) <= k * Share
  BY <1>2, RootExact
<1>5. Root(k * Share) < num
  BY <1>2, <1>3, RootBelow, ShareBounds DEF Sized
<1>6. ASSUME k + 1 < numworkers
      PROVE  Root(k * Share) + 1 <= Root((k + 1) * Share) /\ Root((k + 1) * Share) < num
  <2> DEFINE r == Root(k * Share)
  <2>1. (r + 1) * (r + 1) = r * r + 2 * r + 1
    BY <1>4
  <2>2. 2 * num <= Share
    BY <1>1, <1>6, ShareBounds
  <2>3. (r + 1) * (r + 1) <= (k + 1) * Share
    BY <1>2, <1>4, <1>5, <2>1, <2>2, ShareBounds DEF Sized
  <2>4. (k + 2) * Share <= numworkers * Share
    BY <1>1, <1>6, ShareBounds DEF Sized
  <2>5. (k + 1) * Share < num * num
    BY <1>1, <1>2, <2>4, ShareBounds DEF Sized
  <2>6. (k + 1) * Share \in Nat
    BY <1>1, ShareBounds
  <2>7. r + 1 <= Root((k + 1) * Share)
    BY <1>4, <2>3, <2>6, RootNotBelow
  <2>8. Root((k + 1) * Share) < num
    BY <2>5, <2>6, RootBelow DEF Sized
  <2> QED BY <2>7, <2>8
<1>7. k + 1 < numworkers => Root((k + 1) * Share) \in Nat
  BY <1>2, ShareBounds, RootExact
<1>8. LastRow(k) = Cut(k + 1) - 1
  BY <1>1 DEF LastRow, Cut, Share, Sized
<1> QED BY <1>1, <1>4, <1>5, <1>6, <1>7, <1>8 DEF Cut, Sized

LEMMA CutMonotone ==
  ASSUME Sized, NEW j \in 0 .. numworkers, NEW k \in 0 .. numworkers, j <= k
  PROVE  Cut(j) \in 0 .. num /\ Cut(j) <= Cut(k)
<1>1. CASE k < numworkers
  <2>1. /\ j \in Nat /\ k \in Nat /\ j \in Parts
        /\ j * Share \in Nat /\ k * Share \in Nat /\ j * Share <= k * Share
    BY <1>1, ShareBounds DEF Sized, Parts
  <2> QED BY <1>1, <2>1, RootMonotone, CutsAscend DEF Cut, Sized
<1>2. CASE k = numworkers /\ j < numworkers
  <2>1. j \in Parts
    BY <1>2 DEF Parts, Sized
  <2> QED BY <1>2, <2>1, CutsAscend DEF Cut, Sized
<1>3. CASE k = numworkers /\ j = numworkers
  BY <1>3 DEF Cut, Sized
<1> QED BY <1>1, <1>2, <1>3 DEF Sized

LEMMA CutFirst == ASSUME Sized PROVE Cut(0) = 0
<1>1. 0 * Share = 0
  BY ShareBounds
<1>2. Root(0) \in Nat /\ Root(0) * Root(0) <= 0
  BY RootExact
<1>3. Root(0) = 0
  BY <1>2
<1> QED BY <1>1, <1>3 DEF Cut, Sized

-----------------------------------------------------------------------------
(* The inductive invariant.                                                *)

Index == 0 .. num - 1

\* The parts are cut in order, each where the one before it ends.
Sender ==
  /\ i \in 0 .. numworkers
  /\ i0 = Cut(i) /\ y \in 0 .. i0
  /\ parts = [k \in Parts |-> IF k < i THEN [first |-> Cut(k), last |-> Cut(k + 1) - 1]
                                       ELSE [first |-> -1, last |-> -1]]
  /\ \A r \in 0 .. i0 - 1 : \E k \in Parts : k < i /\ r \in Cut(k) .. Cut(k + 1) - 1

\* Every worker is in its part, or at the end of it.
Rows ==
  /\ row \in [Parts -> Nat] /\ col \in [Parts -> Nat] /\ noted \in [Parts -> Nat]
  /\ replied \subseteq Parts
  /\ \A k \in Parts :
       /\ k < i => row[k] \in Cut(k) .. Cut(k + 1) /\ col[k] <= row[k]
       /\ col[k] # 0 => k < i /\ row[k] < Cut(k + 1)
       /\ k >= i => row[k] = 0
       /\ k \in replied => k < i /\ row[k] = Cut(k + 1)

\* Worker k has been where column x is of row r.
Passed(k, x, r) ==
  k < i /\ x < r /\ Cut(k) <= r /\ (r < row[k] \/ (r = row[k] /\ x < col[k]))

\* The places that are written are those where the workers have been.
Filled ==
  /\ IsFiniteSet(cells)
  /\ cells = {c \in Index \X Index :
                \E k \in Parts : Passed(k, c[1], c[2]) \/ Passed(k, c[2], c[1])}

Inv ==
  /\ num \in HashCounts /\ Sized /\ left \in Int
  /\ Sender /\ Rows /\ Filled

\* The parts have no row in common.
LEMMA PartsApart ==
  ASSUME Sized, NEW j \in Parts, NEW k \in Parts, NEW r \in Int,
         r \in Cut(j) .. Cut(j + 1) - 1, r \in Cut(k) .. Cut(k + 1) - 1
  PROVE  j = k
<1>1. /\ j \in Nat /\ k \in Nat /\ numworkers \in Nat
      /\ j \in 0 .. numworkers /\ j + 1 \in 0 .. numworkers
      /\ k \in 0 .. numworkers /\ k + 1 \in 0 .. numworkers
  BY DEF Parts, Sized
<1>2. j + 1 <= k => Cut(j + 1) <= Cut(k)
  BY <1>1, CutMonotone
<1>3. k + 1 <= j => Cut(k + 1) <= Cut(j)
  BY <1>1, CutMonotone
<1>4. Cut(j) \in Int /\ Cut(k) \in Int /\ Cut(j + 1) \in Int /\ Cut(k + 1) \in Int
  BY CutsAscend
<1> QED BY <1>1, <1>2, <1>3, <1>4

\* Which parts are sent, and what they are.
LEMMA PartSent ==
  ASSUME Sized, Sender, NEW k \in Parts
  PROVE  /\ Sent(k) <=> k < i
         /\ k < i => parts[k].first = Cut(k) /\ parts[k].last = Cut(k + 1) - 1
         /\ k \in Nat /\ i \in Nat /\ Cut(k) \in Nat /\ Cut(k + 1) \in Nat
<1>1. k \in Nat /\ i \in Nat /\ Cut(k) \in Nat /\ Cut(k + 1) \in Nat
  <2>1. k \in Nat /\ i \in Nat
    BY DEF Parts, Sized, Sender
  <2>2. Cut(k) \in 0 .. num - 1 /\ Cut(k + 1) \in Cut(k) + 1 .. num
    BY CutsAscend
  <2>3. Cut(k) \in Nat
    BY <2>2
  <2>4. Cut(k + 1) \in Nat
    BY <2>2, <2>3
  <2> QED BY <2>1, <2>3, <2>4
<1>2. parts[k] = IF k < i THEN [first |-> Cut(k), last |-> Cut(k + 1) - 1]
                          ELSE [first |-> -1, last |-> -1]
  BY DEF Sender
<1>3. CASE k < i
  BY <1>1, <1>2, <1>3 DEF Sent
<1>4. CASE ~ (k < i)
  BY <1>1, <1>2, <1>4 DEF Sent
<1> QED BY <1>1, <1>3, <1>4

LEMMA InitInv == Init => Inv
<1> SUFFICES ASSUME Init PROVE Inv
  OBVIOUS
<1>1. PICK workers \in WorkerCounts : numworkers = ClampedWorkers(num, workers)
  BY DEF Init
<1>2. num \in HashCounts /\ num \in Nat /\ num >= 3
  BY DistancesAssumption DEF Init
<1>3. Sized
  <2> DEFINE most == num \div HashesPerWorker
  <2>1. most \in Nat /\ 2 * most <= num
    <3>1. most \in Nat /\ HashesPerWorker * most <= num
      BY <1>2, DistancesAssumption
    <3>2. 2 * most <= HashesPerWorker * most
      <4> HIDE DEF most
      <4> QED BY <3>1, DistancesAssumption
    <3> HIDE DEF most
    <3> QED BY <1>2, <3>1, <3>2, DistancesAssumption
  <2>2. workers \in Nat \ {0}
    BY DistancesAssumption
  <2>3. numworkers = IF most >= workers THEN workers ELSE IF most < 1 THEN 1 ELSE most
    BY <1>1 DEF ClampedWorkers
  <2> HIDE DEF most
  <2> QED BY <1>2, <2>1, <2>2, <2>3 DEF Sized
<1>4. left \in Int
  BY <1>2 DEF Init
<1>5. Sender
  BY <1>3, CutFirst DEF Init, Sender, Sized, Parts
<1>6. Rows
  BY <1>3 DEF Init, Rows, Sized, Parts
<1>7. Filled
  BY <1>3, FS_EmptySet DEF Init, Filled, Passed, Sized, Parts
<1> QED BY <1>2, <1>3, <1>4, <1>5, <1>6, <1>7 DEF Inv

\* The cuts stay where they are.
LEMMA CutsSame ==
  ASSUME UNCHANGED <<num, numworkers>>
  PROVE  /\ Parts' = Parts /\ Index' = Index /\ (Sized' <=> Sized)
         /\ \A k : Cut(k)' = Cut(k)
BY DEF Parts, Index, Sized, Cut, Share

\* Writing a distance fills two new places.
LEMMA TwoPlaces ==
  ASSUME Inv, NEW k \in Parts, WriteDistance(k)
  PROVE  /\ Filled'
         /\ Cardinality(cells') = Cardinality(cells) + 2
<1> DEFINE x == col[k]
           r == row[k]
           a == <<x, r>>
           b == <<r, x>>
<1>1. /\ k < i /\ x < r /\ r \in Cut(k) .. Cut(k + 1) - 1
      /\ x \in Nat /\ r \in Nat
  BY PartSent DEF WriteDistance, InRow, Inv, Rows
<1>2. x \in Index /\ r \in Index
  BY <1>1, CutsAscend DEF Index, Inv, Sized
<1>3. cells' = (cells \cup {a}) \cup {b}
  BY DEF WriteDistance
<1>4. a \notin cells /\ b \notin cells
  <2> SUFFICES ASSUME NEW j \in Parts, Passed(j, x, r) \/ Passed(j, r, x) PROVE FALSE
    BY DEF Inv, Filled
  <2>1. Passed(j, x, r)
    BY <1>1 DEF Passed
  <2>2. j < i /\ Cut(j) <= r /\ (r < row[j] \/ (r = row[j] /\ x < col[j]))
    BY <2>1 DEF Passed
  <2>3. /\ row[j] \in Nat /\ col[j] \in Nat /\ row[j] \in Cut(j) .. Cut(j + 1)
        /\ (col[j] # 0 => row[j] < Cut(j + 1))
    BY <2>2 DEF Inv, Rows
  <2>4. Cut(j) \in Nat /\ Cut(j + 1) \in Nat
    BY PartSent DEF Inv
  <2>5. r \in Cut(j) .. Cut(j + 1) - 1
    BY <1>1, <2>2, <2>3, <2>4
  <2>6. j = k
    BY <1>1, <2>5, PartsApart DEF Inv
  <2> QED BY <1>1, <2>2, <2>6
<1>5. a # b
  BY <1>1
<1>6. IsFiniteSet(cells') /\ Cardinality(cells') = Cardinality(cells) + 2
  <2> HIDE DEF a, b
  <2>1. IsFiniteSet(cells) /\ Cardinality(cells) \in Nat
    BY FS_CardinalityType DEF Inv, Filled
  <2>2. /\ IsFiniteSet(cells \cup {a})
        /\ Cardinality(cells \cup {a}) = Cardinality(cells) + 1
    BY <1>4, <2>1, FS_AddElement
  <2>3. b \notin cells \cup {a}
    BY <1>4, <1>5
  <2>4. /\ IsFiniteSet((cells \cup {a}) \cup {b})
        /\ Cardinality((cells \cup {a}) \cup {b}) = Cardinality(cells \cup {a}) + 1
    BY <2>2, <2>3, FS_AddElement
  <2> QED BY <1>3, <2>1, <2>2, <2>4
<1>7. \A j \in Parts, v \in Index, w \in Index :
        Passed(j, v, w)' <=> Passed(j, v, w) \/ (j = k /\ v = x /\ w = r)
  <2> SUFFICES ASSUME NEW j \in Parts, NEW v \in Index, NEW w \in Index
               PROVE  Passed(j, v, w)' <=> Passed(j, v, w) \/ (j = k /\ v = x /\ w = r)
    OBVIOUS
  <2>1. /\ i' = i /\ Cut(j)' = Cut(j) /\ row' = row
        /\ col' = [col EXCEPT ![k] = @ + 1]
    BY CutsSame DEF WriteDistance
  <2>2. v \in Nat /\ w \in Nat /\ row[j] \in Nat /\ col[j] \in Nat
    BY DEF Inv, Sized, Rows, Index
  <2>3. CASE j = k
    <3>1. col'[j] = col[j] + 1
      BY <2>1, <2>3 DEF Inv, Rows
    <3> QED BY <1>1, <2>1, <2>2, <2>3, <3>1 DEF Passed
  <2>4. CASE j # k
    <3>1. col'[j] = col[j]
      BY <2>1, <2>4 DEF Inv, Rows
    <3> QED BY <2>1, <2>2, <2>4, <3>1 DEF Passed
  <2> QED BY <2>3, <2>4
<1>8. Parts' = Parts /\ Index' = Index
  BY CutsSame DEF WriteDistance
<1>9. cells' = {c \in Index \X Index :
                  \E j \in Parts : Passed(j, c[1], c[2])' \/ Passed(j, c[2], c[1])'}
  BY <1>2, <1>3, <1>7 DEF Inv, Filled
<1> QED BY <1>6, <1>8, <1>9 DEF Filled

LEMMA StepInv == Inv /\ [Next]_vars => Inv'
<1> SUFFICES ASSUME Inv, [Next]_vars PROVE Inv'
  OBVIOUS
<1>1. UNCHANGED <<num, numworkers>>
  BY DEF Next, SendPart, PassRow, WriteDistance, NextRow, Reply, Terminated, vars
<1>2. num' \in HashCounts /\ Sized' /\ Sized /\ num \in Nat /\ numworkers \in Nat
  BY <1>1, CutsSame DEF Inv, Sized
<1>3. \A k \in Parts : /\ k \in Nat /\ k + 1 <= numworkers
                       /\ Cut(k) \in 0 .. num - 1
                       /\ Cut(k + 1) \in Cut(k) + 1 .. num
                       /\ LastRow(k) = Cut(k + 1) - 1
  BY <1>2, CutsAscend DEF Parts
<1>4. Cut(numworkers) = num
  BY <1>2 DEF Cut
<1>5. CASE SendPart
  <2>1. i \in Parts
    BY <1>2, <1>4, <1>5 DEF SendPart, Inv, Sender, Parts
  <2>2. /\ LastRow(i) = Cut(i + 1) - 1 /\ Cut(i + 1) \in Cut(i) + 1 .. num /\ Cut(i) \in Nat
        /\ i \in Nat
    BY <1>3, <2>1
  <2>3. i' = i + 1 /\ i0' = Cut(i + 1) /\ y' = Cut(i) + 1 /\ i0 = Cut(i)
    BY <1>5, <2>2 DEF SendPart, Inv, Sender, RowBehind
  <2>4. Sender'
    <3>1. parts' = [k \in Parts |-> IF k < i' THEN [first |-> Cut(k), last |-> Cut(k + 1) - 1]
                                              ELSE [first |-> -1, last |-> -1]]
      <4>1. parts' = [parts EXCEPT ![i] = [first |-> Cut(i), last |-> Cut(i + 1) - 1]]
        BY <1>5, <2>2, <2>3 DEF SendPart
      <4>2. \A k \in Parts : k < i + 1 <=> k < i \/ k = i
        BY <1>3, <2>2
      <4> QED BY <2>1, <2>2, <2>3, <4>1, <4>2 DEF Inv, Sender
    <3>2. \A r \in 0 .. i0' - 1 : \E k \in Parts : k < i' /\ r \in Cut(k) .. Cut(k + 1) - 1
      <4> SUFFICES ASSUME NEW r \in 0 .. i0' - 1
                   PROVE  \E k \in Parts : k < i' /\ r \in Cut(k) .. Cut(k + 1) - 1
        OBVIOUS
      <4>1. CASE r < Cut(i)
        BY <1>3, <2>2, <2>3, <4>1 DEF Inv, Sender
      <4>2. CASE r >= Cut(i)
        BY <2>1, <2>2, <2>3, <4>2
      <4> QED BY <2>2, <4>1, <4>2
    <3> QED BY <1>1, <1>2, <1>3, <2>1, <2>2, <2>3, <3>1, <3>2, CutsSame DEF Sender
  <2>5. Rows'
    <3>1. /\ row' = [row EXCEPT ![i] = Cut(i)] /\ col' = col /\ noted' = noted
          /\ replied' = replied
      BY <1>5, <2>3 DEF SendPart
    <3>2. col[i] = 0 /\ i \notin replied
      BY <2>1, <2>2 DEF Inv, Rows
    <3>3. \A k \in Parts : k < i' <=> k < i \/ k = i
      BY <1>3, <2>2, <2>3
    <3>4. \A k \in Parts : k # i => row'[k] = row[k]
      BY <3>1 DEF Inv, Rows
    <3>5. row'[i] = Cut(i) /\ row' \in [Parts -> Nat]
      BY <2>1, <2>2, <3>1 DEF Inv, Rows
    <3>6. \A k \in Parts :
            /\ k < i' => row'[k] \in Cut(k) .. Cut(k + 1) /\ col[k] <= row'[k]
            /\ col[k] # 0 => k < i' /\ row'[k] < Cut(k + 1)
            /\ k >= i' => row'[k] = 0
            /\ k \in replied => k < i' /\ row'[k] = Cut(k + 1)
      <4> SUFFICES ASSUME NEW k \in Parts
                   PROVE  /\ k < i' => row'[k] \in Cut(k) .. Cut(k + 1) /\ col[k] <= row'[k]
                          /\ col[k] # 0 => k < i' /\ row'[k] < Cut(k + 1)
                          /\ k >= i' => row'[k] = 0
                          /\ k \in replied => k < i' /\ row'[k] = Cut(k + 1)
        OBVIOUS
      <4>1. CASE k = i
        BY <2>1, <2>2, <2>3, <3>2, <3>5, <4>1
      <4>2. CASE k # i
        BY <1>3, <2>2, <2>3, <3>3, <3>4, <4>2 DEF Inv, Rows
      <4> QED BY <4>1, <4>2
    <3> QED BY <1>1, <3>1, <3>5, <3>6, CutsSame DEF Inv, Rows
  <2>6. Filled'
    <3>1. cells' = cells /\ col' = col /\ row' = [row EXCEPT ![i] = Cut(i)]
      BY <1>5, <2>3 DEF SendPart
    <3>2. col[i] = 0
      BY <2>1, <2>2 DEF Inv, Rows
    <3>3. \A k \in Parts, x \in Index, r \in Index : Passed(k, x, r)' <=> Passed(k, x, r)
      BY <1>1, <1>2, <1>3, <2>1, <2>2, <2>3, <3>1, <3>2, CutsSame DEF Passed, Index, Inv, Rows
    <3> QED BY <1>1, <3>1, <3>3, CutsSame DEF Inv, Filled
  <2> QED BY <1>2, <1>5, <2>4, <2>5, <2>6 DEF SendPart, Inv
<1>6. CASE PassRow
  <2>1. /\ UNCHANGED <<num, numworkers, i, i0, parts, row, col, noted, cells, left, replied>>
        /\ y' = y + 1
    BY <1>6 DEF PassRow
  <2>2. y < i0 /\ i0 \in Nat
    BY <1>6, <1>2, <1>3, <1>4 DEF PassRow, Inv, Sender, Parts
  <2>3. Sender'
    BY <2>1, <2>2, CutsSame DEF Inv, Sender
  <2>4. Rows'
    BY <2>1, CutsSame DEF Inv, Rows
  <2>5. Filled'
    BY <2>1, CutsSame DEF Inv, Filled, Passed
  <2> QED BY <1>2, <2>1, <2>3, <2>4, <2>5 DEF Inv
<1>7. ASSUME NEW k \in Parts, WriteDistance(k) PROVE Inv'
  <2>1. Sender'
    BY <1>1, <1>7, CutsSame DEF WriteDistance, Inv, Sender
  <2>2. Rows'
    <3>1. k < i /\ row[k] < Cut(k + 1) /\ col[k] < row[k]
      BY <1>7, PartSent DEF WriteDistance, InRow, Inv, Rows
    <3>2. /\ i' = i /\ row' = row /\ replied' = replied
          /\ col' = [col EXCEPT ![k] = @ + 1] /\ noted' = [noted EXCEPT ![k] = @ + 1]
      BY <1>7 DEF WriteDistance
    <3>3. col'[k] = col[k] + 1 /\ \A j \in Parts : j # k => col'[j] = col[j]
      BY <3>2 DEF Inv, Rows
    <3>4. col' \in [Parts -> Nat] /\ noted' \in [Parts -> Nat]
      BY <3>2 DEF Inv, Rows
    <3>5. col'[k] <= row[k] /\ k < i /\ row[k] < Cut(k + 1)
      BY <3>1, <3>3 DEF Inv, Rows
    <3>6. \A j \in Parts : /\ j < i => col'[j] <= row[j]
                           /\ col'[j] # 0 => j < i /\ row[j] < Cut(j + 1)
      BY <3>3, <3>5 DEF Inv, Rows
    <3> QED BY <1>1, <3>2, <3>4, <3>6, CutsSame DEF Inv, Rows
  <2>3. left' \in Int
    BY <1>7, DistancesAssumption DEF WriteDistance, Inv
  <2> QED BY <1>2, <1>7, <2>1, <2>2, <2>3, TwoPlaces DEF Inv
<1>8. ASSUME NEW k \in Parts, NextRow(k) PROVE Inv'
  <2>1. Sender'
    BY <1>1, <1>8, CutsSame DEF NextRow, Inv, Sender
  <2>2. k < i /\ row[k] < Cut(k + 1) /\ col[k] = row[k] /\ row[k] \in Nat
    BY <1>8, PartSent DEF NextRow, InRow, Inv, Rows
  <2>3. Rows'
    <3>1. /\ i' = i /\ replied' = replied /\ noted' = noted
          /\ row' = [row EXCEPT ![k] = @ + 1] /\ col' = [col EXCEPT ![k] = 0]
      BY <1>8 DEF NextRow
    <3>2. /\ row'[k] = row[k] + 1 /\ col'[k] = 0
          /\ \A j \in Parts : j # k => row'[j] = row[j] /\ col'[j] = col[j]
      BY <3>1 DEF Inv, Rows
    <3>3. row' \in [Parts -> Nat] /\ col' \in [Parts -> Nat]
      BY <3>1 DEF Inv, Rows
    <3>4. row'[k] \in Cut(k) .. Cut(k + 1) /\ k \notin replied
      BY <1>3, <2>2, <3>2 DEF Inv, Rows
    <3>5. \A j \in Parts :
            /\ j < i => row'[j] \in Cut(j) .. Cut(j + 1) /\ col'[j] <= row'[j]
            /\ col'[j] # 0 => j < i /\ row'[j] < Cut(j + 1)
            /\ j >= i => row'[j] = 0
            /\ j \in replied => j < i /\ row'[j] = Cut(j + 1)
      <4> SUFFICES ASSUME NEW j \in Parts
                   PROVE  /\ j < i => row'[j] \in Cut(j) .. Cut(j + 1) /\ col'[j] <= row'[j]
                          /\ col'[j] # 0 => j < i /\ row'[j] < Cut(j + 1)
                          /\ j >= i => row'[j] = 0
                          /\ j \in replied => j < i /\ row'[j] = Cut(j + 1)
        OBVIOUS
      <4>1. CASE j = k
        BY <1>3, <2>2, <3>2, <3>3, <3>4, <4>1 DEF Inv, Sender
      <4>2. CASE j # k
        BY <3>2, <4>2 DEF Inv, Rows
      <4> QED BY <4>1, <4>2
    <3> QED BY <1>1, <3>1, <3>3, <3>5, CutsSame DEF Inv, Rows
  <2>4. Filled'
    <3>1. \A j \in Parts, x \in Index, r \in Index : Passed(j, x, r)' <=> Passed(j, x, r)
      <4> SUFFICES ASSUME NEW j \in Parts, NEW x \in Index, NEW r \in Index
                   PROVE  Passed(j, x, r)' <=> Passed(j, x, r)
        OBVIOUS
      <4>1. /\ i' = i /\ Cut(j)' = Cut(j)
            /\ row' = [row EXCEPT ![k] = @ + 1] /\ col' = [col EXCEPT ![k] = 0]
        BY <1>1, <1>8, CutsSame DEF NextRow
      <4>2. x \in Nat /\ r \in Nat /\ row[j] \in Nat /\ col[j] \in Nat
        BY <1>2 DEF Inv, Rows, Index
      <4>3. CASE j = k
        <5>1. row'[j] = row[j] + 1 /\ col'[j] = 0 /\ col[j] = row[j]
          BY <2>2, <4>1, <4>3 DEF Inv, Rows
        <5> QED BY <4>1, <4>2, <5>1 DEF Passed
      <4>4. CASE j # k
        <5>1. row'[j] = row[j] /\ col'[j] = col[j]
          BY <4>1, <4>4 DEF Inv, Rows
        <5> QED BY <4>1, <4>2, <5>1 DEF Passed
      <4> QED BY <4>3, <4>4
    <3> QED BY <1>1, <1>8, <3>1, CutsSame DEF NextRow, Inv, Filled
  <2> QED BY <1>2, <1>8, <2>1, <2>3, <2>4 DEF NextRow, Inv
<1>9. ASSUME NEW k \in Parts, Reply(k) PROVE Inv'
  <2>1. Sender'
    BY <1>1, <1>9, CutsSame DEF Reply, Inv, Sender
  <2>2. k < i /\ row[k] = Cut(k + 1)
    BY <1>9, PartSent DEF Reply, Inv, Rows
  <2>3. Rows'
    BY <1>1, <1>3, <1>9, <2>2, CutsSame DEF Reply, Inv, Rows
  <2>4. Filled'
    BY <1>1, <1>9, CutsSame DEF Reply, Inv, Filled, Passed
  <2> QED BY <1>2, <1>9, <2>1, <2>3, <2>4 DEF Reply, Inv
<1>10. CASE UNCHANGED vars
  <2>1. Sender' /\ Rows' /\ Filled'
    BY <1>10, CutsSame DEF vars, Inv, Sender, Rows, Filled, Passed
  <2> QED BY <1>2, <1>10, <2>1 DEF vars, Inv
<1> QED BY <1>5, <1>6, <1>7, <1>8, <1>9, <1>10 DEF Next, Terminated

-----------------------------------------------------------------------------
LEMMA InvTypes == Inv => TypeOK
<1> SUFFICES ASSUME Inv PROVE TypeOK
  OBVIOUS
<1>1. num \in Nat /\ num >= 3 /\ numworkers \in Nat \ {0} /\ Parts = 0 .. numworkers - 1
  BY DEF Inv, Sized, Parts
<1>2. i \in 0 .. numworkers /\ i0 \in 0 .. num
  BY <1>1, CutMonotone DEF Inv, Sender
<1>3. \A k \in Parts : /\ k \in Nat
                       /\ Cut(k) \in 0 .. num - 1 /\ Cut(k + 1) \in Cut(k) + 1 .. num
  BY <1>1, CutsAscend DEF Inv
<1>4. parts \in [Parts -> [first : -1 .. num - 1, last : -1 .. num - 1]]
  <2> SUFFICES ASSUME NEW k \in Parts
               PROVE  parts[k] \in [first : -1 .. num - 1, last : -1 .. num - 1]
    BY DEF Inv, Sender
  <2>1. /\ Cut(k) \in -1 .. num - 1 /\ Cut(k + 1) - 1 \in -1 .. num - 1
        /\ -1 \in -1 .. num - 1
    <3>1. num \in Nat /\ Cut(k) \in 0 .. num - 1 /\ Cut(k + 1) \in Cut(k) + 1 .. num
      BY <1>1, <1>3
    <3> QED BY <3>1
  <2> QED BY <2>1 DEF Inv, Sender
<1>5. \A k \in Parts : row[k] \in 0 .. num /\ col[k] \in 0 .. num
  <2> SUFFICES ASSUME NEW k \in Parts PROVE row[k] \in 0 .. num /\ col[k] \in 0 .. num
    OBVIOUS
  <2>0. row[k] \in Nat /\ col[k] \in Nat
    BY DEF Inv, Rows
  <2>1. /\ k \in Nat /\ i \in Nat /\ row[k] \in Nat /\ col[k] \in Nat
        /\ num \in Nat /\ Cut(k) \in 0 .. num - 1 /\ Cut(k + 1) \in Cut(k) + 1 .. num
    BY <1>1, <1>2, <1>3, <2>0
  <2>2. CASE k < i
    <3>1. row[k] \in Cut(k) .. Cut(k + 1) /\ col[k] <= row[k]
      BY <2>2 DEF Inv, Rows
    <3> QED BY <1>1, <2>1, <3>1
  <2>3. CASE k >= i
    <3>1. row[k] = 0 /\ col[k] = 0
      BY <2>1, <2>3 DEF Inv, Rows
    <3> QED BY <1>1, <3>1
  <2> QED BY <2>1, <2>2, <2>3
<1>6. row \in [Parts -> 0 .. num] /\ col \in [Parts -> 0 .. num]
  BY <1>5 DEF Inv, Rows
<1>7. y \in 0 .. num
  BY <1>1, <1>2 DEF Inv, Sender
<1>8. cells \subseteq (0 .. num - 1) \X (0 .. num - 1)
  BY DEF Inv, Filled, Index
<1> QED BY <1>1, <1>2, <1>4, <1>6, <1>7, <1>8 DEF TypeOK, Inv, Rows

LEMMA InvHolds == Spec => []Inv
BY InitInv, StepInv, PTL DEF Spec

\* No row, column or place is outside of the array, and every variable holds a
\* value of its kind (binsort_gendistances, binsort_worker_calcdist).
THEOREM DistanceTypes == Spec => []TypeOK
BY InvTypes, InvHolds, PTL

\* Every distance is written once, to both of its places, and in the end all of
\* them are there: no two workers race for a place of b_Distances, which they
\* write without a lock (binsort.c:866-867).
THEOREM AllOnce == Spec => WrittenOnce
<1>1. Inv /\ [Next]_vars => (noted' # noted => Cardinality(cells') = Cardinality(cells) + 2)
  <2> SUFFICES ASSUME Inv, [Next]_vars, noted' # noted
               PROVE  Cardinality(cells') = Cardinality(cells) + 2
    OBVIOUS
  <2>1. PICK k \in Parts : WriteDistance(k)
    BY DEF Next, SendPart, PassRow, NextRow, Reply, Terminated, vars
  <2> QED BY <2>1, TwoPlaces
<1>2. Inv => (Over => cells = {c \in (0 .. num - 1) \X (0 .. num - 1) : c[1] # c[2]})
  <2> SUFFICES ASSUME Inv, Over
               PROVE  cells = {c \in Index \X Index : c[1] # c[2]}
    BY DEF Index
  <2>1. num \in Nat /\ i0 = num
    <3>1. i0 \in 0 .. num
      BY CutMonotone DEF Inv, Sender, Sized
    <3> QED BY <3>1 DEF Inv, Sized, Sender, Over
  <2>2. \A k \in Parts : k < i /\ row[k] = Cut(k + 1)
    BY DEF Inv, Rows, Over
  <2>3. ASSUME NEW x \in Index, NEW r \in Index, x < r
        PROVE  \E k \in Parts : Passed(k, x, r)
    <3>1. PICK k \in Parts : r \in Cut(k) .. Cut(k + 1) - 1
      BY <2>1 DEF Inv, Sender, Index
    <3>2. Cut(k) \in Nat /\ Cut(k + 1) \in Nat
      BY PartSent DEF Inv
    <3> QED BY <2>1, <2>2, <2>3, <3>1, <3>2 DEF Passed, Index
  <2>4. \A x \in Index, r \in Index : x # r => x < r \/ r < x
    BY <2>1 DEF Index
  <2>5. \A k \in Parts, x \in Index, r \in Index : Passed(k, x, r) => x # r
    BY <2>1 DEF Passed, Index
  <2> QED BY <2>3, <2>4, <2>5 DEF Inv, Filled
<1> QED BY <1>1, <1>2, InvHolds, PTL DEF WrittenOnce, Spec

\* When the rows are walked through, every part has been sent: the main thread
\* does not wait for an answer to a message that it never sends
\* (binsort.c:449-460).
THEOREM AllSent == Spec => [](y = num => \A k \in Parts : Sent(k))
<1>1. Inv => (y = num => \A k \in Parts : Sent(k))
  <2> SUFFICES ASSUME Inv, y = num, NEW k \in Parts PROVE Sent(k)
    OBVIOUS
  <2>1. Cut(i) = num /\ num \in Nat /\ i \in 0 .. numworkers
    <3>1. i0 \in 0 .. num
      BY CutMonotone DEF Inv, Sender, Sized
    <3> QED BY <3>1 DEF Inv, Sized, Sender
  <2>2. i \notin Parts
    BY <2>1, CutsAscend DEF Inv
  <2>3. k < i
    BY <2>1, <2>2 DEF Parts, Inv, Sized
  <2> QED BY <2>3, PartSent DEF Inv
<1> QED BY <1>1, InvHolds, PTL
=============================================================================
