--------------------------- MODULE DirListProofs ----------------------------
(***************************************************************************)
(* Theorems about DirList, for any tree of directories and any failures:   *)
(* what a scan finds, in which order the list is printed, and that every   *)
(* entry is freed once.                                                    *)
(***************************************************************************)
EXTENDS DirList, FiniteSetTheorems, SequenceTheorems, TLAPS

-----------------------------------------------------------------------------
(* Sequences.                                                              *)

\* One more at the end.
LEMMA Appended ==
  ASSUME NEW S, NEW seq \in Seq(S), NEW e
  PROVE  /\ Append(seq, e) \in Seq(S \cup {e}) /\ Len(Append(seq, e)) = Len(seq) + 1
         /\ \A k \in DOMAIN seq : k \in DOMAIN Append(seq, e) /\ Append(seq, e)[k] = seq[k]
         /\ Len(seq) + 1 \in DOMAIN Append(seq, e) /\ Append(seq, e)[Len(seq) + 1] = e
         /\ DOMAIN seq = 1 .. Len(seq) /\ DOMAIN Append(seq, e) = 1 .. Len(seq) + 1 /\ Len(seq) \in Nat
         /\ Range(Append(seq, e)) = Range(seq) \cup {e}
         /\ IsInjective(seq) /\ e \notin Range(seq) => IsInjective(Append(seq, e))
<1> DEFINE T == S \cup {e}
           longer == Append(seq, e)
<1>1. seq \in Seq(T) /\ e \in T
  BY SeqMonotonic
<1>2. /\ longer \in Seq(T) /\ Len(longer) = Len(seq) + 1
      /\ \A k \in 1 .. Len(seq) : longer[k] = seq[k]
      /\ longer[Len(seq) + 1] = e
  BY <1>1, AppendProperties
<1>3. /\ Len(seq) \in Nat /\ DOMAIN seq = 1 .. Len(seq) /\ DOMAIN longer = 1 .. Len(longer)
  BY <1>1, <1>2, LenProperties
<1> HIDE DEF longer
<1>4. DOMAIN longer = DOMAIN seq \cup {Len(seq) + 1}
  BY <1>2, <1>3
<1>5. Range(longer) = Range(seq) \cup {e}
  BY <1>2, <1>3, <1>4 DEF Range
<1>6. IsInjective(seq) /\ e \notin Range(seq) => IsInjective(longer)
  BY <1>2, <1>3, <1>4 DEF IsInjective, Range
<1> QED BY <1>2, <1>3, <1>4, <1>5, <1>6 DEF longer

\* Two sequences one after the other.
LEMMA Joined ==
  ASSUME NEW S, NEW s1 \in Seq(S), NEW s2 \in Seq(S)
  PROVE  /\ s1 \o s2 \in Seq(S)
         /\ DOMAIN s1 = 1 .. Len(s1) /\ DOMAIN s2 = 1 .. Len(s2) /\ Len(s1) \in Nat /\ Len(s2) \in Nat
         /\ \A k \in DOMAIN s1 : k \in DOMAIN (s1 \o s2) /\ (s1 \o s2)[k] = s1[k]
         /\ \A k \in DOMAIN s2 : Len(s1) + k \in DOMAIN (s1 \o s2) /\ (s1 \o s2)[Len(s1) + k] = s2[k]
         /\ Range(s1 \o s2) = Range(s1) \cup Range(s2)
         /\ IsInjective(s1) /\ IsInjective(s2) /\ Range(s1) \cap Range(s2) = {} => IsInjective(s1 \o s2)
<1> DEFINE both == s1 \o s2
<1>1. /\ both \in Seq(S) /\ Len(both) = Len(s1) + Len(s2)
      /\ \A k \in 1 .. Len(s1) + Len(s2) : both[k] = IF k <= Len(s1) THEN s1[k] ELSE s2[k - Len(s1)]
  BY ConcatProperties
<1>2. /\ Len(s1) \in Nat /\ Len(s2) \in Nat /\ DOMAIN s1 = 1 .. Len(s1) /\ DOMAIN s2 = 1 .. Len(s2)
      /\ DOMAIN both = 1 .. Len(both)
  BY <1>1, LenProperties
<1> HIDE DEF both
<1>3. \A k \in DOMAIN s1 : k \in DOMAIN both /\ both[k] = s1[k]
  BY <1>1, <1>2
<1>4. \A k \in DOMAIN s2 : Len(s1) + k \in DOMAIN both /\ both[Len(s1) + k] = s2[k]
  BY <1>1, <1>2
<1>5. \A k \in DOMAIN both : k \in DOMAIN s1 \/ \E l \in DOMAIN s2 : k = Len(s1) + l
  <2>1. \A k \in DOMAIN both : k \notin DOMAIN s1 => k - Len(s1) \in DOMAIN s2 /\ k = Len(s1) + (k - Len(s1))
    BY <1>1, <1>2
  <2> QED BY <2>1
<1>6. Range(both) = Range(s1) \cup Range(s2)
  BY <1>3, <1>4, <1>5 DEF Range
<1>7. ASSUME IsInjective(s1), IsInjective(s2), Range(s1) \cap Range(s2) = {} PROVE IsInjective(both)
  <2>1. \A k \in DOMAIN s1, l \in DOMAIN s2 : s1[k] # s2[l]
    BY <1>7 DEF Range
  <2> QED BY <1>3, <1>4, <1>5, <1>7, <2>1 DEF IsInjective
<1> QED BY <1>1, <1>2, <1>3, <1>4, <1>6, <1>7 DEF both

\* A sequence from its end.
LEMMA Reversed ==
  ASSUME NEW S, NEW seq \in Seq(S)
  PROVE  /\ Reverse(seq) \in Seq(S) /\ Range(Reverse(seq)) = Range(seq)
         /\ IsInjective(seq) => IsInjective(Reverse(seq))
<1>1. Len(seq) \in Nat /\ DOMAIN seq = 1 .. Len(seq) /\ \A k \in 1 .. Len(seq) : seq[k] \in S
  BY LenProperties
<1> DEFINE back == Reverse(seq)
           n == Len(seq)
<1>2. back = [k \in 1 .. n |-> seq[(n - k) + 1]]
  BY DEF Reverse
<1>3. \A k \in 1 .. n : (n - k) + 1 \in 1 .. n /\ (n - ((n - k) + 1)) + 1 = k
  BY <1>1
<1> HIDE DEF back, n
<1>4. back \in Seq(S)
  <2>1. \A k \in 1 .. n : seq[(n - k) + 1] \in S
    BY <1>1, <1>3 DEF n
  <2>2. back \in [1 .. n -> S]
    BY <1>2, <2>1
  <2> QED BY <1>1, <2>2, SeqDef DEF n
<1>5. DOMAIN back = 1 .. n /\ DOMAIN seq = 1 .. n /\ \A k \in 1 .. n : back[k] = seq[(n - k) + 1]
  BY <1>1, <1>2 DEF n
<1>6. Range(back) = Range(seq)
  <2>1. Range(back) \subseteq Range(seq)
    BY <1>3, <1>5 DEF Range
  <2>2. ASSUME NEW k \in 1 .. n PROVE \E l \in 1 .. n : back[l] = seq[k]
    <3>1. back[(n - k) + 1] = seq[k]
      BY <1>3, <1>5, <2>2
    <3> QED BY <1>3, <3>1
  <2>3. ASSUME NEW x \in Range(seq) PROVE x \in Range(back)
    <3>1. PICK k \in 1 .. n : x = seq[k]
      BY <1>5 DEF Range
    <3>2. PICK l \in 1 .. n : back[l] = seq[k]
      BY <2>2
    <3> QED BY <1>5, <3>1, <3>2 DEF Range
  <2> QED BY <2>1, <2>3
<1>7. ASSUME IsInjective(seq) PROVE IsInjective(back)
  <2> SUFFICES ASSUME NEW k \in 1 .. n, NEW l \in 1 .. n, back[k] = back[l] PROVE k = l
    BY <1>5 DEF IsInjective
  <2>1. (n - k) + 1 = (n - l) + 1
    BY <1>3, <1>5, <1>7 DEF IsInjective
  <2> QED BY <1>1, <2>1 DEF n
<1> QED BY <1>4, <1>6, <1>7 DEF back

-----------------------------------------------------------------------------
(* Places, counted.                                                        *)

\* The places of a set, from the first on: every number up to the size of the
\* set is the rank of one of them.
Rank(K, k) == Cardinality({l \in K : l <= k})

LEMMA Ranks ==
  ASSUME NEW K \in SUBSET Nat, IsFiniteSet(K)
  PROVE  /\ Cardinality(K) \in Nat
         /\ \A k \in K : Rank(K, k) \in 1 .. Cardinality(K)
         /\ \A k, l \in K : k < l => Rank(K, k) < Rank(K, l)
         /\ \A j \in 1 .. Cardinality(K) : \E k \in K : Rank(K, k) = j
<1> DEFINE n == Cardinality(K)
<1>1. n \in Nat
  BY FS_CardinalityType
<1>2. \A k \in K : IsFiniteSet({l \in K : l <= k}) /\ Rank(K, k) \in Nat /\ Rank(K, k) <= n
  <2> TAKE k \in K
  <2>1. {l \in K : l <= k} \in SUBSET K
    OBVIOUS
  <2>2. IsFiniteSet({l \in K : l <= k}) /\ Cardinality({l \in K : l <= k}) <= n
    BY <2>1, FS_Subset
  <2> QED BY <2>2, FS_CardinalityType DEF Rank
<1>r. \A k \in K : Rank(K, k) \in Nat /\ Rank(K, k) <= n
  BY <1>2
<1>3. \A k \in K : Rank(K, k) # 0
  <2> TAKE k \in K
  <2>1. k \in {l \in K : l <= k}
    OBVIOUS
  <2> QED BY <1>2, <2>1, FS_EmptySet DEF Rank
<1>4. ASSUME NEW k \in K, NEW l \in K, k < l PROVE Rank(K, k) < Rank(K, l)
  <2> DEFINE A == {q \in K : q <= k}
             B == {q \in K : q <= l}
  <2>1. k \in Nat /\ l \in Nat /\ \A q \in K : q \in Nat
    OBVIOUS
  <2>0. A \in SUBSET B
    <3>1. \A q \in K : q <= k => q <= l
      BY <1>4, <2>1
    <3> QED BY <3>1
  <2>4. l \in B /\ l \notin A
    BY <1>4, <2>1
  <2>2. IsFiniteSet(B) /\ IsFiniteSet(A) /\ Rank(K, k) = Cardinality(A) /\ Rank(K, l) = Cardinality(B)
    BY <1>2 DEF Rank
  <2> HIDE DEF A, B
  <2>3. Cardinality(A) <= Cardinality(B)
    BY <2>0, <2>2, FS_Subset
  <2>5. Cardinality(B) = Cardinality(A) => B = A
    BY <2>0, <2>2, FS_Subset
  <2>6. Cardinality(A) # Cardinality(B)
    BY <2>4, <2>5
  <2>7. Rank(K, k) \in Nat /\ Rank(K, l) \in Nat
    BY <1>2
  <2>8. Rank(K, k) <= Rank(K, l) /\ Rank(K, k) # Rank(K, l)
    BY <2>2, <2>3, <2>6
  <2> QED BY <2>7, <2>8
<1>5. \A k \in K : Rank(K, k) \in 1 .. n
  BY <1>1, <1>r, <1>3
<1>6. ASSUME NEW j \in 1 .. n PROVE \E k \in K : Rank(K, k) = j
  <2> DEFINE f == [k \in K |-> Rank(K, k)]
  <2>1. f \in [K -> 1 .. n]
    BY <1>5
  <2>2. \A k, l \in K : f[k] = f[l] => k = l
    <3> SUFFICES ASSUME NEW k \in K, NEW l \in K, Rank(K, k) = Rank(K, l) PROVE k = l
      OBVIOUS
    <3>1. ~(k < l)
      BY <1>r, <1>4
    <3>2. ~(l < k)
      BY <1>r, <1>4
    <3> QED BY <3>1, <3>2
  <2>3. f \in Injection(K, 1 .. n)
    BY <2>1, <2>2 DEF Injection, IsInjective
  <2>4. IsFiniteSet(1 .. n) /\ Cardinality(1 .. n) = n
    BY <1>1, FS_Interval
  <2> HIDE DEF f
  <2>5. f \in Surjection(K, 1 .. n)
    BY <2>3, <2>4, FS_Injection
  <2>6. \E k \in K : f[k] = j
    BY <2>5 DEF Surjection
  <2> QED BY <2>6 DEF f
<1> QED BY <1>1, <1>4, <1>5, <1>6

\* What stays on the list: all but the files, in its order.
LEMMA LeftOfList ==
  ASSUME NEW S, list \in Seq(S), IsInjective(list)
  PROVE  /\ Left \in Seq(S) /\ IsInjective(Left)
         /\ Range(Left) = {e \in Range(list) : ~IsFile(e)}
         /\ \A d, e \in Range(Left) : Before(list, d, e) => Before(Left, d, e)
<1> DEFINE kept == {k \in DOMAIN list : ~IsFile(list[k])}
           n == Cardinality(kept)
           place(j) == CHOOSE k \in kept : Rank(kept, k) = j
<1>1. DOMAIN list = 1 .. Len(list) /\ Len(list) \in Nat /\ \A k \in DOMAIN list : list[k] \in S
  BY LenProperties
<1>2. kept \in SUBSET Nat /\ IsFiniteSet(kept)
  <2>1. IsFiniteSet(1 .. Len(list))
    BY <1>1, FS_Interval
  <2> QED BY <1>1, <2>1, FS_Subset
<1>3. /\ \A k \in kept : k \in DOMAIN list /\ ~IsFile(list[k])
      /\ \A k \in DOMAIN list : ~IsFile(list[k]) => k \in kept
  OBVIOUS
<1>4. Left = [j \in 1 .. n |-> list[place(j)]]
  BY DEF Left, Rank
<1> HIDE DEF kept
<1>5. /\ n \in Nat /\ \A k \in kept : Rank(kept, k) \in 1 .. n
      /\ \A k, l \in kept : k < l => Rank(kept, k) < Rank(kept, l)
      /\ \A j \in 1 .. n : \E k \in kept : Rank(kept, k) = j
  BY <1>2, Ranks
<1>6. \A j \in 1 .. n : place(j) \in kept /\ Rank(kept, place(j)) = j
  BY <1>5
<1>7. \A k \in kept : place(Rank(kept, k)) = k
  <2> SUFFICES ASSUME NEW k \in kept, NEW l \in kept, Rank(kept, k) = Rank(kept, l) PROVE k = l
    BY <1>5, <1>6
  <2>1. ~(k < l) /\ ~(l < k)
    BY <1>5
  <2> QED BY <1>2, <2>1
<1> HIDE DEF place
<1>8. DOMAIN Left = 1 .. n /\ \A j \in 1 .. n : Left[j] = list[place(j)]
  BY <1>4
<1>9. Left \in Seq(S)
  <2>1. \A j \in 1 .. n : list[place(j)] \in S
    BY <1>1, <1>3, <1>6
  <2>2. Left \in [1 .. n -> S]
    BY <1>4, <2>1
  <2> HIDE DEF n
  <2> QED BY <1>5, <2>2, SeqDef
<1>10. IsInjective(Left)
  <2> SUFFICES ASSUME NEW i \in 1 .. n, NEW j \in 1 .. n, Left[i] = Left[j] PROVE i = j
    BY <1>8 DEF IsInjective
  <2>1. place(i) = place(j)
    BY <1>3, <1>6, <1>8 DEF IsInjective
  <2> QED BY <1>6, <2>1
<1>11. ASSUME NEW k \in kept PROVE Rank(kept, k) \in DOMAIN Left /\ Left[Rank(kept, k)] = list[k]
  BY <1>5, <1>7, <1>8
<1>12. Range(Left) = {e \in Range(list) : ~IsFile(e)}
  <2>1. \A e \in Range(Left) : e \in Range(list) /\ ~IsFile(e)
    BY <1>3, <1>6, <1>8 DEF Range
  <2>2. \A e \in Range(list) : ~IsFile(e) => e \in Range(Left)
    BY <1>3, <1>11 DEF Range
  <2> QED BY <2>1, <2>2
<1>13. ASSUME NEW d \in Range(Left), NEW e \in Range(Left), Before(list, d, e) PROVE Before(Left, d, e)
  <2>1. PICK k \in DOMAIN list, l \in DOMAIN list : k < l /\ list[k] = d /\ list[l] = e
    BY <1>13 DEF Before
  <2>2. k \in kept /\ l \in kept
    BY <1>3, <1>12, <2>1
  <2>3. Rank(kept, k) < Rank(kept, l)
    BY <1>5, <2>1, <2>2
  <2> QED BY <1>11, <2>1, <2>2, <2>3 DEF Before
<1> QED BY <1>9, <1>10, <1>12, <1>13


-----------------------------------------------------------------------------
(* The files, when they come back.                                         *)

LEMMA ModWraps ==
  ASSUME NEW n \in Nat \ {0}, NEW m \in Nat, m < 2 * n
  PROVE  m % n = IF m < n THEN m ELSE m - n
<1>1. CASE m < n
  BY <1>1
<1>2. CASE m >= n
  <2>1. m - n \in 0 .. n - 1 /\ m = n * 1 + (m - n)
    BY <1>2
  <2> QED BY <1>2, <2>1, Z3
<1> QED BY <1>1, <1>2

\* In any order, from any of them on.
LEMMA FilesBack ==
  ASSUME NEW files, NEW n \in Nat, NEW order \in Bijection(0 .. n - 1, files), NEW startpos \in 0 .. n - 1
  PROVE  LET back == [k \in 1 .. n |-> order[(k + startpos) % n]]
         IN  back \in Seq(files) /\ IsInjective(back) /\ Range(back) = files
<1> DEFINE back == [k \in 1 .. n |-> order[(k + startpos) % n]]
           at(k) == (k + startpos) % n
<1>1. n \in Nat \ {0} /\ startpos \in Nat /\ startpos < n
  OBVIOUS
<1>2. \A k \in 1 .. n : at(k) = IF k + startpos < n THEN k + startpos ELSE k + startpos - n
  <2> TAKE k \in 1 .. n
  <2> DEFINE m == k + startpos
  <2>1. m \in Nat /\ m < 2 * n
    BY <1>1
  <2> HIDE DEF m
  <2>2. m % n = IF m < n THEN m ELSE m - n
    BY <1>1, <2>1, ModWraps
  <2> QED BY <2>2 DEF m
<1> HIDE DEF at
<1>3. \A k \in 1 .. n : at(k) \in 0 .. n - 1
  BY <1>1, <1>2
<1>4. \A k, l \in 1 .. n : at(k) = at(l) => k = l
  BY <1>1, <1>2
<1>5. ASSUME NEW p \in 0 .. n - 1 PROVE \E k \in 1 .. n : at(k) = p
  <2>1. CASE p > startpos
    <3>1. p - startpos \in 1 .. n /\ at(p - startpos) = p
      BY <1>1, <1>2, <2>1
    <3> QED BY <3>1
  <2>2. CASE p <= startpos
    <3>1. p - startpos + n \in 1 .. n /\ at(p - startpos + n) = p
      BY <1>1, <1>2, <2>2
    <3> QED BY <3>1
  <2> QED BY <2>1, <2>2
<1>6. order \in [0 .. n - 1 -> files] /\ IsInjective(order) /\ \A e \in files : \E p \in 0 .. n - 1 : order[p] = e
  BY DEF Bijection, Injection, Surjection
<1>7. \A k \in 1 .. n : back[k] = order[at(k)]
  BY DEF at
<1>8. back \in [1 .. n -> files]
  BY <1>3, <1>6 DEF at
<1> HIDE DEF back
<1>9. back \in Seq(files)
  BY <1>8, SeqDef
<1>10. IsInjective(back)
  BY <1>3, <1>4, <1>6, <1>7, <1>8 DEF IsInjective
<1>11. \A e \in files : e \in Range(back)
  <2> TAKE e \in files
  <2>1. PICK p \in 0 .. n - 1 : order[p] = e
    BY <1>6
  <2>2. PICK k \in 1 .. n : at(k) = p
    BY <1>5
  <2> QED BY <1>7, <1>8, <2>1, <2>2 DEF Range
<1>12. Range(back) \subseteq files
  BY <1>8 DEF Range
<1> QED BY <1>9, <1>10, <1>11, <1>12 DEF back

-----------------------------------------------------------------------------
(* The calls in progress.                                                  *)

\* The innermost call changes, returns, or makes another one.
LEMMA CallChanged ==
  ASSUME calls \in Seq(Call), calls # <<>>, NEW c \in Call, InnerCall(c)
  PROVE  /\ calls' \in Seq(Call) /\ calls' # <<>> /\ DOMAIN calls' = DOMAIN calls
         /\ 1 \in DOMAIN calls /\ calls'[1] = c
         /\ \A k \in DOMAIN calls : k # 1 => calls'[k] = calls[k]
<1> DEFINE rest == Tail(calls)
           new == <<c>> \o rest
<1>1. /\ rest \in Seq(Call) /\ Len(rest) = Len(calls) - 1 /\ Len(calls) \in Nat \ {0}
      /\ \A k \in 1 .. Len(rest) : rest[k] = calls[k + 1]
      /\ DOMAIN calls = 1 .. Len(calls)
  BY HeadTailProperties, LenProperties, EmptySeq
<1> HIDE DEF rest
<1>2. /\ new \in Seq(Call) /\ Len(new) = 1 + Len(rest)
      /\ \A k \in 1 .. 1 + Len(rest) : new[k] = IF k <= 1 THEN <<c>>[k] ELSE rest[k - 1]
  BY <1>1, ConcatProperties
<1>3. DOMAIN new = 1 .. Len(new)
  BY <1>2, LenProperties
<1>4. calls' = new
  BY DEF InnerCall, rest
<1> HIDE DEF new
<1>5. DOMAIN new = DOMAIN calls /\ 1 \in DOMAIN calls
  BY <1>1, <1>2, <1>3
<1>8. new[1] = c
  BY <1>1, <1>2
<1>6. \A k \in DOMAIN calls : k # 1 => new[k] = calls[k]
  <2> SUFFICES ASSUME NEW k \in 1 .. Len(calls), k # 1 PROVE new[k] = calls[k]
    BY <1>1
  <2>1. k \in 1 .. 1 + Len(rest) /\ ~(k <= 1) /\ k - 1 \in 1 .. Len(rest) /\ (k - 1) + 1 = k
    BY <1>1
  <2> QED BY <1>1, <1>2, <2>1
<1>7. new # <<>>
  BY <1>5
<1> QED BY <1>2, <1>4, <1>5, <1>6, <1>7, <1>8

LEMMA CallReturned ==
  ASSUME calls \in Seq(Call), calls # <<>>, calls' = Tail(calls)
  PROVE  /\ calls' \in Seq(Call) /\ 1 \in DOMAIN calls
         /\ \A k \in DOMAIN calls' : k + 1 \in DOMAIN calls /\ k + 1 # 1 /\ calls'[k] = calls[k + 1]
         /\ \A k \in DOMAIN calls : k # 1 => k - 1 \in DOMAIN calls' /\ calls'[k - 1] = calls[k]
<1> DEFINE rest == Tail(calls)
<1>1. /\ rest \in Seq(Call) /\ Len(rest) = Len(calls) - 1 /\ Len(calls) \in Nat \ {0}
      /\ \A k \in 1 .. Len(rest) : rest[k] = calls[k + 1]
      /\ DOMAIN calls = 1 .. Len(calls)
  BY HeadTailProperties, LenProperties, EmptySeq
<1>2. DOMAIN rest = 1 .. Len(rest)
  BY <1>1, LenProperties
<1>3. calls' = rest
  OBVIOUS
<1> HIDE DEF rest
<1>4. \A k \in DOMAIN rest : k + 1 \in DOMAIN calls /\ k + 1 # 1 /\ rest[k] = calls[k + 1]
  BY <1>1, <1>2
<1>5. \A k \in DOMAIN calls : k # 1 => k - 1 \in DOMAIN rest /\ rest[k - 1] = calls[k]
  <2> SUFFICES ASSUME NEW k \in 1 .. Len(calls), k # 1
               PROVE  k - 1 \in 1 .. Len(rest) /\ rest[k - 1] = calls[k]
    BY <1>1, <1>2
  <2>1. k - 1 \in 1 .. Len(rest) /\ (k - 1) + 1 = k
    BY <1>1
  <2> QED BY <1>1, <2>1
<1> QED BY <1>1, <1>3, <1>4, <1>5

LEMMA CallMade ==
  ASSUME calls \in Seq(Call), calls # <<>>, NEW c \in Call, NEW d \in Call,
         calls' = <<d>> \o (<<c>> \o Tail(calls))
  PROVE  /\ calls' \in Seq(Call) /\ 1 \in DOMAIN calls /\ 1 \in DOMAIN calls' /\ 2 \in DOMAIN calls'
         /\ calls'[1] = d /\ calls'[2] = c
         /\ \A k \in DOMAIN calls' : k = 1 \/ k = 2 \/ (k - 1 \in DOMAIN calls /\ k - 1 # 1 /\ calls'[k] = calls[k - 1])
         /\ \A k \in DOMAIN calls : k # 1 => k + 1 \in DOMAIN calls' /\ calls'[k + 1] = calls[k]
<1> DEFINE rest == Tail(calls)
           on == <<c>> \o rest
           new == <<d>> \o on
<1>1. /\ rest \in Seq(Call) /\ Len(rest) = Len(calls) - 1 /\ Len(calls) \in Nat \ {0}
      /\ \A k \in 1 .. Len(rest) : rest[k] = calls[k + 1]
      /\ DOMAIN calls = 1 .. Len(calls)
  BY HeadTailProperties, LenProperties, EmptySeq
<1>0. calls' = new
  OBVIOUS
<1> HIDE DEF rest
<1>2. /\ on \in Seq(Call) /\ Len(on) = 1 + Len(rest)
      /\ \A k \in 1 .. 1 + Len(rest) : on[k] = IF k <= 1 THEN <<c>>[k] ELSE rest[k - 1]
  BY <1>1, ConcatProperties
<1> HIDE DEF on
<1>3. /\ new \in Seq(Call) /\ Len(new) = 1 + Len(on)
      /\ \A k \in 1 .. 1 + Len(on) : new[k] = IF k <= 1 THEN <<d>>[k] ELSE on[k - 1]
  BY <1>2, ConcatProperties
<1>4. DOMAIN new = 1 .. Len(calls) + 1
  BY <1>1, <1>2, <1>3, LenProperties
<1> HIDE DEF new
<1>5. /\ 1 \in DOMAIN calls /\ 1 \in DOMAIN new /\ 2 \in DOMAIN new
      /\ new[1] = d
  BY <1>1, <1>2, <1>3, <1>4
<1>6. new[2] = c
  <2>1. 2 \in 1 .. 1 + Len(on) /\ 2 - 1 = 1 /\ 1 \in 1 .. 1 + Len(rest)
    BY <1>1, <1>2
  <2> QED BY <1>2, <1>3, <2>1
<1>7. ASSUME NEW k \in DOMAIN new, k # 1, k # 2
      PROVE  k - 1 \in DOMAIN calls /\ k - 1 # 1 /\ new[k] = calls[k - 1]
  <2>1. /\ k \in 1 .. 1 + Len(on) /\ ~(k <= 1) /\ k - 1 \in 1 .. 1 + Len(rest) /\ ~(k - 1 <= 1)
        /\ (k - 1) - 1 \in 1 .. Len(rest) /\ ((k - 1) - 1) + 1 = k - 1 /\ k - 1 \in DOMAIN calls
    BY <1>1, <1>2, <1>4, <1>7
  <2>2. new[k] = on[k - 1] /\ on[k - 1] = rest[(k - 1) - 1] /\ rest[(k - 1) - 1] = calls[k - 1]
    BY <1>1, <1>2, <1>3, <2>1
  <2> QED BY <2>1, <2>2
<1>8. ASSUME NEW k \in DOMAIN calls, k # 1 PROVE k + 1 \in DOMAIN new /\ new[k + 1] = calls[k]
  <2>1. k + 1 \in DOMAIN new /\ k + 1 # 1 /\ k + 1 # 2 /\ (k + 1) - 1 = k
    BY <1>1, <1>4, <1>8
  <2> QED BY <1>7, <2>1
<1> QED BY <1>0, <1>3, <1>5, <1>6, <1>7, <1>8

-----------------------------------------------------------------------------
(* The invariant.                                                          *)

\* What a call has put on the list and not walked over yet.
Ahead(call) == {list[k] : k \in call.node + call.i + 1 .. call.node + call.num}
IsAhead(e) == \E k \in DOMAIN calls : e \in Ahead(calls[k])

\* The calls, from the inner ones out: each has appended entries of its own
\* directory, behind those of the calls around it; the innermost alone reads.
CallSound(k) ==
  LET call == calls[k]
  IN  /\ call.i <= call.num /\ call.node + call.num <= Len(list)
      /\ \A l \in 1 .. k - 1 : call.node + call.num <= calls[l].node
      /\ \A p \in call.node + 1 .. call.node + call.num : list[p] \in Content[call.dir]
      /\ call.unread \subseteq Content[call.dir] \ found
      /\ call.reading => k = 1 /\ call.i = 0 /\ call.node + call.num = Len(list)
      /\ ~call.reading => call.unread = {}
      /\ call.dir \in found \cup {Root}

CallsInv == \A k \in DOMAIN calls : CallSound(k)

\* A directory is scanned only once: while it is not found, or still ahead,
\* nothing of it has been found and no call is about it.
FreshInv ==
  \A d \in DOMAIN Content \ {Root} :
    d \notin found \/ IsAhead(d) =>
      Content[d] \cap found = {} /\ \A k \in DOMAIN calls : calls[k].dir # d

\* A directory that will be scanned: the first, and one found in a directory
\* that could be read.
Reached(d) == d = Root \/ (d \in found /\ \E c \in DOMAIN Content \ broken : d \in Content[c])

\* It is ahead, or being scanned, or all that is in it was found or missed.
ScanInv ==
  pc \in {"scan", "scanned"} =>
    \A d \in DOMAIN Content \ broken : Reached(d) =>
      \/ IsAhead(d)
      \/ \E k \in DOMAIN calls : calls[k].dir = d /\ Content[d] \subseteq found \cup missed \cup calls[k].unread
      \/ Content[d] \subseteq found \cup missed

\* Directories before what they hold.
InOrder(seq) ==
  \A d, e \in Range(seq) : IsDir(d) /\ e \in Content[d] => Before(seq, d, e)

\* The list is what was found and has not been freed.
ListInv ==
  /\ IsInjective(freed) /\ InOrder(list) /\ InOrder(printed)
  /\ Range(list) \cap Range(freed) = {} /\ Range(list) \cup Range(freed) = found

\* What is known at each place of binsort_run.
PlaceInv ==
  /\ pc = "scan" <=> calls # <<>>
  /\ pc = "start" => found = {}
  /\ pc \in {"start", "scan", "scanned", "order", "failed"} => freed = <<>>
  /\ pc = "print" => {e \in found : IsFile(e) \/ ~noDirs} \subseteq Range(list)
  /\ pc \in {"start", "scan", "scanned", "order", "failed", "print"} => printed = <<>>
  /\ pc = "over" => list = <<>>

DirInv == TypeOK /\ CallsInv /\ FreshInv /\ ScanInv /\ ListInv /\ PlaceInv /\ AllPrinted

-----------------------------------------------------------------------------
(* What the steps share.                                                   *)

\* There is an innermost call.
LEMMA Innermost ==
  ASSUME TypeOK, CallsInv, PlaceInv, pc = "scan"
  PROVE  /\ calls \in Seq(Call) /\ calls # <<>> /\ 1 \in DOMAIN calls /\ calls[1] \in Call
         /\ Tail(calls) \in Seq(Call) /\ CallSound(1)
<1>1. calls \in Seq(Call) /\ calls # <<>>
  BY DEF TypeOK, PlaceInv
<1>2. 1 \in DOMAIN calls /\ calls[1] \in Call /\ Tail(calls) \in Seq(Call)
  BY <1>1, EmptySeq, LenProperties, HeadTailProperties
<1> QED BY <1>1, <1>2 DEF CallsInv

\* The fields of a call.
LEMMA CallTypes ==
  ASSUME NEW c \in Call
  PROVE  /\ c.dir \in DOMAIN Content /\ c.unread \in SUBSET Entries /\ c.reading \in BOOLEAN
         /\ c.node \in Nat /\ c.num \in Nat /\ c.i \in Nat
BY DEF Call

\* The list: its places, and what is on it.
LEMMA Places ==
  ASSUME TypeOK
  PROVE  /\ Len(list) \in Nat /\ DOMAIN list = 1 .. Len(list) /\ \A k \in DOMAIN list : list[k] \in found
         /\ Range(list) \subseteq found
<1>1. list \in Seq(found)
  BY DEF TypeOK
<1> QED BY <1>1, LenProperties DEF Range

\* The files that were found.
Files == {e \in found : IsFile(e)}

LEMMA FilesCounted ==
  ASSUME TypeOK
  PROVE  /\ IsFiniteSet(Files) /\ Cardinality(Files) \in Nat /\ Cardinality(Regular) \in Nat
         /\ Cardinality(Files) <= Cardinality(Regular)
<1>1. IsFiniteSet(Regular)
  BY DirListAssumption, FS_Subset
<1>2. Files \in SUBSET Regular
  BY DEF Files, IsFile
<1>3. IsFiniteSet(Files) /\ Cardinality(Files) <= Cardinality(Regular)
  BY <1>1, <1>2, FS_Subset
<1> QED BY <1>1, <1>3, FS_CardinalityType

\* The call of a directory.
LEMMA CallOfDir ==
  ASSUME TypeOK, NEW d \in DOMAIN Content
  PROVE  CallOf(d) \in Call
<1>1. Content[d] \in SUBSET Entries
  BY DEF Entries
<1> QED BY <1>1, Places DEF Call, CallOf, LastNode

\* The list when the files have come back: what is left, and behind it every
\* file.
LEMMA Ordered ==
  ASSUME TypeOK, Order
  PROVE  /\ Left \in Seq(found) /\ IsInjective(Left)
         /\ Range(Left) = {e \in Range(list) : ~IsFile(e)}
         /\ \A d, e \in Range(Left) : Before(list, d, e) => Before(Left, d, e)
         /\ DirsLeft \in Seq(found) /\ IsInjective(DirsLeft)
         /\ Range(DirsLeft) = IF noDirs THEN {} ELSE Range(Left)
         /\ \E back \in Seq(found) : /\ IsInjective(back) /\ Range(back) = Files
                                     /\ list' = DirsLeft \o back
<1>1. list \in Seq(found) /\ IsInjective(list)
  BY DEF TypeOK
<1>2. /\ Left \in Seq(found) /\ IsInjective(Left)
      /\ Range(Left) = {e \in Range(list) : ~IsFile(e)}
      /\ \A d, e \in Range(Left) : Before(list, d, e) => Before(Left, d, e)
  BY <1>1, LeftOfList
<1>3. <<>> \in Seq(found) /\ IsInjective(<<>>) /\ Range(<<>>) = {}
  BY EmptySeq DEF IsInjective, Range
<1>4. /\ DirsLeft \in Seq(found) /\ IsInjective(DirsLeft)
      /\ Range(DirsLeft) = IF noDirs THEN {} ELSE Range(Left)
  BY <1>2, <1>3 DEF DirsLeft
<1>5. PICK n \in Nat : n = Cardinality(Files)
  BY FilesCounted
<1>6. \E order \in Bijection(0 .. n - 1, Files), startpos \in 0 .. n - 1 :
        list' = DirsLeft \o [k \in 1 .. n |-> order[(k + startpos) % n]]
  BY <1>5 DEF Order, Added, Files
<1>7. PICK order \in Bijection(0 .. n - 1, Files) : \E startpos \in 0 .. n - 1 :
        list' = DirsLeft \o [k \in 1 .. n |-> order[(k + startpos) % n]]
  BY <1>6
<1>8. PICK startpos \in 0 .. n - 1 :
        list' = DirsLeft \o [k \in 1 .. n |-> order[(k + startpos) % n]]
  BY <1>7
<1> DEFINE back == [k \in 1 .. n |-> order[(k + startpos) % n]]
<1>9. back \in Seq(Files) /\ IsInjective(back) /\ Range(back) = Files
  BY FilesBack
<1>10. Files \subseteq found
  BY DEF Files
<1> HIDE DEF back
<1>11. back \in Seq(found)
  BY <1>9, <1>10, SeqMonotonic
<1>12. list' = DirsLeft \o back
  BY <1>8 DEF back
<1> QED BY <1>2, <1>4, <1>9, <1>11, <1>12

\* The innermost call with one more entry found, or one missed.
OneMore(c, e) == [c EXCEPT !.unread = @ \ {e}, !.num = @ + 1]
OneMissed(c, e) == [c EXCEPT !.unread = @ \ {e}]

\* An entry that is read.
Keep(e) ==
  /\ list' = Append(list, e)
  /\ found' = found \cup {e}
  /\ InnerCall(OneMore(calls[1], e))
  /\ UNCHANGED missed

Miss(e) ==
  /\ missed' = missed \cup {e}
  /\ InnerCall(OneMissed(calls[1], e))
  /\ UNCHANGED <<list, found>>

\* One is left out or put on the list, where it has not been before.
LEMMA EntryRead ==
  ASSUME TypeOK, CallsInv, PlaceInv, ReadEntry
  PROVE  \E e \in calls[1].unread :
           /\ e \in Entries /\ e \notin found /\ e \in Content[calls[1].dir]
           /\ Keep(e) \/ Miss(e)
<1>1. calls[1] \in Call /\ CallSound(1)
  BY Innermost DEF ReadEntry
<1>2. calls[1].unread \subseteq Content[calls[1].dir] \ found /\ calls[1].unread \subseteq Entries
  BY <1>1, CallTypes DEF CallSound
<1>3. \E e \in calls[1].unread : Keep(e) \/ Miss(e)
  BY DEF ReadEntry, Keep, Miss, OneMore, OneMissed
<1> QED BY <1>2, <1>3

\* The call when an entry is kept, or missed.
LEMMA CallMore ==
  ASSUME NEW c \in Call, NEW e
  PROVE  /\ OneMore(c, e) \in Call /\ OneMore(c, e).dir = c.dir /\ OneMore(c, e).reading = c.reading
         /\ OneMore(c, e).node = c.node /\ OneMore(c, e).i = c.i /\ OneMore(c, e).num = c.num + 1
         /\ OneMore(c, e).unread = c.unread \ {e}
<1>1. c.unread \ {e} \in SUBSET Entries /\ c.num + 1 \in Nat
  BY CallTypes
<1>2. OneMore(c, e) \in Call
  BY <1>1 DEF Call, OneMore
<1>3. /\ OneMore(c, e).dir = c.dir /\ OneMore(c, e).reading = c.reading
      /\ OneMore(c, e).node = c.node /\ OneMore(c, e).i = c.i
  BY DEF Call, OneMore
<1>4. OneMore(c, e).num = c.num + 1
  BY DEF Call, OneMore
<1>5. OneMore(c, e).unread = c.unread \ {e}
  BY DEF Call, OneMore
<1> QED BY <1>2, <1>3, <1>4, <1>5

LEMMA CallMissed ==
  ASSUME NEW c \in Call, NEW e
  PROVE  /\ OneMissed(c, e) \in Call /\ OneMissed(c, e).dir = c.dir /\ OneMissed(c, e).reading = c.reading
         /\ OneMissed(c, e).node = c.node /\ OneMissed(c, e).i = c.i /\ OneMissed(c, e).num = c.num
         /\ OneMissed(c, e).unread = c.unread \ {e}
<1>1. c.unread \ {e} \in SUBSET Entries
  BY CallTypes
<1>2. OneMissed(c, e) \in Call
  BY <1>1 DEF Call, OneMissed
<1>3. /\ OneMissed(c, e).dir = c.dir /\ OneMissed(c, e).reading = c.reading
      /\ OneMissed(c, e).node = c.node /\ OneMissed(c, e).i = c.i /\ OneMissed(c, e).num = c.num
  BY DEF Call, OneMissed
<1>4. OneMissed(c, e).unread = c.unread \ {e}
  BY DEF Call, OneMissed
<1> QED BY <1>2, <1>3, <1>4

\* The call when all has been read, and when it walks on.
LEMMA CallWalking ==
  ASSUME NEW c \in Call
  PROVE  LET done == [c EXCEPT !.reading = FALSE]
             on == [c EXCEPT !.i = @ + 1]
         IN  /\ done \in Call /\ done.dir = c.dir /\ done.reading = FALSE /\ done.node = c.node
             /\ done.i = c.i /\ done.num = c.num /\ done.unread = c.unread
             /\ on \in Call /\ on.dir = c.dir /\ on.reading = c.reading /\ on.node = c.node
             /\ on.i = c.i + 1 /\ on.num = c.num /\ on.unread = c.unread
<1> DEFINE done == [c EXCEPT !.reading = FALSE]
           on == [c EXCEPT !.i = @ + 1]
<1>1. done \in Call
  BY DEF Call
<1>2. on \in Call
  BY CallTypes DEF Call
<1>3. done.dir = c.dir /\ on.dir = c.dir
  BY DEF Call
<1>4. done.reading = FALSE
  BY DEF Call
<1>5. on.reading = c.reading
  BY DEF Call
<1>6. done.node = c.node /\ on.node = c.node
  BY DEF Call
<1>7. done.i = c.i
  BY DEF Call
<1>8. on.i = c.i + 1
  BY DEF Call
<1>9. done.num = c.num /\ on.num = c.num
  BY DEF Call
<1>10. done.unread = c.unread /\ on.unread = c.unread
  BY DEF Call
<1> QED BY <1>1, <1>2, <1>3, <1>4, <1>5, <1>6, <1>7, <1>8, <1>9, <1>10

-----------------------------------------------------------------------------
(* Every variable keeps its type.                                          *)

LEMMA TypesRead ==
  ASSUME TypeOK, CallsInv, PlaceInv, ReadEntry
  PROVE  TypeOK'
<1>1. PICK e \in calls[1].unread :
        /\ e \in Entries /\ e \notin found /\ e \in Content[calls[1].dir]
        /\ Keep(e) \/ Miss(e)
  BY EntryRead
<1>2. /\ calls \in Seq(Call) /\ calls # <<>> /\ calls[1] \in Call
  BY Innermost DEF ReadEntry
<1>3. UNCHANGED <<noDirs, broken, hashes, pc, printed, freed>>
  BY DEF ReadEntry
<1>4. CASE Keep(e)
  <2>1. PICK c \in Call : InnerCall(c)
    BY <1>2, <1>4, CallMore DEF Keep
  <2>2. calls' \in Seq(Call)
    BY <1>2, <2>1, CallChanged
  <2>3. list \in Seq(found) /\ IsInjective(list) /\ list' = Append(list, e) /\ found' = found \cup {e} /\ missed' = missed
    BY <1>4 DEF TypeOK, Keep
  <2>4. e \notin Range(list)
    BY <1>1, Places
  <2>5. list' \in Seq(found') /\ IsInjective(list')
    BY <2>3, <2>4, Appended
  <2>6. printed \in Seq(found \cup {e}) /\ freed \in Seq(found \cup {e})
    BY SeqMonotonic DEF TypeOK
  <2>7. found' \subseteq Entries /\ missed' \subseteq Entries
    BY <1>1, <2>3 DEF TypeOK
  <2> QED BY <1>3, <2>2, <2>3, <2>5, <2>6, <2>7 DEF TypeOK
<1>5. CASE Miss(e)
  <2>1. PICK c \in Call : InnerCall(c)
    BY <1>2, <1>5, CallMissed DEF Miss
  <2>2. calls' \in Seq(Call)
    BY <1>2, <2>1, CallChanged
  <2>3. missed' \subseteq Entries /\ UNCHANGED <<list, found>>
    BY <1>1, <1>5 DEF TypeOK, Miss
  <2> QED BY <1>3, <2>2, <2>3 DEF TypeOK
<1> QED BY <1>1, <1>4, <1>5

LEMMA TypesWalk ==
  ASSUME TypeOK, CallsInv, PlaceInv, Walk
  PROVE  TypeOK'
<1> DEFINE e == list[calls[1].node + calls[1].i + 1]
           c == [calls[1] EXCEPT !.i = @ + 1]
<1>1. /\ calls \in Seq(Call) /\ calls # <<>> /\ calls[1] \in Call
  BY Innermost DEF Walk
<1>2. c \in Call
  BY <1>1, CallWalking
<1>3. UNCHANGED <<noDirs, list, found, missed, hashes, pc, printed, freed>>
  BY DEF Walk
<1>4. \/ InnerCall(c) /\ UNCHANGED broken
      \/ IsDir(e) /\ calls' = <<CallOf(e)>> \o (<<c>> \o Tail(calls)) /\ UNCHANGED broken
      \/ IsDir(e) /\ InnerCall(c) /\ broken' = broken \cup {e}
  BY DEF Walk, InnerCall
<1> HIDE DEF c, e
<1>5. broken' \subseteq DOMAIN Content
  BY <1>4 DEF TypeOK, IsDir
<1>6. calls' \in Seq(Call)
  <2>1. CASE InnerCall(c)
    BY <1>1, <1>2, <2>1, CallChanged
  <2>2. CASE IsDir(e) /\ calls' = <<CallOf(e)>> \o (<<c>> \o Tail(calls))
    <3>1. CallOf(e) \in Call
      BY <2>2, CallOfDir DEF IsDir
    <3> QED BY <1>1, <1>2, <2>2, <3>1, CallMade
  <2> QED BY <1>4, <2>1, <2>2
<1> QED BY <1>3, <1>5, <1>6 DEF TypeOK

LEMMA TypesOrder ==
  ASSUME TypeOK, Order
  PROVE  TypeOK'
<1>1. PICK back \in Seq(found) : /\ IsInjective(back) /\ Range(back) = Files
                                 /\ list' = DirsLeft \o back
  BY Ordered
<1>2. /\ DirsLeft \in Seq(found) /\ IsInjective(DirsLeft) /\ Left \in Seq(found)
      /\ Range(DirsLeft) = IF noDirs THEN {} ELSE Range(Left)
      /\ Range(Left) = {e \in Range(list) : ~IsFile(e)}
  BY Ordered
<1>3. Range(DirsLeft) \cap Range(back) = {}
  BY <1>1, <1>2 DEF Files
<1>4. list' \in Seq(found) /\ IsInjective(list')
  BY <1>1, <1>2, <1>3, Joined
<1>5. freed' \in Seq(found)
  <2>1. Reverse(Left) \in Seq(found) /\ freed \in Seq(found)
    BY <1>2, Reversed DEF TypeOK
  <2>2. freed' = (freed \o Reverse(Left)) \/ freed' = freed
    BY DEF Order
  <2>3. (freed \o Reverse(Left)) \in Seq(found)
    BY <2>1, Joined
  <2> QED BY <2>1, <2>2, <2>3
<1>6. UNCHANGED <<noDirs, calls, found, missed, broken, hashes, printed>> /\ pc' = "print"
  BY DEF Order
<1> QED BY <1>4, <1>5, <1>6 DEF TypeOK

LEMMA StepTypes ==
  ASSUME TypeOK, CallsInv, PlaceInv, [Next]_vars
  PROVE  TypeOK'
<1>1. ASSUME Start PROVE TypeOK'
  <2>1. Root \in DOMAIN Content
    BY DirListAssumption
  <2>2. CallOf(Root) \in Call
    BY <2>1, CallOfDir
  <2>3. <<CallOf(Root)>> \in Seq(Call)
    BY <2>2
  <2> QED BY <1>1, <2>3 DEF Start, TypeOK
<1>2. ASSUME StartFails PROVE TypeOK'
  BY <1>2, DirListAssumption DEF StartFails, TypeOK
<1>3. ASSUME ReadEntry PROVE TypeOK'
  BY <1>3, TypesRead
<1>4. ASSUME EndOfDir PROVE TypeOK'
  <2>1. /\ calls \in Seq(Call) /\ calls # <<>> /\ calls[1] \in Call
    BY <1>4, Innermost DEF EndOfDir
  <2>2. PICK c \in Call : InnerCall(c)
    BY <1>4, <2>1, CallWalking DEF EndOfDir
  <2>3. calls' \in Seq(Call)
    BY <2>1, <2>2, CallChanged
  <2> QED BY <1>4, <2>3 DEF EndOfDir, TypeOK
<1>5. ASSUME ReadFails PROVE TypeOK'
  <2>1. /\ calls[1] \in Call /\ Tail(calls) \in Seq(Call)
    BY <1>5, Innermost DEF ReadFails
  <2>2. calls[1].dir \in DOMAIN Content
    BY <2>1, CallTypes
  <2> QED BY <1>5, <2>1, <2>2 DEF ReadFails, TypeOK
<1>6. ASSUME Walk PROVE TypeOK'
  BY <1>6, TypesWalk
<1>7. ASSUME Return PROVE TypeOK'
  <2>1. Tail(calls) \in Seq(Call)
    BY <1>7, Innermost DEF Return
  <2> QED BY <1>7, <2>1 DEF Return, TypeOK
<1>8. ASSUME Hash PROVE TypeOK'
  <2>1. hashes' \in 0 .. Cardinality(Files)
    BY <1>8 DEF Hash, Files
  <2>2. hashes' \in 0 .. Cardinality(Regular)
    BY <2>1, FilesCounted
  <2> QED BY <1>8, <2>2 DEF Hash, TypeOK
<1>9. ASSUME OrderFails PROVE TypeOK'
  BY <1>9 DEF OrderFails, TypeOK
<1>10. ASSUME Order PROVE TypeOK'
  BY <1>10, TypesOrder
<1>11. ASSUME PrintList PROVE TypeOK'
  BY <1>11 DEF PrintList, TypeOK
<1>12. ASSUME Free PROVE TypeOK'
  <2>1. Reverse(list) \in Seq(found) /\ freed \in Seq(found) /\ list \in Seq(found)
    BY Reversed DEF TypeOK
  <2>2. (freed \o Reverse(list)) \in Seq(found)
    BY <2>1, Joined
  <2>3. <<>> \in Seq(found) /\ IsInjective(<<>>)
    BY EmptySeq DEF IsInjective
  <2> QED BY <1>12, <2>2, <2>3 DEF Free, TypeOK
<1>13. ASSUME UNCHANGED vars PROVE TypeOK'
  BY <1>13 DEF vars, TypeOK
<1> QED
  BY <1>1, <1>2, <1>3, <1>4, <1>5, <1>6, <1>7, <1>8, <1>9, <1>10, <1>11, <1>12, <1>13
  DEF Next, Terminated

-----------------------------------------------------------------------------
(* What is on the list, and in which order.                                *)

\* An entry is in one directory.
LEMMA OneParent ==
  ASSUME NEW c \in DOMAIN Content, NEW d \in DOMAIN Content, NEW e, e \in Content[c], e \in Content[d]
  PROVE  c = d
BY DirListAssumption

\* An entry is found after the directory it is in.
LEMMA ListRead ==
  ASSUME TypeOK, CallsInv, PlaceInv, FreshInv, ListInv, ReadEntry
  PROVE  ListInv'
<1>1. PICK e \in calls[1].unread :
        /\ e \in Entries /\ e \notin found /\ e \in Content[calls[1].dir]
        /\ Keep(e) \/ Miss(e)
  BY EntryRead
<1>2. UNCHANGED <<printed, freed>>
  BY DEF ReadEntry
<1>3. CASE Keep(e)
  <2>1. list \in Seq(found) /\ list' = Append(list, e) /\ found' = found \cup {e}
    BY <1>3 DEF TypeOK, Keep
  <2>2. /\ Len(list) \in Nat /\ DOMAIN list = 1 .. Len(list)
        /\ \A k \in DOMAIN list : k \in DOMAIN list' /\ list'[k] = list[k]
        /\ Len(list) + 1 \in DOMAIN list' /\ list'[Len(list) + 1] = e
        /\ Range(list') = Range(list) \cup {e}
    BY <2>1, Appended
  <2>3. Range(list) \subseteq found
    BY Places
  <2>4. ASSUME NEW d \in Range(list'), NEW x \in Range(list'), IsDir(d), x \in Content[d]
        PROVE  Before(list', d, x)
    <3>1. CASE d \in Range(list) /\ x \in Range(list)
      <4>1. Before(list, d, x)
        BY <2>4, <3>1 DEF ListInv, InOrder
      <4> QED BY <2>2, <4>1 DEF Before
    <3>2. CASE d \in Range(list) /\ x = e
      <4>1. PICK k \in DOMAIN list : list[k] = d
        BY <3>2 DEF Range
      <4>2. k < Len(list) + 1
        BY <2>2
      <4> QED BY <2>2, <3>2, <4>1, <4>2 DEF Before
    <3>3. CASE d = e
      <4>1. d \in DOMAIN Content \ {Root}
        BY <1>1, <2>4, <3>3, DirListAssumption DEF IsDir
      <4>2. Content[d] \cap found = {} /\ \A k \in DOMAIN calls : calls[k].dir # d
        BY <1>1, <3>3, <4>1 DEF FreshInv
      <4>3. x = e
        BY <2>2, <2>3, <2>4, <4>2
      <4>4. 1 \in DOMAIN calls /\ calls[1].dir \in DOMAIN Content
        BY Innermost, CallTypes DEF ReadEntry
      <4>5. calls[1].dir = d
        BY <1>1, <2>4, <4>1, <4>3, <4>4, OneParent
      <4> QED BY <4>2, <4>4, <4>5
    <3> QED BY <2>2, <2>4, <3>1, <3>2, <3>3
  <2>5. InOrder(list')
    BY <2>4 DEF InOrder
  <2>6. Range(list') \cap Range(freed) = {} /\ Range(list') \cup Range(freed) = found'
    BY <1>1, <2>1, <2>2 DEF ListInv
  <2> QED BY <1>2, <2>5, <2>6 DEF ListInv
<1>4. CASE Miss(e)
  BY <1>2, <1>4 DEF Miss, ListInv
<1> QED BY <1>1, <1>3, <1>4

\* When the files have come back the directories that stay are before them,
\* and among themselves in their order.
LEMMA ListOrder ==
  ASSUME TypeOK, PlaceInv, ListInv, Order
  PROVE  ListInv' /\ ({e \in found : IsFile(e) \/ ~noDirs} \subseteq Range(list'))
<1>1. PICK back \in Seq(found) : /\ IsInjective(back) /\ Range(back) = Files
                                 /\ list' = DirsLeft \o back
  BY Ordered
<1>2. /\ DirsLeft \in Seq(found) /\ IsInjective(DirsLeft) /\ Left \in Seq(found) /\ IsInjective(Left)
      /\ Range(DirsLeft) = IF noDirs THEN {} ELSE Range(Left)
      /\ Range(Left) = {e \in Range(list) : ~IsFile(e)}
      /\ \A d, e \in Range(Left) : Before(list, d, e) => Before(Left, d, e)
  BY Ordered
<1>3. freed = <<>> /\ UNCHANGED <<found, printed>>
  BY DEF Order, PlaceInv
<1>4. Range(freed) = {}
  BY <1>3 DEF Range
<1>5. Range(list) = found
  BY <1>4 DEF ListInv
<1>6. /\ Range(list') = Range(DirsLeft) \cup Files
      /\ DOMAIN DirsLeft = 1 .. Len(DirsLeft) /\ DOMAIN back = 1 .. Len(back)
      /\ Len(DirsLeft) \in Nat /\ Len(back) \in Nat
      /\ \A k \in DOMAIN DirsLeft : k \in DOMAIN list' /\ list'[k] = DirsLeft[k]
      /\ \A k \in DOMAIN back : Len(DirsLeft) + k \in DOMAIN list' /\ list'[Len(DirsLeft) + k] = back[k]
  <2> HIDE DEF DirsLeft
  <2>1. Range(list') = Range(DirsLeft) \cup Range(back)
    BY <1>1, <1>2, Joined
  <2>2. /\ DOMAIN DirsLeft = 1 .. Len(DirsLeft) /\ DOMAIN back = 1 .. Len(back)
        /\ Len(DirsLeft) \in Nat /\ Len(back) \in Nat
    BY <1>1, <1>2, Joined
  <2>3. \A k \in DOMAIN DirsLeft : k \in DOMAIN list' /\ list'[k] = DirsLeft[k]
    BY <1>1, <1>2, Joined
  <2>4. \A k \in DOMAIN back : Len(DirsLeft) + k \in DOMAIN list' /\ list'[Len(DirsLeft) + k] = back[k]
    BY <1>1, <1>2, Joined
  <2> QED BY <1>1, <2>1, <2>2, <2>3, <2>4
<1>7. {e \in found : IsFile(e) \/ ~noDirs} \subseteq Range(list')
  BY <1>2, <1>5, <1>6 DEF Files
<1>8. ASSUME NEW d \in Range(list'), NEW e \in Range(list'), IsDir(d), e \in Content[d]
      PROVE  Before(list', d, e)
  <2>1. d \notin Files
    BY <1>8, DirListAssumption DEF Files, IsFile, IsDir
  <2>2. d \in Range(DirsLeft) /\ DirsLeft = Left
    BY <1>2, <1>6, <1>8, <2>1 DEF DirsLeft
  <2>3. CASE e \in Range(DirsLeft)
    <3>1. Before(list, d, e)
      BY <1>2, <1>8, <2>2, <2>3 DEF ListInv, InOrder
    <3>2. Before(DirsLeft, d, e)
      BY <1>2, <2>2, <2>3, <3>1
    <3> QED BY <1>6, <3>2 DEF Before
  <2>4. CASE e \in Files
    <3>1. PICK k \in DOMAIN DirsLeft : DirsLeft[k] = d
      BY <2>2 DEF Range
    <3>2. PICK l \in DOMAIN back : back[l] = e
      BY <1>1, <2>4 DEF Range
    <3>3. k < Len(DirsLeft) + l
      BY <1>6
    <3> QED BY <1>6, <3>1, <3>2, <3>3 DEF Before
  <2> QED BY <1>6, <1>8, <2>3, <2>4
<1>9. InOrder(list')
  BY <1>8 DEF InOrder
<1>10. IsInjective(freed') /\ Range(list') \cap Range(freed') = {} /\ Range(list') \cup Range(freed') = found
  <2>1. CASE noDirs
    <3>1. freed' = <<>> \o Reverse(Left)
      BY <1>3, <2>1 DEF Order
    <3>2. Reverse(Left) \in Seq(found) /\ Range(Reverse(Left)) = Range(Left) /\ IsInjective(Reverse(Left))
      BY <1>2, Reversed
    <3>3. <<>> \in Seq(found) /\ IsInjective(<<>>) /\ Range(<<>>) = {}
      BY EmptySeq DEF IsInjective, Range
    <3>4. Range(freed') = Range(Left) /\ IsInjective(freed')
      BY <3>1, <3>2, <3>3, Joined
    <3> QED BY <1>2, <1>5, <1>6, <2>1, <3>4 DEF Files
  <2>2. CASE ~noDirs
    <3>1. freed' = freed
      BY <2>2 DEF Order
    <3>2. Range(list') = found
      BY <1>2, <1>5, <1>6, <2>2 DEF Files
    <3> QED BY <1>4, <3>1, <3>2 DEF ListInv
  <2> QED BY <2>1, <2>2
<1> QED BY <1>3, <1>7, <1>9, <1>10 DEF ListInv

LEMMA StepList ==
  ASSUME TypeOK, CallsInv, FreshInv, ListInv, PlaceInv, [Next]_vars
  PROVE  ListInv'
<1>1. ASSUME ReadEntry PROVE ListInv'
  BY <1>1, ListRead
<1>2. ASSUME Order PROVE ListInv'
  BY <1>2, ListOrder
<1>3. ASSUME PrintList PROVE ListInv'
  BY <1>3 DEF PrintList, ListInv
<1>4. ASSUME Free PROVE ListInv'
  <2>1. /\ list' = <<>> /\ freed' = freed \o Reverse(list) /\ UNCHANGED <<found, printed>>
    BY <1>4 DEF Free
  <2>2. /\ list \in Seq(found) /\ IsInjective(list) /\ freed \in Seq(found) /\ IsInjective(freed)
        /\ Range(list) \cap Range(freed) = {} /\ Range(list) \cup Range(freed) = found /\ InOrder(printed)
    BY DEF TypeOK, ListInv
  <2>3. Reverse(list) \in Seq(found) /\ Range(Reverse(list)) = Range(list) /\ IsInjective(Reverse(list))
    BY <2>2, Reversed
  <2>4. Range(freed') = Range(freed) \cup Range(list) /\ IsInjective(freed')
    BY <2>1, <2>2, <2>3, Joined
  <2>5. Range(list') = {}
    BY <2>1 DEF Range
  <2>6. InOrder(list')
    BY <2>5 DEF InOrder
  <2> QED BY <2>1, <2>2, <2>4, <2>5, <2>6 DEF ListInv
<1>5. ASSUME UNCHANGED <<list, found, printed, freed>> PROVE ListInv'
  BY <1>5 DEF ListInv
<1>6. \/ ReadEntry \/ Order \/ PrintList \/ Free
      \/ UNCHANGED <<list, found, printed, freed>>
  BY DEF Next, vars, Start, StartFails, EndOfDir, ReadFails, Walk, Return, Hash, OrderFails, Terminated
<1> QED BY <1>1, <1>2, <1>3, <1>4, <1>5, <1>6

\* What is known at each place.
LEMMA StepPlace ==
  ASSUME TypeOK, CallsInv, ListInv, PlaceInv, [Next]_vars
  PROVE  PlaceInv'
<1>0. freed = <<>> => Range(list) = found
  <2>1. Range(<<>>) = {}
    BY DEF Range
  <2> QED BY <2>1 DEF ListInv
<1>1. ASSUME Start PROVE PlaceInv'
  <2>1. calls' # <<>>
    BY <1>1 DEF Start
  <2> QED BY <1>1, <2>1 DEF Start, PlaceInv
<1>2. ASSUME StartFails PROVE PlaceInv'
  BY <1>2 DEF StartFails, PlaceInv
<1>3. ASSUME ReadEntry PROVE PlaceInv'
  <2>1. /\ calls \in Seq(Call) /\ calls # <<>> /\ calls[1] \in Call
    BY <1>3, Innermost DEF ReadEntry
  <2>2. PICK c \in Call : InnerCall(c)
    BY <1>3, <2>1, EntryRead, CallMore, CallMissed DEF Keep, Miss
  <2>3. calls' # <<>>
    BY <2>1, <2>2, CallChanged
  <2> QED BY <1>3, <2>3 DEF ReadEntry, PlaceInv
<1>4. ASSUME EndOfDir PROVE PlaceInv'
  <2>1. /\ calls \in Seq(Call) /\ calls # <<>> /\ calls[1] \in Call
    BY <1>4, Innermost DEF EndOfDir
  <2>2. PICK c \in Call : InnerCall(c)
    BY <1>4, <2>1, CallWalking DEF EndOfDir
  <2>3. calls' # <<>>
    BY <2>1, <2>2, CallChanged
  <2> QED BY <1>4, <2>3 DEF EndOfDir, PlaceInv
<1>5. ASSUME ReadFails PROVE PlaceInv'
  BY <1>5 DEF ReadFails, PlaceInv
<1>6. ASSUME Walk PROVE PlaceInv'
  <2>1. calls' # <<>>
    <3> DEFINE e == list[calls[1].node + calls[1].i + 1]
               c == [calls[1] EXCEPT !.i = @ + 1]
    <3>1. calls \in Seq(Call) /\ calls # <<>> /\ c \in Call
      BY <1>6, Innermost, CallWalking DEF Walk
    <3>2. InnerCall(c) \/ (IsDir(e) /\ calls' = <<CallOf(e)>> \o (<<c>> \o Tail(calls)))
      BY <1>6 DEF Walk, InnerCall
    <3> HIDE DEF e, c
    <3>3. CASE InnerCall(c)
      BY <3>1, <3>3, CallChanged
    <3>4. CASE IsDir(e) /\ calls' = <<CallOf(e)>> \o (<<c>> \o Tail(calls))
      <4>1. CallOf(e) \in Call
        BY <3>4, CallOfDir DEF IsDir
      <4>2. 1 \in DOMAIN calls'
        BY <3>1, <3>4, <4>1, CallMade
      <4> QED BY <4>2
    <3> QED BY <3>2, <3>3, <3>4
  <2> QED BY <1>6, <2>1 DEF Walk, PlaceInv
<1>7. ASSUME Return PROVE PlaceInv'
  BY <1>7 DEF Return, PlaceInv
<1>8. ASSUME Hash PROVE PlaceInv'
  BY <1>0, <1>8 DEF Hash, PlaceInv
<1>9. ASSUME OrderFails PROVE PlaceInv'
  BY <1>9 DEF OrderFails, PlaceInv
<1>10. ASSUME Order PROVE PlaceInv'
  <2>1. {e \in found : IsFile(e) \/ ~noDirs} \subseteq Range(list')
    BY <1>10, ListOrder
  <2> QED BY <1>10, <2>1 DEF Order, PlaceInv
<1>11. ASSUME PrintList PROVE PlaceInv'
  BY <1>11 DEF PrintList, PlaceInv
<1>12. ASSUME Free PROVE PlaceInv'
  BY <1>12 DEF Free, PlaceInv
<1>13. ASSUME UNCHANGED vars PROVE PlaceInv'
  BY <1>13 DEF vars, PlaceInv
<1> QED
  BY <1>1, <1>2, <1>3, <1>4, <1>5, <1>6, <1>7, <1>8, <1>9, <1>10, <1>11, <1>12, <1>13
  DEF Next, Terminated

\* What is printed is the list.
LEMMA StepPrinted ==
  ASSUME TypeOK, PlaceInv, AllPrinted, [Next]_vars
  PROVE  AllPrinted'
<1>1. ASSUME PrintList PROVE AllPrinted'
  BY <1>1 DEF PrintList, PlaceInv, TypeOK, AllPrinted
<1>2. ASSUME UNCHANGED vars PROVE AllPrinted'
  BY <1>2 DEF vars, AllPrinted
<1>3. ASSUME pc' # "printed" PROVE AllPrinted'
  BY <1>3 DEF AllPrinted
<1>4. PrintList \/ UNCHANGED vars \/ pc' # "printed"
  BY DEF Next, Start, StartFails, ReadEntry, EndOfDir, ReadFails, Walk, Return, Hash,
         OrderFails, Order, Free, Terminated
<1> QED BY <1>1, <1>2, <1>3, <1>4

-----------------------------------------------------------------------------
(* The calls stay as they should be.                                       *)

\* The numbers of a call in progress.
LEMMA CallNumbers ==
  ASSUME TypeOK, NEW k \in DOMAIN calls
  PROVE  /\ calls \in Seq(Call) /\ DOMAIN calls = 1 .. Len(calls) /\ Len(calls) \in Nat /\ k \in Nat \ {0}
         /\ calls[k] \in Call /\ calls[k].dir \in DOMAIN Content
         /\ calls[k].node \in Nat /\ calls[k].num \in Nat /\ calls[k].i \in Nat
<1>1. calls \in Seq(Call)
  BY DEF TypeOK
<1>2. calls[k] \in Call /\ DOMAIN calls = 1 .. Len(calls) /\ Len(calls) \in Nat /\ k \in Nat \ {0}
  BY <1>1, LenProperties
<1> QED BY <1>1, <1>2, CallTypes

\* The innermost call changes and the list does not.
LEMMA CallsKept ==
  ASSUME TypeOK, CallsInv, calls # <<>>, UNCHANGED <<list, found>>,
         NEW c \in Call, InnerCall(c), c.node = calls[1].node, CallSound(1)'
  PROVE  CallsInv'
<1>1. calls \in Seq(Call) /\ \A k \in DOMAIN calls : CallSound(k)
  BY DEF TypeOK, CallsInv
<1>2. DOMAIN calls' = DOMAIN calls /\ calls'[1] = c /\ \A k \in DOMAIN calls : k # 1 => calls'[k] = calls[k]
  BY <1>1, CallChanged
<1>3. \A k \in DOMAIN calls : calls'[k].node = calls[k].node
  BY <1>2
<1>4. ASSUME NEW k \in DOMAIN calls, k # 1 PROVE CallSound(k)'
  <2>1. calls'[k] = calls[k] /\ CallSound(k) /\ k \in Nat /\ DOMAIN calls = 1 .. Len(calls) /\ Len(calls) \in Nat
    BY <1>1, <1>2, <1>4, CallNumbers
  <2>2. \A l \in 1 .. k - 1 : calls'[l].node = calls[l].node
    <3> TAKE l \in 1 .. k - 1
    <3>1. l \in DOMAIN calls
      BY <2>1
    <3> QED BY <1>3, <3>1
  <2> QED BY <2>1, <2>2 DEF CallSound
<1> QED BY <1>2, <1>4 DEF CallsInv

LEMMA CallsRead ==
  ASSUME TypeOK, TypeOK', CallsInv, PlaceInv, ReadEntry
  PROVE  CallsInv'
<1>1. PICK e \in calls[1].unread :
        /\ e \in Entries /\ e \notin found /\ e \in Content[calls[1].dir]
        /\ Keep(e) \/ Miss(e)
  BY EntryRead
<1>2. /\ calls \in Seq(Call) /\ calls # <<>> /\ calls[1] \in Call /\ 1 \in DOMAIN calls /\ calls[1].reading
      /\ CallSound(1)
  BY Innermost DEF ReadEntry
<1>3. \A k \in DOMAIN calls : CallSound(k)
  BY DEF CallsInv
<1>4. Len(list) \in Nat /\ DOMAIN list = 1 .. Len(list)
  BY Places
<1>5. CASE Keep(e)
  <2> DEFINE c == OneMore(calls[1], e)
  <2>1. /\ c \in Call /\ c.dir = calls[1].dir /\ c.reading = calls[1].reading /\ c.node = calls[1].node
        /\ c.i = calls[1].i /\ c.num = calls[1].num + 1 /\ c.unread = calls[1].unread \ {e}
    BY <1>2, CallMore
  <2>2. InnerCall(c)
    BY <1>5 DEF Keep
  <2> HIDE DEF c
  <2>3. DOMAIN calls' = DOMAIN calls /\ calls'[1] = c /\ \A k \in DOMAIN calls : k # 1 => calls'[k] = calls[k]
    BY <1>2, <2>1, <2>2, CallChanged
  <2>4. list \in Seq(found) /\ list' = Append(list, e) /\ found' = found \cup {e}
    BY <1>5 DEF Keep, TypeOK
  <2>5. /\ Len(list') = Len(list) + 1 /\ list'[Len(list) + 1] = e
        /\ \A p \in 1 .. Len(list) : list'[p] = list[p]
    BY <1>4, <2>4, Appended
  <2>6. \A k \in DOMAIN calls : calls'[k].node = calls[k].node
    BY <2>1, <2>3
  <2>7. CallSound(1)'
    <3>1. /\ calls[1].i \in Nat /\ calls[1].num \in Nat /\ calls[1].node \in Nat
      BY <1>2, CallTypes
    <3>2. c.i <= c.num /\ c.node + c.num = Len(list') /\ c.i = 0 /\ c.node + c.num <= Len(list')
      BY <1>2, <1>4, <2>1, <2>5, <3>1 DEF CallSound
    <3>3. \A p \in c.node + 1 .. c.node + c.num : list'[p] \in Content[c.dir]
      <4> TAKE p \in c.node + 1 .. c.node + c.num
      <4>1. p = Len(list) + 1 \/ (p \in 1 .. Len(list) /\ p \in calls[1].node + 1 .. calls[1].node + calls[1].num)
        BY <1>4, <2>1, <2>5, <3>1, <3>2
      <4>2. CASE p = Len(list) + 1
        BY <1>1, <2>1, <2>5, <4>2
      <4>3. CASE p \in 1 .. Len(list) /\ p \in calls[1].node + 1 .. calls[1].node + calls[1].num
        BY <1>2, <2>1, <2>5, <4>3 DEF CallSound
      <4> QED BY <4>1, <4>2, <4>3
    <3>4. c.unread \subseteq Content[c.dir] \ found'
      BY <1>2, <2>1, <2>4 DEF CallSound
    <3>5. c.dir \in found' \cup {Root} /\ c.reading
      BY <1>2, <2>1, <2>4 DEF CallSound
    <3>6. \A l \in 1 .. 1 - 1 : FALSE
      OBVIOUS
    <3> QED BY <2>3, <3>2, <3>3, <3>4, <3>5, <3>6 DEF CallSound
  <2>8. ASSUME NEW k \in DOMAIN calls, k # 1 PROVE CallSound(k)'
    <3>1. calls'[k] = calls[k] /\ CallSound(k) /\ k \in Nat /\ DOMAIN calls = 1 .. Len(calls) /\ Len(calls) \in Nat
      BY <1>3, <2>3, <2>8, CallNumbers
    <3>2. /\ calls[k].i \in Nat /\ calls[k].num \in Nat /\ calls[k].node \in Nat
      BY CallNumbers
    <3>3. calls[k].node + calls[k].num <= Len(list) /\ calls[k].node + calls[k].num <= Len(list')
      BY <1>4, <2>5, <3>1, <3>2 DEF CallSound
    <3>4. \A l \in 1 .. k - 1 : calls[k].node + calls[k].num <= calls'[l].node
      <4> TAKE l \in 1 .. k - 1
      <4>1. l \in DOMAIN calls
        BY <3>1
      <4> QED BY <2>6, <3>1, <4>1 DEF CallSound
    <3>5. \A p \in calls[k].node + 1 .. calls[k].node + calls[k].num : list'[p] \in Content[calls[k].dir]
      <4> TAKE p \in calls[k].node + 1 .. calls[k].node + calls[k].num
      <4>1. p \in 1 .. Len(list)
        BY <1>4, <3>2, <3>3
      <4> QED BY <2>5, <3>1, <4>1 DEF CallSound
    <3>6. calls[k].i <= calls[k].num /\ ~calls[k].reading /\ calls[k].unread = {} /\ calls[k].dir \in found \cup {Root}
      BY <2>8, <3>1 DEF CallSound
    <3> QED BY <2>4, <3>1, <3>3, <3>4, <3>5, <3>6 DEF CallSound
  <2> QED BY <2>3, <2>7, <2>8 DEF CallsInv
<1>6. CASE Miss(e)
  <2> DEFINE c == OneMissed(calls[1], e)
  <2>1. /\ c \in Call /\ c.dir = calls[1].dir /\ c.reading = calls[1].reading /\ c.node = calls[1].node
        /\ c.i = calls[1].i /\ c.num = calls[1].num /\ c.unread = calls[1].unread \ {e}
    BY <1>2, CallMissed
  <2>2. InnerCall(c) /\ UNCHANGED <<list, found>>
    BY <1>6 DEF Miss
  <2> HIDE DEF c
  <2>3. DOMAIN calls' = DOMAIN calls /\ calls'[1] = c /\ \A k \in DOMAIN calls : k # 1 => calls'[k] = calls[k]
    BY <1>2, <2>1, <2>2, CallChanged
  <2>4. CallSound(1)'
    <3>1. \A l \in 1 .. 1 - 1 : FALSE
      OBVIOUS
    <3> QED BY <1>2, <2>1, <2>2, <2>3, <3>1 DEF CallSound
  <2> QED BY <1>2, <2>1, <2>2, <2>4, CallsKept
<1> QED BY <1>1, <1>5, <1>6

\* The innermost call is over.
LEMMA CallsReturn ==
  ASSUME TypeOK, CallsInv, calls # <<>>, calls' = Tail(calls), UNCHANGED <<list, found>>
  PROVE  CallsInv'
<1>1. calls \in Seq(Call) /\ \A k \in DOMAIN calls : CallSound(k)
  BY DEF TypeOK, CallsInv
<1>2. \A k \in DOMAIN calls' : k + 1 \in DOMAIN calls /\ k + 1 # 1 /\ calls'[k] = calls[k + 1]
  BY <1>1, CallReturned
<1>3. calls' \in Seq(Call)
  BY <1>1, CallReturned
<1>4. DOMAIN calls' = 1 .. Len(calls') /\ Len(calls') \in Nat
  BY <1>3, LenProperties
<1>5. ASSUME NEW k \in DOMAIN calls' PROVE CallSound(k)'
  <2>1. calls'[k] = calls[k + 1] /\ CallSound(k + 1) /\ k \in Nat /\ k + 1 # 1
    BY <1>1, <1>2, <1>4
  <2>2. ASSUME NEW l \in 1 .. k - 1 PROVE calls[k + 1].node + calls[k + 1].num <= calls'[l].node
    <3>1. l \in DOMAIN calls' /\ l + 1 \in 1 .. (k + 1) - 1
      BY <1>4, <2>1
    <3>2. calls'[l] = calls[l + 1]
      BY <1>2, <3>1
    <3> QED BY <2>1, <3>1, <3>2 DEF CallSound
  <2> QED BY <2>1, <2>2 DEF CallSound
<1> QED BY <1>5 DEF CallsInv

\* A directory ahead is called.
LEMMA CallsMade ==
  ASSUME TypeOK, CallsInv, FreshInv, calls # <<>>, UNCHANGED <<list, found>>,
         NEW c \in Call, NEW e \in DOMAIN Content \ {Root}, e \in Ahead(calls[1]), e \in found,
         calls' = <<CallOf(e)>> \o (<<c>> \o Tail(calls)),
         c.dir = calls[1].dir, c.unread = calls[1].unread, c.reading = FALSE, calls[1].reading = FALSE,
         c.node = calls[1].node, c.num = calls[1].num, c.i <= c.num
  PROVE  CallsInv'
<1>1. calls \in Seq(Call) /\ \A k \in DOMAIN calls : CallSound(k)
  BY DEF TypeOK, CallsInv
<1>0. Len(list) \in Nat
  BY Places
<1>2. CallOf(e) \in Call
  BY CallOfDir
<1>3. /\ calls' \in Seq(Call) /\ 1 \in DOMAIN calls /\ 1 \in DOMAIN calls' /\ 2 \in DOMAIN calls'
      /\ calls'[1] = CallOf(e) /\ calls'[2] = c
      /\ \A k \in DOMAIN calls' : k = 1 \/ k = 2 \/ (k - 1 \in DOMAIN calls /\ k - 1 # 1 /\ calls'[k] = calls[k - 1])
  BY <1>1, <1>2, CallMade
<1>4. DOMAIN calls' = 1 .. Len(calls') /\ Len(calls') \in Nat
  BY <1>3, LenProperties
<1>5. CallSound(1)'
  <2>1. Content[e] \cap found = {}
    BY <1>3 DEF FreshInv, IsAhead
  <2>2. \A l \in 1 .. 1 - 1 : FALSE
    OBVIOUS
  <2>3. \A p \in Len(list) + 1 .. Len(list) + 0 : FALSE
    BY <1>0
  <2>4. /\ calls'[1].dir = e /\ calls'[1].unread = Content[e] /\ calls'[1].reading = TRUE
        /\ calls'[1].node = Len(list) /\ calls'[1].num = 0 /\ calls'[1].i = 0
    BY <1>3 DEF CallOf, LastNode
  <2> QED BY <1>0, <2>1, <2>2, <2>3, <2>4 DEF CallSound
<1>6. CallSound(2)'
  <2>1. CallSound(1)
    BY <1>1, <1>3
  <2>2. \A l \in 1 .. 2 - 1 : calls'[l].node = Len(list)
    BY <1>3 DEF CallOf, LastNode
  <2> QED BY <1>3, <2>1, <2>2 DEF CallSound
<1>7. ASSUME NEW k \in DOMAIN calls', k # 1, k # 2 PROVE CallSound(k)'
  <2>1. calls'[k] = calls[k - 1] /\ CallSound(k - 1) /\ k \in Nat /\ k - 1 \in DOMAIN calls /\ k - 1 # 1
    BY <1>1, <1>3, <1>4, <1>7
  <2>2. ASSUME NEW l \in 1 .. k - 1 PROVE calls[k - 1].node + calls[k - 1].num <= calls'[l].node
    <3>1. CASE l = 1
      <4>1. calls'[l].node = Len(list)
        BY <1>3, <3>1 DEF CallOf, LastNode
      <4> QED BY <2>1, <4>1 DEF CallSound
    <3>2. CASE l = 2
      <4>1. 1 \in 1 .. (k - 1) - 1 /\ calls'[l].node = calls[1].node
        BY <1>3, <2>1, <2>2, <3>2, <1>4, <1>7
      <4> QED BY <2>1, <4>1 DEF CallSound
    <3>3. CASE l # 1 /\ l # 2
      <4>1. l \in DOMAIN calls'
        BY <1>4, <2>1
      <4>2. calls'[l] = calls[l - 1]
        BY <1>3, <3>3, <4>1
      <4>3. l - 1 \in 1 .. (k - 1) - 1
        BY <2>1, <3>3
      <4> QED BY <2>1, <4>2, <4>3 DEF CallSound
    <3> QED BY <3>1, <3>2, <3>3
  <2> QED BY <2>1, <2>2 DEF CallSound
<1> QED BY <1>5, <1>6, <1>7 DEF CallsInv

\* The entry a walk comes to.
NextEntry == list[calls[1].node + calls[1].i + 1]
WalkedOn == [calls[1] EXCEPT !.i = @ + 1]

\* It is ahead of the innermost call only, and then of none.
LEMMA WalkTo ==
  ASSUME TypeOK, CallsInv, PlaceInv, Walk
  PROVE  /\ calls \in Seq(Call) /\ calls # <<>> /\ 1 \in DOMAIN calls /\ calls[1] \in Call /\ CallSound(1)
         /\ calls[1].reading = FALSE
         /\ NextEntry \in found /\ NextEntry \in Ahead(calls[1]) /\ NextEntry \in Content[calls[1].dir]
         /\ IsDir(NextEntry) => NextEntry \in DOMAIN Content \ {Root}
         /\ WalkedOn \in Call /\ WalkedOn.dir = calls[1].dir /\ WalkedOn.unread = calls[1].unread
         /\ WalkedOn.reading = FALSE /\ WalkedOn.node = calls[1].node /\ WalkedOn.num = calls[1].num
         /\ WalkedOn.i = calls[1].i + 1 /\ WalkedOn.i <= WalkedOn.num
         /\ Ahead(WalkedOn) = Ahead(calls[1]) \ {NextEntry}
         /\ \A k \in DOMAIN calls : k # 1 => NextEntry \notin Ahead(calls[k])
         /\ \/ ~IsDir(NextEntry) /\ InnerCall(WalkedOn) /\ UNCHANGED broken
            \/ IsDir(NextEntry) /\ calls' = <<CallOf(NextEntry)>> \o (<<WalkedOn>> \o Tail(calls)) /\ UNCHANGED broken
            \/ IsDir(NextEntry) /\ InnerCall(WalkedOn) /\ broken' = broken \cup {NextEntry}
         /\ UNCHANGED <<noDirs, list, found, missed, hashes, pc, printed, freed>>
<1>1. /\ calls \in Seq(Call) /\ calls # <<>> /\ 1 \in DOMAIN calls /\ calls[1] \in Call /\ CallSound(1)
      /\ ~calls[1].reading /\ calls[1].i < calls[1].num
  BY Innermost DEF Walk, More
<1>2. /\ calls[1].node \in Nat /\ calls[1].num \in Nat /\ calls[1].i \in Nat /\ calls[1].reading = FALSE
  BY <1>1, CallTypes
<1>3. /\ Len(list) \in Nat /\ DOMAIN list = 1 .. Len(list) /\ \A k \in DOMAIN list : list[k] \in found
      /\ \A k, l \in DOMAIN list : list[k] = list[l] => k = l
  BY Places DEF TypeOK, IsInjective
<1>4. PICK p \in Nat : p = calls[1].node + calls[1].i + 1
  BY <1>2
<1>5. PICK last \in Nat : last = calls[1].node + calls[1].num
  BY <1>2
<1>6. p \in calls[1].node + 1 .. last /\ p \in 1 .. Len(list) /\ p <= last /\ last <= Len(list) /\ NextEntry = list[p]
  BY <1>1, <1>2, <1>3, <1>4, <1>5 DEF CallSound, NextEntry
<1>7. Ahead(calls[1]) = {list[k] : k \in p .. last}
  BY <1>4, <1>5 DEF Ahead
<1>8. NextEntry \in found /\ NextEntry \in Ahead(calls[1]) /\ NextEntry \in Content[calls[1].dir]
  <2>1. NextEntry \in found
    BY <1>3, <1>6
  <2>2. p \in p .. last
    BY <1>6
  <2>3. NextEntry \in Content[calls[1].dir]
    BY <1>1, <1>5, <1>6 DEF CallSound
  <2> QED BY <1>6, <1>7, <2>1, <2>2, <2>3
<1>9. IsDir(NextEntry) => NextEntry \in DOMAIN Content \ {Root}
  BY <1>8, DirListAssumption DEF IsDir, TypeOK
<1>10. /\ WalkedOn \in Call /\ WalkedOn.dir = calls[1].dir /\ WalkedOn.unread = calls[1].unread
       /\ WalkedOn.reading = FALSE /\ WalkedOn.node = calls[1].node /\ WalkedOn.num = calls[1].num
       /\ WalkedOn.i = calls[1].i + 1
  BY <1>1, <1>2, CallWalking DEF WalkedOn
<1>11. WalkedOn.i <= WalkedOn.num
  BY <1>1, <1>2, <1>10
<1>12. Ahead(WalkedOn) = {list[k] : k \in p + 1 .. last}
  <2>1. WalkedOn.node + WalkedOn.i + 1 = p + 1 /\ WalkedOn.node + WalkedOn.num = last
    BY <1>2, <1>4, <1>5, <1>10
  <2> QED BY <2>1 DEF Ahead
<1>13. Ahead(WalkedOn) = Ahead(calls[1]) \ {NextEntry}
  <2>1. ASSUME NEW k \in p + 1 .. last PROVE k \in p .. last /\ list[k] # NextEntry
    <3>1. k \in p .. last /\ k \in 1 .. Len(list) /\ k # p
      BY <1>6, <2>1
    <3> QED BY <1>3, <1>6, <3>1
  <2>2. ASSUME NEW k \in p .. last, list[k] # NextEntry PROVE k \in p + 1 .. last
    BY <1>6, <2>2
  <2> QED BY <1>7, <1>12, <2>1, <2>2
<1>14. ASSUME NEW k \in DOMAIN calls, k # 1 PROVE NextEntry \notin Ahead(calls[k])
  <2>1. CallSound(k) /\ calls[k].node \in Nat /\ calls[k].num \in Nat /\ calls[k].i \in Nat /\ 1 \in 1 .. k - 1
    BY <1>14, CallNumbers DEF CallsInv
  <2>2. calls[k].node + calls[k].num <= calls[1].node
    BY <2>1 DEF CallSound
  <2>3. ASSUME NEW l \in calls[k].node + calls[k].i + 1 .. calls[k].node + calls[k].num PROVE list[l] # NextEntry
    <3>0. l \in Nat /\ 1 <= l /\ l <= calls[k].node + calls[k].num
      BY <2>1
    <3>2. l <= calls[1].node
      BY <1>2, <2>1, <2>2, <3>0
    <3>3. calls[1].node < p /\ p <= Len(list)
      BY <1>2, <1>4, <1>6
    <3>1. l \in 1 .. Len(list) /\ l # p
      BY <1>2, <1>3, <3>0, <3>2, <3>3
    <3> QED BY <1>3, <1>6, <3>1
  <2> QED BY <2>3 DEF Ahead
<1>15. /\ \/ ~IsDir(NextEntry) /\ InnerCall(WalkedOn) /\ UNCHANGED broken
          \/ IsDir(NextEntry) /\ calls' = <<CallOf(NextEntry)>> \o (<<WalkedOn>> \o Tail(calls)) /\ UNCHANGED broken
          \/ IsDir(NextEntry) /\ InnerCall(WalkedOn) /\ broken' = broken \cup {NextEntry}
       /\ UNCHANGED <<noDirs, list, found, missed, hashes, pc, printed, freed>>
  BY DEF Walk, InnerCall, NextEntry, WalkedOn
<1> QED BY <1>1, <1>2, <1>8, <1>9, <1>10, <1>11, <1>13, <1>14, <1>15

LEMMA StepCalls ==
  ASSUME TypeOK, TypeOK', CallsInv, FreshInv, PlaceInv, [Next]_vars
  PROVE  CallsInv'
<1>1. ASSUME Start PROVE CallsInv'
  <2>1. /\ calls' = <<CallOf(Root)>> /\ UNCHANGED <<list, found>> /\ found = {}
    BY <1>1 DEF Start, PlaceInv
  <2>2. DOMAIN calls' = {1} /\ calls'[1] = CallOf(Root) /\ Len(list) \in Nat
    BY <2>1, Places
  <2>3. /\ calls'[1].dir = Root /\ calls'[1].unread = Content[Root] /\ calls'[1].reading = TRUE
        /\ calls'[1].node = Len(list) /\ calls'[1].num = 0 /\ calls'[1].i = 0
    BY <2>2 DEF CallOf, LastNode
  <2>4. \A p \in Len(list) + 1 .. Len(list) + 0 : FALSE
    BY <2>2
  <2>5. \A l \in 1 .. 1 - 1 : FALSE
    OBVIOUS
  <2>6. CallSound(1)'
    BY <2>1, <2>2, <2>3, <2>4, <2>5 DEF CallSound
  <2> QED BY <2>2, <2>6 DEF CallsInv
<1>2. ASSUME ReadEntry PROVE CallsInv'
  BY <1>2, CallsRead
<1>3. ASSUME EndOfDir PROVE CallsInv'
  <2> DEFINE c == [calls[1] EXCEPT !.reading = FALSE]
  <2>1. /\ calls \in Seq(Call) /\ calls # <<>> /\ calls[1] \in Call /\ 1 \in DOMAIN calls /\ CallSound(1)
        /\ calls[1].unread = {} /\ UNCHANGED <<list, found>>
    BY <1>3, Innermost DEF EndOfDir
  <2>2. /\ c \in Call /\ c.dir = calls[1].dir /\ c.reading = FALSE /\ c.node = calls[1].node
        /\ c.i = calls[1].i /\ c.num = calls[1].num /\ c.unread = {}
    BY <2>1, CallWalking
  <2>3. InnerCall(c)
    BY <1>3 DEF EndOfDir
  <2> HIDE DEF c
  <2>4. calls'[1] = c
    BY <2>1, <2>2, <2>3, CallChanged
  <2>5. CallSound(1)'
    <3>1. \A l \in 1 .. 1 - 1 : FALSE
      OBVIOUS
    <3> QED BY <2>1, <2>2, <2>4, <3>1 DEF CallSound
  <2> QED BY <2>1, <2>2, <2>3, <2>5, CallsKept
<1>4. ASSUME ReadFails \/ Return PROVE CallsInv'
  <2>1. calls # <<>> /\ calls' = Tail(calls) /\ UNCHANGED <<list, found>>
    BY <1>4, Innermost DEF ReadFails, Return
  <2> QED BY <2>1, CallsReturn
<1>5. ASSUME Walk PROVE CallsInv'
  <2>1. CASE InnerCall(WalkedOn)
    <3>1. calls'[1] = WalkedOn
      BY <1>5, <2>1, WalkTo, CallChanged
    <3>2. \A l \in 1 .. 1 - 1 : FALSE
      OBVIOUS
    <3>3. /\ CallSound(1) /\ calls[1].reading = FALSE
          /\ WalkedOn \in Call /\ WalkedOn.dir = calls[1].dir /\ WalkedOn.unread = calls[1].unread
          /\ WalkedOn.reading = FALSE /\ WalkedOn.node = calls[1].node /\ WalkedOn.num = calls[1].num
          /\ WalkedOn.i <= WalkedOn.num /\ UNCHANGED <<list, found>> /\ calls # <<>>
      BY <1>5, WalkTo
    <3>4. CallSound(1)'
      BY <3>1, <3>2, <3>3 DEF CallSound
    <3> QED BY <2>1, <3>3, <3>4, CallsKept
  <2>2. CASE IsDir(NextEntry) /\ calls' = <<CallOf(NextEntry)>> \o (<<WalkedOn>> \o Tail(calls))
    <3>1. /\ calls # <<>> /\ UNCHANGED <<list, found>> /\ WalkedOn \in Call /\ NextEntry \in DOMAIN Content \ {Root}
          /\ NextEntry \in Ahead(calls[1]) /\ NextEntry \in found
          /\ WalkedOn.dir = calls[1].dir /\ WalkedOn.unread = calls[1].unread /\ WalkedOn.reading = FALSE
          /\ calls[1].reading = FALSE /\ WalkedOn.node = calls[1].node /\ WalkedOn.num = calls[1].num
          /\ WalkedOn.i <= WalkedOn.num
      BY <1>5, <2>2, WalkTo
    <3> QED BY <2>2, <3>1, CallsMade
  <2> QED BY <1>5, <2>1, <2>2, WalkTo
<1>6. ASSUME pc # "scan", UNCHANGED calls PROVE CallsInv'
  <2>1. DOMAIN calls' = {}
    BY <1>6 DEF PlaceInv
  <2> QED BY <2>1 DEF CallsInv
<1>7. ASSUME UNCHANGED vars PROVE CallsInv'
  BY <1>7 DEF vars, CallsInv, CallSound
<1>8. \/ Start \/ ReadEntry \/ EndOfDir \/ ReadFails \/ Return \/ Walk
      \/ (pc # "scan" /\ UNCHANGED calls) \/ UNCHANGED vars
  BY DEF Next, StartFails, Hash, OrderFails, Order, PrintList, Free, Terminated
<1> QED BY <1>1, <1>2, <1>3, <1>4, <1>5, <1>6, <1>7, <1>8

-----------------------------------------------------------------------------
(* What is ahead.                                                          *)

\* An entry that is read is ahead, and so is what was.
LEMMA AheadRead ==
  ASSUME TypeOK, CallsInv, PlaceInv, ReadEntry
  PROVE  \E e \in calls[1].unread :
           /\ e \in Entries /\ e \notin found /\ e \in Content[calls[1].dir] /\ 1 \in DOMAIN calls
           /\ \/ found' = found \cup {e} /\ missed' = missed /\ IsAhead(e)'
              \/ found' = found /\ missed' = missed \cup {e}
           /\ \A d : IsAhead(d)' => IsAhead(d) \/ d = e
           /\ \A d : IsAhead(d) => IsAhead(d)'
           /\ DOMAIN calls' = DOMAIN calls
           /\ \A k \in DOMAIN calls : calls'[k].dir = calls[k].dir
           /\ calls'[1].unread = calls[1].unread \ {e}
           /\ \A k \in DOMAIN calls : k # 1 => calls'[k].unread = calls[k].unread
           /\ UNCHANGED <<broken, pc>>
<1>1. PICK e \in calls[1].unread :
        /\ e \in Entries /\ e \notin found /\ e \in Content[calls[1].dir]
        /\ Keep(e) \/ Miss(e)
  BY EntryRead
<1>2. /\ calls \in Seq(Call) /\ calls # <<>> /\ calls[1] \in Call /\ 1 \in DOMAIN calls /\ calls[1].reading
      /\ CallSound(1) /\ UNCHANGED <<broken, pc>>
  BY Innermost DEF ReadEntry
<1>3. Len(list) \in Nat /\ DOMAIN list = 1 .. Len(list)
  BY Places
<1>4. /\ calls[1].i \in Nat /\ calls[1].num \in Nat /\ calls[1].node \in Nat
  BY <1>2, CallTypes
<1>5. calls[1].i = 0 /\ calls[1].node + calls[1].num = Len(list)
  BY <1>2 DEF CallSound
<1>6. CASE Keep(e)
  <2> DEFINE c == OneMore(calls[1], e)
  <2>1. /\ c \in Call /\ c.dir = calls[1].dir /\ c.node = calls[1].node
        /\ c.i = calls[1].i /\ c.num = calls[1].num + 1 /\ c.unread = calls[1].unread \ {e}
    BY <1>2, CallMore
  <2>2. InnerCall(c)
    BY <1>6 DEF Keep
  <2> HIDE DEF c
  <2>3. DOMAIN calls' = DOMAIN calls /\ calls'[1] = c /\ \A k \in DOMAIN calls : k # 1 => calls'[k] = calls[k]
    BY <1>2, <2>1, <2>2, CallChanged
  <2>4. list \in Seq(found) /\ list' = Append(list, e) /\ found' = found \cup {e} /\ missed' = missed
    BY <1>6 DEF Keep, TypeOK
  <2>5. /\ Len(list') = Len(list) + 1 /\ list'[Len(list) + 1] = e
        /\ \A p \in 1 .. Len(list) : list'[p] = list[p]
    BY <1>3, <2>4, Appended
  <2>6. c.node + c.i + 1 = calls[1].node + 1 /\ c.node + c.num = Len(list) + 1
    BY <1>3, <1>4, <1>5, <2>1
  <2>7. Ahead(calls[1])' = {list'[k] : k \in calls[1].node + 1 .. Len(list) + 1}
    BY <2>3, <2>6 DEF Ahead
  <2>8. Ahead(calls[1]) = {list[k] : k \in calls[1].node + 1 .. Len(list)}
    <3>1. calls[1].node + calls[1].i + 1 = calls[1].node + 1
      BY <1>4, <1>5
    <3> QED BY <1>5, <3>1 DEF Ahead
  <2>11. Ahead(calls[1])' = Ahead(calls[1]) \cup {e}
    <3>1. \A k \in calls[1].node + 1 .. Len(list) + 1 :
            k = Len(list) + 1 \/ (k \in calls[1].node + 1 .. Len(list) /\ k \in 1 .. Len(list))
      BY <1>3, <1>4
    <3>2. Len(list) + 1 \in calls[1].node + 1 .. Len(list) + 1
      BY <1>3, <1>4, <1>5
    <3>3. \A k \in calls[1].node + 1 .. Len(list) : k \in calls[1].node + 1 .. Len(list) + 1 /\ k \in 1 .. Len(list)
      BY <1>3, <1>4
    <3> QED BY <2>5, <2>7, <2>8, <3>1, <3>2, <3>3
  <2>10. ASSUME NEW k \in DOMAIN calls, k # 1 PROVE Ahead(calls[k])' = Ahead(calls[k])
    <3>1. /\ calls'[k] = calls[k] /\ CallSound(k)
          /\ calls[k].node \in Nat /\ calls[k].num \in Nat /\ calls[k].i \in Nat
      BY <2>3, <2>10, CallNumbers DEF CallsInv
    <3>2. calls[k].node + calls[k].num <= Len(list)
      BY <3>1 DEF CallSound
    <3>3. \A p \in calls[k].node + calls[k].i + 1 .. calls[k].node + calls[k].num : list'[p] = list[p]
      <4> TAKE p \in calls[k].node + calls[k].i + 1 .. calls[k].node + calls[k].num
      <4>1. p \in 1 .. Len(list)
        BY <1>3, <3>1, <3>2
      <4> QED BY <2>5, <4>1
    <3> QED BY <3>1, <3>3 DEF Ahead
  <2>12. IsAhead(e)'
    BY <1>2, <2>3, <2>11 DEF IsAhead
  <2>13. ASSUME NEW d, IsAhead(d)' PROVE IsAhead(d) \/ d = e
    BY <2>3, <2>10, <2>11, <2>13 DEF IsAhead
  <2>14. ASSUME NEW d, IsAhead(d) PROVE IsAhead(d)'
    BY <2>3, <2>10, <2>11, <2>14 DEF IsAhead
  <2>15. \A k \in DOMAIN calls : calls'[k].dir = calls[k].dir
    BY <2>1, <2>3
  <2> QED BY <1>1, <1>2, <2>1, <2>3, <2>4, <2>12, <2>13, <2>14, <2>15
<1>7. CASE Miss(e)
  <2> DEFINE c == OneMissed(calls[1], e)
  <2>1. /\ c \in Call /\ c.dir = calls[1].dir /\ c.reading = calls[1].reading /\ c.node = calls[1].node
        /\ c.i = calls[1].i /\ c.num = calls[1].num /\ c.unread = calls[1].unread \ {e}
    BY <1>2, CallMissed
  <2>2. InnerCall(c) /\ UNCHANGED <<list, found>> /\ missed' = missed \cup {e}
    BY <1>7 DEF Miss
  <2> HIDE DEF c
  <2>3. DOMAIN calls' = DOMAIN calls /\ calls'[1] = c /\ \A k \in DOMAIN calls : k # 1 => calls'[k] = calls[k]
    BY <1>2, <2>1, <2>2, CallChanged
  <2>4. \A k \in DOMAIN calls : Ahead(calls[k])' = Ahead(calls[k])
    BY <2>1, <2>2, <2>3 DEF Ahead
  <2>5. \A d : IsAhead(d)' <=> IsAhead(d)
    BY <2>3, <2>4 DEF IsAhead
  <2>6. \A k \in DOMAIN calls : calls'[k].dir = calls[k].dir
    BY <2>1, <2>3
  <2> QED BY <1>1, <1>2, <2>1, <2>2, <2>3, <2>5, <2>6
<1> QED BY <1>1, <1>6, <1>7

\* When a call is over what was ahead of the others still is.
LEMMA AheadReturn ==
  ASSUME calls \in Seq(Call), calls # <<>>, calls' = Tail(calls), UNCHANGED list
  PROVE  /\ 1 \in DOMAIN calls
         /\ \A d : IsAhead(d)' => IsAhead(d)
         /\ \A d : IsAhead(d) => IsAhead(d)' \/ d \in Ahead(calls[1])
<1>1. /\ 1 \in DOMAIN calls
      /\ \A k \in DOMAIN calls' : k + 1 \in DOMAIN calls /\ k + 1 # 1 /\ calls'[k] = calls[k + 1]
      /\ \A k \in DOMAIN calls : k # 1 => k - 1 \in DOMAIN calls' /\ calls'[k - 1] = calls[k]
  BY CallReturned
<1>2. \A d : \A k \in DOMAIN calls' : d \in Ahead(calls[k])' => d \in Ahead(calls[k + 1])
  BY <1>1 DEF Ahead
<1>3. \A d : \A k \in DOMAIN calls : k # 1 /\ d \in Ahead(calls[k]) => d \in Ahead(calls[k - 1])'
  BY <1>1 DEF Ahead
<1>4. ASSUME NEW d, IsAhead(d)' PROVE IsAhead(d)
  BY <1>1, <1>2, <1>4 DEF IsAhead
<1>5. ASSUME NEW d, IsAhead(d) PROVE IsAhead(d)' \/ d \in Ahead(calls[1])
  BY <1>1, <1>3, <1>5 DEF IsAhead
<1> QED BY <1>1, <1>4, <1>5

\* A walk leaves one entry behind.
LEMMA AheadWalk ==
  ASSUME TypeOK, CallsInv, PlaceInv, Walk
  PROVE  /\ \A d : IsAhead(d)' <=> IsAhead(d) /\ d # NextEntry
         /\ IsAhead(NextEntry)
<1>1. /\ calls \in Seq(Call) /\ calls # <<>> /\ 1 \in DOMAIN calls /\ WalkedOn \in Call
      /\ NextEntry \in Ahead(calls[1]) /\ Ahead(WalkedOn) = Ahead(calls[1]) \ {NextEntry}
      /\ \A k \in DOMAIN calls : k # 1 => NextEntry \notin Ahead(calls[k])
      /\ UNCHANGED list
  BY WalkTo
<1>2. IsAhead(NextEntry)
  BY <1>1 DEF IsAhead
<1>3. CASE InnerCall(WalkedOn)
  <2>1. /\ DOMAIN calls' = DOMAIN calls /\ calls'[1] = WalkedOn
        /\ \A k \in DOMAIN calls : k # 1 => calls'[k] = calls[k]
    BY <1>1, <1>3, CallChanged
  <2>2. Ahead(calls[1])' = Ahead(WalkedOn)
    BY <1>1, <2>1 DEF Ahead
  <2>3. \A k \in DOMAIN calls : k # 1 => Ahead(calls[k])' = Ahead(calls[k])
    BY <1>1, <2>1 DEF Ahead
  <2>4. ASSUME NEW d, IsAhead(d)' PROVE IsAhead(d) /\ d # NextEntry
    BY <1>1, <2>1, <2>2, <2>3, <2>4 DEF IsAhead
  <2>5. ASSUME NEW d, IsAhead(d), d # NextEntry PROVE IsAhead(d)'
    BY <1>1, <2>1, <2>2, <2>3, <2>5 DEF IsAhead
  <2> QED BY <1>2, <2>4, <2>5
<1>4. CASE IsDir(NextEntry) /\ calls' = <<CallOf(NextEntry)>> \o (<<WalkedOn>> \o Tail(calls))
  <2>1. CallOf(NextEntry) \in Call /\ Len(list) \in Nat
    BY <1>4, CallOfDir, Places DEF IsDir
  <2>2. /\ 1 \in DOMAIN calls' /\ 2 \in DOMAIN calls'
        /\ calls'[1] = CallOf(NextEntry) /\ calls'[2] = WalkedOn
        /\ \A k \in DOMAIN calls' : k = 1 \/ k = 2 \/ (k - 1 \in DOMAIN calls /\ k - 1 # 1 /\ calls'[k] = calls[k - 1])
        /\ \A k \in DOMAIN calls : k # 1 => k + 1 \in DOMAIN calls' /\ calls'[k + 1] = calls[k]
    BY <1>1, <1>4, <2>1, CallMade
  <2>3. Ahead(calls[1])' = {}
    <3>1. /\ calls'[1].node = Len(list) /\ calls'[1].num = 0 /\ calls'[1].i = 0
      BY <2>2 DEF CallOf, LastNode
    <3>2. \A p \in Len(list) + 0 + 1 .. Len(list) + 0 : FALSE
      BY <2>1
    <3> QED BY <3>1, <3>2 DEF Ahead
  <2>4. Ahead(calls[2])' = Ahead(WalkedOn)
    BY <1>1, <2>2 DEF Ahead
  <2>5. \A k \in DOMAIN calls' : k # 1 /\ k # 2 => Ahead(calls[k])' = Ahead(calls[k - 1])
    BY <1>1, <2>2 DEF Ahead
  <2>6. \A k \in DOMAIN calls : k # 1 => Ahead(calls[k + 1])' = Ahead(calls[k])
    BY <1>1, <2>2 DEF Ahead
  <2>7. ASSUME NEW d, IsAhead(d)' PROVE IsAhead(d) /\ d # NextEntry
    <3>1. PICK k \in DOMAIN calls' : d \in Ahead(calls[k])'
      BY <2>7 DEF IsAhead
    <3>2. CASE k = 1
      BY <2>3, <3>1, <3>2
    <3>3. CASE k = 2
      BY <1>1, <2>4, <3>1, <3>3 DEF IsAhead
    <3>4. CASE k # 1 /\ k # 2
      <4>1. k - 1 \in DOMAIN calls /\ k - 1 # 1 /\ d \in Ahead(calls[k - 1])
        BY <2>2, <2>5, <3>1, <3>4
      <4> QED BY <1>1, <4>1 DEF IsAhead
    <3> QED BY <3>2, <3>3, <3>4
  <2>8. ASSUME NEW d, IsAhead(d), d # NextEntry PROVE IsAhead(d)'
    BY <1>1, <2>2, <2>4, <2>6, <2>8 DEF IsAhead
  <2> QED BY <1>2, <2>7, <2>8
<1> QED BY <1>3, <1>4, WalkTo

-----------------------------------------------------------------------------
(* A directory is scanned once, and completely.                            *)

Fresh(d) == d \notin found \/ IsAhead(d)

LEMMA StepFresh ==
  ASSUME TypeOK, CallsInv, FreshInv, PlaceInv, [Next]_vars
  PROVE  FreshInv'
<1>0. \A d \in DOMAIN Content \ {Root} :
        Fresh(d) => Content[d] \cap found = {} /\ \A k \in DOMAIN calls : calls[k].dir # d
  BY DEF FreshInv, Fresh
<1>1. ASSUME Start PROVE FreshInv'
  <2>1. found' = {} /\ DOMAIN calls' = {1} /\ calls'[1].dir = Root
    BY <1>1 DEF Start, PlaceInv, CallOf
  <2> QED BY <2>1 DEF FreshInv
<1>2. ASSUME ReadEntry PROVE FreshInv'
  <2>1. PICK e \in calls[1].unread :
          /\ e \in Entries /\ e \notin found /\ e \in Content[calls[1].dir] /\ 1 \in DOMAIN calls
          /\ \/ found' = found \cup {e} /\ missed' = missed /\ IsAhead(e)'
             \/ found' = found /\ missed' = missed \cup {e}
          /\ \A d : IsAhead(d)' => IsAhead(d) \/ d = e
          /\ DOMAIN calls' = DOMAIN calls
          /\ \A k \in DOMAIN calls : calls'[k].dir = calls[k].dir
    BY <1>2, AheadRead
  <2>2. calls[1].dir \in DOMAIN Content
    BY <2>1, CallNumbers
  <2>3. ASSUME NEW d \in DOMAIN Content \ {Root}, d \notin found' \/ IsAhead(d)'
        PROVE  Content[d] \cap found' = {} /\ \A k \in DOMAIN calls' : calls'[k].dir # d
    <3>1. Fresh(d)
      BY <2>1, <2>3 DEF Fresh
    <3>2. Content[d] \cap found = {} /\ \A k \in DOMAIN calls : calls[k].dir # d
      BY <1>0, <3>1
    <3>3. e \notin Content[d]
      BY <2>1, <2>2, <3>2, OneParent
    <3> QED BY <2>1, <3>2, <3>3
  <2> QED BY <2>3 DEF FreshInv
<1>3. ASSUME EndOfDir PROVE FreshInv'
  <2> DEFINE c == [calls[1] EXCEPT !.reading = FALSE]
  <2>1. /\ calls \in Seq(Call) /\ calls # <<>> /\ calls[1] \in Call /\ 1 \in DOMAIN calls /\ UNCHANGED <<list, found>>
    BY <1>3, Innermost DEF EndOfDir
  <2>2. /\ c \in Call /\ c.dir = calls[1].dir /\ c.node = calls[1].node
        /\ c.i = calls[1].i /\ c.num = calls[1].num
    BY <2>1, CallWalking
  <2>3. InnerCall(c)
    BY <1>3 DEF EndOfDir
  <2> HIDE DEF c
  <2>4. /\ DOMAIN calls' = DOMAIN calls /\ calls'[1] = c
        /\ \A k \in DOMAIN calls : k # 1 => calls'[k] = calls[k]
    BY <2>1, <2>2, <2>3, CallChanged
  <2>5. \A k \in DOMAIN calls : Ahead(calls[k])' = Ahead(calls[k])
    BY <2>1, <2>2, <2>4 DEF Ahead
  <2>6. \A d : IsAhead(d)' => IsAhead(d)
    BY <2>4, <2>5 DEF IsAhead
  <2>7. \A k \in DOMAIN calls : calls'[k].dir = calls[k].dir
    BY <2>2, <2>4
  <2> QED BY <2>1, <2>4, <2>6, <2>7 DEF FreshInv
<1>4. ASSUME ReadFails \/ Return PROVE FreshInv'
  <2>1. calls \in Seq(Call) /\ calls # <<>> /\ calls' = Tail(calls) /\ UNCHANGED <<list, found>>
    BY <1>4, Innermost DEF ReadFails, Return
  <2>2. \A d : IsAhead(d)' => IsAhead(d)
    BY <2>1, AheadReturn
  <2>3. \A k \in DOMAIN calls' : k + 1 \in DOMAIN calls /\ calls'[k] = calls[k + 1]
    BY <2>1, CallReturned
  <2>4. ASSUME NEW d \in DOMAIN Content \ {Root}, d \notin found' \/ IsAhead(d)'
        PROVE  Content[d] \cap found' = {} /\ \A k \in DOMAIN calls' : calls'[k].dir # d
    <3>1. Fresh(d)
      BY <2>1, <2>2, <2>4 DEF Fresh
    <3> QED BY <1>0, <2>1, <2>3, <3>1
  <2> QED BY <2>4 DEF FreshInv
<1>5. ASSUME Walk PROVE FreshInv'
  <2>1. /\ \A d : IsAhead(d)' <=> IsAhead(d) /\ d # NextEntry
        /\ UNCHANGED <<list, found>> /\ NextEntry \in found
    BY <1>5, AheadWalk, WalkTo
  <2>2. \A k \in DOMAIN calls' : calls'[k].dir = NextEntry \/ \E l \in DOMAIN calls : calls'[k].dir = calls[l].dir
    <3>1. /\ calls \in Seq(Call) /\ calls # <<>> /\ WalkedOn \in Call /\ WalkedOn.dir = calls[1].dir
          /\ 1 \in DOMAIN calls
      BY <1>5, WalkTo
    <3>2. CASE InnerCall(WalkedOn)
      <4>1. /\ DOMAIN calls' = DOMAIN calls /\ calls'[1] = WalkedOn
            /\ \A k \in DOMAIN calls : k # 1 => calls'[k] = calls[k]
        BY <3>1, <3>2, CallChanged
      <4> QED BY <3>1, <4>1
    <3>3. CASE IsDir(NextEntry) /\ calls' = <<CallOf(NextEntry)>> \o (<<WalkedOn>> \o Tail(calls))
      <4>1. CallOf(NextEntry) \in Call /\ CallOf(NextEntry).dir = NextEntry
        BY <3>3, CallOfDir DEF IsDir, CallOf
      <4>2. /\ calls'[1] = CallOf(NextEntry) /\ calls'[2] = WalkedOn
            /\ \A k \in DOMAIN calls' : k = 1 \/ k = 2 \/ (k - 1 \in DOMAIN calls /\ calls'[k] = calls[k - 1])
        BY <3>1, <3>3, <4>1, CallMade
      <4> QED BY <3>1, <4>1, <4>2
    <3> QED BY <1>5, <3>2, <3>3, WalkTo
  <2>3. ASSUME NEW d \in DOMAIN Content \ {Root}, d \notin found' \/ IsAhead(d)'
        PROVE  Content[d] \cap found' = {} /\ \A k \in DOMAIN calls' : calls'[k].dir # d
    <3>1. Fresh(d) /\ d # NextEntry
      BY <2>1, <2>3 DEF Fresh
    <3> QED BY <1>0, <2>1, <2>2, <3>1
  <2> QED BY <2>3 DEF FreshInv
<1>6. ASSUME pc # "scan", UNCHANGED calls, UNCHANGED found PROVE FreshInv'
  <2>1. DOMAIN calls = {} /\ DOMAIN calls' = {}
    BY <1>6 DEF PlaceInv
  <2> QED BY <1>6, <2>1 DEF FreshInv, IsAhead
<1>7. ASSUME UNCHANGED vars PROVE FreshInv'
  BY <1>7 DEF vars, FreshInv, IsAhead, Ahead
<1>8. \/ Start \/ ReadEntry \/ EndOfDir \/ ReadFails \/ Return \/ Walk
      \/ (pc # "scan" /\ UNCHANGED calls /\ UNCHANGED found) \/ UNCHANGED vars
  BY DEF Next, StartFails, Hash, OrderFails, Order, PrintList, Free, Terminated
<1> QED BY <1>1, <1>2, <1>3, <1>4, <1>5, <1>6, <1>7, <1>8

\* Where the scan of a directory stands.
Scanned(d) ==
  \/ IsAhead(d)
  \/ \E k \in DOMAIN calls : calls[k].dir = d /\ Content[d] \subseteq found \cup missed \cup calls[k].unread
  \/ Content[d] \subseteq found \cup missed

LEMMA StepScan ==
  ASSUME TypeOK, CallsInv, FreshInv, ScanInv, PlaceInv, [Next]_vars
  PROVE  ScanInv'
<1>0. ASSUME pc = "scan", NEW d \in DOMAIN Content \ broken, Reached(d) PROVE Scanned(d)
  BY <1>0 DEF ScanInv, Scanned
<1>00. ASSUME \A d \in DOMAIN Content \ broken' : Reached(d)' => Scanned(d)' PROVE ScanInv'
  BY <1>00 DEF ScanInv, Scanned
<1>1. ASSUME Start PROVE ScanInv'
  <2>1. found' = {} /\ DOMAIN calls' = {1} /\ calls'[1] = CallOf(Root)
    BY <1>1 DEF Start, PlaceInv
  <2>2. calls'[1].dir = Root /\ calls'[1].unread = Content[Root]
    BY <2>1 DEF CallOf
  <2>3. ASSUME NEW d \in DOMAIN Content \ broken', Reached(d)' PROVE Scanned(d)'
    <3>1. d = Root
      BY <2>1, <2>3 DEF Reached
    <3> QED BY <2>1, <2>2, <3>1 DEF Scanned
  <2> QED BY <2>3, <1>00
<1>2. ASSUME ReadEntry PROVE ScanInv'
  <2>1. PICK e \in calls[1].unread :
          /\ e \in Entries /\ e \notin found /\ e \in Content[calls[1].dir] /\ 1 \in DOMAIN calls
          /\ \/ found' = found \cup {e} /\ missed' = missed /\ IsAhead(e)'
             \/ found' = found /\ missed' = missed \cup {e}
          /\ \A d : IsAhead(d) => IsAhead(d)'
          /\ DOMAIN calls' = DOMAIN calls
          /\ \A k \in DOMAIN calls : calls'[k].dir = calls[k].dir
          /\ calls'[1].unread = calls[1].unread \ {e}
          /\ \A k \in DOMAIN calls : k # 1 => calls'[k].unread = calls[k].unread
          /\ UNCHANGED <<broken, pc>>
    BY <1>2, AheadRead
  <2>2. \A k \in DOMAIN calls : found \cup missed \cup calls[k].unread \subseteq found' \cup missed' \cup calls'[k].unread
    BY <2>1
  <2>3. ASSUME NEW d \in DOMAIN Content \ broken', Reached(d)' PROVE Scanned(d)'
    <3>1. CASE Reached(d)
      <4>1. Scanned(d)
        BY <1>0, <1>2, <2>1, <3>1 DEF ReadEntry
      <4>2. CASE IsAhead(d)
        BY <2>1, <4>2 DEF Scanned
      <4>3. CASE \E k \in DOMAIN calls : calls[k].dir = d /\ Content[d] \subseteq found \cup missed \cup calls[k].unread
        BY <2>1, <2>2, <4>3 DEF Scanned
      <4>4. CASE Content[d] \subseteq found \cup missed
        <5>1. Content[d] \subseteq found' \cup missed'
          BY <2>1, <4>4
        <5> QED BY <5>1 DEF Scanned
      <4> QED BY <4>1, <4>2, <4>3, <4>4 DEF Scanned
    <3>2. CASE ~Reached(d)
      <4>1. d = e /\ IsAhead(e)'
        BY <2>1, <2>3, <3>2 DEF Reached
      <4> QED BY <4>1 DEF Scanned
    <3> QED BY <3>1, <3>2
  <2> QED BY <2>3, <1>00
<1>3. ASSUME EndOfDir PROVE ScanInv'
  <2> DEFINE c == [calls[1] EXCEPT !.reading = FALSE]
  <2>1. /\ calls \in Seq(Call) /\ calls # <<>> /\ calls[1] \in Call /\ 1 \in DOMAIN calls
        /\ UNCHANGED <<list, found, missed, broken, pc>> /\ pc = "scan"
    BY <1>3, Innermost DEF EndOfDir
  <2>2. /\ c \in Call /\ c.dir = calls[1].dir /\ c.node = calls[1].node
        /\ c.i = calls[1].i /\ c.num = calls[1].num /\ c.unread = calls[1].unread
    BY <2>1, CallWalking
  <2>3. InnerCall(c)
    BY <1>3 DEF EndOfDir
  <2> HIDE DEF c
  <2>4. /\ DOMAIN calls' = DOMAIN calls /\ calls'[1] = c
        /\ \A k \in DOMAIN calls : k # 1 => calls'[k] = calls[k]
    BY <2>1, <2>2, <2>3, CallChanged
  <2>5. \A k \in DOMAIN calls : Ahead(calls[k])' = Ahead(calls[k])
    BY <2>1, <2>2, <2>4 DEF Ahead
  <2>6. \A d : IsAhead(d) => IsAhead(d)'
    BY <2>4, <2>5 DEF IsAhead
  <2>7. \A k \in DOMAIN calls : calls'[k].dir = calls[k].dir /\ calls'[k].unread = calls[k].unread
    BY <2>2, <2>4
  <2>8. ASSUME NEW d \in DOMAIN Content \ broken', Reached(d)' PROVE Scanned(d)'
    <3>1. Scanned(d)
      BY <1>0, <2>1, <2>8 DEF Reached
    <3> QED BY <2>1, <2>4, <2>6, <2>7, <3>1 DEF Scanned
  <2> QED BY <2>8, <1>00
<1>4. ASSUME ReadFails \/ Return PROVE ScanInv'
  <2>1. /\ calls \in Seq(Call) /\ calls # <<>> /\ calls' = Tail(calls) /\ UNCHANGED <<list, found, missed>>
        /\ pc = "scan" /\ CallSound(1) /\ calls[1] \in Call /\ 1 \in DOMAIN calls
    BY <1>4, Innermost DEF ReadFails, Return
  <2>2. /\ calls[1].dir \in DOMAIN Content /\ calls[1].node \in Nat /\ calls[1].num \in Nat /\ calls[1].i \in Nat
        /\ calls[1].reading \in BOOLEAN
    BY <2>1, CallTypes
  <2>3. \A d : IsAhead(d) => IsAhead(d)' \/ d \in Ahead(calls[1])
    BY <2>1, AheadReturn
  <2>4. \A k \in DOMAIN calls : k # 1 => k - 1 \in DOMAIN calls' /\ calls'[k - 1] = calls[k]
    BY <2>1, CallReturned
  <2>5. broken \subseteq broken' /\ \A x : x \in broken' => x \in broken \/ x = calls[1].dir
    BY <1>4 DEF ReadFails, Return
  <2>6. ASSUME NEW d \in DOMAIN Content \ broken', Reached(d)' PROVE d \notin Ahead(calls[1])
    <3>1. CASE ReadFails
      <4>1. calls[1].dir \in broken'
        BY <3>1 DEF ReadFails
      <4>2. ASSUME d \in Ahead(calls[1]) PROVE FALSE
        <5>1. PICK p \in calls[1].node + calls[1].i + 1 .. calls[1].node + calls[1].num : d = list[p]
          BY <4>2 DEF Ahead
        <5>2. p \in calls[1].node + 1 .. calls[1].node + calls[1].num /\ p \in 1 .. Len(list)
          BY <2>1, <2>2, <5>1, Places DEF CallSound
        <5>3. d \in Content[calls[1].dir] /\ d \in found
          BY <2>1, <5>1, <5>2, Places DEF CallSound
        <5>4. d # Root
          BY <5>3, DirListAssumption DEF TypeOK
        <5>5. PICK x \in DOMAIN Content \ broken' : d \in Content[x]
          BY <2>6, <5>4 DEF Reached
        <5>6. x = calls[1].dir
          BY <2>2, <5>3, <5>5, OneParent
        <5> QED BY <4>1, <5>5, <5>6
      <4> QED BY <4>2
    <3>2. CASE Return
      <4>1. ~(calls[1].i < calls[1].num)
        BY <3>2 DEF Return, More
      <4>2. \A p \in calls[1].node + calls[1].i + 1 .. calls[1].node + calls[1].num : FALSE
        BY <2>2, <4>1
      <4> QED BY <4>2 DEF Ahead
    <3> QED BY <1>4, <3>1, <3>2
  <2>7. ASSUME NEW d \in DOMAIN Content \ broken', Reached(d)' PROVE Scanned(d)'
    <3>1. Scanned(d)
      BY <1>0, <2>1, <2>5, <2>7 DEF Reached
    <3>2. CASE IsAhead(d)
      BY <2>3, <2>6, <2>7, <3>2 DEF Scanned
    <3>3. ASSUME NEW k \in DOMAIN calls, calls[k].dir = d, Content[d] \subseteq found \cup missed \cup calls[k].unread
          PROVE Scanned(d)'
      <4>1. CASE k = 1
        <5>1. CASE ReadFails
          BY <2>7, <3>3, <4>1, <5>1 DEF ReadFails
        <5>2. CASE Return
          <6>1. calls[1].unread = {}
            BY <2>1, <5>2 DEF Return, CallSound
          <6> QED BY <2>1, <3>3, <4>1, <6>1 DEF Scanned
        <5> QED BY <1>4, <5>1, <5>2
      <4>2. CASE k # 1
        BY <2>1, <2>4, <3>3, <4>2 DEF Scanned
      <4> QED BY <4>1, <4>2
    <3>4. CASE Content[d] \subseteq found \cup missed
      BY <2>1, <3>4 DEF Scanned
    <3> QED BY <3>1, <3>2, <3>3, <3>4 DEF Scanned
  <2> QED BY <2>7, <1>00
<1>5. ASSUME Walk PROVE ScanInv'
  <2>1. /\ \A d : IsAhead(d)' <=> IsAhead(d) /\ d # NextEntry
        /\ UNCHANGED <<list, found, missed, pc>> /\ pc = "scan"
    BY <1>5, AheadWalk, WalkTo DEF Walk
  <2>2. /\ calls \in Seq(Call) /\ calls # <<>> /\ WalkedOn \in Call /\ WalkedOn.dir = calls[1].dir
        /\ WalkedOn.unread = calls[1].unread /\ 1 \in DOMAIN calls
    BY <1>5, WalkTo
  <2>3. broken \subseteq broken'
    BY <1>5 DEF Walk
  <2>4. ASSUME NEW k \in DOMAIN calls
        PROVE  \E l \in DOMAIN calls' : calls'[l].dir = calls[k].dir /\ calls'[l].unread = calls[k].unread
    <3>1. CASE InnerCall(WalkedOn)
      <4>1. /\ DOMAIN calls' = DOMAIN calls /\ calls'[1] = WalkedOn
            /\ \A q \in DOMAIN calls : q # 1 => calls'[q] = calls[q]
        BY <2>2, <3>1, CallChanged
      <4>2. calls'[k].dir = calls[k].dir /\ calls'[k].unread = calls[k].unread
        BY <2>2, <4>1
      <4> QED BY <4>1, <4>2
    <3>2. CASE IsDir(NextEntry) /\ calls' = <<CallOf(NextEntry)>> \o (<<WalkedOn>> \o Tail(calls))
      <4>1. CallOf(NextEntry) \in Call
        BY <3>2, CallOfDir DEF IsDir
      <4>2. /\ 2 \in DOMAIN calls' /\ calls'[2] = WalkedOn
            /\ \A q \in DOMAIN calls : q # 1 => q + 1 \in DOMAIN calls' /\ calls'[q + 1] = calls[q]
        BY <2>2, <3>2, <4>1, CallMade
      <4> QED BY <2>2, <4>2
    <3> QED BY <1>5, <3>1, <3>2, WalkTo
  <2>5. ASSUME NEW d \in DOMAIN Content \ broken', Reached(d)' PROVE Scanned(d)'
    <3>1. Scanned(d)
      BY <1>0, <2>1, <2>3, <2>5 DEF Reached
    <3>2. CASE IsAhead(d) /\ d # NextEntry
      BY <2>1, <3>2 DEF Scanned
    <3>3. CASE d = NextEntry
      <4>1. IsDir(NextEntry) /\ calls' = <<CallOf(NextEntry)>> \o (<<WalkedOn>> \o Tail(calls))
        BY <1>5, <2>5, <3>3, WalkTo DEF IsDir
      <4>2. CallOf(NextEntry) \in Call
        BY <4>1, CallOfDir DEF IsDir
      <4>3. 1 \in DOMAIN calls' /\ calls'[1] = CallOf(NextEntry)
        BY <2>2, <4>1, <4>2, CallMade
      <4>4. calls'[1].dir = d /\ calls'[1].unread = Content[d]
        BY <3>3, <4>3 DEF CallOf
      <4> QED BY <4>3, <4>4 DEF Scanned
    <3>4. ASSUME NEW k \in DOMAIN calls, calls[k].dir = d, Content[d] \subseteq found \cup missed \cup calls[k].unread
          PROVE Scanned(d)'
      BY <2>1, <2>4, <3>4 DEF Scanned
    <3>5. CASE Content[d] \subseteq found \cup missed
      BY <2>1, <3>5 DEF Scanned
    <3> QED BY <3>1, <3>2, <3>3, <3>4, <3>5 DEF Scanned
  <2> QED BY <2>5, <1>00
<1>6. ASSUME pc' \notin {"scan", "scanned"} PROVE ScanInv'
  BY <1>6 DEF ScanInv
<1>7. ASSUME UNCHANGED vars PROVE ScanInv'
  BY <1>7 DEF vars, ScanInv, Reached, IsAhead, Ahead
<1>8. \/ Start \/ ReadEntry \/ EndOfDir \/ ReadFails \/ Return \/ Walk
      \/ pc' \notin {"scan", "scanned"} \/ UNCHANGED vars
  BY DEF Next, StartFails, Hash, OrderFails, Order, PrintList, Free, Terminated
<1> QED BY <1>1, <1>2, <1>3, <1>4, <1>5, <1>6, <1>7, <1>8

-----------------------------------------------------------------------------
(* The theorems.                                                           *)

LEMMA InitDirInv == Init => DirInv
<1> SUFFICES ASSUME Init PROVE DirInv
  OBVIOUS
<1>1. /\ noDirs \in BOOLEAN /\ list = <<>> /\ calls = <<>> /\ found = {} /\ missed = {} /\ broken = {}
      /\ hashes = 0 /\ pc = "start" /\ printed = <<>> /\ freed = <<>>
  BY DEF Init
<1>2. /\ <<>> \in Seq(found) /\ <<>> \in Seq(Call) /\ IsInjective(<<>>) /\ Range(<<>>) = {} /\ DOMAIN <<>> = {}
  BY EmptySeq DEF IsInjective, Range
<1>3. 0 \in 0 .. Cardinality(Regular)
  <2>1. IsFiniteSet(Regular)
    BY DirListAssumption, FS_Subset
  <2> QED BY <2>1, FS_CardinalityType
<1>4. TypeOK
  BY <1>1, <1>2, <1>3 DEF TypeOK
<1>5. CallsInv /\ FreshInv
  BY <1>1, <1>2 DEF CallsInv, FreshInv
<1>6. ScanInv /\ PlaceInv /\ AllPrinted
  BY <1>1 DEF ScanInv, PlaceInv, AllPrinted
<1>7. ListInv
  BY <1>1, <1>2 DEF ListInv, InOrder
<1> QED BY <1>4, <1>5, <1>6, <1>7 DEF DirInv

LEMMA StepDirInv == DirInv /\ [Next]_vars => DirInv'
<1> SUFFICES ASSUME DirInv, [Next]_vars PROVE DirInv'
  OBVIOUS
<1>1. TypeOK /\ CallsInv /\ FreshInv /\ ScanInv /\ ListInv /\ PlaceInv /\ AllPrinted
  BY DEF DirInv
<1>2. TypeOK'
  BY <1>1, StepTypes
<1>3. CallsInv'
  BY <1>1, <1>2, StepCalls
<1>4. FreshInv' /\ ScanInv'
  BY <1>1, StepFresh, StepScan
<1>5. ListInv' /\ PlaceInv' /\ AllPrinted'
  BY <1>1, StepList, StepPlace, StepPrinted
<1> QED BY <1>2, <1>3, <1>4, <1>5 DEF DirInv

\* What is known of the list, the calls and the output always holds.
THEOREM ScanInvariant == Spec => []DirInv
BY InitDirInv, StepDirInv, PTL DEF Spec

\* Every variable holds a value of its kind, and no entry is twice on the list.
THEOREM ListTypes == Spec => []TypeOK
<1>1. DirInv => TypeOK
  BY DEF DirInv
<1> QED BY <1>1, ScanInvariant, PTL

\* A scan that returns no error has found all there is below the directory, but
\* for what stat refused and for directories that could not be read.
THEOREM ScanFindsAll == Spec => []ScanComplete
<1>1. DirInv => ScanComplete
  <2> SUFFICES ASSUME DirInv, pc = "scanned",
                      NEW d \in ({Root} \cup {e \in found : IsDir(e)}) \ broken,
                      d = Root \/ (\E c \in DOMAIN Content \ broken : d \in Content[c])
               PROVE  Content[d] \subseteq found \cup missed
    BY DEF ScanComplete
  <2>1. DOMAIN calls = {}
    BY DEF DirInv, PlaceInv
  <2>2. d \in DOMAIN Content \ broken /\ Reached(d)
    BY DirListAssumption DEF IsDir, Reached
  <2> QED BY <2>1, <2>2 DEF DirInv, ScanInv, IsAhead
<1> QED BY <1>1, ScanInvariant, PTL

\* A directory is printed before everything it holds.
THEOREM DirsComeFirst == Spec => []DirFirst
<1>1. DirInv => DirFirst
  BY DEF DirInv, ListInv, InOrder, DirFirst
<1> QED BY <1>1, ScanInvariant, PTL

\* What is printed is every file once, and, unless directories are not wanted,
\* every other entry once.
THEOREM AllArePrinted == Spec => []AllPrinted
<1>1. DirInv => AllPrinted
  BY DEF DirInv
<1> QED BY <1>1, ScanInvariant, PTL

\* Every entry that was on the list is freed in the end, and none twice.
THEOREM AllFreedOnce == Spec => []FreedOnce
<1>1. DirInv => FreedOnce
  <2> SUFFICES ASSUME DirInv PROVE FreedOnce
    OBVIOUS
  <2>1. IsInjective(freed) /\ Range(list) \cup Range(freed) = found /\ (pc = "over" => list = <<>>)
    BY DEF DirInv, ListInv, PlaceInv
  <2>2. Range(<<>>) = {}
    BY DEF Range
  <2> QED BY <2>1, <2>2 DEF FreedOnce
<1> QED BY <1>1, ScanInvariant, PTL
=============================================================================
