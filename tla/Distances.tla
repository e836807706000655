------------------------------ MODULE Distances -----------------------------
(***************************************************************************)
(* The distances of all pairs of hashes (binsort.c: binsort_gendistances,  *)
(* binsort_worker_calcdist): the main thread cuts the rows of the triangle *)
(* below the diagonal into parts of about the same area and sends each to  *)
(* a worker; the workers write every distance to both of its places in the *)
(* array, at the same time and without a lock.                             *)
(***************************************************************************)
EXTENDS Integers, FiniteSets

CONSTANTS
  HashCounts,       \* the values of b_NumHashes to look at
  WorkerCounts,     \* the values of b_NumWorkers to look at
  HashesPerWorker,  \* 10 in the code
  Chunk             \* after how many distances progress is noted, 262144 in the code

ASSUME DistancesAssumption ==
  /\ HashCounts \subseteq Nat \ (0 .. 2)
  /\ WorkerCounts \subseteq Nat \ {0}
  /\ HashesPerWorker \in Nat \ {0, 1}  \* with 1 a part could be empty
  /\ Chunk \in Nat \ {0}

VARIABLES
  num,         \* b_NumHashes
  numworkers,  \* the number of parts
  y, i, i0,    \* the loop that sends them: row, parts sent, the next part's first row
  parts,       \* the messages: hm_FirstIndex and hm_LastIndex of each part
  row, col,    \* where the worker of each part is: y and x
  noted,       \* how many distances it has counted, i
  cells,       \* the places of b_Distances that are written
  left,        \* b_DistancesLeft
  replied      \* the parts whose messages have come back

vars == <<num, numworkers, y, i, i0, parts, row, col, noted, cells, left, replied>>

Parts == 0 .. numworkers - 1

\* floor(sqrt(n)), which is exact for the values in question.
Root(n) == CHOOSE r \in 0 .. n : r * r <= n /\ (r + 1) * (r + 1) > n

\* No more workers than there is work for.
UnclampedWorkers(hashes, workers) == workers
ClampedWorkers(hashes, workers) ==
  LET most == hashes \div HashesPerWorker
  IN  IF most >= workers THEN workers ELSE IF most < 1 THEN 1 ELSE most

\* The last row of part k.
LastRowPastEnd(k) ==
  IF k < numworkers - 1
    THEN Root((k + 1) * ((num * num) \div numworkers)) - 1
    ELSE num
LastRow(k) ==
  IF k < numworkers - 1
    THEN Root((k + 1) * ((num * num) \div numworkers)) - 1
    ELSE num - 1

\* The first row of the part behind part k.
RowAgain(k) == LastRow(k)
RowBehind(k) == LastRow(k) + 1

Init ==
  /\ num \in HashCounts
  /\ \E workers \in WorkerCounts : numworkers = ClampedWorkers(num, workers)
  /\ y = 0 /\ i = 0 /\ i0 = 0
  /\ parts = [k \in Parts |-> [first |-> -1, last |-> -1]]
  /\ row = [k \in Parts |-> 0]
  /\ col = [k \in Parts |-> 0]
  /\ noted = [k \in Parts |-> 0]
  /\ cells = {}
  /\ left = ((num - 1) * (num - 1)) \div 2
  /\ replied = {}

\* The loop over the rows: a part is sent when its first row is reached.
SendPart ==
  /\ y < num /\ y = i0
  /\ parts' = [parts EXCEPT ![i] = [first |-> i0, last |-> LastRow(i)]]
  /\ row' = [row EXCEPT ![i] = i0]
  /\ i0' = RowBehind(i)
  /\ i' = i + 1
  /\ y' = y + 1
  /\ UNCHANGED <<num, numworkers, col, noted, cells, left, replied>>

PassRow ==
  /\ y < num /\ y # i0
  /\ y' = y + 1
  /\ UNCHANGED <<num, numworkers, i, i0, parts, row, col, noted, cells, left, replied>>

Sent(k) == parts[k].first >= 0

\* The columns of a row, x < y: every pair once and no diagonal.
InRow(x, r) == x < r

WriteDistance(k) ==
  /\ Sent(k) /\ row[k] <= parts[k].last
  /\ InRow(col[k], row[k])
  /\ cells' = cells \cup {<<col[k], row[k]>>, <<row[k], col[k]>>}
  /\ noted' = [noted EXCEPT ![k] = @ + 1]
  /\ left' = IF (noted[k] + 1) % Chunk = 0 THEN left - Chunk ELSE left
  /\ col' = [col EXCEPT ![k] = @ + 1]
  /\ UNCHANGED <<num, numworkers, y, i, i0, parts, row, replied>>

NextRow(k) ==
  /\ Sent(k) /\ row[k] <= parts[k].last
  /\ ~InRow(col[k], row[k])
  /\ row' = [row EXCEPT ![k] = @ + 1]
  /\ col' = [col EXCEPT ![k] = 0]
  /\ UNCHANGED <<num, numworkers, y, i, i0, parts, noted, cells, left, replied>>

Reply(k) ==
  /\ Sent(k) /\ row[k] > parts[k].last
  /\ k \notin replied
  /\ replied' = replied \cup {k}
  /\ UNCHANGED <<num, numworkers, y, i, i0, parts, row, col, noted, cells, left>>

\* The main thread has numworkers answers.
Over == y = num /\ replied = Parts

Terminated == Over /\ UNCHANGED vars

Next ==
  \/ SendPart \/ PassRow
  \/ \E k \in Parts : WriteDistance(k) \/ NextRow(k) \/ Reply(k)
  \/ Terminated

Spec == Init /\ [][Next]_vars

\* Neither the main thread nor a worker stops, once it has its message.
FairSpec == Spec /\ WF_vars(Next)

-----------------------------------------------------------------------------
(* Properties.                                                             *)

\* Every variable holds a value of its kind, and the array is big enough.
TypeOK ==
  /\ num \in HashCounts /\ numworkers \in Nat \ {0}
  /\ y \in 0 .. num /\ i \in 0 .. numworkers /\ i0 \in 0 .. num
  /\ parts \in [Parts -> [first : -1 .. num - 1, last : -1 .. num - 1]]
  /\ row \in [Parts -> 0 .. num] /\ col \in [Parts -> 0 .. num]
  /\ noted \in [Parts -> Nat]
  /\ cells \subseteq (0 .. num - 1) \X (0 .. num - 1)
  /\ left \in Int
  /\ replied \subseteq Parts

\* No distance is written twice, so that no two workers race for a place: every
\* one that a worker counts fills two places that were not written before; and
\* when all answers are in, every distance between two hashes is there.  The
\* diagonal, which getdist and getdelta never read, is not.
WrittenOnce ==
  /\ [][noted' # noted => Cardinality(cells') = Cardinality(cells) + 2]_vars
  /\ [](Over => cells = {c \in (0 .. num - 1) \X (0 .. num - 1) : c[1] # c[2]})

\* As many parts are sent as answers are awaited: the wait at the end of
\* binsort_gendistances (binsort.c:449-460) ends.
AllAnswered == <>Over
=============================================================================
