------------------------------ MODULE HashFile ------------------------------
(***************************************************************************)
(* A worker hashes a file (binsort.c: binsort_worker_hash; simhash.c:      *)
(* simhash_file, hash_file, running_crc, crc_insert, get_hashinfo).  The   *)
(* last bytes of the file are in a ring; with each byte the checksum of    *)
(* those it holds, a shingle, is offered to the heap and the table of      *)
(* Simhash; in the end what they keep is copied to the entry of the file.  *)
(* Any allocation may fail, and the file may end anywhere.                 *)
(*                                                                         *)
(* The checksum is any function of a shingle.                              *)
(***************************************************************************)
EXTENDS Simhash

CONSTANTS
  NumShingle,  \* SIMHASH_NSHINGLE, 8 in the code
  Bytes,       \* the bytes of files
  NoByte,      \* what is in the ring before the file is
  Crc          \* the checksum of a shingle

Shingles == [1 .. NumShingle -> Bytes]
Ring == 0 .. NumShingle - 1

ASSUME HashFileAssumption ==
  /\ NumShingle \in Nat \ {0}
  /\ NoByte \notin Bytes
  /\ Crc \in [Shingles -> Checksums]

VARIABLES
  pc,         \* what comes next
  allocated,  \* what has been allocated or opened and not been freed
  buf,        \* the ring
  i,          \* the place of the next byte in it
  heap,       \* heap[0] .. heap[nheap - 1], as a sequence
  table,      \* the slots of hash: a checksum where occ is FULL, or else occ
  feature,    \* the features of the struct simhash
  node,       \* those of den_HashNode, <<>> while that is NULL
  error,      \* den_Error
  text,       \* the last bytes that have been read, and
  seen        \* the checksums of all shingles; these are not kept by the code

vars == <<pc, allocated, buf, i, heap, table, feature, node, error, text, seen>>

readVars == <<buf, i, text>>
keptVars == <<heap, table, seen>>
resultVars == <<feature, node, error>>

Init ==
  /\ pc = "open"
  /\ allocated = {}
  /\ buf = [k \in Ring |-> NoByte]
  /\ i = 0
  /\ heap = <<>>
  /\ table = EmptyTable
  /\ feature = <<>>
  /\ node = <<>>
  /\ error = "FILE_OPEN"
  /\ text = <<>>
  /\ seen = {}

-----------------------------------------------------------------------------
(* Allocations, in their order, and what is freed when one fails.          *)

\* simhash_global_free: the arrays that there are, and then the struct.
FreedButOcc == {"heap", "hash", "global"}
FreedGlobal == {"heap", "occ", "hash", "global"}

\* No hash: hash_file frees the ring, simhash_file the rest, and the file is
\* closed.
GiveUp ==
  /\ allocated' = allocated \ ({"buf", "file"} \cup FreedGlobal)
  /\ pc' = "done"

Open ==
  /\ pc = "open"
  /\ \/ /\ allocated' = {"file"}
        /\ error' = "HASHING"
        /\ pc' = "global"
     \/ pc' = "done" /\ UNCHANGED <<allocated, error>>
  /\ UNCHANGED <<readVars, keptVars, feature, node>>

\* One allocation after another.
Allocate(at, what, next) ==
  /\ pc = at
  /\ \/ allocated' = allocated \cup {what} /\ pc' = next
     \/ GiveUp
  /\ UNCHANGED <<readVars, keptVars, resultVars>>

AllocGlobal == Allocate("global", "global", "buf")
AllocBuf == Allocate("buf", "buf", "heap")
HeapReset == Allocate("heap", "heap", "table")

\* hash_alloc tries both arrays before it looks at either.
HashReset ==
  /\ pc = "table"
  /\ \E got \in SUBSET {"hash", "occ"} :
       IF got = {"hash", "occ"}
         THEN allocated' = allocated \cup got /\ pc' = "fill"
         ELSE allocated' = (allocated \cup got) \ ({"buf", "file"} \cup FreedGlobal) /\ pc' = "done"
  /\ UNCHANGED <<readVars, keptVars, resultVars>>

-----------------------------------------------------------------------------
(* running_crc.                                                            *)

\* The ring from the next place on, which holds the oldest byte.
FromPlaceZero == [k \in 1 .. NumShingle |-> buf[k - 1]]
Shingle == [k \in 1 .. NumShingle |-> buf[(i + k - 1) % NumShingle]]

Put(byte) ==
  /\ buf' = [buf EXCEPT ![i] = byte]
  /\ i' = (i + 1) % NumShingle
  /\ text' = IF Len(text) = NumShingle THEN Append(Tail(text), byte) ELSE Append(text, byte)

\* The first shingle.
Fill ==
  /\ pc = "fill"
  /\ \E byte \in Bytes : Put(byte)
  /\ pc' = IF i = NumShingle - 1 THEN "insert" ELSE "fill"
  /\ UNCHANGED <<allocated, keptVars, resultVars>>

\* The file is shorter than a shingle.
TooShort ==
  /\ pc = "fill"
  /\ GiveUp
  /\ UNCHANGED <<readVars, keptVars, resultVars>>

TooGreat(crc) == HeapFull(heap) /\ crc >= heap[1]

\* crc_insert of a checksum that is too great, or is kept already.
Skip(crc) ==
  /\ TooGreat(crc)
  /\ UNCHANGED <<heap, table>>

Meet(crc) ==
  /\ ~TooGreat(crc)
  /\ Contains(Cleaned(table, crc), crc)
  /\ table' = Cleaned(table, crc)
  /\ UNCHANGED heap

\* crc_insert of any other, which replaces the greatest if the heap is full.
Admit(crc) ==
  LET full == HeapFull(heap)
      cleaned == Cleaned(table, crc)
  IN  /\ ~TooGreat(crc)
      /\ ~Contains(cleaned, crc)
      /\ table' = HashInsert(IF full THEN HashDelete(cleaned, heap[1]) ELSE cleaned, crc)
      /\ heap' = HeapInsert(IF full THEN WithoutTop(heap) ELSE heap, crc)

Insert ==
  /\ pc = "insert"
  /\ LET crc == Crc[Shingle] IN Skip(crc) \/ Meet(crc) \/ Admit(crc)
  /\ seen' = seen \cup {Crc[text]}
  /\ pc' = "read"
  /\ UNCHANGED <<allocated, readVars, resultVars>>

\* There is no memory to build the table anew: abort().
GcFails ==
  /\ pc = "insert"
  /\ ~TooGreat(Crc[Shingle]) /\ ~Searchable(table, Crc[Shingle])
  /\ pc' = "aborted"
  /\ UNCHANGED <<allocated, readVars, keptVars, resultVars>>

Read ==
  /\ pc = "read"
  /\ \E byte \in Bytes : Put(byte)
  /\ pc' = "insert"
  /\ UNCHANGED <<allocated, keptVars, resultVars>>

EndOfFile ==
  /\ pc = "read"
  /\ allocated' = allocated \ {"buf"}
  /\ pc' = "info"
  /\ UNCHANGED <<readVars, keptVars, resultVars>>

-----------------------------------------------------------------------------
(* get_hashinfo, and the copy that binsort_worker_hash makes of the hash.  *)

GetHashinfo ==
  /\ pc = "info"
  /\ feature' = Extracted(heap)
  /\ heap' = <<>>
  /\ allocated' = (allocated \ (FreedGlobal \cup {"file"})) \cup {"info", "crcs"}
  /\ pc' = "copy"
  /\ UNCHANGED <<readVars, table, seen, node, error>>

\* There is no struct simhash, or there is, but no array for it.
NoHashinfo ==
  /\ pc = "info"
  /\ GiveUp
  /\ UNCHANGED <<readVars, keptVars, resultVars>>

\* simhash_free, in either case.
Copy ==
  /\ pc = "copy"
  /\ \/ /\ node' = feature
        /\ error' = "SUCCESS"
        /\ allocated' = (allocated \ {"info", "crcs"}) \cup {"node"}
     \/ /\ error' = "OUT_OF_MEMORY"
        /\ allocated' = allocated \ {"info", "crcs"}
        /\ UNCHANGED node
  /\ feature' = <<>>
  /\ pc' = "done"
  /\ UNCHANGED <<readVars, keptVars>>

Terminated == pc \in {"done", "aborted"} /\ UNCHANGED vars

Next ==
  \/ Open \/ AllocGlobal \/ AllocBuf \/ HeapReset \/ HashReset
  \/ Fill \/ TooShort \/ Insert \/ GcFails \/ Read \/ EndOfFile
  \/ GetHashinfo \/ NoHashinfo \/ Copy
  \/ Terminated

Spec == Init /\ [][Next]_vars

-----------------------------------------------------------------------------
(* Properties.                                                             *)

\* Every variable holds a value of its kind, and the heap does not overflow:
\* assert(sh->nheap < sh->maxheap) (simhash.c:285).
TypeOK ==
  /\ pc \in {"open", "global", "buf", "heap", "table", "fill", "insert", "read", "info", "copy",
            "done", "aborted"}
  /\ allocated \subseteq {"file", "global", "buf", "heap", "hash", "occ", "info", "crcs", "node"}
  /\ buf \in [Ring -> Bytes \cup {NoByte}] /\ i \in Ring
  /\ heap \in Seq(Checksums) /\ Len(heap) <= NumFeatures
  /\ table \in Table
  /\ feature \in Seq(Checksums) /\ node \in Seq(Checksums)
  /\ error \in {"SUCCESS", "FILE_OPEN", "HASHING", "OUT_OF_MEMORY"}
  /\ text \in Seq(Bytes) /\ Len(text) <= NumShingle
  /\ seen \subseteq Checksums

\* Of all the shingles of the file the smallest checksums are kept, each once,
\* whatever the order they come in and however often, and wherever the ring
\* begins; so the hash depends on nothing but the file.  They come off the heap
\* in descending order, which the comparison of two lists relies on.
KeepsSmallest ==
  /\ pc = "read" => RangeOf(heap) = Smallest(seen) /\ Len(heap) = Cardinality(RangeOf(heap))
  /\ node # <<>> => node = Descending(Smallest(seen))

\* The table holds what is on the heap, each checksum in one slot and where a
\* search finds it, whatever has been deleted and moved by gc; and after a gc
\* there is an empty slot, so that no search fails twice and the program is
\* not aborted (simhash.c:427-434).
TableAgrees ==
  pc = "read" => LET clean == Gc(table) IN
    /\ RangeOf(heap) = {table[s] : s \in Slot} \ {EMPTY, DELETED}
    /\ \A r, s \in Slot : r # s /\ table[r] \in Checksums => table[r] # table[s]
    /\ \A c \in RangeOf(heap) : Contains(table, c)
    /\ \A c \in Checksums : Searchable(clean, c)

\* The distance that the comment of hashinfo_score speaks of: what two lists
\* have in common as a portion of the union of their members (simhash.c:574-576).
UnionDistance(f, g) ==
  LET common == RangeOf(f) \cap RangeOf(g)
      all == RangeOf(f) \cup RangeOf(g)
  IN  255 - (255 * Cardinality(common)) \div Cardinality(all)

\* Compared with any other file, the walk counts the features they have in
\* common.  The distance is the same from either side, and what the comment
\* makes of the two for files with as many features, such as all that have at
\* least NumFeatures.  Where one has fewer, unionsize (simhash.c:606-611) is not
\* the size of the union but too small by the difference, and the files come out
\* nearer, but never farther.  Still they are at the greatest distance exactly if
\* they have nothing in common, for which 128 features are the most.
DistanceRight ==
  node # <<>> =>
    \A other \in FeatureLists :
      LET common == RangeOf(node) \cap RangeOf(other)
      IN  /\ MatchCount(node, other) = Cardinality(common)
          /\ Distance(node, other) = Distance(other, node)
          /\ Distance(node, other) \in 0 .. UnionDistance(node, other)
          /\ Len(node) = Len(other) => Distance(node, other) = UnionDistance(node, other)
          /\ NumFeatures <= 128 => (Distance(node, other) = 255 <=> common = {})

\* Wherever the file ends and whichever allocation fails, all that was opened
\* or allocated for the file is given back, but for the copy of its hash; and
\* a file has that copy exactly if it has no error.
AllFreed ==
  pc = "done" =>
    /\ allocated = IF error = "SUCCESS" THEN {"node"} ELSE {}
    /\ error = "SUCCESS" <=> node # <<>>
=============================================================================
