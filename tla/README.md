# Verification of binsort in TLA+

binsort scans a directory, hashes every file, calculates the distances of all
pairs of hashes, and orders the files so that similar ones are neighbours:
worker threads reverse segments of the order at the same time, each accepted or
rejected by threshold accepting. The program is written in C: `src/binsort.c`
(the program), `src/xpthread.c` (a thread and message library on pthreads),
`src/simhash.c` (similarity hashes), `src/main.c` (the command line) and
`src/tinymt32.c` (a random number generator by other authors).

This directory holds TLA+ modules of the program's own logic, configurations
that check them with TLC, and theorems that TLAPS checks. The code is the
reference: every definition that models code is listed in `PROJECT.json` under
`map` with the lines it models.

## The system

### Its parts, their state and their operations

| Part | State | Operations | Module |
|---|---|---|---|
| Optimization (`binsort_genorder`, `binsort_worker_optimize`) | `b_Order`, `b_CurrentDistance`, `b_RangeList`, `b_Lock`; in each worker its segment, length, loop counters and `rangelock` | draw and lock, draw again, reject, reverse under the lock, reverse outside of it in pairs of writes, unlink, exit, list the files | `Tour`, `Optimize`, `AtomicReversal` |
| Distances (`binsort_gendistances`, `binsort_worker_calcdist`) | `b_Distances`, `b_DistancesLeft`, the first and last row of each message | cut and send the parts, write a pair of places, next row, reply | `Distances` |
| Command line (`main`, `parseargs`, `binsort_init`, `GetTag`) | the items of the argument list, which of them are given, the option whose number comes next | read an argument, accept or refuse the list, hand it over as tags | `Args` |
| Run and protocol (`main`, `binsort_create`, `binsort_run`, `binsort_destroy`, `binsort_worker`) | the phase, the count of answers, `b_Hashes`, what is allocated; in each worker its message | read and check the arguments, create workers, send, wait, take replies, next phase, free, abort, destroy; wait, take, handle, reply | `Binsort` |
| Directory list and output (`dirlist_scan`, `binsort_genorder`, `binsort_freedir`) | `b_DirList`, the calls in progress | scan recursively, take the files off, put them back, print, free | `DirList` |
| Similarity hashes (`simhash.c`, `binsort_worker_hash`) | the ring of the last bytes, `heap`, `hash`, `occ`, the features, what is allocated, the error | open, allocate, fill the ring, read a byte, insert a checksum, delete, rebuild the table, abort, extract, copy, compare | `Simhash`, `HashFile` |
| Signals (`xp_signal`, `xp_setsignal`, `xp_wait`, `xp_timedwait`) | `xpt_SigState`, its mutex and condition variable | the four calls, timeouts, spurious wakeups | `XPSignal`, `SignalSet` |
| Message ports (`xp_putmsg`, `xp_getmsg`, `xp_replymsg`) | `xpmp_Queue`, `xpmsg_ReplyPort` | put, then signal; get; reply | `XPPort` |
| Threads (`xp_createthread`, `xpi_threadentry`, `xp_destroythread`, references) | `xpi_Tasks`, `xpt_Status`, `xpt_Parent`, `xpt_RefCount` | create, start, end, refer, destroy, close | `XPThread` |
| Random numbers (`random_init`, `random_get`) | the pool of bits, how many are left | take a number, merge another word and take a number | `Random`, `BitStream` |
| Times (`xp_addtime`, `xp_subtime`, `xp_cmptime`) | none | the three | `XPTime` |

The main thread talks to the workers only in messages: it puts a message to a
worker's user port, which signals `USER`; the worker does what the message says
and replies it to the main thread's port. `XPT_SIG_UPDATE` tells the main thread
that there is progress to print, `ABORT` tells a worker to leave, `SYNC` starts a
thread and tells its parent that it is over. Within a phase the workers share
`b_Distances` (written without a lock, in the distance phase), `b_Order` (written
partly under `b_Lock`, partly not) and `b_RangeList`.

### What is hard about it, and what makes each part right

`PROJECT.json` lists the hazards with their lines. The main ones:

- *Optimization.* A worker swaps the inside of its segment with `b_Lock`
  released, while others take the lock, read neighbours and swap ends. Segments
  wrap round. Right means: segments in progress are disjoint, no cell is written
  by one and read by another, no file is lost, deltas taken while other segments
  are half reversed are still true, the running distance ends as the distance
  of the order (the assertion in binsort.c:614), and workers that draw again
  because of each other end.
- *Distances.* Rows are cut with a square root. Every pair is written, by one
  worker, and as many messages are sent as answers are awaited.
- *Protocol.* The signal of a message comes after the message, in another step;
  one bit stands for many messages; memory is freed between phases; allocations
  fail. Right means: nothing is stranded, counted wrongly or freed too early,
  phases do not overlap, and every run ends cleanly.
- *Directory list.* The list grows at its end by recursive calls while the
  caller walks over a part of it. Right means: all that can be reached is found
  once, and nothing is lost, doubled or freed twice when the files are unlinked,
  ordered and linked again.
- *Similarity hashes.* A ring that begins anywhere, deleted slots, a rebuild in the
  middle of a search, and seven allocations that may fail. Right means: the
  smallest checksums of the shingles in the file are kept whatever their order,
  two lists of them compare as sets, and whatever fails all memory is given back.
- *Random numbers.* Words are merged into a pool behind the bits that are left, and
  numbers are taken from its other end. Right means: every bit of the generator is
  used once and in order.
- *Command line.* An option that has its number is not looked for again, and
  numbers are stored over the low bytes of something wider. Right means: what is
  accepted is what was asked for.
- *Signals and threads.* Lost wakeups, timeouts that race signals, one `SYNC` bit
  for all children, handles freed while a thread still uses them.

## The modules

`MC*` modules and their `.cfg` files hold only the values of constants.

- **Tour** has no variables: positions on the ring of files, distances and tour
  length (`getdist`), the difference a reversal makes (`getdelta`), the segments
  that two random numbers lead to, the test of two segments for overlap, and the
  listing of the files from behind the longest edge.
- **Optimize** extends Tour with the shared variables and the loop of each
  worker. A section under `b_Lock` is split into the step that takes the lock
  and the step that does the work and releases it. A swap outside of the lock is
  two steps, one for each write. The threshold `20 D / i - 20 D * 1.1 / iterations` of
  floating point is multiplied out to a comparison of integers; a rounding error
  there may accept one segment more or less, which no property depends on. Random
  numbers are any draw, so the generator plays no part here.
- **AtomicReversal** is what Optimize promises, an abstract specification without
  threads: the order changes only by the reversal of a segment in one step, the
  distance is always that of the order, and what is published is the order cut
  open. Optimize implements it with `order <- Settled`, the order as it will be
  when all segments in progress are finished.
- **SignalSet** is what the signals promise: sets of pending signals with atomic
  waits. **XPSignal** has the mutexes (a section is a step), the condition variable
  (asleep, woken, running), spurious wakeups and timeouts, and implements it.
- **XPThread** uses XPSignal. Its clients are threads that take and give back
  references as they like and return when told to abort. `SpawnFails` is no step of
  these clients, because walking the list of tasks is undefined after it: Binsort
  takes it, and goes on to the assertion that fails. `XPPort` is a module to
  compose with: putting a message and signalling it are two steps.
- **Args** reads a command line argument by argument, as `parseargs` does, then checks
  it twice, in `main` and in `binsort_init`, through the list of tags between the two.
  Next to this it states what the usage text says of a command line (`Asks`, `Asked`),
  without a scan: any places of the options and the directory that make sense.
- **Binsort** composes Args, XPThread, XPPort and XPSignal into a whole run, from the
  first argument to the close of the library. It abstracts from what a message makes
  the worker do, all but what the protocol depends on: whether a file got a hash,
  whether rows are written, what memory is used. `InitFails`, `NoMessages`,
  `NoDistances` and `NoOrder` are the allocations that fail on the way, `CreateFails` and
  `HandleFails` a worker that cannot be created, `ScanFails` a directory that cannot
  be read. `refused` remembers what could not be had; it is no variable of the code.
- **Distances** has the loop that cuts the parts and the loops that write them, for
  any number of hashes and workers of two sets.
- **Simhash** has the heap and the hash table as operators, and the walk over two lists
  of features. A loop is a recursive function (`Loop`): as many rounds as can be needed of
  a step that leaves what is finished as it is. **HashFile**
  extends it with a file that is hashed, from `fopen` to the copy of the hash in the
  directory entry: the allocations one by one, the ring that `running_crc` keeps, and
  `crc_insert` as three actions (too great, kept already, admitted). `Crc` is any
  function of a shingle; `text` and `seen` are what was read, for the properties.
- **Random** is the pool of random bits. **BitStream** is what it promises: one stream of
  bits cut into pieces of the same width, those that are no number below the range
  thrown away. The words of the generator are any words.
- **XPTime** has the arithmetic of times as operators; the theorems about them are in
  XPSignalProofs.
- **DirList** has the calls of `dirlist_scan` as a stack; `opendir`, `readdir`,
  `stat`, and `malloc` may fail at each point.

State of the code that only printing reads (`b_Quiet`, the counts in messages) is
left out. `XPSignal`'s parameters `Signals` are the four bits binsort uses.

## The runs

| Run | Bounds | What it shows |
|---|---|---|
| `optimize_two` | 2 workers, 8 files (one without a hash), 2 iterations each, workers interchangeable | types, exclusion, no data race, the sum of the deltas, and the implementation of AtomicReversal |
| `optimize_long` | 2 workers, 12 files, 1 iteration each, fair | the same refinement where the inner loop goes round more than once (segments up to 6), and termination |
| `signal` | 2 threads, 2 signals, fair | no lost wakeup, waits return, implementation of SignalSet |
| `thread` | 3 children and the base thread, fair | handles, list of tasks, parents, and the return of every xp_destroythread |
| `random` | words of 4 bits in a pool of 8, ranges 1 to 15 | types, a clean pool, implementation of BitStream |
| `binsort_two` | command lines of up to 5 arguments out of 7 words; 1 or 2 workers, 3 files, up to two messages for distances; memory and threads may be refused; fair | the command line, the protocol of a whole run, memory, stable order with one worker, that never every thread waits for another, and the end of every run but that of `binsort_malloc` |
| `binsort_malloc` | 2 workers, 3 files, memory may be refused, fair | **violated**: a run that never ends |
| `binsort_spawnfails` | 1 worker, `pthread_create` may fail | **violated**: the freed handle stays on the list of tasks |
| `distances_parts` | 3 to 9 hashes, 1 to 4 workers, a part for every 2 hashes | the parts and the array |
| `hashfile` | files of any length of 3 different bytes, shingles of 2; 4 features, 8 slots, 9 checksums; every allocation may fail | ring, heap, table, features, distance, and memory |
| `dirlist` | 3 nested directories, 3 files, a pipe | scan, order, output and memory of the entries |
| `dirlist_nodirs` | the same | **violated**: directories in the output in spite of `-d` |

The largest are `binsort_two` (520,000 states, a minute and a half) and `hashfile`
(218,000); `thread`, `signal` and `random` have 41,000, 8,000 and 1,300, `distances_parts`
has 105,000.

Why the bounds are enough to be interesting: with 8 files two segments of four
(the smallest that is put on `b_RangeList`) fit side by side, wrapped or not, and
with 12 a segment of six is swapped in two rounds outside of the lock. Distances
are chosen so that some segments are accepted and others rejected. Two workers
are enough for a pair of segments to meet; that any number of workers keeps
apart is proved. Three files are the fewest that are optimized at all, and
two distance messages the fewest that overlap. Four features are the fewest for
which the heap has to choose between two children; nine checksums fill all eight
slots with deleted entries, so that the table is rebuilt, and let several of them
begin their search at the same slot. They are those of all shingles of two of three
bytes, arranged so that a file exists that offers them in descending order. Three
nested directories let two calls of `dirlist_scan` append behind the part a third
one is walking over. Five arguments hold a directory and both options with their
numbers, or an option twice, and among the seven words are numbers in and out of
bounds. In a pool of eight bits every number of bits that may be left meets every
width of a number.

A property is shown to depend on the code by a mutant: each module defines, next
to an operator, a wrong variant of it (`ClearNoWrap`, `MergedInFront`,
`FromPlaceZero`, ...). `PROJECT.json` pairs each property with a variant that breaks it.
The variants are used nowhere else.

### Fairness

- Every thread is scheduled for ever if it can go on: weak fairness of the steps
  of each thread, which is what the operating system gives.
- `b_Lock` is not a fair mutex. A worker that wants a free lock again and again
  gets it in the end: strong fairness of `Lock` and `Unlink`. Without it one worker
  might draw again for ever in the way of another that only wants to unlink.
- In `Optimize` draws are not otherwise fair: that a run ends does not depend on
  lucky draws, for a segment that is in the way is unlinked in the end, and its
  worker's iterations are bounded.
- In `Binsort` what a message makes the worker do comes to an end, which is
  `Termination` of Optimize and `AllAnswered` of Distances.
- In `XPThread` a client in the end waits for `ABORT`, instead of taking references
  for ever (strong fairness of `AwaitAbort`).
- A failure, a timeout and a spurious wakeup never have to happen.

Deadlock is checked in every run; the end of a program is a step that changes
nothing (`Terminated`).

## What the runs found

1. *A failed allocation of the distances hangs the program* (`binsort_malloc`).
   `binsort_gendistances` leaves the loop in which it sends messages when
   `malloc(num * num)` fails (binsort.c:424), but then waits for `numworkers`
   answers all the same. The array is the largest allocation of the program.
2. *A thread that cannot be created stays on the list* (`binsort_spawnfails`):
   xpthread.c:846 and 861-869. The assertion in xpthread.c:991 fails, or the freed
   handle is used when the list is walked.
3. *`-d` is ignored for small inputs* (`dirlist_nodirs`): directories are removed only in
   `binsort_genorder`, which is not called when fewer than three files are hashed.

Read but not run:

- `hashinfo_score` returns what two lists have in common as a portion of "the number of
  elements in the union set" (simhash.c:574-576), but for lists of different lengths what
  it calls `unionsize` (606-611), twice the shorter length less the matches, is less than
  the union. A file with fewer than 128 different shingles whose features are all among
  those of another has a score of 1 instead of a smaller one, and the two are at distance 0:
  so for the features {4, 3} and {4, 3, 2, 1}, where the comment means 1/2. `DistanceRight`
  therefore compares the code with the distance by the union (`UnionDistance`): equal for
  lists of the same length, never greater for others; `ContainedAtNoDistance` proves that a
  contained list is at distance 0 where by the union it is not.
- `xp_setsignal` sets signals outside of its mask (xpthread.c:474, against
  xpthread.h:57-58).
- `b_DistancesLeft` starts too low (binsort.c:426) and may become negative; only the
  progress report reads it, without the lock (458).
- `-d` also removes entries that are neither directories nor files; an entry for which
  `stat` fails is never freed (binsort.c:293-321).
- When the second allocation of `binsort_genorder` fails the first is lost (565-566,
  `NoOrder`); it is all that `CleanEnd` allows to be forgotten (`Forgotten`).
- When a thread cannot be created `b_Workers` is read beyond what was written (953; the
  step to `"crashed"` in `CreateFails` and `HandleFails`), and the array itself is written
  without a look at what `malloc` returned (946; `InitFails`), as is the mutex of
  `xp_createfastmutex`.
- `gc` gives up with `abort()` when it finds no memory, and forgets the one array if only
  the other is refused (simhash.c:427; `GcFails`).
- `crc >> 8` shifts a signed number, so that the checksum is not the standard CRC-32; any
  function does for similarity.
- `main` returns `EXIT_FAILURE` after a run that succeeded, too: what it sets to
  `EXIT_SUCCESS` is `err`, what it returns is `res`.

## The proofs

They hold for every value of the constants, from the assumptions that the modules
name. Each proof module extends the module it is about. Every safety invariant of the
passing runs is proved, and so is every refinement. Each inductive invariant was given
to TLC before it was proved.

### Optimize: OptimizeProofs

For any number of files, workers and iterations and any distances, from
`TourAssumption` and `OptimizeAssumption`:

- `InvHolds`: `Spec => []Inv`.
- `Exclusion`: `Spec => []RangesDisjoint`, segments in progress are disjoint.
- `RaceFree`: `Spec => []NoRace`, what one worker writes without the lock no other
  worker writes, or reads for its delta.
- `OptimizeTypes`: `Spec => []TypeOK`.
- `DistanceSum`: `Spec => []DistanceAdds`, the assertion of binsort.c:614 never fails.
- `AllFilesKept`: in the end the order is a permutation of the files.
- `Refinement`: `Spec => AtomicSpec`, Optimize implements AtomicReversal.

`RangesDisjoint` is not inductive. A worker could link a segment that it has not
checked (so `LockHeld`: only the holder of the lock is between the check and the
link, and then nobody else changes `b_RangeList`), of a length it does not
have (`LengthKnown`), and the list must be the segments in progress
(`LinkedInProgress`). For `NoRace` one must also know that what is still to be
swapped lies inside the linked segment, and how far the two ends are apart
(`Remaining`). `Inv` is the conjunction of these with `StateType`; there is a lemma
for each conjunct (`StepType`, `StepLockHeld`, ...), and one step in it for each action
that can disturb it.

The heart of the matter is `ClearDisjoint`: the comparisons of
binsort.c:731-751, with their four cases of wrapped and unwrapped segments, are true
only if the segments have no position in common. For `NoRace` the neighbours of a
segment count as well, and they may lie in another worker's segment: `NeighbourIsEnd`
shows that they are then its ends, which are swapped before the lock is released,
so that what is left to be swapped (`RestInside`) is out of reach.

The refinement needs more (`AtomicInv`): a drawn segment is at most half of the tour
(`Halved`); between the two writes of a swap one file is in the order twice
(`Twice`); `Settled` is a permutation (`NoFileLost`), and `currentDistance` is its length
(`DistanceKnown`). `SettledIs` makes `Settled` usable: because nobody races for a cell,
each cell is some one worker's to swap, or nobody's. Then, step by step: a step that
does not write to `order` leaves `Settled` (`WritesNothing`), so does each of the two writes
of a swap (`LeftWrites`, `RightWrites`), and to accept a segment reverses it in `Settled`
at once (`AcceptReverses`). That the distance stays right is arithmetic
about tours: `ReversalDelta`, the difference that getdelta computes from four cells is
the difference of two sums over all files. It walks round the tour from the beginning
of the segment, which changes no sum (`Rotation`), and writes the sums after the reversal
in terms of those before. That a position behind a longest edge exists and is what
getdist finds is `StartsBehindLongest`.

Sums and longest edges are proved about by induction without the induction theorems:
`LeastNatural` (every non-empty set of natural numbers has a least element) follows
from the well-foundedness of `<`, and an induction is then the set of the
counterexamples, which would have a least one.

### Distances: DistancesProofs

For any numbers of hashes and workers, from the assumption that every worker gets a
part for at least two hashes (the code has 10): `DistanceTypes` (`TypeOK`, no
place outside of the array), `AllOnce` (`WrittenOnce`: every pair is written by one worker,
once, and all are there at the end), `AllSent` (as many messages as answers).
The parts end at floor(sqrt(k * share)); `Cut(k)` is that row. The invariant says that the
message sent k-th has the rows from one cut to the next (`Rows`), and which places are
filled (`Filled`). That a part is never empty, which would leave an answer
awaited for ever, is where the bound of two hashes is needed. The square root of the
module is defined by a CHOOSE; `RootExact` proves that it exists.

### Random: RandomProofs

For words of any width and ranges that fit: `PoolClean` (`TypeOK`: there are always
enough bits and enough places, and the pool is 0 behind the bits that are left) and
`ReadsStream` (`ImplementsStream`). `TypeOK` is inductive. `MergedBits` and `TakenBits` say
what the shifts do in terms of sequences of bits; the refinement follows.

### Signals: XPSignalProofs

For any threads and signals: `SignalTypes`, `NothingLost` (`NoLostWakeup`), and
`SignalsAreSets` (`ImplementsSets`). The invariant is `TypeOK` and `Blocked`, that a thread that
does not run has a mask and has been returned nothing.

### Threads: XPThreadProofs

For any finite set of threads: `ThreadTypes`, `NoneFreedInUse` (`HandlesLive`), `ListSound`
(`ListLive` and `ListEmpty`; in this module no thread is refused).
`HandlesLive` rests on when the main thread frees: it joins only a thread that it found
dead, off the list and without references (`Off`); only who left its function is dead
(`Dead`); references are as many as those who hold one (`Counted`); and nobody runs
its function before its parent is noted, because only the parent's kick sends it `SYNC`
(`Kicked`, `Subject`).

`NoDeathMissed` (`NoDeadlock`, defined there): with references, too, there is always a thread
that can go on without a spurious wakeup. It is what makes one `SYNC` enough for all children
and for all references: the invariant `LiveInv` says that from the moment the main thread
finds its child not over, or referred to, until it looks again, `SYNC` is pending with it as
soon as the child has exited and its references are given back, whichever comes last (`DeathTold`);
until then either the child, told to abort (`ToldToAbort`), or one who refers to it is not
asleep (`SomeoneGoes`). The formula and the parts of `LiveInv` were given to TLC with three
children; the run `thread` checks `AllDestroyed`, which says more, but needs fairness.

### Times: XPSignalProofs

`AddExact`, `SubExact`, `CmpRight`, `SubUndoesAdd`: on times whose microseconds are
below a million the three functions of XPTime compute what the microseconds say.

### Binsort: BinsortProofs

For any number of files and of workers, any command line, and any memory or thread
refused, from `BinsortAssumption`, `ArgsAssumption` (an `int` has an even, finite
number of values and more than the workers there may be; no word is `Nobody`) and
those of the library modules: `RunTypes`, `PhasesKeptApart`, `AnswersAreCounted`,
`HashesAreIndexed`, `NobodyStranded`, `MemoryStaysLive`, `AloneStable`, `EndsClean`,
`NeverDeadlocked` (`NoDeadlock`) and `ArgsReadRight`, one for each invariant of
`binsort_two`.

But for the last two, and the half of `NobodyStranded` that says that no worker leaves its
function early, they share the inductive invariant `RunInv`, because none of its parts holds without
others:

- `Control`: what the place of the main thread says of its own variables, and
  `ThreadInv`: which workers have handles and parents, and where each may be.
- `SleepInv`: nobody sleeps on a signal that is pending, and each sleeps only where
  it waits.
- `PortInv`: a message is in one place, with the main thread, as the current message of one
  worker, or once on one queue, and what a worker has will be replied to the main thread.
- `FlightInv`: the messages under way are those of this phase that the main thread
  still awaits. When the distances are refused there are none, but answers are awaited
  all the same (which is what `binsort_malloc` runs into); `AnswersCounted` says both.
- `LiveInv`: what is allocated, phase by phase. With `FlightInv` this is `MemoryLive`: memory
  of a phase is freed when all messages of it are back.
- `IndexInv`: a file with a hash is on `b_Hashes` once, or its answer is under way.
  `WrittenInv`: the rows of a part are written, or a worker has still to write them.
- `StableInv`: with one worker the files on `b_Hashes`, on the main thread's queue, in the
  worker's hands and on its queue ascend in this order.
- `StrandedInv`: a thread that has messages is about to be signalled, or the signal is pending,
  or it is awake and goes on to look at its port. The signal comes a step after the message
  (`FilledByPosting`), and only this step (`SignalledByPosting`), a message taken
  (`TakenToDrain`) and a wait that returns change which of the three it is.

A step is first reduced to what it does to the signals (`SignalsOneByOne`, `SignalsKept`), to the
queues (`PutEffect`, `GetEffect`) and to the messages (`SendWhere`, `ReplyWhere`); each part
of the invariant then has a lemma (`StepControl`, `StepPortInv`, ...).

`ArgsReadRight` has an invariant of its own, `ArgsInv`, which compares the scan of the
arguments with `Asks`, where nothing is scanned: some places of the options and the directory fit
all that has been read (`SomeFit`), and any places that are asked for fit it
(`AskedFit`). At the end the two meet. `StoredInBounds` deals with the numbers whose
low bytes alone are stored: one that is in bounds before or after was not changed.

`NoDeadlock` says that until the library is closed, or in a run to which the memory for
the distances is refused (finding 1), or which has crashed, some thread can go on that does not need a spurious
wakeup for it (`Going`). TLC's own check for deadlock cannot see this, because a sleeping
thread may always wake up for no reason. It is proved from `RunInv` and a second inductive
invariant, `ProgressInv`:

- `HandlesInv`, `LifeInv`: a handle is that of a thread and on the list of tasks, unless the
  thread is being made or joined; who is about to exit is dead.
- `KickInv`: a worker that waits for `SYNC` to begin will get it, or has it.
- `PlaceInv`: what a worker that sleeps waits for, and that nobody is told to abort before the
  main thread is done with all phases. `ToldToAbort`: it stays so until the worker is over.
- `AwaitInv`: the main thread sleeps for answers only while there are some to come, and when
  it goes to sleep for a death that has come already, `SYNC` is pending.
- `SentWithin`: messages are sent only to workers that there are.

`PlaceInv` is also why no worker leaves its function before every message is back
(`NobodyStranded`).

A step does one of few things to the signals of a thread (`OwnSignals`) and to where it is
(`LifeStep`, `PlaceStep`); what is pending stays until it is taken (`PendingUntilTaken`). If
the main thread sleeps for answers, there is a message, and `StrandedInv` says that whoever has
it goes on; if it sleeps for a death, the worker it destroys is told to abort and is not
asleep (`AlwaysSomebody`).

### DirList: DirListProofs

For any finite tree of directories and files, from `DirListAssumption`: `ListTypes`,
`ScanFindsAll` (`ScanComplete`), `DirsComeFirst` (`DirFirst`), `AllArePrinted` (`AllPrinted`) and
`AllFreedOnce` (`FreedOnce`).
In the inductive invariant `DirInv`, `CallsInv` says that each call has appended entries
of its own directory, behind those of the calls around it, and that only the
innermost one reads. A directory is entered only once because, while it is not found, or still
ahead of a call that walks over its part, nothing in it has been found (`FreshInv`). That
nothing is overlooked is `ScanInv`: a directory that will be scanned is ahead, or is being
scanned, or all that it holds was found or could not be read. `ListInv` keeps what is on the list apart
from what was freed, and their union is what was found.

### Similarity hashes: HashFileProofs

For files of any length, any number of features, slots for each feature and bytes of a
shingle, and any function for the checksum, from `SimhashAssumption` and
`HashFileAssumption`: `HashTypes`, `SmallestAreKept` (`KeepsSmallest`), `TableHoldsHeap`
(`TableAgrees`), `DistanceIsRight` (`DistanceRight`) and `HashFreesAll` (`AllFreed`).
The inductive invariant is `HashInv`: `RingInv` (the text in the ring, from the place where the
next byte goes), `KeepInv` (the heap is one, the table holds the same checksums,
and these are the smallest of those seen), `ResultInv` and `MemoryInv`. Below it are
lemmas about the operators of Simhash:

- *Loops.* What the step of a loop keeps holds at its end (`LoopKeeps`), and it is finished if
  something counts down in it (`LoopEnds`).
- *Heap.* While a value sinks or rises, the heap is in order but for one place
  (`SinkStep`, `RiseStep`). So `heap_insert` adds a value to it (`HeapInsertRight`), and to replace
  the top removes the greatest (`TopIsGreatest`, `WithoutTopRight`); `DescendingRight`
  and `ExtractedRight` are about its extraction in descending order.
- *Table.* `Holds(t, set)`: each member has one slot, and no empty slot comes before it in
  its search. Because `next_pow2` returns a number without an odd factor (`NextPow2Right`)
  and the step of a search is odd, a search comes to every slot once
  (`ProbesDiffer`, `ProbesReach`), and because there are more slots than features one is
  left (`SlotLeft`). An insertion, a deletion, which only leaves a
  mark, and the rebuilding by `gc` keep this (`HashInsertRight`, `HashDeleteRight`, `GcRight`).
- *What is kept.* `Kept(kept, seen)`: either everything, or as many as there is place for, and
  none that is not kept is smaller. Each way through `crc_insert` keeps it
  (`KeptAgain`, `KeptTooGreat`, `KeptAdded`, `KeptReplaced`).
- *Comparison.* The walk over two lists counts what they have in common
  (`MatchCountRight`: what is counted and what the rest has in common add up). The distance
  is a portion of it (`Apart`, `DistanceOfLists`), which is compared with the portion of the
  union, the sum of both lengths less the matches (`UnionSize`, `UnionSizeRight`): a smaller
  divisor gives no greater distance (`ApartOrder`, `DistanceBounds`).

Induction over data is done as above: the set of the counterexamples has no least
element. Functions that are defined by recursion are proved to exist in the same way
(`RoundsExist`).

### Only model-checked

All liveness (`Termination`, `AllAnswered`, `PendingReturns`, `AllDestroyed`,
`EndsUnlessStuck`) and whatever else rests on fairness: the prover does not reason
about ENABLED. For `AllDestroyed` and `EndsUnlessStuck` the half that is a matter of safety, that
somebody can always go on, is proved (`NoDeathMissed`, `NeverDeadlocked`) with `Going` in the
place of ENABLED; that the two agree for the threads of Binsort, TLC has compared.

## Not modelled

- *TinyMT* (other authors' code): the generator may return any word. *CRC-32*: the
  checksum is any function of a shingle. `atoi`: any function of an argument.
- *Signal allocation* (`xp_allocsignal`, `xp_freesignal`): not in the interface `XPBase`, and
  not reachable with a signal that is not reserved. *Locks of xpthread*: compiled out
  (`#if 0`). *Windows*: the branch of another platform.
- *simhash_read and simhash_write*: not compiled.
- *gettimeofday and timeouts in seconds*: a timeout may come at any time. The 32 bits of
  the seconds in XPTime: an overflow is undefined in C, in the year 2038.
- *Links in the directory tree*: `stat` follows them (binsort.c:337), so that a link to a
  directory above is scanned until the system refuses the path. The tree in DirList
  has none.
- *What undefined behaviour does*: where `b_Workers` is read without having been written, or
  written without having been allocated (binsort.c:946, 953), a run of Binsort goes on or is over
  (`"crashed"`). A crash counts as an end, so no property says that it cannot happen;
  what is checked is that a run that goes on stops and joins the workers there are.
  Likewise `b_NumWorkers` of 0, which binsort.c:985 would make of a missing tag: `main` always
  gives the tag, and no other caller is modelled.
- *Progress reports*: what they print is read without the lock (binsort.c:458), and nothing
  depends on it.
- *Weak memory*: steps are sequentially consistent. For `b_Order` that is justified by
  `NoRace` and by the lock between the end of one segment and the start of
  another that meets it.

## Plan

Done: all modules of the plan, composed as planned, and a theorem for each safety
invariant and each refinement that a passing run checks, and for the absence of deadlock in
Binsort and in XPThread.

What could come next: lemmas of progress for the liveness properties (that a worker
that draws again is in the way of nobody, that every round of a phase lowers a
measure), which leave only the fairness to TLC; `Binsort` shown to implement an
abstract sequence of phases.
