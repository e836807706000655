------------------------------ MODULE Binsort -------------------------------
(***************************************************************************)
(* A run of binsort, from main to binsort_destroy (main.c, binsort.c): the *)
(* main thread reads the command line and starts the workers, sends them   *)
(* one message per file to hash, then messages to calculate the distances, *)
(* then one each to optimize the order, waits for all the answers before   *)
(* it goes from one phase to the next, and in the end tells the workers to *)
(* abort, joins them and closes the library.                               *)
(*                                                                         *)
(* Composed of XPSignal, XPPort and XPThread.  What a message makes its    *)
(* worker do is only as much as the protocol depends on: Optimize and      *)
(* Distances model the rest.                                               *)
(***************************************************************************)
EXTENDS Args

CONSTANTS
  NumFiles,         \* how many files dirlist_scan finds
  HashesPerWorker,  \* hashes that are worth a worker for distances, 10 in the code
  MallocMayFail,    \* whether malloc may return NULL, see NoMessages to NoOrder
  SpawnMayFail,     \* whether pthread_create may return an error
  Main              \* the main thread; Nobody is no thread

Workers == 1 .. MaxWorkers
Files == 1 .. NumFiles
Threads == Workers \cup {Main}
Phases == {"hash", "dist", "opt"}
Messages == ({"hash"} \X Files) \cup ({"dist", "opt"} \X Workers)
Refusals == {"thread", "messages", "distances", "order"}

ASSUME BinsortAssumption ==
  /\ NumFiles \in Nat
  /\ HashesPerWorker \in Nat \ {0}
  /\ MallocMayFail \in BOOLEAN /\ SpawnMayFail \in BOOLEAN
  /\ Main \notin Workers /\ Nobody \notin Threads \cup Messages \cup Refusals

VARIABLES
  numWorkers,  \* b_NumWorkers
  sigState, sleep, mask, timed, got,                    \* see XPSignal
  tasks, handles, status, parent, refs, holds, tpc, mpc, subject,  \* see XPThread
  queue, replyTo, holder, posting,                      \* see XPPort
  pc,        \* where the main thread is
  phase,     \* the phase whose messages it sends and awaits
  count,     \* how many messages it has sent, workers started or stopped
  left,      \* the answers it still awaits: sent, numworkers
  hashes,    \* b_Hashes: the hashed files by their den_Index
  live,      \* the memory that is allocated, by what it holds
  refused,   \* what could not be had, or Nobody; this is not kept by the code
  wpc,       \* where each worker is in binsort_worker
  current,   \* the message it handles
  hashNode,  \* den_HashNode # NULL, of each file
  written    \* the distance messages whose rows are written

T == INSTANCE XPThread WITH Children <- Workers, NoThread <- Nobody
P == INSTANCE XPPort WITH Signals <- T!Signals
Sig == INSTANCE XPSignal WITH Signals <- T!Signals

sigVars == <<sigState, sleep, mask, timed, got>>
threadVars == <<tasks, handles, status, parent, refs, holds, tpc, mpc, subject>>
portVars == <<queue, replyTo, holder, posting>>
runVars == <<argsVars, numWorkers, refused>>
mainVars == <<runVars, pc, phase, count, left, hashes, live>>
workerVars == <<wpc, current, hashNode, written>>
vars == <<sigVars, threadVars, portVars, mainVars, workerVars>>

Init ==
  /\ T!Init
  /\ P!PortInit(Main)
  /\ ArgsInit
  /\ numWorkers = 0
  /\ pc = "main"
  /\ phase = "hash"
  /\ count = 0
  /\ left = 0
  /\ hashes = <<>>
  /\ live = {}
  /\ refused = Nobody
  /\ wpc = [w \in Workers |-> "wait"]
  /\ current = [w \in Workers |-> Nobody]
  /\ hashNode = [f \in Files |-> FALSE]
  /\ written = {}

Awake(t) == sleep[t] = "running"

-----------------------------------------------------------------------------
(* The main thread: main, binsort_init, binsort_initworkers.               *)

ParseArg ==
  /\ pc = "main"
  /\ ReadArg
  /\ UNCHANGED <<sigVars, threadVars, portVars, pc, phase, count, left, hashes, live, numWorkers,
                 refused, workerVars>>

ArgsParsed ==
  /\ pc = "main"
  /\ AllRead \/ TooMany
  /\ pc' = "check"
  /\ UNCHANGED <<sigVars, threadVars, portVars, phase, count, left, hashes, live, runVars, workerVars>>

\* Or the usage or a message is printed, and that is all.  The command line is
\* not looked at again.
CheckArgs ==
  /\ pc = "check"
  /\ IF Accepted
       THEN numWorkers' = Settings.workers /\ pc' = "create"
       ELSE UNCHANGED numWorkers /\ pc' = "closed"
  /\ argv' = <<>> /\ given' = {} /\ await' = Nobody /\ value' = Default /\ nextArg' = 1
  /\ UNCHANGED <<sigVars, threadVars, portVars, phase, count, left, hashes, live, refused, workerVars>>

\* There is no memory for the library or the lock, and what has been allocated
\* is freed; or for the array of workers, which is written all the same.
InitFails ==
  /\ MallocMayFail
  /\ pc = "create" /\ mpc = "idle" /\ count = 0
  /\ pc' \in {"closed", "crashed"}
  /\ UNCHANGED <<sigVars, threadVars, portVars, phase, count, left, hashes, live, runVars, workerVars>>

CreateWorker ==
  /\ pc = "create"
  /\ \/ count < numWorkers /\ T!Link(count + 1) /\ count' = count + 1
     \/ (T!Spawn \/ T!AdoptThenKick) /\ UNCHANGED count
  /\ UNCHANGED <<portVars, pc, phase, left, hashes, live, runVars, workerVars>>

\* A thread cannot be created: binsort_freeworkers stops those there are, but
\* it also looks at the places of b_Workers that are not reached and so never
\* initialized: it survives that only if it finds null pointers there.
StopThose(reached) ==
  /\ pc' \in IF reached < numWorkers THEN {"abort", "crashed"} ELSE {"abort"}
  /\ count' = 0
  /\ UNCHANGED <<portVars, argsVars, numWorkers, phase, left, hashes, live, workerVars>>

CreateFails ==
  /\ SpawnMayFail
  /\ pc = "create"
  /\ T!SpawnFails
  /\ refused' = "thread"
  /\ StopThose(count)

\* There is no memory for its handle.
HandleFails ==
  /\ MallocMayFail
  /\ pc = "create" /\ mpc = "idle" /\ count < numWorkers
  /\ StopThose(count + 1)
  /\ UNCHANGED <<sigVars, threadVars, refused>>

\* dirlist_scan has filled b_DirList.
Scan ==
  /\ pc = "create" /\ mpc = "idle" /\ count = numWorkers
  /\ pc' = "send"
  /\ count' = 0
  /\ left' = NumFiles
  /\ live' = {"entries"}
  /\ UNCHANGED <<sigVars, threadVars, portVars, phase, hashes, runVars, workerVars>>

\* The directory cannot be read: the run ends with an error.
ScanFails ==
  /\ pc = "create" /\ mpc = "idle" /\ count = numWorkers
  /\ pc' = "end"
  /\ live' = {"entries"}
  /\ UNCHANGED <<sigVars, threadVars, portVars, phase, count, left, hashes, runVars, workerVars>>

-----------------------------------------------------------------------------
(* The phases, binsort_genhashes, binsort_gendistances, binsort_genorder:  *)
(* send all the messages, then wait until all are replied to.              *)

Quota == IF phase = "hash" THEN NumFiles ELSE left

\* Files go to the workers in turn, the other messages to one worker each.
Receiver(k) == IF phase = "hash" THEN (k % numWorkers) + 1 ELSE k + 1

Send ==
  /\ pc = "send" /\ posting[Main] = Nobody
  /\ count < Quota
  /\ P!Put(Main, Receiver(count), Main, <<phase, count + 1>>)
  /\ count' = count + 1
  /\ UNCHANGED <<sigVars, threadVars, pc, phase, left, hashes, live, runVars, workerVars>>

PostFromMain ==
  /\ pc = "send"
  /\ P!Post(Main)
  /\ UNCHANGED <<threadVars, mainVars, workerVars>>

\* binsort_genhashes does not wait if there is no file to hash.
GoOnAtOnce == "next"
AfterSending == IF left = 0 THEN "next" ELSE "wait"

AllSent ==
  /\ pc = "send" /\ posting[Main] = Nobody
  /\ count = Quota
  /\ pc' = AfterSending
  /\ UNCHANGED <<sigVars, threadVars, portVars, phase, count, left, hashes, live, runVars, workerVars>>

AwaitReply ==
  /\ pc = "wait"
  /\ Sig!Wait(Main, IF phase = "hash" THEN {"USER"} ELSE {"USER", "UPDATE"}, FALSE)
  /\ pc' = "drain"
  /\ UNCHANGED <<threadVars, portVars, phase, count, left, hashes, live, runVars, workerVars>>

\* A hashed file gets the next den_Index.
IndexedAlways(m) == m[1] = "hash"
Indexed(m) == m[1] = "hash" /\ hashNode[m[2]]

TakeReply ==
  /\ pc = "drain" /\ Awake(Main)
  /\ \E m \in Messages :
       /\ P!Get(Main, m)
       /\ hashes' = IF Indexed(m) THEN Append(hashes, m[2]) ELSE hashes
  /\ left' = left - 1
  /\ UNCHANGED <<sigVars, threadVars, pc, phase, count, live, runVars, workerVars>>

\* The port is empty: the loop ends when no answer is missing.
NoneMissingButOne(l) == l <= 1
NoneMissing(l) == l = 0

Drained ==
  /\ pc = "drain" /\ Awake(Main)
  /\ queue[Main] = <<>>
  /\ pc' = IF NoneMissing(left) THEN "next" ELSE "wait"
  /\ UNCHANGED <<sigVars, threadVars, portVars, phase, count, left, hashes, live, runVars, workerVars>>

\* numworkers in binsort_gendistances.
DistanceWorkers ==
  LET most == Len(hashes) \div HashesPerWorker
  IN  IF most < 1 THEN 1 ELSE IF most < numWorkers THEN most ELSE numWorkers

\* After the hashes: distances, if there are more than two.
ToDistances ==
  /\ pc = "next" /\ phase = "hash"
  /\ Len(hashes) > 2
  /\ phase' = "dist"
  /\ left' = DistanceWorkers
  /\ count' = 0
  /\ live' = live \cup {"dist", "distances"}
  /\ pc' = "send"
  /\ UNCHANGED <<sigVars, threadVars, portVars, hashes, runVars, workerVars>>

\* The array of messages cannot be had: the run ends with an error.
NoMessages ==
  /\ MallocMayFail
  /\ pc = "next" /\ phase = "hash"
  /\ Len(hashes) > 2
  /\ pc' = "end"
  /\ refused' = "messages"
  /\ UNCHANGED <<sigVars, threadVars, portVars, phase, count, left, hashes, live, argsVars, numWorkers, workerVars>>

\* The array of distances cannot be had: nothing is sent, but awaited.
NoDistances ==
  /\ MallocMayFail
  /\ pc = "next" /\ phase = "hash"
  /\ Len(hashes) > 2
  /\ phase' = "dist"
  /\ left' = DistanceWorkers
  /\ live' = live \cup {"dist"}
  /\ pc' = "wait"
  /\ refused' = "distances"
  /\ UNCHANGED <<sigVars, threadVars, portVars, count, hashes, argsVars, numWorkers, workerVars>>

\* After the distances: free(msgs), and order is optimized.
FreedAfterDistances == {"dist"}

ToOrder ==
  /\ pc = "next" /\ phase = "dist"
  /\ phase' = "opt"
  /\ left' = numWorkers
  /\ count' = 0
  /\ live' = (live \ FreedAfterDistances) \cup {"opt", "order"}
  /\ pc' = "send"
  /\ UNCHANGED <<sigVars, threadVars, portVars, hashes, runVars, workerVars>>

\* One of the arrays of binsort_genorder cannot be had: the run ends with an
\* error, and where it is the second one the first is forgotten.
NoOrder ==
  /\ MallocMayFail
  /\ pc = "next" /\ phase = "dist"
  /\ \E leaked \in SUBSET {"opt"} : live' = (live \ {"dist", "distances"}) \cup leaked
  /\ pc' = "end"
  /\ refused' = "order"
  /\ UNCHANGED <<sigVars, threadVars, portVars, phase, count, left, hashes, argsVars, numWorkers, workerVars>>

\* After the order: free(msgs), binsort_freedistances, and the files are printed.
FreedButMessages == {"distances"}
FreedAfterOrder == {"opt", "distances"}

Finish ==
  /\ pc = "next"
  /\ phase = "hash" => Len(hashes) <= 2
  /\ phase # "dist"
  /\ live' = live \ FreedAfterOrder
  /\ pc' = "end"
  /\ UNCHANGED <<sigVars, threadVars, portVars, phase, count, left, hashes, runVars, workerVars>>

-----------------------------------------------------------------------------
(* binsort_destroy.                                                        *)

\* The memory is freed before the workers are stopped.
FreeAll ==
  /\ pc = "end"
  /\ live' = live \ {"order", "distances", "entries"}
  /\ count' = 0
  /\ pc' = "abort"
  /\ UNCHANGED <<sigVars, threadVars, portVars, phase, left, hashes, runVars, workerVars>>

AbortWorker ==
  /\ pc = "abort" /\ count < numWorkers
  /\ IF count + 1 \in handles THEN Sig!Signal(count + 1, {"ABORT"}) ELSE UNCHANGED sigVars
  /\ count' = count + 1
  /\ UNCHANGED <<threadVars, portVars, pc, phase, left, hashes, live, runVars, workerVars>>

AllAborted ==
  /\ pc = "abort" /\ count = numWorkers
  /\ count' = 0
  /\ pc' = "destroy"
  /\ UNCHANGED <<sigVars, threadVars, portVars, phase, left, hashes, live, runVars, workerVars>>

DestroyWorker ==
  /\ pc = "destroy"
  /\ \/ count < numWorkers /\ T!Abort(count + 1) /\ count' = count + 1
     \/ (T!ScanFinds \/ T!ScanFindsNot \/ T!AwaitDeath \/ T!Join) /\ UNCHANGED count
  /\ UNCHANGED <<portVars, pc, phase, left, hashes, live, runVars, workerVars>>

\* A null pointer in b_Workers.
SkipWorker ==
  /\ pc = "destroy" /\ mpc = "idle"
  /\ count < numWorkers /\ count + 1 \notin handles
  /\ count' = count + 1
  /\ UNCHANGED <<sigVars, threadVars, portVars, pc, phase, left, hashes, live, runVars, workerVars>>

Close ==
  /\ pc = "destroy" /\ count = numWorkers
  /\ T!Close
  /\ pc' = "closed"
  /\ UNCHANGED <<portVars, phase, count, left, hashes, live, runVars, workerVars>>

-----------------------------------------------------------------------------
(* binsort_worker.                                                         *)

In(w, where) == tpc[w] = "body" /\ wpc[w] = where /\ Awake(w)
Goto(w, where) == wpc' = [wpc EXCEPT ![w] = where]

WorkerWait(w) ==
  /\ In(w, "wait")
  /\ Sig!Wait(w, {"USER", "ABORT"}, FALSE)
  /\ Goto(w, "drain")
  /\ UNCHANGED <<threadVars, portVars, mainVars, current, hashNode, written>>

TakeMessage(w) ==
  /\ In(w, "drain")
  /\ \E m \in Messages : P!Get(w, m) /\ current' = [current EXCEPT ![w] = m]
  /\ Goto(w, "handle")
  /\ UNCHANGED <<sigVars, threadVars, mainVars, hashNode, written>>

\* The port is empty; the signals the wait returned say what comes next.
NoMessage(w) ==
  /\ In(w, "drain")
  /\ queue[w] = <<>>
  /\ IF "ABORT" \in got[w]
       THEN tpc' = [tpc EXCEPT ![w] = "returned"] /\ UNCHANGED wpc
       ELSE Goto(w, "wait") /\ UNCHANGED tpc
  /\ UNCHANGED <<sigVars, tasks, handles, status, parent, refs, holds, mpc, subject,
                 portVars, mainVars, current, hashNode, written>>

\* While it works on distances or on the order it may report progress.
ReportProgress(w) ==
  /\ In(w, "handle")
  /\ current[w][1] # "hash"
  /\ Sig!Signal(Main, {"UPDATE"})
  /\ UNCHANGED <<threadVars, portVars, mainVars, workerVars>>

\* A file is hashed, or cannot be; distances are written; the order is changed.
Handle(w) ==
  /\ In(w, "handle")
  /\ LET m == current[w]
     IN  /\ IF m[1] = "hash"
              THEN \E ok \in BOOLEAN : hashNode' = [hashNode EXCEPT ![m[2]] = ok]
              ELSE UNCHANGED hashNode
         /\ written' = IF m[1] = "dist" THEN written \cup {m[2]} ELSE written
  /\ Goto(w, "reply")
  /\ UNCHANGED <<sigVars, threadVars, portVars, mainVars, current>>

WorkerReply(w) ==
  /\ In(w, "reply")
  /\ P!Reply(w, current[w])
  /\ current' = [current EXCEPT ![w] = Nobody]
  /\ Goto(w, "post")
  /\ UNCHANGED <<sigVars, threadVars, mainVars, hashNode, written>>

\* The loop over the messages goes on.
OneMessageOnly(w) == Goto(w, "wait")
NextMessage(w) == Goto(w, "drain")

WorkerPost(w) ==
  /\ In(w, "post")
  /\ P!Post(w)
  /\ NextMessage(w)
  /\ UNCHANGED <<threadVars, mainVars, current, hashNode, written>>

-----------------------------------------------------------------------------
ThreadEntry(w) ==
  /\ T!AwaitSync(w) \/ T!Run(w) \/ T!Die(w) \/ T!Notify(w)
  /\ UNCHANGED <<portVars, mainVars, workerVars>>

Resume(t) == T!Resume(t) /\ UNCHANGED <<portVars, mainVars, workerVars>>

Spurious(t) == T!Spurious(t) /\ UNCHANGED <<portVars, mainVars, workerVars>>

MainStep ==
  \/ ParseArg \/ ArgsParsed \/ CheckArgs \/ InitFails
  \/ CreateWorker \/ CreateFails \/ HandleFails \/ Scan \/ ScanFails
  \/ Send \/ PostFromMain \/ AllSent \/ AwaitReply \/ TakeReply \/ Drained
  \/ ToDistances \/ NoMessages \/ NoDistances \/ ToOrder \/ NoOrder \/ Finish
  \/ FreeAll \/ AbortWorker \/ AllAborted \/ DestroyWorker \/ SkipWorker \/ Close

WorkerStep(w) ==
  \/ ThreadEntry(w)
  \/ WorkerWait(w) \/ TakeMessage(w) \/ NoMessage(w) \/ Handle(w)
  \/ WorkerReply(w) \/ WorkerPost(w)

Terminated == pc \in {"closed", "crashed"} /\ UNCHANGED vars

Next ==
  \/ MainStep
  \/ \E w \in Workers : WorkerStep(w) \/ ReportProgress(w)
  \/ \E t \in Threads : Resume(t) \/ Spurious(t)
  \/ Terminated

Spec == Init /\ [][Next]_vars

\* Every thread is scheduled for ever; what it calls for a message comes to
\* an end, whether or not it reports progress on the way.
FairSpec ==
  /\ Spec
  /\ WF_vars(MainStep)
  /\ \A w \in Workers : WF_vars(WorkerStep(w))
  /\ \A t \in Threads : WF_vars(Resume(t))

-----------------------------------------------------------------------------
(* Properties.                                                             *)

\* Every variable holds a value of its kind.
TypeOK ==
  /\ T!TypeOK
  /\ queue \in [Threads -> Seq(Messages)]
  /\ replyTo \in [Messages -> {Main, Nobody}]
  /\ holder \in [Messages -> Threads \cup {Nobody}]
  /\ posting \in [Threads -> Threads \cup {Nobody}]
  /\ argv \in Seq(ArgWords) /\ nextArg \in 1 .. Len(argv) + 1
  /\ given \subseteq NumberKeys \cup {"dir"} /\ await \in NumberKeys \cup {Nobody}
  /\ DOMAIN value = Keys /\ numWorkers \in 0 .. MaxWorkers
  /\ refused \in Refusals \cup {Nobody}
  /\ pc \in {"main", "check", "create", "send", "wait", "drain", "next", "end", "abort", "destroy", "closed",
            "crashed"}
  /\ phase \in Phases
  /\ count \in Nat /\ left \in Nat
  /\ hashes \in Seq(Files)
  /\ live \subseteq {"entries", "dist", "distances", "opt", "order"}
  /\ wpc \in [Workers -> {"wait", "drain", "handle", "reply", "post"}]
  /\ current \in [Workers -> Messages \cup {Nobody}]
  /\ hashNode \in [Files -> BOOLEAN]
  /\ written \subseteq Workers

\* What the handling of a message reads or writes.
Uses(m) ==
  CASE m[1] = "hash" -> {"entries"}
    [] m[1] = "dist" -> {"entries", "dist", "distances"}
    [] m[1] = "opt" -> {"entries", "opt", "order", "distances"}

\* The main thread frees nothing while a message that needs it is on its way
\* or being handled (free(msgs), binsort.c:461 and 623; binsort_free, 1026-1031).
MemoryLive ==
  \A m \in Messages : holder[m] # Main => Uses(m) \subseteq live

\* One phase at a time: only messages of the phase the main thread is in are
\* under way, so no worker reads distances that another still writes.
PhasesApart ==
  /\ \A m \in Messages : holder[m] # Main => m[1] = phase
  /\ \A w \in Workers : current[w] # Nobody /\ current[w][1] = "opt" =>
       written = 1 .. DistanceWorkers

\* The main thread knows how many answers are missing; only where the array of
\* distances was refused it awaits answers to messages it did not send: there
\* none is under way (binsort.c:424, 449-460).
AnswersCounted ==
  pc \in {"wait", "drain"} =>
    Cardinality({m \in Messages : holder[m] # Main}) = IF refused = "distances" THEN 0 ELSE left

\* den_Index is the position of the file's hash on b_Hashes, and every hashed
\* file has one when the distances are calculated.
HashesIndexed ==
  /\ \A k, l \in DOMAIN hashes : hashes[k] = hashes[l] => k = l
  /\ phase # "hash" => {hashes[k] : k \in DOMAIN hashes} = {f \in Files : hashNode[f]}

\* No message is stranded: a thread sleeps, unwoken, with a message at its
\* port only while the sender has still to signal it; and no worker leaves
\* its function before every message is with the main thread again, as NULL
\* comes from binsort_worker only for ABORT (binsort.c:909-913).
NoneStranded ==
  /\ \A t \in Threads :
       sleep[t] = "asleep" /\ "USER" \in mask[t] /\ queue[t] # <<>> =>
         \E s \in Threads : posting[s] = t
  /\ \A w \in Workers :
       tpc[w] \in {"returned", "notify", "exited", "gone"} => \A m \in Messages : holder[m] = Main

\* What binsort_genorder forgets if its second array is refused: the first one,
\* msgs (binsort.c:561-567).
Forgotten == IF refused = "order" THEN {"opt"} ELSE {}

\* The library is closed when no worker is left; no handle that has been freed
\* is on the list of tasks, unless a thread was refused (xpthread.c:846); and
\* whatever else failed, all that was allocated is freed by then, but for the
\* one array that is forgotten.
CleanEnd ==
  /\ T!HandlesLive
  /\ refused # "thread" => T!ListLive
  /\ pc = "closed" => live \subseteq Forgotten

\* The command line is read as it was meant: a directory and each option at
\* most once, in any order, and numbers within their bounds, or it is refused
\* (parseargs, main.c; binsort_init).
ArgsRight == pc = "check" => ReadAsAsked

\* assert(ISLISTEMPTY(&xpi->xpi_Tasks)) in xpthread_destroy (xpthread.c:991).
TasksEmpty == T!ListEmpty

\* "Results are not stable unless you specify -t 1" (README:26): with a single
\* worker the files get their den_Index in the order of the list, so that
\* what the optimization starts from is the same in every run.
StableAlone ==
  numWorkers = 1 => \A k, l \in DOMAIN hashes : k < l => hashes[k] < hashes[l]

\* A thread that does not wait for another one: it has not gone to sleep in
\* xp_wait, and if it is the main thread, whom it joins is over, and when it has
\* stopped all the workers none is left.
Going(t) ==
  IF t = Main
    THEN /\ sleep[Main] # "asleep"
         /\ mpc = "join" => tpc[subject] = "exited"
         /\ pc = "destroy" /\ mpc = "idle" /\ count = numWorkers => handles = {}
    ELSE sleep[t] # "asleep" /\ tpc[t] \notin {"none", "exited", "gone"}

\* Never does everybody wait for somebody else, in xp_wait (xpthread.c:481) or in
\* pthread_join (xpthread.c:905): not the main thread for answers no worker will
\* give or for a death it was told of before it slept, not the workers for
\* messages nobody will send.  A wakeup without a signal is not needed to get on.
NoDeadlock ==
  pc \in {"closed", "crashed"} \/ refused = "distances" \/ \E t \in Threads : Going(t)

\* Every run comes to its end, with the workers joined and the library closed,
\* or with a write to memory that was refused.
Ends == <>(pc \in {"closed", "crashed"})

\* So it is whatever fails, but for the array of distances.
EndsUnlessStuck == <>(pc \in {"closed", "crashed"} \/ refused = "distances")
=============================================================================
