---------------------------- MODULE BinsortProofs ----------------------------
(***************************************************************************)
(* Theorems about Binsort, for any number of workers and files and any     *)
(* command line: what the phases, the answers, the memory, the indices of  *)
(* the hashes, the sleeping threads and the end of a run are promised.     *)
(***************************************************************************)
EXTENDS Binsort, FiniteSetTheorems, SequenceTheorems, TLAPS

-----------------------------------------------------------------------------
(* The inductive invariant, in parts.                                      *)

\* The messages that are not with the main thread, and how many the phase has.
InFlight == {m \in Messages : holder[m] # Main}

Full == CASE phase = "hash" -> NumFiles
          [] phase = "dist" -> DistanceWorkers
          [] phase = "opt" -> numWorkers

\* What the place of the main thread says of its own variables.
Control ==
  /\ pc \notin {"main", "check", "closed", "crashed"} => numWorkers \in 1 .. MaxWorkers
  /\ phase # "hash" => numWorkers \in 1 .. MaxWorkers
  /\ pc \in {"main", "check"} => count = 0
  /\ pc = "create" => count <= numWorkers
  /\ pc \in {"main", "check", "create"} => phase = "hash" /\ hashes = <<>>
  /\ pc = "send" => left = Full /\ count <= left
  /\ pc = "send" /\ phase = "hash" => hashes = <<>>
  /\ posting[Main] # Nobody => pc = "send" /\ posting[Main] \in Workers
  /\ refused = "distances" => phase = "dist" /\ pc \in {"wait", "drain"}
  /\ refused = "thread" => pc \in {"abort", "destroy", "closed", "crashed"}
  /\ mpc \in {"spawn", "adopt", "kick"} => pc = "create"
  /\ mpc \in {"scan", "wait", "join"} => pc = "destroy"
  /\ mpc = "closed" => pc = "closed"

\* A child that has returned from its first wait has a parent; one that is dead
\* has left its function; nobody refers to a thread.
ChildInv(w) ==
  /\ "SYNC" \in sigState[w] => parent[w] = Main
  /\ tpc[w] \in {"none", "entry"} => sleep[w] = "running"
  /\ tpc[w] = "sync" => mask[w] = {"SYNC"} /\ (sleep[w] = "running" => parent[w] = Main)
  /\ status[w] = "dead" => tpc[w] \in {"notify", "exited", "gone"}
  /\ wpc[w] \in {"handle", "reply", "post"} => tpc[w] = "body"
  /\ holds[w] = Nobody

\* Main's call is about a thread whose handle there is.
ThreadInv ==
  /\ T!HandlesLive
  /\ mpc \in {"spawn", "adopt", "kick", "scan", "wait", "join"} => subject \in handles
  /\ mpc = "spawn" => tpc[subject] = "none"
  /\ mpc = "kick" => parent[subject] = Main
  /\ mpc = "join" => subject \notin tasks /\ status[subject] = "dead"
  /\ mpc = "closed" => handles = {}
  /\ refused # "thread" => tasks \subseteq handles
  /\ \A w \in Workers : ChildInv(w)

\* Nobody sleeps on what is pending, and each sleeps only where it waits.
SleepInv ==
  /\ \A t \in Threads : sleep[t] = "asleep" => sigState[t] \cap mask[t] = {}
  /\ \A w \in Workers : sleep[w] # "running" =>
       \/ tpc[w] = "sync" /\ mask[w] = {"SYNC"}
       \/ tpc[w] = "body" /\ wpc[w] = "drain"
  /\ sleep[Main] # "running" =>
       \/ pc = "drain"
       \/ pc = "destroy" /\ mpc = "scan" /\ mask[Main] = {"SYNC"}

\* What is on the queues is with nobody, and on one queue once.
QueueInv ==
  /\ \A t \in Threads : \A k \in DOMAIN queue[t] : holder[queue[t][k]] = Nobody
  /\ \A m \in Messages : holder[m] = Nobody =>
       \E t \in Threads : \E k \in DOMAIN queue[t] : queue[t][k] = m
  /\ \A t, u \in Threads : \A k \in DOMAIN queue[t], l \in DOMAIN queue[u] :
       queue[t][k] = queue[u][l] => t = u /\ k = l

\* What a worker has is its current message, and that will be replied to.
HoldsInv(w) ==
  /\ current[w] # Nobody <=> wpc[w] \in {"handle", "reply"}
  /\ current[w] # Nobody => holder[current[w]] = w /\ replyTo[current[w]] = Main
  /\ \A m \in Messages : holder[m] = w => current[w] = m
  /\ \A k \in DOMAIN queue[w] : replyTo[queue[w][k]] = Main
  /\ posting[w] = IF wpc[w] = "post" THEN Main ELSE Nobody

\* So a message is in one place: with the main thread, with the worker whose
\* current message it is, or on the queue of one port.
PortInv == QueueInv /\ \A w \in Workers : HoldsInv(w)

\* The messages that are under way are those the main thread awaits.
FlightInv ==
  /\ pc = "send" => InFlight = {phase} \X (1 .. count)
  /\ pc \in {"wait", "drain"} /\ refused # "distances" => left = Cardinality(InFlight)
  /\ refused = "distances" => left >= 1
  /\ pc \notin {"send", "wait", "drain"} \/ refused = "distances" => InFlight = {}
  /\ InFlight \subseteq {phase} \X (1 .. Full)

\* What is allocated, phase by phase.
Allocated == CASE phase = "hash" -> {"entries"}
               [] phase = "dist" -> {"entries", "dist", "distances"}
               [] phase = "opt" -> {"entries", "opt", "distances", "order"}

LiveInv ==
  /\ pc \in {"main", "check", "create"} => live = {}
  /\ pc \in {"send", "wait", "drain", "next"} /\ refused # "distances" => live = Allocated
  /\ pc = "end" => live \subseteq {"entries", "order"} \cup Forgotten
  /\ pc \in {"abort", "destroy", "closed"} => live \subseteq Forgotten

\* A hashed file is on b_Hashes once, or its answer is under way.
IndexInv ==
  /\ \A k, l \in DOMAIN hashes : hashes[k] = hashes[l] => k = l
  /\ \A k \in DOMAIN hashes : hashNode[hashes[k]] /\ holder[<<"hash", hashes[k]>>] = Main
  /\ \A f \in Files : hashNode[f] =>
       \/ \E k \in DOMAIN hashes : hashes[k] = f
       \/ holder[<<"hash", f>>] # Main

\* Rows are written, or there is a worker that has still to write them.
Unwritten(m) == \E w \in Workers :
  \/ \E k \in DOMAIN queue[w] : queue[w][k] = m
  \/ current[w] = m /\ wpc[w] = "handle"

WrittenInv ==
  /\ phase = "hash" => written = {}
  /\ phase = "dist" => written \subseteq 1 .. DistanceWorkers
  /\ phase = "dist" /\ refused # "distances" =>
       \A k \in 1 .. (IF pc = "send" THEN count ELSE DistanceWorkers) :
         k \in written \/ Unwritten(<<"dist", k>>)
  /\ phase = "opt" => written = 1 .. DistanceWorkers

\* The files of a single worker, from b_Hashes over the answers, the current
\* message and its queue, are in their order.
Before(S, U) == \A a \in S, b \in U : a < b
Ordered(q) == \A k, l \in DOMAIN q : k < l => q[k][2] < q[l][2]
Numbers(t) == {queue[t][k][2] : k \in DOMAIN queue[t]}
Hashed == {hashes[k] : k \in DOMAIN hashes}
AtHand == IF current[1] = Nobody THEN {} ELSE {current[1][2]}

StableInv ==
  /\ StableAlone
  /\ numWorkers = 1 /\ phase = "hash" =>
       /\ \A w \in Workers \ {1} : queue[w] = <<>> /\ current[w] = Nobody
       /\ Ordered(queue[Main]) /\ Ordered(queue[1])
       /\ Before(Hashed, Numbers(Main)) /\ Before(Hashed, AtHand) /\ Before(Hashed, Numbers(1))
       /\ Before(Numbers(Main), AtHand) /\ Before(Numbers(Main), Numbers(1))
       /\ Before(AtHand, Numbers(1))

\* A thread that has messages is about to be signalled, has been, or goes
\* on to look at its port.
WillDrain(t) ==
  /\ sleep[t] = "running"
  /\ IF t = Main THEN pc = "drain" ELSE tpc[t] = "body" /\ wpc[t] # "wait"

StrandedInv ==
  \A t \in Threads : queue[t] # <<>> =>
    \/ \E s \in Threads : posting[s] = t
    \/ "USER" \in sigState[t]
    \/ WillDrain(t)

RunInv ==
  /\ TypeOK /\ Control /\ ThreadInv /\ SleepInv /\ PortInv /\ FlightInv /\ LiveInv
  /\ IndexInv /\ WrittenInv /\ StableInv /\ StrandedInv

-----------------------------------------------------------------------------
(* What the calls of XPSignal do, as far as it matters here.  XPThread and *)
(* XPPort call the same operators as Binsort.                              *)

LEMMA SameSignal ==
  ASSUME NEW t, NEW signals
  PROVE  /\ T!Sig!Signal(t, signals) <=> Sig!Signal(t, signals)
         /\ P!Sig!Signal(t, signals) <=> Sig!Signal(t, signals)
BY DEF T!Sig!Signal, T!Sig!EventSignal, P!Sig!Signal, P!Sig!EventSignal, Sig!Signal, Sig!EventSignal

LEMMA SameWait ==
  ASSUME NEW t, NEW m, NEW b
  PROVE  /\ T!Sig!Wait(t, m, b) <=> Sig!Wait(t, m, b)
         /\ T!Sig!Resume(t) <=> Sig!Resume(t)
         /\ T!Sig!SpuriousWakeup(t) <=> Sig!SpuriousWakeup(t)
BY DEF T!Sig!Wait, T!Sig!Turn, T!Sig!Resume, T!Sig!SpuriousWakeup,
       Sig!Wait, Sig!Turn, Sig!Resume, Sig!SpuriousWakeup

\* Signalling wakes a sleeper, but lets nobody return from xp_wait.
LEMMA SignalEffect ==
  ASSUME Sig!TypeOK, NEW t \in Threads, NEW signals \in SUBSET T!Signals, Sig!Signal(t, signals)
  PROVE  /\ Sig!TypeOK'
         /\ sigState' = [sigState EXCEPT ![t] = @ \cup signals]
         /\ mask' = mask /\ got' = got
         /\ \A x \in Threads : sleep'[x] = "running" <=> sleep[x] = "running"
         /\ \A x \in Threads : sleep'[x] = "asleep" =>
              sleep[x] = "asleep" /\ sigState'[x] = sigState[x]
BY DEF Sig!TypeOK, Sig!Signal, Sig!EventSignal

\* Who returns from xp_wait has one of the signals of its mask.
LEMMA WaitEffect ==
  ASSUME Sig!TypeOK, NEW t \in Threads, NEW m \in SUBSET T!Signals, Sig!Wait(t, m, FALSE)
  PROVE  /\ Sig!TypeOK' /\ sleep[t] = "running"
         /\ \A x \in Threads \ {t} :
              sigState'[x] = sigState[x] /\ mask'[x] = mask[x] /\ sleep'[x] = sleep[x]
         /\ sigState'[t] = sigState[t] \ m /\ mask'[t] = m
         /\ sleep'[t] = "running" => sigState[t] \cap m # {}
         /\ sleep'[t] = "asleep" => sigState'[t] \cap m = {}
         /\ sleep'[t] \in {"running", "asleep"}
         /\ sigState[t] \cap m # {} => sleep'[t] = "running"
BY DEF Sig!TypeOK, Sig!Wait, Sig!Turn

LEMMA ResumeEffect ==
  ASSUME Sig!TypeOK, NEW t \in Threads, Sig!Resume(t)
  PROVE  /\ Sig!TypeOK' /\ sleep[t] = "woken"
         /\ \A x \in Threads \ {t} :
              sigState'[x] = sigState[x] /\ mask'[x] = mask[x] /\ sleep'[x] = sleep[x]
         /\ sigState'[t] = sigState[t] \ mask[t] /\ mask'[t] = mask[t]
         /\ sleep'[t] = "running" => sigState[t] \cap mask[t] # {}
         /\ sleep'[t] = "asleep" => sigState'[t] \cap mask[t] = {}
         /\ sleep'[t] \in {"running", "asleep"}
         /\ sigState[t] \cap mask[t] # {} => sleep'[t] = "running"
BY DEF Sig!TypeOK, Sig!Resume, Sig!Turn

LEMMA SpuriousEffect ==
  ASSUME Sig!TypeOK, NEW t \in Threads, Sig!SpuriousWakeup(t)
  PROVE  /\ Sig!TypeOK' /\ sleep[t] = "asleep"
         /\ sigState' = sigState /\ mask' = mask
         /\ sleep' = [sleep EXCEPT ![t] = "woken"]
BY DEF Sig!TypeOK, Sig!SpuriousWakeup

-----------------------------------------------------------------------------
(* Which steps change what.                                                *)

LEMMA SomeWorkers == MaxWorkers \in Nat \ {0} /\ Workers = 1 .. MaxWorkers
<1>1. IntSize \div 2 \in Int
  BY ArgsAssumption
<1> QED BY <1>1, ArgsAssumption DEF Workers

LEMMA NextWorker == TypeOK /\ count < numWorkers => count + 1 \in Workers
<1>1. TypeOK => count \in Nat /\ numWorkers \in 0 .. MaxWorkers
  BY DEF TypeOK
<1> QED BY <1>1, SomeWorkers

\* The steps of the main thread and of the workers that have to do with messages.
MessageStep ==
  \/ Send \/ PostFromMain \/ TakeReply
  \/ \E w \in Workers : \/ WorkerWait(w) \/ TakeMessage(w) \/ NoMessage(w) \/ Handle(w)
                        \/ WorkerReply(w) \/ WorkerPost(w)

LEMMA MessagesElsewhere == [Next]_vars => MessageStep \/ UNCHANGED <<portVars, workerVars>>
BY DEF Next, MainStep, WorkerStep, ThreadEntry, Resume, Spurious, Terminated, MessageStep, vars,
       ParseArg, ArgsParsed, CheckArgs, InitFails, CreateWorker, CreateFails, HandleFails, StopThose,
       Scan, ScanFails, AllSent, AwaitReply, Drained, ToDistances, NoMessages, NoDistances, ToOrder,
       NoOrder, Finish, FreeAll, AbortWorker, AllAborted, DestroyWorker, SkipWorker, Close,
       ReportProgress

\* The steps that have to do with threads.
ThreadStep ==
  \/ \E w \in Workers : T!Link(w) \/ T!Abort(w) \/ NoMessage(w)
  \/ T!Spawn \/ CreateFails \/ T!AdoptThenKick \/ T!ScanFinds \/ T!ScanFindsNot \/ T!AwaitDeath
  \/ T!Join \/ T!Close
  \/ \E w \in Workers : T!AwaitSync(w) \/ T!Run(w) \/ T!Die(w) \/ T!Notify(w)

LEMMA ThreadsElsewhere ==
  TypeOK /\ [Next]_vars => ThreadStep \/ UNCHANGED threadVars
<1> SUFFICES ASSUME TypeOK, [Next]_vars PROVE ThreadStep \/ UNCHANGED threadVars
  OBVIOUS
<1>1. CASE CreateWorker
  BY <1>1, NextWorker DEF CreateWorker, ThreadStep
<1>2. CASE DestroyWorker
  BY <1>2, NextWorker DEF DestroyWorker, ThreadStep
<1>3. CASE \/ ParseArg \/ ArgsParsed \/ CheckArgs \/ InitFails \/ CreateFails \/ HandleFails \/ Scan
           \/ ScanFails \/ Send \/ PostFromMain \/ AllSent \/ AwaitReply \/ TakeReply \/ Drained
  BY <1>3 DEF ParseArg, ArgsParsed, CheckArgs, InitFails, HandleFails, StopThose, Scan, ScanFails, Send,
              PostFromMain, TakeReply, AllSent, AwaitReply, Drained, ThreadStep, T!listVars, threadVars
<1>4. CASE \/ ToDistances \/ NoMessages \/ NoDistances \/ ToOrder \/ NoOrder \/ Finish \/ FreeAll
           \/ AbortWorker \/ AllAborted \/ SkipWorker \/ Close
  BY <1>4 DEF ToDistances, NoMessages, NoDistances, ToOrder, NoOrder, Finish, FreeAll, AbortWorker,
              AllAborted, SkipWorker, Close, ThreadStep, T!listVars, threadVars
<1>5. ASSUME NEW w \in Workers, WorkerStep(w) \/ ReportProgress(w)
      PROVE  ThreadStep \/ UNCHANGED threadVars
  BY <1>5 DEF WorkerStep, ThreadEntry, ReportProgress, WorkerWait, TakeMessage, Handle, WorkerReply,
              WorkerPost, ThreadStep, T!listVars, threadVars
<1>6. ASSUME NEW t \in Threads, Resume(t) \/ Spurious(t) PROVE UNCHANGED threadVars
  BY <1>6 DEF Resume, Spurious, T!Resume, T!Spurious, T!listVars, threadVars
<1>7. CASE Terminated \/ UNCHANGED vars
  BY <1>7 DEF Terminated, vars, threadVars
<1> QED BY <1>1, <1>2, <1>3, <1>4, <1>5, <1>6, <1>7 DEF Next, MainStep

\* What a step does to the signals: at most one call of one thread, or the
\* signals of a new handle are cleared.
SignalStep ==
  \/ UNCHANGED sigVars
  \/ \E w \in Workers : T!Link(w)
  \/ \E t \in Threads, signals \in SUBSET T!Signals : Sig!Signal(t, signals)
  \/ AwaitReply \/ T!AwaitDeath
  \/ \E w \in Workers : WorkerWait(w) \/ T!AwaitSync(w)
  \/ \E t \in Threads : Sig!Resume(t) \/ Sig!SpuriousWakeup(t)

LEMMA SignalsOneByOne == TypeOK /\ Control /\ ThreadInv /\ [Next]_vars => SignalStep
<1> SUFFICES ASSUME TypeOK, Control, ThreadInv, [Next]_vars PROVE SignalStep
  OBVIOUS
<1> DEFINE Posts == \E t \in Threads, signals \in SUBSET T!Signals : Sig!Signal(t, signals)
           Waits == AwaitReply \/ T!AwaitDeath \/ \E w \in Workers : WorkerWait(w) \/ T!AwaitSync(w)
           Wakes == \E t \in Threads : Sig!Resume(t) \/ Sig!SpuriousWakeup(t)
<1>0. /\ \A signal \in {"SYNC", "USER", "ABORT", "UPDATE"} : {signal} \in SUBSET T!Signals
      /\ {"USER", "UPDATE"} \in SUBSET T!Signals /\ {"USER", "ABORT"} \in SUBSET T!Signals
      /\ Main \in Threads /\ \A w \in Workers : w \in Threads
  BY DEF T!Signals, Threads
<1>1. CASE ThreadStep
  <2>1. ASSUME NEW w \in Workers, T!Abort(w) PROVE Posts
    BY <1>0, <2>1, SameSignal DEF T!Abort
  <2>2. ASSUME T!AdoptThenKick PROVE Posts \/ UNCHANGED sigVars
    <3>1. mpc = "kick" => subject \in Workers
      BY DEF ThreadInv, TypeOK, T!TypeOK
    <3> QED BY <1>0, <2>2, <3>1, SameSignal DEF T!AdoptThenKick, T!sigVars, sigVars
  <2>3. ASSUME T!AwaitDeath PROVE Waits
    BY <2>3
  <2>4. ASSUME NEW w \in Workers, T!AwaitSync(w) PROVE Waits
    BY <2>4
  <2>5. ASSUME NEW w \in Workers, T!Notify(w) PROVE Posts
    <3>1. parent[w] = Main
      BY <2>5 DEF T!Notify, ThreadInv, T!HandlesLive
    <3> QED BY <1>0, <2>5, <3>1, SameSignal DEF T!Notify
  <2>6. ASSUME T!Spawn \/ CreateFails \/ T!ScanFinds \/ T!ScanFindsNot \/ T!Join \/ T!Close
        PROVE  UNCHANGED sigVars
    BY <2>6 DEF T!Spawn, CreateFails, T!SpawnFails, T!ScanFinds, T!ScanFindsNot, T!Join, T!Close,
                T!sigVars, sigVars
  <2>7. ASSUME NEW w \in Workers, NoMessage(w) \/ T!Run(w) \/ T!Die(w) PROVE UNCHANGED sigVars
    BY <2>7 DEF NoMessage, T!Run, T!Die, T!sigVars, sigVars
  <2> QED BY <1>1, <2>1, <2>2, <2>3, <2>4, <2>5, <2>6, <2>7 DEF ThreadStep, SignalStep
<1>2. CASE MessageStep
  <2>1. ASSUME PostFromMain PROVE Posts
    <3>1. posting[Main] \in Threads
      BY <2>1 DEF PostFromMain, P!Post, TypeOK, Threads
    <3> QED BY <1>0, <2>1, <3>1, SameSignal DEF PostFromMain, P!Post
  <2>2. ASSUME NEW w \in Workers, WorkerPost(w) PROVE Posts
    <3>1. posting[w] \in Threads
      BY <2>2 DEF WorkerPost, P!Post, TypeOK, Threads
    <3> QED BY <1>0, <2>2, <3>1, SameSignal DEF WorkerPost, P!Post
  <2>3. ASSUME NEW w \in Workers, WorkerWait(w) PROVE Waits
    BY <2>3
  <2>4. ASSUME Send \/ TakeReply PROVE UNCHANGED sigVars
    BY <2>4 DEF Send, TakeReply
  <2>5. ASSUME NEW w \in Workers, TakeMessage(w) \/ NoMessage(w) \/ Handle(w) \/ WorkerReply(w)
        PROVE  UNCHANGED sigVars
    BY <2>5 DEF TakeMessage, NoMessage, Handle, WorkerReply
  <2> QED BY <1>2, <2>1, <2>2, <2>3, <2>4, <2>5 DEF MessageStep, SignalStep
<1>3. ASSUME AwaitReply PROVE Waits
  BY <1>3
<1>4. ASSUME AbortWorker PROVE Posts \/ UNCHANGED sigVars
  BY <1>0, <1>4, NextWorker DEF AbortWorker
<1>5. ASSUME NEW w \in Workers, ReportProgress(w) PROVE Posts
  BY <1>0, <1>5 DEF ReportProgress
<1>6. ASSUME NEW t \in Threads, Resume(t) \/ Spurious(t) PROVE Wakes
  BY <1>6, SameWait DEF Resume, Spurious, T!Resume, T!Spurious
<1>7. ASSUME CreateWorker \/ DestroyWorker \/ Close PROVE ThreadStep
  BY <1>7, NextWorker DEF CreateWorker, DestroyWorker, Close, ThreadStep
<1> HIDE DEF Posts, Waits, Wakes
<1>8. CASE UNCHANGED vars
  BY <1>8 DEF vars, SignalStep
<1>9. CASE \/ ParseArg \/ ArgsParsed \/ CheckArgs \/ InitFails \/ HandleFails \/ Scan \/ ScanFails
           \/ AllSent \/ Drained \/ ToDistances \/ NoMessages \/ NoDistances \/ ToOrder \/ NoOrder
           \/ Finish \/ FreeAll \/ AllAborted \/ SkipWorker \/ Terminated
  BY <1>9 DEF ParseArg, ArgsParsed, CheckArgs, InitFails, HandleFails, Scan, ScanFails,
              AllSent, Drained, ToDistances, NoMessages, NoDistances, ToOrder, NoOrder, Finish,
              FreeAll, AllAborted, SkipWorker, Terminated, SignalStep, vars
<1> QED
  <2>1. ThreadStep \/ MessageStep \/ AwaitReply \/ AbortWorker
        \/ (\E w \in Workers : ReportProgress(w)) \/ (\E t \in Threads : Resume(t) \/ Spurious(t))
        \/ UNCHANGED vars
        \/ (\/ ParseArg \/ ArgsParsed \/ CheckArgs \/ InitFails \/ HandleFails \/ Scan \/ ScanFails
            \/ AllSent \/ Drained \/ ToDistances \/ NoMessages \/ NoDistances \/ ToOrder \/ NoOrder
            \/ Finish \/ FreeAll \/ AllAborted \/ SkipWorker \/ Terminated)
    BY <1>7 DEF Next, MainStep, WorkerStep, ThreadEntry, ThreadStep, MessageStep
  <2>2. Posts \/ Waits \/ Wakes => SignalStep
    BY DEF SignalStep, Posts, Waits, Wakes
  <2>3. (\E w \in Workers : ReportProgress(w)) => SignalStep
    BY <1>5, <2>2
  <2>4. (\E t \in Threads : Resume(t) \/ Spurious(t)) => SignalStep
    BY <1>6, <2>2
  <2>5. AwaitReply \/ AbortWorker => SignalStep
    BY <1>3, <1>4, <2>2 DEF SignalStep
  <2> QED BY <1>1, <1>2, <1>8, <1>9, <2>1, <2>3, <2>4, <2>5

\* So the signals keep their types, and nobody sleeps on what is pending.
LEMMA SignalsKept ==
  ASSUME TypeOK, Control, ThreadInv, SleepInv, [Next]_vars
  PROVE  /\ Sig!TypeOK'
         /\ \A t \in Threads : sleep'[t] = "asleep" => sigState'[t] \cap mask'[t] = {}
<1> DEFINE NoneAsleep == \A t \in Threads : sleep[t] = "asleep" => sigState[t] \cap mask[t] = {}
<1>0. Sig!TypeOK
  BY DEF TypeOK, T!TypeOK, T!Sig!TypeOK, T!Threads, T!Signals, Sig!TypeOK, Threads
<1>1. NoneAsleep
  BY DEF SleepInv
<1>2. CASE UNCHANGED sigVars
  BY <1>0, <1>1, <1>2 DEF Sig!TypeOK, sigVars
<1>3. ASSUME NEW w \in Workers, T!Link(w) PROVE Sig!TypeOK' /\ NoneAsleep'
  BY <1>0, <1>1, <1>3 DEF T!Link, Sig!TypeOK, Threads
<1>4. ASSUME NEW t \in Threads, NEW signals \in SUBSET T!Signals, Sig!Signal(t, signals)
      PROVE  Sig!TypeOK' /\ NoneAsleep'
  BY <1>0, <1>1, <1>4, SignalEffect
<1>5. ASSUME NEW t \in Threads, NEW m \in SUBSET T!Signals, Sig!Wait(t, m, FALSE)
      PROVE  Sig!TypeOK' /\ NoneAsleep'
  <2>1. Sig!TypeOK' /\ mask'[t] = m /\ (sleep'[t] = "asleep" => sigState'[t] \cap m = {})
    BY <1>0, <1>5 DEF Sig!TypeOK, Sig!Wait, Sig!Turn
  <2>2. \A x \in Threads \ {t} :
          sigState'[x] = sigState[x] /\ mask'[x] = mask[x] /\ sleep'[x] = sleep[x]
    BY <1>0, <1>5, WaitEffect
  <2> QED BY <1>1, <2>1, <2>2
<1>6. ASSUME NEW t \in Threads, Sig!Resume(t) PROVE Sig!TypeOK' /\ NoneAsleep'
  BY <1>0, <1>1, <1>6, ResumeEffect
<1>7. ASSUME NEW t \in Threads, Sig!SpuriousWakeup(t) PROVE Sig!TypeOK' /\ NoneAsleep'
  <2>1. \A x \in Threads : sleep'[x] = "asleep" => sleep[x] = "asleep"
    BY <1>0, <1>7, SpuriousEffect DEF Sig!TypeOK
  <2> QED BY <1>0, <1>1, <1>7, <2>1, SpuriousEffect
<1>8. {"SYNC"} \in SUBSET T!Signals /\ {"USER"} \in SUBSET T!Signals
      /\ {"USER", "UPDATE"} \in SUBSET T!Signals /\ {"USER", "ABORT"} \in SUBSET T!Signals
      /\ Main \in Threads /\ \A w \in Workers : w \in Threads
  BY DEF T!Signals, Threads
<1>9. CASE AwaitReply
  BY <1>5, <1>8, <1>9 DEF AwaitReply
<1>10. CASE T!AwaitDeath
  BY <1>5, <1>8, <1>10, SameWait DEF T!AwaitDeath
<1>11. ASSUME NEW w \in Workers, WorkerWait(w) PROVE Sig!TypeOK' /\ NoneAsleep'
  BY <1>5, <1>8, <1>11 DEF WorkerWait
<1>12. ASSUME NEW w \in Workers, T!AwaitSync(w) PROVE Sig!TypeOK' /\ NoneAsleep'
  BY <1>5, <1>8, <1>12, SameWait DEF T!AwaitSync
<1>13. SignalStep
  BY SignalsOneByOne
<1> QED BY <1>2, <1>3, <1>4, <1>6, <1>7, <1>9, <1>10, <1>11, <1>12, <1>13 DEF SignalStep

-----------------------------------------------------------------------------
(* Types.                                                                  *)

PortTypes ==
  /\ queue \in [Threads -> Seq(Messages)]
  /\ replyTo \in [Messages -> {Main, Nobody}]
  /\ holder \in [Messages -> Threads \cup {Nobody}]
  /\ posting \in [Threads -> Threads \cup {Nobody}]

WorkerTypes ==
  /\ wpc \in [Workers -> {"wait", "drain", "handle", "reply", "post"}]
  /\ current \in [Workers -> Messages \cup {Nobody}]
  /\ hashNode \in [Files -> BOOLEAN]
  /\ written \subseteq Workers

ArgTypes ==
  /\ argv \in Seq(ArgWords) /\ nextArg \in 1 .. Len(argv) + 1
  /\ given \subseteq NumberKeys \cup {"dir"} /\ await \in NumberKeys \cup {Nobody}
  /\ DOMAIN value = Keys

MainTypes ==
  /\ numWorkers \in 0 .. MaxWorkers
  /\ refused \in Refusals \cup {Nobody}
  /\ pc \in {"main", "check", "create", "send", "wait", "drain", "next", "end", "abort", "destroy",
            "closed", "crashed"}
  /\ phase \in Phases
  /\ count \in Nat /\ left \in Nat
  /\ hashes \in Seq(Files)
  /\ live \subseteq {"entries", "dist", "distances", "opt", "order"}

LEMMA TypeParts ==
  TypeOK <=> T!TypeOK /\ PortTypes /\ WorkerTypes /\ ArgTypes /\ MainTypes
BY DEF TypeOK, PortTypes, WorkerTypes, ArgTypes, MainTypes

LEMMA NobodyElse ==
  /\ Main \notin Workers /\ Nobody \notin Threads /\ Nobody \notin Messages
  /\ Nobody \notin Workers /\ Nobody # Main
  /\ Nobody \notin Refusals
BY BinsortAssumption DEF Threads

\* A message is put at the end of a queue.
LEMMA PutEffect ==
  ASSUME PortTypes, NEW t \in Threads, NEW port \in Threads, NEW reply \in {Main, Nobody},
         NEW m \in Messages, P!Put(t, port, reply, m)
  PROVE  /\ PortTypes'
         /\ posting[t] = Nobody /\ posting' = [posting EXCEPT ![t] = port]
         /\ holder' = [holder EXCEPT ![m] = Nobody]
         /\ replyTo' = [replyTo EXCEPT ![m] = reply]
         /\ \A u \in Threads \ {port} : queue'[u] = queue[u]
         /\ Len(queue[port]) \in Nat /\ DOMAIN queue[port] = 1 .. Len(queue[port])
         /\ DOMAIN queue'[port] = 1 .. Len(queue[port]) + 1
         /\ \A k \in DOMAIN queue[port] : queue'[port][k] = queue[port][k]
         /\ queue'[port][Len(queue[port]) + 1] = m
<1>1. queue[port] \in Seq(Messages)
  BY DEF PortTypes
<1>2. queue' = [queue EXCEPT ![port] = Append(queue[port], m)]
  BY DEF P!Put
<1>3. /\ Append(queue[port], m) \in Seq(Messages)
      /\ Len(Append(queue[port], m)) = Len(queue[port]) + 1
      /\ \A k \in 1 .. Len(queue[port]) : Append(queue[port], m)[k] = queue[port][k]
      /\ Append(queue[port], m)[Len(queue[port]) + 1] = m
  BY <1>1, AppendProperties
<1>4. /\ Len(queue[port]) \in Nat /\ DOMAIN queue[port] = 1 .. Len(queue[port])
      /\ DOMAIN Append(queue[port], m) = 1 .. Len(Append(queue[port], m))
  BY <1>1, <1>3, LenProperties
<1>5. queue'[port] = Append(queue[port], m) /\ \A u \in Threads \ {port} : queue'[u] = queue[u]
  BY <1>2 DEF PortTypes
<1>6. PortTypes'
  BY <1>2, <1>3 DEF PortTypes, P!Put
<1> HIDE DEF PortTypes
<1> QED BY <1>1, <1>3, <1>4, <1>5, <1>6 DEF P!Put

\* A message is taken from the beginning of a queue.
LEMMA GetEffect ==
  ASSUME PortTypes, NEW t \in Threads, NEW m \in Messages, P!Get(t, m)
  PROVE  /\ PortTypes'
         /\ posting' = posting /\ replyTo' = replyTo
         /\ holder' = [holder EXCEPT ![m] = t]
         /\ \A u \in Threads \ {t} : queue'[u] = queue[u]
         /\ Len(queue[t]) \in Nat \ {0} /\ DOMAIN queue[t] = 1 .. Len(queue[t])
         /\ DOMAIN queue'[t] = 1 .. Len(queue[t]) - 1
         /\ queue[t][1] = m
         /\ \A k \in DOMAIN queue'[t] : queue'[t][k] = queue[t][k + 1]
<1>1. queue[t] \in Seq(Messages) /\ queue[t] # <<>>
  BY DEF PortTypes, P!Get
<1>2. queue' = [queue EXCEPT ![t] = Tail(queue[t])]
  BY DEF P!Get
<1>3. /\ Tail(queue[t]) \in Seq(Messages)
      /\ Len(Tail(queue[t])) = Len(queue[t]) - 1
      /\ \A k \in 1 .. Len(Tail(queue[t])) : Tail(queue[t])[k] = queue[t][k + 1]
  BY <1>1, HeadTailProperties
<1>4. /\ Len(queue[t]) \in Nat \ {0} /\ DOMAIN queue[t] = 1 .. Len(queue[t])
      /\ DOMAIN Tail(queue[t]) = 1 .. Len(Tail(queue[t]))
  BY <1>1, <1>3, LenProperties, EmptySeq
<1>5. queue'[t] = Tail(queue[t]) /\ \A u \in Threads \ {t} : queue'[u] = queue[u]
  BY <1>2 DEF PortTypes
<1>6. PortTypes'
  BY <1>2, <1>3 DEF PortTypes, P!Get
<1>7. m = queue[t][1]
  BY <1>1 DEF P!Get
<1> QED BY <1>3, <1>4, <1>5, <1>6, <1>7 DEF P!Get

\* Where a message goes that the main thread sends, or that a worker replies to.
LEMMA SendWhere ==
  ASSUME TypeOK, Control, Send
  PROVE  /\ Receiver(count) \in 1 .. numWorkers
         /\ Receiver(count) \in Workers /\ <<phase, count + 1>> \in Messages
         /\ count + 1 <= Full /\ phase \in Phases
<1>0. /\ count \in Nat /\ left \in Nat /\ numWorkers \in 1 .. MaxWorkers /\ count < left
      /\ left = Full /\ phase \in Phases /\ Len(hashes) \in Nat
  <2>1. Len(hashes) \in Nat
    BY DEF TypeOK
  <2>2. count < Quota
    BY DEF Send
  <2> QED BY <2>1, <2>2, SomeWorkers, BinsortAssumption DEF TypeOK, Control, Send, Quota, Full, Phases
<1>1. Full <= IF phase = "hash" THEN NumFiles ELSE numWorkers
  <2>1. phase = "dist" => DistanceWorkers <= numWorkers
    <3>1. Len(hashes) \div HashesPerWorker \in Int
      BY <1>0, BinsortAssumption
    <3> QED BY <1>0, <3>1, SomeWorkers DEF DistanceWorkers
  <2> QED BY <1>0, <2>1, SomeWorkers, BinsortAssumption DEF Full, Phases
<1>2. CASE phase = "hash"
  <2>1. count % numWorkers \in 0 .. numWorkers - 1
    BY <1>0, SomeWorkers
  <2>2. Receiver(count) \in 1 .. numWorkers /\ Receiver(count) \in Workers
    BY <1>0, <1>2, <2>1, SomeWorkers DEF Receiver
  <2>3. count + 1 \in Files
    BY <1>0, <1>1, <1>2, BinsortAssumption DEF Files
  <2> QED BY <1>0, <1>1, <1>2, <2>2, <2>3 DEF Messages
<1>3. CASE phase # "hash"
  <2>1. count + 1 \in 1 .. numWorkers /\ count + 1 \in Workers
    BY <1>0, <1>1, <1>3, SomeWorkers
  <2> QED BY <1>0, <1>1, <1>3, <2>1 DEF Messages, Receiver, Phases
<1> QED BY <1>2, <1>3

LEMMA ReplyWhere ==
  ASSUME TypeOK, PortInv, NEW w \in Workers, WorkerReply(w)
  PROVE  /\ current[w] \in Messages /\ replyTo[current[w]] = Main /\ holder[current[w]] = w
         /\ P!Put(w, Main, Nobody, current[w])
<1>1. current[w] # Nobody
  BY DEF PortInv, HoldsInv, WorkerReply, In
<1>2. current[w] \in Messages
  BY <1>1 DEF TypeOK
<1>3. replyTo[current[w]] = Main /\ holder[current[w]] = w
  BY <1>1 DEF PortInv, HoldsInv
<1> QED BY <1>2, <1>3 DEF WorkerReply, P!Reply

LEMMA FiniteFlight == IsFiniteSet(InFlight)
<1>1. IsFiniteSet(Files) /\ IsFiniteSet(Workers)
  BY SomeWorkers, BinsortAssumption, FS_Interval DEF Files
<1>2. IsFiniteSet({"hash"}) /\ IsFiniteSet({"dist", "opt"})
  <2>1. IsFiniteSet({"hash"}) /\ IsFiniteSet({"dist"}) /\ IsFiniteSet({"opt"})
    BY FS_Singleton
  <2>2. IsFiniteSet({"dist"} \cup {"opt"})
    BY <2>1, FS_Union
  <2>3. {"dist", "opt"} = {"dist"} \cup {"opt"}
    OBVIOUS
  <2> QED BY <2>1, <2>2, <2>3
<1>3. IsFiniteSet({"hash"} \X Files) /\ IsFiniteSet({"dist", "opt"} \X Workers)
  BY <1>1, <1>2, FS_Product
<1>4. IsFiniteSet(Messages)
  BY <1>3, FS_Union DEF Messages
<1> QED BY <1>4, FS_Subset DEF InFlight

\* The main thread takes no answer that it does not await.
LEMMA AnswerTaken ==
  ASSUME TypeOK, PortInv, FlightInv, TakeReply
  PROVE  \E m \in Messages :
           /\ P!Get(Main, m)
           /\ hashes' = IF Indexed(m) THEN Append(hashes, m[2]) ELSE hashes
           /\ holder[m] = Nobody /\ m \in InFlight /\ InFlight' = InFlight \ {m}
           /\ refused # "distances" /\ left \in Nat \ {0}
           /\ left = Cardinality(InFlight) /\ left' = Cardinality(InFlight')
<1>1. PICK m \in Messages : /\ P!Get(Main, m)
                            /\ hashes' = IF Indexed(m) THEN Append(hashes, m[2]) ELSE hashes
  BY DEF TakeReply
<1>2. PortTypes /\ Main \in Threads
  BY TypeParts DEF Threads
<1>3. holder[m] = Nobody /\ holder' = [holder EXCEPT ![m] = Main]
  <2>1. /\ 1 \in DOMAIN queue[Main] /\ queue[Main][1] = m
        /\ holder' = [holder EXCEPT ![m] = Main]
    BY <1>1, <1>2, GetEffect
  <2> QED BY <1>2, <2>1 DEF PortInv, QueueInv
<1>4. m \in InFlight /\ InFlight' = InFlight \ {m}
  BY <1>2, <1>3, NobodyElse DEF InFlight, PortTypes
<1>5. Cardinality(InFlight) \in Nat \ {0} /\ Cardinality(InFlight') = Cardinality(InFlight) - 1
  BY <1>4, FiniteFlight, FS_CardinalityType, FS_EmptySet, FS_RemoveElement
<1>6. refused # "distances" /\ left = Cardinality(InFlight) /\ left' = left - 1
  BY <1>4 DEF FlightInv, TakeReply
<1> QED BY <1>1, <1>3, <1>4, <1>5, <1>6

LEMMA StepThreadTypes ==
  ASSUME TypeOK, Control, ThreadInv, SleepInv, [Next]_vars PROVE T!TypeOK'
<1> DEFINE Types ==
      /\ tasks \subseteq Workers /\ handles \subseteq Workers
      /\ status \in [Workers -> {"init", "run", "dead"}]
      /\ parent \in [Workers -> {Main, Nobody}]
      /\ refs \in [Workers -> Nat]
      /\ holds \in [Workers -> Workers \cup {Nobody}]
      /\ tpc \in [Workers -> {"none", "entry", "sync", "body", "ending",
                              "returned", "notify", "exited", "gone"}]
      /\ mpc \in {"idle", "spawn", "adopt", "kick", "scan", "wait", "join", "closed"}
      /\ subject \in Workers \cup {Nobody}
<1>1. Types
  BY DEF TypeOK, T!TypeOK
<1>2. T!Sig!TypeOK'
  BY SignalsKept DEF Sig!TypeOK, T!Sig!TypeOK, T!Threads, Threads
<1>3. Types'
  <2>1. CASE UNCHANGED threadVars
    BY <1>1, <2>1 DEF threadVars
  <2>2. ASSUME NEW w \in Workers, T!Link(w) PROVE Types'
    BY <1>1, <2>2 DEF T!Link
  <2>3. ASSUME NEW w \in Workers, T!Abort(w) PROVE Types'
    BY <1>1, <2>3 DEF T!Abort, T!listVars
  <2>4. ASSUME NEW w \in Workers, NoMessage(w) PROVE Types'
    BY <1>1, <2>4 DEF NoMessage
  <2>5. ASSUME NEW w \in Workers, T!AwaitSync(w) \/ T!Run(w) \/ T!Die(w) \/ T!Notify(w)
        PROVE  Types'
    BY <1>1, <2>5 DEF T!AwaitSync, T!Run, T!Die, T!Notify, T!listVars
  <2>6. CASE T!Spawn \/ CreateFails \/ T!AdoptThenKick
    BY <1>1, <2>6, BinsortAssumption DEF T!Spawn, CreateFails, T!SpawnFails, T!AdoptThenKick, T!listVars
  <2>7. CASE T!ScanFinds \/ T!ScanFindsNot \/ T!AwaitDeath \/ T!Join \/ T!Close
    BY <1>1, <2>7
    DEF T!ScanFinds, T!ScanFindsNot, T!AwaitDeath, T!Join, T!Close, T!Unlist, T!listVars
  <2>8. ThreadStep \/ UNCHANGED threadVars
    BY ThreadsElsewhere
  <2> HIDE DEF Types
  <2> QED BY <2>1, <2>2, <2>3, <2>4, <2>5, <2>6, <2>7, <2>8 DEF ThreadStep
<1> QED BY <1>2, <1>3 DEF T!TypeOK

LEMMA StepPortTypes ==
  ASSUME TypeOK, Control, PortInv, [Next]_vars PROVE PortTypes' /\ WorkerTypes'
<1>0. PortTypes /\ WorkerTypes /\ Main \in Threads /\ \A w \in Workers : w \in Threads
  BY TypeParts DEF Threads
<1>1. CASE UNCHANGED <<portVars, workerVars>>
  BY <1>0, <1>1 DEF portVars, workerVars, PortTypes, WorkerTypes
<1>2. CASE Send
  <2>1. PortTypes'
    BY <1>0, <1>2, SendWhere, PutEffect DEF Send
  <2> QED BY <1>0, <1>2, <2>1 DEF Send, workerVars, WorkerTypes
<1>3. CASE PostFromMain
  BY <1>0, <1>3 DEF PostFromMain, P!Post, workerVars, PortTypes, WorkerTypes
<1>4. CASE TakeReply
  <2>1. PortTypes'
    BY <1>0, <1>4, GetEffect DEF TakeReply
  <2> QED BY <1>0, <1>4, <2>1 DEF TakeReply, workerVars, WorkerTypes
<1>5. ASSUME NEW w \in Workers, WorkerWait(w) \/ NoMessage(w) PROVE PortTypes' /\ WorkerTypes'
  BY <1>0, <1>5 DEF WorkerWait, NoMessage, Goto, portVars, PortTypes, WorkerTypes
<1>6. ASSUME NEW w \in Workers, TakeMessage(w) PROVE PortTypes' /\ WorkerTypes'
  <2>1. PICK m \in Messages : P!Get(w, m) /\ current' = [current EXCEPT ![w] = m]
    BY <1>6 DEF TakeMessage
  <2>2. PortTypes'
    BY <1>0, <2>1, GetEffect
  <2> QED BY <1>0, <1>6, <2>1, <2>2 DEF TakeMessage, Goto, WorkerTypes
<1>7. ASSUME NEW w \in Workers, Handle(w) PROVE PortTypes' /\ WorkerTypes'
  <2>1. current[w] \in Messages
    BY <1>7, <1>0 DEF Handle, In, PortInv, HoldsInv, WorkerTypes
  <2>2. /\ current[w][1] = "hash" => current[w][2] \in Files
        /\ current[w][1] = "dist" => current[w][2] \in Workers
    BY <2>1 DEF Messages
  <2> QED BY <1>0, <1>7, <2>2 DEF Handle, Goto, portVars, PortTypes, WorkerTypes
<1>8. ASSUME NEW w \in Workers, WorkerReply(w) PROVE PortTypes' /\ WorkerTypes'
  <2>1. PortTypes'
    BY <1>0, <1>8, ReplyWhere, PutEffect
  <2> QED BY <1>0, <1>8, <2>1 DEF WorkerReply, Goto, WorkerTypes
<1>9. ASSUME NEW w \in Workers, WorkerPost(w) PROVE PortTypes' /\ WorkerTypes'
  BY <1>0, <1>9 DEF WorkerPost, NextMessage, Goto, P!Post, PortTypes, WorkerTypes
<1> QED BY <1>1, <1>2, <1>3, <1>4, <1>5, <1>6, <1>7, <1>8, <1>9, MessagesElsewhere DEF MessageStep

LEMMA StepArgTypes ==
  ASSUME TypeOK, [Next]_vars PROVE ArgTypes'
<1>0. ArgTypes
  BY TypeParts
<1>1. CASE UNCHANGED argsVars
  BY <1>0, <1>1 DEF ArgTypes, argsVars
<1>2. CASE ParseArg
  <2>1. argv[nextArg] \in ArgWords /\ nextArg + 1 \in 1 .. Len(argv) + 1
    BY <1>0, <1>2, LenProperties DEF ArgTypes, ParseArg, ReadArg
  <2> QED BY <1>0, <1>2, <2>1
      DEF ArgTypes, ParseArg, ReadArg, TakeNumber, MatchOption, MatchFlag, TakeDirectory, Matches,
          Arg, NumberKeys, Keys, FlagKeys
<1>3. CASE CheckArgs
  <2>1. <<>> \in Seq(ArgWords) /\ Len(<<>>) = 0
    BY EmptySeq
  <2> QED BY <1>3, <2>1 DEF CheckArgs, ArgTypes, Default
<1>4. UNCHANGED argsVars \/ ParseArg \/ CheckArgs
  BY DEF Next, MainStep, WorkerStep, ThreadEntry, Resume, Spurious, Terminated, vars, mainVars, runVars,
       ArgsParsed, InitFails, CreateWorker, CreateFails, HandleFails, StopThose,
       Scan, ScanFails, Send, PostFromMain, TakeReply, AllSent, AwaitReply, Drained, ToDistances,
       NoMessages, NoDistances, ToOrder, NoOrder, Finish, FreeAll, AbortWorker, AllAborted,
       DestroyWorker, SkipWorker, Close, ReportProgress,
       WorkerWait, TakeMessage, NoMessage, Handle, WorkerReply, WorkerPost
<1> QED BY <1>1, <1>2, <1>3, <1>4

\* What is accepted are numbers within their bounds; binsort_init reads the
\* same number of workers again.
LEMMA ItemsRead ==
  /\ GetTag("DIRECTORY", Nobody) = value["dir"]
  /\ \A default : GetTag("QUALITY", default) = value["-o"]
  /\ \A default : GetTag("NUMWORKERS", default) = value["-t"]
  /\ \A default : GetTag("QUIET", default) = value["-q"]
  /\ \A default : GetTag("NODIRS", default) = value["-d"]
<1> DEFINE Items == << <<"DIRECTORY", value["dir"]>>, <<"QUALITY", value["-o"]>>,
                       <<"NUMWORKERS", value["-t"]>>, <<"QUIET", value["-q"]>>,
                       <<"NODIRS", value["-d"]>> >>
<1>1. DOMAIN Items = 1 .. 5
  OBVIOUS
<1>2. /\ Items[1] = <<"DIRECTORY", value["dir"]>> /\ Items[2] = <<"QUALITY", value["-o"]>>
      /\ Items[3] = <<"NUMWORKERS", value["-t"]>> /\ Items[4] = <<"QUIET", value["-q"]>>
      /\ Items[5] = <<"NODIRS", value["-d"]>>
  OBVIOUS
<1> HIDE DEF Items
<1>3. ASSUME NEW tag, NEW default, NEW k \in 1 .. 5, \A l \in 1 .. 5 : Items[l][1] = tag <=> l = k
      PROVE  GetTag(tag, default) = Items[k][2]
  <2>1. {l \in DOMAIN Items : Items[l][1] = tag} = {k}
    BY <1>1, <1>3
  <2>2. (CHOOSE l \in {k} : \A j \in {k} : l <= j) = k
    BY <1>1
  <2>3. ItemList = Items
    BY DEF ItemList, Items
  <2> QED BY <2>1, <2>2, <2>3 DEF GetTag
<1>4. \A l \in 1 .. 5 : l = 1 \/ l = 2 \/ l = 3 \/ l = 4 \/ l = 5
  OBVIOUS
<1>5. /\ \A l \in 1 .. 5 : Items[l][1] = "DIRECTORY" <=> l = 1
      /\ \A l \in 1 .. 5 : Items[l][1] = "QUALITY" <=> l = 2
      /\ \A l \in 1 .. 5 : Items[l][1] = "NUMWORKERS" <=> l = 3
      /\ \A l \in 1 .. 5 : Items[l][1] = "QUIET" <=> l = 4
      /\ \A l \in 1 .. 5 : Items[l][1] = "NODIRS" <=> l = 5
  BY <1>2, <1>4
<1>6. /\ GetTag("DIRECTORY", Nobody) = Items[1][2]
      /\ \A default : GetTag("QUALITY", default) = Items[2][2]
      /\ \A default : GetTag("NUMWORKERS", default) = Items[3][2]
      /\ \A default : GetTag("QUIET", default) = Items[4][2]
      /\ \A default : GetTag("NODIRS", default) = Items[5][2]
  BY <1>3, <1>5
<1> QED BY <1>2, <1>6

LEMMA AcceptedWorkers == Accepted => Settings.workers \in 1 .. MaxWorkers
BY ItemsRead DEF Accepted, Settings, InBounds

LEMMA StepMainTypes ==
  ASSUME TypeOK, Control, PortInv, FlightInv, [Next]_vars PROVE MainTypes'
<1>0. MainTypes
  BY TypeParts
<1>1. CASE UNCHANGED mainVars
  BY <1>0, <1>1 DEF MainTypes, mainVars, runVars
<1>2. CASE CheckArgs
  <2>1. Accepted => numWorkers' \in 0 .. MaxWorkers
    BY <1>2, AcceptedWorkers, SomeWorkers DEF CheckArgs
  <2> QED BY <1>0, <1>2, <2>1 DEF CheckArgs, MainTypes
<1>3. CASE ParseArg \/ ArgsParsed \/ InitFails
  BY <1>0, <1>3 DEF ParseArg, ArgsParsed, InitFails, MainTypes, runVars
<1>4. CASE CreateWorker
  BY <1>0, <1>4 DEF CreateWorker, MainTypes, runVars
<1>5. CASE CreateFails \/ HandleFails
  <2>1. refused' \in Refusals \cup {Nobody} /\ (pc' \in {"abort", "crashed"}) /\ count' = 0
        /\ UNCHANGED <<numWorkers, phase, left, hashes, live>>
    BY <1>0, <1>5 DEF CreateFails, HandleFails, StopThose, MainTypes, Refusals
  <2> QED BY <1>0, <2>1 DEF MainTypes
<1>6. CASE Scan
  BY <1>0, <1>6, BinsortAssumption DEF Scan, MainTypes, runVars
<1>7. CASE ScanFails \/ Send
  <2>1. CASE ScanFails
    BY <1>0, <2>1 DEF ScanFails, MainTypes, runVars
  <2>2. CASE Send
    BY <1>0, <2>2 DEF Send, MainTypes, runVars
  <2> QED BY <1>7, <2>1, <2>2
<1>8. CASE AllSent \/ AwaitReply \/ Drained
  <2>1. pc' \in {"next", "wait", "drain"}
        /\ UNCHANGED <<numWorkers, refused, phase, count, left, hashes, live>>
    BY <1>8 DEF AllSent, AwaitReply, Drained, AfterSending, runVars
  <2> QED BY <1>0, <2>1 DEF MainTypes
<1>9. CASE TakeReply
  <2>1. PICK m \in Messages :
          /\ hashes' = IF Indexed(m) THEN Append(hashes, m[2]) ELSE hashes
          /\ left \in Nat \ {0}
    BY <1>9, AnswerTaken
  <2>2. Indexed(m) => m[2] \in Files
    BY DEF Indexed, Messages
  <2>3. hashes' \in Seq(Files)
    BY <1>0, <2>1, <2>2, AppendProperties DEF MainTypes
  <2> QED BY <1>0, <1>9, <2>1, <2>3 DEF TakeReply, MainTypes, runVars
<1>10. CASE ToDistances \/ NoMessages \/ NoDistances
  <2>1. DistanceWorkers \in Nat
    <3>1. Len(hashes) \div HashesPerWorker \in Int
      BY <1>0, BinsortAssumption, LenProperties DEF MainTypes
    <3> QED BY <1>0, <3>1, SomeWorkers DEF DistanceWorkers, MainTypes
  <2>2. /\ pc' \in {"send", "end", "wait"} /\ phase' \in Phases /\ left' \in Nat /\ count' \in Nat
        /\ refused' \in Refusals \cup {Nobody}
        /\ live' \subseteq {"entries", "dist", "distances", "opt", "order"}
        /\ UNCHANGED <<numWorkers, hashes>>
    <3>1. CASE ToDistances
      BY <1>0, <3>1, <2>1 DEF ToDistances, MainTypes, Phases, runVars
    <3>2. CASE NoMessages
      BY <1>0, <3>2 DEF NoMessages, MainTypes, Refusals
    <3>3. CASE NoDistances
      BY <1>0, <3>3, <2>1 DEF NoDistances, MainTypes, Phases, Refusals
    <3> QED BY <1>10, <3>1, <3>2, <3>3
  <2> QED BY <1>0, <2>2 DEF MainTypes
<1>11. CASE ToOrder \/ NoOrder \/ Finish
  <2>1. numWorkers \in Nat
    BY <1>0, SomeWorkers DEF MainTypes
  <2>2. /\ pc' \in {"send", "end"} /\ phase' \in Phases /\ left' \in Nat /\ count' \in Nat
        /\ refused' \in Refusals \cup {Nobody}
        /\ live' \subseteq {"entries", "dist", "distances", "opt", "order"}
        /\ UNCHANGED <<numWorkers, hashes>>
    <3>1. CASE ToOrder
      BY <1>0, <3>1, <2>1 DEF ToOrder, FreedAfterDistances, MainTypes, Phases, runVars
    <3>2. CASE NoOrder
      BY <1>0, <3>2 DEF NoOrder, MainTypes, Refusals
    <3>3. CASE Finish
      BY <1>0, <3>3 DEF Finish, FreedAfterOrder, MainTypes, runVars
    <3> QED BY <1>11, <3>1, <3>2, <3>3
  <2> QED BY <1>0, <2>2 DEF MainTypes
<1>12. CASE FreeAll \/ AbortWorker \/ AllAborted
  <2>1. /\ pc' \in {pc, "abort", "destroy"} /\ count' \in {0, count + 1} /\ live' \subseteq live
        /\ UNCHANGED <<numWorkers, refused, phase, left, hashes>>
    BY <1>12 DEF FreeAll, AbortWorker, AllAborted, runVars
  <2> QED BY <1>0, <2>1 DEF MainTypes
<1>13. CASE DestroyWorker \/ SkipWorker \/ Close
  <2>1. /\ pc' \in {pc, "closed"} /\ count' \in {count, count + 1}
        /\ UNCHANGED <<numWorkers, refused, phase, left, hashes, live>>
    BY <1>13 DEF DestroyWorker, SkipWorker, Close, runVars
  <2> QED BY <1>0, <2>1 DEF MainTypes
<1>14. PostFromMain \/ Terminated \/ UNCHANGED vars => UNCHANGED mainVars
  BY DEF PostFromMain, Terminated, vars
<1>15. ASSUME NEW w \in Workers, WorkerStep(w) \/ ReportProgress(w) PROVE UNCHANGED mainVars
  BY <1>15 DEF WorkerStep, ThreadEntry, ReportProgress, WorkerWait, TakeMessage, NoMessage, Handle,
               WorkerReply, WorkerPost
<1>16. ASSUME NEW t \in Threads, Resume(t) \/ Spurious(t) PROVE UNCHANGED mainVars
  BY <1>16 DEF Resume, Spurious
<1> QED BY <1>1, <1>2, <1>3, <1>4, <1>5, <1>6, <1>7, <1>8, <1>9, <1>10, <1>11, <1>12, <1>13, <1>14,
           <1>15, <1>16 DEF Next, MainStep

LEMMA StepTypes ==
  ASSUME TypeOK, Control, ThreadInv, SleepInv, PortInv, FlightInv, [Next]_vars PROVE TypeOK'
<1>1. T!TypeOK' /\ PortTypes' /\ WorkerTypes' /\ ArgTypes' /\ MainTypes'
  BY StepThreadTypes, StepPortTypes, StepArgTypes, StepMainTypes
<1> QED BY <1>1 DEF TypeOK, PortTypes, WorkerTypes, ArgTypes, MainTypes

-----------------------------------------------------------------------------
(* The main thread.                                                        *)

\* Only the main thread changes its variables.
LEMMA OthersLeaveMain ==
  ASSUME TypeOK, PortInv, [Next]_vars
  PROVE  MainStep \/ (UNCHANGED <<mainVars, mpc, subject>> /\ posting'[Main] = posting[Main])
<1> DEFINE Left == UNCHANGED <<mainVars, mpc, subject>> /\ posting'[Main] = posting[Main]
<1>0. PortTypes /\ Main \in Threads /\ Main \notin Workers
  BY TypeParts, NobodyElse DEF Threads
<1>1. ASSUME NEW w \in Workers, ThreadEntry(w) PROVE Left
  BY <1>1 DEF ThreadEntry, T!AwaitSync, T!Run, T!Die, T!Notify, portVars
<1>2. ASSUME NEW w \in Workers, WorkerWait(w) \/ NoMessage(w) \/ Handle(w) \/ ReportProgress(w)
      PROVE  Left
  BY <1>2 DEF WorkerWait, NoMessage, Handle, ReportProgress, portVars, threadVars
<1>3. ASSUME NEW w \in Workers, TakeMessage(w) PROVE Left
  BY <1>3 DEF TakeMessage, P!Get, threadVars
<1>4. ASSUME NEW w \in Workers, WorkerReply(w) PROVE Left
  <2>1. posting' = [posting EXCEPT ![w] = Main]
    BY <1>0, <1>4, ReplyWhere DEF P!Put
  <2> QED BY <1>0, <1>4, <2>1 DEF WorkerReply, threadVars, PortTypes
<1>5. ASSUME NEW w \in Workers, WorkerPost(w) PROVE Left
  BY <1>0, <1>5 DEF WorkerPost, P!Post, threadVars, PortTypes
<1>6. ASSUME NEW t \in Threads, Resume(t) \/ Spurious(t) PROVE Left
  BY <1>6 DEF Resume, Spurious, T!Resume, T!Spurious, portVars
<1>7. UNCHANGED vars \/ Terminated => Left
  BY DEF Terminated, vars, portVars, threadVars
<1> HIDE DEF Left
<1>8. ASSUME NEW w \in Workers, WorkerStep(w) \/ ReportProgress(w) PROVE Left
  BY <1>1, <1>2, <1>3, <1>4, <1>5, <1>8 DEF WorkerStep
<1>9. MainStep \/ Left
  <2>1. (\E w \in Workers : WorkerStep(w) \/ ReportProgress(w)) => Left
    BY <1>8
  <2>2. (\E t \in Threads : Resume(t) \/ Spurious(t)) => Left
    BY <1>6
  <2> QED BY <1>7, <2>1, <2>2 DEF Next
<1> QED BY <1>9 DEF Left

LEMMA FullSame ==
  ASSUME phase' = phase, hashes' = hashes, numWorkers' = numWorkers
  PROVE  Full' = Full /\ DistanceWorkers' = DistanceWorkers
BY DEF Full, DistanceWorkers

LEMMA StepControl ==
  ASSUME TypeOK, Control, PortInv, FlightInv, [Next]_vars PROVE Control'
<1>0. MainTypes /\ PortTypes /\ Main \in Threads /\ Main \notin Workers /\ Nobody # "thread"
      /\ Nobody # "distances"
  BY TypeParts, NobodyElse DEF Threads, Refusals
<1>1. CASE UNCHANGED <<mainVars, mpc>> /\ posting'[Main] = posting[Main]
  BY <1>1, FullSame DEF Control, mainVars, runVars
<1>2. CASE ParseArg \/ ArgsParsed
  BY <1>0, <1>2 DEF ParseArg, ArgsParsed, Control, threadVars, portVars, runVars
<1>3. CASE CheckArgs
  <2>1. pc' = "create" => numWorkers' \in 1 .. MaxWorkers /\ count' = 0 /\ count' <= numWorkers'
    BY <1>3, AcceptedWorkers, SomeWorkers DEF CheckArgs, Control
  <2> QED BY <1>0, <1>3, <2>1 DEF CheckArgs, Control, threadVars, portVars
<1>4. CASE InitFails
  BY <1>0, <1>4 DEF InitFails, Control, threadVars, portVars, runVars
<1>5. CASE CreateWorker
  <2>1. /\ pc = "create" /\ pc' = pc /\ count' <= numWorkers' /\ mpc' \in {"idle", "spawn", "adopt", "kick"}
        /\ UNCHANGED <<numWorkers, phase, refused, hashes, posting>>
    <3>1. count \in Nat /\ numWorkers \in Nat
      BY <1>0, SomeWorkers DEF MainTypes
    <3> QED BY <1>5, <3>1
        DEF CreateWorker, T!Link, T!Spawn, T!AdoptThenKick, Control, portVars, runVars
  <2> QED BY <1>0, <2>1 DEF Control
<1>6. CASE CreateFails \/ HandleFails
  <2>1. /\ pc = "create" /\ pc' \in {"abort", "crashed"} /\ mpc' = "idle"
        /\ refused' \in {refused, "thread"}
        /\ UNCHANGED <<numWorkers, phase, hashes, posting>>
    BY <1>6 DEF CreateFails, HandleFails, StopThose, T!SpawnFails, portVars, threadVars
  <2> QED BY <1>0, <2>1 DEF Control
<1>7. CASE Scan
  <2>1. Full' = NumFiles
    BY <1>7 DEF Scan, Control, Full
  <2> QED BY <1>0, <1>7, <2>1, BinsortAssumption DEF Scan, Control, threadVars, portVars, runVars
<1>8. CASE ScanFails
  BY <1>0, <1>8 DEF ScanFails, Control, threadVars, portVars, runVars
<1>9. CASE Send
  <2>1. /\ posting' = [posting EXCEPT ![Main] = Receiver(count)] /\ Receiver(count) \in Workers
        /\ count + 1 <= Full
    BY <1>9, SendWhere DEF Send, P!Put
  <2>2. posting'[Main] \in Workers
    BY <1>0, <2>1 DEF PortTypes
  <2>3. /\ pc = "send" /\ count' = count + 1
        /\ UNCHANGED <<mpc, pc, phase, left, hashes, refused, numWorkers>>
    BY <1>9 DEF Send, threadVars, runVars
  <2> QED BY <1>0, <2>1, <2>2, <2>3, FullSame DEF Control
<1>10. CASE PostFromMain
  <2>1. posting'[Main] = Nobody
    BY <1>0, <1>10 DEF PostFromMain, P!Post, PortTypes
  <2> QED BY <1>10, <2>1, FullSame DEF PostFromMain, Control, mainVars, runVars, threadVars
<1>11. CASE AllSent \/ AwaitReply
  BY <1>0, <1>11
  DEF AllSent, AwaitReply, AfterSending, Control, threadVars, portVars, runVars
<1>12. CASE TakeReply
  <2>1. posting' = posting /\ refused # "distances"
    BY <1>12, AnswerTaken DEF P!Get
  <2> QED BY <1>0, <1>12, <2>1 DEF TakeReply, Control, threadVars, runVars
<1>13. CASE Drained
  BY <1>0, <1>13 DEF Drained, NoneMissing, FlightInv, Control, threadVars, portVars, runVars
<1>14. CASE ToDistances \/ NoDistances
  <2>1. Full' = DistanceWorkers /\ DistanceWorkers \in Nat
    <3>1. Full' = DistanceWorkers
      BY <1>14 DEF ToDistances, NoDistances, Full, DistanceWorkers, runVars
    <3>2. Len(hashes) \div HashesPerWorker \in Int
      BY <1>0, BinsortAssumption, LenProperties DEF MainTypes
    <3> QED BY <1>0, <3>1, <3>2, SomeWorkers DEF DistanceWorkers, MainTypes
  <2>2. /\ pc = "next" /\ phase' = "dist" /\ left' = Full'
        /\ pc' = "send" => count' = 0 /\ refused' = refused
        /\ pc' \in {"send", "wait"} /\ (refused' # refused => pc' = "wait" /\ refused' = "distances")
        /\ UNCHANGED <<numWorkers, hashes, posting, mpc>>
    BY <1>14, <2>1 DEF ToDistances, NoDistances, portVars, threadVars, runVars
  <2> QED BY <1>0, <2>1, <2>2 DEF Control
<1>15. CASE NoMessages \/ NoOrder
  <2>1. /\ pc = "next" /\ pc' = "end" /\ refused' \in {"messages", "order"}
        /\ UNCHANGED <<numWorkers, phase, hashes, posting, mpc>>
    BY <1>15 DEF NoMessages, NoOrder, portVars, threadVars
  <2> QED BY <1>0, <2>1 DEF Control
<1>16. CASE ToOrder
  <2>1. Full' = numWorkers
    BY <1>16 DEF ToOrder, Full, runVars
  <2>2. numWorkers \in Nat
    BY <1>0, SomeWorkers DEF MainTypes
  <2> QED BY <1>0, <1>16, <2>1, <2>2 DEF ToOrder, Control, threadVars, portVars, runVars
<1>17. CASE Finish \/ FreeAll
  BY <1>0, <1>17 DEF Finish, FreeAll, Control, threadVars, portVars, runVars
<1>18. CASE AbortWorker \/ AllAborted \/ SkipWorker
  BY <1>0, <1>18 DEF AbortWorker, AllAborted, SkipWorker, Control, threadVars, portVars, runVars
<1>19. CASE DestroyWorker
  <2>1. /\ pc = "destroy" /\ mpc' \in {"idle", "scan", "wait", "join"}
        /\ UNCHANGED <<pc, numWorkers, phase, hashes, refused, posting>>
    BY <1>19 DEF DestroyWorker, T!Abort, T!ScanFinds, T!ScanFindsNot, T!AwaitDeath, T!Join, portVars,
                 runVars
  <2> QED BY <1>0, <2>1 DEF Control
<1>20. CASE Close
  BY <1>0, <1>20 DEF Close, T!Close, Control, portVars, runVars
<1> QED BY <1>1, <1>2, <1>3, <1>4, <1>5, <1>6, <1>7, <1>8, <1>9, <1>10, <1>11, <1>12, <1>13, <1>14,
           <1>15, <1>16, <1>17, <1>18, <1>19, <1>20, OthersLeaveMain DEF MainStep

-----------------------------------------------------------------------------
(* The threads.                                                            *)

LEMMA ThreadRefusedStays ==
  ASSUME TypeOK, Control, PortInv, [Next]_vars, refused = "thread" PROVE refused' = "thread"
<1>1. CASE UNCHANGED mainVars
  BY <1>1 DEF mainVars, runVars
<1>2. CASE MainStep
  BY <1>2
  DEF MainStep, Control, ParseArg, ArgsParsed, CheckArgs, InitFails, CreateWorker, CreateFails,
      HandleFails, Scan, ScanFails, Send, PostFromMain, TakeReply, AllSent, AwaitReply, Drained,
      ToDistances, NoMessages, NoDistances, ToOrder, NoOrder, Finish, FreeAll, AbortWorker,
      AllAborted, DestroyWorker, SkipWorker, Close, mainVars, runVars
<1> QED BY <1>1, <1>2, OthersLeaveMain

\* A step that is about no thread keeps what is known of them, unless it sends
\* SYNC or lets somebody go who has not got it.
LEMMA ThreadInvFrame ==
  ASSUME ThreadInv, UNCHANGED threadVars, refused = "thread" => refused' = "thread",
         \A w \in Workers :
           /\ "SYNC" \in sigState'[w] => "SYNC" \in sigState[w]
           /\ tpc[w] \in {"none", "entry"} => sleep'[w] = "running"
           /\ tpc[w] = "sync" => /\ mask'[w] = mask[w]
                                 /\ sleep'[w] = "running" =>
                                      sleep[w] = "running" \/ "SYNC" \in sigState[w]
           /\ wpc'[w] \in {"handle", "reply", "post"} => tpc[w] = "body"
  PROVE  ThreadInv'
BY DEF ThreadInv, ChildInv, T!HandlesLive, threadVars

LEMMA StepThreadInv ==
  ASSUME TypeOK, Control, ThreadInv, SleepInv, PortInv, [Next]_vars PROVE ThreadInv'
<1>0. /\ Main \notin Workers /\ Nobody \notin Workers /\ Main \in Threads /\ Nobody # Main
      /\ \A w \in Workers : w \in Threads
      /\ refused = "thread" => refused' = "thread"
  BY NobodyElse, ThreadRefusedStays DEF Threads
<1>t. /\ tasks \subseteq Workers /\ handles \subseteq Workers
      /\ status \in [Workers -> {"init", "run", "dead"}]
      /\ parent \in [Workers -> {Main, Nobody}]
      /\ holds \in [Workers -> Workers \cup {Nobody}]
      /\ tpc \in [Workers -> {"none", "entry", "sync", "body", "ending",
                              "returned", "notify", "exited", "gone"}]
      /\ subject \in Workers \cup {Nobody}
  BY DEF TypeOK, T!TypeOK
<1>w. wpc \in [Workers -> {"wait", "drain", "handle", "reply", "post"}]
  BY DEF TypeOK
<1>s. Sig!TypeOK
  BY DEF TypeOK, T!TypeOK, T!Sig!TypeOK, T!Threads, T!Signals, Sig!TypeOK, Threads
<1>n. "SYNC" \notin {"USER"} /\ "SYNC" \notin {"ABORT"} /\ "SYNC" \notin {"UPDATE"}
      /\ {"USER"} \in SUBSET T!Signals /\ {"ABORT"} \in SUBSET T!Signals
      /\ {"UPDATE"} \in SUBSET T!Signals /\ {"SYNC"} \in SUBSET T!Signals
      /\ {"USER", "UPDATE"} \in SUBSET T!Signals /\ {"USER", "ABORT"} \in SUBSET T!Signals
  BY DEF T!Signals
<1>o. sigState \in [Threads -> SUBSET T!Signals]
  BY <1>s DEF Sig!TypeOK
<1>p. \A w \in Workers :
        /\ tpc[w] \in {"none", "entry"} => sleep[w] = "running"
        /\ wpc[w] \in {"handle", "reply", "post"} => tpc[w] = "body"
        /\ parent[w] = Main \/ tpc[w] \notin {"body", "ending", "returned", "notify"}
  BY DEF ThreadInv, ChildInv, T!HandlesLive
<1>1. CASE UNCHANGED <<threadVars, sigVars, wpc>>
  BY <1>0, <1>1, <1>p, ThreadInvFrame DEF sigVars
<1>2. ASSUME UNCHANGED <<threadVars, wpc>>, NEW t \in Threads, NEW signals \in SUBSET T!Signals,
             t = Main \/ "SYNC" \notin signals, Sig!Signal(t, signals)
      PROVE  ThreadInv'
  <2>1. /\ sigState' = [sigState EXCEPT ![t] = @ \cup signals]
        /\ mask' = mask
        /\ \A x \in Threads : sleep'[x] = "running" <=> sleep[x] = "running"
    BY <1>2, <1>s, SignalEffect
  <2>2. \A w \in Workers : "SYNC" \in sigState'[w] => "SYNC" \in sigState[w]
    BY <1>0, <1>2, <2>1, <1>o
  <2> QED BY <1>0, <1>2, <1>p, <2>1, <2>2, ThreadInvFrame
<1>3. ASSUME UNCHANGED <<threadVars, wpc>>, NEW m \in SUBSET T!Signals, Sig!Wait(Main, m, FALSE)
      PROVE  ThreadInv'
  <2>1. \A x \in Workers : sigState'[x] = sigState[x] /\ mask'[x] = mask[x] /\ sleep'[x] = sleep[x]
    BY <1>0, <1>3, <1>s DEF Sig!TypeOK, Sig!Wait, Sig!Turn
  <2> QED BY <1>0, <1>3, <1>p, <2>1, ThreadInvFrame
<1>4. ASSUME UNCHANGED <<threadVars, wpc>>, NEW t \in Threads, Sig!Resume(t) PROVE ThreadInv'
  <2>1. /\ \A x \in Threads \ {t} :
              sigState'[x] = sigState[x] /\ mask'[x] = mask[x] /\ sleep'[x] = sleep[x]
        /\ sigState'[t] = sigState[t] \ mask[t] /\ mask'[t] = mask[t] /\ sleep[t] = "woken"
        /\ sleep'[t] = "running" => sigState[t] \cap mask[t] # {}
    BY <1>4, <1>s, ResumeEffect
  <2>2. ASSUME NEW w \in Workers, tpc[w] = "sync", sleep'[w] = "running"
        PROVE  sleep[w] = "running" \/ "SYNC" \in sigState[w]
    <3>1. mask[w] = {"SYNC"}
      BY <2>2 DEF ThreadInv, ChildInv
    <3> QED BY <1>0, <2>1, <2>2, <3>1
  <2>3. \A w \in Workers : /\ "SYNC" \in sigState'[w] => "SYNC" \in sigState[w]
                           /\ mask'[w] = mask[w]
                           /\ tpc[w] \in {"none", "entry"} => sleep'[w] = "running"
    BY <1>0, <1>p, <2>1
  <2> QED BY <1>0, <1>4, <1>p, <2>2, <2>3, ThreadInvFrame
<1>5. ASSUME UNCHANGED <<threadVars, wpc>>, NEW t \in Threads, Sig!SpuriousWakeup(t)
      PROVE  ThreadInv'
  <2>1. sigState' = sigState /\ mask' = mask /\ sleep[t] = "asleep"
        /\ sleep' = [sleep EXCEPT ![t] = "woken"]
    BY <1>5, <1>s, SpuriousEffect
  <2>2. \A w \in Workers : /\ sleep'[w] = "running" => sleep[w] = "running"
                           /\ tpc[w] \in {"none", "entry"} => sleep'[w] = "running"
    BY <1>0, <1>p, <1>s, <2>1 DEF Sig!TypeOK
  <2> QED BY <1>0, <1>5, <1>p, <2>1, <2>2, ThreadInvFrame
<1>6. ASSUME NEW w \in Workers, TakeMessage(w) \/ Handle(w) \/ WorkerReply(w) PROVE ThreadInv'
  <2>1. /\ tpc[w] = "body" /\ UNCHANGED <<threadVars, sigVars>>
        /\ \A x \in Workers \ {w} : wpc'[x] = wpc[x]
    BY <1>6, <1>w DEF TakeMessage, Handle, WorkerReply, In, Goto
  <2> QED BY <1>0, <1>p, <2>1, ThreadInvFrame DEF sigVars
<1>7. ASSUME NEW w \in Workers, WorkerPost(w) PROVE ThreadInv'
  <2>0. posting \in [Threads -> Threads \cup {Nobody}]
    BY DEF TypeOK
  <2>1. /\ UNCHANGED threadVars /\ Sig!Signal(posting[w], {"USER"}) /\ posting[w] \in Threads
        /\ wpc' = [wpc EXCEPT ![w] = "drain"]
    BY <1>0, <1>7, <2>0, SameSignal DEF WorkerPost, P!Post, NextMessage, Goto
  <2>4. \A x \in Workers : wpc'[x] \in {"handle", "reply", "post"} =>
          wpc[x] \in {"handle", "reply", "post"}
    BY <1>w, <2>1
  <2>2. /\ sigState' = [sigState EXCEPT ![posting[w]] = @ \cup {"USER"}]
        /\ mask' = mask
        /\ \A x \in Threads : sleep'[x] = "running" <=> sleep[x] = "running"
    BY <1>n, <1>s, <2>1, SignalEffect
  <2>3. \A x \in Workers : "SYNC" \in sigState'[x] => "SYNC" \in sigState[x]
    BY <1>0, <1>o, <2>1, <2>2
  <2> QED BY <1>0, <1>p, <2>1, <2>2, <2>3, <2>4, ThreadInvFrame
<1>8. ASSUME NEW w \in Workers, WorkerWait(w) PROVE ThreadInv'
  <2>1. /\ UNCHANGED threadVars /\ Sig!Wait(w, {"USER", "ABORT"}, FALSE) /\ tpc[w] = "body"
        /\ \A x \in Workers \ {w} : wpc'[x] = wpc[x]
    BY <1>8, <1>w DEF WorkerWait, In, Goto
  <2>2. /\ \A x \in Workers \ {w} :
             sigState'[x] = sigState[x] /\ mask'[x] = mask[x] /\ sleep'[x] = sleep[x]
        /\ sigState'[w] = sigState[w] \ {"USER", "ABORT"}
    BY <1>0, <1>s, <2>1 DEF Sig!TypeOK, Sig!Wait, Sig!Turn
  <2> QED BY <1>0, <1>p, <2>1, <2>2, ThreadInvFrame
<1>9. ASSUME NEW w \in Workers, T!Link(w), UNCHANGED <<wpc, refused>> PROVE ThreadInv'
  <2>1. /\ tasks' = tasks \cup {w} /\ handles' = handles \cup {w} /\ subject' = w /\ mpc' = "spawn"
        /\ tpc' = tpc /\ tpc[w] = "none" /\ holds' = holds
        /\ UNCHANGED <<sleep, mask>>
        /\ status'[w] = "init" /\ "SYNC" \notin sigState'[w]
        /\ \A x \in Workers \ {w} :
             status'[x] = status[x] /\ parent'[x] = parent[x] /\ sigState'[x] = sigState[x]
    BY <1>0, <1>9, <1>t, <1>o DEF T!Link
  <2> QED BY <1>9, <2>1 DEF ThreadInv, ChildInv, T!HandlesLive
<1>10. ASSUME T!Spawn, UNCHANGED <<wpc, refused>> PROVE ThreadInv'
  <2>1. /\ mpc = "spawn" /\ mpc' = "adopt" /\ subject \in handles /\ subject \in Workers
        /\ tpc'[subject] = "entry" /\ tpc[subject] = "none"
        /\ \A x \in Workers \ {subject} : tpc'[x] = tpc[x]
        /\ UNCHANGED <<sigVars, tasks, handles, status, parent, holds, subject>>
    BY <1>10, <1>t DEF T!Spawn, T!sigVars, T!listVars, sigVars, ThreadInv
  <2> QED BY <1>10, <2>1 DEF ThreadInv, ChildInv, T!HandlesLive, sigVars
<1>11. ASSUME CreateFails PROVE ThreadInv'
  <2>1. /\ mpc = "spawn" /\ mpc' = "idle" /\ refused' = "thread"
        /\ subject \in Workers /\ tpc[subject] = "none"
        /\ handles' = handles \ {subject} /\ tpc'[subject] = "gone"
        /\ \A x \in Workers \ {subject} : tpc'[x] = tpc[x]
        /\ UNCHANGED <<sigVars, status, parent, holds, subject, wpc>>
    BY <1>11, <1>t DEF CreateFails, StopThose, workerVars, T!SpawnFails, T!sigVars, sigVars, ThreadInv
  <2> QED BY <1>0, <2>1 DEF ThreadInv, ChildInv, T!HandlesLive, sigVars
<1>12. ASSUME T!AdoptThenKick, mpc = "adopt", UNCHANGED <<wpc, refused>> PROVE ThreadInv'
  <2>1. /\ mpc' = "kick" /\ subject \in handles /\ subject \in Workers
        /\ parent'[subject] = Main
        /\ \A x \in Workers \ {subject} : parent'[x] = parent[x]
        /\ UNCHANGED <<sigVars, tasks, handles, status, holds, tpc, subject>>
    BY <1>12, <1>t DEF T!AdoptThenKick, T!sigVars, sigVars, ThreadInv
  <2> QED BY <1>12, <2>1 DEF ThreadInv, ChildInv, T!HandlesLive, sigVars
<1>13. ASSUME T!AdoptThenKick, mpc = "kick", UNCHANGED <<wpc, refused>> PROVE ThreadInv'
  <2>1. /\ mpc' = "idle" /\ subject \in handles /\ subject \in Workers /\ parent[subject] = Main
        /\ Sig!Signal(subject, {"SYNC"})
        /\ UNCHANGED <<tasks, handles, status, parent, holds, tpc, subject>>
    BY <1>13, <1>t, SameSignal DEF T!AdoptThenKick, T!listVars, ThreadInv
  <2>2. /\ sigState' = [sigState EXCEPT ![subject] = @ \cup {"SYNC"}] /\ mask' = mask
        /\ \A x \in Threads : sleep'[x] = "running" <=> sleep[x] = "running"
    BY <1>0, <1>n, <1>s, <2>1, SignalEffect
  <2>3. \A x \in Workers : "SYNC" \in sigState'[x] => x = subject \/ "SYNC" \in sigState[x]
    BY <1>0, <1>o, <2>2
  <2> QED BY <1>0, <1>13, <2>1, <2>2, <2>3 DEF ThreadInv, ChildInv, T!HandlesLive
<1>14. ASSUME NEW w \in Workers, T!Abort(w), UNCHANGED <<wpc, refused>> PROVE ThreadInv'
  <2>1. /\ mpc = "idle" /\ mpc' = "scan" /\ subject' = w /\ w \in handles
        /\ Sig!Signal(w, {"ABORT"})
        /\ UNCHANGED <<tasks, handles, status, parent, holds, tpc>>
    BY <1>14, SameSignal DEF T!Abort, T!listVars
  <2>2. /\ sigState' = [sigState EXCEPT ![w] = @ \cup {"ABORT"}] /\ mask' = mask
        /\ \A x \in Threads : sleep'[x] = "running" <=> sleep[x] = "running"
    BY <1>0, <1>n, <1>s, <2>1, SignalEffect
  <2>3. \A x \in Workers : "SYNC" \in sigState'[x] => "SYNC" \in sigState[x]
    BY <1>0, <1>n, <1>o, <2>2
  <2> QED BY <1>0, <1>14, <2>1, <2>2, <2>3 DEF ThreadInv, ChildInv, T!HandlesLive
<1>15. ASSUME T!ScanFinds \/ T!ScanFindsNot, UNCHANGED <<wpc, refused>> PROVE ThreadInv'
  <2>1. /\ mpc = "scan" /\ UNCHANGED <<sigVars, handles, status, parent, holds, tpc, subject>>
        /\ \/ /\ mpc' = "join" /\ status[subject] = "dead" /\ tasks' = tasks \ {subject}
           \/ mpc' = "wait" /\ tasks' = tasks
    BY <1>15 DEF T!ScanFinds, T!ScanFindsNot, T!Removable, T!Unlist, T!sigVars, T!listVars, sigVars
  <2> QED BY <1>15, <2>1 DEF ThreadInv, ChildInv, T!HandlesLive, sigVars
<1>16. ASSUME T!AwaitDeath, UNCHANGED <<wpc, refused>> PROVE ThreadInv'
  <2>1. /\ mpc = "wait" /\ mpc' = "scan" /\ Sig!Wait(Main, {"SYNC"}, FALSE)
        /\ UNCHANGED <<tasks, handles, status, parent, holds, tpc, subject>>
    BY <1>16, SameWait DEF T!AwaitDeath, T!listVars
  <2>2. \A x \in Workers : sigState'[x] = sigState[x] /\ mask'[x] = mask[x] /\ sleep'[x] = sleep[x]
    BY <1>0, <1>s, <2>1 DEF Sig!TypeOK, Sig!Wait, Sig!Turn
  <2> QED BY <1>16, <2>1, <2>2 DEF ThreadInv, ChildInv, T!HandlesLive
<1>17. ASSUME T!Join, UNCHANGED <<wpc, refused>> PROVE ThreadInv'
  <2>1. /\ mpc = "join" /\ mpc' = "idle" /\ subject \in handles /\ subject \in Workers
        /\ tpc[subject] = "exited" /\ tpc'[subject] = "gone" /\ handles' = handles \ {subject}
        /\ \A x \in Workers \ {subject} : tpc'[x] = tpc[x]
        /\ UNCHANGED <<sigVars, tasks, status, parent, holds, subject>>
    BY <1>17, <1>t DEF T!Join, T!sigVars, sigVars, ThreadInv
  <2> QED BY <1>0, <1>17, <2>1 DEF ThreadInv, ChildInv, T!HandlesLive, sigVars
<1>18. ASSUME T!Close, UNCHANGED <<wpc, refused>> PROVE ThreadInv'
  <2>1. /\ mpc' = "closed" /\ handles = {}
        /\ UNCHANGED <<sigVars, tasks, handles, status, parent, holds, tpc, subject>>
    BY <1>18 DEF T!Close, T!sigVars, T!listVars, sigVars
  <2> QED BY <1>18, <2>1 DEF ThreadInv, ChildInv, T!HandlesLive, sigVars
<1>19. ASSUME NEW w \in Workers, T!AwaitSync(w), UNCHANGED <<wpc, refused>> PROVE ThreadInv'
  <2>1. /\ tpc[w] = "entry" /\ tpc'[w] = "sync" /\ Sig!Wait(w, {"SYNC"}, FALSE)
        /\ \A x \in Workers \ {w} : tpc'[x] = tpc[x]
        /\ UNCHANGED <<tasks, handles, status, parent, holds, mpc, subject>>
    BY <1>19, <1>t, SameWait DEF T!AwaitSync, T!listVars
  <2>2. /\ \A x \in Workers \ {w} :
             sigState'[x] = sigState[x] /\ mask'[x] = mask[x] /\ sleep'[x] = sleep[x]
        /\ sigState'[w] = sigState[w] \ {"SYNC"} /\ mask'[w] = {"SYNC"}
        /\ sleep'[w] = "running" => "SYNC" \in sigState[w]
    BY <1>0, <1>s, <2>1 DEF Sig!TypeOK, Sig!Wait, Sig!Turn
  <2>4. ChildInv(w)'
    BY <1>19, <2>1, <2>2 DEF ThreadInv, ChildInv, T!HandlesLive
  <2>5. \A x \in Workers \ {w} : ChildInv(x)'
    BY <1>19, <2>1, <2>2 DEF ThreadInv, ChildInv
  <2>6. T!HandlesLive'
    BY <1>19, <2>1, <2>2 DEF ThreadInv, T!HandlesLive
  <2> QED BY <1>t, <1>19, <2>1, <2>2, <2>4, <2>5, <2>6 DEF ThreadInv
<1>20. ASSUME NEW w \in Workers, T!Run(w), UNCHANGED <<wpc, refused>> PROVE ThreadInv'
  <2>1. /\ tpc[w] = "sync" /\ sleep[w] = "running" /\ tpc'[w] = "body" /\ status'[w] = "run"
        /\ \A x \in Workers \ {w} : tpc'[x] = tpc[x] /\ status'[x] = status[x]
        /\ UNCHANGED <<sigVars, tasks, handles, parent, holds, mpc, subject>>
    BY <1>20, <1>t DEF T!Run, T!Awake, T!sigVars, sigVars
  <2>3. status[w] # "dead" /\ parent[w] = Main
    BY <2>1 DEF ThreadInv, ChildInv
  <2>4. ChildInv(w)'
    BY <1>20, <2>1 DEF ThreadInv, ChildInv, T!HandlesLive, sigVars
  <2>5. \A x \in Workers \ {w} : ChildInv(x)'
    BY <1>20, <2>1 DEF ThreadInv, ChildInv, sigVars
  <2>6. T!HandlesLive'
    BY <1>t, <1>20, <2>1, <2>3 DEF ThreadInv, T!HandlesLive, sigVars
  <2> QED BY <1>t, <1>20, <2>1, <2>3, <2>4, <2>5, <2>6 DEF ThreadInv, sigVars
<1>21. ASSUME NEW w \in Workers, T!Die(w), UNCHANGED <<wpc, refused>> PROVE ThreadInv'
  <2>1. /\ tpc[w] = "returned" /\ tpc'[w] = "notify" /\ status'[w] = "dead"
        /\ \A x \in Workers \ {w} : tpc'[x] = tpc[x] /\ status'[x] = status[x]
        /\ UNCHANGED <<sigVars, tasks, handles, parent, holds, mpc, subject>>
    BY <1>21, <1>t DEF T!Die, T!sigVars, sigVars
  <2> QED BY <1>21, <1>t, <2>1 DEF ThreadInv, ChildInv, T!HandlesLive, sigVars
<1>22. ASSUME NEW w \in Workers, T!Notify(w), UNCHANGED <<wpc, refused>> PROVE ThreadInv'
  <2>1. /\ tpc[w] = "notify" /\ tpc'[w] = "exited" /\ Sig!Signal(Main, {"SYNC"})
        /\ \A x \in Workers \ {w} : tpc'[x] = tpc[x]
        /\ UNCHANGED <<tasks, handles, status, parent, holds, mpc, subject>>
    BY <1>22, <1>p, <1>t, SameSignal DEF T!Notify, T!listVars
  <2>2. /\ sigState' = [sigState EXCEPT ![Main] = @ \cup {"SYNC"}] /\ mask' = mask
        /\ \A x \in Threads : sleep'[x] = "running" <=> sleep[x] = "running"
    BY <1>0, <1>n, <1>s, <2>1, SignalEffect
  <2>3. \A x \in Workers : sigState'[x] = sigState[x]
    BY <1>0, <1>o, <2>2
  <2>4. ChildInv(w)'
    BY <1>0, <1>22, <2>1, <2>2, <2>3 DEF ThreadInv, ChildInv, T!HandlesLive
  <2>5. \A x \in Workers \ {w} : ChildInv(x)'
    BY <1>0, <1>22, <2>1, <2>2, <2>3 DEF ThreadInv, ChildInv
  <2>6. T!HandlesLive'
    BY <1>0, <1>22, <2>1, <2>2, <2>3 DEF ThreadInv, T!HandlesLive
  <2> QED BY <1>t, <1>0, <1>22, <2>1, <2>2, <2>3, <2>4, <2>5, <2>6 DEF ThreadInv
<1>23. ASSUME NEW w \in Workers, NoMessage(w) PROVE ThreadInv'
  <2>1. /\ tpc[w] = "body" /\ wpc[w] = "drain"
        /\ UNCHANGED <<sigVars, tasks, handles, status, parent, refs, holds, mpc, subject, refused>>
        /\ \A x \in Workers \ {w} : tpc'[x] = tpc[x] /\ wpc'[x] = wpc[x]
        /\ tpc'[w] \in {"body", "returned"} /\ wpc'[w] \in {"drain", "wait"}
    BY <1>23, <1>t, <1>w DEF NoMessage, In, Goto, mainVars, runVars
  <2>4. ChildInv(w)'
    BY <2>1 DEF ThreadInv, ChildInv, sigVars
  <2>5. \A x \in Workers \ {w} : ChildInv(x)'
    BY <2>1 DEF ThreadInv, ChildInv, sigVars
  <2>6. T!HandlesLive'
    BY <2>1 DEF ThreadInv, T!HandlesLive, sigVars
  <2> QED BY <1>t, <1>23, <2>1, <2>4, <2>5, <2>6 DEF ThreadInv, sigVars
<1>24. CASE CreateWorker
  <2>1. UNCHANGED <<wpc, refused>>
    BY <1>24 DEF CreateWorker, workerVars, runVars
  <2>2. (count < numWorkers /\ T!Link(count + 1)) \/ T!Spawn \/ T!AdoptThenKick
    BY <1>24 DEF CreateWorker
  <2>3. T!AdoptThenKick => mpc \in {"adopt", "kick"}
    BY DEF T!AdoptThenKick
  <2> QED BY <1>9, <1>10, <1>12, <1>13, <2>1, <2>2, <2>3, NextWorker
<1>25. CASE DestroyWorker \/ Close
  <2>1. UNCHANGED <<wpc, refused>>
    BY <1>25 DEF DestroyWorker, Close, workerVars, runVars
  <2>2. (count < numWorkers /\ T!Abort(count + 1)) \/ T!ScanFinds \/ T!ScanFindsNot \/ T!AwaitDeath
        \/ T!Join \/ T!Close
    BY <1>25 DEF DestroyWorker, Close
  <2> QED BY <1>14, <1>15, <1>16, <1>17, <1>18, <2>1, <2>2, NextWorker
<1>26. ASSUME NEW w \in Workers, ThreadEntry(w) PROVE ThreadInv'
  <2>1. UNCHANGED <<wpc, refused>>
    BY <1>26 DEF ThreadEntry, workerVars, mainVars, runVars
  <2> QED BY <1>19, <1>20, <1>21, <1>22, <1>26, <2>1 DEF ThreadEntry
<1>27. CASE PostFromMain
  <2>1. posting \in [Threads -> Threads \cup {Nobody}]
    BY DEF TypeOK
  <2>2. /\ posting[Main] \in Threads /\ Sig!Signal(posting[Main], {"USER"})
        /\ UNCHANGED <<threadVars, wpc>>
    BY <1>0, <1>27, <2>1, SameSignal DEF PostFromMain, P!Post, workerVars
  <2> QED BY <1>2, <1>n, <2>2
<1>28. CASE AwaitReply
  <2>1. UNCHANGED <<threadVars, wpc>> /\ \E m \in SUBSET T!Signals : Sig!Wait(Main, m, FALSE)
    BY <1>28, <1>n DEF AwaitReply, workerVars
  <2> QED BY <1>3, <2>1
<1>29. CASE AbortWorker
  <2>1. UNCHANGED <<threadVars, wpc>>
    BY <1>29 DEF AbortWorker, workerVars
  <2>2. count + 1 \in Threads
    BY <1>0, <1>29, NextWorker DEF AbortWorker
  <2>3. Sig!Signal(count + 1, {"ABORT"}) \/ UNCHANGED sigVars
    BY <1>29 DEF AbortWorker
  <2> QED BY <1>1, <1>2, <1>n, <2>1, <2>2, <2>3
<1>30. ASSUME NEW w \in Workers, ReportProgress(w) PROVE ThreadInv'
  <2>1. UNCHANGED <<threadVars, wpc>> /\ Sig!Signal(Main, {"UPDATE"})
    BY <1>30 DEF ReportProgress, workerVars
  <2> QED BY <1>0, <1>2, <1>n, <2>1
<1>31. ASSUME NEW t \in Threads, Resume(t) \/ Spurious(t) PROVE ThreadInv'
  <2>1. UNCHANGED <<threadVars, wpc>> /\ (Sig!Resume(t) \/ Sig!SpuriousWakeup(t))
    BY <1>31, SameWait DEF Resume, Spurious, T!Resume, T!Spurious, T!listVars, threadVars, workerVars
  <2> QED BY <1>4, <1>5, <2>1
<1>32. CASE \/ ParseArg \/ ArgsParsed \/ CheckArgs \/ InitFails \/ HandleFails \/ Scan \/ ScanFails
            \/ Send \/ AllSent \/ TakeReply \/ Drained \/ ToDistances \/ NoMessages \/ NoDistances
            \/ ToOrder \/ NoOrder \/ Finish \/ FreeAll \/ AllAborted \/ SkipWorker \/ Terminated
            \/ UNCHANGED vars
  BY <1>1, <1>32
  DEF ParseArg, ArgsParsed, CheckArgs, InitFails, HandleFails, StopThose, Scan, ScanFails, Send,
      AllSent, TakeReply, Drained, ToDistances, NoMessages, NoDistances, ToOrder, NoOrder, Finish,
      FreeAll, AllAborted, SkipWorker, Terminated, vars, workerVars
<1>33. ASSUME NEW w \in Workers, WorkerStep(w) \/ ReportProgress(w) PROVE ThreadInv'
  BY <1>6, <1>7, <1>8, <1>23, <1>26, <1>30, <1>33 DEF WorkerStep
<1>34. CASE MainStep
  BY <1>11, <1>24, <1>25, <1>27, <1>28, <1>29, <1>32, <1>34 DEF MainStep
<1> QED
  <2>1. (\E w \in Workers : WorkerStep(w) \/ ReportProgress(w)) => ThreadInv'
    BY <1>33
  <2>2. (\E t \in Threads : Resume(t) \/ Spurious(t)) => ThreadInv'
    BY <1>31
  <2> QED BY <1>32, <1>34, <2>1, <2>2 DEF Next

-----------------------------------------------------------------------------
(* Who sleeps.                                                             *)

LEMMA MainAsleep ==
  ASSUME TypeOK, Control, SleepInv, sleep[Main] # "running", MainStep
  PROVE  FALSE
<1>1. pc = "drain" \/ (pc = "destroy" /\ mpc = "scan")
  BY DEF SleepInv
<1>2. CASE pc = "drain"
  BY <1>2
  DEF MainStep, ParseArg, ArgsParsed, CheckArgs, InitFails, CreateWorker, CreateFails,
      HandleFails, Scan, ScanFails, Send, PostFromMain, TakeReply, AllSent, AwaitReply, Drained,
      ToDistances, NoMessages, NoDistances, ToOrder, NoOrder, Finish, FreeAll, AbortWorker,
      AllAborted, DestroyWorker, SkipWorker, Close, Awake
<1>3. CASE pc = "destroy" /\ mpc = "scan"
  BY <1>3
  DEF MainStep, ParseArg, ArgsParsed, CheckArgs, InitFails, CreateWorker, CreateFails,
      HandleFails, Scan, ScanFails, Send, PostFromMain, TakeReply, AllSent, AwaitReply, Drained,
      ToDistances, NoMessages, NoDistances, ToOrder, NoOrder, Finish, FreeAll, AbortWorker,
      AllAborted, DestroyWorker, SkipWorker, Close, Awake, T!Awake, T!Abort, T!ScanFinds,
      T!ScanFindsNot, T!AwaitDeath, T!Join, T!Close
<1> QED BY <1>1, <1>2, <1>3

\* A worker that sleeps does nothing.
LEMMA WorkerAsleep ==
  ASSUME TypeOK, Control, ThreadInv, SleepInv, [Next]_vars, NEW w \in Workers, sleep[w] # "running"
  PROVE  tpc'[w] = tpc[w] /\ wpc'[w] = wpc[w]
<1>1. tpc[w] \in {"sync", "body"}
  BY DEF SleepInv
<1>2. /\ tpc \in [Workers -> {"none", "entry", "sync", "body", "ending",
                              "returned", "notify", "exited", "gone"}]
      /\ wpc \in [Workers -> {"wait", "drain", "handle", "reply", "post"}]
  BY DEF TypeOK, T!TypeOK
<1>3. wpc'[w] = wpc[w]
  <2>1. ASSUME NEW v \in Workers,
               WorkerWait(v) \/ TakeMessage(v) \/ NoMessage(v) \/ Handle(v) \/ WorkerReply(v)
        PROVE  wpc'[w] = wpc[w]
    BY <1>2, <2>1 DEF WorkerWait, TakeMessage, NoMessage, Handle, WorkerReply, In, Awake, Goto
  <2>2. ASSUME NEW v \in Workers, WorkerPost(v) PROVE wpc'[w] = wpc[w]
    BY <1>2, <2>2 DEF WorkerPost, NextMessage, In, Awake, Goto
  <2>3. Send \/ PostFromMain \/ TakeReply \/ UNCHANGED workerVars => wpc' = wpc
    BY DEF Send, PostFromMain, TakeReply, workerVars
  <2> QED BY <2>1, <2>2, <2>3, MessagesElsewhere DEF MessageStep
<1>4. tpc'[w] = tpc[w]
  <2>1. ASSUME NEW v \in Workers, T!AwaitSync(v) \/ T!Run(v) \/ T!Die(v) \/ T!Notify(v) \/ NoMessage(v)
        PROVE  tpc'[w] = tpc[w]
    BY <1>1, <1>2, <2>1
    DEF T!AwaitSync, T!Sig!Wait, T!Run, T!Awake, T!Die, T!Notify, NoMessage, In, Awake
  <2>2. T!Spawn \/ CreateFails => tpc'[w] = tpc[w]
    BY <1>1, <1>2 DEF T!Spawn, CreateFails, T!SpawnFails, ThreadInv
  <2>3. T!Join => tpc'[w] = tpc[w]
    BY <1>1, <1>2 DEF T!Join
  <2>4. T!AdoptThenKick \/ T!ScanFinds \/ T!ScanFindsNot \/ T!AwaitDeath \/ T!Close
        \/ UNCHANGED threadVars => tpc' = tpc
    BY DEF T!AdoptThenKick, T!ScanFinds, T!ScanFindsNot, T!AwaitDeath, T!Close, threadVars
  <2>5. ASSUME NEW v \in Workers, T!Link(v) \/ T!Abort(v) PROVE tpc' = tpc
    BY <2>5 DEF T!Link, T!Abort
  <2>6. ASSUME ThreadStep PROVE tpc'[w] = tpc[w]
    BY <2>1, <2>2, <2>3, <2>4, <2>5, <2>6 DEF ThreadStep
  <2> QED BY <2>4, <2>6, ThreadsElsewhere
<1> QED BY <1>3, <1>4

\* Nobody's mask changes while it sleeps, and nobody falls asleep but in a wait.
LEMMA AsleepSame ==
  ASSUME TypeOK, Control, ThreadInv, SleepInv, [Next]_vars, NEW t \in Threads
  PROVE  /\ sleep[t] # "running" => mask'[t] = mask[t]
         /\ sleep[t] = "running" /\ sleep'[t] # "running" =>
              IF t = Main THEN AwaitReply \/ T!AwaitDeath ELSE WorkerWait(t) \/ T!AwaitSync(t)
<1> DEFINE Kept == sleep[t] # "running" => mask'[t] = mask[t]
           Fell == sleep[t] = "running" /\ sleep'[t] # "running"
           Where == IF t = Main THEN AwaitReply \/ T!AwaitDeath ELSE WorkerWait(t) \/ T!AwaitSync(t)
<1>0. Sig!TypeOK /\ Main \notin Workers /\ Main \in Threads /\ \A w \in Workers : w \in Threads
  BY NobodyElse DEF TypeOK, T!TypeOK, T!Sig!TypeOK, T!Threads, T!Signals, Sig!TypeOK, Threads
<1>1. UNCHANGED sigVars => Kept /\ ~Fell
  BY DEF sigVars
<1>2. ASSUME NEW w \in Workers, T!Link(w) PROVE Kept /\ ~Fell
  BY <1>2 DEF T!Link
<1>3. ASSUME NEW x \in Threads, NEW signals \in SUBSET T!Signals, Sig!Signal(x, signals)
      PROVE  Kept /\ ~Fell
  BY <1>0, <1>3, SignalEffect
<1>4. ASSUME NEW x \in Threads, NEW m, Sig!Wait(x, m, FALSE)
      PROVE  Kept /\ (Fell => x = t)
  BY <1>0, <1>4 DEF Sig!TypeOK, Sig!Wait, Sig!Turn
<1>5. ASSUME NEW x \in Threads, Sig!Resume(x) \/ Sig!SpuriousWakeup(x) PROVE Kept /\ ~Fell
  BY <1>0, <1>5 DEF Sig!TypeOK, Sig!Resume, Sig!SpuriousWakeup, Sig!Turn
<1>6. AwaitReply => Kept /\ (Fell => Where)
  BY <1>0, <1>4 DEF AwaitReply
<1>7. T!AwaitDeath => Kept /\ (Fell => Where)
  BY <1>0, <1>4, SameWait DEF T!AwaitDeath
<1>8. ASSUME NEW w \in Workers, WorkerWait(w) PROVE Kept /\ (Fell => Where)
  BY <1>0, <1>4, <1>8 DEF WorkerWait
<1>9. ASSUME NEW w \in Workers, T!AwaitSync(w) PROVE Kept /\ (Fell => Where)
  BY <1>0, <1>4, <1>9, SameWait DEF T!AwaitSync
<1> HIDE DEF Kept, Fell, Where
<1>10. Kept /\ (Fell => Where)
  BY <1>1, <1>2, <1>3, <1>5, <1>6, <1>7, <1>8, <1>9, SignalsOneByOne DEF SignalStep
<1> QED BY <1>10 DEF Kept, Fell, Where

LEMMA StepSleepInv ==
  ASSUME TypeOK, Control, ThreadInv, SleepInv, PortInv, [Next]_vars, Control' PROVE SleepInv'
<1>0. Main \notin Workers /\ Main \in Threads /\ \A w \in Workers : w \in Threads /\ w # Main
  BY NobodyElse DEF Threads
<1>1. \A t \in Threads : sleep'[t] = "asleep" => sigState'[t] \cap mask'[t] = {}
  BY SignalsKept
<1>2. ASSUME NEW w \in Workers, sleep'[w] # "running"
      PROVE  \/ tpc'[w] = "sync" /\ mask'[w] = {"SYNC"}
             \/ tpc'[w] = "body" /\ wpc'[w] = "drain"
  <2>1. CASE sleep[w] # "running"
    BY <1>0, <2>1, WorkerAsleep, AsleepSame DEF SleepInv
  <2>2. CASE WorkerWait(w)
    BY <2>2 DEF WorkerWait, In, Goto, threadVars, TypeOK
  <2>3. CASE T!AwaitSync(w)
    <3>1. tpc \in [Workers -> {"none", "entry", "sync", "body", "ending",
                              "returned", "notify", "exited", "gone"}]
          /\ mask \in [Threads -> SUBSET T!Signals]
      BY DEF TypeOK, T!TypeOK, T!Sig!TypeOK, T!Threads, Threads
    <3> QED BY <1>0, <2>3, <3>1 DEF T!AwaitSync, T!Sig!Wait
  <2> QED BY <1>0, <1>2, <2>1, <2>2, <2>3, AsleepSame
<1>3. ASSUME sleep'[Main] # "running"
      PROVE  \/ pc' = "drain"
             \/ pc' = "destroy" /\ mpc' = "scan" /\ mask'[Main] = {"SYNC"}
  <2>1. CASE sleep[Main] # "running"
    <3>1. UNCHANGED <<mainVars, mpc>> /\ mask'[Main] = mask[Main]
      BY <1>0, <2>1, MainAsleep, OthersLeaveMain, AsleepSame
    <3> QED BY <2>1, <3>1 DEF SleepInv, mainVars
  <2>2. CASE AwaitReply
    BY <2>2 DEF AwaitReply
  <2>3. CASE T!AwaitDeath
    <3>1. mask \in [Threads -> SUBSET T!Signals]
      BY DEF TypeOK, T!TypeOK, T!Sig!TypeOK, T!Threads, Threads
    <3> QED BY <1>0, <2>3, <3>1 DEF T!AwaitDeath, T!Sig!Wait, Control
  <2> QED BY <1>0, <1>3, <2>1, <2>2, <2>3, AsleepSame
<1> QED BY <1>1, <1>2, <1>3 DEF SleepInv

-----------------------------------------------------------------------------
(* The messages and the ports.                                             *)

LEMMA PutKeepsQueues ==
  ASSUME PortTypes, QueueInv, NEW t \in Threads, NEW port \in Threads, NEW reply \in {Main, Nobody},
         NEW m \in Messages, holder[m] # Nobody, P!Put(t, port, reply, m)
  PROVE  QueueInv'
<1> DEFINE n == Len(queue[port]) + 1
<1>1. /\ holder' = [holder EXCEPT ![m] = Nobody]
      /\ \A u \in Threads \ {port} : queue'[u] = queue[u]
      /\ Len(queue[port]) \in Nat /\ DOMAIN queue[port] = 1 .. Len(queue[port])
      /\ DOMAIN queue'[port] = 1 .. Len(queue[port]) + 1
      /\ \A k \in DOMAIN queue[port] : queue'[port][k] = queue[port][k]
      /\ queue'[port][n] = m
  BY PutEffect
<1>2. \A u \in Threads : \A k \in DOMAIN queue'[u] :
        \/ u = port /\ k = n /\ queue'[u][k] = m
        \/ k \in DOMAIN queue[u] /\ queue'[u][k] = queue[u][k] /\ queue[u][k] # m
  <2>1. \A u \in Threads : \A k \in DOMAIN queue[u] : queue[u][k] # m
    BY DEF QueueInv
  <2>2. \A k \in DOMAIN queue'[port] : k = n \/ k \in DOMAIN queue[port]
    BY <1>1
  <2> HIDE DEF n
  <2> QED BY <1>1, <2>1, <2>2
<1>3. \A u \in Threads : \A k \in DOMAIN queue[u] : k \in DOMAIN queue'[u] /\ queue'[u][k] = queue[u][k]
  BY <1>1
<1>4. n \in DOMAIN queue'[port]
  BY <1>1
<1>5. \A u \in Threads : \A k \in DOMAIN queue[u] : queue[u][k] \in Messages
  BY DEF PortTypes
<1> HIDE DEF n
<1>6. \A u \in Threads : \A k \in DOMAIN queue'[u] : holder'[queue'[u][k]] = Nobody
  BY <1>1, <1>2, <1>5 DEF QueueInv, PortTypes
<1>7. \A x \in Messages : holder'[x] = Nobody =>
        \E u \in Threads : \E k \in DOMAIN queue'[u] : queue'[u][k] = x
  <2> TAKE x \in Messages
  <2> SUFFICES ASSUME holder'[x] = Nobody, x # m
               PROVE  \E u \in Threads : \E k \in DOMAIN queue'[u] : queue'[u][k] = x
    BY <1>1, <1>4
  <2>1. holder[x] = Nobody
    BY <1>1 DEF PortTypes
  <2>2. PICK u \in Threads : \E k \in DOMAIN queue[u] : queue[u][k] = x
    BY <2>1 DEF QueueInv
  <2> QED BY <1>3, <2>2
<1>8. \A u, v \in Threads : \A k \in DOMAIN queue'[u], l \in DOMAIN queue'[v] :
        queue'[u][k] = queue'[v][l] => u = v /\ k = l
  BY <1>2 DEF QueueInv
<1> QED BY <1>6, <1>7, <1>8 DEF QueueInv

LEMMA GetKeepsQueues ==
  ASSUME PortTypes, QueueInv, NEW t \in Threads, NEW m \in Messages, P!Get(t, m)
  PROVE  QueueInv'
<1>1. /\ holder' = [holder EXCEPT ![m] = t]
      /\ \A u \in Threads \ {t} : queue'[u] = queue[u]
      /\ Len(queue[t]) \in Nat \ {0} /\ DOMAIN queue[t] = 1 .. Len(queue[t])
      /\ DOMAIN queue'[t] = 1 .. Len(queue[t]) - 1
      /\ queue[t][1] = m
      /\ \A k \in DOMAIN queue'[t] : queue'[t][k] = queue[t][k + 1]
  BY GetEffect
<1>2. /\ 1 \in DOMAIN queue[t]
      /\ \A k \in DOMAIN queue'[t] : k + 1 \in DOMAIN queue[t] /\ k + 1 # 1 /\ k \in Int
      /\ \A k \in DOMAIN queue[t] : k # 1 => k - 1 \in DOMAIN queue'[t] /\ (k - 1) + 1 = k
  BY <1>1
<1>3. \A k, l \in Int : k + 1 = l + 1 => k = l
  OBVIOUS
<1>4. Nobody \notin Threads
  BY NobodyElse
<1>5. \A u \in Threads : \A k \in DOMAIN queue[u] : queue[u][k] \in Messages
  BY DEF PortTypes
<1>6. \A u \in Threads : \A k \in DOMAIN queue[u] : queue[u][k] = m => u = t /\ k = 1
  BY <1>1, <1>2 DEF QueueInv
<1>7. \A u \in Threads : \A k \in DOMAIN queue'[u] : holder'[queue'[u][k]] = Nobody
  <2>1. ASSUME NEW u \in Threads, u # t, NEW k \in DOMAIN queue'[u]
        PROVE  holder'[queue'[u][k]] = Nobody
    BY <1>1, <1>5, <1>6, <2>1 DEF QueueInv, PortTypes
  <2>2. ASSUME NEW k \in DOMAIN queue'[t] PROVE holder'[queue'[t][k]] = Nobody
    <3>1. queue'[t][k] = queue[t][k + 1] /\ k + 1 \in DOMAIN queue[t] /\ k + 1 # 1
      BY <1>1, <1>2
    <3> QED BY <1>1, <1>5, <1>6, <3>1 DEF QueueInv, PortTypes
  <2> QED BY <2>1, <2>2
<1>8. ASSUME NEW x \in Messages, holder'[x] = Nobody
      PROVE  \E u \in Threads : \E k \in DOMAIN queue'[u] : queue'[u][k] = x
  <2>1. x # m /\ holder[x] = Nobody
    BY <1>1, <1>4, <1>8 DEF PortTypes
  <2>2. PICK u \in Threads : \E k \in DOMAIN queue[u] : queue[u][k] = x
    BY <2>1 DEF QueueInv
  <2>3. CASE u # t
    BY <1>1, <2>2, <2>3
  <2>4. CASE u = t
    <3>0. PICK k \in DOMAIN queue[t] : queue[t][k] = x
      BY <2>2, <2>4
    <3>1. k # 1
      BY <1>1, <2>1, <3>0
    <3>2. k - 1 \in DOMAIN queue'[t] /\ (k - 1) + 1 = k
      BY <1>2, <3>0, <3>1
    <3>3. queue'[t][k - 1] = x
      BY <1>1, <3>0, <3>2
    <3> QED BY <3>2, <3>3
  <2> QED BY <2>3, <2>4
<1>9. ASSUME NEW u \in Threads, NEW v \in Threads, NEW k \in DOMAIN queue'[u], NEW l \in DOMAIN queue'[v],
             queue'[u][k] = queue'[v][l]
      PROVE  u = v /\ k = l
  <2>1. CASE u # t /\ v # t
    BY <1>1, <1>9, <2>1 DEF QueueInv
  <2>2. CASE u = t /\ v = t
    <3>1. queue[t][k + 1] = queue[t][l + 1] /\ k + 1 \in DOMAIN queue[t] /\ l + 1 \in DOMAIN queue[t]
      BY <1>1, <1>2, <1>9, <2>2
    <3>2. k + 1 = l + 1 /\ k \in Int /\ l \in Int
      BY <1>2, <2>2, <3>1 DEF QueueInv
    <3> QED BY <1>3, <2>2, <3>2
  <2>3. CASE u = t /\ v # t
    <3>1. queue[t][k + 1] = queue[v][l] /\ k + 1 \in DOMAIN queue[t] /\ l \in DOMAIN queue[v]
      BY <1>1, <1>2, <1>9, <2>3
    <3> QED BY <2>3, <3>1 DEF QueueInv
  <2>4. CASE u # t /\ v = t
    <3>1. queue[t][l + 1] = queue[u][k] /\ l + 1 \in DOMAIN queue[t] /\ k \in DOMAIN queue[u]
      BY <1>1, <1>2, <1>9, <2>4
    <3> QED BY <2>4, <3>1 DEF QueueInv
  <2> QED BY <2>1, <2>2, <2>3, <2>4
<1> QED BY <1>7, <1>8, <1>9 DEF QueueInv

\* A worker that does nothing keeps what it has, whatever becomes of a message
\* that it has not.
LEMMA HoldsFrame ==
  ASSUME NEW w \in Workers, HoldsInv(w), NEW m \in Messages, holder[m] # w, holder'[m] # w,
         PortTypes, WorkerTypes,
         \A x \in Messages \ {m} : holder'[x] = holder[x] /\ replyTo'[x] = replyTo[x],
         current'[w] = current[w], wpc'[w] = wpc[w], posting'[w] = posting[w],
         \A k \in DOMAIN queue'[w] : replyTo'[queue'[w][k]] = Main
  PROVE  HoldsInv(w)'
<1>1. current[w] # Nobody => current[w] \in Messages
  BY DEF WorkerTypes
<1> QED BY <1>1 DEF HoldsInv

LEMMA StepPortInv ==
  ASSUME TypeOK, Control, PortInv, FlightInv, [Next]_vars PROVE PortInv'
<1>0. /\ PortTypes /\ WorkerTypes /\ Main \in Threads /\ Nobody \notin Threads /\ Main \notin Workers
      /\ \A w \in Workers : w \in Threads /\ w # Main /\ w # Nobody
      /\ Nobody \notin Messages /\ Nobody # Main
  BY TypeParts, NobodyElse DEF Threads
<1>q. QueueInv /\ \A w \in Workers : HoldsInv(w)
  BY DEF PortInv
<1>m. \A t \in Threads : \A k \in DOMAIN queue[t] : queue[t][k] \in Messages
  BY <1>0 DEF PortTypes
<1>1. CASE UNCHANGED <<portVars, workerVars>>
  BY <1>q, <1>1 DEF portVars, workerVars, PortInv, QueueInv, HoldsInv
<1>2. CASE Send
  <2> DEFINE m == <<phase, count + 1>>
             port == Receiver(count)
  <2>1. /\ port \in Workers /\ m \in Messages /\ P!Put(Main, port, Main, m)
        /\ UNCHANGED workerVars
    BY <1>2, SendWhere DEF Send
  <2>2. holder[m] = Main
    <3>1. m \notin {phase} \X (1 .. count) /\ InFlight = {phase} \X (1 .. count)
      BY <1>2 DEF Send, FlightInv, TypeOK
    <3> QED BY <2>1, <3>1 DEF InFlight
  <2> HIDE DEF m, port
  <2>3. /\ posting' = [posting EXCEPT ![Main] = port]
        /\ holder' = [holder EXCEPT ![m] = Nobody] /\ replyTo' = [replyTo EXCEPT ![m] = Main]
        /\ \A u \in Threads \ {port} : queue'[u] = queue[u]
        /\ Len(queue[port]) \in Nat /\ DOMAIN queue[port] = 1 .. Len(queue[port])
        /\ DOMAIN queue'[port] = 1 .. Len(queue[port]) + 1
        /\ \A k \in DOMAIN queue[port] : queue'[port][k] = queue[port][k]
        /\ queue'[port][Len(queue[port]) + 1] = m
    BY <1>0, <2>1, PutEffect
  <2>4. QueueInv'
    BY <1>0, <1>q, <2>1, <2>2, PutKeepsQueues
  <2>5. ASSUME NEW w \in Workers, NEW k \in DOMAIN queue'[w] PROVE replyTo'[queue'[w][k]] = Main
    <3>1. ASSUME k \in DOMAIN queue[w], queue'[w][k] = queue[w][k] PROVE replyTo'[queue'[w][k]] = Main
      <4>1. queue[w][k] # m /\ queue[w][k] \in Messages
        BY <1>0, <1>m, <1>q, <2>2, <3>1 DEF QueueInv
      <4> QED BY <1>0, <1>q, <2>3, <3>1, <4>1 DEF HoldsInv, PortTypes
    <3>2. CASE w = port /\ k = Len(queue[port]) + 1
      BY <1>0, <2>1, <2>3, <3>2 DEF PortTypes
    <3>3. CASE w = port /\ k # Len(queue[port]) + 1
      <4>1. k \in DOMAIN queue[w]
        BY <2>3, <3>3
      <4> QED BY <2>3, <3>1, <3>3, <4>1
    <3>4. CASE w # port
      BY <1>0, <2>3, <2>5, <3>1, <3>4
    <3> QED BY <3>2, <3>3, <3>4
  <2>6. ASSUME NEW w \in Workers PROVE HoldsInv(w)'
    <3>1. holder[m] # w /\ holder'[m] # w
      BY <1>0, <2>1, <2>2, <2>3 DEF PortTypes
    <3>2. \A x \in Messages \ {m} : holder'[x] = holder[x] /\ replyTo'[x] = replyTo[x]
      BY <1>0, <2>3 DEF PortTypes
    <3>3. current'[w] = current[w] /\ wpc'[w] = wpc[w] /\ posting'[w] = posting[w]
      BY <1>0, <2>1, <2>3 DEF workerVars, PortTypes
    <3> QED BY <1>0, <1>q, <2>1, <2>5, <3>1, <3>2, <3>3, HoldsFrame
  <2> QED BY <2>4, <2>6 DEF PortInv
<1>3. CASE PostFromMain
  <2>1. /\ UNCHANGED <<queue, replyTo, holder, wpc, current>>
        /\ \A w \in Workers : posting'[w] = posting[w]
    BY <1>0, <1>3 DEF PostFromMain, P!Post, workerVars, PortTypes
  <2> QED BY <1>q, <2>1 DEF PortInv, QueueInv, HoldsInv
<1>4. CASE TakeReply
  <2>1. PICK m \in Messages : P!Get(Main, m)
    BY <1>4 DEF TakeReply
  <2>2. /\ posting' = posting /\ replyTo' = replyTo /\ holder' = [holder EXCEPT ![m] = Main]
        /\ \A u \in Threads \ {Main} : queue'[u] = queue[u]
        /\ Len(queue[Main]) \in Nat \ {0} /\ DOMAIN queue[Main] = 1 .. Len(queue[Main])
        /\ queue[Main][1] = m
    BY <1>0, <2>1, GetEffect
  <2>3. holder[m] = Nobody
    <3>1. 1 \in DOMAIN queue[Main]
      BY <2>2
    <3> QED BY <1>0, <1>q, <2>2, <3>1 DEF QueueInv
  <2>4. QueueInv'
    BY <1>0, <1>q, <2>1, GetKeepsQueues
  <2>5. ASSUME NEW w \in Workers PROVE HoldsInv(w)'
    <3>1. holder[m] # w /\ holder'[m] # w
      BY <1>0, <2>2, <2>3 DEF PortTypes
    <3>2. \A x \in Messages \ {m} : holder'[x] = holder[x] /\ replyTo'[x] = replyTo[x]
      BY <1>0, <2>2 DEF PortTypes
    <3>3. current'[w] = current[w] /\ wpc'[w] = wpc[w] /\ posting'[w] = posting[w]
      BY <1>4, <2>2 DEF TakeReply, workerVars
    <3>4. \A k \in DOMAIN queue'[w] : replyTo'[queue'[w][k]] = Main
      BY <1>0, <1>q, <2>2 DEF HoldsInv
    <3> QED BY <1>0, <1>q, <3>1, <3>2, <3>3, <3>4, HoldsFrame
  <2> QED BY <2>4, <2>5 DEF PortInv
<1>5. ASSUME NEW w \in Workers, WorkerWait(w) \/ NoMessage(w) PROVE PortInv'
  <2>1. /\ UNCHANGED <<portVars, current>> /\ wpc[w] \in {"wait", "drain"}
        /\ wpc'[w] \in {"wait", "drain"}
        /\ \A x \in Workers \ {w} : wpc'[x] = wpc[x]
    BY <1>0, <1>5 DEF WorkerWait, NoMessage, In, Goto, WorkerTypes
  <2> QED BY <1>q, <2>1 DEF PortInv, QueueInv, HoldsInv, portVars
<1>6. ASSUME NEW w \in Workers, TakeMessage(w) PROVE PortInv'
  <2>1. PICK m \in Messages : P!Get(w, m) /\ current' = [current EXCEPT ![w] = m]
    BY <1>6 DEF TakeMessage
  <2>2. /\ posting' = posting /\ replyTo' = replyTo /\ holder' = [holder EXCEPT ![m] = w]
        /\ \A u \in Threads \ {w} : queue'[u] = queue[u]
        /\ Len(queue[w]) \in Nat \ {0} /\ DOMAIN queue[w] = 1 .. Len(queue[w])
        /\ DOMAIN queue'[w] = 1 .. Len(queue[w]) - 1
        /\ \A k \in DOMAIN queue'[w] : queue'[w][k] = queue[w][k + 1]
        /\ queue[w][1] = m
    BY <1>0, <2>1, GetEffect
  <2>3. /\ wpc[w] = "drain" /\ wpc'[w] = "handle" /\ current'[w] = m
        /\ \A x \in Workers \ {w} : wpc'[x] = wpc[x] /\ current'[x] = current[x]
    BY <1>0, <1>6, <2>1 DEF TakeMessage, In, Goto, WorkerTypes
  <2>4. holder[m] = Nobody /\ replyTo[m] = Main
    <3>1. 1 \in DOMAIN queue[w]
      BY <2>2
    <3> QED BY <1>0, <1>q, <2>2, <3>1 DEF QueueInv, HoldsInv
  <2>5. QueueInv'
    BY <1>0, <1>q, <2>1, GetKeepsQueues
  <2>6. ASSUME NEW x \in Workers \ {w} PROVE HoldsInv(x)'
    <3>1. holder[m] # x /\ holder'[m] # x
      BY <1>0, <2>2, <2>4 DEF PortTypes
    <3>2. \A y \in Messages \ {m} : holder'[y] = holder[y] /\ replyTo'[y] = replyTo[y]
      BY <1>0, <2>2 DEF PortTypes
    <3>3. \A k \in DOMAIN queue'[x] : replyTo'[queue'[x][k]] = Main
      BY <1>0, <1>q, <2>2 DEF HoldsInv
    <3> QED BY <1>0, <1>q, <2>2, <2>3, <3>1, <3>2, <3>3, HoldsFrame
  <2>7. HoldsInv(w)'
    <3>1. current[w] = Nobody /\ posting[w] = Nobody
      BY <1>q, <2>3 DEF HoldsInv
    <3>2. \A y \in Messages : holder'[y] = w => current'[w] = y
      BY <1>0, <1>q, <2>2, <2>3, <3>1 DEF HoldsInv, PortTypes
    <3>3. \A k \in DOMAIN queue'[w] : k + 1 \in DOMAIN queue[w]
      BY <2>2
    <3>4. \A k \in DOMAIN queue'[w] : replyTo'[queue'[w][k]] = Main
      BY <1>q, <2>2, <3>3 DEF HoldsInv
    <3>5. holder'[m] = w
      BY <1>0, <2>2 DEF PortTypes
    <3> QED BY <1>0, <2>1, <2>2, <2>3, <2>4, <3>1, <3>2, <3>4, <3>5 DEF HoldsInv
  <2> QED BY <2>5, <2>6, <2>7 DEF PortInv
<1>7. ASSUME NEW w \in Workers, Handle(w) PROVE PortInv'
  <2>1. /\ UNCHANGED <<portVars, current>> /\ wpc[w] = "handle" /\ wpc'[w] = "reply"
        /\ \A x \in Workers \ {w} : wpc'[x] = wpc[x]
    BY <1>0, <1>7 DEF Handle, In, Goto, WorkerTypes
  <2> QED BY <1>q, <2>1 DEF PortInv, QueueInv, HoldsInv, portVars
<1>8. ASSUME NEW w \in Workers, WorkerReply(w) PROVE PortInv'
  <2> DEFINE m == current[w]
  <2>1. m \in Messages /\ holder[m] = w /\ P!Put(w, Main, Nobody, m)
    BY <1>8, ReplyWhere
  <2> HIDE DEF m
  <2>2. /\ posting[w] = Nobody /\ posting' = [posting EXCEPT ![w] = Main]
        /\ holder' = [holder EXCEPT ![m] = Nobody] /\ replyTo' = [replyTo EXCEPT ![m] = Nobody]
        /\ \A u \in Threads \ {Main} : queue'[u] = queue[u]
    BY <1>0, <2>1, PutEffect
  <2>3. /\ wpc'[w] = "post" /\ current'[w] = Nobody
        /\ \A x \in Workers \ {w} : wpc'[x] = wpc[x] /\ current'[x] = current[x]
    BY <1>0, <1>8 DEF WorkerReply, In, Goto, WorkerTypes
  <2>4. QueueInv'
    BY <1>0, <1>q, <2>1, PutKeepsQueues
  <2>5. \A y \in Messages \ {m} : holder'[y] = holder[y] /\ replyTo'[y] = replyTo[y]
    BY <1>0, <2>2 DEF PortTypes
  <2>6. ASSUME NEW x \in Workers, NEW k \in DOMAIN queue'[x] PROVE replyTo'[queue'[x][k]] = Main
    <3>1. queue'[x] = queue[x]
      BY <1>0, <2>2
    <3>2. queue[x][k] # m /\ queue[x][k] \in Messages
      BY <1>0, <1>m, <1>q, <2>1, <2>6, <3>1 DEF QueueInv
    <3> QED BY <1>q, <2>5, <2>6, <3>1, <3>2 DEF HoldsInv
  <2>7. holder'[m] = Nobody
    BY <1>0, <2>1, <2>2 DEF PortTypes
  <2>8. ASSUME NEW x \in Workers \ {w} PROVE HoldsInv(x)'
    <3>1. posting'[x] = posting[x]
      BY <1>0, <2>2 DEF PortTypes
    <3> QED BY <1>0, <1>q, <2>1, <2>3, <2>5, <2>6, <2>7, <3>1, HoldsFrame
  <2>9. HoldsInv(w)'
    <3>1. \A y \in Messages : holder'[y] # w
      BY <1>0, <1>q, <2>1, <2>5, <2>7 DEF HoldsInv, m
    <3>2. posting'[w] = Main
      BY <1>0, <2>2 DEF PortTypes
    <3> QED BY <2>3, <2>6, <3>1, <3>2 DEF HoldsInv
  <2> QED BY <2>4, <2>8, <2>9 DEF PortInv
<1>9. ASSUME NEW w \in Workers, WorkerPost(w) PROVE PortInv'
  <2>1. /\ UNCHANGED <<queue, replyTo, holder, current>> /\ wpc[w] = "post" /\ wpc'[w] = "drain"
        /\ posting'[w] = Nobody
        /\ \A x \in Workers \ {w} : wpc'[x] = wpc[x] /\ posting'[x] = posting[x]
    BY <1>0, <1>9 DEF WorkerPost, NextMessage, P!Post, In, Goto, WorkerTypes, PortTypes
  <2> QED BY <1>q, <2>1 DEF PortInv, QueueInv, HoldsInv
<1> QED
  <2>1. (\E w \in Workers : \/ WorkerWait(w) \/ TakeMessage(w) \/ NoMessage(w) \/ Handle(w)
                            \/ WorkerReply(w) \/ WorkerPost(w)) => PortInv'
    BY <1>5, <1>6, <1>7, <1>8, <1>9
  <2> QED BY <1>1, <1>2, <1>3, <1>4, <2>1, MessagesElsewhere DEF MessageStep

-----------------------------------------------------------------------------
(* The messages under way.                                                 *)

\* The main thread alone gives messages away and takes them back.
LEMMA FlightSame ==
  ASSUME TypeOK, PortInv, [Next]_vars
  PROVE  \/ Send \/ TakeReply
         \/ InFlight' = InFlight /\ \A m \in Messages : holder'[m] = Main <=> holder[m] = Main
<1> DEFINE Same == \A m \in Messages : holder'[m] = Main <=> holder[m] = Main
<1>0. /\ PortTypes /\ Nobody # Main /\ QueueInv /\ \A w \in Workers : w \in Threads /\ w # Main
  BY TypeParts, NobodyElse DEF Threads, PortInv
<1>1. UNCHANGED <<portVars, workerVars>> => Same
  BY DEF portVars
<1>2. PostFromMain => Same
  BY DEF PostFromMain, P!Post
<1>3. ASSUME NEW w \in Workers, WorkerWait(w) \/ NoMessage(w) \/ Handle(w) \/ WorkerPost(w) PROVE Same
  BY <1>3 DEF WorkerWait, NoMessage, Handle, WorkerPost, P!Post, portVars
<1>4. ASSUME NEW w \in Workers, TakeMessage(w) PROVE Same
  <2>1. PICK m \in Messages : P!Get(w, m)
    BY <1>4 DEF TakeMessage
  <2>2. holder' = [holder EXCEPT ![m] = w] /\ queue[w][1] = m /\ 1 \in DOMAIN queue[w]
    BY <1>0, <2>1, GetEffect
  <2>3. holder[m] = Nobody
    BY <1>0, <2>2 DEF QueueInv
  <2> QED BY <1>0, <2>2, <2>3 DEF PortTypes
<1>5. ASSUME NEW w \in Workers, WorkerReply(w) PROVE Same
  <2>1. current[w] \in Messages /\ holder[current[w]] = w /\ P!Put(w, Main, Nobody, current[w])
    BY <1>5, ReplyWhere
  <2>2. holder' = [holder EXCEPT ![current[w]] = Nobody]
    BY <2>1 DEF P!Put
  <2> QED BY <1>0, <2>1, <2>2 DEF PortTypes
<1> HIDE DEF Same
<1>6. (\E w \in Workers : \/ WorkerWait(w) \/ TakeMessage(w) \/ NoMessage(w) \/ Handle(w)
                          \/ WorkerReply(w) \/ WorkerPost(w)) => Same
  BY <1>3, <1>4, <1>5
<1>7. Send \/ TakeReply \/ Same
  BY <1>1, <1>2, <1>6, MessagesElsewhere DEF MessageStep
<1>8. Same => InFlight' = InFlight
  BY DEF Same, InFlight
<1> QED BY <1>7, <1>8 DEF Same

LEMMA FlightSent ==
  ASSUME TypeOK, Control, Send
  PROVE  /\ InFlight' = InFlight \cup {<<phase, count + 1>>} /\ <<phase, count + 1>> \in Messages
         /\ holder' = [holder EXCEPT ![<<phase, count + 1>>] = Nobody]
<1> DEFINE m == <<phase, count + 1>>
<1>1. PortTypes /\ Main \in Threads /\ Nobody # Main /\ \A w \in Workers : w \in Threads
  BY TypeParts, NobodyElse DEF Threads
<1>2. m \in Messages /\ holder' = [holder EXCEPT ![m] = Nobody]
  BY <1>1, SendWhere, PutEffect DEF Send
<1> HIDE DEF m
<1>3. InFlight' = InFlight \cup {m}
  BY <1>1, <1>2 DEF InFlight, PortTypes
<1> QED BY <1>2, <1>3 DEF m

LEMMA AllAnswered ==
  ASSUME FlightInv, pc \in {"wait", "drain"}, refused # "distances", left = 0
  PROVE  InFlight = {}
BY FiniteFlight, FS_EmptySet DEF FlightInv

LEMMA StepFlightInv ==
  ASSUME TypeOK, Control, PortInv, FlightInv, [Next]_vars PROVE FlightInv'
<1>0. MainTypes /\ Nobody # "distances"
  BY TypeParts, NobodyElse DEF Refusals
<1>1. ASSUME UNCHANGED <<mainVars, InFlight>> PROVE FlightInv'
  BY <1>1, FullSame DEF FlightInv, mainVars, runVars
<1>2. CASE Send
  <2>1. /\ InFlight' = InFlight \cup {<<phase, count + 1>>} /\ InFlight = {phase} \X (1 .. count)
        /\ count' = count + 1 /\ count \in Nat /\ pc = "send" /\ count + 1 <= Full
        /\ UNCHANGED <<pc, phase, refused, left, hashes, numWorkers>>
    BY <1>2, FlightSent, SendWhere DEF Send, FlightInv, TypeOK, runVars
  <2>2. Full' = Full /\ Full \in Int
    BY <1>0, <2>1, FullSame, SomeWorkers DEF Control, MainTypes
  <2>3. InFlight' = {phase} \X (1 .. count + 1)
    BY <2>1
  <2>4. {phase} \X (1 .. count + 1) \subseteq {phase} \X (1 .. Full)
    BY <2>1, <2>2
  <2> QED BY <2>1, <2>2, <2>3, <2>4 DEF FlightInv, Control
<1>3. CASE TakeReply
  <2>1. /\ InFlight' \subseteq InFlight /\ left' = Cardinality(InFlight')
        /\ refused # "distances" /\ pc = "drain"
        /\ UNCHANGED <<pc, phase, refused, numWorkers>>
    BY <1>3, AnswerTaken DEF TakeReply, runVars
  <2>2. InFlight \subseteq {phase} \X (1 .. Full)
    BY DEF FlightInv
  <2>3. phase # "dist" => Full' = Full
    BY <2>1 DEF Full
  <2>4. phase = "dist" => Full' = Full
    <3>1. PICK m \in Messages : /\ m \in InFlight
                                /\ hashes' = IF Indexed(m) THEN Append(hashes, m[2]) ELSE hashes
      BY <1>3, AnswerTaken
    <3>2. m \in {phase} \X (1 .. Full)
      BY <2>2, <3>1
    <3>3. phase = "dist" => hashes' = hashes
      BY <3>1, <3>2 DEF Indexed
    <3> QED BY <2>1, <3>3, FullSame
  <2> QED BY <2>1, <2>2, <2>3, <2>4 DEF FlightInv
<1>4. ASSUME MainStep, ~Send, ~TakeReply, InFlight' = InFlight PROVE FlightInv'
  <2>1. CASE PostFromMain
    BY <1>1, <1>4, <2>1 DEF PostFromMain
  <2>2. CASE AllSent
    <3>1. count = left /\ left \in Nat
      BY <1>0, <2>2 DEF AllSent, Quota, Control, Full, MainTypes
    <3>2. InFlight = {phase} \X (1 .. count)
      BY <2>2 DEF AllSent, FlightInv
    <3>3. Cardinality(InFlight) = left /\ (left = 0 => InFlight = {})
      <4>1. IsFiniteSet({phase}) /\ Cardinality({phase}) = 1
        BY FS_Singleton
      <4>2. IsFiniteSet(1 .. count) /\ Cardinality(1 .. count) = left
        BY <3>1, FS_Interval
      <4>3. Cardinality(InFlight) = 1 * left
        BY <3>2, <4>1, <4>2, FS_Product
      <4> QED BY <3>1, <3>2, <4>3
    <3>4. /\ pc = "send" /\ pc' = IF left = 0 THEN "next" ELSE "wait"
          /\ UNCHANGED <<phase, left, refused, hashes, numWorkers>>
      BY <2>2 DEF AllSent, AfterSending, runVars
    <3>5. Full' = Full /\ refused # "distances"
      BY <3>4, FullSame DEF Control
    <3> QED BY <1>4, <3>3, <3>4, <3>5 DEF FlightInv
  <2>3. CASE AwaitReply
    <3>1. pc = "wait" /\ pc' = "drain" /\ UNCHANGED <<phase, left, refused, hashes, numWorkers>>
      BY <2>3 DEF AwaitReply, runVars
    <3> QED BY <1>4, <3>1, FullSame DEF FlightInv
  <2>4. CASE Drained
    <3>1. /\ pc = "drain" /\ pc' = IF left = 0 THEN "next" ELSE "wait"
          /\ UNCHANGED <<phase, left, refused, hashes, numWorkers>>
      BY <2>4 DEF Drained, NoneMissing, runVars
    <3>2. left = 0 => refused # "distances" /\ InFlight = {}
      BY <3>1, AllAnswered DEF FlightInv
    <3> QED BY <1>4, <3>1, <3>2, FullSame DEF FlightInv
  <2>5. CASE ~PostFromMain /\ ~AllSent /\ ~AwaitReply /\ ~Drained
    <3>1. pc \notin {"send", "wait", "drain"}
      BY <1>4, <2>5
      DEF MainStep, ParseArg, ArgsParsed, CheckArgs, InitFails, CreateWorker, CreateFails, HandleFails,
          Scan, ScanFails, ToDistances, NoMessages, NoDistances, ToOrder, NoOrder, Finish, FreeAll,
          AbortWorker, AllAborted, DestroyWorker, SkipWorker, Close
    <3>2. InFlight' = {} /\ refused # "distances"
      BY <1>4, <3>1 DEF FlightInv, Control
    <3> DEFINE Calm == /\ pc' = "send" => count' = 0
                       /\ pc' \notin {"wait", "drain"} /\ refused' # "distances"
    <3>3. Calm \/ NoDistances
      <4>1. ParseArg \/ ArgsParsed \/ CheckArgs \/ InitFails \/ Scan \/ ScanFails => Calm
        BY <3>1, <3>2 DEF ParseArg, ArgsParsed, CheckArgs, InitFails, Scan, ScanFails, runVars
      <4>2. CreateWorker \/ CreateFails \/ HandleFails => Calm
        BY <3>1, <3>2 DEF CreateWorker, CreateFails, HandleFails, StopThose, runVars
      <4>3. ToDistances \/ NoMessages \/ ToOrder \/ NoOrder \/ Finish \/ FreeAll => Calm
        BY <3>1, <3>2 DEF ToDistances, NoMessages, ToOrder, NoOrder, Finish, FreeAll, runVars
      <4>4. AbortWorker \/ AllAborted \/ DestroyWorker \/ SkipWorker \/ Close => Calm
        BY <3>1, <3>2 DEF AbortWorker, AllAborted, DestroyWorker, SkipWorker, Close, runVars
      <4> HIDE DEF Calm
      <4> QED BY <1>4, <2>5, <4>1, <4>2, <4>3, <4>4 DEF MainStep
    <3>4. NoDistances => pc' = "wait" /\ refused' = "distances" /\ left' >= 1
      <4>1. NoDistances => numWorkers \in Nat \ {0}
        BY SomeWorkers DEF NoDistances, Control
      <4>2. Len(hashes) \div HashesPerWorker \in Int
        BY <1>0, BinsortAssumption, LenProperties DEF MainTypes
      <4> QED BY <4>1, <4>2 DEF NoDistances, DistanceWorkers
    <3> QED BY <3>2, <3>3, <3>4 DEF FlightInv
  <2> QED BY <2>1, <2>2, <2>3, <2>4, <2>5
<1> QED BY <1>1, <1>2, <1>3, <1>4, FlightSame, OthersLeaveMain

-----------------------------------------------------------------------------
(* The memory.                                                             *)

LEMMA StepLiveInv ==
  ASSUME TypeOK, Control, PortInv, FlightInv, LiveInv, [Next]_vars PROVE LiveInv'
<1>0. MainTypes /\ Nobody # "distances" /\ Nobody # "order"
  BY TypeParts, NobodyElse DEF Refusals
<1>1. ASSUME UNCHANGED <<pc, phase, live, refused>> PROVE LiveInv'
  BY <1>1 DEF LiveInv, Forgotten, Allocated
<1>2. CASE ParseArg \/ Send \/ PostFromMain \/ TakeReply \/ AbortWorker \/ SkipWorker \/ CreateWorker
           \/ DestroyWorker
  BY <1>1, <1>2
  DEF ParseArg, Send, PostFromMain, TakeReply, AbortWorker, SkipWorker, CreateWorker, DestroyWorker,
      mainVars, runVars
<1>3. CASE ArgsParsed \/ CheckArgs \/ InitFails
  BY <1>3 DEF ArgsParsed, CheckArgs, InitFails, runVars, LiveInv, Forgotten
<1>4. CASE CreateFails \/ HandleFails
  BY <1>4 DEF CreateFails, HandleFails, StopThose, LiveInv, Forgotten
<1>5. CASE Scan \/ ScanFails
  BY <1>5 DEF Scan, ScanFails, runVars, LiveInv, Forgotten, Allocated, Control
<1>6. CASE AllSent \/ AwaitReply
  BY <1>6 DEF AllSent, AfterSending, AwaitReply, runVars, LiveInv, Forgotten, Allocated
<1>7. CASE Drained
  BY <1>7 DEF Drained, NoneMissing, runVars, LiveInv, Forgotten, Allocated, FlightInv
<1>8. CASE ToDistances \/ NoDistances \/ NoMessages
  BY <1>0, <1>8 DEF ToDistances, NoDistances, NoMessages, runVars, LiveInv, Forgotten, Allocated, Control
<1>9. CASE ToOrder \/ NoOrder \/ Finish
  BY <1>0, <1>9
  DEF ToOrder, NoOrder, Finish, FreedAfterDistances, FreedAfterOrder, runVars, LiveInv, Forgotten,
      Allocated, Control, MainTypes, Phases
<1>10. CASE FreeAll \/ AllAborted \/ Close
  BY <1>10 DEF FreeAll, AllAborted, Close, runVars, LiveInv, Forgotten
<1> QED BY <1>1, <1>2, <1>3, <1>4, <1>5, <1>6, <1>7, <1>8, <1>9, <1>10, OthersLeaveMain
        DEF MainStep, mainVars, runVars

-----------------------------------------------------------------------------
(* The hashes.                                                             *)

\* A file is hashed by the worker that has its message.
LEMMA HashedElsewhere ==
  ASSUME TypeOK, PortInv, [Next]_vars
  PROVE  \A f \in Files : hashNode'[f] # hashNode[f] => holder[<<"hash", f>>] # Main
<1>0. PortTypes /\ WorkerTypes /\ \A w \in Workers : w # Main /\ HoldsInv(w)
  BY TypeParts, NobodyElse DEF PortInv
<1>1. ASSUME NEW w \in Workers, Handle(w), NEW f \in Files, hashNode'[f] # hashNode[f]
      PROVE  holder[<<"hash", f>>] # Main
  <2>1. current[w] \in Messages /\ holder[current[w]] = w
    BY <1>0, <1>1 DEF Handle, In, HoldsInv, WorkerTypes
  <2>2. current[w][1] = "hash" /\ current[w][2] = f
    BY <1>0, <1>1 DEF Handle, WorkerTypes
  <2>3. current[w] = <<"hash", f>>
    BY <2>1, <2>2 DEF Messages
  <2> QED BY <1>0, <2>1, <2>3
<1>2. ASSUME NEW w \in Workers,
             WorkerWait(w) \/ TakeMessage(w) \/ NoMessage(w) \/ WorkerReply(w) \/ WorkerPost(w)
      PROVE  hashNode' = hashNode
  BY <1>2 DEF WorkerWait, TakeMessage, NoMessage, WorkerReply, WorkerPost
<1>3. Send \/ PostFromMain \/ TakeReply \/ UNCHANGED workerVars => hashNode' = hashNode
  BY DEF Send, PostFromMain, TakeReply, workerVars
<1> QED BY <1>1, <1>2, <1>3, MessagesElsewhere DEF MessageStep

LEMMA HashesSame ==
  ASSUME TypeOK, Control, PortInv, [Next]_vars
  PROVE  TakeReply \/ hashes' = hashes
<1>1. MainStep => TakeReply \/ hashes' = hashes
  BY DEF MainStep, ParseArg, ArgsParsed, CheckArgs, InitFails, CreateWorker, CreateFails,
      HandleFails, StopThose, Scan, ScanFails, Send, PostFromMain, AllSent, AwaitReply, Drained,
      ToDistances, NoMessages, NoDistances, ToOrder, NoOrder, Finish, FreeAll, AbortWorker,
      AllAborted, DestroyWorker, SkipWorker, Close, mainVars
<1> QED BY <1>1, OthersLeaveMain DEF mainVars

LEMMA StepIndexInv ==
  ASSUME TypeOK, Control, PortInv, FlightInv, IndexInv, [Next]_vars PROVE IndexInv'
<1>0. MainTypes /\ PortTypes /\ WorkerTypes /\ Main \in Threads /\ Nobody # Main
  BY TypeParts, NobodyElse DEF Threads
<1>h. \A k \in DOMAIN hashes : hashes[k] \in Files /\ <<"hash", hashes[k]>> \in Messages
  BY <1>0 DEF MainTypes, Messages
<1>f. \A f \in Files : <<"hash", f>> \in Messages
  BY DEF Messages
<1>1. CASE Send
  <2> DEFINE m == <<phase, count + 1>>
  <2>1. /\ holder' = [holder EXCEPT ![m] = Nobody] /\ m \in Messages
        /\ hashes' = hashes /\ hashNode' = hashNode /\ pc = "send"
    BY <1>1, FlightSent DEF Send, workerVars
  <2>2. ASSUME NEW k \in DOMAIN hashes PROVE m # <<"hash", hashes[k]>>
    <3>1. phase = "hash" => hashes = <<>>
      BY <2>1 DEF Control
    <3> QED BY <3>1
  <2> HIDE DEF m
  <2> QED BY <1>0, <1>f, <1>h, <2>1, <2>2 DEF IndexInv, PortTypes
<1>2. CASE TakeReply
  <2>1. PICK m \in Messages :
          /\ hashes' = IF Indexed(m) THEN Append(hashes, m[2]) ELSE hashes
          /\ P!Get(Main, m) /\ holder[m] = Nobody
    BY <1>2, AnswerTaken
  <2>2. holder' = [holder EXCEPT ![m] = Main] /\ hashNode' = hashNode
    BY <1>2, <2>1 DEF P!Get, TakeReply, workerVars
  <2>3. CASE ~Indexed(m)
    <3>1. \A f \in Files : hashNode[f] => <<"hash", f>> # m
      BY <2>3 DEF Indexed
    <3>2. hashes' = hashes
      BY <2>1, <2>3
    <3>3. \A f \in Files : hashNode[f] => holder'[<<"hash", f>>] = holder[<<"hash", f>>]
      BY <1>0, <1>f, <2>2, <3>1 DEF PortTypes
    <3>4. \A k \in DOMAIN hashes : holder'[<<"hash", hashes[k]>>] = Main
      BY <1>0, <1>h, <2>2, <3>1 DEF PortTypes, IndexInv
    <3> QED BY <2>2, <3>2, <3>3, <3>4 DEF IndexInv
  <2>4. CASE Indexed(m)
    <3> DEFINE g == m[2]
               n == Len(hashes) + 1
    <3>1. m = <<"hash", g>> /\ g \in Files /\ hashNode[g]
      BY <2>4 DEF Indexed, Messages
    <3>2. /\ hashes \in Seq(Files) /\ hashes' = Append(hashes, g)
      BY <1>0, <2>1, <2>4 DEF MainTypes
    <3> HIDE DEF g
    <3>3. /\ Len(hashes) \in Nat /\ DOMAIN hashes = 1 .. Len(hashes)
          /\ DOMAIN hashes' = 1 .. n
          /\ \A k \in DOMAIN hashes : hashes'[k] = hashes[k]
          /\ hashes'[n] = g
      <4> DEFINE longer == Append(hashes, g)
      <4>1. /\ longer \in Seq(Files) /\ Len(longer) = Len(hashes) + 1
            /\ \A k \in 1 .. Len(hashes) : longer[k] = hashes[k]
            /\ longer[Len(hashes) + 1] = g
        BY <3>1, <3>2, AppendProperties
      <4> HIDE DEF longer
      <4>2. DOMAIN hashes = 1 .. Len(hashes) /\ Len(hashes) \in Nat /\ DOMAIN longer = 1 .. Len(longer)
        BY <3>2, <4>1, LenProperties
      <4>3. hashes' = longer
        BY <3>2 DEF longer
      <4> QED BY <4>1, <4>2, <4>3
    <3>4. /\ n \in DOMAIN hashes'
          /\ \A k \in DOMAIN hashes : k \in DOMAIN hashes'
          /\ \A k \in DOMAIN hashes' : k = n \/ k \in DOMAIN hashes
      BY <3>3
    <3> HIDE DEF n
    <3>5. \A k \in DOMAIN hashes : hashes[k] # g
      BY <1>0, <1>h, <2>1, <3>1 DEF IndexInv
    <3>6. \A f \in Files : f # g => holder'[<<"hash", f>>] = holder[<<"hash", f>>]
      BY <1>0, <1>f, <2>2, <3>1 DEF PortTypes
    <3>7. holder'[<<"hash", g>>] = Main
      BY <1>0, <1>f, <2>2, <3>1 DEF PortTypes
    <3>8. \A k, l \in DOMAIN hashes' : hashes'[k] = hashes'[l] => k = l
      BY <3>3, <3>4, <3>5 DEF IndexInv
    <3>9. \A k \in DOMAIN hashes' : hashNode'[hashes'[k]] /\ holder'[<<"hash", hashes'[k]>>] = Main
      BY <1>h, <2>2, <3>1, <3>3, <3>4, <3>5, <3>6, <3>7 DEF IndexInv
    <3>10. \A f \in Files : hashNode'[f] =>
             (\E k \in DOMAIN hashes' : hashes'[k] = f) \/ holder'[<<"hash", f>>] # Main
      BY <2>2, <3>3, <3>4, <3>6, <3>7 DEF IndexInv
    <3> QED BY <3>8, <3>9, <3>10 DEF IndexInv
  <2> QED BY <2>3, <2>4
<1>3. ASSUME hashes' = hashes, \A m \in Messages : holder'[m] = Main <=> holder[m] = Main
      PROVE  IndexInv'
  <2>1. \A f \in Files : hashNode'[f] # hashNode[f] => holder[<<"hash", f>>] # Main
    BY HashedElsewhere
  <2>2. \A k \in DOMAIN hashes : hashNode'[hashes[k]]
    BY <1>h, <2>1 DEF IndexInv
  <2> QED BY <1>3, <1>f, <1>h, <2>1, <2>2 DEF IndexInv
<1> QED BY <1>1, <1>2, <1>3, FlightSame, HashesSame

-----------------------------------------------------------------------------
(* The rows of the distances.                                              *)

\* What is not written yet is under way.
LEMMA UnwrittenFlies ==
  ASSUME TypeOK, PortInv, NEW m \in Messages, Unwritten(m)
  PROVE  m \in InFlight
<1>1. Nobody # Main /\ \A w \in Workers : w \in Threads /\ w # Main
  BY NobodyElse DEF Threads
<1>2. Nobody # m
  BY NobodyElse
<1> QED BY <1>1, <1>2 DEF Unwritten, PortInv, QueueInv, HoldsInv, InFlight

\* It stays so until the worker that has it has written it.
LEMMA UnwrittenKept ==
  ASSUME TypeOK, Control, PortInv, [Next]_vars, NEW m \in Messages, Unwritten(m)
  PROVE  Unwritten(m)' \/ \E w \in Workers : Handle(w) /\ current[w] = m
<1>0. /\ PortTypes /\ WorkerTypes /\ Main \in Threads
      /\ \A w \in Workers : w \in Threads /\ w # Main
  BY TypeParts, NobodyElse DEF Threads
<1>1. CASE UNCHANGED <<portVars, workerVars>>
  BY <1>1 DEF portVars, workerVars, Unwritten
<1>2. CASE Send
  <2>1. \A x \in Workers : \A k \in DOMAIN queue[x] :
          k \in DOMAIN queue'[x] /\ queue'[x][k] = queue[x][k]
    BY <1>0, <1>2, SendWhere, PutEffect DEF Send
  <2>2. UNCHANGED workerVars
    BY <1>2 DEF Send
  <2> QED BY <2>1, <2>2 DEF Unwritten, workerVars
<1>3. CASE PostFromMain
  BY <1>3 DEF PostFromMain, P!Post, workerVars, Unwritten
<1>4. CASE TakeReply
  <2>1. \A x \in Workers : queue'[x] = queue[x]
    BY <1>0, <1>4, GetEffect DEF TakeReply
  <2> QED BY <1>4, <2>1 DEF TakeReply, workerVars, Unwritten
<1>5. ASSUME NEW w \in Workers, WorkerWait(w) \/ NoMessage(w) PROVE Unwritten(m)'
  <2>1. /\ UNCHANGED <<queue, current>> /\ \A x \in Workers \ {w} : wpc'[x] = wpc[x]
        /\ wpc[w] # "handle"
    BY <1>0, <1>5 DEF WorkerWait, NoMessage, In, Goto, portVars, WorkerTypes
  <2> QED BY <2>1 DEF Unwritten
<1>6. ASSUME NEW w \in Workers, TakeMessage(w) PROVE Unwritten(m)'
  <2>1. PICK x \in Messages : P!Get(w, x) /\ current' = [current EXCEPT ![w] = x]
    BY <1>6 DEF TakeMessage
  <2>2. /\ \A u \in Threads \ {w} : queue'[u] = queue[u]
        /\ Len(queue[w]) \in Nat \ {0} /\ DOMAIN queue[w] = 1 .. Len(queue[w])
        /\ DOMAIN queue'[w] = 1 .. Len(queue[w]) - 1
        /\ \A k \in DOMAIN queue'[w] : queue'[w][k] = queue[w][k + 1]
        /\ queue[w][1] = x
    BY <1>0, <2>1, GetEffect
  <2>3. /\ wpc[w] = "drain" /\ wpc'[w] = "handle" /\ current'[w] = x
        /\ \A v \in Workers \ {w} : wpc'[v] = wpc[v] /\ current'[v] = current[v]
    BY <1>0, <1>6, <2>1 DEF TakeMessage, In, Goto, WorkerTypes
  <2>4. \A k \in DOMAIN queue[w] : \/ k = 1
                                   \/ k - 1 \in DOMAIN queue'[w] /\ (k - 1) + 1 = k
    BY <2>2
  <2>5. \A k \in DOMAIN queue[w] : \/ queue[w][k] = x
                                   \/ \E l \in DOMAIN queue'[w] : queue'[w][l] = queue[w][k]
    BY <2>2, <2>4
  <2> QED BY <1>0, <2>2, <2>3, <2>5 DEF Unwritten
<1>7. ASSUME NEW w \in Workers, Handle(w), current[w] # m PROVE Unwritten(m)'
  <2>1. UNCHANGED <<queue, current>> /\ \A x \in Workers \ {w} : wpc'[x] = wpc[x]
    BY <1>0, <1>7 DEF Handle, Goto, portVars, WorkerTypes
  <2> QED BY <1>7, <2>1 DEF Unwritten
<1>8. ASSUME NEW w \in Workers, WorkerReply(w) PROVE Unwritten(m)'
  <2>1. \A x \in Workers : queue'[x] = queue[x]
    BY <1>0, <1>8, ReplyWhere, PutEffect
  <2>2. wpc[w] = "reply" /\ \A x \in Workers \ {w} : wpc'[x] = wpc[x] /\ current'[x] = current[x]
    BY <1>0, <1>8 DEF WorkerReply, In, Goto, WorkerTypes
  <2> QED BY <2>1, <2>2 DEF Unwritten
<1>9. ASSUME NEW w \in Workers, WorkerPost(w) PROVE Unwritten(m)'
  <2>1. /\ UNCHANGED <<queue, current>> /\ wpc[w] = "post"
        /\ \A x \in Workers \ {w} : wpc'[x] = wpc[x]
    BY <1>0, <1>9 DEF WorkerPost, NextMessage, P!Post, In, Goto, WorkerTypes
  <2> QED BY <2>1 DEF Unwritten
<1> QED
  <2>1. (\E w \in Workers : \/ WorkerWait(w) \/ TakeMessage(w) \/ NoMessage(w)
                            \/ WorkerReply(w) \/ WorkerPost(w)) => Unwritten(m)'
    BY <1>5, <1>6, <1>8, <1>9
  <2>2. ASSUME NEW w \in Workers, Handle(w)
        PROVE  Unwritten(m)' \/ \E v \in Workers : Handle(v) /\ current[v] = m
    BY <1>7, <2>2
  <2> QED BY <1>1, <1>2, <1>3, <1>4, <2>1, <2>2, MessagesElsewhere DEF MessageStep

\* A worker handles only messages of the phase.
LEMMA HandledNow ==
  ASSUME TypeOK, PortInv, FlightInv, NEW w \in Workers, Handle(w)
  PROVE  current[w] \in Messages /\ current[w] \in {phase} \X (1 .. Full)
<1>1. current[w] \in Messages /\ holder[current[w]] = w /\ w # Main
  BY NobodyElse DEF Handle, In, PortInv, HoldsInv, TypeOK
<1> QED BY <1>1 DEF FlightInv, InFlight

LEMMA RowsWritten ==
  ASSUME TypeOK, PortInv, FlightInv, [Next]_vars
  PROVE  /\ written \subseteq written'
         /\ phase # "dist" => written' = written
         /\ phase = "dist" => written' \subseteq written \cup (1 .. DistanceWorkers)
<1>1. ASSUME NEW w \in Workers, Handle(w)
      PROVE  /\ written \subseteq written'
             /\ phase # "dist" => written' = written
             /\ phase = "dist" => written' \subseteq written \cup (1 .. DistanceWorkers)
  <2>1. current[w][1] = phase /\ current[w][2] \in 1 .. Full
    BY <1>1, HandledNow
  <2>2. phase = "dist" => Full = DistanceWorkers
    BY DEF Full
  <2>3. written' = IF current[w][1] = "dist" THEN written \cup {current[w][2]} ELSE written
    BY <1>1 DEF Handle
  <2> QED BY <2>1, <2>2, <2>3
<1>2. ASSUME NEW w \in Workers,
             WorkerWait(w) \/ TakeMessage(w) \/ NoMessage(w) \/ WorkerReply(w) \/ WorkerPost(w)
      PROVE  written' = written
  BY <1>2 DEF WorkerWait, TakeMessage, NoMessage, WorkerReply, WorkerPost
<1>3. Send \/ PostFromMain \/ TakeReply \/ UNCHANGED workerVars => written' = written
  BY DEF Send, PostFromMain, TakeReply, workerVars
<1> QED BY <1>1, <1>2, <1>3, MessagesElsewhere DEF MessageStep

LEMMA StepWrittenInv ==
  ASSUME TypeOK, Control, PortInv, FlightInv, WrittenInv, [Next]_vars PROVE WrittenInv'
<1> DEFINE Sent == IF pc = "send" THEN count ELSE DistanceWorkers
           Done(n) == \A k \in 1 .. n : k \in written \/ Unwritten(<<"dist", k>>)
<1>0. /\ MainTypes /\ PortTypes /\ Main \in Threads /\ Nobody # "distances"
      /\ \A w \in Workers : w \in Threads
  BY TypeParts, NobodyElse DEF Threads, Refusals
<1>d. /\ phase # "hash" => DistanceWorkers \in 1 .. MaxWorkers
      /\ DistanceWorkers \in Int
  <2>1. Len(hashes) \div HashesPerWorker \in Int
    BY <1>0, BinsortAssumption, LenProperties DEF MainTypes
  <2> QED BY <1>0, <2>1, SomeWorkers DEF DistanceWorkers, Control, MainTypes
<1>r. /\ written \subseteq written'
      /\ phase # "dist" => written' = written
      /\ phase = "dist" => written' \subseteq written \cup (1 .. DistanceWorkers)
  BY RowsWritten
<1>u. ASSUME phase # "hash", NEW n \in Int, n <= DistanceWorkers, Done(n)
      PROVE  \A k \in 1 .. n : k \in written' \/ Unwritten(<<"dist", k>>)'
  <2> SUFFICES ASSUME NEW k \in 1 .. n PROVE k \in written' \/ Unwritten(<<"dist", k>>)'
    OBVIOUS
  <2>1. <<"dist", k>> \in Messages
    BY <1>d, <1>u, SomeWorkers DEF Messages
  <2>2. CASE k \in written
    BY <1>r, <2>2
  <2>3. ASSUME NEW w \in Workers, Handle(w), current[w] = <<"dist", k>> PROVE k \in written'
    BY <2>3 DEF Handle
  <2>4. CASE Unwritten(<<"dist", k>>)
    BY <2>1, <2>3, <2>4, UnwrittenKept
  <2> QED BY <1>u, <2>2, <2>4
<1>s. phase = "dist" /\ refused # "distances" => Done(Sent)
  BY DEF WrittenInv
<1>b. phase = "dist" => Sent \in Int /\ Sent <= DistanceWorkers
  BY <1>0, <1>d DEF Control, Full, MainTypes
<1> HIDE DEF Done
<1>1. ASSUME UNCHANGED <<phase, hashes, numWorkers>>, refused' # "distances" => refused # "distances",
             phase = "dist" => Sent' = Sent
      PROVE  WrittenInv'
  <2>1. DistanceWorkers' = DistanceWorkers
    BY <1>1, FullSame
  <2>2. CASE phase = "dist"
    BY <1>1, <1>b, <1>r, <1>s, <1>u, <2>1, <2>2 DEF WrittenInv
  <2> QED BY <1>1, <1>r, <2>1, <2>2 DEF WrittenInv
<1>2. CASE UNCHANGED mainVars
  BY <1>1, <1>2, FullSame DEF mainVars, runVars
<1>3. CASE Send
  <2>1. UNCHANGED <<phase, hashes, numWorkers, refused, pc>> /\ count' = count + 1 /\ pc = "send"
    BY <1>3 DEF Send, runVars
  <2>2. CASE phase # "dist"
    BY <1>1, <2>1, <2>2
  <2>3. CASE phase = "dist"
    <3>1. ASSUME NEW n, n = count + 1 PROVE Unwritten(<<"dist", n>>)'
      <4>1. PICK port \in Workers : port = Receiver(count)
        BY <1>3, SendWhere
      <4>2. <<"dist", n>> \in Messages /\ P!Put(Main, port, Main, <<"dist", n>>)
        BY <1>3, <2>3, <3>1, <4>1, SendWhere DEF Send
      <4>3. /\ Len(queue[port]) \in Nat /\ DOMAIN queue'[port] = 1 .. Len(queue[port]) + 1
            /\ queue'[port][Len(queue[port]) + 1] = <<"dist", n>>
        BY <1>0, <4>1, <4>2, PutEffect
      <4>4. Len(queue[port]) + 1 \in DOMAIN queue'[port]
        BY <4>3
      <4> QED BY <4>3, <4>4 DEF Unwritten
    <3>2. \A k \in 1 .. count : k \in written' \/ Unwritten(<<"dist", k>>)'
      BY <1>b, <1>s, <1>u, <2>1, <2>3 DEF Control
    <3>3. count \in Nat /\ \A k \in 1 .. count + 1 : k \in 1 .. count \/ k = count + 1
      BY <1>0 DEF MainTypes
    <3>4. \A k \in 1 .. count + 1 : k \in written' \/ Unwritten(<<"dist", k>>)'
      BY <2>3, <3>1, <3>2, <3>3
    <3>5. DistanceWorkers' = DistanceWorkers
      BY <2>1, FullSame
    <3> QED BY <1>r, <2>1, <2>3, <3>4, <3>5 DEF WrittenInv
  <2> QED BY <2>2, <2>3
<1>4. CASE TakeReply
  <2>1. PICK m \in Messages : /\ m \in InFlight
                              /\ hashes' = IF Indexed(m) THEN Append(hashes, m[2]) ELSE hashes
    BY <1>4, AnswerTaken
  <2>2. m[1] = phase
    BY <2>1 DEF FlightInv
  <2>3. UNCHANGED <<phase, numWorkers, refused, pc, count>>
    BY <1>4 DEF TakeReply, runVars
  <2>4. CASE phase = "hash"
    BY <1>r, <2>3, <2>4 DEF WrittenInv
  <2>5. CASE phase # "hash"
    <3>1. hashes' = hashes
      BY <2>1, <2>2, <2>5 DEF Indexed
    <3> QED BY <1>1, <2>3, <3>1, FullSame
  <2> QED BY <2>4, <2>5
<1>5. CASE AllSent
  <2>1. /\ UNCHANGED <<phase, hashes, numWorkers, refused>> /\ pc = "send" /\ pc' \in {"next", "wait"}
        /\ count = Quota
    BY <1>5 DEF AllSent, AfterSending, runVars
  <2>2. phase = "dist" => count = DistanceWorkers
    BY <2>1 DEF Control, Full, Quota
  <2> QED BY <1>1, <2>1, <2>2, FullSame
<1>6. CASE ToDistances \/ NoDistances
  <2>1. /\ phase = "hash" /\ phase' = "dist" /\ ((pc' = "send" /\ count' = 0) \/ refused' = "distances")
    BY <1>6 DEF ToDistances, NoDistances
  <2>2. written' = {}
    BY <1>r, <2>1 DEF WrittenInv
  <2> QED BY <2>1, <2>2 DEF WrittenInv
<1>7. CASE ToOrder
  <2>1. /\ phase = "dist" /\ phase' = "opt" /\ pc = "next" /\ UNCHANGED <<hashes, numWorkers>>
        /\ written' = written
    BY <1>7 DEF ToOrder, runVars, workerVars
  <2>2. InFlight = {} /\ refused # "distances"
    BY <2>1 DEF FlightInv, Control
  <2>3. \A k \in 1 .. DistanceWorkers : k \in written
    <3>1. \A k \in 1 .. DistanceWorkers : <<"dist", k>> \in Messages
      BY <1>d, <2>1, SomeWorkers DEF Messages
    <3>2. \A k \in 1 .. DistanceWorkers : ~Unwritten(<<"dist", k>>)
      BY <2>2, <3>1, UnwrittenFlies
    <3> QED BY <1>s, <2>1, <2>2, <3>2 DEF Done
  <2>4. written \subseteq 1 .. DistanceWorkers
    BY <2>1 DEF WrittenInv
  <2>5. written = 1 .. DistanceWorkers
    BY <2>3, <2>4
  <2>6. DistanceWorkers' = DistanceWorkers
    BY <2>1 DEF DistanceWorkers
  <2> QED BY <2>1, <2>5, <2>6 DEF WrittenInv
<1>8. CASE ParseArg \/ ArgsParsed \/ CheckArgs \/ InitFails \/ CreateWorker \/ CreateFails \/ HandleFails
           \/ Scan \/ ScanFails
  <2>1. phase = "hash" /\ phase' = phase
    BY <1>8
    DEF ParseArg, ArgsParsed, CheckArgs, InitFails, CreateWorker, CreateFails, HandleFails, StopThose,
        Scan, ScanFails, Control
  <2> QED BY <1>r, <2>1 DEF WrittenInv
<1>9. CASE \/ PostFromMain \/ AwaitReply \/ Drained \/ NoMessages \/ NoOrder \/ Finish
           \/ FreeAll \/ AbortWorker \/ AllAborted \/ DestroyWorker \/ SkipWorker \/ Close
  <2>1. /\ UNCHANGED <<phase, hashes, numWorkers>>
        /\ refused' = refused \/ pc = "next"
        /\ UNCHANGED <<pc, count>> \/ (pc # "send" /\ pc' # "send")
    BY <1>9 DEF PostFromMain, AwaitReply, Drained, NoMessages, NoOrder, Finish, FreeAll, AbortWorker,
                AllAborted, DestroyWorker, SkipWorker, Close, mainVars, runVars
  <2>2. refused' # "distances" => refused # "distances"
    BY <2>1 DEF Control
  <2>3. Sent' = Sent
    BY <2>1, FullSame
  <2> QED BY <1>1, <2>1, <2>2, <2>3
<1> QED BY <1>2, <1>3, <1>4, <1>5, <1>6, <1>7, <1>8, <1>9, OthersLeaveMain DEF MainStep

-----------------------------------------------------------------------------
(* The order of a single worker.                                           *)

LEMMA PutOrdered ==
  ASSUME PortTypes, NEW t \in Threads, NEW port \in Threads, NEW reply \in {Main, Nobody},
         NEW m \in Messages, P!Put(t, port, reply, m)
  PROVE  /\ Numbers(port)' = Numbers(port) \cup {m[2]}
         /\ Ordered(queue[port]) /\ Before(Numbers(port), {m[2]}) => Ordered(queue'[port])
<1> DEFINE n == Len(queue[port]) + 1
<1>1. /\ Len(queue[port]) \in Nat /\ DOMAIN queue[port] = 1 .. Len(queue[port])
      /\ DOMAIN queue'[port] = 1 .. Len(queue[port]) + 1
      /\ \A k \in DOMAIN queue[port] : queue'[port][k] = queue[port][k]
      /\ queue'[port][n] = m
  BY PutEffect
<1>2. /\ \A k \in DOMAIN queue'[port] : k \in Int /\ (k = n \/ k \in DOMAIN queue[port])
      /\ \A k \in DOMAIN queue[port] : k \in DOMAIN queue'[port] /\ k < n
      /\ n \in DOMAIN queue'[port] /\ n \in Int
      /\ \A k \in DOMAIN queue'[port] : ~(n < k)
  BY <1>1
<1> HIDE DEF n
<1>3. Numbers(port)' = Numbers(port) \cup {m[2]}
  BY <1>1, <1>2 DEF Numbers
<1>4. ASSUME Ordered(queue[port]), Before(Numbers(port), {m[2]}),
             NEW k \in DOMAIN queue'[port], NEW l \in DOMAIN queue'[port], k < l
      PROVE  queue'[port][k][2] < queue'[port][l][2]
  <2>1. k \in DOMAIN queue[port] /\ queue[port][k][2] \in Numbers(port)
    BY <1>2, <1>4 DEF Numbers
  <2>2. CASE l = n
    BY <1>1, <1>4, <2>1, <2>2 DEF Before
  <2>3. CASE l \in DOMAIN queue[port]
    BY <1>1, <1>4, <2>1, <2>3 DEF Ordered
  <2> QED BY <1>2, <2>2, <2>3
<1> QED BY <1>3, <1>4 DEF Ordered

LEMMA GetOrdered ==
  ASSUME PortTypes, NEW t \in Threads, NEW m \in Messages, P!Get(t, m)
  PROVE  /\ Numbers(t) = Numbers(t)' \cup {m[2]}
         /\ Ordered(queue[t]) => Ordered(queue'[t]) /\ Before({m[2]}, Numbers(t)')
<1>1. /\ Len(queue[t]) \in Nat \ {0} /\ DOMAIN queue[t] = 1 .. Len(queue[t])
      /\ DOMAIN queue'[t] = 1 .. Len(queue[t]) - 1
      /\ queue[t][1] = m
      /\ \A k \in DOMAIN queue'[t] : queue'[t][k] = queue[t][k + 1]
  BY GetEffect
<1>2. /\ 1 \in DOMAIN queue[t]
      /\ \A k \in DOMAIN queue'[t] : k + 1 \in DOMAIN queue[t] /\ 1 < k + 1 /\ k \in Int
      /\ \A k \in DOMAIN queue[t] : k # 1 => k - 1 \in DOMAIN queue'[t] /\ (k - 1) + 1 = k
      /\ \A k, l \in DOMAIN queue'[t] : k < l => k + 1 < l + 1
  BY <1>1
<1>3. \A k \in DOMAIN queue[t] : k = 1 \/ \E l \in DOMAIN queue'[t] : queue'[t][l] = queue[t][k]
  BY <1>1, <1>2
<1>4. \A k \in DOMAIN queue'[t] : \E l \in DOMAIN queue[t] : queue[t][l] = queue'[t][k]
  BY <1>1, <1>2
<1>5. Numbers(t) = Numbers(t)' \cup {m[2]}
  <2>1. Numbers(t) \subseteq Numbers(t)' \cup {m[2]}
    BY <1>1, <1>3 DEF Numbers
  <2>2. Numbers(t)' \subseteq Numbers(t)
    BY <1>4 DEF Numbers
  <2>3. m[2] \in Numbers(t)
    BY <1>1, <1>2 DEF Numbers
  <2> QED BY <2>1, <2>2, <2>3
<1>6. ASSUME Ordered(queue[t]) PROVE Ordered(queue'[t]) /\ Before({m[2]}, Numbers(t)')
  <2>1. Ordered(queue'[t])
    <3> SUFFICES ASSUME NEW k \in DOMAIN queue'[t], NEW l \in DOMAIN queue'[t], k < l
                 PROVE  queue'[t][k][2] < queue'[t][l][2]
      BY DEF Ordered
    <3>1. k + 1 \in DOMAIN queue[t] /\ l + 1 \in DOMAIN queue[t] /\ k + 1 < l + 1
      BY <1>2
    <3>2. queue[t][k + 1][2] < queue[t][l + 1][2]
      BY <1>6, <3>1 DEF Ordered
    <3>3. queue'[t][k] = queue[t][k + 1] /\ queue'[t][l] = queue[t][l + 1]
      BY <1>1
    <3> QED BY <3>2, <3>3
  <2>2. \A k \in DOMAIN queue'[t] : m[2] < queue'[t][k][2]
    BY <1>1, <1>2, <1>6 DEF Ordered
  <2> QED BY <2>1, <2>2 DEF Before, Numbers
<1> QED BY <1>5, <1>6

\* Where nothing is under way, there is nothing to be in order.
LEMMA NothingQueued ==
  ASSUME TypeOK, PortInv, InFlight = {}
  PROVE  (\A t \in Threads : queue[t] = <<>>) /\ \A w \in Workers : current[w] = Nobody
<1>1. \A m \in Messages : holder[m] = Main
  BY DEF InFlight
<1>2. Nobody # Main /\ \A w \in Workers : w # Main
  BY NobodyElse
<1>3. ASSUME NEW t \in Threads PROVE queue[t] = <<>>
  <2>1. queue[t] \in Seq(Messages)
    BY DEF TypeOK
  <2>2. \A k \in DOMAIN queue[t] : queue[t][k] \in Messages /\ holder[queue[t][k]] = Nobody
    BY <2>1 DEF PortInv, QueueInv
  <2>3. \A k \in DOMAIN queue[t] : FALSE
    BY <1>1, <1>2, <2>2
  <2>4. DOMAIN queue[t] = 1 .. Len(queue[t]) /\ Len(queue[t]) \in Nat
    BY <2>1, LenProperties
  <2>5. Len(queue[t]) = 0
    <3>1. Len(queue[t]) > 0 => 1 \in DOMAIN queue[t]
      BY <2>4
    <3> QED BY <2>3, <2>4, <3>1
  <2> QED BY <2>1, <2>5, EmptySeq
<1>4. ASSUME NEW w \in Workers PROVE current[w] = Nobody
  BY <1>1, <1>2 DEF PortInv, HoldsInv, TypeOK
<1> QED BY <1>3, <1>4

\* While messages are sent they have the numbers that are sent.
LEMMA NumbersSent ==
  ASSUME TypeOK, PortInv, FlightInv, pc = "send"
  PROVE  /\ \A t \in Threads : Numbers(t) \subseteq 1 .. count
         /\ 1 \in Workers => AtHand \subseteq 1 .. count
<1>1. Nobody # Main /\ Nobody \notin Messages /\ \A w \in Workers : w # Main
  BY NobodyElse
<1>2. \A m \in InFlight : m[2] \in 1 .. count
  BY DEF FlightInv
<1>3. ASSUME NEW t \in Threads, NEW k \in DOMAIN queue[t] PROVE queue[t][k] \in InFlight
  <2>1. queue[t][k] \in Messages /\ holder[queue[t][k]] = Nobody
    BY <1>3 DEF TypeOK, PortInv, QueueInv
  <2> QED BY <1>1, <2>1 DEF InFlight
<1>4. ASSUME 1 \in Workers, current[1] # Nobody PROVE current[1] \in InFlight
  BY <1>1, <1>4 DEF TypeOK, PortInv, HoldsInv, InFlight
<1> QED BY <1>2, <1>3, <1>4 DEF Numbers, AtHand

LEMMA AppendAscends ==
  ASSUME NEW q \in Seq(Files), NEW f \in Files,
         \A k, l \in DOMAIN q : k < l => q[k] < q[l],
         \A k \in DOMAIN q : q[k] < f
  PROVE  /\ {Append(q, f)[k] : k \in DOMAIN Append(q, f)} = {q[k] : k \in DOMAIN q} \cup {f}
         /\ \A k, l \in DOMAIN Append(q, f) : k < l => Append(q, f)[k] < Append(q, f)[l]
<1> DEFINE longer == Append(q, f)
           n == Len(q) + 1
<1>1. /\ longer \in Seq(Files) /\ Len(longer) = n
      /\ \A k \in 1 .. Len(q) : longer[k] = q[k]
      /\ longer[n] = f
  BY AppendProperties
<1> HIDE DEF longer
<1>2. /\ Len(q) \in Nat /\ DOMAIN q = 1 .. Len(q) /\ DOMAIN longer = 1 .. n
  BY <1>1, LenProperties
<1>3. /\ \A k \in DOMAIN longer : k = n \/ k \in DOMAIN q
      /\ \A k \in DOMAIN longer : k \in Int /\ ~(n < k)
      /\ n \in DOMAIN longer /\ DOMAIN q \subseteq DOMAIN longer
  BY <1>2
<1> HIDE DEF n
<1>4. \A k, l \in DOMAIN longer : k < l => longer[k] < longer[l]
  BY <1>1, <1>2, <1>3
<1>5. {longer[k] : k \in DOMAIN longer} = {q[k] : k \in DOMAIN q} \cup {f}
  <2>1. \A k \in DOMAIN q : k \in DOMAIN longer /\ longer[k] = q[k]
    BY <1>1, <1>2, <1>3
  <2> QED BY <1>1, <1>3, <2>1
<1> QED BY <1>4, <1>5 DEF longer

LEMMA StepStableInv ==
  ASSUME TypeOK, Control, PortInv, FlightInv, StableInv, [Next]_vars PROVE StableInv'
<1>0. /\ MainTypes /\ PortTypes /\ WorkerTypes /\ Main \in Threads /\ Main \notin Workers
      /\ 1 \in Workers /\ 1 \in Threads /\ 1 # Main /\ \A w \in Workers : w \in Threads /\ w # Main
  BY TypeParts, NobodyElse, SomeWorkers DEF Threads
<1> DEFINE Alone == numWorkers = 1 /\ phase = "hash"
<1>1. ASSUME UNCHANGED <<queue, current, hashes, numWorkers>>, phase' = phase \/ phase' # "hash"
      PROVE  StableInv'
  BY <1>1 DEF StableInv, StableAlone, Ordered, Before, Numbers, Hashed, AtHand
<1>2. CASE CheckArgs
  <2>1. hashes' = <<>> /\ InFlight = {} /\ UNCHANGED <<queue, current>>
    BY <1>2 DEF CheckArgs, Control, FlightInv, portVars, workerVars
  <2>2. \A t \in Threads : queue'[t] = <<>>
    BY <2>1, NothingQueued
  <2>3. \A w \in Workers : current'[w] = Nobody
    BY <2>1, NothingQueued
  <2>4. DOMAIN (<<>>) = {}
    OBVIOUS
  <2> QED BY <1>0, <2>1, <2>2, <2>3, <2>4
      DEF StableInv, StableAlone, Ordered, Before, Numbers, Hashed, AtHand
<1>3. CASE Send
  <2>1. UNCHANGED <<phase, hashes, numWorkers, current>> /\ pc = "send"
    BY <1>3 DEF Send, runVars, workerVars
  <2>2. CASE ~Alone
    BY <2>1, <2>2 DEF StableInv, StableAlone
  <2>3. CASE Alone
    <3>1. PICK m \in Messages : m = <<phase, count + 1>>
      BY <1>3, SendWhere
    <3>2. count \in Nat /\ Receiver(count) = 1
      <4>1. count \in Nat /\ count % numWorkers \in 0 .. numWorkers - 1
        BY <1>0, <2>3 DEF MainTypes
      <4> QED BY <2>3, <4>1 DEF Receiver
    <3>3. P!Put(Main, 1, Main, m)
      BY <1>3, <3>1, <3>2 DEF Send
    <3>4. \A u \in Threads \ {1} : queue'[u] = queue[u]
      BY <1>0, <3>3, PutEffect
    <3>5. hashes = <<>> /\ Hashed = {}
      <4>1. hashes = <<>>
        BY <2>1, <2>3 DEF Control
      <4> QED BY <4>1 DEF Hashed
    <3>6. /\ Before(Numbers(Main), {m[2]}) /\ Before(AtHand, {m[2]}) /\ Before(Numbers(1), {m[2]})
      <4>1. \A n \in 1 .. count : n < m[2]
        BY <3>1, <3>2
      <4> QED BY <1>0, <2>1, <4>1, NumbersSent DEF Before
    <3>7. Numbers(1)' = Numbers(1) \cup {m[2]} /\ Ordered(queue'[1])
      BY <1>0, <2>3, <3>3, <3>6, PutOrdered DEF StableInv
    <3>8. Numbers(Main)' = Numbers(Main) /\ Hashed' = {} /\ AtHand' = AtHand
      BY <1>0, <2>1, <3>4, <3>5 DEF Numbers, Hashed, AtHand
    <3>9. StableAlone' /\ queue'[Main] = queue[Main]
      BY <1>0, <2>1, <3>4 DEF StableInv, StableAlone
    <3>10. \A w \in Workers \ {1} : queue'[w] = <<>> /\ current'[w] = Nobody
      BY <1>0, <2>1, <2>3, <3>4 DEF StableInv
    <3> QED BY <2>3, <3>6, <3>7, <3>8, <3>9, <3>10 DEF StableInv, Before
  <2> QED BY <2>2, <2>3
<1>4. CASE TakeReply
  <2>1. PICK m \in Messages :
          /\ P!Get(Main, m) /\ m \in InFlight
          /\ hashes' = IF Indexed(m) THEN Append(hashes, m[2]) ELSE hashes
    BY <1>4, AnswerTaken
  <2>2. m[1] = phase
    BY <2>1 DEF FlightInv
  <2>3. UNCHANGED <<phase, numWorkers, current>>
    BY <1>4 DEF TakeReply, runVars, workerVars
  <2>4. \A u \in Threads \ {Main} : queue'[u] = queue[u]
    BY <1>0, <2>1, GetEffect
  <2>5. Numbers(Main) = Numbers(Main)' \cup {m[2]}
        /\ (Ordered(queue[Main]) => Ordered(queue'[Main]) /\ Before({m[2]}, Numbers(Main)'))
    BY <1>0, <2>1, GetOrdered
  <2>6. CASE ~Alone
    <3>1. numWorkers = 1 => hashes' = hashes
      BY <2>1, <2>2, <2>6 DEF Indexed
    <3> QED BY <2>3, <2>6, <3>1 DEF StableInv, StableAlone
  <2>7. CASE Alone
    <3>1. Hashed' \subseteq Hashed \cup {m[2]} /\ StableAlone'
      <4>1. CASE ~Indexed(m)
        BY <2>1, <2>3, <4>1 DEF Hashed, StableInv, StableAlone
      <4>2. CASE Indexed(m)
        <5>1. m[2] \in Files /\ hashes \in Seq(Files) /\ hashes' = Append(hashes, m[2])
          BY <1>0, <2>1, <4>2 DEF Indexed, Messages, MainTypes
        <5>2. \A k, l \in DOMAIN hashes : k < l => hashes[k] < hashes[l]
          BY <2>7 DEF StableInv, StableAlone
        <5>3. \A k \in DOMAIN hashes : hashes[k] < m[2]
          BY <2>5, <2>7 DEF StableInv, Before, Hashed
        <5> QED BY <5>1, <5>2, <5>3, AppendAscends DEF Hashed, StableAlone
      <4> QED BY <4>1, <4>2
    <3>2. /\ Numbers(1)' = Numbers(1) /\ AtHand' = AtHand
          /\ \A w \in Workers \ {1} : queue'[w] = <<>> /\ current'[w] = Nobody
          /\ queue'[1] = queue[1]
      BY <1>0, <2>3, <2>4, <2>7 DEF Numbers, AtHand, StableInv
    <3>3. /\ Ordered(queue[Main]) /\ Ordered(queue[1])
          /\ Before(Hashed, Numbers(Main)) /\ Before(Hashed, AtHand) /\ Before(Hashed, Numbers(1))
          /\ Before(Numbers(Main), AtHand) /\ Before(Numbers(Main), Numbers(1))
          /\ Before(AtHand, Numbers(1))
      BY <2>7 DEF StableInv
    <3>4. Ordered(queue'[Main]) /\ Ordered(queue'[1])
      BY <2>5, <3>2, <3>3
    <3>5. Before(Hashed', Numbers(Main)') /\ Before(Hashed', AtHand') /\ Before(Hashed', Numbers(1)')
      <4>1. m[2] \in Numbers(Main) /\ Numbers(Main)' \subseteq Numbers(Main)
        BY <2>5
      <4>2. Before({m[2]}, Numbers(Main)') /\ Before({m[2]}, AtHand) /\ Before({m[2]}, Numbers(1))
        BY <2>5, <3>3, <4>1 DEF Before
      <4>3. \A U : Before(Hashed, U) /\ Before({m[2]}, U) => Before(Hashed', U)
        BY <3>1 DEF Before
      <4>4. Before(Hashed, Numbers(Main)')
        BY <3>3, <4>1 DEF Before
      <4> QED BY <3>2, <3>3, <4>2, <4>3, <4>4
    <3>6. /\ Before(Numbers(Main)', AtHand') /\ Before(Numbers(Main)', Numbers(1)')
          /\ Before(AtHand', Numbers(1)')
      BY <2>5, <3>2, <3>3 DEF Before
    <3> QED BY <2>3, <3>1, <3>2, <3>4, <3>5, <3>6 DEF StableInv
  <2> QED BY <2>6, <2>7
<1>5. ASSUME NEW w \in Workers, TakeMessage(w) PROVE StableInv'
  <2>1. UNCHANGED <<phase, hashes, numWorkers>>
    BY <1>5 DEF TakeMessage, mainVars, runVars
  <2>2. CASE ~Alone
    BY <2>1, <2>2 DEF StableInv, StableAlone
  <2>3. CASE Alone
    <3>1. PICK m \in Messages : P!Get(w, m) /\ current' = [current EXCEPT ![w] = m]
      BY <1>5 DEF TakeMessage
    <3>2. w = 1
      BY <2>3, <3>1 DEF P!Get, StableInv
    <3>3. /\ \A u \in Threads \ {1} : queue'[u] = queue[u]
          /\ Numbers(1) = Numbers(1)' \cup {m[2]}
          /\ Ordered(queue[1]) => Ordered(queue'[1]) /\ Before({m[2]}, Numbers(1)')
      BY <1>0, <3>1, <3>2, GetEffect, GetOrdered
    <3>4. Numbers(Main)' = Numbers(Main) /\ Hashed' = Hashed /\ queue'[Main] = queue[Main]
      BY <1>0, <2>1, <3>3 DEF Numbers, Hashed
    <3>5. AtHand' \subseteq {m[2]}
      BY <1>0, <3>1, <3>2 DEF AtHand, WorkerTypes
    <3>6. StableAlone' /\ \A x \in Workers \ {1} : queue'[x] = <<>> /\ current'[x] = Nobody
      BY <1>0, <2>1, <2>3, <3>1, <3>2, <3>3 DEF StableInv, StableAlone, WorkerTypes
    <3> QED BY <2>1, <2>3, <3>3, <3>4, <3>5, <3>6 DEF StableInv, Before
  <2> QED BY <2>2, <2>3
<1>6. ASSUME NEW w \in Workers, WorkerReply(w) PROVE StableInv'
  <2>1. UNCHANGED <<phase, hashes, numWorkers>> /\ current' = [current EXCEPT ![w] = Nobody]
    BY <1>6 DEF WorkerReply, mainVars, runVars
  <2>2. CASE ~Alone
    BY <2>1, <2>2 DEF StableInv, StableAlone
  <2>3. CASE Alone
    <3>1. PICK m \in Messages : m = current[w] /\ P!Put(w, Main, Nobody, m)
      BY <1>6, ReplyWhere
    <3>2. w = 1
      BY <2>3, <3>1, NobodyElse DEF StableInv
    <3>3. \A u \in Threads \ {Main} : queue'[u] = queue[u]
      BY <1>0, <3>1, PutEffect
    <3>4. AtHand = {m[2]} /\ AtHand' = {}
      BY <1>0, <2>1, <3>1, <3>2, NobodyElse DEF AtHand, WorkerTypes
    <3>5. Numbers(Main)' = Numbers(Main) \cup AtHand /\ Ordered(queue'[Main])
      BY <1>0, <2>3, <3>1, <3>4, PutOrdered DEF StableInv
    <3>6. Numbers(1)' = Numbers(1) /\ Hashed' = Hashed /\ queue'[1] = queue[1]
      BY <1>0, <2>1, <3>3 DEF Numbers, Hashed
    <3>7. StableAlone' /\ \A x \in Workers \ {1} : queue'[x] = <<>> /\ current'[x] = Nobody
      BY <1>0, <2>1, <2>3, <3>2, <3>3 DEF StableInv, StableAlone, WorkerTypes
    <3> QED BY <2>1, <2>3, <3>4, <3>5, <3>6, <3>7 DEF StableInv, Before
  <2> QED BY <2>2, <2>3
<1>7. ASSUME NEW w \in Workers, WorkerWait(w) \/ NoMessage(w) \/ Handle(w) PROVE StableInv'
  BY <1>1, <1>7 DEF WorkerWait, NoMessage, Handle, portVars, mainVars, runVars
<1>8. ASSUME NEW w \in Workers, WorkerPost(w) PROVE StableInv'
  BY <1>1, <1>8 DEF WorkerPost, P!Post, mainVars, runVars
<1>9. CASE PostFromMain
  BY <1>1, <1>9 DEF PostFromMain, P!Post, mainVars, runVars, workerVars
<1>10. CASE UNCHANGED <<portVars, workerVars>>
  <2>1. hashes' = hashes \/ TakeReply
    BY HashesSame
  <2>2. CheckArgs \/ (numWorkers' = numWorkers /\ (phase' = phase \/ phase' # "hash"))
    <3>1. MainStep => CheckArgs \/ (numWorkers' = numWorkers /\ (phase' = phase \/ phase' # "hash"))
      BY DEF MainStep, ParseArg, ArgsParsed, InitFails, CreateWorker, CreateFails,
             HandleFails, StopThose, Scan, ScanFails, Send, PostFromMain, TakeReply, AllSent,
             AwaitReply, Drained, ToDistances, NoMessages, NoDistances, ToOrder, NoOrder, Finish,
             FreeAll, AbortWorker, AllAborted, DestroyWorker, SkipWorker, Close, mainVars, runVars
    <3> QED BY <3>1, OthersLeaveMain DEF mainVars, runVars
  <2> QED BY <1>1, <1>2, <1>4, <1>10, <2>1, <2>2 DEF portVars, workerVars
<1> QED
  <2>1. (\E w \in Workers : \/ WorkerWait(w) \/ TakeMessage(w) \/ NoMessage(w) \/ Handle(w)
                            \/ WorkerReply(w) \/ WorkerPost(w)) => StableInv'
    BY <1>5, <1>6, <1>7, <1>8
  <2> QED BY <1>3, <1>4, <1>9, <1>10, <2>1, MessagesElsewhere DEF MessageStep

-----------------------------------------------------------------------------
(* No message is stranded.                                                 *)

\* Who puts a message to an empty port has still to signal it.
LEMMA FilledByPosting ==
  ASSUME TypeOK, Control, PortInv, [Next]_vars, NEW t \in Threads, queue[t] = <<>>, queue'[t] # <<>>
  PROVE  \E s \in Threads : posting'[s] = t
<1>0. /\ PortTypes /\ WorkerTypes /\ Main \in Threads /\ Main \notin Workers
      /\ \A w \in Workers : w \in Threads /\ w # Main
  BY TypeParts, NobodyElse DEF Threads
<1>1. ASSUME NEW s \in Threads, NEW port \in Threads, NEW reply \in {Main, Nobody}, NEW m \in Messages,
             P!Put(s, port, reply, m)
      PROVE  posting'[s] = t
  BY <1>0, <1>1 DEF P!Put, PortTypes
<1>2. CASE Send
  BY <1>0, <1>1, <1>2, SendWhere DEF Send
<1>3. ASSUME NEW w \in Workers, WorkerReply(w) PROVE posting'[w] = t
  BY <1>0, <1>1, <1>3, ReplyWhere
<1>4. ASSUME NEW s \in Threads, NEW m \in Messages, P!Get(s, m) PROVE FALSE
  BY <1>0, <1>4 DEF P!Get, PortTypes
<1>5. TakeReply \/ (\E w \in Workers : TakeMessage(w)) => FALSE
  BY <1>0, <1>4 DEF TakeReply, TakeMessage
<1>6. ASSUME NEW w \in Workers, WorkerWait(w) \/ NoMessage(w) \/ Handle(w) \/ WorkerPost(w)
      PROVE  queue' = queue
  BY <1>6 DEF WorkerWait, NoMessage, Handle, WorkerPost, P!Post, portVars
<1>7. PostFromMain \/ UNCHANGED <<portVars, workerVars>> => queue' = queue
  BY DEF PostFromMain, P!Post, portVars
<1>8. (\E w \in Workers : \/ WorkerWait(w) \/ TakeMessage(w) \/ NoMessage(w) \/ Handle(w)
                          \/ WorkerReply(w) \/ WorkerPost(w)) =>
        \E s \in Threads : posting'[s] = t
  BY <1>0, <1>3, <1>5, <1>6
<1> QED BY <1>0, <1>2, <1>5, <1>7, <1>8, MessagesElsewhere DEF MessageStep

\* And who has a port to signal does that.
LEMMA SignalledByPosting ==
  ASSUME TypeOK, Control, PortInv, [Next]_vars, NEW s \in Threads, NEW t \in Threads, posting[s] = t
  PROVE  posting'[s] = t \/ "USER" \in sigState'[t]
<1>0. /\ PortTypes /\ WorkerTypes /\ Main \in Threads /\ t # Nobody /\ {"USER"} \in SUBSET T!Signals
      /\ \A w \in Workers : w \in Threads
  BY TypeParts, NobodyElse DEF Threads, T!Signals
<1>s. Sig!TypeOK
  BY DEF TypeOK, T!TypeOK, T!Sig!TypeOK, T!Threads, T!Signals, Sig!TypeOK, Threads
<1>1. ASSUME NEW x \in Threads, P!Post(x) PROVE posting'[s] = t \/ "USER" \in sigState'[t]
  <2>1. CASE x = s
    <3>1. Sig!Signal(t, {"USER"})
      BY <1>1, <2>1, SameSignal DEF P!Post
    <3>2. sigState' = [sigState EXCEPT ![t] = @ \cup {"USER"}]
      BY <1>0, <1>s, <3>1, SignalEffect
    <3> QED BY <1>s, <3>2 DEF Sig!TypeOK
  <2> QED BY <1>0, <1>1, <2>1 DEF P!Post, PortTypes
<1>2. ASSUME NEW x \in Threads, NEW port \in Threads, NEW reply \in {Main, Nobody}, NEW m \in Messages,
             P!Put(x, port, reply, m)
      PROVE  posting'[s] = t
  BY <1>0, <1>2 DEF P!Put, PortTypes
<1>3. CASE Send
  BY <1>0, <1>2, <1>3, SendWhere DEF Send, Threads
<1>4. ASSUME NEW w \in Workers, WorkerReply(w) PROVE posting'[s] = t
  BY <1>0, <1>2, <1>4, ReplyWhere
<1>5. ASSUME NEW w \in Workers, WorkerWait(w) \/ NoMessage(w) \/ Handle(w) \/ TakeMessage(w)
      PROVE  posting' = posting
  BY <1>5 DEF WorkerWait, NoMessage, Handle, TakeMessage, P!Get, portVars
<1>6. TakeReply \/ UNCHANGED <<portVars, workerVars>> => posting' = posting
  BY DEF TakeReply, P!Get, portVars
<1>7. PostFromMain => posting'[s] = t \/ "USER" \in sigState'[t]
  BY <1>0, <1>1 DEF PostFromMain
<1>8. ASSUME NEW w \in Workers, WorkerPost(w) PROVE posting'[s] = t \/ "USER" \in sigState'[t]
  BY <1>0, <1>1, <1>8 DEF WorkerPost
<1>9. (\E w \in Workers : \/ WorkerWait(w) \/ TakeMessage(w) \/ NoMessage(w) \/ Handle(w)
                          \/ WorkerReply(w) \/ WorkerPost(w)) =>
        posting'[s] = t \/ "USER" \in sigState'[t]
  BY <1>4, <1>5, <1>8
<1> QED BY <1>3, <1>6, <1>7, <1>9, MessagesElsewhere DEF MessageStep

\* A thread that takes the signal goes on to look at its port.
LEMMA TakenToDrain ==
  ASSUME TypeOK, Control, ThreadInv, SleepInv, PortInv, FlightInv, [Next]_vars,
         NEW t \in Threads, queue[t] # <<>>, "USER" \in sigState[t]
  PROVE  "USER" \in sigState'[t] \/ WillDrain(t)'
<1>0. /\ Sig!TypeOK /\ Main \in Threads /\ Main \notin Workers /\ PortTypes /\ WorkerTypes
      /\ \A w \in Workers : w \in Threads /\ w # Main
      /\ \A x \in Threads : x # Main => x \in Workers
  BY TypeParts, NobodyElse
     DEF TypeOK, T!TypeOK, T!Sig!TypeOK, T!Threads, T!Signals, Sig!TypeOK, Threads
<1>1. CASE UNCHANGED sigVars
  BY <1>1 DEF sigVars
<1>2. ASSUME NEW w \in Workers, T!Link(w) PROVE FALSE
  <2>1. mpc' = "spawn" /\ mpc = "idle"
    BY <1>2 DEF T!Link
  <2>2. MainStep
    BY <2>1, OthersLeaveMain
  <2>3. pc = "create"
    BY <2>1, <2>2
    DEF MainStep, ParseArg, ArgsParsed, CheckArgs, InitFails, CreateWorker, CreateFails, HandleFails,
        StopThose, Scan, ScanFails, Send, PostFromMain, TakeReply, AllSent, AwaitReply, Drained,
        ToDistances, NoMessages, NoDistances, ToOrder, NoOrder, Finish, FreeAll, AbortWorker,
        AllAborted, DestroyWorker, SkipWorker, Close, threadVars, T!Abort, T!ScanFinds,
        T!ScanFindsNot, T!AwaitDeath, T!Join, T!Close
  <2>4. InFlight = {}
    BY <2>3 DEF FlightInv
  <2> QED BY <2>4, NothingQueued
<1>3. ASSUME NEW x \in Threads, NEW signals \in SUBSET T!Signals, Sig!Signal(x, signals)
      PROVE  "USER" \in sigState'[t]
  <2>1. sigState' = [sigState EXCEPT ![x] = @ \cup signals]
    BY <1>0, <1>3, SignalEffect
  <2> QED BY <1>0, <2>1 DEF Sig!TypeOK
<1>4. ASSUME NEW x \in Threads, NEW m, Sig!Wait(x, m, FALSE), x # t \/ "USER" \notin m
      PROVE  "USER" \in sigState'[t]
  BY <1>0, <1>4 DEF Sig!TypeOK, Sig!Wait, Sig!Turn
<1>5. CASE AwaitReply
  <2>1. PICK m : "USER" \in m /\ Sig!Wait(Main, m, FALSE)
    BY <1>5 DEF AwaitReply
  <2>2. CASE t = Main
    <3>1. sleep'[Main] = "running"
      BY <1>0, <2>1, <2>2 DEF Sig!TypeOK, Sig!Wait, Sig!Turn
    <3> QED BY <1>5, <2>2, <3>1 DEF AwaitReply, WillDrain
  <2> QED BY <1>0, <1>4, <2>1, <2>2
<1>6. CASE T!AwaitDeath
  BY <1>0, <1>4, <1>6, SameWait DEF T!AwaitDeath
<1>7. ASSUME NEW w \in Workers, WorkerWait(w) PROVE "USER" \in sigState'[t] \/ WillDrain(t)'
  <2>1. /\ Sig!Wait(w, {"USER", "ABORT"}, FALSE) /\ tpc[w] = "body" /\ UNCHANGED threadVars
        /\ wpc'[w] = "drain"
    BY <1>0, <1>7 DEF WorkerWait, In, Goto, WorkerTypes
  <2>2. CASE t = w
    <3>1. sleep'[w] = "running"
      BY <1>0, <2>1, <2>2 DEF Sig!TypeOK, Sig!Wait, Sig!Turn
    <3> QED BY <1>0, <2>1, <2>2, <3>1 DEF WillDrain, threadVars
  <2> QED BY <1>0, <1>4, <2>1, <2>2
<1>8. ASSUME NEW w \in Workers, T!AwaitSync(w) PROVE "USER" \in sigState'[t]
  BY <1>0, <1>4, <1>8, SameWait DEF T!AwaitSync
<1>9. ASSUME NEW x \in Threads, Sig!Resume(x) PROVE "USER" \in sigState'[t] \/ WillDrain(t)'
  <2>1. /\ \A y \in Threads \ {x} : sigState'[y] = sigState[y]
        /\ sigState'[x] = sigState[x] \ mask[x] /\ sleep[x] = "woken"
        /\ sigState[x] \cap mask[x] # {} => sleep'[x] = "running"
    BY <1>0, <1>9, ResumeEffect
  <2>2. CASE t = x /\ "USER" \in mask[t]
    <3>1. sleep'[t] = "running" /\ sleep[t] # "running" /\ mask[t] # {"SYNC"}
      BY <2>1, <2>2
    <3>2. CASE t = Main
      <4>1. ~MainStep /\ pc = "drain"
        BY <3>1, <3>2, MainAsleep DEF SleepInv
      <4>2. pc' = pc
        BY <4>1, OthersLeaveMain DEF mainVars
      <4> QED BY <3>1, <3>2, <4>1, <4>2 DEF WillDrain
    <3>3. CASE t \in Workers
      <4>1. tpc'[t] = tpc[t] /\ wpc'[t] = wpc[t] /\ tpc[t] = "body" /\ wpc[t] = "drain"
        BY <3>1, <3>3, WorkerAsleep DEF SleepInv
      <4> QED BY <1>0, <3>1, <3>3, <4>1 DEF WillDrain
    <3> QED BY <1>0, <3>2, <3>3
  <2> QED BY <2>1, <2>2
<1>10. ASSUME NEW x \in Threads, Sig!SpuriousWakeup(x) PROVE sigState' = sigState
  BY <1>0, <1>10, SpuriousEffect
<1> QED BY <1>1, <1>2, <1>3, <1>5, <1>6, <1>7, <1>8, <1>9, <1>10, SignalsOneByOne DEF SignalStep

\* And it does so until its port is empty.
LEMMA DrainedOnly ==
  ASSUME TypeOK, Control, ThreadInv, SleepInv, PortInv, [Next]_vars, NEW t \in Threads,
         queue[t] # <<>>, WillDrain(t)
  PROVE  WillDrain(t)'
<1>0. /\ Main \in Threads /\ Main \notin Workers /\ WorkerTypes
      /\ \A x \in Threads : x # Main => x \in Workers
      /\ tpc \in [Workers -> {"none", "entry", "sync", "body", "ending",
                              "returned", "notify", "exited", "gone"}]
  BY TypeParts, NobodyElse DEF Threads, T!TypeOK
<1>1. CASE t = Main
  <2>1. pc = "drain" /\ sleep[Main] = "running"
    BY <1>1 DEF WillDrain
  <2>2. pc' = "drain"
    <3>1. MainStep => pc' = "drain"
      BY <1>1, <2>1
      DEF MainStep, ParseArg, ArgsParsed, CheckArgs, InitFails, CreateWorker, CreateFails, HandleFails,
          StopThose, Scan, ScanFails, Send, PostFromMain, TakeReply, AllSent, AwaitReply, Drained,
          ToDistances, NoMessages, NoDistances, ToOrder, NoOrder, Finish, FreeAll, AbortWorker,
          AllAborted, DestroyWorker, SkipWorker, Close
    <3> QED BY <2>1, <3>1, OthersLeaveMain DEF mainVars
  <2>3. sleep'[Main] = "running"
    <3>1. ~AwaitReply
      BY <2>1 DEF AwaitReply
    <3>2. ~T!AwaitDeath
      BY <2>1 DEF T!AwaitDeath, Control
    <3> QED BY <1>0, <2>1, <3>1, <3>2, AsleepSame
  <2> QED BY <1>1, <2>2, <2>3 DEF WillDrain
<1>2. CASE t \in Workers
  <2>1. tpc[t] = "body" /\ wpc[t] # "wait" /\ sleep[t] = "running"
    BY <1>0, <1>2 DEF WillDrain
  <2>2. ~NoMessage(t)
    BY DEF NoMessage
  <2>3. tpc'[t] = "body"
    <3>1. ASSUME NEW v \in Workers, T!AwaitSync(v) \/ T!Run(v) \/ T!Die(v) \/ T!Notify(v) \/ NoMessage(v)
          PROVE  tpc'[t] = tpc[t]
      BY <1>0, <1>2, <2>1, <2>2, <3>1 DEF T!AwaitSync, T!Run, T!Die, T!Notify, NoMessage
    <3>2. T!Spawn \/ CreateFails => tpc'[t] = tpc[t]
      BY <1>0, <1>2, <2>1 DEF T!Spawn, CreateFails, T!SpawnFails, ThreadInv
    <3>3. T!Join => tpc'[t] = tpc[t]
      BY <1>0, <1>2, <2>1 DEF T!Join
    <3>4. T!AdoptThenKick \/ T!ScanFinds \/ T!ScanFindsNot \/ T!AwaitDeath \/ T!Close
          \/ UNCHANGED threadVars => tpc' = tpc
      BY DEF T!AdoptThenKick, T!ScanFinds, T!ScanFindsNot, T!AwaitDeath, T!Close, threadVars
    <3>5. ASSUME NEW v \in Workers, T!Link(v) \/ T!Abort(v) PROVE tpc' = tpc
      BY <3>5 DEF T!Link, T!Abort
    <3>6. ASSUME ThreadStep PROVE tpc'[t] = tpc[t]
      BY <3>1, <3>2, <3>3, <3>4, <3>5, <3>6 DEF ThreadStep
    <3> QED BY <2>1, <3>4, <3>6, ThreadsElsewhere
  <2>4. wpc'[t] # "wait"
    <3>1. ASSUME NEW v \in Workers,
                 WorkerWait(v) \/ TakeMessage(v) \/ NoMessage(v) \/ Handle(v) \/ WorkerReply(v)
          PROVE  wpc'[t] # "wait"
      BY <1>0, <1>2, <2>1, <2>2, <3>1
      DEF WorkerWait, TakeMessage, NoMessage, Handle, WorkerReply, Goto, WorkerTypes
    <3>2. ASSUME NEW v \in Workers, WorkerPost(v) PROVE wpc'[t] # "wait"
      BY <1>0, <1>2, <2>1, <3>2 DEF WorkerPost, NextMessage, Goto, WorkerTypes
    <3>3. Send \/ PostFromMain \/ TakeReply \/ UNCHANGED workerVars => wpc' = wpc
      BY DEF Send, PostFromMain, TakeReply, workerVars
    <3> QED BY <2>1, <3>1, <3>2, <3>3, MessagesElsewhere DEF MessageStep
  <2>5. sleep'[t] = "running"
    <3>1. ~WorkerWait(t)
      BY <2>1 DEF WorkerWait, In
    <3>2. ~T!AwaitSync(t)
      BY <2>1 DEF T!AwaitSync
    <3> QED BY <1>0, <1>2, <2>1, <3>1, <3>2, AsleepSame
  <2> QED BY <1>0, <1>2, <2>3, <2>4, <2>5 DEF WillDrain
<1> QED BY <1>0, <1>1, <1>2

LEMMA StepStrandedInv ==
  ASSUME TypeOK, Control, ThreadInv, SleepInv, PortInv, FlightInv, StrandedInv, [Next]_vars
  PROVE  StrandedInv'
<1> SUFFICES ASSUME NEW t \in Threads, queue'[t] # <<>>
             PROVE  \/ \E s \in Threads : posting'[s] = t
                    \/ "USER" \in sigState'[t]
                    \/ WillDrain(t)'
  BY DEF StrandedInv
<1>1. CASE queue[t] = <<>>
  BY <1>1, FilledByPosting
<1>2. CASE queue[t] # <<>>
  <2>1. (\E s \in Threads : posting[s] = t) \/ "USER" \in sigState[t] \/ WillDrain(t)
    BY <1>2 DEF StrandedInv
  <2>2. ASSUME NEW s \in Threads, posting[s] = t PROVE posting'[s] = t \/ "USER" \in sigState'[t]
    BY <2>2, SignalledByPosting
  <2>3. "USER" \in sigState[t] => "USER" \in sigState'[t] \/ WillDrain(t)'
    BY <1>2, TakenToDrain
  <2>4. WillDrain(t) => WillDrain(t)'
    BY <1>2, DrainedOnly
  <2> QED BY <2>1, <2>2, <2>3, <2>4
<1> QED BY <1>1, <1>2

-----------------------------------------------------------------------------
(* The invariant.                                                          *)

LEMMA InitTypes == Init => TypeOK
<1> SUFFICES ASSUME Init PROVE TypeOK
  OBVIOUS
<1>1. T!TypeOK
  BY DEF Init, T!Init, T!Sig!Init, T!TypeOK, T!Sig!TypeOK, T!Threads, Threads
<1>2. PortTypes
  <2>1. <<>> \in Seq(Messages)
    BY EmptySeq
  <2> QED BY <2>1 DEF Init, P!PortInit, PortTypes, Threads
<1>3. WorkerTypes
  BY DEF Init, WorkerTypes
<1>4. ArgTypes
  <2>1. \A n \in 0 .. MaxArgs : n \in Nat /\ [1 .. n -> ArgWords] \subseteq Seq(ArgWords)
    BY ArgsAssumption, SeqDef
  <2>2. argv \in Seq(ArgWords)
    BY <2>1 DEF Init, ArgsInit, CommandLines
  <2>3. Len(argv) \in Nat
    BY <2>2, LenProperties
  <2> QED BY <2>2, <2>3 DEF Init, ArgsInit, Default, ArgTypes
<1>5. MainTypes
  <2>1. <<>> \in Seq(Files)
    BY EmptySeq
  <2> QED BY <2>1, SomeWorkers DEF Init, MainTypes, Phases
<1> QED BY <1>1, <1>2, <1>3, <1>4, <1>5, TypeParts

LEMMA InitRunInv == Init => RunInv
<1> SUFFICES ASSUME Init PROVE RunInv
  OBVIOUS
<1>0. /\ Nobody # Main /\ Main \in Threads /\ \A w \in Workers : w \in Threads /\ w # Main
      /\ Nobody # "distances" /\ Nobody # "thread" /\ DOMAIN (<<>>) = {}
  BY NobodyElse DEF Threads, Refusals
<1>1. TypeOK
  BY InitTypes
<1>2. Control
  BY <1>0 DEF Init, P!PortInit, T!Init, Control
<1>3. ThreadInv
  BY <1>0 DEF Init, T!Init, T!Sig!Init, T!HandlesLive, ThreadInv, ChildInv, T!Threads, Threads
<1>4. SleepInv
  BY <1>0 DEF Init, T!Init, T!Sig!Init, SleepInv, T!Threads, Threads
<1>p. /\ \A t \in Threads : queue[t] = <<>> /\ posting[t] = Nobody
      /\ \A m \in Messages : holder[m] = Main
  BY <1>0 DEF Init, P!PortInit
<1>5. PortInv
  BY <1>0, <1>p DEF Init, PortInv, QueueInv, HoldsInv
<1>6. FlightInv
  <2>1. InFlight = {}
    BY <1>p DEF InFlight
  <2> QED BY <1>0, <2>1 DEF Init, FlightInv
<1>7. LiveInv
  BY DEF Init, LiveInv
<1>8. IndexInv
  BY <1>0 DEF Init, IndexInv
<1>9. WrittenInv
  BY DEF Init, WrittenInv
<1>10. StableInv
  BY <1>0 DEF Init, StableInv, StableAlone
<1>11. StrandedInv
  BY <1>p DEF StrandedInv
<1> QED BY <1>1, <1>2, <1>3, <1>4, <1>5, <1>6, <1>7, <1>8, <1>9, <1>10, <1>11 DEF RunInv

LEMMA StepRunInv == RunInv /\ [Next]_vars => RunInv'
<1> SUFFICES ASSUME RunInv, [Next]_vars PROVE RunInv'
  OBVIOUS
<1>1. /\ TypeOK /\ Control /\ ThreadInv /\ SleepInv /\ PortInv /\ FlightInv /\ LiveInv
      /\ IndexInv /\ WrittenInv /\ StableInv /\ StrandedInv
  BY DEF RunInv
<1>2. TypeOK' /\ Control'
  BY <1>1, StepTypes, StepControl
<1>3. ThreadInv' /\ SleepInv'
  BY <1>1, <1>2, StepThreadInv, StepSleepInv
<1>4. PortInv' /\ FlightInv' /\ LiveInv'
  BY <1>1, StepPortInv, StepFlightInv, StepLiveInv
<1>5. IndexInv' /\ WrittenInv' /\ StableInv' /\ StrandedInv'
  BY <1>1, StepIndexInv, StepWrittenInv, StepStableInv, StepStrandedInv
<1> QED BY <1>2, <1>3, <1>4, <1>5 DEF RunInv

\* All parts of the invariant hold together in every run of binsort.
THEOREM RunInvariant == Spec => []RunInv
BY InitRunInv, StepRunInv, PTL DEF Spec

\* Every variable keeps to its type, the signals, threads, ports and settings
\* of the parts Binsort is composed of included.
THEOREM RunTypes == Spec => []TypeOK
<1>1. RunInv => TypeOK
  BY DEF RunInv
<1> QED BY <1>1, RunInvariant, PTL

\* Only messages of one phase are under way at a time, and when one that asks
\* for the order to be optimized is handled, all the distances are written
\* (binsort_genhashes, binsort_gendistances and binsort_genorder wait for all
\* their answers).
THEOREM PhasesKeptApart == Spec => []PhasesApart
<1>1. ASSUME RunInv PROVE PhasesApart
  <2>1. ASSUME NEW m \in Messages, holder[m] # Main PROVE m[1] = phase
    BY <1>1, <2>1 DEF RunInv, FlightInv, InFlight
  <2>2. ASSUME NEW w \in Workers, current[w] # Nobody, current[w][1] = "opt"
        PROVE  written = 1 .. DistanceWorkers
    <3>1. current[w] \in Messages /\ holder[current[w]] = w /\ w # Main
      BY <1>1, <2>2, NobodyElse DEF RunInv, TypeOK, PortInv, HoldsInv
    <3>2. phase = "opt"
      BY <2>1, <2>2, <3>1
    <3> QED BY <1>1, <3>2 DEF RunInv, WrittenInv
  <2> QED BY <2>1, <2>2 DEF PhasesApart
<1> QED BY <1>1, RunInvariant, PTL

\* The main thread neither stops too early nor, as long as its messages are sent,
\* waits for an answer that never comes: sent or numworkers is the number of
\* messages that are not back yet, and where the array of distances was refused
\* there is none.
THEOREM AnswersAreCounted == Spec => []AnswersCounted
<1>1. ASSUME RunInv, pc \in {"wait", "drain"}
      PROVE  Cardinality(InFlight) = IF refused = "distances" THEN 0 ELSE left
  <2>1. refused = "distances" => InFlight = {}
    BY <1>1 DEF RunInv, FlightInv
  <2>2. refused # "distances" => left = Cardinality(InFlight)
    BY <1>1 DEF RunInv, FlightInv
  <2>3. Cardinality({}) = 0
    BY FS_EmptySet
  <2> QED BY <2>1, <2>2, <2>3
<1>2. RunInv => AnswersCounted
  BY <1>1 DEF AnswersCounted, InFlight
<1> QED BY <1>2, RunInvariant, PTL

\* Every hash has one den_Index, its position on b_Hashes, and when the
\* distances are calculated no hashed file is without.
THEOREM HashesAreIndexed == Spec => []HashesIndexed
<1>1. ASSUME RunInv PROVE HashesIndexed
  <2>1. TypeOK /\ FlightInv /\ IndexInv
    BY <1>1 DEF RunInv
  <2>2. ASSUME phase # "hash", NEW f \in Files PROVE holder[<<"hash", f>>] = Main
    <3>1. <<"hash", f>> \in Messages /\ <<"hash", f>>[1] = "hash"
      BY DEF Messages
    <3>2. <<"hash", f>> \notin InFlight
      BY <2>1, <2>2, <3>1 DEF FlightInv
    <3> QED BY <3>1, <3>2 DEF InFlight
  <2>3. ASSUME phase # "hash" PROVE {hashes[k] : k \in DOMAIN hashes} = {f \in Files : hashNode[f]}
    <3>1. \A k \in DOMAIN hashes : hashes[k] \in Files
      BY <2>1 DEF TypeOK
    <3>2. \A k \in DOMAIN hashes : hashNode[hashes[k]]
      BY <2>1 DEF IndexInv
    <3>3. \A f \in Files : hashNode[f] => \E k \in DOMAIN hashes : hashes[k] = f
      BY <2>1, <2>2, <2>3 DEF IndexInv
    <3> QED BY <3>1, <3>2, <3>3
  <2> QED BY <2>1, <2>3 DEF HashesIndexed, IndexInv
<1> QED BY <1>1, RunInvariant, PTL

\* No message is handled whose memory has been freed or never was allocated.
THEOREM MemoryStaysLive == Spec => []MemoryLive
<1>1. ASSUME RunInv PROVE MemoryLive
  <2>1. FlightInv /\ LiveInv /\ Control
    BY <1>1 DEF RunInv
  <2>2. ASSUME NEW m \in Messages, holder[m] # Main PROVE Uses(m) \subseteq live
    <3>1. m \in InFlight
      BY <2>2 DEF InFlight
    <3>2. m[1] = phase /\ live = Allocated
      BY <2>1, <3>1 DEF FlightInv, LiveInv
    <3>3. m[1] \in {"hash", "dist", "opt"}
      BY DEF Messages
    <3> QED BY <3>2, <3>3 DEF Uses, Allocated
  <2> QED BY <2>2 DEF MemoryLive
<1> QED BY <1>1, RunInvariant, PTL

\* A single worker gives the files their indices in the order of the list
\* ("Results are not stable unless you specify -t 1", README:26).
THEOREM AloneStable == Spec => []StableAlone
<1>1. RunInv => StableAlone
  BY DEF RunInv, StableInv
<1> QED BY <1>1, RunInvariant, PTL

\* No handle is used or walked over after it was freed, whatever failed but the
\* creation of a thread, and what is allocated is freed in the end, but for the
\* first array of binsort_genorder where the second one was refused.
THEOREM EndsClean == Spec => []CleanEnd
<1>1. RunInv => CleanEnd
  BY DEF RunInv, ThreadInv, LiveInv, CleanEnd, T!ListLive
<1> QED BY <1>1, RunInvariant, PTL

-----------------------------------------------------------------------------
(* The command line.                                                       *)

\* What is known of the arguments before nextArg if the quality is at place o,
\* the workers at t and the directory at d (0 where they are not there yet):
\* each has one meaning,
ReadAt(o, t, d) ==
  /\ o # 0 => argv[o] = "-o"
  /\ t # 0 => argv[t] = "-t"
  /\ Taken(o) \cap Taken(t) = {} /\ d \notin Taken(o) \cup Taken(t)
  /\ \A p \in Rest(o, t, d) : p < nextArg => argv[p] \in FlagKeys

\* and the variables of parseargs are what these arguments say.
NumberRead(key, p, default) ==
  /\ await = key <=> p # 0 /\ nextArg = p + 1
  /\ key \in given <=> p # 0 /\ p + 1 < nextArg
  /\ value[key] = IF p # 0 /\ p + 1 < nextArg THEN Stored(Atoi[argv[p + 1]]) ELSE default

Tracks(o, t, d) ==
  /\ NumberRead("-o", o, DefaultQuality)
  /\ NumberRead("-t", t, DefaultWorkers)
  /\ "dir" \in given <=> d # 0 /\ d < nextArg
  /\ value["dir"] = IF d # 0 /\ d < nextArg THEN argv[d] ELSE Nobody
  /\ \A flag \in FlagKeys :
       value[flag] = IF \E p \in Rest(o, t, d) : p < nextArg /\ argv[p] = flag THEN 1 ELSE 0

Plain(d) == argv[d] \notin NumberKeys \cup FlagKeys

\* Some places fit what has been read, and those that are asked for do.
SomeFit == \E o, t, d \in 0 .. nextArg - 1 : ReadAt(o, t, d) /\ Tracks(o, t, d)
AskedFit ==
  \A o, t \in 0 .. Len(argv), d \in DOMAIN argv : Asks(o, t, d) /\ Plain(d) => Tracks(o, t, d)

ArgsInv ==
  pc \in {"main", "check"} => SomeFit /\ AskedFit /\ (pc = "check" => AllRead \/ TooMany)

\* A number that is stored is itself, if it is in bounds afterwards or before.
LEMMA StoredInBounds ==
  ASSUME NEW word \in ArgWords
  PROVE  \/ Stored(Atoi[word]) \in 1 .. MaxQuality
         \/ Atoi[word] \in 1 .. MaxQuality
         => Stored(Atoi[word]) = Atoi[word]
<1> DEFINE n == Atoi[word]
           half == IntSize \div 2
<1>1. IntSize \in Nat \ {0} /\ IntSize = 2 * half /\ half \in Nat
  BY ArgsAssumption
<1>2. n \in Int /\ -half <= n /\ n < half
  BY <1>1, ArgsAssumption
<1>3. MaxQuality = half - 1
  BY DEF MaxQuality
<1> HIDE DEF n, half
<1>4. ASSUME n >= 0 PROVE n % IntSize = n
  BY <1>1, <1>2, <1>4
<1>5. ASSUME n < 0 PROVE n % IntSize = n + IntSize
  BY <1>1, <1>2, <1>5
<1>6. n % IntSize \in 1 .. MaxQuality \/ n \in 1 .. MaxQuality => n % IntSize = n
  BY <1>1, <1>2, <1>3, <1>4, <1>5
<1> QED BY <1>6 DEF Stored, n

\* A round of parseargs.
LEMMA ArgRead ==
  ASSUME ArgTypes, ReadArg
  PROVE  /\ nextArg \in DOMAIN argv /\ nextArg \in Nat \ {0} /\ nextArg' = nextArg + 1 /\ argv' = argv
         /\ Arg \in ArgWords /\ DOMAIN value = Keys
         /\ Nobody # "-o" /\ Nobody # "-t"
BY ArgsAssumption, LenProperties DEF ArgTypes, ReadArg, Arg

LEMMA NumberTracked ==
  ASSUME ArgTypes, ReadArg, TakeNumber, NEW o \in Nat, NEW t \in Nat, NEW d \in Nat, Tracks(o, t, d),
         Taken(o) \cap Taken(t) = {}, d \notin Taken(o) \cup Taken(t)
  PROVE  Tracks(o, t, d)' /\ nextArg \in Taken(o) \cup Taken(t)
<1>0. /\ nextArg \in Nat \ {0} /\ nextArg' = nextArg + 1 /\ argv' = argv /\ DOMAIN value = Keys
      /\ Nobody # "-o" /\ Nobody # "-t"
  BY ArgRead
<1>1. await \in {"-o", "-t"}
  BY DEF TakeNumber, ArgTypes, NumberKeys
<1>2. /\ await' = Nobody /\ given' = given \cup {await}
      /\ value' = [value EXCEPT ![await] = Stored(Atoi[Arg])]
  BY DEF TakeNumber
<1>3. /\ {"-o", "-t", "dir"} \cup FlagKeys \subseteq Keys
      /\ "-o" \notin FlagKeys /\ "-t" \notin FlagKeys /\ "dir" \notin FlagKeys
  BY DEF Keys, NumberKeys, FlagKeys, HelpKeys
<1>4. Rest(o, t, d)' = Rest(o, t, d)
  BY <1>0 DEF Rest, Taken
<1>5. \A flag \in FlagKeys : value'[flag] = value[flag]
  BY <1>0, <1>1, <1>2, <1>3
<1>6. value'["dir"] = value["dir"]
  BY <1>0, <1>1, <1>2, <1>3
<1>7. CASE await = "-o"
  <2>1. o # 0 /\ nextArg = o + 1
    BY <1>7 DEF Tracks, NumberRead
  <2>2. nextArg \in Taken(o) /\ nextArg # d /\ t # o /\ (t # 0 => t # nextArg /\ t + 1 # nextArg)
    BY <2>1 DEF Taken
  <2>3. \A q \in Rest(o, t, d) : q # nextArg
    BY <2>2 DEF Rest
  <2>4. value'["-o"] = Stored(Atoi[argv[o + 1]]) /\ value'["-t"] = value["-t"]
    BY <1>0, <1>2, <1>3, <1>7, <2>1 DEF Arg
  <2>5. NumberRead("-o", o, DefaultQuality)'
    BY <1>0, <1>2, <1>7, <2>1, <2>4 DEF NumberRead
  <2>6. NumberRead("-t", t, DefaultWorkers)'
    BY <1>0, <1>2, <1>7, <2>1, <2>2, <2>4 DEF NumberRead, Tracks
  <2>7. \A q \in Rest(o, t, d) : q < nextArg' <=> q < nextArg
    BY <1>0, <2>3, LenProperties DEF Rest, ArgTypes
  <2> QED BY <1>0, <1>2, <1>4, <1>5, <1>6, <1>7, <2>2, <2>5, <2>6, <2>7 DEF Tracks
<1>8. CASE await = "-t"
  <2>1. t # 0 /\ nextArg = t + 1
    BY <1>8 DEF Tracks, NumberRead
  <2>2. nextArg \in Taken(t) /\ nextArg # d /\ (o # 0 => o # nextArg /\ o + 1 # nextArg)
    BY <2>1 DEF Taken
  <2>3. \A q \in Rest(o, t, d) : q # nextArg
    BY <2>2 DEF Rest
  <2>4. value'["-t"] = Stored(Atoi[argv[t + 1]]) /\ value'["-o"] = value["-o"]
    BY <1>0, <1>2, <1>3, <1>8, <2>1 DEF Arg
  <2>5. NumberRead("-t", t, DefaultWorkers)'
    BY <1>0, <1>2, <1>8, <2>1, <2>4 DEF NumberRead
  <2>6. NumberRead("-o", o, DefaultQuality)'
    BY <1>0, <1>2, <1>8, <2>1, <2>2, <2>4 DEF NumberRead, Tracks
  <2>7. \A q \in Rest(o, t, d) : q < nextArg' <=> q < nextArg
    BY <1>0, <2>3, LenProperties DEF Rest, ArgTypes
  <2> QED BY <1>0, <1>2, <1>4, <1>5, <1>6, <1>8, <2>2, <2>5, <2>6, <2>7 DEF Tracks
<1> QED BY <1>1, <1>7, <1>8

\* In the other rounds no number is awaited.
LEMMA NotAwaited ==
  ASSUME ArgTypes, await = Nobody, NEW o \in Nat, NEW t \in Nat, NEW d \in Nat, Tracks(o, t, d)
  PROVE  /\ o # 0 => nextArg # o + 1
         /\ t # 0 => nextArg # t + 1
BY ArgsAssumption DEF Tracks, NumberRead

LEMMA OptionTracked ==
  ASSUME ArgTypes, ReadArg, MatchOption, NEW o \in Nat, NEW t \in Nat, NEW d \in Nat, Tracks(o, t, d),
         nextArg # d, NEW p \in Nat, p = nextArg
  PROVE  /\ Arg = "-o" /\ o \in {0, p} /\ p # t => Tracks(p, t, d)'
         /\ Arg = "-t" /\ t \in {0, p} /\ p # o => Tracks(o, p, d)'
<1>0. /\ nextArg \in Nat \ {0} /\ nextArg' = nextArg + 1 /\ argv' = argv /\ Arg = argv[p]
      /\ Nobody # "-o" /\ Nobody # "-t" /\ \A q \in DOMAIN argv : q \in Nat
  BY ArgRead, LenProperties DEF Arg, ArgTypes
<1>1. await = Nobody /\ await' = Arg /\ given' = given /\ value' = value
  BY DEF MatchOption
<1>2. (o # 0 => p # o + 1) /\ (t # 0 => p # t + 1)
  BY <1>1, NotAwaited
<1>3. ASSUME Arg = "-o", o \in {0, p}, p # t PROVE Tracks(p, t, d)'
  <2>1. NumberRead("-o", p, DefaultQuality)'
    BY <1>0, <1>1, <1>3 DEF NumberRead, Tracks
  <2>2. NumberRead("-t", t, DefaultWorkers)'
    BY <1>0, <1>1, <1>2, <1>3 DEF NumberRead, Tracks
  <2>3. \A q : q \in Rest(p, t, d)' /\ q < nextArg' <=> q \in Rest(o, t, d) /\ q < nextArg
    BY <1>0, <1>3 DEF Rest, Taken
  <2> QED BY <1>0, <1>1, <2>1, <2>2, <2>3 DEF Tracks
<1>4. ASSUME Arg = "-t", t \in {0, p}, p # o PROVE Tracks(o, p, d)'
  <2>1. NumberRead("-t", p, DefaultWorkers)'
    BY <1>0, <1>1, <1>4 DEF NumberRead, Tracks
  <2>2. NumberRead("-o", o, DefaultQuality)'
    BY <1>0, <1>1, <1>2, <1>4 DEF NumberRead, Tracks
  <2>3. \A q : q \in Rest(o, p, d)' /\ q < nextArg' <=> q \in Rest(o, t, d) /\ q < nextArg
    BY <1>0, <1>4 DEF Rest, Taken
  <2> QED BY <1>0, <1>1, <2>1, <2>2, <2>3 DEF Tracks
<1> QED BY <1>3, <1>4

LEMMA FlagTracked ==
  ASSUME ArgTypes, ReadArg, MatchFlag, NEW o \in Nat, NEW t \in Nat, NEW d \in Nat, Tracks(o, t, d),
         nextArg \in Rest(o, t, d)
  PROVE  Tracks(o, t, d)'
<1>0. /\ nextArg \in Nat \ {0} /\ nextArg' = nextArg + 1 /\ argv' = argv /\ DOMAIN value = Keys
      /\ Nobody # "-o" /\ Nobody # "-t" /\ \A q \in DOMAIN argv : q \in Nat
  BY ArgRead, LenProperties DEF ArgTypes
<1>1. /\ await = Nobody /\ await' = Nobody /\ given' = given /\ Arg \in FlagKeys
      /\ value' = [value EXCEPT ![Arg] = 1]
  BY DEF MatchFlag
<1>2. (o # 0 => nextArg # o + 1 /\ nextArg # o) /\ (t # 0 => nextArg # t + 1 /\ nextArg # t)
      /\ nextArg # d
  BY DEF Rest, Taken
<1>3. /\ {"-o", "-t", "dir"} \cup FlagKeys \subseteq Keys
      /\ "-o" \notin FlagKeys /\ "-t" \notin FlagKeys /\ "dir" \notin FlagKeys
  BY DEF Keys, NumberKeys, FlagKeys, HelpKeys
<1>4. /\ value'["-o"] = value["-o"] /\ value'["-t"] = value["-t"] /\ value'["dir"] = value["dir"]
      /\ \A flag \in FlagKeys : value'[flag] = IF flag = Arg THEN 1 ELSE value[flag]
  BY <1>0, <1>1, <1>3
<1>5. NumberRead("-o", o, DefaultQuality)'
  BY <1>0, <1>1, <1>2, <1>4 DEF NumberRead, Tracks
<1>6. NumberRead("-t", t, DefaultWorkers)'
  BY <1>0, <1>1, <1>2, <1>4 DEF NumberRead, Tracks
<1>7. Rest(o, t, d)' = Rest(o, t, d)
  BY <1>0 DEF Rest, Taken
<1>8. \A q \in Rest(o, t, d) : q < nextArg' <=> q < nextArg \/ q = nextArg
  BY <1>0 DEF Rest
<1>9. ASSUME NEW flag \in FlagKeys
      PROVE  value'[flag] = IF \E q \in Rest(o, t, d) : q < nextArg' /\ argv[q] = flag THEN 1 ELSE 0
  <2>1. CASE flag = Arg
    BY <1>4, <1>8, <2>1 DEF Arg
  <2>2. CASE flag # Arg
    BY <1>4, <1>8, <2>2 DEF Arg, Tracks
  <2> QED BY <2>1, <2>2
<1>10. /\ ("dir" \in given <=> d # 0 /\ d < nextArg)'
       /\ value'["dir"] = IF d # 0 /\ d < nextArg' THEN argv'[d] ELSE Nobody
  BY <1>0, <1>1, <1>2, <1>4 DEF Tracks
<1>11. \A flag \in FlagKeys :
         value'[flag] = IF \E q \in Rest(o, t, d)' : q < nextArg' /\ argv'[q] = flag THEN 1 ELSE 0
  <2> SUFFICES ASSUME NEW flag \in FlagKeys
               PROVE  value'[flag] = IF \E q \in Rest(o, t, d)' : q < nextArg' /\ argv'[q] = flag THEN 1 ELSE 0
    OBVIOUS
  <2>1. argv' = argv /\ Rest(o, t, d)' = Rest(o, t, d)
    BY <1>0, <1>7
  <2> QED BY <1>9, <2>1
<1> QED BY <1>5, <1>6, <1>10, <1>11 DEF Tracks

LEMMA DirectoryTracked ==
  ASSUME ArgTypes, ReadArg, TakeDirectory, NEW o \in Nat, NEW t \in Nat, NEW d \in Nat, Tracks(o, t, d),
         NEW p \in Nat, p = nextArg, d \in {0, p}, p \notin Taken(o) \cup Taken(t)
  PROVE  Tracks(o, t, p)'
<1>0. /\ nextArg \in Nat \ {0} /\ nextArg' = nextArg + 1 /\ argv' = argv /\ DOMAIN value = Keys
      /\ Arg = argv[p] /\ Nobody # "-o" /\ Nobody # "-t" /\ \A q \in DOMAIN argv : q \in Nat \ {0}
  BY ArgRead, LenProperties DEF ArgTypes, Arg
<1>1. /\ await = Nobody /\ await' = Nobody /\ given' = given \cup {"dir"}
      /\ value' = [value EXCEPT !["dir"] = Arg]
  BY DEF TakeDirectory, NoMatch
<1>2. (o # 0 => nextArg # o + 1 /\ nextArg # o) /\ (t # 0 => nextArg # t + 1 /\ nextArg # t)
  BY DEF Taken
<1>3. /\ {"-o", "-t", "dir"} \cup FlagKeys \subseteq Keys
      /\ "-o" \notin FlagKeys /\ "-t" \notin FlagKeys /\ "dir" \notin FlagKeys
  BY DEF Keys, NumberKeys, FlagKeys, HelpKeys
<1>4. /\ value'["-o"] = value["-o"] /\ value'["-t"] = value["-t"] /\ value'["dir"] = Arg
      /\ \A flag \in FlagKeys : value'[flag] = value[flag]
  BY <1>0, <1>1, <1>3
<1>5. NumberRead("-o", o, DefaultQuality)'
  BY <1>0, <1>1, <1>2, <1>4 DEF NumberRead, Tracks
<1>6. NumberRead("-t", t, DefaultWorkers)'
  BY <1>0, <1>1, <1>2, <1>4 DEF NumberRead, Tracks
<1>7. \A q : q \in Rest(o, t, p)' /\ q < nextArg' <=> q \in Rest(o, t, d) /\ q < nextArg
  <2>1. Rest(o, t, p)' = DOMAIN argv \ (Taken(o) \cup Taken(t) \cup {p})
    BY <1>0 DEF Rest, Taken
  <2>2. \A q \in DOMAIN argv : q # p /\ q < nextArg' <=> q # d /\ q < nextArg
    BY <1>0
  <2> QED BY <2>1, <2>2 DEF Rest
<1> QED BY <1>0, <1>1, <1>4, <1>5, <1>6, <1>7 DEF Tracks

\* What was read so far goes on having a meaning.
LEMMA SomeFitOn ==
  ASSUME ArgTypes, ReadArg, SomeFit PROVE SomeFit'
<1>0. /\ nextArg \in Nat \ {0} /\ nextArg' = nextArg + 1 /\ argv' = argv /\ nextArg \in DOMAIN argv
      /\ Nobody # "-o" /\ Nobody # "-t" /\ \A q \in DOMAIN argv : q \in Nat \ {0}
  BY ArgRead, LenProperties DEF ArgTypes
<1>1. PICK o \in 0 .. nextArg - 1, t \in 0 .. nextArg - 1, d \in 0 .. nextArg - 1 :
        ReadAt(o, t, d) /\ Tracks(o, t, d)
  BY DEF SomeFit
<1>2. /\ o \in Nat /\ t \in Nat /\ d \in Nat /\ o < nextArg /\ t < nextArg /\ d < nextArg
      /\ Taken(o) \cap Taken(t) = {} /\ d \notin Taken(o) \cup Taken(t)
  BY <1>0, <1>1 DEF ReadAt
<1>p. PICK p \in Nat : p = nextArg
  BY <1>0
<1>3. p \in Nat /\ p \in 0 .. nextArg' - 1 /\ o \in 0 .. nextArg' - 1 /\ t \in 0 .. nextArg' - 1
      /\ d \in 0 .. nextArg' - 1
  BY <1>0, <1>p, <1>2
<1>4. \A a, b, c \in 0 .. nextArg' - 1 : ReadAt(a, b, c)' /\ Tracks(a, b, c)' => SomeFit'
  BY DEF SomeFit
<1>5. CASE TakeNumber
  <2>1. Tracks(o, t, d)' /\ nextArg \in Taken(o) \cup Taken(t)
    BY <1>1, <1>2, <1>5, NumberTracked
  <2>2. Rest(o, t, d)' = Rest(o, t, d) /\ nextArg \notin Rest(o, t, d)
    BY <1>0, <1>p, <2>1 DEF Rest, Taken
  <2>3. \A q \in Rest(o, t, d) : q < nextArg' => q < nextArg
    BY <1>0, <1>p, <2>2 DEF Rest
  <2>4. ReadAt(o, t, d)'
    BY <1>0, <1>p, <1>1, <2>2, <2>3 DEF ReadAt, Taken
  <2> QED BY <1>3, <1>p, <1>4, <2>1, <2>4
<1>6. await = Nobody => (o # 0 => p # o + 1) /\ (t # 0 => p # t + 1)
  BY <1>p, <1>1, <1>2, NotAwaited
<1>7. CASE MatchOption
  <2>0. await = Nobody /\ Arg \in {"-o", "-t"} /\ Arg \notin given /\ Arg = argv[p]
    BY <1>p, <1>7 DEF MatchOption, Matches, NumberKeys, Arg
  <2>1. CASE Arg = "-o"
    <3>1. o = 0
      BY <1>0, <1>p, <1>1, <1>2, <1>6, <2>0, <2>1 DEF Tracks, NumberRead
    <3>2. p # t /\ p # d
      BY <1>0, <1>p, <1>2
    <3>3. Tracks(p, t, d)'
      BY <1>0, <1>p, <1>1, <1>2, <1>3, <1>7, <2>1, <3>1, <3>2, OptionTracked
    <3>4. Taken(p) \cap Taken(t) = {} /\ d \notin Taken(p) \cup Taken(t)
      BY <1>0, <1>p, <1>2, <1>6, <2>0 DEF Taken
    <3>5. \A q : q \in Rest(p, t, d)' /\ q < nextArg' => q \in Rest(o, t, d) /\ q < nextArg
      BY <1>0, <1>p, <3>1 DEF Rest, Taken
    <3>6. ReadAt(p, t, d)'
      BY <1>0, <1>p, <1>1, <2>0, <2>1, <3>4, <3>5 DEF ReadAt, Taken
    <3> QED BY <1>3, <1>p, <1>4, <3>3, <3>6
  <2>2. CASE Arg = "-t"
    <3>1. t = 0
      BY <1>0, <1>p, <1>1, <1>2, <1>6, <2>0, <2>2 DEF Tracks, NumberRead
    <3>2. p # o /\ p # d
      BY <1>0, <1>p, <1>2
    <3>3. Tracks(o, p, d)'
      BY <1>0, <1>p, <1>1, <1>2, <1>3, <1>7, <2>2, <3>1, <3>2, OptionTracked
    <3>4. Taken(o) \cap Taken(p) = {} /\ d \notin Taken(o) \cup Taken(p)
      BY <1>0, <1>p, <1>2, <1>6, <2>0 DEF Taken
    <3>5. \A q : q \in Rest(o, p, d)' /\ q < nextArg' => q \in Rest(o, t, d) /\ q < nextArg
      BY <1>0, <1>p, <3>1 DEF Rest, Taken
    <3>6. ReadAt(o, p, d)'
      BY <1>0, <1>p, <1>1, <2>0, <2>2, <3>4, <3>5 DEF ReadAt, Taken
    <3> QED BY <1>3, <1>p, <1>4, <3>3, <3>6
  <2> QED BY <2>0, <2>1, <2>2
<1>8. CASE MatchFlag
  <2>0. await = Nobody /\ argv[p] \in FlagKeys
    BY <1>p, <1>8 DEF MatchFlag, Arg
  <2>1. nextArg \in Rest(o, t, d)
    BY <1>0, <1>p, <1>2, <1>6, <2>0 DEF Rest, Taken
  <2>2. Tracks(o, t, d)'
    BY <1>1, <1>2, <1>8, <2>1, FlagTracked
  <2>3. \A q : q \in Rest(o, t, d)' /\ q < nextArg' => q \in Rest(o, t, d) /\ (q < nextArg \/ q = p)
    BY <1>0, <1>p DEF Rest, Taken
  <2>4. ReadAt(o, t, d)'
    BY <1>0, <1>p, <1>1, <2>0, <2>3 DEF ReadAt, Taken
  <2> QED BY <1>3, <1>p, <1>4, <2>2, <2>4
<1>9. CASE TakeDirectory
  <2>0. await = Nobody /\ "dir" \notin given
    BY <1>9 DEF TakeDirectory, NoMatch
  <2>1. d = 0
    BY <1>1, <1>2, <2>0 DEF Tracks
  <2>2. p \notin Taken(o) \cup Taken(t)
    BY <1>0, <1>p, <1>2, <1>6, <2>0 DEF Taken
  <2>3. Tracks(o, t, p)'
    BY <1>p, <1>1, <1>2, <1>3, <1>9, <2>1, <2>2, DirectoryTracked
  <2>4. \A q : q \in Rest(o, t, p)' /\ q < nextArg' => q \in Rest(o, t, d) /\ q < nextArg
    BY <1>0, <1>p, <2>1 DEF Rest, Taken
  <2>5. ReadAt(o, t, p)'
    BY <1>0, <1>p, <1>1, <2>2, <2>4 DEF ReadAt, Taken
  <2> QED BY <1>3, <1>p, <1>4, <2>3, <2>5
<1> QED BY <1>5, <1>7, <1>8, <1>9 DEF ReadArg

\* An argument that is not the number of an option, where the command line asks
\* for settings: an option, the directory or a flag.
LEMMA AskedArgument ==
  ASSUME ArgTypes, ReadArg \/ TooMany, await = Nobody, NEW o \in Nat, NEW t \in Nat, NEW d \in Nat,
         Tracks(o, t, d), Asks(o, t, d), Plain(d), nextArg \in DOMAIN argv
  PROVE  /\ o = nextArg <=> Arg = "-o"
         /\ t = nextArg <=> Arg = "-t"
         /\ d = nextArg <=> Arg \notin NumberKeys \cup FlagKeys
         /\ Arg \in FlagKeys <=> nextArg \in Rest(o, t, d)
         /\ Arg \in NumberKeys => Matches
<1>0. nextArg \in Nat \ {0} /\ Arg = argv[nextArg] /\ "-o" \notin FlagKeys /\ "-t" \notin FlagKeys
      /\ NumberKeys = {"-o", "-t"}
  BY LenProperties DEF ArgTypes, Arg, FlagKeys, HelpKeys, NumberKeys
<1>1. (o # 0 => nextArg # o + 1) /\ (t # 0 => nextArg # t + 1)
  BY NotAwaited
<1>2. (o # 0 => argv[o] = "-o") /\ (t # 0 => argv[t] = "-t") /\ argv[d] \notin NumberKeys \cup FlagKeys
      /\ \A q \in Rest(o, t, d) : argv[q] \in FlagKeys
  BY DEF Asks, Plain
<1>3. nextArg = o \/ nextArg = t \/ nextArg = d \/ nextArg \in Rest(o, t, d)
  BY <1>1 DEF Rest, Taken
<1>4. nextArg \in Rest(o, t, d) => nextArg # o /\ nextArg # t /\ nextArg # d
  BY <1>0 DEF Rest, Taken
<1>5. (o = nextArg => "-o" \notin given) /\ (t = nextArg => "-t" \notin given)
  BY <1>0 DEF Tracks, NumberRead
<1> QED BY <1>0, <1>2, <1>3, <1>4, <1>5 DEF Matches

LEMMA AskedFitOn ==
  ASSUME ArgTypes, ReadArg, AskedFit PROVE AskedFit'
<1>0. /\ nextArg \in Nat \ {0} /\ argv' = argv /\ nextArg \in DOMAIN argv
      /\ Len(argv) \in Nat /\ \A q \in DOMAIN argv : q \in Nat \ {0}
  BY ArgRead, LenProperties DEF ArgTypes
<1> SUFFICES ASSUME NEW o \in 0 .. Len(argv), NEW t \in 0 .. Len(argv), NEW d \in DOMAIN argv,
                    Asks(o, t, d), Plain(d)
             PROVE  Tracks(o, t, d)'
  <2>1. \A o, t \in 0 .. Len(argv), d \in DOMAIN argv :
          (Asks(o, t, d)' <=> Asks(o, t, d)) /\ (Plain(d)' <=> Plain(d))
    BY <1>0 DEF Asks, Plain, Rest, Taken, Number
  <2> QED BY <1>0, <2>1 DEF AskedFit
<1>1. Tracks(o, t, d) /\ o \in Nat /\ t \in Nat /\ d \in Nat
  BY <1>0 DEF AskedFit
<1>2. PICK p \in Nat : p = nextArg
  BY <1>0
<1>3. CASE TakeNumber
  BY <1>1, <1>3, NumberTracked DEF Asks
<1>4. CASE MatchOption
  <2>1. await = Nobody /\ Arg \in {"-o", "-t"}
    BY <1>4 DEF MatchOption, Matches, NumberKeys
  <2>2. (o = p <=> Arg = "-o") /\ (t = p <=> Arg = "-t") /\ (d = p <=> Arg \notin NumberKeys \cup FlagKeys)
    BY <1>0, <1>1, <1>2, <2>1, AskedArgument
  <2>3. d # p
    BY <2>1, <2>2 DEF NumberKeys
  <2>6. CASE Arg = "-o"
    <3>1. o = p
      BY <2>2, <2>6
    <3> QED BY <1>1, <1>2, <1>4, <2>2, <2>3, <2>6, <3>1, OptionTracked
  <2>7. CASE Arg = "-t"
    <3>1. t = p
      BY <2>2, <2>7
    <3> QED BY <1>1, <1>2, <1>4, <2>2, <2>3, <2>7, <3>1, OptionTracked
  <2> QED BY <2>1, <2>6, <2>7
<1>5. CASE MatchFlag
  <2>1. await = Nobody /\ Arg \in FlagKeys
    BY <1>5 DEF MatchFlag
  <2> QED BY <1>0, <1>1, <1>5, <2>1, AskedArgument, FlagTracked
<1>6. CASE TakeDirectory
  <2>1. await = Nobody /\ ~Matches /\ Arg \notin FlagKeys
    BY <1>6 DEF TakeDirectory, NoMatch
  <2>2. d = nextArg
    BY <1>0, <1>1, <1>2, <2>1, AskedArgument
  <2>3. d \notin Taken(o) \cup Taken(t)
    BY DEF Asks
  <2> QED BY <1>1, <1>6, <2>2, <2>3, DirectoryTracked
<1> QED BY <1>3, <1>4, <1>5, <1>6 DEF ReadArg

\* What the variables say in the end, if one or the other is in bounds.
LEMMA FitConcluded ==
  ASSUME ArgTypes, AllRead, NEW o \in 0 .. Len(argv), NEW t \in 0 .. Len(argv), NEW d \in DOMAIN argv,
         Tracks(o, t, d), Taken(o) \cup Taken(t) \subseteq DOMAIN argv,
         \/ InBounds(value["-o"], value["-t"])
         \/ InBounds(Number(o, DefaultQuality), Number(t, DefaultWorkers))
  PROVE  /\ value["-o"] = Number(o, DefaultQuality) /\ value["-t"] = Number(t, DefaultWorkers)
         /\ value["dir"] = argv[d] /\ value["dir"] # Nobody
         /\ Settings = Asked(o, t, d)
<1>0. /\ Len(argv) \in Nat /\ nextArg = Len(argv) + 1 /\ DOMAIN argv = 1 .. Len(argv)
      /\ \A q \in DOMAIN argv : argv[q] \in ArgWords
  BY LenProperties DEF ArgTypes, AllRead
<1>1. /\ o # 0 => o + 1 \in DOMAIN argv /\ o + 1 < nextArg
      /\ t # 0 => t + 1 \in DOMAIN argv /\ t + 1 < nextArg
  <2>1. (o # 0 => o + 1 \in DOMAIN argv) /\ (t # 0 => t + 1 \in DOMAIN argv)
    BY DEF Taken
  <2> QED BY <1>0, <2>1
<1>2. MaxWorkers \in Int /\ MaxQuality \in Int /\ MaxWorkers <= MaxQuality
  BY ArgsAssumption DEF MaxQuality
<1>3. value["-o"] \in 1 .. MaxQuality \/ Number(o, DefaultQuality) \in 1 .. MaxQuality
      => value["-o"] = Number(o, DefaultQuality)
  <2>1. CASE o = 0
    BY <2>1 DEF Tracks, NumberRead, Number
  <2>2. CASE o # 0
    <3>1. value["-o"] = Stored(Atoi[argv[o + 1]]) /\ Number(o, DefaultQuality) = Atoi[argv[o + 1]]
      BY <1>1, <2>2 DEF Tracks, NumberRead, Number
    <3> QED BY <1>0, <1>1, <2>2, <3>1, StoredInBounds
  <2> QED BY <2>1, <2>2
<1>4. value["-t"] \in 1 .. MaxQuality \/ Number(t, DefaultWorkers) \in 1 .. MaxQuality
      => value["-t"] = Number(t, DefaultWorkers)
  <2>1. CASE t = 0
    BY <2>1 DEF Tracks, NumberRead, Number
  <2>2. CASE t # 0
    <3>1. value["-t"] = Stored(Atoi[argv[t + 1]]) /\ Number(t, DefaultWorkers) = Atoi[argv[t + 1]]
      BY <1>1, <2>2 DEF Tracks, NumberRead, Number
    <3> QED BY <1>0, <1>1, <2>2, <3>1, StoredInBounds
  <2> QED BY <2>1, <2>2
<1>5. \A n : n \in 1 .. MaxWorkers => n \in 1 .. MaxQuality
  BY <1>2
<1>6. value["-o"] = Number(o, DefaultQuality) /\ value["-t"] = Number(t, DefaultWorkers)
  BY <1>3, <1>4, <1>5 DEF InBounds
<1>7. value["dir"] = argv[d] /\ value["dir"] # Nobody
  <2>1. d # 0 /\ d < nextArg
    BY <1>0
  <2> QED BY <1>0, <2>1, ArgsAssumption DEF Tracks
<1>8. \A flag \in FlagKeys : value[flag] = IF \E p \in Rest(o, t, d) : argv[p] = flag THEN 1 ELSE 0
  <2>1. \A p \in Rest(o, t, d) : p < nextArg
    BY <1>0 DEF Rest
  <2> QED BY <2>1 DEF Tracks
<1>9. "-q" \in FlagKeys /\ "-d" \in FlagKeys
  BY DEF FlagKeys
<1> QED BY <1>6, <1>7, <1>8, <1>9, ItemsRead DEF Settings, Asked

LEMMA InitArgsInv == Init => ArgsInv
<1> SUFFICES ASSUME Init PROVE ArgsInv
  OBVIOUS
<1>1. /\ pc = "main" /\ given = {} /\ await = Nobody /\ value = Default /\ nextArg = 1
      /\ Nobody # "-o" /\ Nobody # "-t"
  BY ArgsAssumption DEF Init, ArgsInit
<1>2. /\ value["-o"] = DefaultQuality /\ value["-t"] = DefaultWorkers /\ value["dir"] = Nobody
      /\ \A flag \in FlagKeys : value[flag] = 0
  BY <1>1 DEF Default, Keys, NumberKeys, FlagKeys, HelpKeys
<1>3. DOMAIN argv \subseteq Nat \ {0}
  BY DEF Init, ArgsInit, CommandLines
<1>4. ASSUME NEW o \in Nat, NEW t \in Nat, NEW d \in Nat PROVE Tracks(o, t, d)
  <2>1. \A p \in Rest(o, t, d) : ~(p < nextArg)
    BY <1>1, <1>3 DEF Rest
  <2>2. d # 0 => ~(d < nextArg)
    BY <1>1
  <2>3. NumberRead("-o", o, DefaultQuality) /\ NumberRead("-t", t, DefaultWorkers)
    BY <1>1, <1>2 DEF NumberRead
  <2> QED BY <1>1, <1>2, <2>1, <2>2, <2>3 DEF Tracks
<1>5. ReadAt(0, 0, 0)
  BY <1>1, <1>3 DEF ReadAt, Taken, Rest
<1>6. Len(argv) \in Nat
  BY InitTypes, TypeParts, LenProperties DEF ArgTypes
<1>7. SomeFit
  BY <1>1, <1>4, <1>5 DEF SomeFit
<1>8. AskedFit
  BY <1>3, <1>4, <1>6 DEF AskedFit
<1> QED BY <1>1, <1>7, <1>8 DEF ArgsInv

LEMMA ArgsSame ==
  ASSUME UNCHANGED argsVars
  PROVE  SomeFit' = SomeFit /\ AskedFit' = AskedFit /\ AllRead' = AllRead /\ TooMany' = TooMany
<1>1. argv' = argv /\ given' = given /\ await' = await /\ value' = value /\ nextArg' = nextArg
  BY DEF argsVars
<1>2. \A o, t, d : ReadAt(o, t, d)' = ReadAt(o, t, d)
  BY <1>1 DEF ReadAt, Rest, Taken
<1>3. \A o, t, d : Tracks(o, t, d)' = Tracks(o, t, d)
  BY <1>1 DEF Tracks, NumberRead, Rest, Taken
<1>4. \A o, t, d : Asks(o, t, d)' = Asks(o, t, d) /\ Plain(d)' = Plain(d)
  BY <1>1 DEF Asks, Rest, Taken, Number, Plain
<1>5. SomeFit' = SomeFit
  BY <1>1, <1>2, <1>3 DEF SomeFit
<1>6. AskedFit' = AskedFit
  BY <1>1, <1>3, <1>4 DEF AskedFit
<1> QED BY <1>1, <1>5, <1>6 DEF AllRead, TooMany, NoMatch, Matches, Arg

LEMMA StepArgsInv ==
  ASSUME TypeOK, PortInv, ArgsInv, [Next]_vars PROVE ArgsInv'
<1>0. ArgTypes
  BY TypeParts
<1>1. CASE UNCHANGED <<argsVars, pc>>
  BY <1>1, ArgsSame DEF ArgsInv
<1>2. CASE ParseArg
  <2>1. pc = "main" /\ pc' = pc /\ ReadArg
    BY <1>2 DEF ParseArg
  <2> QED BY <1>0, <2>1, SomeFitOn, AskedFitOn DEF ArgsInv
<1>3. CASE ArgsParsed
  <2>1. pc = "main" /\ UNCHANGED argsVars /\ (AllRead \/ TooMany)
    BY <1>3 DEF ArgsParsed, runVars
  <2> QED BY <2>1, ArgsSame DEF ArgsInv
<1>4. ASSUME MainStep, ~ParseArg, ~ArgsParsed PROVE pc' \notin {"main", "check"}
  BY <1>4
  DEF MainStep, CheckArgs, InitFails, CreateWorker, CreateFails, HandleFails, StopThose, Scan, ScanFails,
      Send, PostFromMain, TakeReply, AllSent, AwaitReply, AfterSending, Drained, ToDistances, NoMessages,
      NoDistances, ToOrder, NoOrder, Finish, FreeAll, AbortWorker, AllAborted, DestroyWorker, SkipWorker,
      Close, runVars, mainVars
<1>5. UNCHANGED mainVars => UNCHANGED <<argsVars, pc>>
  BY DEF mainVars, runVars, argsVars
<1> QED BY <1>1, <1>2, <1>3, <1>4, <1>5, OthersLeaveMain DEF ArgsInv

\* What the usage text promises follows when the arguments have been read.
LEMMA ReadRightly ==
  ASSUME ArgTypes, SomeFit, AskedFit, AllRead \/ TooMany PROVE ReadAsAsked
<1>0. /\ Len(argv) \in Nat /\ nextArg \in 1 .. Len(argv) + 1 /\ DOMAIN argv = 1 .. Len(argv)
      /\ Nobody # "-o" /\ Nobody # "-t"
  BY ArgsAssumption, LenProperties DEF ArgTypes
<1>1. ASSUME Accepted
      PROVE  \E o, t \in 0 .. Len(argv), d \in DOMAIN argv : Asks(o, t, d) /\ Settings = Asked(o, t, d)
  <2>1. /\ AllRead /\ await = Nobody /\ value["dir"] # Nobody /\ InBounds(value["-o"], value["-t"])
        /\ \A key \in HelpKeys : value[key] = 0
    BY <1>1 DEF Accepted, ArgsOk
  <2>2. nextArg = Len(argv) + 1
    BY <2>1 DEF AllRead
  <2>3. PICK o \in 0 .. nextArg - 1, t \in 0 .. nextArg - 1, d \in 0 .. nextArg - 1 :
          ReadAt(o, t, d) /\ Tracks(o, t, d)
    BY DEF SomeFit
  <2>4. o \in 0 .. Len(argv) /\ t \in 0 .. Len(argv) /\ d \in 0 .. Len(argv)
    BY <1>0, <2>2
  <2>5. d \in DOMAIN argv
    <3>1. d # 0
      BY <2>1, <2>3 DEF Tracks
    <3> QED BY <1>0, <2>4, <3>1
  <2>6. Taken(o) \cup Taken(t) \subseteq DOMAIN argv
    <3>1. (o # 0 => nextArg # o + 1) /\ (t # 0 => nextArg # t + 1)
      BY <1>0, <2>1, <2>3, <2>4, NotAwaited
    <3> QED BY <1>0, <2>2, <2>4, <3>1 DEF Taken
  <2>7. /\ value["-o"] = Number(o, DefaultQuality) /\ value["-t"] = Number(t, DefaultWorkers)
        /\ Settings = Asked(o, t, d)
    BY <2>1, <2>3, <2>4, <2>5, <2>6, FitConcluded
  <2>8. \A p \in Rest(o, t, d) : argv[p] \in FlagKeys \ HelpKeys
    <3>1. \A p \in Rest(o, t, d) : p < nextArg
      BY <1>0, <2>2 DEF Rest
    <3>2. \A p \in Rest(o, t, d) : argv[p] \in FlagKeys
      BY <2>3, <3>1 DEF ReadAt
    <3>3. ASSUME NEW p \in Rest(o, t, d) PROVE value[argv[p]] = 1
      BY <2>3, <3>1, <3>2 DEF Tracks
    <3> QED BY <2>1, <3>2, <3>3
  <2>9. Asks(o, t, d)
    BY <2>1, <2>3, <2>6, <2>7, <2>8 DEF Asks, ReadAt
  <2> QED BY <2>4, <2>5, <2>7, <2>9
<1>2. ASSUME NEW o \in 0 .. Len(argv), NEW t \in 0 .. Len(argv), NEW d \in DOMAIN argv,
             Asks(o, t, d), Plain(d)
      PROVE  Accepted /\ Settings = Asked(o, t, d)
  <2>1. Tracks(o, t, d) /\ o \in Nat /\ t \in Nat /\ d \in Nat \ {0}
    BY <1>0, <1>2 DEF AskedFit
  <2>2. /\ Taken(o) \cup Taken(t) \subseteq DOMAIN argv /\ InBounds(Number(o, DefaultQuality), Number(t, DefaultWorkers))
        /\ \A p \in Rest(o, t, d) : argv[p] \in FlagKeys \ HelpKeys
    BY <1>2 DEF Asks
  <2>3. AllRead
    <3> SUFFICES ASSUME TooMany PROVE FALSE
      OBVIOUS
    <3>1. nextArg \in DOMAIN argv
      BY <1>0 DEF TooMany, AllRead
    <3>2. await = Nobody /\ ~Matches /\ Arg \notin FlagKeys /\ "dir" \in given
      BY DEF TooMany, NoMatch
    <3>3. d = nextArg
      BY <1>2, <2>1, <3>1, <3>2, AskedArgument
    <3> QED BY <1>0, <2>1, <3>2, <3>3 DEF Tracks
  <2>4. nextArg = Len(argv) + 1
    BY <2>3 DEF AllRead
  <2>5. await = Nobody
    <3>1. o # 0 => nextArg # o + 1
      BY <1>0, <2>2, <2>4 DEF Taken
    <3>2. t # 0 => nextArg # t + 1
      BY <1>0, <2>2, <2>4 DEF Taken
    <3> QED BY <2>1, <3>1, <3>2 DEF Tracks, NumberRead, ArgTypes, NumberKeys
  <2>6. /\ value["-o"] = Number(o, DefaultQuality) /\ value["-t"] = Number(t, DefaultWorkers)
        /\ value["dir"] # Nobody /\ Settings = Asked(o, t, d)
    BY <1>2, <2>1, <2>2, <2>3, FitConcluded
  <2>7. \A key \in HelpKeys : value[key] = 0
    <3> TAKE key \in HelpKeys
    <3>1. value[key] = IF \E p \in Rest(o, t, d) : p < nextArg /\ argv[p] = key THEN 1 ELSE 0
      BY <2>1 DEF Tracks, FlagKeys
    <3>2. ~ \E p \in Rest(o, t, d) : argv[p] = key
      BY <2>2
    <3> QED BY <3>1, <3>2
  <2> QED BY <2>2, <2>3, <2>5, <2>6, <2>7, ItemsRead DEF Accepted, ArgsOk
<1> QED BY <1>1, <1>2 DEF ReadAsAsked, Plain

\* What is accepted of the command line was asked for, and what is asked for,
\* with a directory that does not look like an option, is accepted.
THEOREM ArgsReadRight == Spec => []ArgsRight
<1>1. RunInv /\ ArgsInv /\ [Next]_vars => ArgsInv'
  BY StepArgsInv DEF RunInv
<1>2. Spec => []ArgsInv
  BY <1>1, InitArgsInv, RunInvariant, PTL DEF Spec
<1>3. RunInv /\ ArgsInv => ArgsRight
  BY TypeParts, ReadRightly DEF RunInv, ArgsInv, ArgsRight
<1> QED BY <1>2, <1>3, RunInvariant, PTL

-----------------------------------------------------------------------------
(* Nobody waits for ever: what a step does to a single thread.             *)

\* A wait returns what is pending of its mask, and ends the pending of that.
LEMMA WaitGets ==
  ASSUME Sig!TypeOK, NEW t \in Threads, NEW m \in SUBSET T!Signals, Sig!Wait(t, m, FALSE)
  PROVE  /\ \A x \in Threads \ {t} : got'[x] = got[x] /\ sigState'[x] = sigState[x]
                                     /\ mask'[x] = mask[x] /\ sleep'[x] = sleep[x]
         /\ got'[t] = sigState[t] \cap m /\ sigState'[t] = sigState[t] \ m /\ mask'[t] = m
         /\ sleep[t] = "running"
         /\ sleep'[t] = IF sigState[t] \cap m = {} THEN "asleep" ELSE "running"
BY DEF Sig!TypeOK, Sig!Wait, Sig!Turn

LEMMA ResumeGets ==
  ASSUME Sig!TypeOK, NEW t \in Threads, Sig!Resume(t)
  PROVE  /\ \A x \in Threads \ {t} : got'[x] = got[x] /\ sigState'[x] = sigState[x]
                                     /\ mask'[x] = mask[x] /\ sleep'[x] = sleep[x]
         /\ got'[t] = sigState[t] \cap mask[t] /\ sigState'[t] = sigState[t] \ mask[t]
         /\ mask' = mask /\ sleep[t] = "woken"
         /\ sleep'[t] = IF sigState[t] \cap mask[t] = {} THEN "asleep" ELSE "running"
BY DEF Sig!TypeOK, Sig!Resume, Sig!Turn

\* The step in which a thread calls xp_wait.
BeginsWait(t) == IF t = Main THEN AwaitReply \/ T!AwaitDeath ELSE WorkerWait(t) \/ T!AwaitSync(t)

\* In a step a thread waits, or is made, or is at most signalled.
SignalsGrow(t) ==
  /\ sigState[t] \subseteq sigState'[t] /\ mask'[t] = mask[t] /\ got'[t] = got[t]
  /\ sleep'[t] = "running" <=> sleep[t] = "running"

Takes(t, m) ==
  /\ got'[t] = sigState[t] \cap m /\ sigState'[t] = sigState[t] \ m /\ mask'[t] = m
  /\ sleep'[t] = IF sigState[t] \cap m = {} THEN "asleep" ELSE "running"

LEMMA OwnSignals ==
  ASSUME TypeOK, Control, ThreadInv, SleepInv, [Next]_vars, NEW t \in Threads
  PROVE  \/ SignalsGrow(t)
         \/ t \in Workers /\ T!Link(t)
         \/ BeginsWait(t) /\ sleep[t] = "running" /\ \E m \in SUBSET T!Signals : Takes(t, m)
         \/ sleep[t] = "woken" /\ Takes(t, mask[t])
<1> DEFINE Goal == \/ SignalsGrow(t)
                   \/ t \in Workers /\ T!Link(t)
                   \/ BeginsWait(t) /\ sleep[t] = "running" /\ \E m \in SUBSET T!Signals : Takes(t, m)
                   \/ sleep[t] = "woken" /\ Takes(t, mask[t])
<1>0. /\ Sig!TypeOK /\ Main \notin Workers /\ Main \in Threads
      /\ \A w \in Workers : w \in Threads /\ w # Main
      /\ {"SYNC"} \in SUBSET T!Signals /\ {"USER", "UPDATE"} \in SUBSET T!Signals
      /\ {"USER"} \in SUBSET T!Signals /\ {"USER", "ABORT"} \in SUBSET T!Signals
  BY NobodyElse DEF TypeOK, T!TypeOK, T!Sig!TypeOK, T!Threads, T!Signals, Sig!TypeOK, Threads
<1>1. UNCHANGED sigVars => SignalsGrow(t)
  BY DEF sigVars, SignalsGrow
<1>2. ASSUME NEW w \in Workers, T!Link(w) PROVE Goal
  <2>1. sigState' = [sigState EXCEPT ![w] = {}] /\ UNCHANGED <<sleep, mask, got>>
    BY <1>2 DEF T!Link
  <2>2. t # w => sigState'[t] = sigState[t]
    BY <1>0, <2>1 DEF Sig!TypeOK
  <2> QED BY <1>2, <2>1, <2>2 DEF SignalsGrow
<1>3. ASSUME NEW x \in Threads, NEW signals \in SUBSET T!Signals, Sig!Signal(x, signals)
      PROVE  SignalsGrow(t)
  <2>1. /\ sigState' = [sigState EXCEPT ![x] = @ \cup signals] /\ mask' = mask /\ got' = got
        /\ sleep'[t] = "running" <=> sleep[t] = "running"
    BY <1>0, <1>3, SignalEffect
  <2>2. sigState[t] \subseteq sigState'[t]
    BY <1>0, <2>1 DEF Sig!TypeOK
  <2> QED BY <2>1, <2>2 DEF SignalsGrow
<1>4. ASSUME NEW x \in Threads, NEW m \in SUBSET T!Signals, Sig!Wait(x, m, FALSE)
      PROVE  IF x = t THEN sleep[t] = "running" /\ Takes(t, m) ELSE SignalsGrow(t)
  <2>1. CASE x = t
    BY <1>0, <1>4, <2>1, WaitGets DEF Takes
  <2>2. CASE x # t
    <3>1. \A y \in Threads \ {x} : got'[y] = got[y] /\ sigState'[y] = sigState[y]
                                    /\ mask'[y] = mask[y] /\ sleep'[y] = sleep[y]
      BY <1>0, <1>4, WaitGets
    <3> QED BY <2>2, <3>1 DEF SignalsGrow
  <2> QED BY <2>1, <2>2
<1>5. ASSUME NEW x \in Threads, Sig!Resume(x)
      PROVE  IF x = t THEN sleep[t] = "woken" /\ Takes(t, mask[t]) ELSE SignalsGrow(t)
  <2>1. CASE x = t
    BY <1>0, <1>5, <2>1, ResumeGets DEF Takes
  <2>2. CASE x # t
    <3>1. \A y \in Threads \ {x} : got'[y] = got[y] /\ sigState'[y] = sigState[y]
                                    /\ mask'[y] = mask[y] /\ sleep'[y] = sleep[y]
      BY <1>0, <1>5, ResumeGets
    <3> QED BY <2>2, <3>1 DEF SignalsGrow
  <2> QED BY <2>1, <2>2
<1>6. ASSUME NEW x \in Threads, Sig!SpuriousWakeup(x) PROVE SignalsGrow(t)
  <2>1. sleep'[t] = "running" <=> sleep[t] = "running"
    BY <1>0, <1>6 DEF Sig!SpuriousWakeup, Sig!TypeOK
  <2> QED BY <1>6, <2>1 DEF Sig!SpuriousWakeup, SignalsGrow
<1>7. ASSUME AwaitReply PROVE Goal
  <2>1. PICK m \in SUBSET T!Signals : Sig!Wait(Main, m, FALSE)
    BY <1>0, <1>7 DEF AwaitReply
  <2>2. IF Main = t THEN sleep[t] = "running" /\ Takes(t, m) ELSE SignalsGrow(t)
    BY <1>0, <1>4, <2>1
  <2> QED BY <1>7, <2>2 DEF BeginsWait
<1>8. ASSUME T!AwaitDeath PROVE Goal
  <2>1. Sig!Wait(Main, {"SYNC"}, FALSE)
    BY <1>8, SameWait DEF T!AwaitDeath
  <2>2. IF Main = t THEN sleep[t] = "running" /\ Takes(t, {"SYNC"}) ELSE SignalsGrow(t)
    BY <1>0, <1>4, <2>1
  <2> QED BY <1>0, <1>8, <2>2 DEF BeginsWait
<1>9. ASSUME NEW w \in Workers, WorkerWait(w) PROVE Goal
  <2>1. Sig!Wait(w, {"USER", "ABORT"}, FALSE)
    BY <1>9 DEF WorkerWait
  <2>2. IF w = t THEN sleep[t] = "running" /\ Takes(t, {"USER", "ABORT"}) ELSE SignalsGrow(t)
    BY <1>0, <1>4, <2>1
  <2> QED BY <1>0, <1>9, <2>2 DEF BeginsWait
<1>10. ASSUME NEW w \in Workers, T!AwaitSync(w) PROVE Goal
  <2>1. Sig!Wait(w, {"SYNC"}, FALSE)
    BY <1>10, SameWait DEF T!AwaitSync
  <2>2. IF w = t THEN sleep[t] = "running" /\ Takes(t, {"SYNC"}) ELSE SignalsGrow(t)
    BY <1>0, <1>4, <2>1
  <2> QED BY <1>0, <1>10, <2>2 DEF BeginsWait
<1>11. ASSUME NEW x \in Threads, Sig!Resume(x) \/ Sig!SpuriousWakeup(x) PROVE Goal
  <2>1. Sig!Resume(x) => Goal
    BY <1>5
  <2> QED BY <1>6, <1>11, <2>1
<1>12. ASSUME NEW x \in Threads, NEW signals \in SUBSET T!Signals, Sig!Signal(x, signals) PROVE Goal
  BY <1>3, <1>12
<1>13. UNCHANGED sigVars => Goal
  BY <1>1
<1> HIDE DEF Goal
<1>14. Goal
  <2>1. SignalStep
    BY SignalsOneByOne
  <2>2. (\E x \in Threads, signals \in SUBSET T!Signals : Sig!Signal(x, signals)) => Goal
    BY <1>12
  <2>3. (\E x \in Threads : Sig!Resume(x) \/ Sig!SpuriousWakeup(x)) => Goal
    BY <1>11
  <2>4. (\E w \in Workers : T!Link(w)) \/ (\E w \in Workers : WorkerWait(w) \/ T!AwaitSync(w)) => Goal
    BY <1>2, <1>9, <1>10
  <2> QED BY <1>7, <1>8, <1>13, <2>1, <2>2, <2>3, <2>4 DEF SignalStep
<1> QED BY <1>14 DEF Goal

\* What is pending stays so until the thread is made anew, or a wait returns it.
LEMMA PendingUntilTaken ==
  ASSUME TypeOK, Control, ThreadInv, SleepInv, [Next]_vars, NEW t \in Threads,
         NEW signal \in sigState[t]
  PROVE  \/ signal \in sigState'[t]
         \/ t \in Workers /\ T!Link(t)
         \/ /\ signal \in got'[t] /\ signal \in mask'[t] /\ sleep'[t] = "running"
            /\ BeginsWait(t) \/ (sleep[t] # "running" /\ mask'[t] = mask[t])
<1>1. ASSUME NEW m \in SUBSET T!Signals, Takes(t, m)
      PROVE  \/ signal \in sigState'[t]
             \/ signal \in got'[t] /\ signal \in mask'[t] /\ sleep'[t] = "running" /\ mask'[t] = m
  BY <1>1 DEF Takes
<1>2. mask[t] \in SUBSET T!Signals
  BY DEF TypeOK, T!TypeOK, T!Sig!TypeOK, T!Threads, Threads
<1>3. SignalsGrow(t) => signal \in sigState'[t]
  BY DEF SignalsGrow
<1>4. sleep[t] = "woken" => sleep[t] # "running"
  OBVIOUS
<1> QED BY <1>1, <1>2, <1>3, <1>4, OwnSignals

\* A mask is that of the thread's last wait; who sleeps has got nothing.
LEMMA MaskStep ==
  ASSUME TypeOK, Control, ThreadInv, SleepInv, [Next]_vars, NEW t \in Threads
  PROVE  /\ mask'[t] = mask[t] \/ BeginsWait(t)
         /\ sleep[t] = "running" /\ ~BeginsWait(t) => got'[t] = got[t]
         /\ got'[t] = got[t] \/ got'[t] \subseteq sigState[t]
         /\ sleep'[t] # "running" /\ (sleep[t] # "running" => got[t] = {}) => got'[t] = {}
<1>1. ASSUME NEW m, Takes(t, m)
      PROVE  got'[t] \subseteq sigState[t] /\ mask'[t] = m /\ (sleep'[t] # "running" => got'[t] = {})
  BY <1>1 DEF Takes
<1>2. ASSUME t \in Workers, T!Link(t)
      PROVE  mask'[t] = mask[t] /\ got'[t] = got[t] /\ sleep'[t] = sleep[t]
  BY <1>2 DEF T!Link
<1>3. ASSUME t \in Workers, T!Link(t) PROVE sleep[t] = "running"
  BY <1>3 DEF T!Link, ThreadInv, ChildInv
<1>4. SignalsGrow(t) => mask'[t] = mask[t] /\ got'[t] = got[t]
                        /\ (sleep'[t] = "running" <=> sleep[t] = "running")
  BY DEF SignalsGrow
<1> QED BY <1>1, <1>2, <1>3, <1>4, OwnSignals

\* The life of a thread goes one way, and each of its steps is the thread's own,
\* but that it is made and, when it is over, joined.
LEMMA LifeStep ==
  ASSUME TypeOK, ThreadInv, [Next]_vars, NEW w \in Workers
  PROVE  \/ tpc'[w] = tpc[w]
         \/ tpc[w] = "none" /\ tpc'[w] = "entry" /\ T!Spawn /\ subject = w
         \/ tpc[w] = "none" /\ tpc'[w] = "gone" /\ CreateFails /\ subject = w
         \/ tpc[w] = "entry" /\ tpc'[w] = "sync" /\ T!AwaitSync(w)
         \/ tpc[w] = "sync" /\ tpc'[w] = "body" /\ T!Run(w)
         \/ tpc[w] = "body" /\ tpc'[w] = "returned" /\ NoMessage(w)
         \/ tpc[w] = "returned" /\ tpc'[w] = "notify" /\ T!Die(w)
         \/ tpc[w] = "notify" /\ tpc'[w] = "exited" /\ T!Notify(w)
         \/ tpc[w] = "exited" /\ tpc'[w] = "gone" /\ T!Join /\ subject = w
<1> DEFINE Goal == \/ tpc'[w] = tpc[w]
                   \/ tpc[w] = "none" /\ tpc'[w] = "entry" /\ T!Spawn /\ subject = w
                   \/ tpc[w] = "none" /\ tpc'[w] = "gone" /\ CreateFails /\ subject = w
                   \/ tpc[w] = "entry" /\ tpc'[w] = "sync" /\ T!AwaitSync(w)
                   \/ tpc[w] = "sync" /\ tpc'[w] = "body" /\ T!Run(w)
                   \/ tpc[w] = "body" /\ tpc'[w] = "returned" /\ NoMessage(w)
                   \/ tpc[w] = "returned" /\ tpc'[w] = "notify" /\ T!Die(w)
                   \/ tpc[w] = "notify" /\ tpc'[w] = "exited" /\ T!Notify(w)
                   \/ tpc[w] = "exited" /\ tpc'[w] = "gone" /\ T!Join /\ subject = w
<1>0. tpc \in [Workers -> {"none", "entry", "sync", "body", "ending",
                           "returned", "notify", "exited", "gone"}]
  BY DEF TypeOK, T!TypeOK
<1>1. UNCHANGED threadVars => Goal
  BY DEF threadVars
<1>2. ASSUME NEW v \in Workers, T!Link(v) \/ T!Abort(v) PROVE Goal
  BY <1>2 DEF T!Link, T!Abort
<1>3. ASSUME NEW v \in Workers, T!AwaitSync(v) PROVE Goal
  <2>1. tpc[v] = "entry" /\ tpc' = [tpc EXCEPT ![v] = "sync"]
    BY <1>3 DEF T!AwaitSync
  <2> QED BY <1>0, <1>3, <2>1
<1>4. ASSUME NEW v \in Workers, T!Run(v) PROVE Goal
  <2>1. tpc[v] = "sync" /\ tpc' = [tpc EXCEPT ![v] = "body"]
    BY <1>4 DEF T!Run
  <2> QED BY <1>0, <1>4, <2>1
<1>5. ASSUME NEW v \in Workers, NoMessage(v) PROVE Goal
  <2>1. tpc[v] = "body" /\ (tpc' = [tpc EXCEPT ![v] = "returned"] \/ tpc' = tpc)
    BY <1>5 DEF NoMessage, In
  <2> QED BY <1>0, <1>5, <2>1
<1>6. ASSUME NEW v \in Workers, T!Die(v) PROVE Goal
  <2>1. tpc[v] = "returned" /\ tpc' = [tpc EXCEPT ![v] = "notify"]
    BY <1>6 DEF T!Die
  <2> QED BY <1>0, <1>6, <2>1
<1>7. ASSUME NEW v \in Workers, T!Notify(v) PROVE Goal
  <2>1. tpc[v] = "notify" /\ tpc' = [tpc EXCEPT ![v] = "exited"]
    BY <1>7 DEF T!Notify
  <2> QED BY <1>0, <1>7, <2>1
<1>8. T!Spawn => Goal
  <2>1. T!Spawn => tpc[subject] = "none" /\ tpc' = [tpc EXCEPT ![subject] = "entry"]
    BY DEF T!Spawn, ThreadInv
  <2> QED BY <1>0, <2>1
<1>9. CreateFails => Goal
  <2>1. CreateFails => tpc[subject] = "none" /\ tpc' = [tpc EXCEPT ![subject] = "gone"]
    BY DEF CreateFails, T!SpawnFails, ThreadInv
  <2> QED BY <1>0, <2>1
<1>10. T!Join => Goal
  <2>1. T!Join => tpc[subject] = "exited" /\ tpc' = [tpc EXCEPT ![subject] = "gone"]
    BY DEF T!Join
  <2> QED BY <1>0, <2>1
<1>11. T!AdoptThenKick \/ T!ScanFinds \/ T!ScanFindsNot \/ T!AwaitDeath \/ T!Close => Goal
  BY DEF T!AdoptThenKick, T!ScanFinds, T!ScanFindsNot, T!AwaitDeath, T!Close
<1> HIDE DEF Goal
<1>12. ThreadStep => Goal
  BY <1>2, <1>3, <1>4, <1>5, <1>6, <1>7, <1>8, <1>9, <1>10, <1>11 DEF ThreadStep
<1>13. Goal
  BY <1>1, <1>12, ThreadsElsewhere
<1> QED BY <1>13 DEF Goal

\* And where a worker is in its function only it itself changes: to wait again it
\* goes when it was not told to abort.
LEMMA PlaceStep ==
  ASSUME TypeOK, [Next]_vars, NEW w \in Workers, wpc'[w] # wpc[w]
  PROVE  /\ tpc[w] = "body" /\ tpc'[w] = "body"
         /\ WorkerWait(w) \/ wpc[w] # "wait"
         /\ wpc'[w] = "wait" => "ABORT" \notin got[w]
<1>0. wpc \in [Workers -> {"wait", "drain", "handle", "reply", "post"}]
  BY DEF TypeOK
<1>1. wpc' # wpc
  OBVIOUS
<1>2. PICK v \in Workers : \/ WorkerWait(v) \/ TakeMessage(v) \/ NoMessage(v) \/ Handle(v)
                           \/ WorkerReply(v) \/ WorkerPost(v)
  BY <1>1, MessagesElsewhere DEF MessageStep, Send, PostFromMain, TakeReply, workerVars
<1>3. v = w
  BY <1>0, <1>2 DEF WorkerWait, TakeMessage, NoMessage, Handle, WorkerReply, WorkerPost, NextMessage, Goto
<1>4. tpc[w] = "body" /\ tpc' = tpc
  BY <1>2, <1>3 DEF WorkerWait, TakeMessage, NoMessage, Handle, WorkerReply, WorkerPost, In, threadVars
<1>5. WorkerWait(w) \/ wpc[w] # "wait"
  BY <1>2, <1>3 DEF TakeMessage, NoMessage, Handle, WorkerReply, WorkerPost, In
<1>6. wpc'[w] = "wait" => "ABORT" \notin got[w]
  BY <1>0, <1>2, <1>3
  DEF WorkerWait, TakeMessage, NoMessage, Handle, WorkerReply, WorkerPost, NextMessage, Goto
<1> QED BY <1>4, <1>5, <1>6

\* Only binsort_freeworkers sends ABORT.
LEMMA AbortSent ==
  ASSUME TypeOK, Control, ThreadInv, [Next]_vars, NEW t \in Threads,
         "ABORT" \in sigState'[t], "ABORT" \notin sigState[t]
  PROVE  AbortWorker \/ DestroyWorker
<1>0. /\ Sig!TypeOK /\ \A w \in Workers : w \in Threads
      /\ {"SYNC"} \in SUBSET T!Signals /\ {"USER"} \in SUBSET T!Signals
      /\ {"UPDATE"} \in SUBSET T!Signals
      /\ "ABORT" \notin {"SYNC"} /\ "ABORT" \notin {"USER"} /\ "ABORT" \notin {"UPDATE"}
  BY DEF TypeOK, T!TypeOK, T!Sig!TypeOK, T!Threads, T!Signals, Sig!TypeOK, Threads
<1>1. ASSUME NEW x \in Threads, NEW signals \in SUBSET T!Signals, "ABORT" \notin signals,
             Sig!Signal(x, signals)
      PROVE  FALSE
  <2>1. sigState' = [sigState EXCEPT ![x] = @ \cup signals]
    BY <1>0, <1>1, SignalEffect
  <2>2. sigState'[t] \subseteq sigState[t] \cup signals
    BY <1>0, <2>1 DEF Sig!TypeOK
  <2> QED BY <1>1, <2>2
<1>2. ASSUME NEW x \in Threads, Sig!Resume(x) PROVE FALSE
  BY <1>0, <1>2, ResumeEffect
<1>3. ASSUME NEW x \in Threads, Sig!SpuriousWakeup(x) PROVE FALSE
  BY <1>3 DEF Sig!SpuriousWakeup
<1>4. ASSUME NEW x \in Threads, NEW m, Sig!Wait(x, m, FALSE) PROVE FALSE
  BY <1>0, <1>4 DEF Sig!Wait, Sig!Turn, Sig!TypeOK
<1>5. UNCHANGED sigVars => FALSE
  BY DEF sigVars
<1>6. CreateWorker => FALSE
  <2>1. ASSUME NEW w \in Workers, T!Link(w) PROVE FALSE
    BY <1>0, <2>1 DEF T!Link, Sig!TypeOK
  <2>2. T!Spawn => FALSE
    BY <1>5 DEF T!Spawn, T!sigVars, sigVars
  <2>3. T!AdoptThenKick => FALSE
    <3>1. mpc = "kick" => subject \in Threads
      BY <1>0 DEF ThreadInv, TypeOK, T!TypeOK
    <3> QED BY <1>0, <1>1, <1>5, <3>1, SameSignal DEF T!AdoptThenKick, T!sigVars, sigVars
  <2> QED BY <2>1, <2>2, <2>3, NextWorker DEF CreateWorker
<1>7. PostFromMain => FALSE
  <2>1. ASSUME PostFromMain PROVE posting[Main] \in Threads /\ Sig!Signal(posting[Main], {"USER"})
    BY <2>1, SameSignal DEF PostFromMain, P!Post, TypeOK, Threads
  <2> QED BY <1>0, <1>1, <2>1
<1>8. AwaitReply => FALSE
  BY <1>4 DEF AwaitReply, Threads
<1>9. ASSUME NEW w \in Workers, WorkerWait(w) \/ WorkerPost(w) \/ ReportProgress(w) PROVE FALSE
  <2>1. ~WorkerWait(w)
    BY <1>0, <1>4 DEF WorkerWait
  <2>2. ASSUME WorkerPost(w) PROVE posting[w] \in Threads /\ Sig!Signal(posting[w], {"USER"})
    BY <2>2, SameSignal DEF WorkerPost, P!Post, TypeOK, Threads
  <2>3. Main \in Threads
    BY DEF Threads
  <2>4. ~ReportProgress(w)
    BY <1>0, <1>1, <2>3 DEF ReportProgress
  <2> QED BY <1>0, <1>1, <1>9, <2>1, <2>2, <2>4
<1>10. ASSUME NEW w \in Workers, TakeMessage(w) \/ NoMessage(w) \/ Handle(w) \/ WorkerReply(w)
       PROVE  FALSE
  BY <1>5, <1>10 DEF TakeMessage, NoMessage, Handle, WorkerReply
<1>11. ASSUME NEW w \in Workers, ThreadEntry(w) PROVE FALSE
  <2>1. ~T!AwaitSync(w)
    BY <1>0, <1>4, SameWait DEF T!AwaitSync
  <2>2. ~T!Run(w) /\ ~T!Die(w)
    BY <1>5 DEF T!Run, T!Die, T!sigVars, sigVars
  <2>3. ASSUME T!Notify(w) PROVE Main \in Threads /\ Sig!Signal(Main, {"SYNC"})
    BY <2>3, SameSignal DEF T!Notify, ThreadInv, T!HandlesLive, Threads
  <2> QED BY <1>0, <1>1, <1>11, <2>1, <2>2, <2>3 DEF ThreadEntry
<1>12. ASSUME NEW x \in Threads, Resume(x) \/ Spurious(x) PROVE FALSE
  BY <1>2, <1>3, <1>12, SameWait DEF Resume, Spurious, T!Resume, T!Spurious
<1>13. \/ ParseArg \/ ArgsParsed \/ CheckArgs \/ InitFails \/ CreateFails \/ HandleFails \/ Scan
       \/ ScanFails \/ Send \/ AllSent \/ TakeReply \/ Drained \/ Close
       => FALSE
  BY <1>5
  DEF ParseArg, ArgsParsed, CheckArgs, InitFails, CreateFails, T!SpawnFails, T!sigVars, HandleFails,
      StopThose, Scan, ScanFails, Send, AllSent, TakeReply, Drained, Close, T!Close, sigVars
<1>14. \/ ToDistances \/ NoMessages \/ NoDistances \/ ToOrder \/ NoOrder \/ Finish \/ FreeAll
       \/ AllAborted \/ SkipWorker \/ Terminated \/ UNCHANGED vars
       => FALSE
  BY <1>5
  DEF ToDistances, NoMessages, NoDistances, ToOrder, NoOrder, Finish, FreeAll, AllAborted, SkipWorker,
      Terminated, vars
<1>15. (\E w \in Workers : WorkerStep(w) \/ ReportProgress(w)) => FALSE
  BY <1>9, <1>10, <1>11 DEF WorkerStep
<1>16. (\E x \in Threads : Resume(x) \/ Spurious(x)) => FALSE
  BY <1>12
<1> QED BY <1>6, <1>7, <1>8, <1>13, <1>14, <1>15, <1>16 DEF Next, MainStep

-----------------------------------------------------------------------------
(* Nobody waits for ever: the handles and the lives of the threads.       *)

\* Which handles there are, by where the main thread is: while it stops the workers,
\* none of those it is through with.
HandlesInv ==
  /\ handles \subseteq 1 .. numWorkers
  /\ pc \in {"main", "check"} => handles = {}
  /\ pc = "create" => handles = 1 .. count /\ (mpc # "idle" => subject = count)
  /\ pc \in {"send", "wait", "drain", "next", "end"} => handles = 1 .. numWorkers
  /\ pc = "abort" => count <= numWorkers
  /\ pc = "destroy" => /\ count <= numWorkers
                       /\ \A w \in handles : count < w \/ (mpc # "idle" /\ subject = w)

\* A handle is that of a thread, unless it is just being made, and on the list of
\* tasks, unless the thread is being joined; nobody has a reference to a thread,
\* and one that is about to exit is dead.
LifeInv(w) ==
  /\ w \in handles => tpc[w] # "gone"
  /\ w \in handles /\ tpc[w] = "none" => mpc = "spawn" /\ subject = w
  /\ w \in handles => w \in tasks \/ (mpc = "join" /\ subject = w)
  /\ refs[w] = 0
  /\ tpc[w] \in {"notify", "exited"} => status[w] = "dead"

LEMMA StepHandlesInv ==
  ASSUME TypeOK, Control, ThreadInv, PortInv, HandlesInv, [Next]_vars
  PROVE  HandlesInv'
<1>0. /\ count \in Nat /\ numWorkers \in 0 .. MaxWorkers /\ MaxWorkers \in Nat
      /\ handles \subseteq Workers /\ Workers = 1 .. MaxWorkers
  BY SomeWorkers DEF TypeOK, T!TypeOK
<1>1. CASE UNCHANGED <<mainVars, mpc, subject>> /\ ~MainStep
  <2>1. handles' = handles
    <3>1. ASSUME NEW w \in Workers, WorkerStep(w) \/ ReportProgress(w) PROVE handles' = handles
      BY <3>1 DEF WorkerStep, ThreadEntry, T!AwaitSync, T!Run, T!Die, T!Notify, T!listVars, WorkerWait,
                  TakeMessage, NoMessage, Handle, WorkerReply, WorkerPost, ReportProgress, threadVars
    <3>2. ASSUME NEW t \in Threads, Resume(t) \/ Spurious(t) PROVE handles' = handles
      BY <3>2 DEF Resume, Spurious, T!Resume, T!Spurious, T!listVars
    <3>3. Terminated \/ UNCHANGED vars => handles' = handles
      BY DEF Terminated, vars, threadVars
    <3> QED BY <1>1, <3>1, <3>2, <3>3 DEF Next
  <2> QED BY <1>1, <2>1 DEF HandlesInv, mainVars, runVars
<1>2. CASE ParseArg \/ ArgsParsed \/ InitFails \/ Send \/ AllSent \/ AwaitReply
  BY <1>2 DEF ParseArg, ArgsParsed, InitFails, Send, AllSent, AfterSending, AwaitReply, HandlesInv,
              Control, threadVars, runVars
<1>3. CASE PostFromMain \/ TakeReply \/ Drained \/ ToDistances \/ NoMessages \/ NoDistances \/ ToOrder
           \/ NoOrder \/ Finish
  BY <1>3 DEF PostFromMain, TakeReply, Drained, ToDistances, NoMessages, NoDistances, ToOrder, NoOrder,
              Finish, HandlesInv, threadVars, runVars, mainVars
<1>4. CASE CheckArgs
  <2>1. handles = {} /\ handles' = {} /\ pc' \in {"create", "closed"} /\ count = 0 /\ count' = 0
        /\ mpc' = mpc /\ (pc' = "create" => mpc = "idle")
    BY <1>4 DEF CheckArgs, HandlesInv, Control, threadVars, ThreadInv, TypeOK, T!TypeOK
  <2>2. handles' = 1 .. count'
    BY <2>1
  <2> QED BY <2>1, <2>2 DEF HandlesInv
<1>5. CASE CreateWorker
  <2>1. CASE count < numWorkers /\ T!Link(count + 1) /\ count' = count + 1
    <3>1. /\ handles' = handles \cup {count + 1} /\ subject' = count + 1
          /\ pc' = pc /\ pc = "create" /\ numWorkers' = numWorkers
      BY <1>5, <2>1 DEF CreateWorker, T!Link, runVars
    <3>2. handles' = 1 .. count'
      BY <1>0, <2>1, <3>1 DEF HandlesInv
    <3>3. handles' \subseteq 1 .. numWorkers'
      BY <1>0, <2>1, <3>1, <3>2
    <3> QED BY <2>1, <3>1, <3>2, <3>3 DEF HandlesInv
  <2>2. CASE (T!Spawn \/ T!AdoptThenKick) /\ UNCHANGED count
    <3>1. /\ handles' = handles /\ subject' = subject /\ mpc # "idle" /\ count' = count
          /\ pc' = pc /\ pc = "create" /\ numWorkers' = numWorkers
      BY <1>5, <2>2 DEF CreateWorker, T!Spawn, T!AdoptThenKick, T!listVars, runVars
    <3> QED BY <3>1 DEF HandlesInv
  <2> QED BY <1>5, <2>1, <2>2 DEF CreateWorker
<1>6. CASE CreateFails \/ HandleFails
  <2>1. handles' \subseteq handles /\ pc' \in {"abort", "crashed"} /\ numWorkers' = numWorkers
        /\ count' = 0
    BY <1>6 DEF CreateFails, T!SpawnFails, HandleFails, StopThose, threadVars
  <2> QED BY <1>0, <2>1 DEF HandlesInv
<1>7. CASE Scan \/ ScanFails \/ FreeAll
  BY <1>0, <1>7 DEF Scan, ScanFails, FreeAll, HandlesInv, threadVars, runVars
<1>8. CASE AbortWorker
  <2>1. /\ handles' = handles /\ pc' = pc /\ pc = "abort" /\ numWorkers' = numWorkers
        /\ count < numWorkers /\ count' = count + 1
    BY <1>8 DEF AbortWorker, threadVars, runVars
  <2> QED BY <1>0, <2>1 DEF HandlesInv
<1>9. CASE AllAborted
  <2>1. /\ handles' = handles /\ pc' = "destroy" /\ numWorkers' = numWorkers /\ count' = 0
    BY <1>9 DEF AllAborted, threadVars, runVars
  <2>2. \A w \in handles : count' < w
    BY <1>0, <2>1
  <2> QED BY <1>0, <2>1, <2>2 DEF HandlesInv
<1>10. CASE DestroyWorker
  <2>0. pc = "destroy" /\ pc' = pc /\ numWorkers' = numWorkers
    BY <1>10 DEF DestroyWorker, runVars
  <2>1. CASE count < numWorkers /\ T!Abort(count + 1) /\ count' = count + 1
    <3>1. /\ handles' = handles /\ subject' = count + 1 /\ mpc = "idle" /\ mpc' = "scan"
      BY <2>1 DEF T!Abort, T!listVars
    <3>2. \A w \in handles : count < w
      BY <2>0, <3>1 DEF HandlesInv
    <3>3. \A w \in handles : count' < w \/ subject' = w
      BY <1>0, <2>1, <3>1, <3>2
    <3>4. count' <= numWorkers'
      BY <1>0, <2>0, <2>1
    <3> QED BY <2>0, <3>1, <3>3, <3>4 DEF HandlesInv
  <2>2. CASE (T!ScanFinds \/ T!ScanFindsNot \/ T!AwaitDeath) /\ UNCHANGED count
    <3>1. handles' = handles /\ subject' = subject /\ mpc' # "idle" /\ count' = count
      BY <2>2 DEF T!ScanFinds, T!ScanFindsNot, T!AwaitDeath, T!listVars
    <3> QED BY <2>0, <3>1 DEF HandlesInv
  <2>3. CASE T!Join /\ UNCHANGED count
    <3>1. handles' = handles \ {subject} /\ subject' = subject /\ count' = count
      BY <2>3 DEF T!Join
    <3> QED BY <2>0, <3>1 DEF HandlesInv
  <2> QED BY <1>10, <2>1, <2>2, <2>3 DEF DestroyWorker
<1>11. CASE SkipWorker
  <2>1. /\ handles' = handles /\ pc = "destroy" /\ pc' = pc /\ mpc = "idle" /\ numWorkers' = numWorkers
        /\ count < numWorkers /\ count + 1 \notin handles /\ count' = count + 1
    BY <1>11 DEF SkipWorker, threadVars, runVars
  <2>2. \A w \in handles : count < w /\ w # count + 1
    BY <2>1 DEF HandlesInv
  <2>3. \A w \in handles : count' < w
    BY <1>0, <2>1, <2>2
  <2> QED BY <1>0, <2>1, <2>3 DEF HandlesInv
<1>12. CASE Close
  BY <1>12 DEF Close, T!Close, T!listVars, HandlesInv, runVars
<1>13. UNCHANGED <<mainVars, mpc, subject>> \/ MainStep
  BY OthersLeaveMain
<1> QED BY <1>1, <1>2, <1>3, <1>4, <1>5, <1>6, <1>7, <1>8, <1>9, <1>10, <1>11, <1>12, <1>13 DEF MainStep

LEMMA StepLifeInv ==
  ASSUME TypeOK, Control, ThreadInv, [Next]_vars, NEW w \in Workers, LifeInv(w)
  PROVE  LifeInv(w)'
<1> DEFINE Goal == LifeInv(w)'
<1>0. /\ tpc \in [Workers -> {"none", "entry", "sync", "body", "ending",
                              "returned", "notify", "exited", "gone"}]
      /\ refs \in [Workers -> Nat] /\ status \in [Workers -> {"init", "run", "dead"}]
      /\ mpc \in {"spawn", "adopt", "kick", "scan", "wait", "join"} => subject \in Workers
  BY DEF TypeOK, T!TypeOK, ThreadInv
<1>1. UNCHANGED threadVars => Goal
  BY DEF threadVars, LifeInv
<1>2. ASSUME NEW v \in Workers, T!Link(v) PROVE Goal
  BY <1>0, <1>2 DEF T!Link, LifeInv
<1>3. ASSUME NEW v \in Workers, T!Abort(v) PROVE Goal
  BY <1>3 DEF T!Abort, T!listVars, LifeInv
<1>4. ASSUME NEW v \in Workers, NoMessage(v) \/ T!AwaitSync(v) \/ T!Notify(v) PROVE Goal
  BY <1>0, <1>4 DEF NoMessage, In, T!AwaitSync, T!Notify, T!listVars, LifeInv
<1>5. ASSUME NEW v \in Workers, T!Run(v) \/ T!Die(v) PROVE Goal
  BY <1>0, <1>5 DEF T!Run, T!Die, LifeInv
<1>6. T!Spawn => Goal
  BY <1>0 DEF T!Spawn, T!listVars, LifeInv, ThreadInv
<1>7. CreateFails => Goal
  BY <1>0 DEF CreateFails, T!SpawnFails, LifeInv, ThreadInv
<1>8. T!AdoptThenKick => Goal
  BY DEF T!AdoptThenKick, T!listVars, LifeInv
<1>9. T!ScanFinds => Goal
  BY DEF T!ScanFinds, T!Unlist, LifeInv
<1>10. T!ScanFindsNot \/ T!AwaitDeath \/ T!Close => Goal
  BY DEF T!ScanFindsNot, T!AwaitDeath, T!Close, T!listVars, LifeInv
<1>11. T!Join => Goal
  BY <1>0 DEF T!Join, LifeInv
<1> HIDE DEF Goal
<1>12. ThreadStep => Goal
  BY <1>2, <1>3, <1>4, <1>5, <1>6, <1>7, <1>8, <1>9, <1>10, <1>11 DEF ThreadStep
<1>13. Goal
  BY <1>1, <1>12, ThreadsElsewhere
<1> QED BY <1>13 DEF Goal

-----------------------------------------------------------------------------
(* Nobody waits for ever: what the workers are told.                      *)

\* A thread that awaits SYNC to begin will get it, or has it.
KickInv(w) ==
  tpc[w] \in {"entry", "sync"} =>
    \/ mpc \in {"adopt", "kick"} /\ subject = w
    \/ "SYNC" \in sigState[w]
    \/ tpc[w] = "sync" /\ sleep[w] = "running"

\* A worker waits where its function begins for messages and to be told to abort, and
\* has got nothing while it sleeps; before binsort_freeworkers it is not told to.
PlaceInv(w) ==
  /\ tpc[w] \in {"none", "entry", "sync"} => wpc[w] = "wait"
  /\ tpc[w] = "body" /\ wpc[w] # "wait" => mask[w] = {"USER", "ABORT"}
  /\ sleep[w] # "running" => got[w] = {}
  /\ pc \notin {"abort", "destroy", "closed", "crashed"} =>
       "ABORT" \notin sigState[w] \cup got[w] /\ tpc[w] \notin {"returned", "notify", "exited", "gone"}

\* That it is told stays, until it is over.
ToldToAbort(w) ==
  \/ "ABORT" \in sigState[w]
  \/ tpc[w] = "body" /\ wpc[w] # "wait" /\ "ABORT" \in got[w]
  \/ tpc[w] \in {"returned", "notify", "exited"}

LEMMA StepKickInv ==
  ASSUME TypeOK, Control, ThreadInv, SleepInv, PortInv, [Next]_vars, NEW w \in Workers, KickInv(w)
  PROVE  KickInv(w)'
<1> SUFFICES ASSUME tpc'[w] \in {"entry", "sync"}
             PROVE  \/ mpc' \in {"adopt", "kick"} /\ subject' = w
                    \/ "SYNC" \in sigState'[w]
                    \/ tpc'[w] = "sync" /\ sleep'[w] = "running"
  BY DEF KickInv
<1>0. w \in Threads /\ w # Main /\ Sig!TypeOK
  BY NobodyElse DEF TypeOK, T!TypeOK, T!Sig!TypeOK, T!Threads, T!Signals, Sig!TypeOK, Threads
<1>1. CASE T!Spawn /\ subject = w
  BY <1>1 DEF T!Spawn
<1>2. CASE tpc[w] \in {"entry", "sync"} /\ mpc \in {"adopt", "kick"} /\ subject = w
  <2>1. CASE T!AdoptThenKick
    <3>1. mpc = "kick" => "SYNC" \in sigState'[w]
      <4>1. mpc = "kick" => Sig!Signal(w, {"SYNC"})
        BY <1>2, <2>1, SameSignal DEF T!AdoptThenKick
      <4>2. {"SYNC"} \in SUBSET T!Signals
        BY DEF T!Signals
      <4>3. mpc = "kick" => sigState' = [sigState EXCEPT ![w] = @ \cup {"SYNC"}]
        BY <1>0, <4>1, <4>2, SignalEffect
      <4> QED BY <1>0, <4>3 DEF Sig!TypeOK
    <3>2. mpc = "adopt" => mpc' = "kick" /\ subject' = w
      BY <1>2, <2>1 DEF T!AdoptThenKick
    <3> QED BY <1>2, <3>1, <3>2
  <2>2. CASE UNCHANGED <<mpc, subject>>
    BY <1>2, <2>2
  <2>3. T!AdoptThenKick \/ UNCHANGED <<mpc, subject>>
    <3>1. pc = "create"
      BY <1>2 DEF Control
    <3>2. CASE MainStep
      BY <1>2, <3>1, <3>2
      DEF MainStep, ParseArg, ArgsParsed, CheckArgs, InitFails, CreateWorker, CreateFails,
          HandleFails, Scan, ScanFails, Send, PostFromMain, TakeReply, AllSent, AwaitReply, Drained,
          ToDistances, NoMessages, NoDistances, ToOrder, NoOrder, Finish, FreeAll, AbortWorker,
          AllAborted, DestroyWorker, SkipWorker, Close, T!Link, T!Spawn, T!SpawnFails
    <3> QED BY <3>2, OthersLeaveMain
  <2> QED BY <2>1, <2>2, <2>3
<1>3. CASE tpc[w] \in {"entry", "sync"} /\ "SYNC" \in sigState[w]
  <2>1. ~T!Link(w)
    BY <1>3 DEF T!Link
  <2>2. ASSUME BeginsWait(w) \/ sleep[w] # "running" PROVE tpc'[w] = "sync"
    <3>1. CASE sleep[w] # "running"
      BY <1>3, <3>1, WorkerAsleep DEF SleepInv
    <3>2. ~WorkerWait(w)
      BY <1>3 DEF WorkerWait, In
    <3>3. T!AwaitSync(w) => tpc'[w] = "sync"
      BY DEF T!AwaitSync, TypeOK, T!TypeOK
    <3> QED BY <1>0, <2>2, <3>1, <3>2, <3>3 DEF BeginsWait
  <2> QED BY <1>0, <1>3, <2>1, <2>2, PendingUntilTaken
<1>4. CASE tpc[w] = "sync" /\ sleep[w] = "running"
  <2>1. ~WorkerWait(w) /\ ~T!AwaitSync(w)
    BY <1>4 DEF WorkerWait, In, T!AwaitSync
  <2>2. sleep'[w] = "running"
    BY <1>0, <1>4, <2>1, AsleepSame
  <2>3. tpc'[w] = "sync"
    BY <1>4, LifeStep
  <2> QED BY <2>2, <2>3
<1>5. tpc[w] \in {"entry", "sync"} \/ (T!Spawn /\ subject = w)
  BY LifeStep
<1> QED BY <1>1, <1>2, <1>3, <1>4, <1>5 DEF KickInv

LEMMA WaitsFor ==
  ASSUME TypeOK, NEW w \in Workers
  PROVE  /\ WorkerWait(w) => mask'[w] = {"USER", "ABORT"} /\ tpc'[w] = "body" /\ wpc'[w] = "drain"
         /\ T!AwaitSync(w) => mask'[w] = {"SYNC"} /\ tpc[w] = "entry"
<1>0. /\ w \in Threads /\ Sig!TypeOK
      /\ {"USER", "ABORT"} \in SUBSET T!Signals /\ {"SYNC"} \in SUBSET T!Signals
  BY DEF TypeOK, T!TypeOK, T!Sig!TypeOK, T!Threads, T!Signals, Sig!TypeOK, Threads
<1>w. ASSUME NEW m \in SUBSET T!Signals, Sig!Wait(w, m, FALSE) PROVE mask'[w] = m
  BY <1>0, <1>w DEF Sig!TypeOK, Sig!Wait
<1>1. ASSUME WorkerWait(w)
      PROVE  mask'[w] = {"USER", "ABORT"} /\ tpc'[w] = "body" /\ wpc'[w] = "drain"
  <2>1. mask'[w] = {"USER", "ABORT"}
    <3>1. Sig!Wait(w, {"USER", "ABORT"}, FALSE)
      BY <1>1 DEF WorkerWait
    <3> QED BY <1>0, <1>w, <3>1
  <2>2. tpc'[w] = "body" /\ wpc'[w] = "drain"
    BY <1>1 DEF WorkerWait, In, Goto, threadVars, TypeOK
  <2> QED BY <2>1, <2>2
<1>2. ASSUME T!AwaitSync(w) PROVE mask'[w] = {"SYNC"} /\ tpc[w] = "entry"
  <2>1. Sig!Wait(w, {"SYNC"}, FALSE)
    BY <1>2, SameWait DEF T!AwaitSync
  <2>2. mask'[w] = {"SYNC"}
    BY <1>0, <1>w, <2>1
  <2> QED BY <1>2, <2>2 DEF T!AwaitSync
<1> QED BY <1>1, <1>2

LEMMA StepPlaceInv ==
  ASSUME TypeOK, Control, ThreadInv, SleepInv, PortInv, [Next]_vars, NEW w \in Workers, PlaceInv(w)
  PROVE  PlaceInv(w)'
<1>0. w \in Threads /\ w # Main
  BY NobodyElse DEF Threads
<1>1. tpc'[w] \in {"none", "entry", "sync"} => wpc'[w] = "wait"
  <2>1. ASSUME tpc'[w] \in {"none", "entry", "sync"} PROVE tpc[w] \in {"none", "entry", "sync"}
    BY <2>1, LifeStep
  <2>2. tpc[w] \in {"none", "entry", "sync"} => wpc'[w] = wpc[w]
    BY PlaceStep
  <2> QED BY <2>1, <2>2 DEF PlaceInv
<1>2. ASSUME tpc'[w] = "body", wpc'[w] # "wait" PROVE mask'[w] = {"USER", "ABORT"}
  <2>1. CASE WorkerWait(w)
    BY <2>1, WaitsFor
  <2>2. CASE ~WorkerWait(w)
    <3>1. tpc[w] = "body" /\ wpc[w] # "wait"
      <4>1. CASE wpc'[w] = wpc[w]
        BY <1>2, <4>1, LifeStep DEF PlaceInv
      <4>2. CASE wpc'[w] # wpc[w]
        BY <2>2, <4>2, PlaceStep
      <4> QED BY <4>1, <4>2
    <3>2. ~BeginsWait(w)
      BY <1>0, <2>2, <3>1 DEF BeginsWait, T!AwaitSync
    <3>3. mask'[w] = mask[w]
      BY <1>0, <3>2, MaskStep
    <3> QED BY <3>1, <3>3 DEF PlaceInv
  <2> QED BY <2>1, <2>2
<1>3. sleep'[w] # "running" => got'[w] = {}
  BY <1>0, MaskStep DEF PlaceInv
<1>4. ASSUME pc' \notin {"abort", "destroy", "closed", "crashed"}
      PROVE  /\ "ABORT" \notin sigState'[w] \cup got'[w]
             /\ tpc'[w] \notin {"returned", "notify", "exited", "gone"}
  <2>1. pc \notin {"abort", "destroy", "closed", "crashed"} /\ ~AbortWorker /\ ~DestroyWorker
    <3>1. CASE UNCHANGED mainVars /\ ~MainStep
      BY <1>4, <3>1 DEF mainVars, MainStep
    <3>2. CASE MainStep
      BY <1>4, <3>2
      DEF MainStep, ParseArg, ArgsParsed, CheckArgs, InitFails, CreateWorker, CreateFails,
          HandleFails, Scan, ScanFails, Send, PostFromMain, TakeReply, AllSent, AwaitReply, Drained,
          ToDistances, NoMessages, NoDistances, ToOrder, NoOrder, Finish, FreeAll, AbortWorker,
          AllAborted, DestroyWorker, SkipWorker, Close, mainVars
    <3> QED BY <3>1, <3>2, OthersLeaveMain
  <2>2. /\ "ABORT" \notin sigState[w] /\ "ABORT" \notin got[w]
        /\ tpc[w] \notin {"returned", "notify", "exited", "gone"}
    BY <2>1 DEF PlaceInv
  <2>3. "ABORT" \notin sigState'[w]
    BY <1>0, <2>1, <2>2, AbortSent
  <2>4. "ABORT" \notin got'[w]
    BY <1>0, <2>2, MaskStep
  <2>5. tpc'[w] \notin {"returned", "notify", "exited", "gone"}
    <3>1. ASSUME tpc'[w] = "returned", NoMessage(w), tpc'[w] # tpc[w] PROVE FALSE
      BY <2>2, <3>1 DEF NoMessage
    <3>2. ~CreateFails
      BY <1>4 DEF CreateFails, StopThose
    <3>3. ~T!Join
      BY <2>1 DEF T!Join, Control
    <3> QED BY <2>2, <3>1, <3>2, <3>3, LifeStep
  <2> QED BY <2>3, <2>4, <2>5
<1> QED BY <1>1, <1>2, <1>3, <1>4 DEF PlaceInv

LEMMA ToldStays ==
  ASSUME TypeOK, Control, ThreadInv, SleepInv, [Next]_vars, NEW w \in Workers, PlaceInv(w),
         ToldToAbort(w)
  PROVE  ToldToAbort(w)' \/ (T!Join /\ subject = w) \/ T!Link(w)
<1>0. w \in Threads /\ w # Main
  BY NobodyElse DEF Threads
<1>1. CASE "ABORT" \in sigState[w]
  <2>1. ASSUME "ABORT" \in got'[w], "ABORT" \in mask'[w],
               BeginsWait(w) \/ (sleep[w] # "running" /\ mask'[w] = mask[w])
        PROVE  tpc'[w] = "body" /\ wpc'[w] # "wait"
    <3>1. CASE BeginsWait(w)
      <4>1. ~T!AwaitSync(w)
        BY <2>1, WaitsFor
      <4> QED BY <1>0, <3>1, <4>1, WaitsFor DEF BeginsWait
    <3>2. CASE sleep[w] # "running" /\ mask'[w] = mask[w]
      BY <2>1, <3>2, WorkerAsleep DEF SleepInv
    <3> QED BY <2>1, <3>1, <3>2
  <2> QED BY <1>0, <1>1, <2>1, PendingUntilTaken DEF ToldToAbort
<1>2. CASE tpc[w] = "body" /\ wpc[w] # "wait" /\ "ABORT" \in got[w]
  <2>1. ~BeginsWait(w)
    BY <1>0, <1>2 DEF BeginsWait, WorkerWait, In, T!AwaitSync
  <2>2. sleep[w] = "running"
    BY <1>2 DEF PlaceInv
  <2>3. got'[w] = got[w]
    BY <1>0, <2>1, <2>2, MaskStep
  <2>4. wpc'[w] # "wait"
    BY <1>2, PlaceStep
  <2>5. tpc'[w] \in {"body", "returned"}
    BY <1>2, LifeStep
  <2> QED BY <1>2, <2>3, <2>4, <2>5 DEF ToldToAbort
<1>3. CASE tpc[w] \in {"returned", "notify", "exited"}
  BY <1>3, LifeStep DEF ToldToAbort
<1> QED BY <1>1, <1>2, <1>3 DEF ToldToAbort

\* The call of xp_destroythread goes on, or begins with the signal.
LEMMA CallStep ==
  ASSUME TypeOK, [Next]_vars, mpc' \in {"scan", "wait"}
  PROVE  \/ mpc \in {"scan", "wait"} /\ subject' = subject
         \/ \E c \in Workers : T!Abort(c)
<1> DEFINE Goal == \/ mpc \in {"scan", "wait"} /\ subject' = subject
                   \/ \E c \in Workers : T!Abort(c)
<1>1. UNCHANGED threadVars => Goal
  BY DEF threadVars
<1>2. ASSUME NEW v \in Workers, T!Link(v) \/ T!Abort(v) \/ NoMessage(v) PROVE Goal
  BY <1>2 DEF T!Link, NoMessage
<1>3. ASSUME NEW v \in Workers, T!AwaitSync(v) \/ T!Run(v) \/ T!Die(v) \/ T!Notify(v) PROVE Goal
  BY <1>3 DEF T!AwaitSync, T!Run, T!Die, T!Notify
<1>4. T!Spawn \/ CreateFails \/ T!AdoptThenKick \/ T!ScanFinds \/ T!ScanFindsNot \/ T!AwaitDeath
      \/ T!Join \/ T!Close => Goal
  BY DEF T!Spawn, CreateFails, T!SpawnFails, T!AdoptThenKick, T!ScanFinds, T!ScanFindsNot,
         T!AwaitDeath, T!Join, T!Close, T!listVars
<1> HIDE DEF Goal
<1>5. ThreadStep => Goal
  BY <1>2, <1>3, <1>4 DEF ThreadStep
<1>6. Goal
  BY <1>1, <1>5, ThreadsElsewhere
<1> QED BY <1>6 DEF Goal

LEMMA StepTold ==
  ASSUME TypeOK, Control, ThreadInv, SleepInv, [Next]_vars, \A w \in Workers : PlaceInv(w),
         mpc \in {"scan", "wait"} => ToldToAbort(subject), mpc' \in {"scan", "wait"}
  PROVE  ToldToAbort(subject)'
<1>1. CASE mpc \in {"scan", "wait"} /\ subject' = subject
  <2>1. subject \in Workers
    BY <1>1 DEF ThreadInv, TypeOK, T!TypeOK
  <2>2. ~T!Join /\ ~T!Link(subject)
    BY <1>1 DEF T!Join, T!Link
  <2>3. ToldToAbort(subject)
    BY <1>1
  <2>4. ASSUME NEW w, w = subject PROVE ToldToAbort(w)'
    BY <2>1, <2>2, <2>3, <2>4, ToldStays
  <2>5. ASSUME NEW w, w = subject PROVE ToldToAbort(subject)'
    <3>1. ToldToAbort(w)' /\ subject' = w
      BY <1>1, <2>4, <2>5
    <3> QED BY <3>1 DEF ToldToAbort
  <2> QED BY <2>5
<1>2. ASSUME NEW c \in Workers, T!Abort(c) PROVE ToldToAbort(subject)'
  <2>1. Sig!Signal(c, {"ABORT"}) /\ subject' = c
    BY <1>2, SameSignal DEF T!Abort
  <2>2. Sig!TypeOK /\ c \in Threads /\ {"ABORT"} \in SUBSET T!Signals
    BY DEF TypeOK, T!TypeOK, T!Sig!TypeOK, T!Threads, T!Signals, Sig!TypeOK, Threads
  <2>3. sigState' = [sigState EXCEPT ![c] = @ \cup {"ABORT"}]
    BY <2>1, <2>2, SignalEffect
  <2>4. "ABORT" \in sigState'[c]
    BY <2>2, <2>3 DEF Sig!TypeOK
  <2> QED BY <2>1, <2>4 DEF ToldToAbort
<1> QED BY <1>1, <1>2, CallStep

-----------------------------------------------------------------------------
(* Nobody waits for ever: what the main thread awaits.                    *)

\* The main thread awaits answers only while some are missing, and sleeps on a death
\* only while it has not been told of it.
AwaitInv ==
  /\ pc = "wait" \/ (pc = "drain" /\ sleep[Main] # "running") => left # 0
  /\ pc = "drain" => "USER" \in mask[Main]
  /\ mpc = "wait" \/ (mpc = "scan" /\ sleep[Main] # "running") =>
       (tpc[subject] = "exited" => "SYNC" \in sigState[Main])

\* Messages are sent to workers that there are.
SentWithin == \A w \in Workers : queue[w] # <<>> => w \in 1 .. numWorkers

LEMMA StepAwaitMain ==
  ASSUME TypeOK, Control, ThreadInv, SleepInv, PortInv, AwaitInv, [Next]_vars, Control', FlightInv'
  PROVE  /\ pc' = "wait" \/ (pc' = "drain" /\ sleep'[Main] # "running") => left' # 0
         /\ pc' = "drain" => "USER" \in mask'[Main]
<1>0. Main \in Threads /\ Main \notin Workers
  BY NobodyElse DEF Threads
<1>1. ASSUME pc' = "wait" PROVE left' # 0
  <2>1. CASE UNCHANGED mainVars
    BY <1>1, <2>1 DEF mainVars, AwaitInv
  <2>2. CASE NoDistances
    BY <2>2 DEF NoDistances, FlightInv, TypeOK
  <2>3. CASE AllSent \/ Drained
    BY <1>1, <2>3 DEF AllSent, AfterSending, Drained, NoneMissing
  <2>4. CASE MainStep
    BY <1>1, <2>1, <2>2, <2>3, <2>4
    DEF MainStep, ParseArg, ArgsParsed, CheckArgs, InitFails, CreateWorker, CreateFails, HandleFails,
        StopThose, Scan, ScanFails, Send, PostFromMain, TakeReply, AwaitReply, ToDistances, NoMessages,
        ToOrder, NoOrder, Finish, FreeAll, AbortWorker, AllAborted, DestroyWorker, SkipWorker, Close
  <2> QED BY <2>1, <2>4, OthersLeaveMain
<1>2. ASSUME pc' = "drain", ~AwaitReply PROVE pc = "drain"
  <2>1. CASE UNCHANGED mainVars
    BY <1>2, <2>1 DEF mainVars
  <2>2. CASE MainStep
    BY <1>2, <2>1, <2>2
    DEF MainStep, ParseArg, ArgsParsed, CheckArgs, InitFails, CreateWorker, CreateFails, HandleFails,
        StopThose, Scan, ScanFails, Send, PostFromMain, AllSent, AfterSending, TakeReply, Drained,
        ToDistances, NoMessages, NoDistances, ToOrder, NoOrder, Finish, FreeAll, AbortWorker,
        AllAborted, DestroyWorker, SkipWorker, Close
  <2> QED BY <2>1, <2>2, OthersLeaveMain
<1>3. pc' = "drain" => ~T!AwaitDeath
  BY DEF T!AwaitDeath, Control
<1>4. ASSUME pc' = "drain", sleep'[Main] # "running" PROVE left' # 0
  <2>1. CASE sleep[Main] # "running"
    <3>1. UNCHANGED mainVars
      BY <2>1, MainAsleep, OthersLeaveMain
    <3> QED BY <1>4, <2>1, <3>1 DEF mainVars, AwaitInv
  <2>2. CASE sleep[Main] = "running"
    <3>1. AwaitReply
      BY <1>0, <1>3, <1>4, <2>2, AsleepSame
    <3> QED BY <3>1 DEF AwaitReply, AwaitInv
  <2> QED BY <2>1, <2>2
<1>5. ASSUME pc' = "drain" PROVE "USER" \in mask'[Main]
  <2>1. CASE AwaitReply
    <3>1. \E m \in {{"USER"}, {"USER", "UPDATE"}} : Sig!Wait(Main, m, FALSE)
      BY <2>1 DEF AwaitReply
    <3> QED BY <1>0, <3>1 DEF Sig!Wait, TypeOK, T!TypeOK, T!Sig!TypeOK, T!Threads, Threads
  <2>2. CASE ~AwaitReply
    <3>1. mask'[Main] = mask[Main]
      BY <1>0, <1>3, <1>5, <2>2, MaskStep DEF BeginsWait
    <3> QED BY <1>2, <1>5, <2>2, <3>1 DEF AwaitInv
  <2> QED BY <2>1, <2>2
<1> QED BY <1>1, <1>4, <1>5

LEMMA StepAwaitDeath ==
  ASSUME TypeOK, Control, ThreadInv, SleepInv, PortInv, \A w \in Workers : LifeInv(w), AwaitInv,
         [Next]_vars, Control',
         mpc' = "wait" \/ (mpc' = "scan" /\ sleep'[Main] # "running"),
         NEW w \in Workers, subject' = w, tpc'[w] = "exited"
  PROVE  "SYNC" \in sigState'[Main]
<1>0. Main \in Threads /\ Main \notin Workers /\ Sig!TypeOK /\ {"SYNC"} \in SUBSET T!Signals
  BY NobodyElse DEF TypeOK, T!TypeOK, T!Sig!TypeOK, T!Threads, T!Signals, Sig!TypeOK, Threads
<1>1. CASE T!Notify(w)
  <2>1. Sig!Signal(Main, {"SYNC"})
    BY <1>1, SameSignal DEF T!Notify, ThreadInv, T!HandlesLive
  <2>2. sigState' = [sigState EXCEPT ![Main] = @ \cup {"SYNC"}]
    BY <1>0, <2>1, SignalEffect
  <2> QED BY <1>0, <2>2 DEF Sig!TypeOK
<1>2. ~AwaitReply
  <2>1. AwaitReply => mpc' = mpc /\ pc' = "drain"
    BY DEF AwaitReply, threadVars
  <2> QED BY <2>1 DEF Control
<1>3. CASE ~T!Notify(w)
  <2>1. tpc[w] = "exited"
    BY <1>3, LifeStep
  <2>2. CASE T!ScanFindsNot
    <3>1. mpc = "scan" /\ subject = w /\ ~T!Removable(w)
      BY <2>2 DEF T!ScanFindsNot
    <3>2. w \in handles /\ LifeInv(w)
      BY <3>1 DEF ThreadInv
    <3> QED BY <2>1, <3>1, <3>2 DEF LifeInv, T!Removable
  <2>3. CASE T!AwaitDeath
    <3>1. mpc = "wait" /\ subject = w /\ mpc' = "scan" /\ Sig!Wait(Main, {"SYNC"}, FALSE)
      BY <2>3, SameWait DEF T!AwaitDeath, T!listVars
    <3>2. "SYNC" \in sigState[Main]
      BY <2>1, <3>1 DEF AwaitInv
    <3>3. sleep'[Main] = "running"
      BY <1>0, <3>1, <3>2 DEF Sig!Wait, Sig!Turn, Sig!TypeOK
    <3> QED BY <3>1, <3>3
  <2>4. CASE ~T!AwaitDeath /\ ~T!ScanFindsNot
    <3>1. CASE sleep[Main] # "running"
      <4>1. UNCHANGED <<mpc, subject>>
        BY <3>1, MainAsleep, OthersLeaveMain
      <4>2. mpc = "scan" /\ subject = w
        BY <3>1, <4>1 DEF SleepInv, Control
      <4>3. "SYNC" \in sigState[Main] /\ sleep'[Main] # "running"
        BY <2>1, <3>1, <4>1, <4>2 DEF AwaitInv
      <4> QED BY <1>0, <4>3, PendingUntilTaken
    <3>2. CASE sleep[Main] = "running"
      <4>1. sleep'[Main] = "running"
        BY <1>0, <1>2, <2>4, <3>2, AsleepSame
      <4>2. mpc' = "wait"
        BY <4>1
      <4>3. mpc = "wait" /\ subject = w
        <5>1. UNCHANGED threadVars => mpc = "wait" /\ subject = w
          BY <4>2 DEF threadVars
        <5>2. ASSUME NEW v \in Workers, T!Link(v) \/ T!Abort(v) \/ NoMessage(v)
              PROVE  mpc = "wait" /\ subject = w
          BY <4>2, <5>2 DEF T!Link, T!Abort, NoMessage
        <5>3. ASSUME NEW v \in Workers, T!AwaitSync(v) \/ T!Run(v) \/ T!Die(v) \/ T!Notify(v)
              PROVE  mpc = "wait" /\ subject = w
          BY <4>2, <5>3 DEF T!AwaitSync, T!Run, T!Die, T!Notify
        <5>4. ~T!Spawn /\ ~CreateFails /\ ~T!AdoptThenKick /\ ~T!ScanFinds /\ ~T!Join /\ ~T!Close
          BY <4>2
          DEF T!Spawn, CreateFails, T!SpawnFails, T!AdoptThenKick, T!ScanFinds, T!Join, T!Close
        <5>5. ThreadStep => mpc = "wait" /\ subject = w
          BY <2>4, <5>2, <5>3, <5>4 DEF ThreadStep
        <5> QED BY <5>1, <5>5, ThreadsElsewhere
      <4>4. "SYNC" \in sigState[Main]
        BY <2>1, <4>3 DEF AwaitInv
      <4>5. ~BeginsWait(Main)
        BY <1>2, <2>4 DEF BeginsWait
      <4> QED BY <1>0, <3>2, <4>4, <4>5, PendingUntilTaken
    <3> QED BY <3>1, <3>2
  <2> QED BY <2>2, <2>3, <2>4
<1> QED BY <1>1, <1>3

LEMMA StepAwaitInv ==
  ASSUME TypeOK, Control, ThreadInv, SleepInv, PortInv, \A w \in Workers : LifeInv(w), AwaitInv,
         [Next]_vars, TypeOK', Control', ThreadInv', FlightInv'
  PROVE  AwaitInv'
<1>1. ASSUME mpc' = "wait" \/ (mpc' = "scan" /\ sleep'[Main] # "running"), tpc'[subject'] = "exited"
      PROVE  "SYNC" \in sigState'[Main]
  <2>1. subject' \in Workers
    BY <1>1 DEF ThreadInv, TypeOK, T!TypeOK
  <2> QED BY <1>1, <2>1, StepAwaitDeath
<1> QED BY <1>1, StepAwaitMain DEF AwaitInv

\* Only binsort_genhashes and its like send to a worker.
LEMMA SentByMain ==
  ASSUME TypeOK, Control, PortInv, [Next]_vars, NEW t \in Workers, queue[t] = <<>>, queue'[t] # <<>>
  PROVE  Send /\ t = Receiver(count)
<1>0. /\ PortTypes /\ WorkerTypes /\ Main \in Threads /\ Main \notin Workers
      /\ \A w \in Workers : w \in Threads /\ w # Main
  BY TypeParts, NobodyElse DEF Threads
<1>1. ASSUME NEW s \in Threads, NEW port \in Threads, NEW reply \in {Main, Nobody}, NEW m \in Messages,
             P!Put(s, port, reply, m)
      PROVE  port = t
  BY <1>0, <1>1 DEF P!Put, PortTypes
<1>2. Send => t = Receiver(count)
  BY <1>0, <1>1, SendWhere DEF Send
<1>3. ASSUME NEW w \in Workers, WorkerReply(w) PROVE FALSE
  BY <1>0, <1>1, <1>3, ReplyWhere
<1>4. ASSUME NEW s \in Threads, NEW m \in Messages, P!Get(s, m) PROVE FALSE
  BY <1>0, <1>4 DEF P!Get, PortTypes
<1>5. TakeReply \/ (\E w \in Workers : TakeMessage(w)) => FALSE
  BY <1>0, <1>4 DEF TakeReply, TakeMessage
<1>6. ASSUME NEW w \in Workers, WorkerWait(w) \/ NoMessage(w) \/ Handle(w) \/ WorkerPost(w)
      PROVE  FALSE
  BY <1>6 DEF WorkerWait, NoMessage, Handle, WorkerPost, P!Post, portVars
<1>7. PostFromMain \/ UNCHANGED <<portVars, workerVars>> => FALSE
  BY DEF PostFromMain, P!Post, portVars
<1> QED BY <1>2, <1>3, <1>5, <1>6, <1>7, MessagesElsewhere DEF MessageStep

LEMMA StepSentWithin ==
  ASSUME TypeOK, Control, PortInv, FlightInv, SentWithin, [Next]_vars PROVE SentWithin'
<1>0. \A w \in Workers : w \in Threads
  BY DEF Threads
<1>1. CASE CheckArgs
  <2>1. InFlight = {} /\ queue' = queue
    BY <1>1 DEF CheckArgs, FlightInv, Control, portVars
  <2> QED BY <1>0, <2>1, NothingQueued DEF SentWithin
<1>2. CASE ~CheckArgs
  <2>1. numWorkers' = numWorkers
    <3>1. CASE MainStep
      BY <1>2, <3>1
      DEF MainStep, ParseArg, ArgsParsed, InitFails, CreateWorker, CreateFails, HandleFails, StopThose,
          Scan, ScanFails, Send, PostFromMain, AllSent, AwaitReply, TakeReply, Drained, ToDistances,
          NoMessages, NoDistances, ToOrder, NoOrder, Finish, FreeAll, AbortWorker, AllAborted,
          DestroyWorker, SkipWorker, Close, mainVars, runVars
    <3> QED BY <3>1, OthersLeaveMain DEF mainVars, runVars
  <2>2. ASSUME NEW w \in Workers, queue'[w] # <<>> PROVE w \in 1 .. numWorkers
    BY <2>2, SentByMain, SendWhere DEF SentWithin
  <2> QED BY <2>1, <2>2 DEF SentWithin
<1> QED BY <1>1, <1>2

-----------------------------------------------------------------------------
(* Nobody waits for ever: the theorems.                                   *)

\* What keeps somebody going.
ProgressInv ==
  /\ HandlesInv /\ AwaitInv /\ SentWithin
  /\ \A w \in Workers : LifeInv(w) /\ KickInv(w) /\ PlaceInv(w)
  /\ mpc \in {"scan", "wait"} => ToldToAbort(subject)

LEMMA InitProgressInv == Init => ProgressInv
<1> SUFFICES ASSUME Init PROVE ProgressInv
  OBVIOUS
<1>0. /\ pc = "main" /\ mpc = "idle" /\ count = 0 /\ handles = {}
      /\ tpc = [w \in Workers |-> "none"] /\ refs = [w \in Workers |-> 0]
      /\ sigState = [t \in Threads |-> {}] /\ sleep = [t \in Threads |-> "running"]
      /\ got = [t \in Threads |-> {}] /\ queue = [t \in Threads |-> <<>>]
      /\ wpc = [w \in Workers |-> "wait"]
      /\ Main \in Threads /\ \A w \in Workers : w \in Threads
  BY DEF Init, T!Init, T!Sig!Init, T!Threads, P!PortInit, Threads
<1>1. HandlesInv /\ AwaitInv /\ SentWithin
  BY <1>0 DEF HandlesInv, AwaitInv, SentWithin
<1>2. ASSUME NEW w \in Workers PROVE LifeInv(w) /\ KickInv(w) /\ PlaceInv(w)
  BY <1>0 DEF LifeInv, KickInv, PlaceInv
<1> QED BY <1>0, <1>1, <1>2 DEF ProgressInv

LEMMA StepProgressInv == RunInv /\ ProgressInv /\ [Next]_vars => ProgressInv'
<1> SUFFICES ASSUME RunInv, ProgressInv, [Next]_vars PROVE ProgressInv'
  OBVIOUS
<1>1. TypeOK /\ Control /\ ThreadInv /\ SleepInv /\ PortInv /\ FlightInv
  BY DEF RunInv
<1>2. TypeOK' /\ Control' /\ ThreadInv' /\ FlightInv'
  BY StepRunInv DEF RunInv
<1>3. /\ HandlesInv /\ AwaitInv /\ SentWithin
      /\ \A w \in Workers : LifeInv(w) /\ KickInv(w) /\ PlaceInv(w)
      /\ mpc \in {"scan", "wait"} => ToldToAbort(subject)
  BY DEF ProgressInv
<1>4. HandlesInv' /\ AwaitInv' /\ SentWithin'
  BY <1>1, <1>2, <1>3, StepHandlesInv, StepAwaitInv, StepSentWithin
<1>5. ASSUME NEW w \in Workers PROVE LifeInv(w)' /\ KickInv(w)' /\ PlaceInv(w)'
  BY <1>1, <1>3, StepLifeInv, StepKickInv, StepPlaceInv
<1>6. mpc' \in {"scan", "wait"} => ToldToAbort(subject)'
  BY <1>1, <1>3, StepTold
<1> QED BY <1>4, <1>5, <1>6 DEF ProgressInv

\* Who has begun its function and does not wait there is going.
LEMMA GoingThere ==
  ASSUME TypeOK, ThreadInv, SleepInv, NEW w \in Workers,
         wpc[w] \in {"handle", "reply", "post"} \/ (tpc[w] = "body" /\ sleep[w] = "running")
  PROVE  Going(w)
BY NobodyElse DEF ThreadInv, ChildInv, SleepInv, Going

\* Who does not go on, though its thread was made and is not over, sleeps in its
\* function, with nothing pending that it waits for.
LEMMA NotGoing ==
  ASSUME TypeOK, Control, SleepInv, ProgressInv, NEW w \in handles,
         mpc \notin {"spawn", "adopt", "kick"}, tpc[w] # "exited", ~Going(w)
  PROVE  /\ tpc[w] = "body" /\ wpc[w] = "drain" /\ got[w] = {}
         /\ "USER" \notin sigState[w] /\ "ABORT" \notin sigState[w]
<1>0. w \in Workers /\ w \in Threads /\ w # Main
  BY NobodyElse DEF TypeOK, T!TypeOK, Threads
<1>1. tpc[w] \notin {"none", "gone", "exited"}
  BY <1>0 DEF ProgressInv, LifeInv
<1>2. sleep[w] = "asleep" /\ sigState[w] \cap mask[w] = {}
  BY <1>0, <1>1 DEF Going, SleepInv
<1>3. tpc[w] = "sync" => mask[w] # {"SYNC"}
  BY <1>0, <1>2 DEF ProgressInv, KickInv
<1>4. tpc[w] = "body" /\ wpc[w] = "drain"
  BY <1>0, <1>2, <1>3 DEF SleepInv
<1> QED BY <1>0, <1>2, <1>4 DEF ProgressInv, PlaceInv

LEMMA AlwaysSomebody == RunInv /\ ProgressInv => NoDeadlock
<1> SUFFICES ASSUME RunInv, ProgressInv, pc \notin {"closed", "crashed"}, refused # "distances",
                    \A t \in Threads : ~Going(t)
             PROVE  FALSE
  BY DEF NoDeadlock
<1>0. /\ TypeOK /\ Control /\ ThreadInv /\ SleepInv /\ PortInv /\ FlightInv /\ StrandedInv
      /\ Main \in Threads /\ Main \notin Workers /\ Nobody \notin Workers /\ Nobody # Main
      /\ \A w \in Workers : w \in Threads /\ w # Main
  BY NobodyElse DEF RunInv, Threads
<1>1. \/ sleep[Main] = "asleep"
      \/ mpc = "join" /\ tpc[subject] # "exited"
      \/ pc = "destroy" /\ mpc = "idle" /\ count = numWorkers /\ handles # {}
  BY <1>0 DEF Going
\* The library can be closed when all the workers have been stopped.
<1>2. CASE pc = "destroy" /\ mpc = "idle" /\ count = numWorkers /\ handles # {}
  <2>1. PICK w \in handles : numWorkers < w /\ w \in 1 .. numWorkers
    BY <1>2 DEF ProgressInv, HandlesInv
  <2> QED BY <1>0, <2>1, SomeWorkers DEF TypeOK
\* Who is joined is on its way out.
<1>3. CASE mpc = "join" /\ tpc[subject] # "exited"
  <2>1. subject \in handles /\ subject \in Workers /\ status[subject] = "dead"
    BY <1>0, <1>3 DEF ThreadInv, TypeOK, T!TypeOK
  <2>2. tpc[subject] = "notify"
    BY <1>0, <1>3, <2>1 DEF ThreadInv, ChildInv, ProgressInv, LifeInv
  <2>3. sleep[subject] = "running"
    BY <1>0, <2>1, <2>2 DEF SleepInv
  <2> QED BY <1>0, <2>1, <2>2, <2>3 DEF Going
\* Who is awaited has been told to abort, and the main thread has not been told of its death.
<1>4. CASE sleep[Main] = "asleep" /\ pc # "drain"
  <2>1. mpc = "scan" /\ mask[Main] = {"SYNC"} /\ "SYNC" \notin sigState[Main]
    BY <1>0, <1>4 DEF SleepInv
  <2>2. subject \in handles /\ subject \in Workers /\ ToldToAbort(subject)
    BY <1>0, <2>1 DEF ThreadInv, TypeOK, T!TypeOK, ProgressInv
  <2>3. tpc[subject] # "exited"
    BY <1>4, <2>1 DEF ProgressInv, AwaitInv
  <2>4. /\ tpc[subject] = "body" /\ wpc[subject] = "drain" /\ got[subject] = {}
        /\ "ABORT" \notin sigState[subject]
    BY <1>0, <2>1, <2>2, <2>3, NotGoing
  <2> QED BY <2>2, <2>4 DEF ToldToAbort
\* An answer that is awaited is with a worker, or on a port whose thread is woken.
<1>5. CASE sleep[Main] = "asleep" /\ pc = "drain"
  <2>0. mpc \notin {"spawn", "adopt", "kick"}
    BY <1>0, <1>5 DEF Control
  <2>1. handles = 1 .. numWorkers
    BY <1>5 DEF ProgressInv, HandlesInv
  <2>2. PICK m \in Messages : holder[m] # Main
    <3>1. left # 0 /\ left = Cardinality(InFlight)
      BY <1>0, <1>5 DEF ProgressInv, AwaitInv, FlightInv
    <3> QED BY <3>1, FS_EmptySet DEF InFlight
  <2>3. ASSUME NEW w \in Workers, holder[m] = w PROVE FALSE
    <3>1. current[w] # Nobody
      BY <1>0, <2>2, <2>3, NobodyElse DEF PortInv, HoldsInv
    <3>2. wpc[w] \in {"handle", "reply"}
      BY <1>0, <3>1 DEF PortInv, HoldsInv
    <3> QED BY <1>0, <3>2, GoingThere
  <2>4. holder[m] = Nobody
    BY <2>2, <2>3 DEF RunInv, TypeOK, Threads
  <2>5. PICK t \in Threads : queue[t] # <<>>
    <3>1. \E t \in Threads : \E k \in DOMAIN queue[t] : queue[t][k] = m
      BY <1>0, <2>4 DEF PortInv, QueueInv
    <3> QED BY <3>1
  <2>6. ASSUME NEW s \in Threads, posting[s] = t PROVE FALSE
    <3>1. s # Main
      BY <1>0, <1>5, <2>6, NobodyElse DEF Control
    <3>2. s \in Workers /\ wpc[s] = "post"
      BY <1>0, <2>6, <3>1, NobodyElse DEF Threads, PortInv, HoldsInv
    <3> QED BY <1>0, <3>2, GoingThere
  <2>7. CASE WillDrain(t)
    <3>1. t \in Workers /\ tpc[t] = "body" /\ sleep[t] = "running"
      BY <1>5, <2>7 DEF WillDrain, Threads
    <3> QED BY <1>0, <3>1, GoingThere
  <2>8. CASE "USER" \in sigState[t]
    <3>1. CASE t = Main
      BY <1>0, <1>5, <2>8, <3>1 DEF SleepInv, ProgressInv, AwaitInv
    <3>2. CASE t # Main
      <4>1. t \in Workers /\ t \in handles
        BY <2>1, <2>5, <3>2 DEF Threads, ProgressInv, SentWithin
      <4>2. tpc[t] # "exited"
        BY <1>5, <4>1 DEF ProgressInv, PlaceInv
      <4> QED BY <1>0, <2>0, <2>8, <4>1, <4>2, NotGoing
    <3> QED BY <3>1, <3>2
  <2> QED BY <1>0, <2>5, <2>6, <2>7, <2>8 DEF StrandedInv
<1> QED BY <1>1, <1>2, <1>3, <1>4, <1>5

\* Never does every thread wait for another one, in xp_wait or in pthread_join:
\* what the main thread awaits, an answer or a death, somebody is bringing about.
THEOREM NeverDeadlocked == Spec => []NoDeadlock
<1>1. Init => RunInv /\ ProgressInv
  BY InitRunInv, InitProgressInv
<1>2. (RunInv /\ ProgressInv) /\ [Next]_vars => (RunInv /\ ProgressInv)'
  BY StepRunInv, StepProgressInv
<1>3. RunInv /\ ProgressInv => NoDeadlock
  BY AlwaysSomebody
<1> QED BY <1>1, <1>2, <1>3, PTL DEF Spec

\* No thread sleeps, unwoken, on a port that has a message for it, but while the
\* sender is between the end of its critical section and its xp_signal; and no
\* worker returns from its function, and none is joined, before all the messages
\* are with the main thread again: NULL comes from binsort_worker only for ABORT.
THEOREM NobodyStranded == Spec => []NoneStranded
<1>1. Init => RunInv /\ ProgressInv
  BY InitRunInv, InitProgressInv
<1>2. (RunInv /\ ProgressInv) /\ [Next]_vars => (RunInv /\ ProgressInv)'
  BY StepRunInv, StepProgressInv
<1>3. ASSUME RunInv, ProgressInv PROVE NoneStranded
  <2>1. ASSUME NEW t \in Threads, sleep[t] = "asleep", "USER" \in mask[t], queue[t] # <<>>
        PROVE  \E s \in Threads : posting[s] = t
    BY <1>3, <2>1 DEF RunInv, SleepInv, StrandedInv, WillDrain
  <2>2. ASSUME NEW w \in Workers, tpc[w] \in {"returned", "notify", "exited", "gone"},
               NEW m \in Messages
        PROVE  holder[m] = Main
    BY <1>3, <2>2 DEF RunInv, ProgressInv, PlaceInv, FlightInv, InFlight
  <2> QED BY <2>1, <2>2 DEF NoneStranded
<1> QED BY <1>1, <1>2, <1>3, PTL DEF Spec
=============================================================================
