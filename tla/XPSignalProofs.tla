--------------------------- MODULE XPSignalProofs ---------------------------
(***************************************************************************)
(* Theorems about XPSignal, for any threads and any signals: types, that   *)
(* no wakeup is lost, and that the calls implement sets of pending signals *)
(* (SignalSet); and about the times a timed wait computes with (XPTime).   *)
(***************************************************************************)
EXTENDS XPSignal, XPTime, TLAPS

\* A thread that is blocked waits for something, and has got nothing yet.
Blocked ==
  \A t \in Threads : sleep[t] # "running" => mask[t] # {} /\ got[t] = {}

SigInv == TypeOK /\ Blocked

-----------------------------------------------------------------------------
LEMMA InitInv == Init => SigInv
BY DEF Init, SigInv, TypeOK, Blocked

\* One turn of the loop in xp_wait, with the mask that is set by then.
LEMMA TurnInv ==
  ASSUME SigInv, NEW t \in Threads, NEW m \in SUBSET Signals, m # {},
         Turn(t, m), mask' = [mask EXCEPT ![t] = m],
         NEW b \in BOOLEAN, timed' = [timed EXCEPT ![t] = b]
  PROVE  SigInv'
<1>1. TypeOK'
  BY DEF SigInv, TypeOK, Turn
<1>2. Blocked'
  BY DEF SigInv, TypeOK, Blocked, Turn
<1> QED BY <1>1, <1>2 DEF SigInv

\* Types, and what is known of a blocked thread, are kept by every call.
LEMMA StepInv == SigInv /\ [Next]_vars => SigInv'
<1> SUFFICES ASSUME SigInv, [Next]_vars PROVE SigInv'
  OBVIOUS
<1>1. CASE UNCHANGED vars
  BY <1>1 DEF SigInv, TypeOK, Blocked, vars
<1>2. ASSUME NEW t \in Threads, NEW signals \in SomeSignals, Signal(t, signals)
      PROVE  SigInv'
  BY <1>2 DEF SigInv, TypeOK, Blocked, Signal, EventSignal, SomeSignals
<1>3. ASSUME NEW t \in Threads, NEW new \in SUBSET Signals, NEW m \in SomeSignals,
             SetSignal(t, new, m)
      PROVE  SigInv'
  BY <1>3 DEF SigInv, TypeOK, Blocked, SetSignal, EventSignal, SomeSignals
<1>4. ASSUME NEW t \in Threads, NEW m \in SomeSignals, NEW b \in BOOLEAN, Wait(t, m, b)
      PROVE  SigInv'
  BY <1>4, TurnInv DEF Wait, SomeSignals
<1>5. ASSUME NEW t \in Threads, Resume(t)
      PROVE  SigInv'
  <2>1. mask[t] \in SUBSET Signals /\ mask[t] # {} /\ timed[t] \in BOOLEAN
    BY <1>5 DEF SigInv, TypeOK, Blocked, Resume
  <2>2. mask' = [mask EXCEPT ![t] = mask[t]] /\ timed' = [timed EXCEPT ![t] = timed[t]]
    BY <1>5 DEF SigInv, TypeOK, Resume
  <2> QED BY <1>5, <2>1, <2>2, TurnInv DEF Resume
<1>6. ASSUME NEW t \in Threads, Timeout(t)
      PROVE  SigInv'
  BY <1>6 DEF SigInv, TypeOK, Blocked, Timeout
<1>7. ASSUME NEW t \in Threads, SpuriousWakeup(t)
      PROVE  SigInv'
  BY <1>7 DEF SigInv, TypeOK, Blocked, SpuriousWakeup
<1> QED BY <1>1, <1>2, <1>3, <1>4, <1>5, <1>6, <1>7 DEF Next

\* Every variable of the signals holds a value of its kind, and a wait returns
\* nothing but signals of its mask (xp_wait, xp_timedwait).
THEOREM SignalTypes == Spec => []TypeOK
<1>1. SigInv => TypeOK
  BY DEF SigInv
<1> QED BY <1>1, InitInv, StepInv, PTL DEF Spec

-----------------------------------------------------------------------------
\* A step neither adds a signal that a sleeping thread waits for without waking
\* it, nor puts a thread to sleep that has one.
LEMMA StepWakes == SigInv /\ NoLostWakeup /\ [Next]_vars => NoLostWakeup'
<1> SUFFICES ASSUME SigInv, NoLostWakeup, [Next]_vars,
                    NEW u \in Threads, sleep'[u] = "asleep"
             PROVE  sigState'[u] \cap mask'[u] = {}
  BY DEF NoLostWakeup
<1> USE DEF SigInv, TypeOK, NoLostWakeup
<1>1. CASE UNCHANGED vars
  BY <1>1 DEF vars
<1>2. ASSUME NEW t \in Threads, NEW signals \in SomeSignals, Signal(t, signals)
      PROVE  sigState'[u] \cap mask'[u] = {}
  <2>1. CASE t = u
    <3>1. signals \subseteq sigState[t]
      BY <1>2, <2>1 DEF Signal, EventSignal
    <3> QED BY <1>2, <2>1, <3>1 DEF Signal
  <2>2. CASE t # u
    BY <1>2, <2>2 DEF Signal, EventSignal
  <2> QED BY <2>1, <2>2
<1>3. ASSUME NEW t \in Threads, NEW new \in SUBSET Signals, NEW m \in SomeSignals,
             SetSignal(t, new, m)
      PROVE  sigState'[u] \cap mask'[u] = {}
  BY <1>3 DEF SetSignal, EventSignal
<1>4. ASSUME NEW t \in Threads, NEW m \in SomeSignals, NEW b \in BOOLEAN, Wait(t, m, b)
      PROVE  sigState'[u] \cap mask'[u] = {}
  BY <1>4 DEF Wait, Turn
<1>5. ASSUME NEW t \in Threads, Resume(t)
      PROVE  sigState'[u] \cap mask'[u] = {}
  BY <1>5 DEF Resume, Turn
<1>6. ASSUME NEW t \in Threads, Timeout(t)
      PROVE  sigState'[u] \cap mask'[u] = {}
  BY <1>6 DEF Timeout
<1>7. ASSUME NEW t \in Threads, SpuriousWakeup(t)
      PROVE  sigState'[u] \cap mask'[u] = {}
  BY <1>7 DEF SpuriousWakeup
<1> QED BY <1>1, <1>2, <1>3, <1>4, <1>5, <1>6, <1>7 DEF Next

\* No thread sleeps on, unwoken, while a signal it waits for is pending
\* (xp_signal, xp_setsignal, xp_wait).
THEOREM NothingLost == Spec => []NoLostWakeup
<1>1. Init => NoLostWakeup
  BY DEF Init, NoLostWakeup
<1> QED BY <1>1, InitInv, StepInv, StepWakes, PTL DEF Spec

-----------------------------------------------------------------------------
(* The refinement: a thread waits, in SignalSet, while it does not run.    *)

Waiting == [t \in Threads |-> IF sleep[t] = "running" THEN {} ELSE mask[t]]

LEMMA InitSets == Init => Pending!Init
BY DEF Init, Pending!Init

\* One turn of the loop takes the signals of the mask, or it blocks.
LEMMA TurnSets ==
  ASSUME SigInv, NEW t \in Threads, NEW m \in SUBSET Signals,
         Waiting[t] \in {{}, m}, m # {}, Turn(t, m), mask' = [mask EXCEPT ![t] = m]
  PROVE  Pending!Next \/ UNCHANGED Pending!vars
<1> USE DEF SigInv, TypeOK, Blocked
<1>1. CASE sigState[t] \cap m # {}
  <2>1. Waiting' = [Waiting EXCEPT ![t] = {}]
    BY <1>1 DEF Turn, Waiting
  <2>2. Pending!Take(t, m)
    BY <1>1, <2>1 DEF Turn, Waiting, Pending!Take
  <2> QED BY <2>2 DEF Pending!Next
<1>2. CASE sigState[t] \cap m = {} /\ sleep[t] = "running"
  <2>1. Waiting' = [Waiting EXCEPT ![t] = m]
    BY <1>2 DEF Turn, Waiting
  <2>2. sigState' = sigState /\ got' = [got EXCEPT ![t] = {}]
    BY <1>2 DEF Turn
  <2>3. Pending!Block(t, m)
    BY <1>2, <2>1, <2>2 DEF Waiting, Pending!Block
  <2> QED BY <2>3 DEF Pending!Next
<1>3. CASE sigState[t] \cap m = {} /\ sleep[t] # "running"
  <2>1. Waiting' = Waiting
    BY <1>3 DEF Turn, Waiting
  <2>2. sigState' = sigState /\ got' = got
    BY <1>3 DEF Turn
  <2> QED BY <2>1, <2>2 DEF Waiting, Pending!vars
<1> QED BY <1>1, <1>2, <1>3

LEMMA StepSets == SigInv /\ [Next]_vars => [Pending!Next]_(Pending!vars)
<1> SUFFICES ASSUME SigInv, [Next]_vars
             PROVE  Pending!Next \/ UNCHANGED Pending!vars
  OBVIOUS
<1> USE DEF SigInv, TypeOK, Blocked
<1>1. CASE UNCHANGED vars
  BY <1>1 DEF vars, Pending!vars
<1>2. ASSUME NEW t \in Threads, NEW signals \in SomeSignals, Signal(t, signals)
      PROVE  Pending!Next
  <2>1. Waiting' = Waiting
    BY <1>2 DEF Signal, EventSignal, Waiting
  <2>2. signals \in SUBSET Signals
    BY DEF SomeSignals
  <2>3. Pending!Post(t, signals)
    BY <1>2, <2>1 DEF Signal, Waiting, Pending!Post
  <2> QED BY <2>2, <2>3 DEF Pending!Next
<1>3. ASSUME NEW t \in Threads, NEW new \in SUBSET Signals, NEW m \in SomeSignals,
             SetSignal(t, new, m)
      PROVE  Pending!Next
  <2>1. Waiting' = Waiting /\ Waiting[t] = {}
    BY <1>3 DEF SetSignal, EventSignal, Waiting
  <2>2. m \in SUBSET Signals
    BY DEF SomeSignals
  <2>3. Pending!Change(t, new, m)
    BY <1>3, <2>1 DEF SetSignal, Waiting, Pending!Change
  <2> QED BY <2>2, <2>3 DEF Pending!Next
<1>4. ASSUME NEW t \in Threads, NEW m \in SomeSignals, NEW b \in BOOLEAN, Wait(t, m, b)
      PROVE  Pending!Next \/ UNCHANGED Pending!vars
  <2>1. Waiting[t] = {} /\ m \in SUBSET Signals /\ m # {}
    BY <1>4 DEF Wait, Waiting, SomeSignals
  <2> QED BY <1>4, <2>1, TurnSets DEF Wait
<1>5. ASSUME NEW t \in Threads, Resume(t)
      PROVE  Pending!Next \/ UNCHANGED Pending!vars
  <2>1. Waiting[t] = mask[t] /\ mask[t] \in SUBSET Signals /\ mask[t] # {}
    BY <1>5 DEF Resume, Waiting
  <2>2. mask' = [mask EXCEPT ![t] = mask[t]]
    BY <1>5 DEF Resume
  <2> QED BY <1>5, <2>1, <2>2, TurnSets DEF Resume
<1>6. ASSUME NEW t \in Threads, Timeout(t)
      PROVE  Pending!Next
  <2>1. Waiting' = [Waiting EXCEPT ![t] = {}] /\ Waiting[t] # {}
    BY <1>6 DEF Timeout, Waiting
  <2>2. Pending!GiveUp(t)
    BY <1>6, <2>1 DEF Timeout, Waiting, Pending!GiveUp
  <2> QED BY <2>2 DEF Pending!Next
<1>7. ASSUME NEW t \in Threads, SpuriousWakeup(t)
      PROVE  UNCHANGED Pending!vars
  <2>1. Waiting' = Waiting
    BY <1>7 DEF SpuriousWakeup, Waiting
  <2> QED BY <1>7, <2>1 DEF SpuriousWakeup, Waiting, Pending!vars
<1> QED BY <1>1, <1>2, <1>3, <1>4, <1>5, <1>6, <1>7 DEF Next

\* The calls implement sets of pending signals: a signal is taken by one wait
\* or by its thread's own xp_setsignal, and none by a timeout that races it
\* (xpthread.c:504-511).
THEOREM SignalsAreSets == Spec => ImplementsSets
BY InitInv, StepInv, InitSets, StepSets, PTL DEF Spec, ImplementsSets, Pending!Spec

-----------------------------------------------------------------------------
(* The times of xpi_timedwait.                                             *)

\* The sum of two times is a time, with its microseconds below a million, and
\* is exact (xp_addtime).
THEOREM AddExact ==
  ASSUME NEW a \in Time, NEW b \in Time
  PROVE  /\ AddTime(a, b) \in Time
         /\ Micros(AddTime(a, b)) = Micros(a) + Micros(b)
BY SMT DEF Time, AddTime, Micros, Million

\* So is the difference, whichever time is the later: it is negative in its
\* seconds alone (xp_subtime; xpi_timedwait takes a deadline for past if the
\* seconds that are left are below 0, xpthread.c:232-233).
THEOREM SubExact ==
  ASSUME NEW a \in Time, NEW b \in Time
  PROVE  /\ SubTime(a, b) \in Time
         /\ Micros(SubTime(a, b)) = Micros(a) - Micros(b)
         /\ SubTime(a, b).sec < 0 <=> Micros(a) < Micros(b)
BY SMT DEF Time, SubTime, Micros, Million

\* Times are compared by the microseconds they stand for ("1 if time a refers
\* to a later point in time than time b, -1 if time a refers to a earlier
\* point", xpthread.h:120-123).
THEOREM CmpRight ==
  ASSUME NEW a \in Time, NEW b \in Time
  PROVE  /\ CmpTime(a, b) = 1 <=> Micros(a) > Micros(b)
         /\ CmpTime(a, b) = -1 <=> Micros(a) < Micros(b)
         /\ CmpTime(a, b) = 0 <=> a = b
BY SMT DEF Time, CmpTime, Micros, Million

\* What is added is taken away again, so that a deadline that was computed
\* from the current time gives back the time that was to be waited.
THEOREM SubUndoesAdd ==
  ASSUME NEW a \in Time, NEW b \in Time
  PROVE  SubTime(AddTime(a, b), b) = a
BY SMT DEF Time, SubTime, AddTime, Million
=============================================================================
