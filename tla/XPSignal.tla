------------------------------ MODULE XPSignal ------------------------------
(***************************************************************************)
(* The signals of the xpthread library (xpthread.c: xp_signal,             *)
(* xp_setsignal, xp_wait, xp_timedwait): every thread has a set of pending *)
(* signals, a mutex for it, and a condition variable on which only the     *)
(* thread itself ever waits.                                               *)
(*                                                                         *)
(* What a call does between locking and unlocking xpt_SigLock is one step. *)
(* pthread_cond_wait ends such a step and begins another: a thread that    *)
(* sleeps is woken by pthread_cond_signal, or for no reason at all, and    *)
(* goes round its loop again when it has the mutex back.                   *)
(***************************************************************************)
CONSTANTS Threads, Signals

VARIABLES
  sigState,  \* xpt_SigState of every thread, the signals that are pending
  sleep,     \* "running", "asleep" on xpt_SigEvent, or "woken" from it
  mask,      \* sigmask of the thread's xp_wait or xp_timedwait
  timed,     \* the call is xp_timedwait
  got        \* what the thread's last wait returned

vars == <<sigState, sleep, mask, timed, got>>

Init ==
  /\ sigState = [t \in Threads |-> {}]
  /\ sleep = [t \in Threads |-> "running"]
  /\ mask = [t \in Threads |-> {}]
  /\ timed = [t \in Threads |-> FALSE]
  /\ got = [t \in Threads |-> {}]

-----------------------------------------------------------------------------
\* pthread_cond_signal on the condition variable of t, the caller holding its
\* mutex.
EventSignal(t) ==
  sleep' = [sleep EXCEPT ![t] = IF @ = "asleep" THEN "woken" ELSE @]

\* xp_signal: signals that are all pending already wake nobody.
SignalFirstOnly(t, signals) ==
  /\ sigState' = [sigState EXCEPT ![t] = @ \cup signals]
  /\ IF sigState[t] = {} THEN EventSignal(t) ELSE UNCHANGED sleep
  /\ UNCHANGED <<mask, timed, got>>

Signal(t, signals) ==
  /\ sigState' = [sigState EXCEPT ![t] = @ \cup signals]
  /\ IF signals \ sigState[t] # {} THEN EventSignal(t) ELSE UNCHANGED sleep
  /\ UNCHANGED <<mask, timed, got>>

\* xp_setsignal, which a thread calls for itself and so never while it sleeps.
SetSignal(t, new, m) ==
  /\ sleep[t] = "running"
  /\ sigState' = [sigState EXCEPT ![t] = (@ \ m) \cup new]
  /\ IF (new \cap m) \ sigState[t] # {} THEN EventSignal(t) ELSE UNCHANGED sleep
  /\ UNCHANGED <<mask, timed, got>>

\* One turn of the loop in xp_wait: take the signals of the mask and return
\* them, or else go to sleep.
TurnUnmasked(t, m) ==
  LET sig == sigState[t]
  IN  /\ sigState' = [sigState EXCEPT ![t] = @ \ m]
      /\ sleep' = [sleep EXCEPT ![t] = IF sig = {} THEN "asleep" ELSE "running"]
      /\ got' = [got EXCEPT ![t] = sig]

Turn(t, m) ==
  LET sig == sigState[t] \cap m
  IN  /\ sigState' = [sigState EXCEPT ![t] = @ \ m]
      /\ sleep' = [sleep EXCEPT ![t] = IF sig = {} THEN "asleep" ELSE "running"]
      /\ got' = [got EXCEPT ![t] = sig]

\* A call of xp_wait or xp_timedwait.
Wait(t, m, withTimeout) ==
  /\ sleep[t] = "running"
  /\ Turn(t, m)
  /\ mask' = [mask EXCEPT ![t] = m]
  /\ timed' = [timed EXCEPT ![t] = withTimeout]

\* The woken thread has the mutex back and goes round again.
Resume(t) ==
  /\ sleep[t] = "woken"
  /\ Turn(t, mask[t])
  /\ UNCHANGED <<mask, timed>>

\* pthread_cond_timedwait returns ETIMEDOUT, perhaps after the thread has been
\* woken: no signals are returned, and what is pending stays pending.
TimeoutTaking(t) ==
  /\ timed[t] /\ sleep[t] # "running"
  /\ sleep' = [sleep EXCEPT ![t] = "running"]
  /\ sigState' = [sigState EXCEPT ![t] = @ \ mask[t]]
  /\ got' = [got EXCEPT ![t] = {}]
  /\ UNCHANGED <<mask, timed>>

Timeout(t) ==
  /\ timed[t] /\ sleep[t] # "running"
  /\ sleep' = [sleep EXCEPT ![t] = "running"]
  /\ got' = [got EXCEPT ![t] = {}]
  /\ UNCHANGED <<sigState, mask, timed>>

\* A condition variable may wake its waiter without a signal.
SpuriousWakeup(t) ==
  /\ sleep[t] = "asleep"
  /\ sleep' = [sleep EXCEPT ![t] = "woken"]
  /\ UNCHANGED <<sigState, mask, timed, got>>

-----------------------------------------------------------------------------
\* Threads that call these functions in any order.
SomeSignals == (SUBSET Signals) \ {{}}

Next ==
  \E t \in Threads :
    \/ \E sender \in Threads, signals \in SomeSignals :
         sleep[sender] = "running" /\ Signal(t, signals)
    \/ \E new \in SUBSET Signals, m \in SomeSignals : SetSignal(t, new, m)
    \/ \E m \in SomeSignals, withTimeout \in BOOLEAN : Wait(t, m, withTimeout)
    \/ Resume(t)
    \/ Timeout(t)
    \/ SpuriousWakeup(t)

Spec == Init /\ [][Next]_vars

\* A thread that is woken gets the mutex and goes on.
Fairness == \A t \in Threads : WF_vars(Resume(t))

FairSpec == Spec /\ Fairness

-----------------------------------------------------------------------------
(* Properties.                                                             *)

\* Every variable holds a value of its kind, and a wait returns nothing but
\* signals of its mask.
TypeOK ==
  /\ sigState \in [Threads -> SUBSET Signals]
  /\ sleep \in [Threads -> {"running", "asleep", "woken"}]
  /\ mask \in [Threads -> SUBSET Signals]
  /\ timed \in [Threads -> BOOLEAN]
  /\ got \in [Threads -> SUBSET Signals]
  /\ \A t \in Threads : got[t] \subseteq mask[t]

\* No lost wakeup: no thread sleeps on, unwoken, while a signal it waits for
\* is pending, although xp_signal does not signal the condition variable when
\* it changes nothing (xpthread.c:458-462).
NoLostWakeup ==
  \A t \in Threads : sleep[t] = "asleep" => sigState[t] \cap mask[t] = {}

\* The calls implement sets of pending signals with a blocking wait: a signal
\* ceases to be pending only when a wait returns it, once, or in the thread's
\* own xp_setsignal, and a timeout that races with a signal loses none
\* (xpthread.c:504-511).
Pending == INSTANCE SignalSet WITH
  pending <- sigState,
  waiting <- [t \in Threads |-> IF sleep[t] = "running" THEN {} ELSE mask[t]]
ImplementsSets == Pending!Spec

\* A thread returns from a wait when a signal it waits for is pending.
PendingReturns ==
  \A t \in Threads :
    sigState[t] \cap mask[t] # {} /\ sleep[t] # "running" ~> sleep[t] = "running"
=============================================================================
