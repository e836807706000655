----------------------------- MODULE SignalSet ------------------------------
(***************************************************************************)
(* What the signals of xpthread promise: every thread has a set of pending *)
(* signals that anybody may add to; a wait returns all pending signals of  *)
(* its mask, at least one, and takes them away in the same step; a timeout *)
(* returns none and takes none.  There are no mutexes and no condition     *)
(* variables here.                                                         *)
(***************************************************************************)
CONSTANTS Threads, Signals

VARIABLES
  pending,  \* the pending signals of every thread
  waiting,  \* the signals a blocked thread waits for, {} if it is not blocked
  got       \* what the thread's last wait returned

vars == <<pending, waiting, got>>

Init ==
  /\ pending = [t \in Threads |-> {}]
  /\ waiting = [t \in Threads |-> {}]
  /\ got = [t \in Threads |-> {}]

Post(t, signals) ==
  /\ pending' = [pending EXCEPT ![t] = @ \cup signals]
  /\ UNCHANGED <<waiting, got>>

Change(t, new, m) ==
  /\ waiting[t] = {}
  /\ pending' = [pending EXCEPT ![t] = (@ \ m) \cup new]
  /\ UNCHANGED <<waiting, got>>

\* The wait for m blocks.
Block(t, m) ==
  /\ waiting[t] = {}
  /\ pending[t] \cap m = {}
  /\ waiting' = [waiting EXCEPT ![t] = m]
  /\ UNCHANGED pending
  /\ got' = [got EXCEPT ![t] = {}]

\* The wait for m returns, at once or after it was blocked.
Take(t, m) ==
  /\ waiting[t] \in {{}, m}
  /\ pending[t] \cap m # {}
  /\ got' = [got EXCEPT ![t] = pending[t] \cap m]
  /\ pending' = [pending EXCEPT ![t] = @ \ m]
  /\ waiting' = [waiting EXCEPT ![t] = {}]

GiveUp(t) ==
  /\ waiting[t] # {}
  /\ got' = [got EXCEPT ![t] = {}]
  /\ waiting' = [waiting EXCEPT ![t] = {}]
  /\ UNCHANGED pending

Next ==
  \E t \in Threads :
    \/ \E signals \in SUBSET Signals : Post(t, signals)
    \/ \E new, m \in SUBSET Signals : Change(t, new, m)
    \/ \E m \in SUBSET Signals : Block(t, m) \/ Take(t, m)
    \/ GiveUp(t)

Spec == Init /\ [][Next]_vars
=============================================================================
