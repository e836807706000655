------------------------------- MODULE XPPort -------------------------------
(***************************************************************************)
(* The message ports of the xpthread library (xpthread.c: xp_putmsg,       *)
(* xp_getmsg, xp_replymsg).  Every thread has one, its user port, which    *)
(* shows messages by the signal USER.  xp_putmsg locks the port, adds the  *)
(* message and unlocks, and only then sends the signal: two steps, between *)
(* which the receiver may already take the message.                        *)
(*                                                                         *)
(* A module for composition: Binsort says who calls what.                  *)
(***************************************************************************)
EXTENDS Sequences

CONSTANTS Threads, Signals, Messages, Nobody

VARIABLES
  sigState, sleep, mask, timed, got,  \* see XPSignal
  queue,    \* xpmp_Queue of every thread's user port
  replyTo,  \* xpmsg_ReplyPort of every message
  holder,   \* who has the message in hand, Nobody while it is queued
  posting   \* the port a thread has put a message to, but not yet signalled

Sig == INSTANCE XPSignal

portVars == <<queue, replyTo, holder, posting>>

PortInit(owner) ==
  /\ queue = [t \in Threads |-> <<>>]
  /\ replyTo = [m \in Messages |-> Nobody]
  /\ holder = [m \in Messages |-> owner]
  /\ posting = [t \in Threads |-> Nobody]

\* xp_putmsg up to XPT_MUTEX_UNLOCK.
PutFirst(t, port, reply, m) ==
  /\ posting[t] = Nobody
  /\ queue' = [queue EXCEPT ![port] = <<m>> \o @]
  /\ replyTo' = [replyTo EXCEPT ![m] = reply]
  /\ holder' = [holder EXCEPT ![m] = Nobody]
  /\ posting' = [posting EXCEPT ![t] = port]

Put(t, port, reply, m) ==
  /\ posting[t] = Nobody
  /\ queue' = [queue EXCEPT ![port] = Append(@, m)]
  /\ replyTo' = [replyTo EXCEPT ![m] = reply]
  /\ holder' = [holder EXCEPT ![m] = Nobody]
  /\ posting' = [posting EXCEPT ![t] = port]

\* The xp_signal at the end of xp_putmsg.
PostToSleeperOnly(t) ==
  /\ posting[t] # Nobody
  /\ IF sleep[posting[t]] = "asleep"
       THEN Sig!Signal(posting[t], {"USER"})
       ELSE UNCHANGED <<sigState, sleep, mask, timed, got>>
  /\ posting' = [posting EXCEPT ![t] = Nobody]
  /\ UNCHANGED <<queue, replyTo, holder>>

Post(t) ==
  /\ posting[t] # Nobody
  /\ Sig!Signal(posting[t], {"USER"})
  /\ posting' = [posting EXCEPT ![t] = Nobody]
  /\ UNCHANGED <<queue, replyTo, holder>>

\* xp_getmsg where there is a message; where there is none it changes nothing.
Get(t, m) ==
  /\ queue[t] # <<>>
  /\ m = Head(queue[t])
  /\ queue' = [queue EXCEPT ![t] = Tail(@)]
  /\ holder' = [holder EXCEPT ![m] = t]
  /\ UNCHANGED <<replyTo, posting>>

\* xp_replymsg up to the xp_signal, for a message that has a reply port.
Reply(t, m) == Put(t, replyTo[m], Nobody, m)
=============================================================================
