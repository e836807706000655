--------------------------- MODULE XPThreadProofs ---------------------------
(***************************************************************************)
(* Theorems about XPThread, for any finite set of children: types, that no *)
(* handle is used after it was freed, that the list of tasks is sound, and *)
(* that there is always a thread that can go on.                           *)
(***************************************************************************)
EXTENDS XPThread, FiniteSetTheorems, TLAPS

-----------------------------------------------------------------------------
(* The inductive invariant.                                                *)

\* Main's call is about a thread whose handle there is; before the thread is
\* made it is nowhere, and it is kicked only when it knows its parent.
Subject ==
  /\ mpc \in {"spawn", "adopt", "kick", "scan", "wait", "join"} => subject \in handles
  /\ mpc = "spawn" => tpc[subject] = "none"
  /\ mpc = "kick" => parent[subject] = Main

\* Nobody but Main, in its kick, sends SYNC to a child; so a child that has
\* returned from its first wait has a parent.
Kicked ==
  \A c \in Children :
    /\ "SYNC" \in sigState[c] => parent[c] = Main
    /\ tpc[c] \in {"none", "entry"} => sleep[c] = "running"
    /\ tpc[c] = "sync" => mask[c] = {"SYNC"} /\ (sleep[c] = "running" => parent[c] = Main)

\* Who is dead has left its function.
Dead == \A c \in Children : status[c] = "dead" => tpc[c] \in {"notify", "exited", "gone"}

Holders(d) == {c \in Children : holds[c] = d}

\* References are counted.
Counted == \A d \in Children : refs[d] = Cardinality(Holders(d))

\* What is on the list is there; what Main joins is dead, off the list and not
\* referred to, and so it stays.
Off ==
  /\ tasks \subseteq handles
  /\ mpc = "closed" => handles = {}
  /\ mpc = "join" => subject \notin tasks /\ status[subject] = "dead" /\ refs[subject] = 0

ThreadInv == TypeOK /\ HandlesLive /\ Subject /\ Kicked /\ Dead /\ Counted /\ Off

-----------------------------------------------------------------------------
(* What the calls of XPSignal do, as far as it matters here.               *)

\* Signalling wakes a sleeper, but lets nobody return from xp_waitsigmask.
LEMMA SignalEffect ==
  ASSUME Sig!TypeOK, NEW t \in Threads, NEW signals \in SUBSET Signals, Sig!Signal(t, signals)
  PROVE  /\ Sig!TypeOK'
         /\ sigState' = [sigState EXCEPT ![t] = @ \cup signals]
         /\ mask' = mask
         /\ \A x \in Threads : sleep'[x] = "running" <=> sleep[x] = "running"
BY DEF Sig!TypeOK, Sig!Signal, Sig!EventSignal

\* Who returns from xp_waitsigmask has one of the signals of its mask.
LEMMA TurnEffect ==
  ASSUME Sig!TypeOK, NEW t \in Threads, NEW m \in SUBSET Signals, Sig!Turn(t, m),
         mask' = [mask EXCEPT ![t] = m], NEW b \in BOOLEAN, timed' = [timed EXCEPT ![t] = b]
  PROVE  /\ Sig!TypeOK'
         /\ \A x \in Threads : sigState'[x] \subseteq sigState[x]
         /\ \A x \in Threads \ {t} : mask'[x] = mask[x] /\ sleep'[x] = sleep[x]
         /\ mask'[t] = m
         /\ sleep'[t] = "running" => sigState[t] \cap m # {}
BY DEF Sig!TypeOK, Sig!Turn

LEMMA WaitEffect ==
  ASSUME Sig!TypeOK, NEW t \in Threads, NEW m \in SUBSET Signals, Sig!Wait(t, m, FALSE)
  PROVE  /\ Sig!TypeOK'
         /\ \A x \in Threads : sigState'[x] \subseteq sigState[x]
         /\ \A x \in Threads \ {t} : mask'[x] = mask[x] /\ sleep'[x] = sleep[x]
         /\ mask'[t] = m
         /\ sleep'[t] = "running" => sigState[t] \cap m # {}
BY TurnEffect DEF Sig!Wait

LEMMA WaitForOne ==
  ASSUME Sig!TypeOK, NEW t \in Threads, NEW signal \in Signals, Sig!Wait(t, {signal}, FALSE)
  PROVE  /\ Sig!TypeOK'
         /\ \A x \in Threads : sigState'[x] \subseteq sigState[x]
         /\ \A x \in Threads \ {t} : mask'[x] = mask[x] /\ sleep'[x] = sleep[x]
         /\ mask'[t] = {signal}
         /\ sleep'[t] = "running" => signal \in sigState[t]
<1>1. {signal} \in SUBSET Signals
  OBVIOUS
<1>2. sleep'[t] = "running" => sigState[t] \cap {signal} # {}
  BY <1>1, WaitEffect
<1> QED BY <1>1, <1>2, WaitEffect

LEMMA ResumeEffect ==
  ASSUME Sig!TypeOK, NEW t \in Threads, Sig!Resume(t)
  PROVE  /\ Sig!TypeOK'
         /\ \A x \in Threads : sigState'[x] \subseteq sigState[x]
         /\ \A x \in Threads \ {t} : mask'[x] = mask[x] /\ sleep'[x] = sleep[x]
         /\ mask'[t] = mask[t]
         /\ sleep[t] = "woken"
         /\ sleep'[t] = "running" => sigState[t] \cap mask[t] # {}
<1>1. /\ mask[t] \in SUBSET Signals /\ timed[t] \in BOOLEAN
      /\ mask' = [mask EXCEPT ![t] = mask[t]] /\ timed' = [timed EXCEPT ![t] = timed[t]]
  BY DEF Sig!TypeOK, Sig!Resume
<1> QED BY <1>1, TurnEffect DEF Sig!Resume

\* Where a step leaves the signals, or the references, alone.
LEMMA SignalsSame ==
  ASSUME Sig!TypeOK, UNCHANGED sigVars PROVE Sig!TypeOK'
BY DEF sigVars, Sig!TypeOK

LEMMA CountSame ==
  ASSUME Counted, refs' = refs, holds' = holds PROVE Counted'
BY DEF Counted, Holders

\* References that are counted are not negative, and none is left at zero.
LEMMA CountedHolders ==
  ASSUME TypeOK, NEW d \in Children
  PROVE  /\ IsFiniteSet(Holders(d))
         /\ Cardinality(Holders(d)) \in Nat
         /\ Cardinality(Holders(d)) = 0 <=> Holders(d) = {}
<1>1. IsFiniteSet(Holders(d))
  BY ThreadAssumption, FS_Subset DEF Holders
<1> QED BY <1>1, FS_CardinalityType, FS_EmptySet

\* A new handle has no references, and each that is taken or given back is
\* counted.
LEMMA LinkCounted ==
  ASSUME TypeOK, Counted, NEW c \in Children, \A e \in Children : holds[e] # c,
         refs' = [refs EXCEPT ![c] = 0], holds' = holds
  PROVE  Counted'
<1>1. Holders(c) = {}
  BY DEF Holders
<1>2. \A d \in Children : Holders(d)' = Holders(d)
  BY DEF Holders
<1>3. Cardinality(Holders(c)) = 0
  BY <1>1, FS_EmptySet
<1> QED BY <1>2, <1>3 DEF TypeOK, Counted

LEMMA RefCounted ==
  ASSUME TypeOK, Counted, NEW c \in Children, NEW d \in Children, holds[c] = NoThread,
         refs' = [refs EXCEPT ![d] = @ + 1], holds' = [holds EXCEPT ![c] = d]
  PROVE  Counted'
<1> DEFINE H == Holders(d)
<1>1. c \notin H
  BY ThreadAssumption DEF Holders
<1>2. H' = H \cup {c}
  BY DEF Holders, TypeOK
<1>3. Cardinality(H \cup {c}) = Cardinality(H) + 1
  <2> HIDE DEF H
  <2>1. IsFiniteSet(H)
    BY CountedHolders DEF H
  <2> QED BY <1>1, <2>1, FS_AddElement
<1>4. \A e \in Children \ {d} : Holders(e)' = Holders(e)
  BY ThreadAssumption DEF Holders, TypeOK
<1> HIDE DEF H
<1>5. refs'[d] = Cardinality(H')
  BY <1>2, <1>3 DEF TypeOK, Counted, H
<1>6. \A e \in Children \ {d} : refs'[e] = refs[e]
  BY DEF TypeOK
<1> QED BY <1>4, <1>5, <1>6 DEF Counted, H

LEMMA UnrefCounted ==
  ASSUME TypeOK, Counted, NEW c \in Children, NEW d \in Children, holds[c] = d,
         refs' = [refs EXCEPT ![d] = @ - 1], holds' = [holds EXCEPT ![c] = NoThread]
  PROVE  Counted' /\ refs[d] \in Nat \ {0}
<1> DEFINE H == Holders(d)
<1>1. c \in H
  BY DEF Holders
<1>2. H' = H \ {c}
  BY ThreadAssumption DEF Holders, TypeOK
<1>3. Cardinality(H \ {c}) = Cardinality(H) - 1
  <2> HIDE DEF H
  <2>1. IsFiniteSet(H)
    BY CountedHolders DEF H
  <2> QED BY <1>1, <2>1, FS_RemoveElement
<1>4. \A e \in Children \ {d} : Holders(e)' = Holders(e)
  BY ThreadAssumption DEF Holders, TypeOK
<1>5. Cardinality(H) \in Nat \ {0}
  BY <1>1, CountedHolders
<1> HIDE DEF H
<1>6. refs'[d] = Cardinality(H') /\ refs[d] = Cardinality(H)
  BY <1>2, <1>3 DEF TypeOK, Counted, H
<1>7. \A e \in Children \ {d} : refs'[e] = refs[e]
  BY DEF TypeOK
<1> QED BY <1>4, <1>5, <1>6, <1>7 DEF Counted, H

-----------------------------------------------------------------------------
(* The invariant holds at first, and every step keeps it.                  *)

LEMMA InitThreadInv == Init => ThreadInv
<1> SUFFICES ASSUME Init PROVE ThreadInv
  OBVIOUS
<1>1. TypeOK
  BY ThreadAssumption DEF Init, TypeOK, Sig!Init, Sig!TypeOK, Threads
<1>2. Counted
  <2>1. \A d \in Children : Holders(d) = {}
    BY ThreadAssumption DEF Init, Holders
  <2> QED BY <2>1, FS_EmptySet DEF Init, Counted
<1> QED BY <1>1, <1>2 DEF Init, Sig!Init, Threads, ThreadInv, HandlesLive, Subject, Kicked, Dead, Off

LEMMA StepThreadInv == ThreadInv /\ [Next]_vars => ThreadInv'
<1> SUFFICES ASSUME ThreadInv, [Next]_vars PROVE ThreadInv'
  OBVIOUS
<1> USE ThreadAssumption
        DEF ThreadInv, TypeOK, HandlesLive, Subject, Kicked, Dead, Off, Threads, Signals, Awake
<1>1. CASE UNCHANGED vars
  <2>1. Sig!TypeOK'
    BY <1>1 DEF vars, sigVars, Sig!TypeOK
  <2> QED BY <1>1, <2>1 DEF vars, sigVars, listVars, Counted, Holders
<1>2. ASSUME NEW c \in Children, Link(c) PROVE ThreadInv'
  <2>1. Sig!TypeOK'
    BY <1>2 DEF Link, Sig!TypeOK
  <2>2. Counted'
    <3>1. \A e \in Children : holds[e] # c
      BY <1>2 DEF Link
    <3> QED BY <1>2, <3>1, LinkCounted DEF Link
  <2>3. Kicked'
    <3>1. /\ "SYNC" \notin sigState'[c]
          /\ tpc'[c] = "none" /\ sleep'[c] = "running"
      BY <1>2 DEF Link, Sig!TypeOK
    <3>2. \A e \in Children \ {c} : sigState'[e] = sigState[e] /\ parent'[e] = parent[e]
      BY <1>2 DEF Link, Sig!TypeOK
    <3> QED BY <1>2, <3>1, <3>2 DEF Link
  <2> QED BY <1>2, <2>1, <2>2, <2>3 DEF Link, sigVars
<1>3. ASSUME NEW c \in Children, Abort(c) PROVE ThreadInv'
  <2>1. Counted'
    BY <1>3, CountSame DEF Abort, listVars
  <2>2. /\ Sig!TypeOK'
        /\ mask' = mask
        /\ \A x \in Children : "SYNC" \in sigState'[x] => "SYNC" \in sigState[x]
        /\ \A x \in Threads : sleep'[x] = "running" <=> sleep[x] = "running"
    BY <1>3, SignalEffect DEF Abort, Sig!TypeOK
  <2>3. Kicked'
    BY <1>3, <2>2 DEF Abort, listVars
  <2> QED BY <1>3, <2>1, <2>2, <2>3 DEF Abort, listVars
<1>4. ASSUME Spawn PROVE ThreadInv'
  <2>1. Sig!TypeOK'
    BY <1>4, SignalsSame DEF Spawn
  <2>2. Counted'
    BY <1>4, CountSame DEF Spawn, listVars
  <2> QED BY <1>4, <2>1, <2>2 DEF Spawn, sigVars, listVars
<1>5. ASSUME AdoptThenKick PROVE ThreadInv'
  <2>1. CASE mpc = "adopt"
    <3>1. Sig!TypeOK'
      BY <1>5, <2>1, SignalsSame DEF AdoptThenKick
    <3>2. Counted'
      BY <1>5, <2>1, CountSame DEF AdoptThenKick
    <3> QED BY <1>5, <2>1, <3>1, <3>2 DEF AdoptThenKick, sigVars
  <2>2. CASE mpc = "kick"
    <3>1. Counted'
      BY <1>5, <2>2, CountSame DEF AdoptThenKick, listVars
    <3>2. subject \in Threads /\ Sig!Signal(subject, {"SYNC"})
      BY <1>5, <2>2 DEF AdoptThenKick
    <3>3. /\ Sig!TypeOK'
          /\ mask' = mask
          /\ \A x \in Children \ {subject} : sigState'[x] = sigState[x]
          /\ \A x \in Threads : sleep'[x] = "running" <=> sleep[x] = "running"
      BY <3>2, SignalEffect DEF Sig!TypeOK
    <3>4. Kicked'
      BY <1>5, <2>2, <3>3 DEF AdoptThenKick, listVars
    <3> QED BY <1>5, <2>2, <3>1, <3>3, <3>4 DEF AdoptThenKick, listVars
  <2> QED BY <1>5, <2>1, <2>2 DEF AdoptThenKick
<1>6. ASSUME ScanFinds PROVE ThreadInv'
  <2>1. Sig!TypeOK'
    BY <1>6, SignalsSame DEF ScanFinds
  <2>2. Counted'
    BY <1>6, CountSame DEF ScanFinds, listVars
  <2>3. Kicked'
    BY <1>6, <2>1 DEF ScanFinds, Removable, Unlist, sigVars, listVars
  <2> QED BY <1>6, <2>1, <2>2, <2>3 DEF ScanFinds, Removable, Unlist, sigVars, listVars
<1>7. ASSUME ScanFindsNot PROVE ThreadInv'
  <2>1. Sig!TypeOK'
    BY <1>7, SignalsSame DEF ScanFindsNot
  <2>2. Counted'
    BY <1>7, CountSame DEF ScanFindsNot, listVars
  <2> QED BY <1>7, <2>1, <2>2 DEF ScanFindsNot, sigVars, listVars
<1>8. ASSUME AwaitDeath PROVE ThreadInv'
  <2>1. Counted'
    BY <1>8, CountSame DEF AwaitDeath, listVars
  <2>2. /\ Sig!TypeOK'
        /\ \A x \in Threads : sigState'[x] \subseteq sigState[x]
        /\ \A x \in Threads \ {Main} : mask'[x] = mask[x] /\ sleep'[x] = sleep[x]
        /\ mask'[Main] = {"SYNC"}
        /\ sleep'[Main] = "running" => "SYNC" \in sigState[Main]
    <3>1. "SYNC" \in Signals /\ Sig!Wait(Main, {"SYNC"}, FALSE) /\ Main \in Threads /\ Sig!TypeOK
      BY <1>8 DEF AwaitDeath
    <3> HIDE DEF ThreadInv, TypeOK, HandlesLive, Subject, Kicked, Dead, Off, Signals, Threads
    <3> QED BY <3>1, WaitForOne
  <2>3. Kicked'
    BY <1>8, <2>2 DEF AwaitDeath, listVars
  <2> QED BY <1>8, <2>1, <2>2, <2>3 DEF AwaitDeath, listVars
<1>9. ASSUME Join PROVE ThreadInv'
  <2>1. Sig!TypeOK'
    BY <1>9, SignalsSame DEF Join
  <2>2. Counted'
    BY <1>9, CountSame DEF Join
  <2>3. Holders(subject) = {}
    BY <1>9, CountedHolders DEF Join, Counted
  <2>4. \A c \in Children : holds[c] # subject
    BY <2>3 DEF Holders
  <2> QED BY <1>9, <2>1, <2>2, <2>4 DEF Join, sigVars
<1>10. ASSUME Close PROVE ThreadInv'
  <2>1. Sig!TypeOK'
    BY <1>10, SignalsSame DEF Close
  <2>2. Counted'
    BY <1>10, CountSame DEF Close, listVars
  <2> QED BY <1>10, <2>1, <2>2 DEF Close, sigVars, listVars
<1>11. ASSUME NEW c \in Children, AwaitSync(c) PROVE ThreadInv'
  <2>1. Counted'
    BY <1>11, CountSame DEF AwaitSync, listVars
  <2>2. /\ Sig!TypeOK'
        /\ \A x \in Threads : sigState'[x] \subseteq sigState[x]
        /\ \A x \in Threads \ {c} : mask'[x] = mask[x] /\ sleep'[x] = sleep[x]
        /\ mask'[c] = {"SYNC"}
        /\ sleep'[c] = "running" => "SYNC" \in sigState[c]
    <3>1. "SYNC" \in Signals /\ Sig!Wait(c, {"SYNC"}, FALSE) /\ c \in Threads /\ Sig!TypeOK
      BY <1>11 DEF AwaitSync
    <3> HIDE DEF ThreadInv, TypeOK, HandlesLive, Subject, Kicked, Dead, Off, Signals, Threads
    <3> QED BY <3>1, WaitForOne
  <2>3. Kicked'
    BY <1>11, <2>2 DEF AwaitSync, listVars
  <2> QED BY <1>11, <2>1, <2>2, <2>3 DEF AwaitSync, listVars
<1>12. ASSUME NEW c \in Children, Run(c) PROVE ThreadInv'
  <2>1. Sig!TypeOK'
    BY <1>12, SignalsSame DEF Run
  <2>2. Counted'
    BY <1>12, CountSame DEF Run, listVars
  <2> QED BY <1>12, <2>1, <2>2 DEF Run, sigVars, listVars
<1>13. ASSUME NEW c \in Children, DropRef(c) PROVE ThreadInv'
  <2> DEFINE d == holds[c]
  <2>1. d \in Children /\ d \in handles
    BY <1>13 DEF DropRef
  <2>2. /\ Sig!TypeOK'
        /\ mask' = mask
        /\ \A x \in Children : sigState'[x] = sigState[x]
        /\ \A x \in Threads : sleep'[x] = "running" <=> sleep[x] = "running"
    <3>1. CASE UNCHANGED sigVars
      BY <3>1, SignalsSame DEF sigVars
    <3>2. CASE parent[d] = Main /\ Sig!Signal(Main, {"SYNC"})
      BY <3>2, SignalEffect DEF Sig!TypeOK
    <3> QED BY <1>13, <2>1, <3>1, <3>2 DEF DropRef, Unref
  <2>3. Counted' /\ refs[d] \in Nat \ {0}
    BY <1>13, <2>1, UnrefCounted DEF DropRef, Unref
  <2>4. mpc = "join" => subject # d
    BY <2>3
  <2>5. Kicked'
    BY <1>13, <2>1, <2>2, <2>3, <2>4 DEF DropRef, Unref
  <2> QED BY <1>13, <2>1, <2>2, <2>3, <2>4, <2>5 DEF DropRef, Unref
<1>14. ASSUME NEW c \in Children, AwaitAbort(c) PROVE ThreadInv'
  <2>1. Counted'
    BY <1>14, CountSame DEF AwaitAbort, listVars
  <2>2. /\ Sig!TypeOK'
        /\ \A x \in Threads : sigState'[x] \subseteq sigState[x]
        /\ \A x \in Threads \ {c} : mask'[x] = mask[x] /\ sleep'[x] = sleep[x]
        /\ mask'[c] = {"ABORT"}
        /\ sleep'[c] = "running" => "ABORT" \in sigState[c]
    <3>1. "ABORT" \in Signals /\ Sig!Wait(c, {"ABORT"}, FALSE) /\ c \in Threads /\ Sig!TypeOK
      BY <1>14 DEF AwaitAbort
    <3> HIDE DEF ThreadInv, TypeOK, HandlesLive, Subject, Kicked, Dead, Off, Signals, Threads
    <3> QED BY <3>1, WaitForOne
  <2>3. Kicked'
    BY <1>14, <2>2 DEF AwaitAbort, listVars
  <2> QED BY <1>14, <2>1, <2>2, <2>3 DEF AwaitAbort, listVars
<1>15. ASSUME NEW c \in Children, Return(c) PROVE ThreadInv'
  <2>1. Sig!TypeOK'
    BY <1>15, SignalsSame DEF Return
  <2>2. Counted'
    BY <1>15, CountSame DEF Return, listVars
  <2> QED BY <1>15, <2>1, <2>2 DEF Return, sigVars, listVars
<1>16. ASSUME NEW c \in Children, Die(c) PROVE ThreadInv'
  <2>1. Sig!TypeOK'
    BY <1>16, SignalsSame DEF Die
  <2>2. Counted'
    BY <1>16, CountSame DEF Die, listVars
  <2> QED BY <1>16, <2>1, <2>2 DEF Die, sigVars, listVars
<1>17. ASSUME NEW c \in Children, Notify(c) PROVE ThreadInv'
  <2>1. Counted'
    BY <1>17, CountSame DEF Notify, listVars
  <2>2. Sig!Signal(Main, {"SYNC"})
    BY <1>17 DEF Notify
  <2>3. /\ Sig!TypeOK'
        /\ mask' = mask
        /\ \A x \in Children : sigState'[x] = sigState[x]
        /\ \A x \in Threads : sleep'[x] = "running" <=> sleep[x] = "running"
    BY <2>2, SignalEffect DEF Sig!TypeOK
  <2>4. Kicked'
    BY <1>17, <2>3 DEF Notify, listVars
  <2> QED BY <1>17, <2>1, <2>3, <2>4 DEF Notify, listVars
<1>18. ASSUME NEW c \in Children, TakeRef(c) PROVE ThreadInv'
  <2>1. PICK d \in Children \ {c} : Ref(c, d)
    BY <1>18 DEF TakeRef
  <2>2. Sig!TypeOK'
    BY <2>1, SignalsSame DEF Ref
  <2>3. Counted'
    BY <1>18, <2>1, RefCounted DEF TakeRef, Ref
  <2> QED BY <1>18, <2>1, <2>2, <2>3 DEF TakeRef, Ref, sigVars
<1>19. ASSUME NEW x \in Threads, Resume(x) PROVE ThreadInv'
  <2>1. Counted'
    BY <1>19, CountSame DEF Resume, listVars
  <2> QED BY <1>19, <2>1, ResumeEffect DEF Resume, listVars
<1>20. ASSUME NEW x \in Threads, Spurious(x) PROVE ThreadInv'
  <2>1. Counted'
    BY <1>20, CountSame DEF Spurious, listVars
  <2>2. Sig!TypeOK'
    BY <1>20 DEF Spurious, Sig!SpuriousWakeup, Sig!TypeOK
  <2> QED BY <1>20, <2>1, <2>2 DEF Spurious, Sig!SpuriousWakeup, Sig!TypeOK, listVars
<1> QED BY <1>1, <1>2, <1>3, <1>4, <1>5, <1>6, <1>7, <1>8, <1>9, <1>10, <1>11, <1>12, <1>13,
           <1>14, <1>15, <1>16, <1>17, <1>18, <1>19, <1>20
        DEF Next, MainStep, ThreadStep, Terminated

-----------------------------------------------------------------------------
LEMMA ThreadInvHolds == Spec => []ThreadInv
BY InitThreadInv, StepThreadInv, PTL DEF Spec

\* Every variable of the threads and of their signals holds a value of its kind
\* (xpthread.c).
THEOREM ThreadTypes == Spec => []TypeOK
<1>1. ThreadInv => TypeOK
  BY DEF ThreadInv
<1> QED BY <1>1, ThreadInvHolds, PTL

\* No handle is used after it was freed, not by its thread and not by one that
\* refers to it, and a thread that runs its function has a parent to notify
\* (xp_destroythread, xp_createthread).
THEOREM NoneFreedInUse == Spec => []HandlesLive
<1>1. ThreadInv => HandlesLive
  BY DEF ThreadInv
<1> QED BY <1>1, ThreadInvHolds, PTL

\* The list of tasks can be walked at any time, and is empty when the library is
\* closed (xpthread_destroy), if every thread can be created.
THEOREM ListSound == Spec => [](ListLive /\ ListEmpty)
<1>1. ThreadInv => ListLive /\ ListEmpty
  BY DEF ThreadInv, Off, ListLive, ListEmpty
<1> QED BY <1>1, ThreadInvHolds, PTL

-----------------------------------------------------------------------------
(* Nobody waits for ever: the invariant.                                   *)

\* A handle is that of a thread, unless it is just being made, and on the list of
\* tasks, unless the thread is being joined.  Who is about to exit is dead, and who
\* has exited has told its parent.  Only who runs its function has a reference.
Life(c) ==
  /\ c \in handles => tpc[c] # "gone"
  /\ c \in handles /\ tpc[c] = "none" => mpc = "spawn" /\ subject = c
  /\ c \in handles => c \in tasks \/ (mpc = "join" /\ subject = c)
  /\ tpc[c] \in {"notify", "exited"} => status[c] = "dead"
  /\ tpc[c] = "exited" => parent[c] = Main
  /\ holds[c] # NoThread => tpc[c] = "body"

\* Nobody sleeps on what is pending, and each sleeps only where it waits.
Asleep ==
  /\ \A t \in Threads : sleep[t] = "asleep" => sigState[t] \cap mask[t] = {}
  /\ \A c \in Children : sleep[c] # "running" =>
       \/ tpc[c] = "sync" /\ mask[c] = {"SYNC"}
       \/ tpc[c] = "ending" /\ mask[c] = {"ABORT"}
  /\ sleep[Main] # "running" => mpc = "scan" /\ mask[Main] = {"SYNC"}

\* A thread that awaits SYNC to begin will get it, or has it.
LetGo(c) ==
  tpc[c] \in {"entry", "sync"} =>
    \/ mpc \in {"adopt", "kick"} /\ subject = c
    \/ "SYNC" \in sigState[c]
    \/ tpc[c] = "sync" /\ sleep[c] = "running"

\* That a thread is told to abort stays, until it is over.
ToldToAbort(c) ==
  \/ "ABORT" \in sigState[c]
  \/ tpc[c] = "ending" /\ sleep[c] = "running"
  \/ tpc[c] \in {"returned", "notify", "exited"}

\* Main does not go to sleep, or on sleeping, when the thread that it destroys is
\* over and nobody refers to it any more, whichever of the two came last.
DeathTold ==
  mpc = "wait" \/ (mpc = "scan" /\ sleep[Main] # "running") =>
    (tpc[subject] = "exited" /\ refs[subject] = 0 => "SYNC" \in sigState[Main])

LiveInv ==
  /\ Asleep /\ DeathTold
  /\ \A c \in Children : Life(c) /\ LetGo(c)
  /\ mpc \in {"scan", "wait"} => ToldToAbort(subject)

-----------------------------------------------------------------------------
(* Nobody waits for ever: what a step does to a single thread.             *)

Begins(t) == IF t = Main THEN AwaitDeath ELSE AwaitSync(t) \/ AwaitAbort(t)

\* In a step a thread waits, or is made, or is at most signalled.
Grows(t) ==
  /\ sigState[t] \subseteq sigState'[t] /\ mask'[t] = mask[t]
  /\ sleep'[t] = "running" <=> sleep[t] = "running"
  /\ sleep'[t] = "asleep" => sleep[t] = "asleep" /\ sigState'[t] = sigState[t]

Takes(t, m) ==
  /\ sigState'[t] = sigState[t] \ m /\ mask'[t] = m
  /\ sleep'[t] = IF sigState[t] \cap m = {} THEN "asleep" ELSE "running"

LEMMA OwnSignals ==
  ASSUME ThreadInv, [Next]_vars, NEW t \in Threads
  PROVE  \/ Grows(t)
         \/ t \in Children /\ Link(t)
         \/ /\ Begins(t) /\ sleep[t] = "running"
            /\ Takes(t, IF t # Main /\ tpc[t] = "body" THEN {"ABORT"} ELSE {"SYNC"})
         \/ sleep[t] = "woken" /\ Takes(t, mask[t])
<1> DEFINE Goal == \/ Grows(t)
                   \/ t \in Children /\ Link(t)
                   \/ /\ Begins(t) /\ sleep[t] = "running"
                      /\ Takes(t, IF t # Main /\ tpc[t] = "body" THEN {"ABORT"} ELSE {"SYNC"})
                   \/ sleep[t] = "woken" /\ Takes(t, mask[t])
<1>0. /\ Sig!TypeOK /\ Main \in Threads /\ \A c \in Children : c \in Threads /\ c # Main
      /\ {"SYNC"} \in SUBSET Signals /\ {"ABORT"} \in SUBSET Signals
  BY ThreadAssumption DEF ThreadInv, TypeOK, Threads, Signals
<1>1. UNCHANGED sigVars => Goal
  BY DEF sigVars, Grows
<1>2. ASSUME NEW c \in Children, Link(c) PROVE Goal
  <2>1. sigState' = [sigState EXCEPT ![c] = {}] /\ UNCHANGED <<sleep, mask, got>>
    BY <1>2 DEF Link
  <2>2. t # c => sigState'[t] = sigState[t]
    BY <1>0, <2>1 DEF Sig!TypeOK
  <2> QED BY <1>2, <2>1, <2>2 DEF Grows
<1>3. ASSUME NEW x \in Threads, NEW signals \in SUBSET Signals, Sig!Signal(x, signals)
      PROVE  Goal
  <2>1. /\ sigState' = [sigState EXCEPT ![x] = @ \cup signals] /\ mask' = mask
        /\ sleep'[t] = "running" <=> sleep[t] = "running"
    BY <1>0, <1>3, SignalEffect
  <2>2. sigState[t] \subseteq sigState'[t]
    BY <1>0, <2>1 DEF Sig!TypeOK
  <2>3. sleep'[t] = "asleep" => sleep[t] = "asleep" /\ sigState'[t] = sigState[t]
    BY <1>0, <1>3 DEF Sig!Signal, Sig!EventSignal, Sig!TypeOK
  <2> QED BY <2>1, <2>2, <2>3 DEF Grows
<1>4. ASSUME NEW x \in Threads, NEW m \in SUBSET Signals, Sig!Turn(x, m),
             mask' = [mask EXCEPT ![x] = m]
      PROVE  IF x = t THEN Takes(t, m) ELSE Grows(t)
  BY <1>0, <1>4 DEF Sig!Turn, Sig!TypeOK, Takes, Grows
<1>5. ASSUME NEW x \in Threads, Sig!Resume(x) PROVE Goal
  <2>1. mask[x] \in SUBSET Signals /\ mask' = [mask EXCEPT ![x] = mask[x]]
    BY <1>0, <1>5 DEF Sig!Resume, Sig!TypeOK
  <2>2. Sig!Turn(x, mask[x]) /\ sleep[x] = "woken"
    BY <1>5 DEF Sig!Resume
  <2> QED BY <1>4, <2>1, <2>2
<1>6. ASSUME NEW x \in Threads, Sig!SpuriousWakeup(x) PROVE Goal
  BY <1>0, <1>6 DEF Sig!SpuriousWakeup, Sig!TypeOK, Grows
<1>7. ASSUME NEW x \in Threads, NEW m \in SUBSET Signals, Sig!Wait(x, m, FALSE), Begins(x),
             m = IF x # Main /\ tpc[x] = "body" THEN {"ABORT"} ELSE {"SYNC"}
      PROVE  Goal
  <2>1. Sig!Turn(x, m) /\ mask' = [mask EXCEPT ![x] = m] /\ sleep[x] = "running"
    BY <1>7 DEF Sig!Wait
  <2>2. IF x = t THEN Takes(t, m) ELSE Grows(t)
    BY <1>4, <2>1
  <2> QED BY <1>7, <2>1, <2>2
<1>8. AwaitDeath => Goal
  <2>1. AwaitDeath => Sig!Wait(Main, {"SYNC"}, FALSE) /\ Begins(Main)
    BY DEF AwaitDeath, Begins
  <2> HIDE DEF Goal
  <2> QED BY <1>0, <1>7, <2>1
<1>9. ASSUME NEW c \in Children, AwaitSync(c) PROVE Goal
  <2>1. Sig!Wait(c, {"SYNC"}, FALSE) /\ Begins(c) /\ tpc[c] # "body"
    BY <1>0, <1>9 DEF AwaitSync, Begins
  <2> HIDE DEF Goal
  <2> QED BY <1>0, <1>7, <2>1
<1>10. ASSUME NEW c \in Children, AwaitAbort(c) PROVE Goal
  <2>1. Sig!Wait(c, {"ABORT"}, FALSE) /\ Begins(c) /\ tpc[c] = "body"
    BY <1>0, <1>10 DEF AwaitAbort, Begins
  <2> HIDE DEF Goal
  <2> QED BY <1>0, <1>7, <2>1
<1> HIDE DEF Goal
<1>11. ASSUME NEW c \in Children, Abort(c) PROVE Goal
  BY <1>0, <1>3, <1>11 DEF Abort
<1>12. AdoptThenKick => Goal
  <2>1. mpc = "kick" => subject \in Threads
    BY <1>0 DEF ThreadInv, Subject, TypeOK
  <2>2. AdoptThenKick => UNCHANGED sigVars \/ (mpc = "kick" /\ Sig!Signal(subject, {"SYNC"}))
    BY DEF AdoptThenKick
  <2> QED BY <1>0, <1>1, <1>3, <2>1, <2>2
<1>13. ASSUME NEW c \in Children, DropRef(c) PROVE Goal
  <2>1. holds[c] \in Children /\ parent[holds[c]] \in {Main, NoThread}
    BY <1>13 DEF DropRef, ThreadInv, TypeOK
  <2>2. UNCHANGED sigVars \/ Sig!Signal(Main, {"SYNC"})
    BY <1>13, <2>1 DEF DropRef, Unref
  <2> QED BY <1>0, <1>1, <1>3, <2>2
<1>14. ASSUME NEW c \in Children, Notify(c) PROVE Goal
  <2>1. Sig!Signal(Main, {"SYNC"})
    BY <1>14 DEF Notify, ThreadInv, HandlesLive
  <2> QED BY <1>0, <1>3, <2>1
<1>15. Spawn \/ ScanFinds \/ ScanFindsNot \/ Join \/ Close \/ Terminated \/ UNCHANGED vars => Goal
  BY <1>1 DEF Spawn, ScanFinds, ScanFindsNot, Join, Close, Terminated, vars
<1>16. ASSUME NEW c \in Children, Run(c) \/ Return(c) \/ Die(c) \/ TakeRef(c) PROVE Goal
  BY <1>1, <1>16 DEF Run, Return, Die, TakeRef, Ref
<1>17. ASSUME NEW c \in Children, ThreadStep(c) \/ TakeRef(c) \/ Link(c) \/ Abort(c) PROVE Goal
  BY <1>2, <1>9, <1>10, <1>11, <1>13, <1>14, <1>16, <1>17 DEF ThreadStep
<1>18. ASSUME NEW x \in Threads, Resume(x) \/ Spurious(x) PROVE Goal
  BY <1>5, <1>6, <1>18 DEF Resume, Spurious
<1>19. Goal
  BY <1>8, <1>12, <1>15, <1>17, <1>18 DEF Next, MainStep
<1> QED BY <1>19 DEF Goal

\* The life of a thread goes one way, and each of its steps is the thread's own,
\* but that it is made and, when it is over, joined.
LEMMA LifeStep ==
  ASSUME ThreadInv, [Next]_vars, NEW c \in Children
  PROVE  \/ tpc'[c] = tpc[c]
         \/ tpc[c] = "none" /\ tpc'[c] = "entry" /\ Spawn /\ subject = c
         \/ tpc[c] = "entry" /\ tpc'[c] = "sync" /\ AwaitSync(c)
         \/ tpc[c] = "sync" /\ tpc'[c] = "body" /\ Run(c)
         \/ tpc[c] = "body" /\ tpc'[c] = "ending" /\ AwaitAbort(c)
         \/ tpc[c] = "ending" /\ tpc'[c] = "returned" /\ Return(c)
         \/ tpc[c] = "returned" /\ tpc'[c] = "notify" /\ Die(c)
         \/ tpc[c] = "notify" /\ tpc'[c] = "exited" /\ Notify(c)
         \/ tpc[c] = "exited" /\ tpc'[c] = "gone" /\ Join /\ subject = c
<1> DEFINE Goal == \/ tpc'[c] = tpc[c]
                   \/ tpc[c] = "none" /\ tpc'[c] = "entry" /\ Spawn /\ subject = c
                   \/ tpc[c] = "entry" /\ tpc'[c] = "sync" /\ AwaitSync(c)
                   \/ tpc[c] = "sync" /\ tpc'[c] = "body" /\ Run(c)
                   \/ tpc[c] = "body" /\ tpc'[c] = "ending" /\ AwaitAbort(c)
                   \/ tpc[c] = "ending" /\ tpc'[c] = "returned" /\ Return(c)
                   \/ tpc[c] = "returned" /\ tpc'[c] = "notify" /\ Die(c)
                   \/ tpc[c] = "notify" /\ tpc'[c] = "exited" /\ Notify(c)
                   \/ tpc[c] = "exited" /\ tpc'[c] = "gone" /\ Join /\ subject = c
<1>0. tpc \in [Children -> {"none", "entry", "sync", "body", "ending",
                            "returned", "notify", "exited", "gone"}]
  BY DEF ThreadInv, TypeOK
<1>1. ASSUME NEW d \in Children, NEW old, NEW new, tpc[d] = old, tpc' = [tpc EXCEPT ![d] = new]
      PROVE  (d = c => tpc[c] = old /\ tpc'[c] = new) /\ (d # c => tpc'[c] = tpc[c])
  BY <1>0, <1>1
<1>2. ASSUME NEW d \in Children, AwaitSync(d) \/ Run(d) \/ AwaitAbort(d) PROVE Goal
  BY <1>1, <1>2 DEF AwaitSync, Run, AwaitAbort
<1>3. ASSUME NEW d \in Children, Return(d) \/ Die(d) \/ Notify(d) PROVE Goal
  BY <1>1, <1>3 DEF Return, Die, Notify
<1>4. Spawn => Goal
  BY <1>0 DEF Spawn, ThreadInv, Subject
<1>5. Join => Goal
  BY <1>0 DEF Join
<1>6. tpc' = tpc => Goal
  OBVIOUS
<1> HIDE DEF Goal
<1>7. ASSUME NEW d \in Children, Link(d) \/ Abort(d) \/ DropRef(d) \/ TakeRef(d) PROVE Goal
  BY <1>6, <1>7 DEF Link, Abort, DropRef, Unref, TakeRef, Ref
<1>8. AdoptThenKick \/ ScanFinds \/ ScanFindsNot \/ AwaitDeath \/ Close \/ Terminated
      \/ UNCHANGED vars => Goal
  BY <1>6 DEF AdoptThenKick, ScanFinds, ScanFindsNot, AwaitDeath, Close, Terminated, vars
<1>9. ASSUME NEW x \in Threads, Resume(x) \/ Spurious(x) PROVE Goal
  BY <1>6, <1>9 DEF Resume, Spurious
<1>10. Goal
  BY <1>2, <1>3, <1>4, <1>5, <1>7, <1>8, <1>9 DEF Next, MainStep, ThreadStep
<1> QED BY <1>10 DEF Goal

\* What Main's call is about, only Main changes.
LEMMA OthersLeaveMain ==
  ASSUME [Next]_vars PROVE MainStep \/ UNCHANGED <<mpc, subject, handles, tasks>>
<1>1. ASSUME NEW c \in Children, ThreadStep(c) \/ TakeRef(c)
      PROVE  UNCHANGED <<mpc, subject, handles, tasks>>
  BY <1>1 DEF ThreadStep, TakeRef, Ref, AwaitSync, Run, DropRef, Unref, AwaitAbort, Return, Die, Notify,
              listVars
<1>2. ASSUME NEW x \in Threads, Resume(x) \/ Spurious(x)
      PROVE  UNCHANGED <<mpc, subject, handles, tasks>>
  BY <1>2 DEF Resume, Spurious, listVars
<1>3. Terminated \/ UNCHANGED vars => UNCHANGED <<mpc, subject, handles, tasks>>
  BY DEF Terminated, vars, listVars
<1> QED BY <1>1, <1>2, <1>3 DEF Next

-----------------------------------------------------------------------------
(* Nobody waits for ever: every step keeps the invariant.                  *)

\* No reference is dropped but by who holds it, when it runs its function.
LEMMA RefsStep ==
  ASSUME ThreadInv, [Next]_vars, NEW d \in Children, refs'[d] = 0
  PROVE  \/ refs[d] = 0
         \/ Link(d)
         \/ \E c \in Children : DropRef(c) /\ holds[c] = d
<1> DEFINE Goal == \/ refs[d] = 0
                   \/ Link(d)
                   \/ \E c \in Children : DropRef(c) /\ holds[c] = d
<1>0. refs \in [Children -> Nat] /\ \A c \in Children : holds[c] \in Children \cup {NoThread}
  BY DEF ThreadInv, TypeOK
<1>1. refs' = refs => Goal
  OBVIOUS
<1>2. ASSUME NEW c \in Children, Link(c) PROVE Goal
  BY <1>0, <1>2 DEF Link
<1>3. ASSUME NEW c \in Children, TakeRef(c) PROVE Goal
  <2>1. PICK e \in Children : refs' = [refs EXCEPT ![e] = @ + 1]
    BY <1>3 DEF TakeRef, Ref
  <2> QED BY <1>0, <2>1
<1>4. ASSUME NEW c \in Children, DropRef(c) PROVE Goal
  <2>1. holds[c] # d => refs'[d] = refs[d]
    BY <1>0, <1>4 DEF DropRef, Unref
  <2> QED BY <1>4, <2>1
<1> HIDE DEF Goal
<1>5. ASSUME NEW c \in Children, ThreadStep(c) PROVE Goal
  BY <1>1, <1>4, <1>5 DEF ThreadStep, AwaitSync, Run, AwaitAbort, Return, Die, Notify, listVars
<1>6. MainStep => Goal
  BY <1>1, <1>2 DEF MainStep, Abort, Spawn, AdoptThenKick, ScanFinds, ScanFindsNot, AwaitDeath,
                    Join, Close, listVars
<1>7. ASSUME NEW x \in Threads, Resume(x) \/ Spurious(x) PROVE Goal
  BY <1>1, <1>7 DEF Resume, Spurious, listVars
<1>8. Terminated \/ UNCHANGED vars => Goal
  BY <1>1 DEF Terminated, vars, listVars
<1>9. Goal
  BY <1>3, <1>5, <1>6, <1>7, <1>8 DEF Next
<1> QED BY <1>9 DEF Goal

LEMMA StepLife ==
  ASSUME ThreadInv, [Next]_vars, NEW c \in Children, Life(c)
  PROVE  Life(c)'
<1> USE DEF Life
<1>0. /\ TypeOK /\ Main # NoThread
      /\ tpc \in [Children -> {"none", "entry", "sync", "body", "ending",
                               "returned", "notify", "exited", "gone"}]
      /\ status \in [Children -> {"init", "run", "dead"}]
      /\ parent \in [Children -> {Main, NoThread}]
      /\ holds \in [Children -> Children \cup {NoThread}]
  BY ThreadAssumption DEF ThreadInv, TypeOK
<1>1. UNCHANGED <<listVars, tpc, mpc, subject>> => Life(c)'
  BY DEF listVars
<1>2. ASSUME NEW d \in Children, Link(d) PROVE Life(c)'
  BY <1>0, <1>2 DEF Link
<1>3. ASSUME NEW d \in Children, Abort(d) PROVE Life(c)'
  BY <1>0, <1>3 DEF Abort, listVars
<1>4. Spawn => Life(c)'
  BY <1>0 DEF Spawn, listVars, ThreadInv, Subject
<1>5. AdoptThenKick => Life(c)'
  BY <1>0 DEF AdoptThenKick, listVars, ThreadInv, Subject
<1>6. ScanFinds => Life(c)'
  BY <1>0 DEF ScanFinds, Unlist
<1>7. ScanFindsNot \/ AwaitDeath \/ Close => Life(c)'
  BY <1>0 DEF ScanFindsNot, AwaitDeath, Close, listVars
<1>8. Join => Life(c)'
  BY <1>0 DEF Join
<1>9. ASSUME NEW d \in Children, AwaitSync(d) \/ AwaitAbort(d) \/ Return(d) PROVE Life(c)'
  BY <1>0, <1>9 DEF AwaitSync, AwaitAbort, Return, listVars
<1>10. ASSUME NEW d \in Children, Run(d) \/ Die(d) PROVE Life(c)'
  BY <1>0, <1>10 DEF Run, Die
<1>11. ASSUME NEW d \in Children, Notify(d) PROVE Life(c)'
  BY <1>0, <1>11 DEF Notify, listVars, ThreadInv, HandlesLive
<1>12. ASSUME NEW d \in Children, DropRef(d) PROVE Life(c)'
  BY <1>0, <1>12 DEF DropRef, Unref
<1>13. ASSUME NEW d \in Children, TakeRef(d) PROVE Life(c)'
  BY <1>0, <1>13 DEF TakeRef, Ref
<1>14. ASSUME NEW x \in Threads, Resume(x) \/ Spurious(x) PROVE Life(c)'
  BY <1>1, <1>14 DEF Resume, Spurious
<1>15. Terminated \/ UNCHANGED vars => Life(c)'
  BY <1>1 DEF Terminated, vars
<1> HIDE DEF Life
<1> QED BY <1>2, <1>3, <1>4, <1>5, <1>6, <1>7, <1>8, <1>9, <1>10, <1>11, <1>12, <1>13, <1>14, <1>15
        DEF Next, MainStep, ThreadStep

LEMMA StepAsleep ==
  ASSUME ThreadInv, [Next]_vars, Asleep
  PROVE  Asleep'
<1>0. /\ Main \in Threads /\ \A c \in Children : c \in Threads /\ c # Main
      /\ TypeOK
  BY ThreadAssumption DEF Threads, ThreadInv
<1>1. ASSUME NEW t \in Threads, sleep'[t] = "asleep" PROVE sigState'[t] \cap mask'[t] = {}
  <2>1. CASE Grows(t)
    BY <1>1, <2>1 DEF Grows, Asleep
  <2>2. CASE t \in Children /\ Link(t)
    <3>1. sleep[t] = "running" /\ sleep' = sleep
      BY <2>2 DEF Link, ThreadInv, Kicked
    <3> QED BY <1>1, <3>1
  <2>3. ASSUME NEW m, Takes(t, m) PROVE sigState'[t] \cap mask'[t] = {}
    BY <1>1, <2>3 DEF Takes
  <2> QED BY <2>1, <2>2, <2>3, OwnSignals
<1>2. ASSUME NEW c \in Children, sleep'[c] # "running"
      PROVE  \/ tpc'[c] = "sync" /\ mask'[c] = {"SYNC"}
             \/ tpc'[c] = "ending" /\ mask'[c] = {"ABORT"}
  <2>1. CASE sleep[c] # "running"
    <3>1. ~Link(c)
      BY <2>1 DEF Link, ThreadInv, Kicked
    <3>2. mask'[c] = mask[c]
      BY <1>0, <2>1, <3>1, OwnSignals DEF Grows, Takes
    <3>3. tpc[c] \in {"sync", "ending"} => tpc'[c] = tpc[c]
      BY <2>1, LifeStep DEF Run, Return, Awake
    <3> QED BY <2>1, <3>2, <3>3 DEF Asleep
  <2>2. CASE sleep[c] = "running"
    <3>1. ~Link(c)
      BY <1>2, <2>2 DEF Link
    <3>2. /\ AwaitSync(c) \/ AwaitAbort(c)
          /\ mask'[c] = IF tpc[c] = "body" THEN {"ABORT"} ELSE {"SYNC"}
      BY <1>0, <1>2, <2>2, <3>1, OwnSignals DEF Begins, Grows, Takes
    <3>3. AwaitSync(c) => tpc[c] = "entry" /\ tpc'[c] = "sync"
      BY <1>0 DEF AwaitSync, TypeOK
    <3>4. AwaitAbort(c) => tpc[c] = "body" /\ tpc'[c] = "ending"
      BY <1>0 DEF AwaitAbort, TypeOK
    <3> QED BY <3>2, <3>3, <3>4
  <2> QED BY <2>1, <2>2
<1>3. ASSUME sleep'[Main] # "running" PROVE mpc' = "scan" /\ mask'[Main] = {"SYNC"}
  <2>1. CASE sleep[Main] # "running"
    <3>1. mpc = "scan" /\ mask[Main] = {"SYNC"}
      BY <2>1 DEF Asleep
    <3>2. mask'[Main] = mask[Main]
      BY <1>0, <2>1, OwnSignals DEF Grows, Takes
    <3>3. ~MainStep
      BY <2>1, <3>1 DEF MainStep, Link, Abort, Spawn, AdoptThenKick, ScanFinds, ScanFindsNot,
                        AwaitDeath, Join, Close, Awake
    <3> QED BY <3>1, <3>2, <3>3, OthersLeaveMain
  <2>2. CASE sleep[Main] = "running"
    <3>1. AwaitDeath /\ mask'[Main] = {"SYNC"}
      BY <1>0, <1>3, <2>2, OwnSignals DEF Begins, Grows, Takes
    <3> QED BY <3>1 DEF AwaitDeath
  <2> QED BY <2>1, <2>2
<1> QED BY <1>1, <1>2, <1>3 DEF Asleep

LEMMA StepLetGo ==
  ASSUME ThreadInv, [Next]_vars, Asleep, NEW c \in Children, LetGo(c)
  PROVE  LetGo(c)'
<1> SUFFICES ASSUME tpc'[c] \in {"entry", "sync"}
             PROVE  \/ mpc' \in {"adopt", "kick"} /\ subject' = c
                    \/ "SYNC" \in sigState'[c]
                    \/ tpc'[c] = "sync" /\ sleep'[c] = "running"
  BY DEF LetGo
<1>0. c \in Threads /\ c # Main /\ TypeOK /\ Sig!TypeOK
  BY ThreadAssumption DEF Threads, ThreadInv, TypeOK
<1>1. CASE Spawn /\ subject = c
  BY <1>1 DEF Spawn
<1>2. CASE mpc \in {"adopt", "kick"} /\ subject = c
  <2>1. CASE AdoptThenKick
    <3>1. mpc = "kick" => "SYNC" \in sigState'[c]
      <4>1. mpc = "kick" => Sig!Signal(c, {"SYNC"})
        BY <1>2, <2>1 DEF AdoptThenKick
      <4>2. {"SYNC"} \in SUBSET Signals
        BY DEF Signals
      <4>3. mpc = "kick" => sigState' = [sigState EXCEPT ![c] = @ \cup {"SYNC"}]
        BY <1>0, <4>1, <4>2, SignalEffect
      <4> QED BY <1>0, <4>3 DEF Sig!TypeOK
    <3>2. mpc = "adopt" => mpc' = "kick" /\ subject' = c
      BY <1>2, <2>1 DEF AdoptThenKick
    <3> QED BY <1>2, <3>1, <3>2
  <2>2. AdoptThenKick \/ UNCHANGED <<mpc, subject>>
    BY <1>2, OthersLeaveMain
    DEF MainStep, Link, Abort, Spawn, ScanFinds, ScanFindsNot, AwaitDeath, Join, Close
  <2> QED BY <1>2, <2>1, <2>2
<1>3. CASE tpc[c] \in {"entry", "sync"} /\ "SYNC" \in sigState[c]
  <2>1. CASE Grows(c)
    BY <1>3, <2>1 DEF Grows
  <2>2. ~Link(c)
    BY <1>3 DEF Link
  <2>3. ASSUME Begins(c), Takes(c, IF c # Main /\ tpc[c] = "body" THEN {"ABORT"} ELSE {"SYNC"})
        PROVE  tpc'[c] = "sync" /\ sleep'[c] = "running"
    <3>1. AwaitSync(c)
      BY <1>0, <1>3, <2>3 DEF Begins, AwaitAbort
    <3>2. tpc'[c] = "sync"
      BY <1>0, <3>1 DEF AwaitSync, TypeOK
    <3>3. Takes(c, {"SYNC"})
      BY <1>3, <2>3
    <3> QED BY <1>3, <3>2, <3>3 DEF Takes
  <2>4. ASSUME sleep[c] = "woken", Takes(c, mask[c])
        PROVE  tpc'[c] = "sync" /\ sleep'[c] = "running"
    <3>1. tpc[c] = "sync" /\ mask[c] = {"SYNC"}
      BY <1>3, <2>4 DEF Asleep
    <3>2. tpc'[c] = "sync"
      BY <2>4, <3>1, LifeStep DEF Run, Awake
    <3> QED BY <1>3, <2>4, <3>1, <3>2 DEF Takes
  <2> QED BY <1>0, <2>1, <2>2, <2>3, <2>4, OwnSignals
<1>4. CASE tpc[c] = "sync" /\ sleep[c] = "running"
  <2>1. ~Link(c) /\ ~Begins(c)
    BY <1>0, <1>4 DEF Link, Begins, AwaitSync, AwaitAbort
  <2>2. sleep'[c] = "running"
    BY <1>0, <1>4, <2>1, OwnSignals DEF Grows
  <2>3. tpc'[c] = "sync"
    BY <1>4, LifeStep
  <2> QED BY <2>2, <2>3
<1>5. tpc[c] \in {"entry", "sync"} \/ (Spawn /\ subject = c)
  BY LifeStep
<1> QED BY <1>1, <1>2, <1>3, <1>4, <1>5 DEF LetGo

LEMMA ToldStays ==
  ASSUME ThreadInv, [Next]_vars, Asleep, NEW c \in Children, ToldToAbort(c)
  PROVE  ToldToAbort(c)' \/ (Join /\ subject = c) \/ Link(c)
<1>0. c \in Threads /\ c # Main /\ TypeOK
  BY ThreadAssumption DEF Threads, ThreadInv
<1>1. CASE "ABORT" \in sigState[c]
  <2>1. CASE Grows(c)
    BY <1>1, <2>1 DEF Grows, ToldToAbort
  <2>2. ASSUME Begins(c), Takes(c, IF c # Main /\ tpc[c] = "body" THEN {"ABORT"} ELSE {"SYNC"})
        PROVE  ToldToAbort(c)'
    <3>1. CASE AwaitSync(c)
      <4>1. Takes(c, {"SYNC"})
        BY <2>2, <3>1 DEF AwaitSync
      <4> QED BY <1>1, <4>1 DEF Takes, ToldToAbort
    <3>2. CASE AwaitAbort(c)
      <4>1. Takes(c, {"ABORT"})
        BY <1>0, <2>2, <3>2 DEF AwaitAbort
      <4>2. tpc'[c] = "ending"
        BY <1>0, <3>2 DEF AwaitAbort, TypeOK
      <4> QED BY <1>1, <4>1, <4>2 DEF Takes, ToldToAbort
    <3> QED BY <1>0, <2>2, <3>1, <3>2 DEF Begins
  <2>3. ASSUME sleep[c] = "woken", Takes(c, mask[c]) PROVE ToldToAbort(c)'
    <3>1. CASE mask[c] = {"SYNC"}
      BY <1>1, <2>3, <3>1 DEF Takes, ToldToAbort
    <3>2. CASE tpc[c] = "ending" /\ mask[c] = {"ABORT"}
      <4>1. tpc'[c] = "ending"
        BY <2>3, <3>2, LifeStep DEF Return, Awake
      <4> QED BY <1>1, <2>3, <3>2, <4>1 DEF Takes, ToldToAbort
    <3> QED BY <2>3, <3>1, <3>2 DEF Asleep
  <2> QED BY <1>0, <2>1, <2>2, <2>3, OwnSignals
<1>2. CASE tpc[c] = "ending" /\ sleep[c] = "running"
  <2>1. ~Link(c) /\ ~Begins(c)
    BY <1>0, <1>2 DEF Link, Begins, AwaitSync, AwaitAbort
  <2>2. sleep'[c] = "running"
    BY <1>0, <1>2, <2>1, OwnSignals DEF Grows
  <2>3. tpc'[c] \in {"ending", "returned"}
    BY <1>2, LifeStep
  <2> QED BY <2>2, <2>3 DEF ToldToAbort
<1>3. CASE tpc[c] \in {"returned", "notify", "exited"}
  BY <1>3, LifeStep DEF ToldToAbort
<1> QED BY <1>1, <1>2, <1>3 DEF ToldToAbort

\* The call of xp_destroythread goes on, or begins with the signal.
LEMMA CallStep ==
  ASSUME [Next]_vars, mpc' \in {"scan", "wait"}
  PROVE  \/ mpc \in {"scan", "wait"} /\ UNCHANGED <<subject, handles>>
         \/ \E c \in Children : Abort(c)
<1>1. ASSUME NEW c \in Children, Link(c) PROVE FALSE
  BY <1>1 DEF Link
<1>2. MainStep => \/ mpc \in {"scan", "wait"} /\ UNCHANGED <<subject, handles>>
                  \/ \E c \in Children : Abort(c)
  BY <1>1 DEF MainStep, Spawn, AdoptThenKick, ScanFinds, ScanFindsNot, AwaitDeath, Join, Close,
              listVars
<1> QED BY <1>2, OthersLeaveMain

LEMMA StepTold ==
  ASSUME ThreadInv, [Next]_vars, Asleep, mpc \in {"scan", "wait"} => ToldToAbort(subject)
  PROVE  (mpc \in {"scan", "wait"} => ToldToAbort(subject))'
<1> SUFFICES ASSUME mpc' \in {"scan", "wait"} PROVE ToldToAbort(subject)'
  OBVIOUS
<1>1. CASE mpc \in {"scan", "wait"} /\ UNCHANGED <<subject, handles>>
  <2>1. subject \in Children /\ ToldToAbort(subject)
    BY <1>1 DEF ThreadInv, Subject, TypeOK
  <2>2. ~Join /\ ~Link(subject)
    BY <1>1 DEF Join, Link
  <2>3. PICK c \in Children : c = subject
    BY <2>1
  <2>4. ToldToAbort(c)'
    BY <2>1, <2>2, <2>3, ToldStays
  <2> QED BY <1>1, <2>3, <2>4 DEF ToldToAbort
<1>2. ASSUME NEW c \in Children, Abort(c) PROVE ToldToAbort(subject)'
  <2>1. Sig!TypeOK /\ c \in Threads /\ {"ABORT"} \in SUBSET Signals
    BY DEF ThreadInv, TypeOK, Threads, Signals
  <2>2. sigState' = [sigState EXCEPT ![c] = @ \cup {"ABORT"}] /\ subject' = c
    BY <1>2, <2>1, SignalEffect DEF Abort
  <2>3. "ABORT" \in sigState'[c]
    BY <2>1, <2>2 DEF Sig!TypeOK
  <2> QED BY <2>2, <2>3 DEF ToldToAbort
<1> QED BY <1>1, <1>2, CallStep

\* A signal sent to Main is pending with it.
LEMMA MainTold ==
  ASSUME ThreadInv, Sig!Signal(Main, {"SYNC"}) PROVE "SYNC" \in sigState'[Main]
<1>1. Sig!TypeOK /\ Main \in Threads /\ {"SYNC"} \in SUBSET Signals
  BY DEF ThreadInv, TypeOK, Threads, Signals
<1>2. sigState' = [sigState EXCEPT ![Main] = @ \cup {"SYNC"}]
  BY <1>1, SignalEffect
<1> QED BY <1>1, <1>2 DEF Sig!TypeOK

LEMMA StepDeathTold ==
  ASSUME ThreadInv, [Next]_vars, Asleep, DeathTold, \A c \in Children : Life(c)
  PROVE  DeathTold'
<1> SUFFICES ASSUME mpc' = "wait" \/ (mpc' = "scan" /\ sleep'[Main] # "running"),
                    tpc'[subject'] = "exited", refs'[subject'] = 0
             PROVE  "SYNC" \in sigState'[Main]
  BY DEF DeathTold
<1>0. Main \in Threads /\ TypeOK /\ \A c \in Children : c # Main
  BY ThreadAssumption DEF Threads, ThreadInv
<1>1. ~\E c \in Children : Abort(c)
  <2>1. ASSUME NEW c \in Children, Abort(c) PROVE FALSE
    <3>1. sleep[Main] = "running" /\ mpc' = "scan"
      BY <2>1 DEF Abort, Asleep
    <3>2. ~Begins(Main)
      BY <2>1 DEF Begins, Abort, AwaitDeath
    <3>3. sleep'[Main] = "running"
      BY <1>0, <3>1, <3>2, OwnSignals DEF Grows
    <3> QED BY <3>1, <3>3
  <2> QED BY <2>1
<1>2. mpc \in {"scan", "wait"} /\ UNCHANGED <<subject, handles>>
  BY <1>1, CallStep
<1>3. PICK s \in Children : s = subject /\ s = subject' /\ s \in handles
  BY <1>2 DEF ThreadInv, Subject, TypeOK
<1>4. tpc'[s] = "exited" /\ refs'[s] = 0
  BY <1>3
<1>5. ~Link(s)
  BY <1>3 DEF Link
<1>6. CASE Notify(s)
  <2>1. Sig!Signal(Main, {"SYNC"})
    BY <1>6 DEF Notify, ThreadInv, HandlesLive
  <2> QED BY <2>1, MainTold
<1>7. CASE tpc[s] = "exited" /\ \E c \in Children : DropRef(c) /\ holds[c] = s
  <2>1. PICK c \in Children : DropRef(c) /\ holds[c] = s
    BY <1>7
  <2>2. Unref(c, s) /\ refs' = [refs EXCEPT ![s] = @ - 1]
    BY <2>1 DEF DropRef, Unref
  <2>3. PICK r \in Nat : r = refs[s]
    BY <1>0 DEF TypeOK
  <2>4. refs[s] = 1
    BY <1>0, <1>4, <2>2, <2>3 DEF TypeOK
  <2>5. parent[s] = Main /\ Main # NoThread
    BY <1>7, ThreadAssumption DEF Life
  <2>6. Sig!Signal(Main, {"SYNC"})
    BY <2>2, <2>4, <2>5 DEF Unref
  <2> QED BY <2>6, MainTold
<1>8. CASE tpc[s] = "exited" /\ refs[s] = 0
  <2>1. ~ScanFindsNot
    <3>1. mpc = "scan" => Removable(s)
      BY <1>3, <1>8 DEF Removable, Life
    <3> QED BY <1>3, <3>1 DEF ScanFindsNot
  <2>2. CASE mpc = "wait" \/ sleep[Main] # "running"
    <3>1. "SYNC" \in sigState[Main]
      BY <1>2, <1>3, <1>8, <2>2 DEF DeathTold
    <3>2. CASE Grows(Main)
      BY <3>1, <3>2 DEF Grows
    <3>3. ASSUME Takes(Main, {"SYNC"}) PROVE FALSE
      <4>1. sleep'[Main] = "running"
        BY <3>1, <3>3 DEF Takes
      <4>2. mpc' = "wait" /\ mpc = "wait"
        BY <1>2, <2>2, <4>1, OthersLeaveMain DEF MainStep, Link, Abort, Spawn, AdoptThenKick,
           ScanFinds, ScanFindsNot, AwaitDeath, Join, Close, Awake
      <4>3. sleep[Main] = "running"
        BY <4>2 DEF Asleep
      <4>4. ~Begins(Main)
        BY <4>2 DEF Begins, AwaitDeath
      <4> QED BY <1>0, <3>1, <3>3, <4>3, <4>4, OwnSignals DEF Grows, Takes
    <3>4. sleep[Main] = "woken" => mask[Main] = {"SYNC"}
      BY DEF Asleep
    <3> QED BY <1>0, <3>2, <3>3, <3>4, OwnSignals
  <2>3. CASE mpc = "scan" /\ sleep[Main] = "running"
    <3>1. ~AwaitDeath
      BY <2>3 DEF AwaitDeath
    <3>2. sleep'[Main] = "running"
      BY <1>0, <2>3, <3>1, OwnSignals DEF Begins, Grows
    <3>3. mpc' = "scan"
      BY <1>1, <1>2, <2>1, <2>3, <3>1, OthersLeaveMain
      DEF MainStep, Link, Spawn, AdoptThenKick, ScanFinds, Join, Close
    <3> QED BY <3>2, <3>3
  <2> QED BY <1>2, <2>2, <2>3
<1>9. Notify(s) \/ tpc[s] = "exited"
  BY <1>4, LifeStep
<1>10. refs[s] = 0 \/ \E c \in Children : DropRef(c) /\ holds[c] = s
  BY <1>4, <1>5, RefsStep
<1> QED BY <1>6, <1>7, <1>8, <1>9, <1>10

LEMMA InitLiveInv == Init => LiveInv
<1> SUFFICES ASSUME Init PROVE LiveInv
  OBVIOUS
<1>1. \A c \in Children : c \in Threads
  BY DEF Threads
<1>2. Main \in Threads
  BY DEF Threads
<1> QED BY <1>1, <1>2 DEF Init, Sig!Init, LiveInv, Asleep, DeathTold, Life, LetGo

LEMMA StepLiveInv == ThreadInv /\ LiveInv /\ [Next]_vars => LiveInv'
<1> SUFFICES ASSUME ThreadInv, LiveInv, [Next]_vars PROVE LiveInv'
  OBVIOUS
<1>1. Asleep'
  BY StepAsleep DEF LiveInv
<1>2. DeathTold'
  BY StepDeathTold DEF LiveInv
<1>3. \A c \in Children : Life(c)'
  BY StepLife DEF LiveInv
<1>4. \A c \in Children : LetGo(c)'
  BY StepLetGo DEF LiveInv
<1>5. (mpc \in {"scan", "wait"} => ToldToAbort(subject))'
  BY StepTold DEF LiveInv
<1> QED BY <1>1, <1>2, <1>3, <1>4, <1>5 DEF LiveInv

LEMMA LiveInvHolds == Spec => [](ThreadInv /\ LiveInv)
<1>1. Init => ThreadInv /\ LiveInv
  BY InitThreadInv, InitLiveInv
<1>2. ThreadInv /\ LiveInv /\ [Next]_vars => (ThreadInv /\ LiveInv)'
  BY StepThreadInv, StepLiveInv
<1> QED BY <1>1, <1>2, PTL DEF Spec

-----------------------------------------------------------------------------
(* Nobody waits for ever: the theorem.                                     *)

\* Thread t can go on without a spurious wakeup: it is not asleep (unless its
\* condition was signalled), it is not over, and if it is Main about to join a
\* thread, that one is over.
Going(t) ==
  IF t = Main
    THEN sleep[Main] # "asleep" /\ (mpc = "join" => tpc[subject] = "exited")
    ELSE sleep[t] # "asleep" /\ tpc[t] \notin {"none", "exited", "gone"}

NoDeadlock == mpc = "closed" \/ \E t \in Threads : Going(t)

\* When Main sleeps, the thread it destroys goes on, told to abort, or one that
\* refers to it does, which drops its reference before it waits.
LEMMA SomeoneGoes ==
  ASSUME ThreadInv, LiveInv PROVE NoDeadlock
<1> SUFFICES ASSUME mpc # "closed", ~Going(Main) PROVE \E c \in Children : Going(c)
  BY DEF NoDeadlock, Threads
<1>0. TypeOK /\ \A c \in Children : c # Main
  BY ThreadAssumption DEF ThreadInv
<1>1. CASE sleep[Main] = "asleep"
  <2>1. mpc = "scan" /\ "SYNC" \notin sigState[Main]
    BY <1>1 DEF LiveInv, Asleep, Threads
  <2>2. PICK s \in Children : s = subject /\ s \in handles
    BY <2>1 DEF ThreadInv, Subject, TypeOK
  <2>3. CASE refs[s] # 0
    <3>1. Holders(s) # {}
      BY <1>0, <2>3, CountedHolders DEF ThreadInv, Counted
    <3>2. PICK c \in Children : holds[c] = s
      BY <3>1 DEF Holders
    <3>3. tpc[c] = "body"
      BY <2>2, <3>2, ThreadAssumption DEF LiveInv, Life
    <3>4. sleep[c] = "running"
      BY <3>3 DEF LiveInv, Asleep
    <3> QED BY <1>0, <3>3, <3>4 DEF Going
  <2>4. CASE refs[s] = 0
    <3>1. tpc[s] # "exited"
      BY <1>1, <2>1, <2>2, <2>4 DEF LiveInv, DeathTold
    <3>2. tpc[s] \notin {"none", "gone"}
      BY <2>1, <2>2 DEF LiveInv, Life
    <3>3. ToldToAbort(s)
      BY <2>1, <2>2 DEF LiveInv
    <3>4. sleep[s] # "asleep"
      <4>1. SUFFICES ASSUME sleep[s] = "asleep" PROVE FALSE
        OBVIOUS
      <4>2. sigState[s] \cap mask[s] = {}
        BY <4>1 DEF LiveInv, Asleep, Threads
      <4>3. CASE tpc[s] = "sync" /\ mask[s] = {"SYNC"}
        BY <2>1, <4>1, <4>2, <4>3 DEF LiveInv, LetGo
      <4>4. CASE tpc[s] = "ending" /\ mask[s] = {"ABORT"}
        BY <3>3, <4>1, <4>2, <4>4 DEF ToldToAbort
      <4> QED BY <4>1, <4>3, <4>4 DEF LiveInv, Asleep
    <3> QED BY <1>0, <3>1, <3>2, <3>4 DEF Going
  <2> QED BY <2>3, <2>4
<1>2. CASE mpc = "join" /\ tpc[subject] # "exited"
  <2>1. PICK s \in Children : s = subject /\ s \in handles
    BY <1>2 DEF ThreadInv, Subject, TypeOK
  <2>2. tpc[s] = "notify"
    BY <1>2, <2>1 DEF ThreadInv, Off, Dead, LiveInv, Life
  <2>3. sleep[s] = "running"
    BY <2>2 DEF LiveInv, Asleep
  <2> QED BY <1>0, <2>2, <2>3 DEF Going
<1> QED BY <1>1, <1>2 DEF Going

\* No death is missed although all children share one SYNC: until the library is
\* closed there is always a thread that can go on, whoever else waits, so that
\* xp_destroythread never waits for a thread that is over and for references that
\* have all been given back (xpthread.c:900-904, 818-823), and no thread for a
\* SYNC or an ABORT that was sent before it went to sleep.
THEOREM NoDeathMissed == Spec => []NoDeadlock
<1>1. ThreadInv /\ LiveInv => NoDeadlock
  BY SomeoneGoes
<1> QED BY <1>1, LiveInvHolds, PTL
=============================================================================
