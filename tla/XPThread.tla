------------------------------ MODULE XPThread ------------------------------
(***************************************************************************)
(* The life of the threads of the xpthread library (xpthread.c:            *)
(* xp_createthread, xpi_threadentry, xp_destroythread, xp_refthread,       *)
(* xp_unrefthread, xpthread_destroy).                                      *)
(*                                                                         *)
(* The base thread Main creates and destroys the other threads.  A thread  *)
(* waits for the signal SYNC before it runs its function, and when it is   *)
(* over it becomes DEAD and sends SYNC to its parent.  Whoever destroys it *)
(* looks for it, DEAD and not referenced, on the list of tasks, and waits  *)
(* for SYNC when it does not find it so.  SYNC says only that some thread  *)
(* may have died: it is one bit, for all children.                         *)
(*                                                                         *)
(* A section under xpi_BaseLock is one step.  What is kept in a struct     *)
(* XPThread exists while its thread is in handles.                         *)
(***************************************************************************)
EXTENDS Naturals, FiniteSets

CONSTANTS Main, Children, NoThread

ASSUME ThreadAssumption ==
  /\ IsFiniteSet(Children)
  /\ Main \notin Children
  /\ NoThread \notin Children \cup {Main}

VARIABLES
  sigState, sleep, mask, timed, got,  \* see XPSignal
  tasks,    \* xpi_Tasks, the base thread left out
  handles,  \* the threads whose struct XPThread is allocated
  status,   \* xpt_Status
  parent,   \* xpt_Parent
  refs,     \* xpt_RefCount
  holds,    \* the thread each thread has a reference to, in these clients
  tpc,      \* where each child is in xpi_threadentry, "none" without a thread
  mpc,      \* where Main is in xp_createthread and xp_destroythread
  subject   \* the thread of Main's call

Threads == Children \cup {Main}
\* The reserved signals, and the one binsort takes for its own use.
Signals == {"SYNC", "USER", "ABORT", "UPDATE"}

Sig == INSTANCE XPSignal

sigVars == <<sigState, sleep, mask, timed, got>>
listVars == <<tasks, handles, status, parent, refs, holds>>
vars == <<sigVars, listVars, tpc, mpc, subject>>

Init ==
  /\ Sig!Init
  /\ tasks = {}
  /\ handles = {}
  /\ status = [c \in Children |-> "init"]
  /\ parent = [c \in Children |-> NoThread]
  /\ refs = [c \in Children |-> 0]
  /\ holds = [c \in Children |-> NoThread]
  /\ tpc = [c \in Children |-> "none"]
  /\ mpc = "idle"
  /\ subject = NoThread

Awake(x) == sleep[x] = "running"

-----------------------------------------------------------------------------
(* xp_createthread.                                                        *)

\* The handle is made and put on the list of tasks.
Link(c) ==
  /\ mpc = "idle"
  /\ c \notin handles
  /\ tpc[c] = "none"
  /\ mpc' = "spawn"
  /\ subject' = c
  /\ handles' = handles \cup {c}
  /\ tasks' = tasks \cup {c}
  /\ status' = [status EXCEPT ![c] = "init"]
  /\ parent' = [parent EXCEPT ![c] = NoThread]
  /\ refs' = [refs EXCEPT ![c] = 0]
  /\ sigState' = [sigState EXCEPT ![c] = {}]
  /\ UNCHANGED <<sleep, mask, timed, got, holds, tpc>>

Spawn ==
  /\ mpc = "spawn"
  /\ tpc' = [tpc EXCEPT ![subject] = "entry"]
  /\ mpc' = "adopt"
  /\ UNCHANGED <<sigVars, listVars, subject>>

\* No thread: the handle is freed, but it stays on the list of tasks, which is
\* not to be walked any more.  The clients below do not meet this; Binsort does.
SpawnFails ==
  /\ mpc = "spawn"
  /\ handles' = handles \ {subject}
  /\ tpc' = [tpc EXCEPT ![subject] = "gone"]
  /\ mpc' = "idle"
  /\ UNCHANGED <<sigVars, tasks, status, parent, refs, holds, subject>>

\* The parent is set before the thread is let go.
AdoptThenKick ==
  \/ /\ mpc = "adopt"
     /\ parent' = [parent EXCEPT ![subject] = Main]
     /\ mpc' = "kick"
     /\ UNCHANGED <<sigVars, tasks, handles, status, refs, holds, tpc, subject>>
  \/ /\ mpc = "kick"
     /\ Sig!Signal(subject, {"SYNC"})
     /\ mpc' = "idle"
     /\ UNCHANGED <<listVars, tpc, subject>>

-----------------------------------------------------------------------------
(* xpi_threadentry.                                                        *)

AwaitSync(c) ==
  /\ tpc[c] = "entry"
  /\ Sig!Wait(c, {"SYNC"}, FALSE)
  /\ tpc' = [tpc EXCEPT ![c] = "sync"]
  /\ UNCHANGED <<listVars, mpc, subject>>

Run(c) ==
  /\ tpc[c] = "sync" /\ Awake(c)
  /\ status' = [status EXCEPT ![c] = "run"]
  /\ tpc' = [tpc EXCEPT ![c] = "body"]
  /\ UNCHANGED <<sigVars, tasks, handles, parent, refs, holds, mpc, subject>>

\* The thread's function has returned.
Die(c) ==
  /\ tpc[c] = "returned"
  /\ status' = [status EXCEPT ![c] = "dead"]
  /\ tpc' = [tpc EXCEPT ![c] = "notify"]
  /\ UNCHANGED <<sigVars, tasks, handles, parent, refs, holds, mpc, subject>>

NotifyNobody(c) ==
  /\ tpc[c] = "notify"
  /\ tpc' = [tpc EXCEPT ![c] = "exited"]
  /\ UNCHANGED <<sigVars, listVars, mpc, subject>>

Notify(c) ==
  /\ tpc[c] = "notify"
  /\ Sig!Signal(parent[c], {"SYNC"})
  /\ tpc' = [tpc EXCEPT ![c] = "exited"]
  /\ UNCHANGED <<listVars, mpc, subject>>

-----------------------------------------------------------------------------
(* xp_refthread, xp_unrefthread: c refers to d, found by its name.         *)

RefUncounted(c, d) ==
  /\ d \in tasks /\ status[d] # "dead"
  /\ holds' = [holds EXCEPT ![c] = d]
  /\ UNCHANGED <<sigVars, tasks, handles, status, parent, refs, tpc, mpc, subject>>

Ref(c, d) ==
  /\ d \in tasks /\ status[d] # "dead"
  /\ refs' = [refs EXCEPT ![d] = @ + 1]
  /\ holds' = [holds EXCEPT ![c] = d]
  /\ UNCHANGED <<sigVars, tasks, handles, status, parent, tpc, mpc, subject>>

Unref(c, d) ==
  /\ refs' = [refs EXCEPT ![d] = @ - 1]
  /\ holds' = [holds EXCEPT ![c] = NoThread]
  /\ IF refs[d] = 1 /\ parent[d] # NoThread
       THEN Sig!Signal(parent[d], {"SYNC"})
       ELSE UNCHANGED sigVars
  /\ UNCHANGED <<tasks, handles, status, parent, tpc, mpc, subject>>

-----------------------------------------------------------------------------
(* xp_destroythread, called by Main for one of its children.               *)

Abort(c) ==
  /\ mpc = "idle"
  /\ c \in handles
  /\ Sig!Signal(c, {"ABORT"})
  /\ mpc' = "scan"
  /\ subject' = c
  /\ UNCHANGED <<listVars, tpc>>

Unlist(list, c) == list \ {c}

Removable(c) == c \in tasks /\ status[c] = "dead" /\ refs[c] = 0

ScanFinds ==
  /\ mpc = "scan" /\ Awake(Main)
  /\ Removable(subject)
  /\ tasks' = Unlist(tasks, subject)
  /\ mpc' = "join"
  /\ UNCHANGED <<sigVars, handles, status, parent, refs, holds, tpc, subject>>

ScanFindsNot ==
  /\ mpc = "scan" /\ Awake(Main)
  /\ ~Removable(subject)
  /\ mpc' = "wait"
  /\ UNCHANGED <<sigVars, listVars, tpc, subject>>

AwaitDeath ==
  /\ mpc = "wait"
  /\ Sig!Wait(Main, {"SYNC"}, FALSE)
  /\ mpc' = "scan"
  /\ UNCHANGED <<listVars, tpc, subject>>

\* pthread_join without waiting.
FreeAtOnce ==
  /\ mpc = "join"
  /\ handles' = handles \ {subject}
  /\ mpc' = "idle"
  /\ UNCHANGED <<sigVars, tasks, status, parent, refs, holds, tpc, subject>>

\* The thread has been joined; its handle is freed.
Join ==
  /\ mpc = "join"
  /\ tpc[subject] = "exited"
  /\ handles' = handles \ {subject}
  /\ tpc' = [tpc EXCEPT ![subject] = "gone"]
  /\ mpc' = "idle"
  /\ UNCHANGED <<sigVars, tasks, status, parent, refs, holds, subject>>

\* xpthread_destroy, when no handle is left but the base thread's.
Close ==
  /\ mpc = "idle"
  /\ handles = {}
  /\ mpc' = "closed"
  /\ UNCHANGED <<sigVars, listVars, tpc, subject>>

-----------------------------------------------------------------------------
(* Clients: each child, while it runs, may take references to others; it   *)
(* gives them back (or nobody could destroy the others), and returns from  *)
(* its function when it is told to abort.                                  *)

TakeRef(c) ==
  /\ tpc[c] = "body"
  /\ holds[c] = NoThread
  /\ \E d \in Children \ {c} : Ref(c, d)

DropRef(c) ==
  /\ tpc[c] = "body"
  /\ holds[c] # NoThread
  /\ Unref(c, holds[c])

AwaitAbort(c) ==
  /\ tpc[c] = "body"
  /\ holds[c] = NoThread
  /\ Sig!Wait(c, {"ABORT"}, FALSE)
  /\ tpc' = [tpc EXCEPT ![c] = "ending"]
  /\ UNCHANGED <<listVars, mpc, subject>>

Return(c) ==
  /\ tpc[c] = "ending" /\ Awake(c)
  /\ tpc' = [tpc EXCEPT ![c] = "returned"]
  /\ UNCHANGED <<sigVars, listVars, mpc, subject>>

Resume(x) == Sig!Resume(x) /\ UNCHANGED <<listVars, tpc, mpc, subject>>

Spurious(x) == Sig!SpuriousWakeup(x) /\ UNCHANGED <<listVars, tpc, mpc, subject>>

ThreadStep(c) ==
  AwaitSync(c) \/ Run(c) \/ DropRef(c) \/ AwaitAbort(c) \/ Return(c) \/ Die(c) \/ Notify(c)

MainStep ==
  \/ \E c \in Children : Link(c) \/ Abort(c)
  \/ Spawn \/ AdoptThenKick \/ ScanFinds \/ ScanFindsNot \/ AwaitDeath \/ Join \/ Close

Terminated == mpc = "closed" /\ UNCHANGED vars

Next ==
  \/ MainStep
  \/ \E c \in Children : ThreadStep(c) \/ TakeRef(c)
  \/ \E x \in Threads : Resume(x) \/ Spurious(x)
  \/ Terminated

Spec == Init /\ [][Next]_vars

\* Every thread is scheduled for ever, and a client waits for ABORT in the end,
\* however many references it takes before; a condition variable need not ever
\* wake up for no reason.
FairSpec ==
  /\ Spec
  /\ WF_vars(MainStep)
  /\ \A c \in Children : WF_vars(ThreadStep(c)) /\ SF_vars(AwaitAbort(c))
  /\ \A x \in Threads : WF_vars(Resume(x))

-----------------------------------------------------------------------------
(* Properties.                                                             *)

\* Every variable holds a value of its kind.
TypeOK ==
  /\ Sig!TypeOK
  /\ tasks \subseteq Children /\ handles \subseteq Children
  /\ status \in [Children -> {"init", "run", "dead"}]
  /\ parent \in [Children -> {Main, NoThread}]
  /\ refs \in [Children -> Nat]
  /\ holds \in [Children -> Children \cup {NoThread}]
  /\ tpc \in [Children -> {"none", "entry", "sync", "body", "ending",
                           "returned", "notify", "exited", "gone"}]
  /\ mpc \in {"idle", "spawn", "adopt", "kick", "scan", "wait", "join", "closed"}
  /\ subject \in Children \cup {NoThread}

\* No handle is used after it was freed: not by the thread itself, not by a
\* thread that refers to it; and the base thread outlives those that signal it.
\* So xp_destroythread does not return before the thread is over ("This function
\* will block until the thread has concluded and exited properly", xpthread.h).
\* And from the moment a thread runs its function it has a parent to notify
\* (xpthread.c:849-850).
HandlesLive ==
  /\ \A c \in Children : tpc[c] \notin {"none", "exited", "gone"} => c \in handles
  /\ \A c \in Children : holds[c] # NoThread => holds[c] \in handles
  /\ mpc = "closed" => \A c \in Children : tpc[c] \in {"none", "exited", "gone"}
  /\ \A c \in Children : tpc[c] \in {"body", "ending", "returned", "notify"} => parent[c] = Main

\* The list of tasks can be walked: what is on it has not been freed.  It is
\* checked as a part of Binsort, where a thread may be refused.
ListLive == tasks \subseteq handles

\* assert(ISLISTEMPTY(&xpi->xpi_Tasks)) in xpthread_destroy (xpthread.c:991).
ListEmpty == mpc = "closed" => tasks = {}

\* No death is missed although all children share one SYNC: every
\* xp_destroythread returns, and in the end the library is closed.
AllDestroyed == <>(mpc = "closed")
=============================================================================
