-------------------------- MODULE MyPthreadProps ---------------------------
(***************************************************************************)
(* The queues of MyPthread as lists, what its calls and comments promise,  *)
(* and the fairness under which its threads make progress.                 *)
(***************************************************************************)
EXTENDS MyPthread, Sequences, FiniteSets

\* A process has a finite number of my_pthread_t.
ASSUME FiniteThreads == IsFiniteSet(Threads)

\* Path[k][t] has the first k threads that follow one another from t on.
Path[k \in Nat] ==
  [t \in ThreadOrNull |-> IF k = 0 \/ t = NULL THEN <<>>
                          ELSE <<t>> \o Path[k - 1][next[t]]]

\* The threads of q from its front, cut after one more than there are.
TooMany == Cardinality(Threads) + 1
Chain(q) == Path[TooMany][front[q]]

In(t, q) == LET c == Chain(q) IN \E i \in DOMAIN c : c[i] = t

\* enqueue() or dequeue() has written a part of what it writes.
MidUpdate == cpu.pc \in {"enq_rear", "deq_clear", "deq_test", "deq_null"}

\* The thread create() or unlock() is about to enqueue.
InHand(t) ==
  /\ cpu.op \in {"create", "unlock"} /\ cpu.thr = t
  /\ cpu.pc \in {"enq_test", "enq_front", "enq_load", "enq_link",
                 "deq_clear", "deq_test", "deq_null", "wake"}

----------------------------------------------------------------------------
\* When join() returns, the value the joined thread gave to exit() is the one
\* it hands back (my_pthread.c:112-119), unless a tick has suspended that
\* thread between the two stores of its exit() (99-100).
JoinValue ==
  At("join_done") =>
    retval[cpu.arg] = cpu.arg \/ CodeOf(cpu.arg).pc = "exit_val"

\* The thread states as my_pthread_t.h:15-21 words them.  BLOCKED: the thread
\* is in a waiting queue, at least while no other is inside a library call.
BlockedIsWaiting ==
  \A t \in Threads \ {currentThread} :
    /\ state[t] = "BLOCKED"
    /\ \A u \in Threads \ {t} : CodeOf(u).op = "none"
    => \E m \in Mutexes : In(t, m)

\* maintenance() leaves no thread that is past LIFETIME_THRESHOLD on the level
\* it has walked (my_pthread.c:239-289).
MaintenanceComplete ==
  SchedAt("maint") /\ walk.ptr = NULL => \A t \in old : ~In(t, walk.i)

----------------------------------------------------------------------------
\* Fairness.  The handler's schedule() is run to its end; a thread's own steps
\* are taken even if ticks interrupt them, 50 ms being time for many; a timer
\* that is due fires; time passes: slices are used up and threads grow old.
OwnStep(t) == cpu.me = t /\ ~InHandler /\ (Returning \/ Scheduling)

Fairness ==
  /\ WF_vars(Scheduling) /\ SF_vars(Signal) /\ SF_vars(Demote)
  /\ \A t \in Threads : /\ SF_vars(OwnStep(t))
                        /\ SF_vars(MaintPromote /\ walk.ptr = t)

FairSpec == Spec /\ Fairness

\* Every ready thread runs: no priority, yield loop or busy join starves it.
Scheduled ==
  \A t \in Threads : state[t] = "QUEUED" ~> state[t] = "RUNNING"

\* A join returns once the thread it names has exited.
JoinReturns ==
  \A t, u \in Threads :
    (CodeOf(t).op = "join" /\ CodeOf(t).arg = u /\ state[u] = "EXITED")
      ~> CodeOf(t).op # "join"
============================================================================
