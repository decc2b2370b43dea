--------------------------- MODULE MyPthreadInv ----------------------------
(***************************************************************************)
(* The inductive invariant behind TypeOK, ContextOwner and MutualExclusion *)
(* of MyPthread, when no tick falls between setitimer() and the switch     *)
(* (~SlowTail).  It says what a thread's code may rely on at each label,   *)
(* wherever ticks have interrupted it.                                     *)
(***************************************************************************)
EXTENDS MyPthread

EnqLabels == {"enq_test", "enq_front", "enq_load", "enq_link", "enq_rear"}
DeqLabels == {"deq_adv", "deq_clear", "deq_test", "deq_null", "wake"}

\* The labels of schedule() after it has set inScheduler.
InsideLabels == SchedLabels \ {"sched"}

\* What the locals of a library call are at each of its labels.  unlock() is
\* called by a holder; lock() by a thread that does not hold the mutex.
CallOK(c) ==
  /\ c.pc \in EnqLabels =>
       c.thr \in Threads /\ c.q \in Queues /\ c.op \in {"create", "lock", "unlock"}
  /\ c.pc \in DeqLabels => c.thr \in Threads
  /\ c.pc \in DeqLabels \cup {"unlock", "release"} => c.op = "unlock"
  /\ c.pc \in {"lock_tas", "lock_block"} => c.op = "lock"
  /\ c.pc \in {"join_test", "join_done"} => c.op = "join"
  /\ c.op = "lock" => c.arg \in Mutexes \ c.held
  /\ c.op = "unlock" => c.arg \in Mutexes \cap c.held
  /\ c.op = "join" => c.arg \in Threads

\* A saved context is its thread's, outside schedule() or its handler.
SavedOK ==
  \A t \in Threads :
    /\ ctx[t].me = t /\ ctx[t].irq = "none" /\ ctx[t].pc \notin InsideLabels
    /\ CallOK(ctx[t])

\* schedule() is not nested: a tick that falls inside is dropped.
ScheduleOK ==
  /\ InHandler => cpu.pc \notin InsideLabels
  /\ SchedAt("maint") \/ SchedAt("switch") \/ SchedAt("next") => inScheduler = 1
  /\ SchedAt("next") \/ SchedAt("tail") \/ SchedAt("swap") => SchedPtr = cpu.me

\* Up to the end of the first create only main() runs, and no timer.
BeforeTimer ==
  /\ firstCall =>
       /\ cpu.me = Main /\ ~timer /\ ~InHandler
       /\ currentThread # NULL => /\ cpu.op = "create"
                                  /\ cpu.pc \in EnqLabels \cup {"arm", "segv"}
  /\ currentThread = NULL =>
       /\ firstCall
       /\ cpu.pc \in {"user", "lock_tas", "unlock", "release"}
       /\ \A q \in Queues : front[q] = NULL
       /\ \A m \in Mutexes : flag[m] = 1 => m \in cpu.held

\* The dequeue() of unlock() finds the waiter that unlock() has seen.
DequeueOK ==
  \A t \in Threads :
    CodeOf(t).pc = "deq_adv" => front[CodeOf(t).arg] # NULL

IInv ==
  /\ TypeOK /\ ContextOwner /\ MutualExclusion
  /\ CallOK(cpu) /\ SavedOK /\ ScheduleOK /\ BeforeTimer /\ DequeueOK

----------------------------------------------------------------------------
(* The inductive invariant behind PreemptionArmed, on top of IInv.          *)

\* my_pthread_exit() is the last call of a thread, and EXITED the state of a
\* thread that has made it.
ExitOK ==
  \A t \in Threads :
    /\ state[t] = "EXITED" => CodeOf(t).op = "exit"
    /\ CodeOf(t).op = "exit" => CodeOf(t).pc \in {"exit_val", "halt"} \cup SchedLabels

\* inScheduler makes the handler drop a tick inside schedule() only, which has
\* started the timer once it has decided.
TimerOK ==
  /\ inScheduler = 1 =>
       \E l \in {"maint", "switch", "next", "keep", "tail"} : SchedAt(l)
  /\ SchedAt("keep") \/ Switching => timer

TInv == ExitOK /\ TimerOK /\ PreemptionArmed
============================================================================
