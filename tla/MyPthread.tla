----------------------------- MODULE MyPthread -----------------------------
(***************************************************************************)
(* The user-level thread library of src/my_pthread.c: a five level         *)
(* feedback queue, driven by the calls of the client's threads and by a    *)
(* one-shot 50 ms ITIMER_REAL whose SIGALRM handler enters schedule().     *)
(*                                                                         *)
(* One kernel thread runs everything, so there is one processor: `cpu` is  *)
(* the code it is executing and `ctx[t]` the ucontext saved in t's         *)
(* my_pthread_t.  The concurrency is that of the signal: it may be         *)
(* delivered between any two statements that run outside schedule(), and   *)
(* the thread it suspends resumes in the middle of its library call.  One  *)
(* action is therefore one C statement of create, lock, unlock, join,      *)
(* exit, enqueue and dequeue.  schedule() itself runs with inScheduler = 1,*)
(* which makes the handler return at once; it is cut only where its loop   *)
(* or its switch divides it.                                               *)
(***************************************************************************)
EXTENDS Naturals

CONSTANTS
  Threads,                \* the my_pthread_t structures
  Main,                   \* the thread of main()
  Mutexes,                \* the my_pthread_mutex_t structures
  NULL,
  RUN_QUEUES,             \* number of priority levels
  MAINTENANCE_THRESHOLD,  \* schedule() calls between two maintenance passes
  ClientCalls,            \* the library calls the client's threads make
  Nesting,                \* <<m, h>>: the client may lock m while it holds h
  SlowTail                \* TRUE: 50 ms may pass between setitimer() and
                          \* the swapcontext() or return that follows it

Calls == {"create", "yield", "exit", "join", "lock", "unlock"}

Levels == 0 .. RUN_QUEUES - 1
Queues == Levels \cup Mutexes    \* myScheduler->runQueues and the waitQueues

ThreadOrNull == Threads \cup {NULL}

ASSUME ThreadAssumption ==
  /\ Main \in Threads
  /\ NULL \notin Threads
  /\ NULL \notin Queues
ASSUME LevelAssumption ==
  /\ RUN_QUEUES \in Nat /\ RUN_QUEUES >= 2
  /\ MAINTENANCE_THRESHOLD \in Nat \ {0}
  /\ Levels \cap Mutexes = {}
ASSUME ClientAssumption ==
  /\ ClientCalls \subseteq Calls
  /\ Nesting \subseteq Mutexes \X Mutexes
  /\ SlowTail \in BOOLEAN

VARIABLES
  state,            \* my_pthread_t.state; "NONE" before my_pthread_create
  priority,         \* my_pthread_t.priority
  next,             \* my_pthread_t.next
  timeRun,          \* my_pthread_t.timeRun, in 50 ms quanta
  retval,           \* my_pthread_t.retval: NULL, or t for the value t passed
  old,              \* the threads seen to have lived LIFETIME_THRESHOLD
  freed,            \* the threads whose stack schedule() has freed
  front, rear,      \* the ends of every queue
  flag,             \* my_pthread_mutex_t.flag
  currentThread,    \* myScheduler->currentThread
  inScheduler,      \* myScheduler->inScheduler
  maintenanceCycle, \* myScheduler->maintenanceCycle
  walk,             \* i, ptr and prev of maintenance()
  firstCall,
  timer,            \* a SIGALRM is due: the timer runs or its signal pends
  cpu,              \* what the processor executes
  ctx               \* my_pthread_t.context

accounts   == <<priority, timeRun, retval, old, freed>>
threadVars == <<state, accounts>>
listVars   == <<next, front, rear>>
schedPtrs  == <<currentThread, maintenanceCycle, firstCall>>
schedVars  == <<schedPtrs, inScheduler, walk>>
machine    == <<flag, timer, ctx>>
vars == <<threadVars, listVars, schedVars, machine, cpu>>

----------------------------------------------------------------------------
(* Continuations.  A context is one thread's code (`me`), the mutexes that  *)
(* code holds, the library call it is in with the locals of that call, and *)
(* the handler's schedule() on top of it when a SIGALRM interrupted it.    *)

SchedLabels == {"sched", "maint", "switch", "next", "keep", "tail", "swap"}

CallLabels == {"enq_test", "enq_front", "enq_load", "enq_link", "enq_rear",
               "arm", "exit_val", "join_test", "join_done",
               "lock_tas", "lock_block", "unlock",
               "deq_adv", "deq_clear", "deq_test", "deq_null", "wake",
               "release"}

Labels == {"user", "halt", "segv"} \cup SchedLabels \cup CallLabels

Continuation ==
  [me   : Threads,
   held : SUBSET Mutexes,
   pc   : Labels,
   op   : Calls \cup {"none"},
   arg  : ThreadOrNull \cup Mutexes,   \* the call's thread or mutex
   thr  : ThreadOrNull,                \* enqueue's thread, dequeue's temp
   q    : Queues \cup {NULL},          \* enqueue's queue
   reg  : ThreadOrNull,                \* the q->rear enqueue has loaded
   from : ThreadOrNull,                \* schedule's ptr
   irq  : SchedLabels \cup {"none"},   \* the label of the handler's schedule
   ifrom: ThreadOrNull]                \* and its ptr

UserCode(t, locks) ==
  [me |-> t, held |-> locks, pc |-> "user", op |-> "none", arg |-> NULL,
   thr |-> NULL, q |-> NULL, reg |-> NULL, from |-> NULL,
   irq |-> "none", ifrom |-> NULL]

InHandler == cpu.irq # "none"

At(l)   == ~InHandler /\ cpu.pc = l
Goto(l) == cpu' = [cpu EXCEPT !.pc = l]

\* schedule() runs as the handler's or as the interrupted code's own.
SchedAt(l) == IF InHandler THEN cpu.irq = l ELSE cpu.pc = l
SchedTo(l) == IF InHandler THEN [cpu EXCEPT !.irq = l] ELSE [cpu EXCEPT !.pc = l]
SchedPtr   == IF InHandler THEN cpu.ifrom ELSE cpu.from

\* Mutant: lock() takes the mutex for its own once it is woken.
TakeLock == UserCode(cpu.me, cpu.held \cup {cpu.arg})
RetryLock == [cpu EXCEPT !.pc = "lock_tas", !.from = NULL]

\* What runs once this schedule() has returned.
AfterSchedule ==
  IF InHandler THEN [cpu EXCEPT !.irq = "none", !.ifrom = NULL]
  ELSE CASE cpu.op = "yield" -> UserCode(cpu.me, cpu.held)
         [] cpu.op = "join"  -> [cpu EXCEPT !.pc = "join_test", !.from = NULL]
         [] cpu.op = "lock"  -> RetryLock
         [] OTHER            -> [cpu EXCEPT !.pc = "halt", !.from = NULL]

\* Mutant: the one-shot timer is not started again.
NoTimer == timer' = timer
\* setitimer(ITIMER_REAL, 50 ms)
StartTimer == timer' = TRUE

NoWalk == [i |-> 0, ptr |-> NULL, prev |-> NULL]

Init ==
  /\ state = [t \in Threads |-> "NONE"]
  /\ priority = [t \in Threads |-> 0]
  /\ next = [t \in Threads |-> NULL]
  /\ timeRun = [t \in Threads |-> 0]
  /\ retval = [t \in Threads |-> NULL]
  /\ old = {}
  /\ freed = {}
  /\ front = [q \in Queues |-> NULL]
  /\ rear = [q \in Queues |-> NULL]
  /\ flag = [m \in Mutexes |-> 0]
  /\ currentThread = NULL
  /\ inScheduler = 0
  /\ maintenanceCycle = 0
  /\ walk = NoWalk
  /\ firstCall = TRUE
  /\ timer = FALSE
  /\ cpu = UserCode(Main, {})
  /\ ctx = [t \in Threads |-> UserCode(t, {})]

----------------------------------------------------------------------------
(* The client.  Its threads make any call of ClientCalls at any time, but   *)
(* never use the library before the first create, relock or unlock what    *)
(* they hold or do not hold, exit holding a mutex, or join themselves.     *)

CallFrom(op) == At("user") /\ op \in ClientCalls
Running(op)  == CallFrom(op) /\ ~firstCall

Create(t) ==
  /\ CallFrom("create")
  /\ t # Main /\ state[t] = "NONE"
  /\ IF firstCall
     THEN /\ currentThread' = Main
          /\ state' = [state EXCEPT ![Main] = "RUNNING", ![t] = "QUEUED"]
     ELSE /\ state' = [state EXCEPT ![t] = "QUEUED"]
          /\ UNCHANGED currentThread
  /\ ctx' = [ctx EXCEPT ![t] = UserCode(t, {})]
  /\ cpu' = [cpu EXCEPT !.op = "create", !.pc = "enq_test", !.thr = t,
                        !.q = priority[t]]
  /\ UNCHANGED <<accounts, listVars, maintenanceCycle, firstCall, inScheduler,
                 walk, flag, timer>>

\* Starts the timer at the end of the first my_pthread_create.
Arm ==
  /\ At("arm")
  /\ firstCall' = FALSE
  /\ StartTimer
  /\ cpu' = UserCode(cpu.me, cpu.held)
  /\ UNCHANGED <<threadVars, listVars, currentThread, maintenanceCycle,
                 inScheduler, walk, flag, ctx>>

Yield ==
  /\ Running("yield")
  /\ state' = [state EXCEPT ![currentThread] = "YIELD"]
  /\ cpu' = [cpu EXCEPT !.op = "yield", !.pc = "sched"]
  /\ UNCHANGED <<accounts, listVars, schedVars, machine>>

Exit ==
  /\ Running("exit") /\ cpu.held = {}
  /\ state' = [state EXCEPT ![currentThread] = "EXITED"]
  /\ cpu' = [cpu EXCEPT !.op = "exit", !.pc = "exit_val"]
  /\ UNCHANGED <<accounts, listVars, schedVars, machine>>

ExitValue ==
  /\ At("exit_val")
  /\ retval' = [retval EXCEPT ![currentThread] = cpu.me]
  /\ Goto("sched")
  /\ UNCHANGED <<state, priority, timeRun, old, freed, listVars, schedVars,
                 machine>>

Join(t) ==
  /\ Running("join") /\ t # cpu.me /\ state[t] # "NONE"
  /\ state' = [state EXCEPT ![currentThread] = "JOINING"]
  /\ cpu' = [cpu EXCEPT !.op = "join", !.pc = "join_test", !.arg = t]
  /\ UNCHANGED <<accounts, listVars, schedVars, machine>>

\* Mutants: a thread that is not RUNNING counts as finished; the state tested
\* is that of the my_pthread_t passed by value.
NotRunning(t) == state[t] # "RUNNING"
CopyExited(t) == FALSE
HasExited(t) == state[t] = "EXITED"

JoinTest ==
  /\ At("join_test")
  /\ Goto(IF HasExited(cpu.arg) THEN "join_done" ELSE "sched")
  /\ UNCHANGED <<threadVars, listVars, schedVars, machine>>

JoinDone ==
  /\ At("join_done")
  /\ state' = [state EXCEPT ![currentThread] = "RUNNING"]
  /\ cpu' = UserCode(cpu.me, cpu.held)
  /\ UNCHANGED <<accounts, listVars, schedVars, machine>>

Lock(m) ==
  /\ CallFrom("lock") /\ m \notin cpu.held
  /\ \A h \in cpu.held : <<m, h>> \in Nesting
  /\ cpu' = [cpu EXCEPT !.op = "lock", !.pc = "lock_tas", !.arg = m]
  /\ UNCHANGED <<threadVars, listVars, schedVars, machine>>

TestAndSet ==
  /\ At("lock_tas")
  /\ flag' = [flag EXCEPT ![cpu.arg] = 1]
  /\ IF flag[cpu.arg] = 1
     THEN Goto("lock_block")
     ELSE cpu' = UserCode(cpu.me, cpu.held \cup {cpu.arg})
  /\ UNCHANGED <<threadVars, listVars, schedVars, timer, ctx>>

LockBlock ==
  /\ At("lock_block")
  /\ state' = [state EXCEPT ![currentThread] = "BLOCKED"]
  /\ cpu' = [cpu EXCEPT !.pc = "enq_test", !.thr = currentThread, !.q = cpu.arg]
  /\ UNCHANGED <<accounts, listVars, schedVars, machine>>

----------------------------------------------------------------------------
(* enqueue() and, for the wait queue, dequeue(), statement by statement.    *)

EnqTest ==
  /\ At("enq_test")
  /\ Goto(IF rear[cpu.q] = NULL THEN "enq_front" ELSE "enq_load")
  /\ UNCHANGED <<threadVars, listVars, schedVars, machine>>

EnqFront ==
  /\ At("enq_front")
  /\ front' = [front EXCEPT ![cpu.q] = cpu.thr]
  /\ Goto("enq_rear")
  /\ UNCHANGED <<threadVars, next, rear, schedVars, machine>>

\* q->rear->next = thread: the load of q->rear, then the store through it.
EnqLoad ==
  /\ At("enq_load")
  /\ cpu' = IF rear[cpu.q] = NULL
            THEN [cpu EXCEPT !.pc = "segv"]
            ELSE [cpu EXCEPT !.pc = "enq_link", !.reg = rear[cpu.q]]
  /\ UNCHANGED <<threadVars, listVars, schedVars, machine>>

EnqLink ==
  /\ At("enq_link")
  /\ next' = [next EXCEPT ![cpu.reg] = cpu.thr]
  /\ cpu' = [cpu EXCEPT !.pc = "enq_rear", !.reg = NULL]
  /\ UNCHANGED <<threadVars, front, rear, schedVars, machine>>

\* Where the caller of enqueue() goes on.
AfterEnqueue ==
  CASE cpu.op = "lock"   -> [cpu EXCEPT !.pc = "sched", !.thr = NULL, !.q = NULL]
    [] cpu.op = "unlock" -> [cpu EXCEPT !.pc = "release", !.thr = NULL, !.q = NULL]
    [] OTHER             -> IF firstCall THEN [cpu EXCEPT !.pc = "arm"]
                            ELSE UserCode(cpu.me, cpu.held)

EnqRear ==
  /\ At("enq_rear")
  /\ rear' = [rear EXCEPT ![cpu.q] = cpu.thr]
  /\ cpu' = AfterEnqueue
  /\ UNCHANGED <<threadVars, next, front, schedVars, machine>>

Unlock(m) ==
  /\ CallFrom("unlock") /\ m \in cpu.held
  /\ cpu' = [cpu EXCEPT !.op = "unlock", !.pc = "unlock", !.arg = m]
  /\ UNCHANGED <<threadVars, listVars, schedVars, machine>>

\* The test of waitQueue.front, and dequeue()'s temp = q->front.
UnlockTest ==
  /\ At("unlock")
  /\ IF front[cpu.arg] = NULL
     THEN Goto("release")
     ELSE cpu' = [cpu EXCEPT !.pc = "deq_adv", !.thr = front[cpu.arg]]
  /\ UNCHANGED <<threadVars, listVars, schedVars, machine>>

DeqAdvance ==
  /\ At("deq_adv")
  /\ front' = [front EXCEPT ![cpu.arg] = next[front[cpu.arg]]]
  /\ Goto("deq_clear")
  /\ UNCHANGED <<threadVars, next, rear, schedVars, machine>>

DeqClear ==
  /\ At("deq_clear")
  /\ next' = [next EXCEPT ![cpu.thr] = NULL]
  /\ Goto("deq_test")
  /\ UNCHANGED <<threadVars, front, rear, schedVars, machine>>

DeqTest ==
  /\ At("deq_test")
  /\ Goto(IF front[cpu.arg] = NULL THEN "deq_null" ELSE "wake")
  /\ UNCHANGED <<threadVars, listVars, schedVars, machine>>

DeqNull ==
  /\ At("deq_null")
  /\ rear' = [rear EXCEPT ![cpu.arg] = NULL]
  /\ Goto("wake")
  /\ UNCHANGED <<threadVars, next, front, schedVars, machine>>

Wake ==
  /\ At("wake")
  /\ state' = [state EXCEPT ![cpu.thr] = "QUEUED"]
  /\ cpu' = [cpu EXCEPT !.pc = "enq_test", !.q = priority[cpu.thr]]
  /\ UNCHANGED <<accounts, listVars, schedVars, machine>>

Release ==
  /\ At("release")
  /\ flag' = [flag EXCEPT ![cpu.arg] = 0]
  /\ cpu' = UserCode(cpu.me, cpu.held \ {cpu.arg})
  /\ UNCHANGED <<threadVars, listVars, schedVars, timer, ctx>>

----------------------------------------------------------------------------
(* The signal.  SIGALRM is blocked while its handler runs, also after a     *)
(* swapcontext() back into the handler of an interrupted thread.           *)

Deliverable ==
  /\ timer
  /\ ~InHandler
  /\ cpu.pc \notin {"halt", "segv"}
  /\ cpu.pc \in {"keep", "tail", "swap"} => SlowTail

Signal ==
  /\ Deliverable
  /\ timer' = FALSE
  /\ cpu' = IF inScheduler = 1 THEN cpu ELSE [cpu EXCEPT !.irq = "sched"]
  /\ UNCHANGED <<threadVars, listVars, schedVars, flag, ctx>>

----------------------------------------------------------------------------
(* schedule(), from inScheduler = 1 to the return or swapcontext().         *)

\* Mutant: every thread goes back to the best level.
EnqueueBest(t, q) ==
  /\ front' = IF rear[0] = NULL THEN [front EXCEPT ![0] = t] ELSE front
  /\ next' = IF rear[0] = NULL THEN next ELSE [next EXCEPT ![rear[0]] = t]
  /\ rear' = [rear EXCEPT ![0] = t]

\* Mutant: last come, first served.
EnqueueFront(t, q) ==
  /\ front' = [front EXCEPT ![q] = t]
  /\ next' = [next EXCEPT ![t] = front[q]]
  /\ rear' = IF rear[q] = NULL THEN [rear EXCEPT ![q] = t] ELSE rear

Enqueue(t, q) ==
  /\ front' = IF rear[q] = NULL THEN [front EXCEPT ![q] = t] ELSE front
  /\ next' = IF rear[q] = NULL THEN next ELSE [next EXCEPT ![rear[q]] = t]
  /\ rear' = [rear EXCEPT ![q] = t]

\* Mutant: maintenance runs one cycle too late.
MaintenanceLate == maintenanceCycle + 1 > MAINTENANCE_THRESHOLD
MaintenanceDue == maintenanceCycle + 1 >= MAINTENANCE_THRESHOLD

SchedEnter ==
  /\ SchedAt("sched")
  /\ inScheduler' = 1
  /\ IF MaintenanceDue
     THEN /\ maintenanceCycle' = 0
          /\ walk' = [i |-> 1, ptr |-> front[1], prev |-> NULL]
          /\ cpu' = SchedTo("maint")
     ELSE /\ maintenanceCycle' = maintenanceCycle + 1
          /\ cpu' = SchedTo("switch")
          /\ UNCHANGED walk
  /\ UNCHANGED <<threadVars, listVars, currentThread, firstCall, machine>>

\* maintenance(): the thread ptr is younger than LIFETIME_THRESHOLD.
MaintSkip ==
  /\ SchedAt("maint") /\ walk.ptr # NULL /\ walk.ptr \notin old
  /\ walk' = [walk EXCEPT !.prev = walk.ptr, !.ptr = next[walk.ptr]]
  /\ UNCHANGED <<threadVars, listVars, schedPtrs, inScheduler, machine, cpu>>

\* ptr is unlinked from level i and appended to level 0; the loop then steps
\* over the thread that followed it.
MaintPromote ==
  /\ SchedAt("maint") /\ walk.ptr # NULL
  /\ LET p       == walk.ptr
         isFront == p = front[walk.i]
         succ    == next[p]
         next1   == IF isFront THEN next ELSE [next EXCEPT ![walk.prev] = succ]
         next2   == [next1 EXCEPT ![p] = NULL]
         front1  == IF isFront THEN [front EXCEPT ![walk.i] = succ] ELSE front
         rear1   == IF succ # NULL THEN rear
                    ELSE [rear EXCEPT ![walk.i] = IF isFront THEN NULL ELSE walk.prev]
     IN /\ old' = old \cup {p}
        /\ priority' = [priority EXCEPT ![p] = 0]
        /\ front' = IF rear1[0] = NULL THEN [front1 EXCEPT ![0] = p] ELSE front1
        /\ next' = IF rear1[0] = NULL THEN next2 ELSE [next2 EXCEPT ![rear1[0]] = p]
        /\ rear' = [rear1 EXCEPT ![0] = p]
        /\ walk' = IF succ = NULL THEN [walk EXCEPT !.ptr = NULL]
                   ELSE [walk EXCEPT !.prev = succ, !.ptr = next'[succ]]
  /\ UNCHANGED <<state, timeRun, retval, freed, schedPtrs, inScheduler,
                 machine, cpu>>

MaintNextLevel ==
  /\ SchedAt("maint") /\ walk.ptr = NULL
  /\ IF walk.i + 1 < RUN_QUEUES
     THEN /\ walk' = [i |-> walk.i + 1, ptr |-> front[walk.i + 1], prev |-> NULL]
          /\ UNCHANGED cpu
     ELSE /\ walk' = NoWalk
          /\ cpu' = SchedTo("switch")
  /\ UNCHANGED <<threadVars, listVars, schedPtrs, inScheduler, machine>>

\* The 50 ms quanta since the slice began: at least one when the timer has
\* fired, and any number when the process itself was not running.
Elapsed == IF InHandler THEN 1 .. RUN_QUEUES ELSE 0 .. RUN_QUEUES

\* What exceeds the slice is never looked at, so timeRun counts up to it.
RunTime(e) ==
  LET sum   == timeRun[currentThread] + e
      slice == priority[currentThread] + 1
  IN  IF sum > slice THEN slice ELSE sum

Charge(e) == timeRun' = [timeRun EXCEPT ![currentThread] = RunTime(e)]
ResetRun  == timeRun' = [timeRun EXCEPT ![currentThread] = 0]

SliceExpired(e) == RunTime(e) >= priority[currentThread] + 1

LowerPriority(p) == IF p + 1 >= RUN_QUEUES THEN RUN_QUEUES - 1 ELSE p + 1

Ready(i) == front[i] # NULL
\* Mutant: only the best level is looked at.
CheckBestLevel == Ready(0)
CheckNextThread == \E i \in Levels : Ready(i)

CurrentIs(s) == state[currentThread] = s

\* `swap` = 1: schedule() goes on to replace ptr, the current thread.
SwapOut ==
  cpu' = IF InHandler THEN [cpu EXCEPT !.irq = "next", !.ifrom = currentThread]
         ELSE [cpu EXCEPT !.pc = "next", !.from = currentThread]

\* No other thread is ready and this one has exited: back to my_pthread_exit.
\* (Nothing reads the timeRun of a thread that has exited: it is not charged.)
AllFinished ==
  /\ SchedAt("switch") /\ ~CheckNextThread /\ CurrentIs("EXITED")
  /\ inScheduler' = 0
  /\ cpu' = AfterSchedule
  /\ UNCHANGED <<threadVars, listVars, schedPtrs, walk, machine>>

\* No other thread is ready, whatever this one called.
KeepAlone ==
  /\ SchedAt("switch") /\ ~CheckNextThread /\ ~CurrentIs("EXITED")
  /\ \E e \in Elapsed : Charge(e)
  /\ StartTimer
  /\ cpu' = SchedTo("keep")
  /\ UNCHANGED <<state, priority, retval, old, freed, listVars, schedVars,
                 flag, ctx>>

\* The slice goes on; QUEUED is the case the code says should not happen.
KeepRunning ==
  /\ SchedAt("switch") /\ CheckNextThread
  /\ \E e \in Elapsed :
       /\ CurrentIs("QUEUED") \/ (CurrentIs("RUNNING") /\ ~SliceExpired(e))
       /\ Charge(e)
  /\ StartTimer
  /\ cpu' = SchedTo("keep")
  /\ UNCHANGED <<state, priority, retval, old, freed, listVars, schedVars,
                 flag, ctx>>

Requeue ==
  /\ SchedAt("switch") /\ CheckNextThread
  /\ CurrentIs("YIELD") \/ CurrentIs("JOINING")
  /\ state' = [state EXCEPT ![currentThread] = "QUEUED"]
  /\ ResetRun
  /\ Enqueue(currentThread, priority[currentThread])
  /\ SwapOut
  /\ UNCHANGED <<priority, retval, old, freed, schedVars, machine>>

Demote ==
  /\ SchedAt("switch") /\ CheckNextThread
  /\ CurrentIs("RUNNING") /\ \E e \in Elapsed : SliceExpired(e)
  /\ LET p == LowerPriority(priority[currentThread])
     IN /\ priority' = [priority EXCEPT ![currentThread] = p]
        /\ Enqueue(currentThread, p)
  /\ state' = [state EXCEPT ![currentThread] = "QUEUED"]
  /\ ResetRun
  /\ SwapOut
  /\ UNCHANGED <<retval, old, freed, schedVars, machine>>

\* Mutant: the case EXITED lacks its break and falls into JOINING.
ReapNoBreak ==
  /\ SchedAt("switch") /\ CheckNextThread /\ CurrentIs("EXITED")
  /\ freed' = freed \cup {currentThread}
  /\ state' = [state EXCEPT ![currentThread] = "QUEUED"]
  /\ Enqueue(currentThread, priority[currentThread])
  /\ SwapOut
  /\ UNCHANGED <<priority, timeRun, retval, old, schedVars, machine>>

Reap ==
  /\ SchedAt("switch") /\ CheckNextThread /\ CurrentIs("EXITED")
  /\ freed' = freed \cup {currentThread}
  /\ SwapOut
  /\ UNCHANGED <<state, priority, timeRun, retval, old, listVars, schedVars,
                 machine>>

Block ==
  /\ SchedAt("switch") /\ CheckNextThread /\ CurrentIs("BLOCKED")
  /\ \E e \in Elapsed : Charge(e)
  /\ SwapOut
  /\ UNCHANGED <<state, priority, retval, old, freed, listVars, schedVars,
                 machine>>

\* Mutant: some level is served, not the best one.
AnyLevel(i) == Ready(i)
BestLevel(i) == Ready(i) /\ \A j \in 0 .. i - 1 : ~Ready(j)

\* Mutant: dequeue() leaves the rear of the queue it empties.
RearKept(q, succ) == rear
RearAfter(q, succ) == IF succ = NULL THEN [rear EXCEPT ![q] = NULL] ELSE rear

\* getNextThread(), and the timer for the thread it returns.
DispatchFrom(i) ==
  /\ SchedAt("next")
  /\ BestLevel(i)
  /\ LET t == front[i]
     IN /\ currentThread' = t
        /\ front' = [front EXCEPT ![i] = next[t]]
        /\ rear' = RearAfter(i, next[t])
        /\ next' = [next EXCEPT ![t] = NULL]
        /\ state' = [state EXCEPT ![t] = "RUNNING"]
  /\ StartTimer
  /\ cpu' = SchedTo("tail")
  /\ UNCHANGED <<accounts, maintenanceCycle, firstCall, inScheduler, walk,
                 flag, ctx>>

Dispatch == \E i \in Levels : DispatchFrom(i)

Keep ==
  /\ SchedAt("keep")
  /\ inScheduler' = 0
  /\ cpu' = AfterSchedule
  /\ UNCHANGED <<threadVars, listVars, schedPtrs, walk, machine>>

SwapTail ==
  /\ SchedAt("tail")
  /\ inScheduler' = 0
  /\ cpu' = SchedTo("swap")
  /\ UNCHANGED <<threadVars, listVars, schedPtrs, walk, machine>>

\* Mutant: currentThread, already the next one, is taken for the old one.
SwappedOutLate == currentThread
SwappedOut == SchedPtr

\* swapcontext(&ptr->context, &currentThread->context): the resumed thread
\* returns from its own swapcontext() and schedule().  The copy it leaves in
\* its my_pthread_t is read again only if a tick can fall before Swap.
Swap ==
  /\ SchedAt("swap")
  /\ LET saved == [ctx EXCEPT ![SwappedOut] = AfterSchedule]
     IN /\ cpu' = saved[currentThread]
        /\ ctx' = IF SlowTail THEN saved
                  ELSE [saved EXCEPT ![currentThread] = UserCode(currentThread, {})]
  /\ UNCHANGED <<threadVars, listVars, schedVars, flag, timer>>

----------------------------------------------------------------------------
Calling ==
  \/ Yield \/ Exit
  \/ \E t \in Threads : Create(t) \/ Join(t)
  \/ \E m \in Mutexes : Lock(m) \/ Unlock(m)

Returning ==
  \/ Arm \/ ExitValue \/ JoinTest \/ JoinDone
  \/ TestAndSet \/ LockBlock \/ UnlockTest \/ Wake \/ Release
  \/ EnqTest \/ EnqFront \/ EnqLoad \/ EnqLink \/ EnqRear
  \/ DeqAdvance \/ DeqClear \/ DeqTest \/ DeqNull

Scheduling ==
  \/ SchedEnter \/ MaintSkip \/ MaintPromote \/ MaintNextLevel
  \/ AllFinished \/ KeepAlone \/ KeepRunning
  \/ Requeue \/ Demote \/ Reap \/ Block
  \/ Dispatch \/ Keep \/ SwapTail \/ Swap

\* The process is over: exit() of the last thread returned, or a NULL store.
Halted ==
  /\ cpu.pc \in {"halt", "segv"}
  /\ UNCHANGED vars

Next == Calling \/ Returning \/ Scheduling \/ Signal \/ Halted

Spec == Init /\ [][Next]_vars

----------------------------------------------------------------------------
(* What holds wherever the signal falls.                                   *)

TypeOK ==
  /\ state \in [Threads -> {"NONE", "QUEUED", "YIELD", "EXITED", "JOINING",
                            "BLOCKED", "RUNNING"}]
  /\ priority \in [Threads -> Levels]
  /\ next \in [Threads -> ThreadOrNull]
  /\ timeRun \in [Threads -> 0 .. RUN_QUEUES]
  /\ retval \in [Threads -> ThreadOrNull]
  /\ old \subseteq Threads /\ freed \subseteq Threads
  /\ front \in [Queues -> ThreadOrNull]
  /\ rear \in [Queues -> ThreadOrNull]
  /\ flag \in [Mutexes -> {0, 1}]
  /\ currentThread \in ThreadOrNull
  /\ inScheduler \in {0, 1}
  /\ maintenanceCycle \in 0 .. MAINTENANCE_THRESHOLD - 1
  /\ walk \in [i : Levels, ptr : ThreadOrNull, prev : ThreadOrNull]
  /\ firstCall \in BOOLEAN /\ timer \in BOOLEAN
  /\ cpu \in Continuation
  /\ ctx \in [Threads -> Continuation]

Switching == SchedAt("tail") \/ SchedAt("swap")

\* The code of t, running or saved.
CodeOf(t) == IF cpu.me = t THEN cpu ELSE ctx[t]

\* Every my_pthread_t holds its own thread's context, and the code that runs
\* is the one of currentThread, except from the choice of the next thread to
\* the swapcontext() of schedule(): my_pthread.c:440.
ContextOwner ==
  /\ \A t \in Threads : ctx[t].me = t
  /\ currentThread # NULL /\ ~Switching => cpu.me = currentThread
  /\ Switching => SchedPtr = cpu.me

\* At most one thread is between lock() and unlock() of a mutex, and then its
\* flag is 1: the lock survives whatever the tick does to its wait queue.
MutualExclusion ==
  \A m \in Mutexes : \A t \in Threads : m \in CodeOf(t).held =>
    /\ flag[m] = 1
    /\ \A u \in Threads : m \in CodeOf(u).held => u = t

\* Client code never runs without a tick to come: the one-shot timer is armed
\* again after every tick, also one that schedule() made the handler drop.
PreemptionArmed ==
  ~firstCall /\ ~InHandler /\ cpu.pc \notin SchedLabels \cup {"halt", "segv"}
    => timer \/ CurrentIs("EXITED")
============================================================================
