--------------------------- MODULE MyPthreadProofs ---------------------------
(***************************************************************************)
(* TypeOK, ContextOwner and MutualExclusion hold of the thread library for *)
(* any number of threads, mutexes and levels, wherever the timer's ticks   *)
(* fall outside schedule() and its last statements (~SlowTail).            *)
(*                                                                         *)
(* IInv of MyPthreadInv is inductive: it holds initially and every action  *)
(* preserves it.  The actions fall into the client's calls and the         *)
(* statements of the library (LocalFrame: they leave the contexts and the  *)
(* scheduler alone), the steps inside schedule() (ScheduleKeeps: they      *)
(* change the run queues and the label only), the returns from it          *)
(* (ReturnKeeps), the signal, and the context switch.                      *)
(***************************************************************************)
EXTENDS MyPthreadInv, TLAPS

USE DEF threadVars, accounts, listVars, schedVars, schedPtrs, machine

----------------------------------------------------------------------------
(* Types of updated functions, records and contexts.                       *)

\* Updating a function anywhere leaves it in its function set.
LEMMA FunUpdate ==
  ASSUME NEW S, NEW T, NEW f \in [S -> T], NEW x, NEW y \in T
  PROVE  [f EXCEPT ![x] = y] \in [S -> T]
  OBVIOUS

\* The walk of maintenance() keeps its type.
LEMMA WalkUpdate ==
  ASSUME NEW w \in [i : Levels, ptr : ThreadOrNull, prev : ThreadOrNull],
         NEW p \in ThreadOrNull, NEW v \in ThreadOrNull
  PROVE  /\ [w EXCEPT !.prev = v, !.ptr = p]
              \in [i : Levels, ptr : ThreadOrNull, prev : ThreadOrNull]
         /\ [w EXCEPT !.ptr = p]
              \in [i : Levels, ptr : ThreadOrNull, prev : ThreadOrNull]
  BY Zenon

\* A context stays one when its fields get values of their types.
LEMMA Updates ==
  ASSUME NEW c \in Continuation
  PROVE  /\ \A l \in Labels : [c EXCEPT !.pc = l] \in Continuation
         /\ \A o \in Calls, l \in Labels :
              [c EXCEPT !.op = o, !.pc = l] \in Continuation
         /\ \A o \in Calls, l \in Labels, a \in Threads \cup Mutexes :
              [c EXCEPT !.op = o, !.pc = l, !.arg = a] \in Continuation
         /\ \A o \in Calls, l \in Labels, t \in Threads, q \in Queues :
              [c EXCEPT !.op = o, !.pc = l, !.thr = t, !.q = q] \in Continuation
         /\ \A l \in Labels, t \in ThreadOrNull :
              /\ [c EXCEPT !.pc = l, !.thr = t] \in Continuation
              /\ [c EXCEPT !.pc = l, !.reg = t] \in Continuation
              /\ [c EXCEPT !.pc = l, !.from = t] \in Continuation
         /\ \A l \in Labels, t \in ThreadOrNull, q \in Queues \cup {NULL} :
              [c EXCEPT !.pc = l, !.thr = t, !.q = q] \in Continuation
         /\ \A l \in Labels, q \in Queues :
              [c EXCEPT !.pc = l, !.q = q] \in Continuation
         /\ \A l \in SchedLabels : [c EXCEPT !.irq = l] \in Continuation
         /\ \A l \in SchedLabels \cup {"none"}, t \in ThreadOrNull :
              [c EXCEPT !.irq = l, !.ifrom = t] \in Continuation
<1>1. \A l \in Labels : [c EXCEPT !.pc = l] \in Continuation
  BY DEF Continuation
<1>2. \A o \in Calls, l \in Labels :
        [c EXCEPT !.op = o, !.pc = l] \in Continuation
  BY DEF Continuation
<1>3. \A o \in Calls, l \in Labels, a \in Threads \cup Mutexes :
              [c EXCEPT !.op = o, !.pc = l, !.arg = a] \in Continuation
  BY DEF Continuation, ThreadOrNull
<1>4. \A o \in Calls, l \in Labels, t \in Threads, q \in Queues :
              [c EXCEPT !.op = o, !.pc = l, !.thr = t, !.q = q] \in Continuation
  BY DEF Continuation, ThreadOrNull
<1>5. \A l \in Labels, t \in ThreadOrNull :
              /\ [c EXCEPT !.pc = l, !.thr = t] \in Continuation
              /\ [c EXCEPT !.pc = l, !.reg = t] \in Continuation
              /\ [c EXCEPT !.pc = l, !.from = t] \in Continuation
  BY DEF Continuation
<1>6. \A l \in Labels, t \in ThreadOrNull, q \in Queues \cup {NULL} :
              [c EXCEPT !.pc = l, !.thr = t, !.q = q] \in Continuation
  BY DEF Continuation
<1>7. \A l \in Labels, q \in Queues :
        [c EXCEPT !.pc = l, !.q = q] \in Continuation
  BY DEF Continuation
<1>8. \A l \in SchedLabels : [c EXCEPT !.irq = l] \in Continuation
  BY DEF Continuation
<1>9. \A l \in SchedLabels \cup {"none"}, t \in ThreadOrNull :
              [c EXCEPT !.irq = l, !.ifrom = t] \in Continuation
  BY DEF Continuation
<1> QED BY <1>1, <1>2, <1>3, <1>4, <1>5, <1>6, <1>7, <1>8, <1>9, Zenon

\* The labels of schedule() are labels.
LEMMA LabelSets ==
  /\ SchedLabels \subseteq Labels /\ CallLabels \subseteq Labels
  /\ {"user", "halt", "segv"} \subseteq Labels
  /\ {"enq_test", "enq_front", "enq_load", "enq_link", "enq_rear",
               "arm", "exit_val", "join_test", "join_done",
               "lock_tas", "lock_block", "unlock",
               "deq_adv", "deq_clear", "deq_test", "deq_null", "wake",
               "release"} \subseteq Labels
  /\ {"sched", "maint", "switch", "next", "keep", "tail", "swap"}
       \subseteq SchedLabels \cap Labels
  BY DEF Labels, SchedLabels, CallLabels

\* Client code is a context.
LEMMA UserCodeTyped ==
  ASSUME NEW t \in Threads, NEW h \in SUBSET Mutexes
  PROVE  UserCode(t, h) \in Continuation
  BY DEF Continuation, ThreadOrNull, UserCode, Labels

\* The types of IInv that most steps need.
LEMMA Typed == ASSUME IInv
  PROVE /\ cpu \in Continuation /\ ctx \in [Threads -> Continuation]
        /\ cpu.me \in Threads /\ cpu.held \in SUBSET Mutexes
        /\ front \in [Queues -> ThreadOrNull]
        /\ rear \in [Queues -> ThreadOrNull]
        /\ next \in [Threads -> ThreadOrNull]
        /\ priority \in [Threads -> Levels]
  BY DEF IInv, TypeOK, Continuation

\* Once a thread is scheduled, or the first create is past its
\* first statement, the library knows the thread that runs.
LEMMA CurrentThread ==
  ASSUME IInv,
         \/ cpu.pc \notin {"user", "lock_tas", "unlock", "release"}
         \/ InHandler \/ ~firstCall
  PROVE currentThread \in Threads
  BY DEF IInv, TypeOK, BeforeTimer, ThreadOrNull

\* Priorities stay levels.
LEMMA RunFunctions ==
  ASSUME IInv, NEW t \in Threads
  PROVE  /\ priority[t] \in Levels /\ timeRun[t] \in 0 .. RUN_QUEUES
         /\ LowerPriority(priority[t]) \in Levels
         /\ \A l \in Levels : l \in Queues
<1>1. priority[t] \in Levels /\ timeRun[t] \in 0 .. RUN_QUEUES
  BY DEF IInv, TypeOK
<1>2. LowerPriority(priority[t]) \in Levels
  BY <1>1, LevelAssumption DEF LowerPriority, Levels
<1> QED BY <1>1, <1>2 DEF Queues

\* A charged slice counts at most RUN_QUEUES quanta.
LEMMA ChargeTyped ==
  ASSUME IInv, currentThread \in Threads, NEW e \in Elapsed, Charge(e)
  PROVE  timeRun' \in [Threads -> 0 .. RUN_QUEUES]
<1>1. RunTime(e) \in 0 .. RUN_QUEUES
  BY RunFunctions, LevelAssumption DEF RunTime, Elapsed, Levels
<1> QED BY <1>1 DEF IInv, TypeOK, Charge

\* enqueue() on a run queue leaves the wait queues alone.
LEMMA EnqueueTyped ==
  ASSUME IInv, NEW t \in Threads, NEW q \in Levels, Enqueue(t, q)
  PROVE  /\ front' \in [Queues -> ThreadOrNull]
         /\ rear' \in [Queues -> ThreadOrNull]
         /\ next' \in [Threads -> ThreadOrNull]
         /\ \A m \in Mutexes : front'[m] = front[m]
<1>1. t \in ThreadOrNull /\ q \in Queues /\ q \notin Mutexes
  BY LevelAssumption DEF ThreadOrNull, Queues
<1>2. front' \in [Queues -> ThreadOrNull] BY <1>1, Typed DEF Enqueue
<1>3. rear' \in [Queues -> ThreadOrNull] BY <1>1, Typed DEF Enqueue
<1>4. next' \in [Threads -> ThreadOrNull] BY <1>1, Typed DEF Enqueue
<1>5. \A m \in Mutexes : front'[m] = front[m] BY <1>1 DEF Enqueue
<1> QED BY <1>2, <1>3, <1>4, <1>5

----------------------------------------------------------------------------
(* What a step may leave alone.                                            *)

\* A statement outside schedule() leaves the saved contexts their threads.
LEMMA LocalFrame ==
  ASSUME IInv, ~InHandler, cpu.pc \notin InsideLabels,
         cpu'.me = cpu.me, cpu'.irq = "none", cpu'.pc \notin InsideLabels,
         ctx' = ctx, currentThread' = currentThread
  PROVE  ContextOwner' /\ SavedOK' /\ ScheduleOK'
  BY DEF IInv, ContextOwner, SavedOK, ScheduleOK, SchedAt, Switching,
     InsideLabels, SchedLabels

\* A step that takes and releases nothing keeps mutual exclusion.
LEMMA HeldFrame ==
  ASSUME IInv, cpu'.me = cpu.me, cpu'.held = cpu.held, ctx' = ctx, flag' = flag
  PROVE  MutualExclusion'
  BY DEF IInv, MutualExclusion, CodeOf

\* A step that empties no wait queue leaves every dequeue() its thread.
LEMMA DequeueFrame ==
  ASSUME IInv, cpu'.me = cpu.me, ctx' = ctx,
         cpu'.pc = "deq_adv" => front'[cpu'.arg] # NULL,
         \A m \in Mutexes : front[m] # NULL => front'[m] # NULL
  PROVE  DequeueOK'
  BY DEF IInv, DequeueOK, CodeOf, SavedOK, CallOK, DeqLabels

\* A step from label to label of schedule() changes neither the call the
\* thread is in nor what is saved or held.
LEMMA StillInside ==
  ASSUME IInv, NEW k \in SchedLabels, SchedAt(k),
         cpu'.me = cpu.me, cpu'.held = cpu.held, cpu'.op = cpu.op,
         cpu'.arg = cpu.arg, cpu'.thr = cpu.thr, cpu'.q = cpu.q,
         IF InHandler THEN cpu'.pc = cpu.pc ELSE cpu'.pc \in SchedLabels,
         ctx' = ctx, flag' = flag
  PROVE  CallOK(cpu)' /\ MutualExclusion' /\ SavedOK'
<1>1. CallOK(cpu)' BY DEF IInv, CallOK, EnqLabels, DeqLabels, SchedLabels
<1>2. MutualExclusion' BY HeldFrame
<1>3. SavedOK' BY DEF IInv, SavedOK
<1> QED BY <1>1, <1>2, <1>3

\* schedule() goes on at label l, in the handler or in the call.
LEMMA SchedToFields ==
  ASSUME IInv, NEW l \in SchedLabels
  PROVE  /\ SchedTo(l) \in Continuation
         /\ SchedTo(l).me = cpu.me /\ SchedTo(l).held = cpu.held
         /\ SchedTo(l).op = cpu.op /\ SchedTo(l).arg = cpu.arg
         /\ SchedTo(l).thr = cpu.thr /\ SchedTo(l).q = cpu.q
         /\ SchedTo(l).from = cpu.from /\ SchedTo(l).ifrom = cpu.ifrom
         /\ IF InHandler THEN SchedTo(l).pc = cpu.pc /\ SchedTo(l).irq = l
                         ELSE SchedTo(l).pc = l /\ SchedTo(l).irq = cpu.irq
<1>1. l \in Labels BY DEF Labels
<1>2. CASE InHandler
  <2>1. SchedTo(l) = [cpu EXCEPT !.irq = l] BY <1>2 DEF SchedTo
  <2>2. SchedTo(l) \in Continuation BY <2>1, Typed, Updates, ZenonT(40)
  <2> QED BY <1>2, <2>1, <2>2
<1>3. CASE ~InHandler
  <2>1. SchedTo(l) = [cpu EXCEPT !.pc = l] BY <1>3 DEF SchedTo
  <2>2. SchedTo(l) \in Continuation BY <1>1, <2>1, Typed, Updates, ZenonT(40)
  <2> QED BY <1>3, <2>1, <2>2
<1> QED BY <1>2, <1>3

\* schedule() goes on with ptr, the thread to replace.
LEMMA SwapOutFields ==
  ASSUME IInv, SwapOut
  PROVE  /\ cpu' \in Continuation
         /\ cpu'.me = cpu.me /\ cpu'.held = cpu.held
         /\ cpu'.op = cpu.op /\ cpu'.arg = cpu.arg
         /\ cpu'.thr = cpu.thr /\ cpu'.q = cpu.q
         /\ IF InHandler
            THEN /\ cpu'.pc = cpu.pc /\ cpu'.irq = "next"
                 /\ cpu'.ifrom = currentThread
            ELSE /\ cpu'.pc = "next" /\ cpu'.irq = cpu.irq
                 /\ cpu'.from = currentThread
<1>1. "next" \in Labels /\ "next" \in SchedLabels BY LabelSets
<1>2. currentThread \in ThreadOrNull BY DEF IInv, TypeOK
<1>3. CASE InHandler
  <2>1. cpu' = [cpu EXCEPT !.irq = "next", !.ifrom = currentThread]
    BY <1>3 DEF SwapOut
  <2>2. cpu' \in Continuation BY <1>1, <1>2, <2>1, Typed, Updates, ZenonT(40)
  <2> QED BY <1>3, <2>1, <2>2
<1>4. CASE ~InHandler
  <2>1. cpu' = [cpu EXCEPT !.pc = "next", !.from = currentThread]
    BY <1>4 DEF SwapOut
  <2>2. cpu' \in Continuation BY <1>1, <1>2, <2>1, Typed, Updates, ZenonT(40)
  <2> QED BY <1>4, <2>1, <2>2
<1> QED BY <1>3, <1>4

\* What schedule() returns to is code of the same thread.
LEMMA AfterFields ==
  ASSUME IInv, NEW k \in SchedLabels, SchedAt(k)
  PROVE  /\ AfterSchedule \in Continuation
         /\ AfterSchedule.me = cpu.me /\ AfterSchedule.held = cpu.held
         /\ AfterSchedule.irq = "none"
         /\ AfterSchedule.pc \notin InsideLabels
         /\ AfterSchedule.pc = "deq_adv" =>
              InHandler /\ cpu.pc = "deq_adv" /\ AfterSchedule.arg = cpu.arg
         /\ CallOK(AfterSchedule)
<1>1. CASE InHandler
  <2>1. AfterSchedule = [cpu EXCEPT !.irq = "none", !.ifrom = NULL]
    BY <1>1 DEF AfterSchedule
  <2>2. [cpu EXCEPT !.irq = "none", !.ifrom = NULL] \in Continuation
    BY Typed, Updates, Zenon DEF ThreadOrNull
  <2>3. cpu.pc \notin InsideLabels BY <1>1 DEF IInv, ScheduleOK
  <2>4. CallOK(AfterSchedule) BY <2>1 DEF CallOK, IInv
  <2> QED BY <1>1, <2>1, <2>2, <2>3, <2>4
<1>2. CASE ~InHandler
  <2>1. cpu.irq = "none" /\ cpu.pc \in SchedLabels
    BY <1>2 DEF InHandler, SchedAt
  <2>2. CASE cpu.op = "yield"
    <3>1. AfterSchedule = UserCode(cpu.me, cpu.held)
      BY <1>2, <2>2 DEF AfterSchedule
    <3> QED
      BY <3>1, UserCodeTyped, Typed DEF UserCode, InsideLabels, SchedLabels,
         CallOK, EnqLabels, DeqLabels
  <2>3. CASE cpu.op # "yield"
    <3>1. PICK l \in {"join_test", "lock_tas", "halt"} :
             /\ AfterSchedule = [cpu EXCEPT !.pc = l, !.from = NULL]
             /\ l = "join_test" => cpu.op = "join"
             /\ l = "lock_tas" => cpu.op = "lock"
      BY <1>2, <2>3 DEF AfterSchedule, RetryLock
    <3>2. l \in Labels BY DEF Labels, CallLabels
    <3>3. AfterSchedule \in Continuation
      BY <3>1, <3>2, Typed, Updates, Zenon DEF ThreadOrNull
    <3>4. CallOK(AfterSchedule) BY <3>1 DEF CallOK, IInv, EnqLabels, DeqLabels
    <3> QED BY <2>1, <3>1, <3>3, <3>4 DEF InsideLabels, SchedLabels
  <2> QED BY <2>2, <2>3
<1> QED BY <1>1, <1>2

\* A step inside schedule(), up to the choice of the next thread, keeps all
\* of the invariant but the types.
LEMMA ScheduleKeeps ==
  ASSUME IInv, NEW k \in SchedLabels \ {"tail", "swap"}, SchedAt(k),
         cpu'.me = cpu.me, cpu'.held = cpu.held, cpu'.op = cpu.op,
         cpu'.arg = cpu.arg, cpu'.thr = cpu.thr, cpu'.q = cpu.q,
         ctx' = ctx, flag' = flag, firstCall' = firstCall,
         currentThread' = currentThread,
         \A m \in Mutexes : front'[m] = front[m],
         NEW l \in SchedLabels \ {"tail", "swap"},
         IF InHandler THEN cpu'.pc = cpu.pc /\ cpu'.irq = l
                      ELSE cpu'.pc = l /\ cpu'.irq = cpu.irq,
         l \in {"maint", "switch", "next"} => inScheduler' = 1,
         l = "next" => SchedPtr' = cpu'.me
  PROVE  /\ CallOK(cpu)' /\ MutualExclusion' /\ SavedOK' /\ ContextOwner'
         /\ ScheduleOK' /\ BeforeTimer' /\ DequeueOK'
<1>1. CallOK(cpu)' /\ MutualExclusion' /\ SavedOK' BY StillInside
<1>2. ~firstCall /\ currentThread \in Threads
  BY CurrentThread DEF IInv, BeforeTimer, SchedAt, SchedLabels, EnqLabels
<1>3. ContextOwner'
  BY DEF IInv, ContextOwner, Switching, SchedAt, InHandler, SchedLabels
<1>4. ScheduleOK' BY DEF IInv, ScheduleOK, SchedAt, InHandler, SchedLabels
<1>5. BeforeTimer' BY <1>2, ThreadAssumption DEF BeforeTimer
<1>6. DequeueOK'
  BY DequeueFrame, Typed DEF IInv, DequeueOK, CodeOf, CallOK, DeqLabels,
     SchedLabels
<1> QED BY <1>1, <1>3, <1>4, <1>5, <1>6

\* So does the decision to replace the current thread.
LEMMA SwapOutKeeps ==
  ASSUME IInv, SchedAt("switch"), SwapOut, UNCHANGED <<schedVars, machine>>,
         \A m \in Mutexes : front'[m] = front[m]
  PROVE  /\ CallOK(cpu)' /\ MutualExclusion' /\ SavedOK' /\ ContextOwner'
         /\ ScheduleOK' /\ BeforeTimer' /\ DequeueOK'
<1>1. "switch" \in SchedLabels /\ "next" \in SchedLabels BY LabelSets
<1>2. currentThread \in Threads BY CurrentThread DEF SchedAt
<1>3. inScheduler = 1 BY DEF IInv, ScheduleOK
<1>4. SchedPtr' = cpu'.me
  <2>1. cpu.me = currentThread
    BY <1>2, ThreadAssumption DEF IInv, ContextOwner, Switching, SchedAt
  <2> QED BY <2>1, SwapOutFields DEF SchedPtr, InHandler
<1> QED BY <1>1, <1>3, <1>4, SwapOutFields, ScheduleKeeps

\* schedule() returns to the thread that called it or was interrupted.
LEMMA ReturnKeeps ==
  ASSUME IInv, NEW k \in {"switch", "keep"}, SchedAt(k), cpu' = AfterSchedule,
         UNCHANGED <<threadVars, listVars, schedPtrs, walk, machine>>,
         inScheduler' = 0
  PROVE  IInv'
<1>1. k \in SchedLabels BY LabelSets
<1>2. ~firstCall /\ currentThread \in Threads /\ ~Switching
  BY CurrentThread DEF IInv, BeforeTimer, SchedAt, EnqLabels, Switching
<1>3. TypeOK' BY <1>1, AfterFields DEF IInv, TypeOK
<1>4. ContextOwner'
  BY AfterFields DEF IInv, ContextOwner, Switching, SchedAt, InsideLabels,
     SchedLabels
<1>5. CallOK(cpu)' /\ BeforeTimer'
  BY <1>1, <1>2, AfterFields, ThreadAssumption DEF BeforeTimer
<1>6. MutualExclusion' BY <1>1, AfterFields, HeldFrame
<1>7. SavedOK' BY DEF IInv, SavedOK
<1>8. ScheduleOK'
  BY AfterFields DEF ScheduleOK, SchedAt, InsideLabels, SchedLabels
<1>9. DequeueOK' BY <1>1, AfterFields DEF IInv, DequeueOK, CodeOf
<1> QED BY <1>3, <1>4, <1>5, <1>6, <1>7, <1>8, <1>9 DEF IInv

----------------------------------------------------------------------------
(* The calls of the client.                                                *)

\* my_pthread_create: the state and the context of the new thread.
LEMMA CreateStep == ASSUME IInv, NEW t \in Threads, Create(t) PROVE IInv'
<1> USE DEF Create, CallFrom, At, InHandler
<1>1. cpu' \in Continuation
  <2>1. "create" \in Calls /\ "enq_test" \in Labels
    BY DEF Calls, Labels, CallLabels
  <2>2. priority[t] \in Queues BY RunFunctions
  <2>3. \A o \in Calls, l \in Labels, q \in Queues :
          [cpu EXCEPT !.op = o, !.pc = l, !.thr = t, !.q = q] \in Continuation
    BY Updates, Typed, Zenon
  <2>4. [cpu EXCEPT !.op = "create", !.pc = "enq_test", !.thr = t,
                    !.q = priority[t]] \in Continuation
    BY <2>1, <2>2, <2>3
  <2> QED BY <2>4
<1>2. /\ currentThread' \in Threads
      /\ currentThread # NULL => currentThread' = currentThread
  <2>1. CASE firstCall
    BY <2>1, ThreadAssumption DEF IInv, BeforeTimer, EnqLabels
  <2>2. CASE ~firstCall BY <2>2, CurrentThread
  <2> QED BY <2>1, <2>2
<1>3. TypeOK'
  <2>1. ctx' \in [Threads -> Continuation] BY UserCodeTyped, Typed
  <2> QED BY <1>1, <1>2, <2>1 DEF IInv, TypeOK, ThreadOrNull
<1>4. SavedOK'
  <2>1. /\ UserCode(t, {}).me = t /\ UserCode(t, {}).irq = "none"
        /\ UserCode(t, {}).pc \notin InsideLabels /\ CallOK(UserCode(t, {}))
    BY DEF UserCode, InsideLabels, SchedLabels, CallOK, EnqLabels, DeqLabels
  <2> QED BY <2>1 DEF IInv, SavedOK
<1>5. ContextOwner' /\ ScheduleOK'
  BY <1>4 DEF IInv, ContextOwner, ScheduleOK, SavedOK, BeforeTimer, Switching,
     SchedAt
<1>6. CallOK(cpu)' /\ BeforeTimer'
  BY RunFunctions, ThreadAssumption DEF IInv, CallOK, BeforeTimer, EnqLabels,
     DeqLabels
<1>7. MutualExclusion'
  <2>1. \A u \in Threads : (CodeOf(u)').held \subseteq CodeOf(u).held
    BY DEF CodeOf, UserCode
  <2> QED BY <2>1 DEF IInv, MutualExclusion
<1>8. DequeueOK' BY DEF IInv, DequeueOK, CodeOf, UserCode
<1> QED BY <1>3, <1>4, <1>5, <1>6, <1>7, <1>8 DEF IInv

\* my_pthread_yield.
LEMMA YieldStep == ASSUME IInv, Yield PROVE IInv'
<1> USE DEF Yield, Running, CallFrom, At, InHandler
<1>1. cpu' \in Continuation
  BY Updates, Typed, Zenon DEF Calls, Labels, SchedLabels
<1>2. TypeOK' BY <1>1 DEF IInv, TypeOK
<1>3. ContextOwner' /\ SavedOK' /\ ScheduleOK'
  BY LocalFrame DEF InsideLabels, SchedLabels
<1>4. MutualExclusion' BY HeldFrame
<1>5. CallOK(cpu)' /\ BeforeTimer'
  BY DEF IInv, CallOK, BeforeTimer, EnqLabels, DeqLabels
<1>6. DequeueOK' BY DequeueFrame
<1> QED BY <1>2, <1>3, <1>4, <1>5, <1>6 DEF IInv

\* my_pthread_exit, its state.
LEMMA ExitStep == ASSUME IInv, Exit PROVE IInv'
<1> USE DEF Exit, Running, CallFrom, At, InHandler
<1>1. cpu' \in Continuation
  BY Updates, Typed, Zenon DEF Calls, Labels, CallLabels
<1>2. TypeOK' BY <1>1 DEF IInv, TypeOK
<1>3. ContextOwner' /\ SavedOK' /\ ScheduleOK'
  BY LocalFrame DEF InsideLabels, SchedLabels
<1>4. MutualExclusion' BY HeldFrame
<1>5. CallOK(cpu)' /\ BeforeTimer'
  BY DEF IInv, CallOK, BeforeTimer, EnqLabels, DeqLabels
<1>6. DequeueOK' BY DequeueFrame
<1> QED BY <1>2, <1>3, <1>4, <1>5, <1>6 DEF IInv

\* my_pthread_exit, its value.
LEMMA ExitValueStep == ASSUME IInv, ExitValue PROVE IInv'
<1> USE DEF ExitValue, At, Goto, InHandler
<1>1. cpu' \in Continuation
  BY Updates, Typed, Zenon DEF Labels, SchedLabels
<1>2. TypeOK' BY <1>1, Typed DEF IInv, TypeOK, ThreadOrNull
<1>3. ContextOwner' /\ SavedOK' /\ ScheduleOK'
  BY LocalFrame DEF InsideLabels, SchedLabels
<1>4. MutualExclusion' BY HeldFrame
<1>5. CallOK(cpu)' /\ BeforeTimer'
  BY DEF IInv, CallOK, BeforeTimer, EnqLabels, DeqLabels
<1>6. DequeueOK' BY DequeueFrame
<1> QED BY <1>2, <1>3, <1>4, <1>5, <1>6 DEF IInv

\* my_pthread_join.
LEMMA JoinStep == ASSUME IInv, NEW t \in Threads, Join(t) PROVE IInv'
<1> USE DEF Join, Running, CallFrom, At, InHandler
<1>1. cpu' \in Continuation
  BY Updates, Typed, Zenon DEF Calls, Labels, CallLabels
<1>2. TypeOK' BY <1>1 DEF IInv, TypeOK
<1>3. ContextOwner' /\ SavedOK' /\ ScheduleOK'
  BY LocalFrame DEF InsideLabels, SchedLabels
<1>4. MutualExclusion' BY HeldFrame
<1>5. CallOK(cpu)' /\ BeforeTimer'
  BY DEF IInv, CallOK, BeforeTimer, EnqLabels, DeqLabels
<1>6. DequeueOK' BY DequeueFrame
<1> QED BY <1>2, <1>3, <1>4, <1>5, <1>6 DEF IInv

\* The loop of my_pthread_join.
LEMMA JoinTestStep == ASSUME IInv, JoinTest PROVE IInv'
<1> USE DEF JoinTest, HasExited, At, Goto, InHandler
<1>1. cpu' \in Continuation
  BY Updates, Typed, Zenon DEF Labels, SchedLabels, CallLabels
<1>2. TypeOK' BY <1>1 DEF IInv, TypeOK
<1>3. ContextOwner' /\ SavedOK' /\ ScheduleOK'
  BY LocalFrame DEF InsideLabels, SchedLabels
<1>4. MutualExclusion' BY HeldFrame
<1>5. CallOK(cpu)' /\ BeforeTimer'
  BY DEF IInv, CallOK, BeforeTimer, EnqLabels, DeqLabels
<1>6. DequeueOK' BY DequeueFrame
<1> QED BY <1>2, <1>3, <1>4, <1>5, <1>6 DEF IInv

\* The end of my_pthread_join.
LEMMA JoinDoneStep == ASSUME IInv, JoinDone PROVE IInv'
<1> USE DEF JoinDone, At, InHandler
<1>1. cpu' \in Continuation
  BY Typed, UserCodeTyped
<1>2. TypeOK' BY <1>1 DEF IInv, TypeOK
<1>3. ContextOwner' /\ SavedOK' /\ ScheduleOK'
  BY LocalFrame DEF UserCode, InsideLabels, SchedLabels
<1>4. MutualExclusion' BY HeldFrame DEF UserCode
<1>5. CallOK(cpu)' /\ BeforeTimer'
  BY DEF IInv, CallOK, BeforeTimer, UserCode, EnqLabels, DeqLabels
<1>6. DequeueOK' BY DequeueFrame DEF UserCode
<1> QED BY <1>2, <1>3, <1>4, <1>5, <1>6 DEF IInv

\* my_pthread_mutex_lock.
LEMMA LockStep == ASSUME IInv, NEW m \in Mutexes, Lock(m) PROVE IInv'
<1> USE DEF Lock, CallFrom, At, InHandler
<1>1. cpu' \in Continuation
  BY Updates, Typed, Zenon DEF Calls, Labels, CallLabels
<1>2. TypeOK' BY <1>1 DEF IInv, TypeOK
<1>3. ContextOwner' /\ SavedOK' /\ ScheduleOK'
  BY LocalFrame DEF InsideLabels, SchedLabels
<1>4. MutualExclusion' BY HeldFrame
<1>5. CallOK(cpu)' /\ BeforeTimer'
  BY DEF IInv, CallOK, BeforeTimer, EnqLabels, DeqLabels
<1>6. DequeueOK' BY DequeueFrame
<1> QED BY <1>2, <1>3, <1>4, <1>5, <1>6 DEF IInv

\* my_pthread_mutex_unlock.
LEMMA UnlockStep == ASSUME IInv, NEW m \in Mutexes, Unlock(m) PROVE IInv'
<1> USE DEF Unlock, CallFrom, At, InHandler
<1>1. cpu' \in Continuation
  BY Updates, Typed, Zenon DEF Calls, Labels, CallLabels
<1>2. TypeOK' BY <1>1 DEF IInv, TypeOK
<1>3. ContextOwner' /\ SavedOK' /\ ScheduleOK'
  BY LocalFrame DEF InsideLabels, SchedLabels
<1>4. MutualExclusion' BY HeldFrame
<1>5. CallOK(cpu)' /\ BeforeTimer'
  BY DEF IInv, CallOK, BeforeTimer, EnqLabels, DeqLabels
<1>6. DequeueOK' BY DequeueFrame
<1> QED BY <1>2, <1>3, <1>4, <1>5, <1>6 DEF IInv

\* The end of the first my_pthread_create.
LEMMA ArmStep == ASSUME IInv, Arm PROVE IInv'
<1> USE DEF Arm, StartTimer, At, InHandler
<1>1. cpu' \in Continuation
  BY Typed, UserCodeTyped
<1>2. TypeOK' BY <1>1 DEF IInv, TypeOK
<1>3. ContextOwner' /\ SavedOK' /\ ScheduleOK'
  BY LocalFrame DEF UserCode, InsideLabels, SchedLabels
<1>4. MutualExclusion' BY HeldFrame DEF UserCode
<1>5. CallOK(cpu)' /\ BeforeTimer'
  BY DEF IInv, CallOK, BeforeTimer, UserCode, EnqLabels, DeqLabels
<1>6. DequeueOK' BY DequeueFrame DEF UserCode
<1> QED BY <1>2, <1>3, <1>4, <1>5, <1>6 DEF IInv

----------------------------------------------------------------------------
(* The statements of lock, unlock, enqueue and dequeue.                    *)

\* The lock is taken by a free flag: nobody else holds the mutex.
LEMMA TestAndSetStep == ASSUME IInv, TestAndSet PROVE IInv'
<1> USE DEF TestAndSet, At, Goto, InHandler
<1>1. cpu.arg \in Mutexes \ cpu.held BY DEF IInv, CallOK
<1>2. CASE flag[cpu.arg] = 1
  <2>1. cpu' = [cpu EXCEPT !.pc = "lock_block"] /\ flag' = flag
    BY <1>2 DEF IInv, TypeOK
  <2>2. cpu' \in Continuation
    <3>1. "lock_block" \in Labels BY DEF Labels, CallLabels
    <3> QED BY <2>1, <3>1, Updates, Typed, Zenon
  <2>3. TypeOK' BY <2>2 DEF IInv, TypeOK
  <2>4. ContextOwner' /\ SavedOK' /\ ScheduleOK'
    BY <2>1, LocalFrame DEF InsideLabels, SchedLabels
  <2>5. MutualExclusion' BY <2>1, HeldFrame
  <2>6. CallOK(cpu)' BY <2>1 DEF IInv, CallOK, EnqLabels, DeqLabels
  <2>7. BeforeTimer'
    <3>1. currentThread # NULL BY <1>1, <1>2 DEF IInv, BeforeTimer
    <3> QED BY <3>1 DEF IInv, BeforeTimer, EnqLabels
  <2>8. DequeueOK' BY <2>1, DequeueFrame
  <2> QED BY <2>3, <2>4, <2>5, <2>6, <2>7, <2>8 DEF IInv
<1>3. CASE flag[cpu.arg] # 1
  <2>1. cpu' = UserCode(cpu.me, cpu.held \cup {cpu.arg}) BY <1>3
  <2>2. cpu' \in Continuation BY <1>1, <2>1, UserCodeTyped, Typed
  <2>3. TypeOK' BY <2>2 DEF IInv, TypeOK
  <2>4. /\ cpu'.me = cpu.me /\ cpu'.irq = "none" /\ cpu'.pc = "user"
        /\ cpu'.op = "none" /\ cpu'.held = cpu.held \cup {cpu.arg}
    BY <2>1 DEF UserCode
  <2>5. ContextOwner' /\ SavedOK' /\ ScheduleOK'
    BY <2>4, LocalFrame DEF InsideLabels, SchedLabels
  <2>6. MutualExclusion'
    <3>1. \A u \in Threads : cpu.arg \notin CodeOf(u).held
      BY <1>1, <1>3 DEF IInv, MutualExclusion
    <3>2. \A u \in Threads : CodeOf(u)' = IF u = cpu.me THEN cpu' ELSE CodeOf(u)
      BY <2>4 DEF CodeOf
    <3>3. CodeOf(cpu.me) = cpu /\ cpu.me \in Threads BY Typed DEF CodeOf
    <3>4. \A u \in Threads, m \in Mutexes :
            m \in (CodeOf(u)').held =>
              m \in CodeOf(u).held \/ (m = cpu.arg /\ u = cpu.me)
      BY <2>4, <3>2, <3>3
    <3>5. \A m \in Mutexes : flag'[m] = IF m = cpu.arg THEN 1 ELSE flag[m]
      BY DEF IInv, TypeOK
    <3> QED BY <3>1, <3>4, <3>5 DEF IInv, MutualExclusion
  <2>7. CallOK(cpu)' BY <2>4 DEF CallOK, EnqLabels, DeqLabels
  <2>8. BeforeTimer'
    <3> QED BY <2>4 DEF IInv, BeforeTimer, EnqLabels
  <2>9. DequeueOK' BY <2>4, DequeueFrame
  <2> QED BY <2>3, <2>5, <2>6, <2>7, <2>8, <2>9 DEF IInv
<1> QED BY <1>2, <1>3

\* The flag is cleared by the one thread that holds the mutex.
LEMMA ReleaseStep == ASSUME IInv, Release PROVE IInv'
<1> USE DEF Release, At, InHandler
<1>1. cpu.arg \in Mutexes \cap cpu.held BY DEF IInv, CallOK
<1>2. cpu' \in Continuation BY UserCodeTyped, Typed
<1>3. TypeOK'
  <2> QED BY <1>2 DEF IInv, TypeOK
<1>4. /\ cpu'.me = cpu.me /\ cpu'.irq = "none" /\ cpu'.pc = "user"
      /\ cpu'.op = "none" /\ cpu'.held = cpu.held \ {cpu.arg}
  BY DEF UserCode
<1>5. ContextOwner' /\ SavedOK' /\ ScheduleOK'
  BY <1>4, LocalFrame DEF InsideLabels, SchedLabels
<1>6. \A m \in Mutexes : flag'[m] = IF m = cpu.arg THEN 0 ELSE flag[m]
  BY DEF IInv, TypeOK
<1>7. MutualExclusion'
  <2>1. CodeOf(cpu.me) = cpu /\ cpu.me \in Threads BY Typed DEF CodeOf
  <2>2. \A u \in Threads : cpu.arg \in CodeOf(u).held => u = cpu.me
    BY <1>1, <2>1 DEF IInv, MutualExclusion
  <2>3. \A u \in Threads : CodeOf(u)' = IF u = cpu.me THEN cpu' ELSE CodeOf(u)
    BY <1>4 DEF CodeOf
  <2>4. ASSUME NEW u \in Threads, NEW m \in Mutexes
        PROVE  m \in (CodeOf(u)').held => m \in CodeOf(u).held /\ m # cpu.arg
    <3>1. CASE u = cpu.me BY <1>4, <2>1, <2>3, <3>1
    <3>2. CASE u # cpu.me BY <2>2, <2>3, <3>2
    <3> QED BY <3>1, <3>2
  <2> QED BY <2>4 DEF IInv, MutualExclusion
<1>8. CallOK(cpu)' BY <1>4 DEF CallOK, EnqLabels, DeqLabels
<1>9. BeforeTimer'
  <2>1. \A m \in Mutexes : flag'[m] = 1 => flag[m] = 1 /\ m # cpu.arg BY <1>6
  <2>2. (firstCall => currentThread = NULL) /\ (currentThread = NULL => firstCall)
    BY DEF IInv, BeforeTimer, EnqLabels
  <2>3. firstCall => cpu.me = Main /\ ~timer BY DEF IInv, BeforeTimer
  <2>4. currentThread = NULL =>
          /\ \A q \in Queues : front[q] = NULL
          /\ \A m \in Mutexes : flag'[m] = 1 => m \in cpu'.held
    BY <1>4, <2>1 DEF IInv, BeforeTimer
  <2> QED BY <1>4, <2>2, <2>3, <2>4 DEF BeforeTimer
<1>10. DequeueOK' BY <1>4, DequeueFrame
<1> QED BY <1>3, <1>5, <1>7, <1>8, <1>9, <1>10 DEF IInv

\* The lock is taken: the caller joins its wait queue.
LEMMA LockBlockStep == ASSUME IInv, LockBlock PROVE IInv'
<1> USE DEF LockBlock, At, InHandler
<1>1. cpu' \in Continuation
  BY Updates, Typed, CurrentThread, Zenon DEF IInv, CallOK, Queues, ThreadOrNull,
     Labels, CallLabels
<1>2. TypeOK' BY <1>1 DEF IInv, TypeOK
<1>3. ContextOwner' /\ SavedOK' /\ ScheduleOK'
  BY LocalFrame DEF InsideLabels, SchedLabels
<1>4. MutualExclusion' BY HeldFrame
<1>5. CallOK(cpu)' /\ BeforeTimer'
  BY DEF IInv, TypeOK, CallOK, BeforeTimer, DeqLabels, Queues, ThreadOrNull
<1>6. DequeueOK' BY DequeueFrame
<1> QED BY <1>2, <1>3, <1>4, <1>5, <1>6 DEF IInv

\* enqueue(): the test of rear.
LEMMA EnqTestStep == ASSUME IInv, EnqTest PROVE IInv'
<1> USE DEF EnqTest, At, Goto, InHandler
<1>1. cpu' \in Continuation
  BY Updates, Typed, Zenon DEF Labels, CallLabels
<1>2. TypeOK' BY <1>1 DEF IInv, TypeOK
<1>3. ContextOwner' /\ SavedOK' /\ ScheduleOK'
  BY LocalFrame DEF InsideLabels, SchedLabels
<1>4. MutualExclusion' BY HeldFrame
<1>5. CallOK(cpu)' /\ BeforeTimer'
  BY DEF IInv, CallOK, BeforeTimer, EnqLabels, DeqLabels
<1>6. DequeueOK' BY DequeueFrame
<1> QED BY <1>2, <1>3, <1>4, <1>5, <1>6 DEF IInv

\* enqueue() on an empty queue.
LEMMA EnqFrontStep == ASSUME IInv, EnqFront PROVE IInv'
<1> USE DEF EnqFront, At, Goto, InHandler
<1>1. cpu' \in Continuation
  BY Updates, Typed, Zenon DEF Labels, CallLabels
<1>2. TypeOK' BY <1>1 DEF IInv, TypeOK, CallOK, EnqLabels, ThreadOrNull
<1>3. ContextOwner' /\ SavedOK' /\ ScheduleOK'
  BY LocalFrame DEF InsideLabels, SchedLabels
<1>4. MutualExclusion' BY HeldFrame
<1>5. CallOK(cpu)' /\ BeforeTimer'
  BY DEF IInv, CallOK, BeforeTimer, EnqLabels, DeqLabels
<1>6. DequeueOK' BY DequeueFrame, ThreadAssumption DEF IInv, CallOK, EnqLabels
<1> QED BY <1>2, <1>3, <1>4, <1>5, <1>6 DEF IInv

\* enqueue(): the load of rear.
LEMMA EnqLoadStep == ASSUME IInv, EnqLoad PROVE IInv'
<1> USE DEF EnqLoad, At, InHandler
<1>1. cpu' \in Continuation
  BY Updates, Typed, Zenon DEF IInv, CallOK, EnqLabels, Labels, CallLabels
<1>2. TypeOK' BY <1>1 DEF IInv, TypeOK
<1>3. ContextOwner' /\ SavedOK' /\ ScheduleOK'
  BY LocalFrame DEF InsideLabels, SchedLabels
<1>4. MutualExclusion' BY HeldFrame
<1>5. CallOK(cpu)' /\ BeforeTimer'
  BY DEF IInv, CallOK, BeforeTimer, EnqLabels, DeqLabels
<1>6. DequeueOK' BY DequeueFrame
<1> QED BY <1>2, <1>3, <1>4, <1>5, <1>6 DEF IInv

\* enqueue(): the store through rear.
LEMMA EnqLinkStep == ASSUME IInv, EnqLink PROVE IInv'
<1> USE DEF EnqLink, At, InHandler
<1>1. cpu' \in Continuation
  BY Updates, Typed, Zenon DEF ThreadOrNull, Labels, CallLabels
<1>2. next' \in [Threads -> ThreadOrNull] BY FunUpdate, Typed DEF ThreadOrNull
<1>3. TypeOK' BY <1>2, <1>1 DEF IInv, TypeOK
<1>4. ContextOwner' /\ SavedOK' /\ ScheduleOK'
  BY LocalFrame DEF InsideLabels, SchedLabels
<1>5. MutualExclusion' BY HeldFrame
<1>6. CallOK(cpu)' /\ BeforeTimer'
  BY DEF IInv, CallOK, BeforeTimer, EnqLabels, DeqLabels
<1>7. DequeueOK' BY DequeueFrame
<1> QED BY <1>3, <1>4, <1>5, <1>6, <1>7 DEF IInv

\* enqueue(): the new rear.
LEMMA EnqRearStep == ASSUME IInv, EnqRear PROVE IInv'
<1> USE DEF EnqRear, AfterEnqueue, At, InHandler
<1>1. cpu' \in Continuation
  BY Updates, Typed, UserCodeTyped, Zenon DEF ThreadOrNull, Labels, SchedLabels,
     CallLabels
<1>2. TypeOK' BY <1>1 DEF IInv, TypeOK, CallOK, EnqLabels, ThreadOrNull
<1>3. ContextOwner' /\ SavedOK' /\ ScheduleOK'
  BY LocalFrame DEF UserCode, InsideLabels, SchedLabels
<1>4. MutualExclusion' BY HeldFrame DEF UserCode
<1>5. CallOK(cpu)' /\ BeforeTimer'
  BY DEF IInv, CallOK, BeforeTimer, UserCode, EnqLabels, DeqLabels
<1>6. DequeueOK' BY DequeueFrame DEF UserCode
<1> QED BY <1>2, <1>3, <1>4, <1>5, <1>6 DEF IInv

\* unlock: the test of the wait queue, which dequeue() relies on.
LEMMA UnlockTestStep == ASSUME IInv, UnlockTest PROVE IInv'
<1> USE DEF UnlockTest, At, Goto, InHandler
<1>1. CASE front[cpu.arg] = NULL
  <2>1. "release" \in Labels BY DEF Labels, CallLabels
  <2>2. cpu' = [cpu EXCEPT !.pc = "release"] BY <1>1
  <2>3. cpu' \in Continuation BY <2>1, <2>2, Updates, Typed, Zenon
  <2>4. TypeOK' BY <2>3 DEF IInv, TypeOK
  <2>5. ContextOwner' /\ SavedOK' /\ ScheduleOK'
    BY <1>1, LocalFrame, Typed DEF Continuation, InsideLabels, SchedLabels
  <2>6. MutualExclusion' BY HeldFrame, Typed DEF Continuation
  <2>7. CallOK(cpu)' /\ BeforeTimer'
    BY <1>1, Typed DEF IInv, CallOK, BeforeTimer, Continuation, EnqLabels,
       DeqLabels
  <2>8. DequeueOK' BY DequeueFrame, Typed DEF Continuation
  <2> QED BY <2>4, <2>5, <2>6, <2>7, <2>8 DEF IInv
<1>2. CASE front[cpu.arg] # NULL
  <2>1. cpu.arg \in Queues /\ front[cpu.arg] \in Threads
    BY <1>2, Typed DEF IInv, CallOK, Queues, ThreadOrNull
  <2>2. cpu' = [cpu EXCEPT !.pc = "deq_adv", !.thr = front[cpu.arg]] BY <1>2
  <2>3. "deq_adv" \in Labels BY SMTT(20) DEF Labels, CallLabels
  <2> HIDE DEF UnlockTest
  <2>4. cpu' \in Continuation
    BY <2>1, <2>2, <2>3, Updates, Typed
  <2> USE DEF UnlockTest
  <2>5. TypeOK' BY <2>4 DEF IInv, TypeOK
  <2>6. ContextOwner' /\ SavedOK' /\ ScheduleOK'
    BY <2>2, LocalFrame DEF InsideLabels, SchedLabels
  <2>7. MutualExclusion' BY <2>2, HeldFrame
  <2>8. CallOK(cpu)' /\ BeforeTimer'
    BY <1>2, <2>1, <2>2 DEF IInv, CallOK, BeforeTimer, EnqLabels
  <2>9. DequeueOK' BY <1>2, <2>2, DequeueFrame
  <2> QED BY <2>5, <2>6, <2>7, <2>8, <2>9 DEF IInv
<1> QED BY <1>1, <1>2

\* dequeue(): only the holder of a mutex takes threads from its queue.
LEMMA DeqAdvanceStep == ASSUME IInv, DeqAdvance PROVE IInv'
<1> USE DEF DeqAdvance, At, Goto, InHandler
<1>1. cpu' \in Continuation
  BY Updates, Typed, Zenon DEF Labels, CallLabels
<1>2. cpu.arg \in Queues /\ front[cpu.arg] \in Threads
  BY Typed DEF IInv, CallOK, DeqLabels, DequeueOK, CodeOf, ThreadOrNull, Queues
<1>3. TypeOK' BY <1>2, <1>1 DEF IInv, TypeOK
<1>4. ContextOwner' /\ SavedOK' /\ ScheduleOK'
  BY LocalFrame DEF InsideLabels, SchedLabels
<1>5. MutualExclusion' BY HeldFrame
<1>6. CallOK(cpu)' /\ BeforeTimer'
  BY DEF IInv, CallOK, BeforeTimer, EnqLabels, DeqLabels
<1>7. DequeueOK'
  <2>1. SUFFICES ASSUME NEW t \in Threads, (CodeOf(t).pc = "deq_adv")'
                 PROVE  (front[CodeOf(t).arg] # NULL)'
    BY DEF DequeueOK
  <2>2. t # cpu.me /\ CodeOf(t)' = CodeOf(t) BY <2>1 DEF CodeOf
  <2>3. cpu.arg \in cpu.held /\ CodeOf(cpu.me) = cpu
    BY DEF IInv, CallOK, CodeOf, DeqLabels
  <2>4. CodeOf(t).arg \in Mutexes \cap CodeOf(t).held
    BY <2>1 DEF IInv, SavedOK, CallOK, CodeOf, DeqLabels
  <2>5. CodeOf(t).arg # cpu.arg
    BY <2>2, <2>3, <2>4, Typed DEF IInv, MutualExclusion
  <2>6. front'[CodeOf(t).arg] = front[CodeOf(t).arg] BY <2>5
  <2> QED BY <2>1, <2>2, <2>6 DEF IInv, DequeueOK
<1> QED BY <1>3, <1>4, <1>5, <1>6, <1>7 DEF IInv

\* dequeue(): the link of the removed thread.
LEMMA DeqClearStep == ASSUME IInv, DeqClear PROVE IInv'
<1> USE DEF DeqClear, At, Goto, InHandler
<1>1. cpu' \in Continuation
  BY Updates, Typed, Zenon DEF Labels, CallLabels
<1>2. TypeOK' BY <1>1 DEF IInv, TypeOK, ThreadOrNull
<1>3. ContextOwner' /\ SavedOK' /\ ScheduleOK'
  BY LocalFrame DEF InsideLabels, SchedLabels
<1>4. MutualExclusion' BY HeldFrame
<1>5. CallOK(cpu)' /\ BeforeTimer'
  BY DEF IInv, CallOK, BeforeTimer, EnqLabels, DeqLabels
<1>6. DequeueOK' BY DequeueFrame
<1> QED BY <1>2, <1>3, <1>4, <1>5, <1>6 DEF IInv

\* dequeue(): the test for an emptied queue.
LEMMA DeqTestStep == ASSUME IInv, DeqTest PROVE IInv'
<1> USE DEF DeqTest, At, Goto, InHandler
<1>1. cpu' \in Continuation
  BY Updates, Typed, Zenon DEF Labels, CallLabels
<1>2. TypeOK' BY <1>1 DEF IInv, TypeOK
<1>3. ContextOwner' /\ SavedOK' /\ ScheduleOK'
  BY LocalFrame DEF InsideLabels, SchedLabels
<1>4. MutualExclusion' BY HeldFrame
<1>5. CallOK(cpu)' /\ BeforeTimer'
  BY DEF IInv, CallOK, BeforeTimer, EnqLabels, DeqLabels
<1>6. DequeueOK' BY DequeueFrame
<1> QED BY <1>2, <1>3, <1>4, <1>5, <1>6 DEF IInv

\* dequeue(): the rear of an emptied queue.
LEMMA DeqNullStep == ASSUME IInv, DeqNull PROVE IInv'
<1> USE DEF DeqNull, At, Goto, InHandler
<1>1. cpu' \in Continuation
  BY Updates, Typed, Zenon DEF Labels, CallLabels
<1>2. TypeOK' BY <1>1 DEF IInv, TypeOK, ThreadOrNull
<1>3. ContextOwner' /\ SavedOK' /\ ScheduleOK'
  BY LocalFrame DEF InsideLabels, SchedLabels
<1>4. MutualExclusion' BY HeldFrame
<1>5. CallOK(cpu)' /\ BeforeTimer'
  BY DEF IInv, CallOK, BeforeTimer, EnqLabels, DeqLabels
<1>6. DequeueOK' BY DequeueFrame
<1> QED BY <1>2, <1>3, <1>4, <1>5, <1>6 DEF IInv

\* unlock: the waiter goes to its run queue.
LEMMA WakeStep == ASSUME IInv, Wake PROVE IInv'
<1> USE DEF Wake, At, InHandler
<1>1. cpu' \in Continuation
  BY Updates, Typed, Zenon DEF IInv, CallOK, DeqLabels, Queues, Labels, CallLabels
<1>2. TypeOK' BY <1>1 DEF IInv, TypeOK
<1>3. ContextOwner' /\ SavedOK' /\ ScheduleOK'
  BY LocalFrame DEF InsideLabels, SchedLabels
<1>4. MutualExclusion' BY HeldFrame
<1>5. CallOK(cpu)' /\ BeforeTimer'
  BY DEF IInv, TypeOK, CallOK, BeforeTimer, DeqLabels, Queues
<1>6. DequeueOK' BY DequeueFrame
<1> QED BY <1>2, <1>3, <1>4, <1>5, <1>6 DEF IInv

----------------------------------------------------------------------------
(* The signal and schedule().                                              *)

\* SIGALRM: dropped inside schedule(), else the handler starts.
LEMMA SignalStep == ASSUME ~SlowTail, IInv, Signal PROVE IInv'
<1> USE DEF Signal, Deliverable
<1>1. CASE inScheduler = 1
  <2>1. cpu' = cpu /\ timer' = FALSE BY <1>1
  <2>2. TypeOK' BY <2>1 DEF IInv, TypeOK
  <2>3. ContextOwner' /\ ScheduleOK' /\ SavedOK'
    <3>1. SavedOK' BY DEF IInv, SavedOK
    <3>2. ContextOwner'
      BY DEF IInv, ContextOwner, Switching, SchedAt, InHandler
    <3>3. ScheduleOK'
      BY <1>1 DEF IInv, ScheduleOK, SchedAt, SchedPtr, InHandler
    <3> QED BY <3>1, <3>2, <3>3
  <2>4. MutualExclusion' /\ DequeueOK'
    BY DEF IInv, MutualExclusion, DequeueOK, CodeOf
  <2>5. CallOK(cpu)' /\ BeforeTimer' BY <2>1 DEF IInv, BeforeTimer
  <2> QED BY <2>2, <2>3, <2>4, <2>5 DEF IInv
<1>2. CASE inScheduler # 1
  <2>1. cpu' = [cpu EXCEPT !.irq = "sched"] /\ timer' = FALSE BY <1>2
  <2>2. "sched" \in SchedLabels BY LabelSets
  <2>3. cpu' \in Continuation
   <3>1. \A l \in SchedLabels : [cpu EXCEPT !.irq = l] \in Continuation
     BY Updates, Typed, Zenon
   <3> QED BY <2>1, <2>2, <3>1
  <2>4. TypeOK' BY <2>3 DEF IInv, TypeOK
  <2>5. cpu.pc \notin InsideLabels
    BY <1>2 DEF IInv, ScheduleOK, SchedAt, InsideLabels, SchedLabels
  <2>6. ContextOwner' /\ ScheduleOK' /\ SavedOK'
    BY <2>5 DEF IInv, ContextOwner, ScheduleOK, SavedOK, Switching, SchedAt,
       SchedPtr, InHandler
  <2>7. MutualExclusion' BY HeldFrame
  <2>8. CallOK(cpu)' /\ BeforeTimer' BY DEF IInv, CallOK, BeforeTimer
  <2>9. DequeueOK' BY DEF IInv, DequeueOK, CodeOf
  <2> QED BY <2>4, <2>6, <2>7, <2>8, <2>9 DEF IInv
<1> QED BY <1>1, <1>2

\* inScheduler = 1, and the count of cycles.
LEMMA SchedEnterStep == ASSUME IInv, SchedEnter PROVE IInv'
<1> USE DEF SchedEnter
<1>1. "sched" \in SchedLabels /\ "maint" \in SchedLabels /\ "switch" \in SchedLabels
  BY LabelSets
<1>2. CASE MaintenanceDue
  <2>1. cpu' = SchedTo("maint") /\ maintenanceCycle' = 0 BY <1>2
  <2>2. walk' \in [i : Levels, ptr : ThreadOrNull, prev : ThreadOrNull]
    BY <1>2, Typed, LevelAssumption DEF Levels, Queues, ThreadOrNull
  <2>3. TypeOK'
    BY <1>1, <2>1, <2>2, SchedToFields, LevelAssumption DEF IInv, TypeOK
  <2> QED BY <1>1, <2>3, SchedToFields, ScheduleKeeps DEF IInv
<1>3. CASE ~MaintenanceDue
  <2>1. cpu' = SchedTo("switch") /\ maintenanceCycle' = maintenanceCycle + 1
    BY <1>3
  <2>2. maintenanceCycle' \in 0 .. MAINTENANCE_THRESHOLD - 1
    BY LevelAssumption DEF IInv, TypeOK, MaintenanceDue
  <2>3. TypeOK' BY <1>1, <2>1, <2>2, SchedToFields DEF IInv, TypeOK
  <2> QED BY <1>1, <2>3, SchedToFields, ScheduleKeeps DEF IInv
<1> QED BY <1>2, <1>3

\* maintenance(): a young thread.
LEMMA MaintSkipStep == ASSUME IInv, MaintSkip PROVE IInv'
<1> USE DEF MaintSkip
<1>1. "maint" \in SchedLabels BY LabelSets
<1>2. inScheduler = 1 BY DEF IInv, ScheduleOK
<1>3. TypeOK'
  <2>1. walk.ptr \in Threads BY DEF IInv, TypeOK, ThreadOrNull
  <2>2. walk.ptr \in ThreadOrNull /\ next[walk.ptr] \in ThreadOrNull
    BY <2>1, Typed DEF ThreadOrNull
  <2>3. walk' \in [i : Levels, ptr : ThreadOrNull, prev : ThreadOrNull]
    BY <2>2 DEF IInv, TypeOK
  <2> QED BY <2>3 DEF IInv, TypeOK
<1>4. IF InHandler THEN cpu.irq = "maint" ELSE cpu.pc = "maint" BY DEF SchedAt
<1> QED BY <1>1, <1>2, <1>3, <1>4, ScheduleKeeps DEF IInv

\* maintenance(): an old thread moves to the best level.
LEMMA MaintPromoteStep == ASSUME IInv, MaintPromote PROVE IInv'
<1> DEFINE p       == walk.ptr
           isFront == p = front[walk.i]
           succ    == next[p]
           next1   == IF isFront THEN next ELSE [next EXCEPT ![walk.prev] = succ]
           next2   == [next1 EXCEPT ![p] = NULL]
           front1  == IF isFront THEN [front EXCEPT ![walk.i] = succ] ELSE front
           rear1   == IF succ # NULL THEN rear
                      ELSE [rear EXCEPT ![walk.i] = IF isFront THEN NULL ELSE walk.prev]
<1>1. /\ old' = old \cup {p}
      /\ priority' = [priority EXCEPT ![p] = 0]
      /\ front' = IF rear1[0] = NULL THEN [front1 EXCEPT ![0] = p] ELSE front1
      /\ next' = IF rear1[0] = NULL THEN next2 ELSE [next2 EXCEPT ![rear1[0]] = p]
      /\ rear' = [rear1 EXCEPT ![0] = p]
      /\ walk' = IF succ = NULL THEN [walk EXCEPT !.ptr = NULL]
                 ELSE [walk EXCEPT !.prev = succ, !.ptr = next'[succ]]
      /\ UNCHANGED <<state, timeRun, retval, freed, schedPtrs, inScheduler,
                     machine, cpu>>
  BY DEF MaintPromote
<1>2. /\ p \in Threads /\ p \in ThreadOrNull /\ NULL \in ThreadOrNull
      /\ succ \in ThreadOrNull /\ walk.prev \in ThreadOrNull
      /\ walk.i \in Levels /\ 0 \in Levels
  BY LevelAssumption DEF MaintPromote, IInv, TypeOK, ThreadOrNull, Levels
<1>3. front1 \in [Queues -> ThreadOrNull] BY <1>2, Typed
<1>4. rear1 \in [Queues -> ThreadOrNull] BY <1>2, Typed
<1>5. next2 \in [Threads -> ThreadOrNull]
  <2>1. next1 \in [Threads -> ThreadOrNull] BY <1>2, Typed
  <2> QED BY <1>2, <2>1
<1>6. \A m \in Mutexes : front'[m] = front[m]
  <2>1. walk.i \notin Mutexes /\ 0 \notin Mutexes BY <1>2, LevelAssumption
  <2> QED BY <1>1, <2>1, Typed DEF Queues
<1> HIDE DEF front1, rear1, next2
<1>7. next' \in [Threads -> ThreadOrNull] BY <1>1, <1>2, <1>5
<1>8. walk' \in [i : Levels, ptr : ThreadOrNull, prev : ThreadOrNull]
  <2>1. succ # NULL => succ \in Threads BY <1>2 DEF ThreadOrNull
  <2>2. succ # NULL => next'[succ] \in ThreadOrNull BY <1>7, <2>1
  <2> QED BY <1>1, <1>2, <2>2 DEF IInv, TypeOK
<1>9. TypeOK'
  <2>1. front' \in [Queues -> ThreadOrNull] BY <1>1, <1>2, <1>3
  <2>2. rear' \in [Queues -> ThreadOrNull] BY <1>1, <1>2, <1>4
  <2>3. priority' \in [Threads -> Levels] BY <1>1, <1>2 DEF IInv, TypeOK
  <2> QED BY <1>1, <1>7, <1>8, <2>1, <2>2, <2>3 DEF IInv, TypeOK
<1>10. "maint" \in SchedLabels /\ inScheduler = 1 /\ SchedAt("maint")
  BY LabelSets DEF IInv, ScheduleOK, MaintPromote
<1>11. IF InHandler THEN cpu.irq = "maint" ELSE cpu.pc = "maint"
  BY <1>10 DEF SchedAt
<1> HIDE DEF p
<1> QED BY <1>1, <1>6, <1>9, <1>10, <1>11, ScheduleKeeps DEF IInv

\* maintenance(): the next level.
LEMMA MaintNextLevelStep == ASSUME IInv, MaintNextLevel PROVE IInv'
<1> USE DEF MaintNextLevel
<1>1. "maint" \in SchedLabels /\ "switch" \in SchedLabels BY LabelSets
<1>2. inScheduler = 1 BY DEF IInv, ScheduleOK
<1>3. CASE walk.i + 1 < RUN_QUEUES
  <2>1. cpu' = cpu /\ walk' = [i |-> walk.i + 1, ptr |-> front[walk.i + 1], prev |-> NULL]
    BY <1>3
  <2>2. walk.i + 1 \in Levels BY <1>3, LevelAssumption DEF IInv, TypeOK, Levels
  <2>3. walk' \in [i : Levels, ptr : ThreadOrNull, prev : ThreadOrNull]
    BY <2>1, <2>2, Typed DEF Queues, ThreadOrNull
  <2>4. TypeOK' BY <2>1, <2>3 DEF IInv, TypeOK
  <2>5. IF InHandler THEN cpu.irq = "maint" ELSE cpu.pc = "maint"
    BY DEF SchedAt
  <2> QED BY <1>2, <1>1, <2>1, <2>4, <2>5, ScheduleKeeps DEF IInv
<1>4. CASE ~ (walk.i + 1 < RUN_QUEUES)
  <2>1. cpu' = SchedTo("switch") /\ walk' = NoWalk BY <1>4
  <2>2. walk' \in [i : Levels, ptr : ThreadOrNull, prev : ThreadOrNull]
    BY <2>1, LevelAssumption DEF NoWalk, Levels, ThreadOrNull
  <2>3. TypeOK' BY <1>1, <2>2, SchedToFields DEF IInv, TypeOK
  <2> QED BY <1>2, <1>1, <2>1, <2>3, SchedToFields, ScheduleKeeps DEF IInv
<1> QED BY <1>3, <1>4

\* Nobody else is ready.
LEMMA KeepAloneStep == ASSUME IInv, KeepAlone PROVE IInv'
<1> USE DEF KeepAlone, StartTimer
<1>1. "switch" \in SchedLabels /\ "keep" \in SchedLabels BY LabelSets
<1>2. ~firstCall /\ currentThread \in Threads
  BY CurrentThread DEF IInv, BeforeTimer, SchedAt, EnqLabels
<1>3. timeRun' \in [Threads -> 0 .. RUN_QUEUES] BY <1>2, ChargeTyped
<1>4. TypeOK' BY <1>1, <1>3, SchedToFields DEF IInv, TypeOK
<1> QED BY <1>1, <1>4, SchedToFields, ScheduleKeeps DEF IInv

\* The slice is not over.
LEMMA KeepRunningStep == ASSUME IInv, KeepRunning PROVE IInv'
<1> USE DEF KeepRunning, StartTimer
<1>1. "switch" \in SchedLabels /\ "keep" \in SchedLabels BY LabelSets
<1>2. ~firstCall /\ currentThread \in Threads
  BY CurrentThread DEF IInv, BeforeTimer, SchedAt, EnqLabels
<1>3. timeRun' \in [Threads -> 0 .. RUN_QUEUES] BY <1>2, ChargeTyped
<1>4. TypeOK' BY <1>1, <1>3, SchedToFields DEF IInv, TypeOK
<1> QED BY <1>1, <1>4, SchedToFields, ScheduleKeeps DEF IInv

\* The thread has yielded or waits in join.
LEMMA RequeueStep == ASSUME IInv, Requeue PROVE IInv'
<1> USE DEF Requeue, ResetRun
<1>1. currentThread \in Threads BY CurrentThread DEF SchedAt
<1>2. \A m \in Mutexes : front'[m] = front[m]
  BY <1>1, RunFunctions, EnqueueTyped
<1>3. TypeOK'
  BY <1>1, EnqueueTyped, SwapOutFields, LevelAssumption DEF IInv, TypeOK
<1> QED BY <1>2, <1>3, SwapOutKeeps DEF IInv

\* The slice is over.
LEMMA DemoteStep == ASSUME IInv, Demote PROVE IInv'
<1> USE DEF Demote, ResetRun
<1>1. currentThread \in Threads BY CurrentThread DEF SchedAt
<1>2. PICK p \in Levels : /\ Enqueue(currentThread, p)
                          /\ priority' = [priority EXCEPT ![currentThread] = p]
  BY <1>1, RunFunctions
<1>3. TypeOK'
  BY <1>1, <1>2, EnqueueTyped, SwapOutFields, LevelAssumption DEF IInv, TypeOK
<1> QED BY <1>1, <1>2, <1>3, EnqueueTyped, SwapOutKeeps DEF IInv

\* The thread has exited.
LEMMA ReapStep == ASSUME IInv, Reap PROVE IInv'
<1> USE DEF Reap
<1>1. currentThread \in Threads BY CurrentThread DEF SchedAt
<1>2. TypeOK' BY <1>1, SwapOutFields DEF IInv, TypeOK
<1> QED BY <1>2, SwapOutKeeps DEF IInv

\* The thread waits for a mutex.
LEMMA BlockStep == ASSUME IInv, Block PROVE IInv'
<1> USE DEF Block
<1>1. currentThread \in Threads BY CurrentThread DEF SchedAt
<1>2. timeRun' \in [Threads -> 0 .. RUN_QUEUES] BY <1>1, ChargeTyped
<1>3. TypeOK' BY <1>2, SwapOutFields DEF IInv, TypeOK
<1> QED BY <1>3, SwapOutKeeps DEF IInv

\* The front of the best level is next.
LEMMA DispatchStep == ASSUME IInv, Dispatch PROVE IInv'
<1>1. PICK i \in Levels : DispatchFrom(i) BY DEF Dispatch
<1> USE DEF DispatchFrom
<1>2. "next" \in SchedLabels /\ "tail" \in SchedLabels BY LabelSets
<1>3. /\ i \in Queues /\ i \notin Mutexes
      /\ front[i] \in Threads
  BY <1>1, Typed, LevelAssumption DEF Queues, BestLevel, Ready, ThreadOrNull
<1>4. /\ currentThread' = front[i]
      /\ front' = [front EXCEPT ![i] = next[front[i]]]
      /\ rear' = RearAfter(i, next[front[i]])
      /\ next' = [next EXCEPT ![front[i]] = NULL]
      /\ state' = [state EXCEPT ![front[i]] = "RUNNING"]
      /\ timer' = TRUE /\ cpu' = SchedTo("tail")
      /\ UNCHANGED <<accounts, maintenanceCycle, firstCall, inScheduler, walk,
                 flag, ctx>>
  BY <1>1 DEF StartTimer
<1>5. ~firstCall BY <1>1 DEF IInv, BeforeTimer, SchedAt, EnqLabels
<1>6. TypeOK'
  <2>1. front' \in [Queues -> ThreadOrNull] /\ next' \in [Threads -> ThreadOrNull]
    BY <1>3, <1>4, Typed DEF ThreadOrNull
  <2>2. rear' \in [Queues -> ThreadOrNull]
    BY <1>4, Typed, FunUpdate DEF RearAfter
  <2>3. cpu' \in Continuation BY <1>2, <1>4, SchedToFields
  <2> QED BY <1>4, <2>1, <2>2, <2>3 DEF IInv, TypeOK
<1>7. CallOK(cpu)' /\ MutualExclusion' /\ SavedOK'
  BY <1>1, <1>2, StillInside, SchedToFields
<1>8. ContextOwner' /\ ScheduleOK'
  BY <1>1, <1>2, SchedToFields DEF IInv, ContextOwner, ScheduleOK, Switching,
     SchedAt, SchedPtr, InHandler
<1>9. BeforeTimer'
  <2>1. currentThread' # NULL BY <1>3, <1>4, ThreadAssumption
  <2> QED BY <1>4, <1>5, <2>1 DEF BeforeTimer
<1>10. DequeueOK'
  <2>1. \A m \in Mutexes : front'[m] = front[m] BY <1>3, <1>4
  <2> QED
    BY <1>1, <1>2, <2>1, SchedToFields, DequeueFrame, Typed DEF IInv,
       DequeueOK, CodeOf, CallOK, DeqLabels
<1> QED BY <1>6, <1>7, <1>8, <1>9, <1>10 DEF IInv

\* inScheduler = 0.
LEMMA SwapTailStep == ASSUME IInv, SwapTail PROVE IInv'
<1> USE DEF SwapTail
<1>1. "tail" \in SchedLabels /\ "swap" \in SchedLabels BY LabelSets
<1>2. ~firstCall /\ currentThread \in Threads
  BY CurrentThread DEF IInv, BeforeTimer, SchedAt, EnqLabels
<1>3. TypeOK' BY <1>1, SchedToFields DEF IInv, TypeOK
<1>4. CallOK(cpu)' /\ MutualExclusion' /\ SavedOK'
  BY <1>1, StillInside, SchedToFields
<1>5. ContextOwner' /\ ScheduleOK'
  BY <1>1, SchedToFields DEF IInv, ContextOwner, ScheduleOK, Switching,
     SchedAt, SchedPtr, InHandler
<1>6. BeforeTimer' BY <1>2, ThreadAssumption DEF BeforeTimer
<1>7. DequeueOK' BY <1>1, SchedToFields DEF IInv, DequeueOK, CodeOf
<1> QED BY <1>3, <1>4, <1>5, <1>6, <1>7 DEF IInv

\* The last thread has exited: my_pthread_exit goes on.
LEMMA AllFinishedStep == ASSUME IInv, AllFinished PROVE IInv'
  BY ReturnKeeps DEF AllFinished

\* schedule() returns without a switch.
LEMMA KeepStep == ASSUME IInv, Keep PROVE IInv'
  BY ReturnKeeps DEF Keep

\* swapcontext().
LEMMA SwapStep == ASSUME ~SlowTail, IInv, Swap PROVE IInv'
<1> DEFINE saved == [ctx EXCEPT ![cpu.me] = AfterSchedule]
<1>1. "swap" \in SchedLabels /\ SchedAt("swap") /\ SwappedOut = cpu.me
  BY LabelSets DEF Swap, IInv, ScheduleOK, SwappedOut
<1>2. currentThread \in Threads /\ ~firstCall
  BY <1>1, CurrentThread DEF IInv, BeforeTimer, SchedAt, EnqLabels
<1>3. /\ cpu' = saved[currentThread]
      /\ ctx' = [saved EXCEPT ![currentThread] = UserCode(currentThread, {})]
      /\ UNCHANGED <<threadVars, listVars, schedVars, flag, timer>>
  BY <1>1 DEF Swap
<1>4. /\ saved \in [Threads -> Continuation]
      /\ \A t \in Threads : /\ saved[t].me = t /\ saved[t].irq = "none"
                            /\ saved[t].pc \notin InsideLabels /\ CallOK(saved[t])
                            /\ saved[t].held = CodeOf(t).held
                            /\ saved[t].pc = "deq_adv" => front[saved[t].arg] # NULL
  <2>1. saved \in [Threads -> Continuation] BY <1>1, AfterFields, Typed
  <2>2. ASSUME NEW t \in Threads, t = cpu.me
        PROVE  /\ saved[t].me = t /\ saved[t].irq = "none"
               /\ saved[t].pc \notin InsideLabels /\ CallOK(saved[t])
               /\ saved[t].held = CodeOf(t).held
               /\ saved[t].pc = "deq_adv" => front[saved[t].arg] # NULL
    <3>1. saved[t] = AfterSchedule BY <2>2, Typed
    <3> HIDE DEF saved
    <3> QED BY <1>1, <2>2, <3>1, AfterFields DEF IInv, DequeueOK, CodeOf
  <2>3. ASSUME NEW t \in Threads, t # cpu.me
        PROVE  /\ saved[t].me = t /\ saved[t].irq = "none"
               /\ saved[t].pc \notin InsideLabels /\ CallOK(saved[t])
               /\ saved[t].held = CodeOf(t).held
               /\ saved[t].pc = "deq_adv" => front[saved[t].arg] # NULL
    <3>1. saved[t] = ctx[t] BY <2>3
    <3> HIDE DEF saved
    <3> QED BY <2>3, <3>1 DEF IInv, SavedOK, DequeueOK, CodeOf
  <2> QED BY <2>1, <2>2, <2>3
<1> HIDE DEF saved
<1>5. UserCode(currentThread, {}) \in Continuation BY <1>2, UserCodeTyped
<1>6. TypeOK' BY <1>2, <1>3, <1>4, <1>5 DEF IInv, TypeOK
<1>7. cpu'.me = currentThread BY <1>2, <1>3, <1>4
<1>8. \A t \in Threads :
        ctx'[t] = IF t = currentThread THEN UserCode(currentThread, {})
                  ELSE saved[t]
  BY <1>3, <1>4
<1>9. ContextOwner' /\ ScheduleOK' /\ BeforeTimer'
  <2>1. cpu'.irq = "none" /\ cpu'.pc \notin InsideLabels /\ ~InHandler'
    BY <1>2, <1>3, <1>4 DEF InHandler
  <2>2. ~Switching' BY <2>1 DEF Switching, SchedAt, InsideLabels, SchedLabels
  <2>3. \A t \in Threads : ctx'[t].me = t BY <1>4, <1>8 DEF UserCode
  <2>4. ContextOwner' BY <1>3, <1>7, <2>2, <2>3 DEF ContextOwner
  <2>5. ScheduleOK' BY <2>1 DEF ScheduleOK, SchedAt, InsideLabels, SchedLabels
  <2>6. BeforeTimer' BY <1>2, <1>3, ThreadAssumption DEF BeforeTimer
  <2> QED BY <2>4, <2>5, <2>6
<1>10. SavedOK'
  <2>1. CallOK(UserCode(currentThread, {}))
    BY DEF CallOK, UserCode, EnqLabels, DeqLabels
  <2>2. /\ UserCode(currentThread, {}).me = currentThread
        /\ UserCode(currentThread, {}).irq = "none"
        /\ UserCode(currentThread, {}).pc \notin InsideLabels
    BY DEF UserCode, InsideLabels, SchedLabels
  <2>3. ASSUME NEW t \in Threads
        PROVE (/\ ctx[t].me = t /\ ctx[t].irq = "none"
               /\ ctx[t].pc \notin InsideLabels /\ CallOK(ctx[t]))'
    <3>1. CASE t = currentThread
       <4>1. ctx'[t] = UserCode(currentThread, {}) BY <1>8, <3>1
       <4> QED BY <2>1, <2>2, <3>1, <4>1
    <3>2. CASE t # currentThread
       <4>1. ctx'[t] = saved[t] BY <1>8, <3>2
       <4> QED BY <1>4, <4>1
    <3> QED BY <3>1, <3>2
  <2> QED BY <2>3 DEF SavedOK
<1>11. CallOK(cpu)' BY <1>2, <1>3, <1>4
<1>12. MutualExclusion'
  <2>1. \A t \in Threads : CodeOf(t)' = IF t = currentThread THEN cpu' ELSE ctx'[t]
    BY <1>7 DEF CodeOf
  <2>2. \A t \in Threads : (CodeOf(t)').held = CodeOf(t).held
    BY <1>3, <1>4, <2>1
  <2> QED BY <1>3, <2>2 DEF IInv, MutualExclusion
<1>13. DequeueOK'
  <2>1. \A t \in Threads : CodeOf(t)' = IF t = currentThread THEN cpu' ELSE ctx'[t]
    BY <1>7 DEF CodeOf
  <2>2. \A t \in Threads : CodeOf(t)' = saved[t] BY <1>3, <2>1
  <2> QED BY <1>3, <1>4, <2>2 DEF DequeueOK
<1> QED BY <1>6, <1>9, <1>10, <1>11, <1>12, <1>13 DEF IInv

\* A stuttering step.
LEMMA StutterStep == ASSUME IInv, UNCHANGED vars PROVE IInv'
<1> USE DEF vars
<1>1. TypeOK' BY DEF IInv, TypeOK
<1>2. ContextOwner'
  BY DEF IInv, ContextOwner, Switching, SchedAt, SchedPtr, InHandler
<1>3. MutualExclusion' /\ DequeueOK'
  BY DEF IInv, MutualExclusion, DequeueOK, CodeOf
<1>4. CallOK(cpu)' /\ SavedOK' BY DEF IInv, SavedOK
<1>5. ScheduleOK' /\ BeforeTimer'
  BY DEF IInv, ScheduleOK, BeforeTimer, SchedAt, SchedPtr, InHandler
<1> QED BY <1>1, <1>2, <1>3, <1>4, <1>5 DEF IInv

----------------------------------------------------------------------------
(* The theorems.                                                           *)

\* The program starts in the invariant, before any call of the library.
LEMMA InitInv == ASSUME Init PROVE IInv
<1> USE DEF Init
<1>1. cpu \in Continuation /\ \A t \in Threads : UserCode(t, {}) \in Continuation
  BY UserCodeTyped, ThreadAssumption
<1>2. TypeOK
  <2>1. NULL \in ThreadOrNull BY DEF ThreadOrNull
  <2>2. 0 \in Levels /\ 0 \in 0 .. RUN_QUEUES /\ 0 \in 0 .. MAINTENANCE_THRESHOLD - 1
    BY LevelAssumption DEF Levels
  <2>3. walk \in [i : Levels, ptr : ThreadOrNull, prev : ThreadOrNull]
    BY <2>1, <2>2 DEF NoWalk
  <2> QED BY <1>1, <2>1, <2>2, <2>3 DEF TypeOK
<1>3. ContextOwner /\ SavedOK /\ ScheduleOK
  BY DEF ContextOwner, SavedOK, ScheduleOK, Switching, SchedAt, UserCode,
     CallOK, EnqLabels, DeqLabels, InsideLabels, SchedLabels
<1>4. MutualExclusion /\ DequeueOK
  BY DEF MutualExclusion, DequeueOK, CodeOf, UserCode
<1>5. CallOK(cpu) /\ BeforeTimer
  BY DEF CallOK, BeforeTimer, UserCode, EnqLabels, DeqLabels, InHandler
<1> QED BY <1>2, <1>3, <1>4, <1>5 DEF IInv

\* One step of the program, whichever thread or tick takes it, keeps the
\* invariant.
LEMMA NextInv == ASSUME ~SlowTail, IInv, [Next]_vars PROVE IInv'
<1>1. CASE Calling
  BY <1>1, CreateStep, YieldStep, ExitStep, JoinStep, LockStep, UnlockStep DEF
     Calling
<1>2. CASE Returning
  BY <1>2, ArmStep, ExitValueStep, JoinTestStep, JoinDoneStep, TestAndSetStep,
     LockBlockStep, UnlockTestStep, WakeStep, ReleaseStep, EnqTestStep,
     EnqFrontStep, EnqLoadStep, EnqLinkStep, EnqRearStep, DeqAdvanceStep,
     DeqClearStep, DeqTestStep, DeqNullStep DEF Returning
<1>3. CASE Scheduling
  BY <1>3, SchedEnterStep, MaintSkipStep, MaintPromoteStep, MaintNextLevelStep,
     AllFinishedStep, KeepAloneStep, KeepRunningStep, RequeueStep, DemoteStep,
     ReapStep, BlockStep, DispatchStep, KeepStep, SwapTailStep, SwapStep DEF
     Scheduling
<1>4. CASE Signal BY <1>4, SignalStep
<1>5. CASE Halted \/ UNCHANGED vars BY <1>5, StutterStep DEF Halted
<1> QED BY <1>1, <1>2, <1>3, <1>4, <1>5 DEF Next

\* The invariant that says what each thread's code may rely on, at whatever
\* statement a tick has interrupted it, holds of every run.
THEOREM Invariance == ASSUME ~SlowTail PROVE Spec => []IInv
<1>1. Init => IInv BY InitInv
<1>2. IInv /\ [Next]_vars => IInv' BY NextInv
<1> QED BY <1>1, <1>2, PTL DEF Spec

\* Every field, pointer and local has its type: no dequeue() reads through a
\* NULL front and no statement stores outside a thread or a queue, except the
\* NULL rear that enqueue() may load (the label "segv").
THEOREM TypeCorrect == ASSUME ~SlowTail PROVE Spec => []TypeOK
<1>1. IInv => TypeOK BY DEF IInv
<1> QED BY <1>1, Invariance, PTL

\* Outside the switch itself the code that runs is the one of currentThread,
\* and every my_pthread_t holds a context of its own thread.
THEOREM ContextsOwned == ASSUME ~SlowTail PROVE Spec => []ContextOwner
<1>1. IInv => ContextOwner BY DEF IInv
<1> QED BY <1>1, Invariance, PTL

\* my_pthread_mutex_lock keeps all other threads out until the holder's unlock
\* clears the flag, although lock(), unlock() and the wait queue they share are
\* interrupted anywhere.
THEOREM MutexSafe == ASSUME ~SlowTail PROVE Spec => []MutualExclusion
<1>1. IInv => MutualExclusion BY DEF IInv
<1> QED BY <1>1, Invariance, PTL
============================================================================
