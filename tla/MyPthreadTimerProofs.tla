------------------------ MODULE MyPthreadTimerProofs ------------------------
(***************************************************************************)
(* PreemptionArmed holds of the thread library for any number of threads,  *)
(* mutexes and levels, wherever the ticks fall outside the last statements *)
(* of schedule() (~SlowTail).                                              *)
(*                                                                         *)
(* TInv of MyPthreadInv is inductive on top of IInv.  The one-shot timer   *)
(* runs whenever client code does, unless that code has just exited, so a  *)
(* statement outside schedule() has nothing to show (LocalTimer); inside   *)
(* schedule() the timer is started before the label keep or tail           *)
(* (SchedTimer), from which alone control goes back to a thread that is    *)
(* not EXITED; and a tick that inScheduler makes the handler drop falls    *)
(* inside schedule() before that.                                          *)
(***************************************************************************)
EXTENDS MyPthreadProofs

USE DEF threadVars, accounts, listVars, schedVars, schedPtrs, machine

\* Outside schedule() and my_pthread_exit() the timer runs.
LEMMA TimerRuns ==
  ASSUME IInv, TInv, ~InHandler, cpu.pc \notin SchedLabels \cup {"halt", "segv", "exit_val"}
  PROVE  /\ cpu.op # "exit" /\ inScheduler # 1
         /\ firstCall \/ timer
<1>1. cpu.me \in Threads /\ CodeOf(cpu.me) = cpu BY Typed DEF CodeOf
<1>2. cpu.op # "exit" BY <1>1 DEF TInv, ExitOK
<1>3. ~Switching /\ inScheduler # 1
  BY DEF TInv, TimerOK, SchedAt, Switching, SchedLabels
<1>4. ASSUME ~firstCall PROVE timer
  <2>1. currentThread = cpu.me
    BY <1>3, <1>4 DEF IInv, BeforeTimer, ContextOwner
  <2> QED BY <1>1, <1>2, <1>4, <2>1 DEF TInv, ExitOK, PreemptionArmed, CurrentIs
<1> QED BY <1>2, <1>3, <1>4

\* A statement of a call that ends no thread, and that leaves the timer alone.
LEMMA LocalTimer ==
  ASSUME IInv, TInv, ~InHandler, cpu.pc \notin SchedLabels \cup {"halt", "segv", "exit_val"},
         cpu'.me = cpu.me, cpu'.irq = "none", cpu'.pc \notin InsideLabels,
         cpu'.op # "exit", inScheduler' = inScheduler,
         timer' \/ (timer' = timer /\ firstCall' = firstCall),
         \A t \in Threads :
           /\ state'[t] = "EXITED" => state[t] = "EXITED"
           /\ ctx'[t] = ctx[t] \/ (state'[t] # "EXITED" /\ ctx'[t].op # "exit")
  PROVE  TInv'
<1>1. cpu.op # "exit" /\ inScheduler # 1 /\ (firstCall \/ timer) BY TimerRuns
<1>2. ExitOK'
  <2>1. CodeOf(cpu.me) = cpu BY DEF CodeOf
  <2>2. state[cpu.me] # "EXITED" BY <1>1, <2>1, Typed DEF TInv, ExitOK
  <2> QED BY <2>2 DEF TInv, ExitOK, CodeOf
<1>3. ~InHandler' BY DEF InHandler
<1>4. TimerOK'
  BY <1>1, <1>3 DEF TimerOK, SchedAt, Switching, InsideLabels, SchedLabels
<1>5. PreemptionArmed' BY <1>1 DEF PreemptionArmed
<1> QED BY <1>2, <1>4, <1>5 DEF TInv

\* A step from label to label of schedule().
LEMMA SchedTimer ==
  ASSUME IInv, TInv, NEW k \in SchedLabels, SchedAt(k), NEW l \in SchedLabels,
         cpu'.me = cpu.me, cpu'.op = cpu.op,
         IF InHandler THEN cpu'.pc = cpu.pc /\ cpu'.irq = l
                      ELSE cpu'.pc = l /\ cpu'.irq = cpu.irq,
         ctx' = ctx, l = "sched" \/ l = "swap" => inScheduler' # 1,
         l \in {"keep", "tail", "swap"} => timer',
         \A t \in Threads : state'[t] = "EXITED" => state[t] = "EXITED"
  PROVE  TInv'
<1>1. IF InHandler THEN InHandler' ELSE ~InHandler' /\ cpu.pc = k
  BY DEF InHandler, SchedAt, SchedLabels
<1>2. SchedAt(l)' /\ \A j \in SchedLabels : SchedAt(j)' => j = l
  BY <1>1 DEF SchedAt, InHandler
<1>3. TimerOK' BY <1>2 DEF TimerOK, Switching, SchedLabels
<1>4. PreemptionArmed' BY <1>1 DEF PreemptionArmed
<1>5. ExitOK' BY <1>1 DEF TInv, ExitOK, CodeOf
<1> QED BY <1>3, <1>4, <1>5 DEF TInv

\* my_pthread_exit() goes on after schedule() only to halt.
LEMMA AfterExit ==
  ASSUME IInv, TInv, NEW k \in SchedLabels, SchedAt(k)
  PROVE  /\ cpu.op = "exit" => AfterSchedule.op = "exit"
         /\ AfterSchedule.op = "exit" =>
              AfterSchedule.pc \in {"exit_val", "halt"} \cup SchedLabels
         /\ AfterSchedule.pc \in InsideLabels => FALSE
<1>1. CASE InHandler
  <2>1. AfterSchedule = [cpu EXCEPT !.irq = "none", !.ifrom = NULL]
    BY <1>1 DEF AfterSchedule
  <2>2. AfterSchedule.op = cpu.op /\ AfterSchedule.pc = cpu.pc
    BY <2>1, Typed DEF Continuation
  <2>3. CodeOf(cpu.me) = cpu BY DEF CodeOf
  <2> QED BY <2>2, <2>3, Typed, AfterFields DEF TInv, ExitOK
<1>2. CASE ~InHandler /\ cpu.op = "yield"
  BY <1>2, AfterFields DEF AfterSchedule, UserCode
<1>3. CASE ~InHandler /\ cpu.op \in {"join", "lock"}
  <2>1. AfterSchedule.op = cpu.op
    BY <1>3, Typed DEF AfterSchedule, RetryLock, Continuation
  <2> QED BY <1>3, <2>1, AfterFields
<1>4. CASE ~InHandler /\ cpu.op \notin {"yield", "join", "lock"}
  <2>1. AfterSchedule = [cpu EXCEPT !.pc = "halt", !.from = NULL]
    BY <1>4 DEF AfterSchedule
  <2> QED BY <2>1, Typed, AfterFields DEF Continuation
<1> QED BY <1>1, <1>2, <1>3, <1>4

----------------------------------------------------------------------------
(* The actions.                                                            *)

\* The client's calls, my_pthread_exit() excepted.
LEMMA CallTimer ==
  ASSUME IInv, TInv,
         \/ Yield \/ \E t \in Threads : Create(t) \/ Join(t)
         \/ \E m \in Mutexes : Lock(m) \/ Unlock(m)
  PROVE  TInv'
<1> USE DEF CallFrom, Running, At, InHandler, InsideLabels, SchedLabels
<1>1. cpu \in Continuation /\ ctx \in [Threads -> Continuation]
      /\ state \in [Threads -> {"NONE", "QUEUED", "YIELD", "EXITED", "JOINING",
                                "BLOCKED", "RUNNING"}]
  BY Typed DEF IInv, TypeOK
<1>2. CASE Yield
  <2>1. state' = [state EXCEPT ![currentThread] = "YIELD"]
        /\ cpu' = [cpu EXCEPT !.op = "yield", !.pc = "sched"]
        /\ UNCHANGED <<ctx, inScheduler, timer, firstCall>>
    BY <1>2 DEF Yield
  <2>2. ~InHandler /\ cpu.pc = "user" BY <1>2 DEF Yield
  <2> QED BY <1>1, <2>1, <2>2, LocalTimer DEF Continuation
<1>3. ASSUME NEW t \in Threads, Create(t) PROVE TInv'
  <2>1. /\ cpu' = [cpu EXCEPT !.op = "create", !.pc = "enq_test", !.thr = t,
                              !.q = priority[t]]
        /\ ctx' = [ctx EXCEPT ![t] = UserCode(t, {})]
        /\ UNCHANGED <<inScheduler, timer, firstCall>>
    BY <1>3 DEF Create
  <2>2. /\ \A u \in Threads : state'[u] = "EXITED" => state[u] = "EXITED"
        /\ state'[t] # "EXITED"
    BY <1>1, <1>3 DEF Create
  <2>3. \A u \in Threads : \/ ctx'[u] = ctx[u]
                           \/ state'[u] # "EXITED" /\ ctx'[u].op # "exit"
    BY <1>1, <2>1, <2>2 DEF UserCode
  <2>4. ~InHandler /\ cpu.pc = "user" BY <1>3 DEF Create
  <2> QED BY <1>1, <2>1, <2>2, <2>3, <2>4, LocalTimer DEF Continuation
<1>4. ASSUME NEW t \in Threads, Join(t) PROVE TInv'
  <2>1. /\ cpu' = [cpu EXCEPT !.op = "join", !.pc = "join_test", !.arg = t]
        /\ state' = [state EXCEPT ![currentThread] = "JOINING"]
        /\ UNCHANGED <<ctx, inScheduler, timer, firstCall>>
    BY <1>4 DEF Join
  <2>2. ~InHandler /\ cpu.pc = "user" BY <1>4 DEF Join
  <2> QED BY <1>1, <2>1, <2>2, LocalTimer DEF Continuation
<1>5. ASSUME NEW m \in Mutexes, Lock(m) \/ Unlock(m) PROVE TInv'
  <2>1. /\ \/ cpu' = [cpu EXCEPT !.op = "lock", !.pc = "lock_tas", !.arg = m]
           \/ cpu' = [cpu EXCEPT !.op = "unlock", !.pc = "unlock", !.arg = m]
        /\ UNCHANGED <<state, ctx, inScheduler, timer, firstCall>>
    BY <1>5 DEF Lock, Unlock
  <2>2. ~InHandler /\ cpu.pc = "user" BY <1>5 DEF Lock, Unlock
  <2> QED BY <1>1, <2>1, <2>2, LocalTimer DEF Continuation
<1> QED BY <1>2, <1>3, <1>4, <1>5

\* my_pthread_exit(), before and after its thread is EXITED.
LEMMA ExitTimer == ASSUME IInv, TInv, Exit \/ ExitValue PROVE TInv'
<1>1. cpu \in Continuation BY Typed
<1>2. CASE Exit
  <2>1. /\ ~InHandler /\ cpu.pc = "user" /\ ~firstCall
        /\ state' = [state EXCEPT ![currentThread] = "EXITED"]
        /\ cpu' = [cpu EXCEPT !.op = "exit", !.pc = "exit_val"]
        /\ UNCHANGED <<ctx, inScheduler, timer, firstCall, currentThread>>
    BY <1>2 DEF Exit, Running, CallFrom, At
  <2>2. cpu'.me = cpu.me /\ cpu'.op = "exit" /\ cpu'.pc = "exit_val" /\ ~InHandler'
    BY <1>1, <2>1 DEF Continuation, InHandler
  <2>3. currentThread = cpu.me /\ currentThread \in Threads
    <3>1. ~Switching BY <2>1 DEF Switching, SchedAt
    <3> QED BY <2>1, <3>1, Typed DEF IInv, ContextOwner, BeforeTimer
  <2>4. state'[currentThread] = "EXITED" BY <2>1, <2>3 DEF IInv, TypeOK
  <2>5. ExitOK' BY <2>1, <2>2, <2>3 DEF TInv, ExitOK, CodeOf
  <2>6. inScheduler # 1 BY <2>1, TimerRuns DEF SchedLabels
  <2>7. TimerOK' BY <2>1, <2>2, <2>6 DEF TimerOK, SchedAt, Switching
  <2>8. PreemptionArmed' BY <2>1, <2>4 DEF PreemptionArmed, CurrentIs
  <2> QED BY <2>5, <2>7, <2>8 DEF TInv
<1>3. CASE ExitValue
  <2>1. /\ ~InHandler /\ cpu.pc = "exit_val" /\ cpu' = [cpu EXCEPT !.pc = "sched"]
        /\ UNCHANGED <<state, ctx, inScheduler, timer>>
    BY <1>3 DEF ExitValue, At, Goto
  <2>2. cpu'.me = cpu.me /\ cpu'.op = cpu.op /\ cpu'.pc = "sched" /\ ~InHandler'
    BY <1>1, <2>1 DEF Continuation, InHandler
  <2>3. ExitOK' BY <2>1, <2>2 DEF TInv, ExitOK, CodeOf, SchedLabels
  <2>4. TimerOK' BY <2>1, <2>2 DEF TInv, TimerOK, SchedAt, Switching
  <2>5. PreemptionArmed' BY <2>2 DEF PreemptionArmed, SchedLabels
  <2> QED BY <2>3, <2>4, <2>5 DEF TInv
<1> QED BY <1>2, <1>3

\* The other statements of the library.
LEMMA ReturnTimer == ASSUME IInv, TInv, Returning, ~ExitValue PROVE TInv'
<1> USE DEF At, Goto
<1>1. cpu \in Continuation
      /\ state \in [Threads -> {"NONE", "QUEUED", "YIELD", "EXITED", "JOINING",
                                "BLOCKED", "RUNNING"}]
  BY Typed DEF IInv, TypeOK
<1>2. /\ ~InHandler /\ cpu.irq = "none"
      /\ cpu.pc \in CallLabels \ {"exit_val"}
      /\ ctx' = ctx /\ inScheduler' = inScheduler
      /\ timer' = TRUE \/ (timer' = timer /\ firstCall' = firstCall)
      /\ \/ state' = state
         \/ \E t : state' = [state EXCEPT ![t] = "RUNNING"]
         \/ \E t : state' = [state EXCEPT ![t] = "BLOCKED"]
         \/ \E t : state' = [state EXCEPT ![t] = "QUEUED"]
  BY DEF Returning, InHandler, CallLabels, Arm, StartTimer, JoinTest, JoinDone,
     TestAndSet, LockBlock, UnlockTest, Wake, Release, EnqTest, EnqFront, EnqLoad,
     EnqLink, EnqRear, DeqAdvance, DeqClear, DeqTest, DeqNull
<1>3. cpu.op # "exit" BY <1>2, TimerRuns DEF CallLabels, SchedLabels
<1>4. /\ cpu'.me = cpu.me /\ cpu'.irq = "none" /\ cpu'.op # "exit"
      /\ cpu'.pc \notin InsideLabels
  <2> USE <1>1, <1>2, <1>3 DEF Continuation, UserCode, InsideLabels, SchedLabels
  <2>1. CASE Arm
    BY <2>1 DEF Arm
  <2>2. CASE JoinDone
    BY <2>2 DEF JoinDone
  <2>3. CASE TestAndSet
    BY <2>3 DEF TestAndSet
  <2>4. CASE Release
    BY <2>4 DEF Release
  <2>5. CASE JoinTest
    BY <2>5 DEF JoinTest
  <2>6. CASE UnlockTest
    <3>1. CASE front[cpu.arg] = NULL
      BY <2>6, <3>1 DEF UnlockTest
    <3>2. CASE front[cpu.arg] # NULL
      BY <2>6, <3>2 DEF UnlockTest
    <3> QED BY <3>1, <3>2
  <2>7. CASE LockBlock
    BY <2>7 DEF LockBlock
  <2>8. CASE Wake
    BY <2>8 DEF Wake
  <2>9. CASE EnqTest
    BY <2>9 DEF EnqTest
  <2>10. CASE EnqFront
    BY <2>10 DEF EnqFront
  <2>11. CASE EnqLoad
    BY <2>11 DEF EnqLoad
  <2>12. CASE EnqLink
    BY <2>12 DEF EnqLink
  <2>13. CASE EnqRear
    BY <2>13 DEF EnqRear, AfterEnqueue
  <2>14. CASE DeqAdvance
    BY <2>14 DEF DeqAdvance
  <2>15. CASE DeqClear
    BY <2>15 DEF DeqClear
  <2>16. CASE DeqTest
    BY <2>16 DEF DeqTest
  <2>17. CASE DeqNull
    BY <2>17 DEF DeqNull
  <2> QED BY <2>1, <2>2, <2>3, <2>4, <2>5, <2>6, <2>7, <2>8, <2>9,
            <2>10, <2>11, <2>12, <2>13, <2>14, <2>15, <2>16, <2>17 DEF Returning
<1>5. \A t \in Threads : state'[t] = "EXITED" => state[t] = "EXITED"
  BY <1>1, <1>2
<1> QED BY <1>2, <1>4, <1>5, LocalTimer DEF CallLabels, SchedLabels

\* SIGALRM.
LEMMA SignalTimer == ASSUME ~SlowTail, IInv, TInv, Signal PROVE TInv'
<1>1. /\ timer /\ ~InHandler /\ cpu.pc \notin {"halt", "segv", "keep", "tail", "swap"}
      /\ ctx' = ctx /\ state' = state /\ inScheduler' = inScheduler
      /\ cpu' = IF inScheduler = 1 THEN cpu ELSE [cpu EXCEPT !.irq = "sched"]
  BY DEF Signal, Deliverable
<1>2. CASE inScheduler = 1
  <2>1. cpu' = cpu /\ ~InHandler' BY <1>1, <1>2 DEF InHandler
  <2>2. cpu.pc \in {"maint", "switch", "next"}
    BY <1>1, <1>2 DEF TInv, TimerOK, SchedAt
  <2>3. TimerOK' BY <1>1, <2>1, <2>2 DEF TimerOK, SchedAt, Switching
  <2>4. PreemptionArmed' BY <2>1, <2>2 DEF PreemptionArmed, SchedLabels
  <2>5. ExitOK' BY <1>1, <2>1 DEF TInv, ExitOK, CodeOf
  <2> QED BY <2>3, <2>4, <2>5 DEF TInv
<1>3. CASE inScheduler # 1
  <2>1. cpu'.me = cpu.me /\ cpu'.pc = cpu.pc /\ cpu'.op = cpu.op /\ cpu'.irq = "sched"
    BY <1>1, <1>3, Typed DEF Continuation
  <2>2. InHandler' BY <2>1 DEF InHandler
  <2>3. TimerOK' BY <1>1, <1>3, <2>1, <2>2 DEF TimerOK, SchedAt, Switching
  <2>4. PreemptionArmed' BY <2>2 DEF PreemptionArmed
  <2>5. ExitOK' BY <1>1, <2>1 DEF TInv, ExitOK, CodeOf
  <2> QED BY <2>3, <2>4, <2>5 DEF TInv
<1> QED BY <1>2, <1>3

\* schedule() up to its decision.
LEMMA DecideTimer ==
  ASSUME IInv, TInv,
         \/ SchedEnter \/ MaintSkip \/ MaintPromote \/ MaintNextLevel
         \/ KeepAlone \/ KeepRunning \/ SwapTail
  PROVE  TInv'
<1>1. {"sched", "maint", "switch", "keep", "tail", "swap"} \subseteq SchedLabels
  BY LabelSets
<1>2. CASE SchedEnter
  <2>1. PICK l \in {"maint", "switch"} :
          cpu' = SchedTo(l) /\ UNCHANGED <<state, ctx>> /\ SchedAt("sched")
    BY <1>2 DEF SchedEnter
  <2> QED BY <1>1, <2>1, SchedToFields, SchedTimer
<1>3. CASE MaintSkip \/ MaintPromote
  <2>1. cpu' = cpu /\ SchedAt("maint") /\ UNCHANGED <<state, ctx>>
    BY <1>3 DEF MaintSkip, MaintPromote
  <2>2. IF InHandler THEN cpu.irq = "maint" ELSE cpu.pc = "maint"
    BY <2>1 DEF SchedAt
  <2> QED BY <1>1, <2>1, <2>2, SchedTimer
<1>4. CASE MaintNextLevel
  <2>1. SchedAt("maint") /\ UNCHANGED <<state, ctx>>
        /\ (cpu' = cpu \/ cpu' = SchedTo("switch"))
    BY <1>4 DEF MaintNextLevel
  <2>2. IF InHandler THEN cpu.irq = "maint" ELSE cpu.pc = "maint"
    BY <2>1 DEF SchedAt
  <2>3. CASE cpu' = cpu BY <1>1, <2>1, <2>2, <2>3, SchedTimer
  <2>4. CASE cpu' = SchedTo("switch")
    BY <1>1, <2>1, <2>4, SchedToFields, SchedTimer
  <2> QED BY <2>1, <2>3, <2>4
<1>5. CASE KeepAlone \/ KeepRunning
  <2>1. cpu' = SchedTo("keep") /\ SchedAt("switch") /\ timer' = TRUE
        /\ UNCHANGED <<state, ctx>>
    BY <1>5 DEF KeepAlone, KeepRunning, StartTimer
  <2> QED BY <1>1, <2>1, SchedToFields, SchedTimer
<1>6. CASE SwapTail
  <2>1. cpu' = SchedTo("swap") /\ SchedAt("tail") /\ inScheduler' = 0
        /\ UNCHANGED <<state, ctx, timer>>
    BY <1>6 DEF SwapTail
  <2>2. timer BY <2>1 DEF TInv, TimerOK, Switching
  <2> QED BY <1>1, <2>1, <2>2, SchedToFields, SchedTimer
<1> QED BY <1>2, <1>3, <1>4, <1>5, <1>6

\* The thread leaves the processor and the next one is chosen.
LEMMA LeaveTimer ==
  ASSUME IInv, TInv, Requeue \/ Demote \/ Reap \/ Block \/ Dispatch
  PROVE  TInv'
<1>1. {"switch", "next", "tail"} \subseteq SchedLabels BY LabelSets
<1>2. state \in [Threads -> {"NONE", "QUEUED", "YIELD", "EXITED", "JOINING",
                             "BLOCKED", "RUNNING"}]
  BY DEF IInv, TypeOK
<1>3. CASE Requeue \/ Demote \/ Reap \/ Block
  <2>1. SwapOut /\ SchedAt("switch") /\ ctx' = ctx
        /\ (state' = state \/ state' = [state EXCEPT ![currentThread] = "QUEUED"])
    BY <1>3 DEF Requeue, Demote, Reap, Block
  <2>2. \A t \in Threads : state'[t] = "EXITED" => state[t] = "EXITED"
    BY <1>2, <2>1
  <2> QED BY <1>1, <2>1, <2>2, SwapOutFields, SchedTimer
<1>4. CASE Dispatch
  <2>1. PICK i \in Levels : DispatchFrom(i) BY <1>4 DEF Dispatch
  <2>2. cpu' = SchedTo("tail") /\ SchedAt("next") /\ ctx' = ctx /\ timer' = TRUE
        /\ state' = [state EXCEPT ![front[i]] = "RUNNING"]
    BY <2>1 DEF DispatchFrom, StartTimer
  <2>3. \A t \in Threads : state'[t] = "EXITED" => state[t] = "EXITED"
    BY <1>2, <2>2
  <2> QED BY <1>1, <2>2, <2>3, SchedToFields, SchedTimer
<1> QED BY <1>3, <1>4

\* schedule() returns to its caller.
LEMMA StayTimer == ASSUME IInv, TInv, AllFinished \/ Keep PROVE TInv'
<1>1. PICK k \in {"switch", "keep"} :
        /\ SchedAt(k) /\ cpu' = AfterSchedule /\ inScheduler' = 0
        /\ UNCHANGED <<state, ctx, timer, currentThread, firstCall>>
        /\ k = "switch" => CurrentIs("EXITED")
  BY DEF AllFinished, Keep
<1>2. k \in SchedLabels BY LabelSets
<1>3. cpu'.me = cpu.me /\ ~InHandler' /\ cpu'.pc \notin InsideLabels
  BY <1>1, <1>2, AfterFields DEF InHandler
<1>4. ExitOK'
  BY <1>1, <1>2, <1>3, AfterExit DEF TInv, ExitOK, CodeOf
<1>5. TimerOK'
  BY <1>1, <1>3 DEF TimerOK, SchedAt, Switching, InsideLabels, SchedLabels
<1>6. k = "keep" => timer BY <1>1 DEF TInv, TimerOK
<1>7. PreemptionArmed' BY <1>1, <1>6 DEF PreemptionArmed, CurrentIs
<1> QED BY <1>4, <1>5, <1>7 DEF TInv

\* swapcontext() leaves every thread the code it had, past its schedule().
LEMMA SwapCode ==
  ASSUME ~SlowTail, IInv, Swap
  PROVE  /\ cpu'.me = currentThread /\ ~InHandler' /\ cpu'.pc \notin InsideLabels
         /\ currentThread \in Threads /\ SchedAt("swap")
         /\ \A t \in Threads :
              CodeOf(t)' = IF t = cpu.me THEN AfterSchedule ELSE CodeOf(t)
<1> DEFINE saved == [ctx EXCEPT ![cpu.me] = AfterSchedule]
<1>1. "swap" \in SchedLabels /\ SchedAt("swap") /\ SwappedOut = cpu.me
  BY LabelSets DEF Swap, IInv, ScheduleOK, SwappedOut
<1>2. currentThread \in Threads BY <1>1, CurrentThread DEF SchedAt
<1>3. /\ cpu' = saved[currentThread]
      /\ ctx' = [saved EXCEPT ![currentThread] = UserCode(currentThread, {})]
  BY <1>1 DEF Swap
<1>4. \A t \in Threads : saved[t] = IF t = cpu.me THEN AfterSchedule ELSE ctx[t]
  BY Typed
<1>5. \A t \in Threads : saved[t].me = t /\ saved[t].irq = "none"
                         /\ saved[t].pc \notin InsideLabels
  <2>1. /\ AfterSchedule.me = cpu.me /\ AfterSchedule.irq = "none"
        /\ AfterSchedule.pc \notin InsideLabels
    BY <1>1, AfterFields
  <2> QED BY <1>4, <2>1 DEF IInv, SavedOK
<1>6. saved \in [Threads -> Continuation] BY <1>1, AfterFields, Typed
<1> HIDE DEF saved
<1>7. cpu'.me = currentThread /\ ~InHandler' /\ cpu'.pc \notin InsideLabels
  BY <1>2, <1>3, <1>5 DEF InHandler
<1>8. \A t \in Threads : CodeOf(t)' = saved[t]
  BY <1>2, <1>3, <1>6, <1>7 DEF CodeOf
<1>9. \A t \in Threads : t # cpu.me => CodeOf(t) = ctx[t] BY DEF CodeOf
<1> QED BY <1>1, <1>2, <1>4, <1>7, <1>8, <1>9

LEMMA SwapTimer == ASSUME ~SlowTail, IInv, TInv, Swap PROVE TInv'
<1>1. "swap" \in SchedLabels /\ CodeOf(cpu.me) = cpu BY LabelSets DEF CodeOf
<1>2. UNCHANGED <<state, inScheduler, timer>> /\ timer /\ inScheduler # 1
  <2>1. UNCHANGED <<state, inScheduler, timer>> BY DEF Swap
  <2>2. SchedAt("swap") BY DEF Swap
  <2>3. timer BY <2>2 DEF TInv, TimerOK, Switching
  <2>4. ~\E l \in {"maint", "switch", "next", "keep", "tail"} : SchedAt(l)
    BY <2>2 DEF SchedAt
  <2> QED BY <2>1, <2>3, <2>4 DEF TInv, TimerOK
<1>3. ExitOK'
  BY <1>1, <1>2, SwapCode, AfterExit DEF TInv, ExitOK
<1>4. TimerOK'
  BY <1>2, SwapCode DEF TimerOK, SchedAt, Switching, InsideLabels, SchedLabels
<1>5. PreemptionArmed' BY <1>2 DEF PreemptionArmed
<1> QED BY <1>3, <1>4, <1>5 DEF TInv

\* One step keeps the timer armed.
LEMMA NextTimer == ASSUME ~SlowTail, IInv, TInv, [Next]_vars PROVE TInv'
<1>1. CASE Calling BY <1>1, CallTimer, ExitTimer DEF Calling
<1>2. CASE Returning BY <1>2, ReturnTimer, ExitTimer
<1>3. CASE Scheduling
  BY <1>3, DecideTimer, LeaveTimer, StayTimer, SwapTimer DEF Scheduling
<1>4. CASE Signal BY <1>4, SignalTimer
<1>5. CASE Halted \/ UNCHANGED vars
  <2>1. UNCHANGED vars BY <1>5 DEF Halted
  <2> QED
    BY <2>1 DEF vars, TInv, ExitOK, TimerOK, PreemptionArmed, CurrentIs, Switching,
       SchedAt, InHandler, CodeOf
<1> QED BY <1>1, <1>2, <1>3, <1>4, <1>5 DEF Next

\* A thread is EXITED only in its call of exit, which is its last, and the
\* handler drops a tick only inside schedule(), which starts the timer again
\* before it clears inScheduler (my_pthread.c:97-106, 297, 333-343, 431-438).
THEOREM Timers == ASSUME ~SlowTail PROVE Spec => []TInv
<1>1. Init => IInv BY InitInv
<1>2. Init => TInv
  BY DEF Init, TInv, ExitOK, TimerOK, PreemptionArmed, Switching, SchedAt,
     InHandler, CodeOf, UserCode
<1>3. IInv /\ TInv /\ [Next]_vars => IInv' /\ TInv' BY NextInv, NextTimer
<1> QED BY <1>1, <1>2, <1>3, PTL DEF Spec

\* Client code never runs without a tick to come, unless it has just exited:
\* schedule() starts the one-shot timer again on each of its ways out
\* (my_pthread.c:333-341, 434-436), and the ticks that inScheduler makes the
\* handler drop are none of those.
THEOREM Preemption == ASSUME ~SlowTail PROVE Spec => []PreemptionArmed
<1>1. TInv => PreemptionArmed BY DEF TInv
<1> QED BY <1>1, Timers, PTL
=============================================================================
