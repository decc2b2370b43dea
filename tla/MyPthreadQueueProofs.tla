------------------------ MODULE MyPthreadQueueProofs -------------------------
(***************************************************************************)
(* ListInv of MyPthreadQueues is an invariant of MyPthread as long as no   *)
(* tick has torn an update, and what MyPthreadTicks says of the queues     *)
(* follows; so does what MyPthreadProps says of join(), wherever ticks     *)
(* fall.                                                                   *)
(*                                                                         *)
(* Before(w, p) is all that is known before a step: w gives the queue of   *)
(* each thread and p its place there.  First come the steps outside        *)
(* schedule(), one conjunct of QueueInv after the other, since each        *)
(* statement disturbs a few of them; then those inside it, one action      *)
(* after the other, since they leave code, holders and waiters alone.      *)
(***************************************************************************)
EXTENDS MyPthreadTicks, MyPthreadListProofs, MyPthreadTimerProofs

USE DEF threadVars, accounts, listVars, schedVars, schedPtrs, machine

----------------------------------------------------------------------------
(* The statements a thread may be at.                                      *)

\* The calls that change a queue outside schedule().
QueueCalls == {"create", "lock", "unlock"}

\* The calls whose statements a label may be of.
LEMMA BodyOps ==
  ASSUME NEW c \in Continuation, InBody(c)
  PROVE  /\ c.pc = "user" => c.op = "none"
         /\ c.pc = "arm" => c.op = "create"
         /\ c.pc \in EnqLabels => c.op \in QueueCalls
         /\ c.pc \in {"exit_val", "halt"} => c.op = "exit"
         /\ c.pc \in {"join_test", "join_done"} => c.op = "join"
         /\ c.pc \in {"lock_tas", "lock_block"} => c.op = "lock"
         /\ c.pc \in DeqLabels \cup {"unlock", "release"} => c.op = "unlock"
         /\ c.pc \in SchedLabels => c.op \in {"yield", "exit", "join", "lock"}
         /\ c.pc # "segv"
         /\ c.op \in {"none", "yield", "exit", "join"} =>
              c.pc \notin EnqLabels \cup DeqLabels
                          \cup {"arm", "lock_tas", "lock_block", "unlock", "release"}
<1>1. c.op \in {"none", "create", "yield", "exit", "join", "lock", "unlock"}
  BY DEF Continuation, Calls
<1> QED BY <1>1 DEF InBody, Body, EnqLabels, DeqLabels, SchedLabels, QueueCalls



\* A statement outside schedule().
LEMMA MaskLocal ==
  ASSUME MaskOK, cpu'.me = cpu.me, cpu'.irq = "none", InBody(cpu'),
         cpu'.pc = "arm" => firstCall',
         \A t \in Threads : t # cpu.me => ctx'[t] = ctx[t] \/ ctx'[t] = UserCode(t, {})
  PROVE  MaskOK'
<1>1. \A t \in Threads :
        /\ InBody(UserCode(t, {})) /\ UserCode(t, {}).op = "none"
        /\ UserCode(t, {}).pc \notin Critical
  BY DEF InBody, Body, UserCode, Critical, EnqLabels, DeqLabels
<1> QED BY <1>1 DEF MaskOK, InHandler

\* The client's calls.
LEMMA MaskCall ==
  ASSUME IInv, MaskOK, Calling
  PROVE  MaskOK'
<1> USE DEF CallFrom, Running, At
<1>1. cpu \in Continuation /\ ctx \in [Threads -> Continuation] /\ InBody(cpu)
  BY Typed DEF MaskOK
<1>2. Calling => ~InHandler /\ cpu.irq = "none"
  BY DEF Calling, Yield, Exit, Create, Join, Lock, Unlock, InHandler
<1>3. CASE Yield
  <2>1. InBody(cpu') /\ cpu'.me = cpu.me /\ cpu'.irq = cpu.irq /\ cpu'.pc # "arm" /\ ctx' = ctx
    BY <1>1, <1>3 DEF Yield, InBody, Body, SchedLabels, Continuation
  <2> QED BY <1>2, <2>1, MaskLocal
<1>4. CASE Exit
  <2>1. InBody(cpu') /\ cpu'.me = cpu.me /\ cpu'.irq = cpu.irq /\ cpu'.pc # "arm" /\ ctx' = ctx
    BY <1>1, <1>4 DEF Exit, InBody, Body, Continuation
  <2> QED BY <1>2, <2>1, MaskLocal
<1>5. ASSUME NEW t \in Threads, Create(t) PROVE MaskOK'
  <2>1. InBody(cpu') /\ cpu'.me = cpu.me /\ cpu'.irq = cpu.irq
        /\ cpu'.pc # "arm" /\ ctx' = [ctx EXCEPT ![t] = UserCode(t, {})]
    BY <1>1, <1>5 DEF Create, InBody, Body, EnqLabels, Continuation
  <2> QED BY <1>1, <1>2, <2>1, MaskLocal
<1>6. ASSUME NEW t \in Threads, Join(t) PROVE MaskOK'
  <2>1. InBody(cpu') /\ cpu'.me = cpu.me /\ cpu'.irq = cpu.irq /\ cpu'.pc # "arm" /\ ctx' = ctx
    BY <1>1, <1>6 DEF Join, InBody, Body, Continuation
  <2> QED BY <1>2, <2>1, MaskLocal
<1>7. ASSUME NEW m \in Mutexes, Lock(m) PROVE MaskOK'
  <2>1. InBody(cpu') /\ cpu'.me = cpu.me /\ cpu'.irq = cpu.irq /\ cpu'.pc # "arm" /\ ctx' = ctx
    BY <1>1, <1>7 DEF Lock, InBody, Body, Continuation
  <2> QED BY <1>2, <2>1, MaskLocal
<1>8. ASSUME NEW m \in Mutexes, Unlock(m) PROVE MaskOK'
  <2>1. InBody(cpu') /\ cpu'.me = cpu.me /\ cpu'.irq = cpu.irq /\ cpu'.pc # "arm" /\ ctx' = ctx
    BY <1>1, <1>8 DEF Unlock, InBody, Body, Continuation
  <2> QED BY <1>2, <2>1, MaskLocal
<1> QED BY <1>2, <1>3, <1>4, <1>5, <1>6, <1>7, <1>8 DEF Calling


\* The statements of the library's calls.
LEMMA MaskReturn ==
  ASSUME IInv, MaskOK, Returning, cpu.pc = "enq_load" => rear[cpu.q] # NULL
  PROVE  MaskOK'
<1> USE DEF At, InHandler, InBody, Body, EnqLabels, DeqLabels, SchedLabels
<1>1. cpu \in Continuation /\ InBody(cpu) /\ cpu.op \in Calls \cup {"none"}
  BY Typed DEF MaskOK, Continuation
<1> SUFFICES /\ InBody(cpu') /\ cpu'.me = cpu.me /\ cpu'.irq = "none" /\ ctx' = ctx
             /\ cpu'.pc = "arm" => firstCall'
  BY MaskLocal
<1>2. CASE Arm BY <1>1, <1>2 DEF Arm, UserCode, Continuation, Calls
<1>3. CASE ExitValue BY <1>1, <1>3 DEF ExitValue, Goto, Continuation, Calls
<1>4. CASE JoinTest BY <1>1, <1>4 DEF JoinTest, HasExited, Goto, Continuation, Calls
<1>5. CASE JoinDone BY <1>1, <1>5 DEF JoinDone, UserCode, Continuation, Calls
<1>6. CASE TestAndSet BY <1>1, <1>6 DEF TestAndSet, Goto, UserCode, Continuation, Calls
<1>7. CASE LockBlock BY <1>1, <1>7 DEF LockBlock, Continuation, Calls
<1>8. CASE UnlockTest BY <1>1, <1>8 DEF UnlockTest, Goto, Continuation, Calls
<1>9. CASE Wake BY <1>1, <1>9 DEF Wake, Continuation, Calls
<1>10. CASE Release BY <1>1, <1>10 DEF Release, UserCode, Continuation, Calls
<1>11. CASE EnqTest BY <1>1, <1>11 DEF EnqTest, Goto, Continuation, Calls
<1>12. CASE EnqFront BY <1>1, <1>12 DEF EnqFront, Goto, Continuation, Calls
<1>13. CASE EnqLoad BY <1>1, <1>13 DEF EnqLoad, Continuation, Calls
<1>14. CASE EnqLink BY <1>1, <1>14 DEF EnqLink, Continuation, Calls
<1>15. CASE EnqRear BY <1>1, <1>15 DEF EnqRear, AfterEnqueue, UserCode, Continuation, Calls
<1>16. CASE DeqAdvance BY <1>1, <1>16 DEF DeqAdvance, Goto, Continuation, Calls
<1>17. CASE DeqClear BY <1>1, <1>17 DEF DeqClear, Goto, Continuation, Calls
<1>18. CASE DeqTest BY <1>1, <1>18 DEF DeqTest, Goto, Continuation, Calls
<1>19. CASE DeqNull BY <1>1, <1>19 DEF DeqNull, Goto, Continuation, Calls
<1> QED BY <1>2, <1>3, <1>4, <1>5, <1>6, <1>7, <1>8, <1>9, <1>10, <1>11, <1>12, <1>13, <1>14, <1>15, <1>16, <1>17, <1>18, <1>19 DEF Returning

\* A step of schedule() that goes on inside it.
LEMMA MaskInside ==
  ASSUME IInv, MaskOK, NEW k \in SchedLabels, SchedAt(k), NEW l \in SchedLabels,
         cpu'.me = cpu.me, cpu'.held = cpu.held, cpu'.op = cpu.op, cpu'.arg = cpu.arg,
         IF InHandler THEN cpu'.pc = cpu.pc /\ cpu'.irq = l
                      ELSE cpu'.pc = l /\ cpu'.irq = cpu.irq,
         ctx' = ctx
  PROVE  MaskOK'
<1>1. cpu \in Continuation /\ InBody(cpu) BY Typed DEF MaskOK
<1>2. InBody(cpu')
  <2>1. CASE InHandler BY <1>1, <2>1 DEF InBody
  <2>2. CASE ~InHandler
    <3>1. cpu.pc \in SchedLabels BY <2>2 DEF SchedAt
    <3>2. cpu.op \in {"yield", "exit", "join", "lock"} BY <1>1, <3>1, BodyOps
    <3> QED BY <1>1, <2>2, <3>2 DEF InBody, Body
  <2> QED BY <2>1, <2>2
<1>3. InHandler' => InHandler BY DEF InHandler
<1>4. cpu'.pc # "arm"
  <2>1. InHandler => ~firstCall BY DEF IInv, BeforeTimer
  <2>2. "arm" \notin SchedLabels BY DEF SchedLabels
  <2> QED BY <2>1, <2>2 DEF MaskOK
<1> QED BY <1>2, <1>3, <1>4 DEF MaskOK

\* Where the handler may have interrupted a call that changes a queue.
LEMMA HandlerCalls ==
  ASSUME IInv, MaskOK, InHandler
  PROVE  /\ cpu.op # "create"
         /\ cpu.op = "lock" => cpu.pc \in {"lock_tas", "sched"}
         /\ cpu.op = "unlock" => cpu.pc = "unlock"
<1>1. /\ cpu \in Continuation /\ InBody(cpu) /\ cpu.pc \notin Critical
      /\ cpu.pc = "arm" => firstCall
  BY Typed DEF MaskOK
<1>2. ~firstCall /\ cpu.pc \notin InsideLabels BY DEF IInv, BeforeTimer, ScheduleOK
<1>3. cpu.pc \in Body(cpu.op) BY <1>1 DEF InBody
<1> QED BY <1>1, <1>2, <1>3 DEF Body, Critical, EnqLabels, DeqLabels, InsideLabels, SchedLabels

\* What schedule() returns to: the user's code, or its call.
LEMMA MaskAfter ==
  ASSUME IInv, MaskOK, NEW k \in SchedLabels, SchedAt(k)
  PROVE  /\ InBody(AfterSchedule) /\ AfterSchedule.irq = "none"
         /\ AfterSchedule.me = cpu.me
         /\ AfterSchedule.op # "create"
         /\ AfterSchedule.op = "lock" =>
              AfterSchedule.pc \in {"lock_tas", "sched"} /\ cpu.op = "lock"
         /\ AfterSchedule.op \in {"none", cpu.op} /\ AfterSchedule.arg \in {NULL, cpu.arg}
         /\ cpu.op \in {"exit", "join", "lock"} =>
              AfterSchedule.op = cpu.op /\ AfterSchedule.arg = cpu.arg
         /\ AfterSchedule.held = cpu.held
         /\ AfterSchedule.pc \notin Critical \cup {"arm"}
<1>1. cpu \in Continuation /\ InBody(cpu) BY Typed DEF MaskOK
<1>2. AfterSchedule.irq = "none" /\ AfterSchedule.me = cpu.me
      /\ AfterSchedule.held = cpu.held
  BY AfterFields
<1>3. CASE InHandler
  <2>1. AfterSchedule = [cpu EXCEPT !.irq = "none", !.ifrom = NULL]
    BY <1>3 DEF AfterSchedule
  <2>2. /\ AfterSchedule.op = cpu.op /\ AfterSchedule.pc = cpu.pc
        /\ AfterSchedule.arg = cpu.arg
    BY <1>1, <2>1 DEF Continuation
  <2>3. cpu.pc \notin Critical BY <1>3 DEF MaskOK
  <2>4. cpu.op # "create" BY <1>1, <1>3, <2>3, HandlerCalls
  <2>5. cpu.op = "lock" => cpu.pc \in {"lock_tas", "sched"}
    BY <1>3, HandlerCalls
  <2>6. InBody(AfterSchedule) BY <1>1, <1>2, <2>2 DEF InBody
  <2>7. AfterSchedule.pc # "arm" BY <1>1, <2>2, <2>4, BodyOps
  <2> HIDE <1>3
  <2> QED BY <1>2, <2>2, <2>3, <2>4, <2>5, <2>6, <2>7
<1>4. CASE ~InHandler
  <2>1. cpu.op \in {"yield", "exit", "join", "lock"}
    <3>1. cpu.pc \in SchedLabels BY <1>4 DEF SchedAt
    <3> QED BY <1>1, <3>1, BodyOps
  <2>2. CASE cpu.op = "yield"
    <3>1. AfterSchedule = UserCode(cpu.me, cpu.held)
      BY <1>4, <2>2 DEF AfterSchedule
    <3> QED BY <1>2, <2>2, <3>1 DEF UserCode, InBody, Body, Critical, EnqLabels, DeqLabels
  <2>3. ASSUME NEW l, AfterSchedule = [cpu EXCEPT !.pc = l, !.from = NULL],
               l = CASE cpu.op = "join" -> "join_test"
                     [] cpu.op = "lock" -> "lock_tas"
                     [] OTHER -> "halt",
               cpu.op # "yield"
        PROVE  /\ AfterSchedule.op = cpu.op /\ AfterSchedule.arg = cpu.arg
               /\ AfterSchedule.pc = l /\ InBody(AfterSchedule)
               /\ AfterSchedule.pc \notin Critical \cup {"arm"}
    <3>1. /\ AfterSchedule.op = cpu.op /\ AfterSchedule.arg = cpu.arg
          /\ AfterSchedule.pc = l
      BY <1>1, <2>3 DEF Continuation
    <3>2. cpu.op \in ClientCalls BY <1>1, <2>1 DEF InBody
    <3>3. l \in Body(cpu.op) BY <2>1, <2>3 DEF Body
    <3>4. InBody(AfterSchedule) BY <1>1, <1>2, <3>1, <3>2, <3>3 DEF InBody
    <3> QED BY <2>3, <3>1, <3>4 DEF Critical, EnqLabels, DeqLabels
  <2>4. CASE cpu.op = "join"
    <3>1. AfterSchedule = [cpu EXCEPT !.pc = "join_test", !.from = NULL]
      BY <1>4, <2>4 DEF AfterSchedule
    <3> QED BY <1>2, <2>3, <2>4, <3>1
  <2>5. CASE cpu.op = "lock"
    <3>1. AfterSchedule = [cpu EXCEPT !.pc = "lock_tas", !.from = NULL]
      BY <1>4, <2>5 DEF AfterSchedule, RetryLock
    <3> QED BY <1>2, <1>4, <2>3, <2>5, <3>1
  <2>6. CASE cpu.op = "exit"
    <3>1. AfterSchedule = [cpu EXCEPT !.pc = "halt", !.from = NULL]
      BY <1>4, <2>6 DEF AfterSchedule
    <3> QED BY <1>2, <2>3, <2>6, <3>1
  <2> QED BY <2>1, <2>2, <2>4, <2>5, <2>6
<1> QED BY <1>3, <1>4

\* The code of a step from the label k to the label l of schedule().
InsideFrom(k, l) ==
  /\ SchedAt(k) /\ SchedAt(l)'
  /\ cpu'.me = cpu.me /\ cpu'.held = cpu.held /\ cpu'.op = cpu.op
  /\ cpu'.arg = cpu.arg /\ cpu'.thr = cpu.thr /\ cpu'.q = cpu.q
  /\ IF InHandler THEN cpu'.pc = cpu.pc /\ cpu'.irq = l
                  ELSE cpu'.pc = l /\ cpu'.irq = cpu.irq
  /\ ctx' = ctx /\ flag' = flag

\* The steps that go to a label of schedule(), that swap a thread out, and that
\* go round the loop of maintenance().
LEMMA InsideTo ==
  ASSUME IInv, NEW k \in SchedLabels, SchedAt(k), NEW l \in SchedLabels,
         cpu' = SchedTo(l), ctx' = ctx, flag' = flag
  PROVE  InsideFrom(k, l)
<1>1. l # "none" BY DEF SchedLabels
<1> QED BY <1>1, SchedToFields DEF InsideFrom, SchedAt, InHandler

LEMMA InsideOut ==
  ASSUME IInv, SchedAt("switch"), SwapOut, ctx' = ctx, flag' = flag
  PROVE  InsideFrom("switch", "next")
  BY SwapOutFields DEF InsideFrom, SchedAt, InHandler

LEMMA InsideStays ==
  ASSUME SchedAt("maint"), cpu' = cpu, ctx' = ctx, flag' = flag
  PROVE  InsideFrom("maint", "maint")
  BY DEF InsideFrom, SchedAt, InHandler

\* The labels each step goes between.
LEMMA InsideSteps ==
  ASSUME IInv
  PROVE  /\ SchedEnter =>
              InsideFrom("sched", "maint") \/ InsideFrom("sched", "switch")
         /\ MaintSkip \/ MaintPromote => InsideFrom("maint", "maint")
         /\ MaintNextLevel =>
              InsideFrom("maint", "maint") \/ InsideFrom("maint", "switch")
         /\ KeepAlone \/ KeepRunning => InsideFrom("switch", "keep")
         /\ Requeue \/ Demote \/ Reap \/ Block => InsideFrom("switch", "next")
         /\ Dispatch => InsideFrom("next", "tail")
         /\ SwapTail => InsideFrom("tail", "swap")
<1>0. {"sched", "maint", "switch", "next", "keep", "tail", "swap"} = SchedLabels
  BY DEF SchedLabels
<1>1. ASSUME SchedEnter
      PROVE  InsideFrom("sched", "maint") \/ InsideFrom("sched", "switch")
  <2>1. /\ SchedAt("sched") /\ ctx' = ctx /\ flag' = flag
        /\ cpu' = SchedTo("maint") \/ cpu' = SchedTo("switch")
    BY <1>1 DEF SchedEnter
  <2> QED BY <1>0, <2>1, InsideTo
<1>2. ASSUME MaintSkip \/ MaintPromote PROVE InsideFrom("maint", "maint")
  <2>1. SchedAt("maint") /\ cpu' = cpu /\ ctx' = ctx /\ flag' = flag
    BY <1>2 DEF MaintSkip, MaintPromote
  <2> QED BY <2>1, InsideStays
<1>3. ASSUME MaintNextLevel
      PROVE  InsideFrom("maint", "maint") \/ InsideFrom("maint", "switch")
  <2>1. /\ SchedAt("maint") /\ ctx' = ctx /\ flag' = flag
        /\ cpu' = cpu \/ cpu' = SchedTo("switch")
    BY <1>3 DEF MaintNextLevel
  <2> QED BY <1>0, <2>1, InsideStays, InsideTo
<1>4. ASSUME KeepAlone PROVE InsideFrom("switch", "keep")
  <2>1. SchedAt("switch") /\ cpu' = SchedTo("keep") /\ ctx' = ctx /\ flag' = flag
    BY <1>4 DEF KeepAlone
  <2> QED BY <1>0, <2>1, InsideTo
<1>5. ASSUME KeepRunning PROVE InsideFrom("switch", "keep")
  <2>1. SchedAt("switch") /\ cpu' = SchedTo("keep") /\ ctx' = ctx /\ flag' = flag
    BY <1>5 DEF KeepRunning
  <2> QED BY <1>0, <2>1, InsideTo
<1>6. ASSUME Requeue \/ Demote \/ Reap \/ Block PROVE InsideFrom("switch", "next")
  <2>1. SchedAt("switch") /\ SwapOut /\ ctx' = ctx /\ flag' = flag
    BY <1>6 DEF Requeue, Demote, Reap, Block
  <2> QED BY <2>1, InsideOut
<1>7. ASSUME Dispatch PROVE InsideFrom("next", "tail")
  <2>1. SchedAt("next") /\ cpu' = SchedTo("tail") /\ ctx' = ctx /\ flag' = flag
    BY <1>7 DEF Dispatch, DispatchFrom
  <2> QED BY <1>0, <2>1, InsideTo
<1>8. ASSUME SwapTail PROVE InsideFrom("tail", "swap")
  <2>1. SchedAt("tail") /\ cpu' = SchedTo("swap") /\ ctx' = ctx /\ flag' = flag
    BY <1>8 DEF SwapTail
  <2> QED BY <1>0, <2>1, InsideTo
<1> QED BY <1>1, <1>2, <1>3, <1>4, <1>5, <1>6, <1>7, <1>8

----------------------------------------------------------------------------
(* The steps outside schedule().                                           *)

\* What QueueInv is proved from.
Before(w, p) == ~SlowTail /\ IInv /\ TInv /\ QueueInv(w, p)

\* Where the calls of the client begin.
LEMMA CallCode ==
  ASSUME IInv, Calling
  PROVE  /\ cpu.pc = "user" /\ cpu'.me = cpu.me
         /\ cpu'.pc \in {"sched", "exit_val", "enq_test", "join_test", "lock_tas", "unlock"}
         /\ UNCHANGED <<front, rear, next, flag>>
<1> USE DEF Running, CallFrom, At, Continuation
<1>1. cpu \in Continuation BY Typed
<1>2. CASE Yield BY <1>1, <1>2 DEF Yield
<1>3. CASE Exit BY <1>1, <1>3 DEF Exit
<1>4. CASE \E t \in Threads : Create(t) BY <1>1, <1>4 DEF Create
<1>5. CASE \E t \in Threads : Join(t) BY <1>1, <1>5 DEF Join
<1>6. CASE \E m \in Mutexes : Lock(m) BY <1>1, <1>6 DEF Lock
<1>7. CASE \E m \in Mutexes : Unlock(m) BY <1>1, <1>7 DEF Unlock
<1> QED BY <1>2, <1>3, <1>4, <1>5, <1>6, <1>7 DEF Calling

\* The thread that runs outside schedule() is the current one, if any is.
LEMMA LocalCurrent ==
  ASSUME NEW w, NEW p, Before(w, p), Calling \/ Returning
  PROVE  /\ ~InHandler /\ cpu.pc \notin SchedLabels \cup {"halt", "segv"}
         /\ currentThread = NULL \/ (currentThread = cpu.me /\ currentThread \in Threads)
         /\ cpu.pc # "user" => cpu.op # "none"
         /\ cpu.pc = "user" => cpu.op = "none"
         /\ currentThread # NULL /\ cpu.op # "lock" =>
              state[currentThread] \in {"RUNNING", "YIELD", "JOINING", "EXITED"}
         /\ currentThread # NULL =>
              \/ state[currentThread] \in {"RUNNING", "YIELD", "JOINING", "EXITED"}
              \/ state[currentThread] = "BLOCKED" /\ cpu.op = "lock" /\ cpu.pc \in EnqLabels
<1>1. ~InHandler /\ cpu.pc \notin SchedLabels \cup {"halt", "segv"}
  <2>1. ASSUME Calling PROVE At("user")
    BY <2>1 DEF Calling, Yield, Exit, Create, Join, Lock, Unlock, Running, CallFrom
  <2>2. ASSUME Returning PROVE \E l \in CallLabels : At(l)
    <3>1. CallLabels = {"enq_test", "enq_front", "enq_load", "enq_link", "enq_rear",
               "arm", "exit_val", "join_test", "join_done",
               "lock_tas", "lock_block", "unlock",
               "deq_adv", "deq_clear", "deq_test", "deq_null", "wake",
               "release"}
      BY DEF CallLabels
    <3> QED
      BY <2>2, <3>1 DEF Returning, Arm, ExitValue, JoinTest, JoinDone, TestAndSet, LockBlock,
         UnlockTest, Wake, Release, EnqTest, EnqFront, EnqLoad, EnqLink, EnqRear,
         DeqAdvance, DeqClear, DeqTest, DeqNull
  <2> QED BY <2>1, <2>2 DEF At, CallLabels, SchedLabels
<1>2. currentThread = NULL \/ (currentThread = cpu.me /\ currentThread \in Threads)
  BY <1>1 DEF Before, IInv, TypeOK, ContextOwner, Switching, SchedAt, ThreadOrNull,
     SchedLabels
<1>3. (cpu.pc # "user" => cpu.op # "none") /\ (cpu.pc = "user" => cpu.op = "none")
  <2>1. cpu \in Continuation /\ InBody(cpu) BY Typed DEF Before, QueueInv, MaskOK
  <2>2. cpu.op = "none" => cpu.pc = "user" BY <2>1 DEF InBody, Body
  <2> QED BY <2>1, <2>2, BodyOps
<1>4. CurrentOK BY DEF Before, QueueInv
<1>5. ~SchedAt("next") BY <1>1 DEF SchedAt, SchedLabels
<1> QED BY <1>1, <1>2, <1>3, <1>4, <1>5 DEF CurrentOK, CurrentIs, SchedLabels

\* The thread create() makes is not the current one.
LEMMA NewThread ==
  ASSUME NEW w, NEW p, Before(w, p), NEW t \in Threads, Create(t)
  PROVE  /\ currentThread # t
         /\ currentThread = NULL => cpu.me = Main /\ t # Main
         /\ firstCall <=> currentThread = NULL
<1>1. Placed(w) /\ state[t] = "NONE" /\ t # Main BY DEF Before, QueueInv, Create
<1>2. t = cpu.me => currentThread = NULL BY <1>1 DEF Placed
<1>3. Calling BY DEF Calling
<1>4. currentThread = NULL \/ currentThread = cpu.me BY <1>3, LocalCurrent
<1>5. t # NULL /\ Main # NULL BY ThreadAssumption
<1>6. currentThread = NULL => firstCall /\ cpu.me = Main
  BY DEF Before, IInv, BeforeTimer
<1>7. firstCall => currentThread = NULL
  BY DEF Before, IInv, BeforeTimer, Create, CallFrom, At, EnqLabels
<1> QED BY <1>1, <1>2, <1>4, <1>5, <1>6, <1>7

\* The waiter unlock() wakes is not the current thread.
LEMMA WokenThread ==
  ASSUME NEW w, NEW p, Before(w, p), Wake
  PROVE  /\ cpu.thr \in Threads /\ cpu.thr # cpu.me /\ cpu.thr # currentThread
         /\ state[cpu.thr] = "BLOCKED" /\ Waits(cpu.thr, cpu.arg)
         /\ cpu.op = "unlock" /\ w[cpu.thr] = NULL
<1>1. Returning BY DEF Returning
<1>2. cpu.pc = "wake" /\ cpu.pc \in DeqLabels /\ cpu.pc # "deq_adv"
  BY DEF Wake, At, DeqLabels
<1>3. cpu.thr \in Threads /\ cpu.op = "unlock" BY <1>2 DEF Before, IInv, CallOK
<1>4. state[cpu.thr] = "BLOCKED" /\ Waits(cpu.thr, cpu.arg)
  BY <1>2 DEF Before, QueueInv, CarryOK
<1>5. cpu.thr # cpu.me BY <1>3, <1>4 DEF Waits, CodeOf
<1>6. cpu.thr # currentThread BY <1>1, <1>3, <1>5, LocalCurrent, ThreadAssumption
<1>7. w[cpu.thr] = NULL BY <1>2, <1>3, <1>4 DEF Before, QueueInv, Placed, Carried, CarryLabels
<1> QED BY <1>3, <1>4, <1>5, <1>6, <1>7

\* The current thread's state, along its call.
LEMMA CurrentLocal ==
  ASSUME NEW w, NEW p, Before(w, p), Calling \/ Returning,
         cpu'.me = cpu.me, cpu'.irq = "none", cpu'.pc \notin InsideLabels
  PROVE  CurrentOK'
<1> USE DEF At
<1>1. /\ currentThread = NULL \/ (currentThread = cpu.me /\ currentThread \in Threads)
      /\ currentThread # NULL =>
              \/ state[currentThread] \in {"RUNNING", "YIELD", "JOINING", "EXITED"}
              \/ state[currentThread] = "BLOCKED" /\ cpu.op = "lock" /\ cpu.pc \in EnqLabels
      /\ Main # NULL /\ Main \in Threads
      /\ cpu \in Continuation /\ cpu.op \in Calls \cup {"none"}
      /\ state \in [Threads -> {"NONE", "QUEUED", "YIELD", "EXITED", "JOINING",
                            "BLOCKED", "RUNNING"}]
  BY LocalCurrent, Typed, ThreadAssumption DEF Before, IInv, TypeOK, Continuation
<1>2. ~SchedAt("next")' /\ ~SchedAt("keep")' /\ ~Switching'
  BY DEF SchedAt, Switching, InHandler, InsideLabels, SchedLabels
<1>3. SUFFICES ASSUME currentThread' # NULL
               PROVE  \/ state'[currentThread'] \in {"RUNNING", "YIELD", "JOINING", "EXITED"}
                      \/ /\ state'[currentThread'] = "BLOCKED" /\ cpu'.op = "lock"
                         /\ cpu'.pc \in EnqLabels \cup {"sched"}
  BY <1>2 DEF CurrentOK, CurrentIs
<1>4. CASE \E t \in Threads : Create(t)
  <2>1. PICK t \in Threads : Create(t) BY <1>4
  <2>2. cpu.pc = "user" /\ cpu.pc \notin EnqLabels BY <2>1 DEF Create, CallFrom, EnqLabels
  <2>3. currentThread # t /\ (firstCall <=> currentThread = NULL) /\ t # Main
    BY <2>1, NewThread DEF Create
  <2> QED BY <1>1, <1>3, <2>1, <2>2, <2>3 DEF Create
<1>5. CASE Wake
  <2>1. cpu.thr # currentThread BY <1>5, WokenThread
  <2>2. cpu.pc \notin EnqLabels BY <1>5 DEF Wake, EnqLabels
  <2> QED BY <1>1, <1>3, <1>5, <2>1, <2>2 DEF Wake
<1>6. CASE LockBlock
  <2>1. cpu.op = "lock" /\ cpu'.op = cpu.op /\ cpu'.pc = "enq_test"
    BY <1>1, <1>6 DEF LockBlock, Before, IInv, CallOK, Continuation
  <2> QED BY <1>1, <1>3, <1>6, <2>1 DEF LockBlock, EnqLabels
<1>7. CASE Yield BY <1>1, <1>3, <1>7 DEF Yield
<1>8. CASE Exit BY <1>1, <1>3, <1>8 DEF Exit
<1>9. CASE \E t \in Threads : Join(t) BY <1>1, <1>3, <1>9 DEF Join
<1>10. CASE JoinDone BY <1>1, <1>3, <1>10 DEF JoinDone
<1>11. CASE \/ EnqTest \/ EnqFront \/ EnqLoad \/ EnqLink \/ EnqRear
  <2>1. UNCHANGED <<state, currentThread>>
    BY <1>11 DEF EnqTest, EnqFront, EnqLoad, EnqLink, EnqRear
  <2>2. cpu.op = "lock" => cpu'.op = "lock" /\ cpu'.pc \in EnqLabels \cup {"sched"}
    <3>1. cpu.pc = "enq_load" => rear[cpu.q] # NULL
      BY DEF Before, QueueInv, CarryOK, EnqLabels
    <3> QED BY <1>1, <1>11, <3>1 DEF EnqTest, EnqFront, EnqLoad, EnqLink, EnqRear, Goto,
            AfterEnqueue, Continuation, EnqLabels
  <2> QED BY <1>1, <1>3, <2>1, <2>2
<1>12. CASE \/ \E m \in Mutexes : Lock(m) \/ Unlock(m)
            \/ Arm \/ ExitValue \/ JoinTest \/ TestAndSet \/ UnlockTest \/ Release
            \/ DeqAdvance \/ DeqClear \/ DeqTest \/ DeqNull
  <2>1. UNCHANGED <<state, currentThread>> /\ cpu.pc \notin EnqLabels
    BY <1>12 DEF Lock, Unlock, CallFrom, Arm, ExitValue, JoinTest, TestAndSet, UnlockTest, Release,
       DeqAdvance, DeqClear, DeqTest, DeqNull, EnqLabels
  <2> QED BY <1>1, <1>3, <2>1
<1> QED
  BY <1>4, <1>5, <1>6, <1>7, <1>8, <1>9, <1>10, <1>11, <1>12 DEF Calling, Returning

\* A step outside schedule() stays outside, with the thread's code.
LEMMA StaysLocal ==
  ASSUME IInv, Calling \/ Returning
  PROVE  /\ cpu'.me = cpu.me /\ cpu'.irq = "none" /\ cpu'.pc \notin InsideLabels
         /\ UNCHANGED <<priority, freed>>
<1> USE DEF At, InHandler, InsideLabels, SchedLabels
<1>1. cpu \in Continuation BY Typed
<1>2. CASE Yield BY <1>1, <1>2 DEF Yield, Running, CallFrom, Continuation
<1>3. CASE Exit BY <1>1, <1>3 DEF Exit, Running, CallFrom, Continuation
<1>4. CASE \E t \in Threads : Create(t) BY <1>1, <1>4 DEF Create, CallFrom, Continuation
<1>5. CASE \E t \in Threads : Join(t) BY <1>1, <1>5 DEF Join, Running, CallFrom, Continuation
<1>6. CASE \E m \in Mutexes : Lock(m) BY <1>1, <1>6 DEF Lock, CallFrom, Continuation
<1>7. CASE \E m \in Mutexes : Unlock(m) BY <1>1, <1>7 DEF Unlock, CallFrom, Continuation
<1>8. CASE Arm BY <1>1, <1>8 DEF Arm, UserCode
<1>9. CASE ExitValue BY <1>1, <1>9 DEF ExitValue, Goto, Continuation
<1>10. CASE JoinTest BY <1>1, <1>10 DEF JoinTest, Goto, Continuation
<1>11. CASE JoinDone BY <1>1, <1>11 DEF JoinDone, UserCode
<1>12. CASE TestAndSet BY <1>1, <1>12 DEF TestAndSet, Goto, UserCode, Continuation
<1>13. CASE LockBlock BY <1>1, <1>13 DEF LockBlock, Continuation
<1>14. CASE UnlockTest BY <1>1, <1>14 DEF UnlockTest, Goto, Continuation
<1>15. CASE Wake BY <1>1, <1>15 DEF Wake, Continuation
<1>16. CASE Release BY <1>1, <1>16 DEF Release, UserCode
<1>17. CASE EnqTest BY <1>1, <1>17 DEF EnqTest, Goto, Continuation
<1>18. CASE EnqFront BY <1>1, <1>18 DEF EnqFront, Goto, Continuation
<1>19. CASE EnqLoad BY <1>1, <1>19 DEF EnqLoad, Continuation
<1>20. CASE EnqLink BY <1>1, <1>20 DEF EnqLink, Continuation
<1>21. CASE EnqRear BY <1>1, <1>21 DEF EnqRear, AfterEnqueue, UserCode, Continuation
<1>22. CASE DeqAdvance BY <1>1, <1>22 DEF DeqAdvance, Goto, Continuation
<1>23. CASE DeqClear BY <1>1, <1>23 DEF DeqClear, Goto, Continuation
<1>24. CASE DeqTest BY <1>1, <1>24 DEF DeqTest, Goto, Continuation
<1>25. CASE DeqNull BY <1>1, <1>25 DEF DeqNull, Goto, Continuation
<1> QED
  BY <1>2, <1>3, <1>4, <1>5, <1>6, <1>7, <1>8, <1>9, <1>10, <1>11, <1>12, <1>13, <1>14,
     <1>15, <1>16, <1>17, <1>18, <1>19, <1>20, <1>21, <1>22, <1>23, <1>24, <1>25
     DEF Calling, Returning

\* Before the first create is past its first statement no queue has a thread.
LEMMA BeforeCreate ==
  ASSUME NEW w, NEW p, Before(w, p), currentThread = NULL
  PROVE  \A t \in Threads : state[t] \in {"NONE", "EXITED"} /\ w[t] = NULL
<1>1. /\ cpu.pc \in {"user", "lock_tas", "unlock", "release"}
      /\ \A q \in Queues : front[q] = NULL
  BY DEF Before, IInv, BeforeTimer
<1>2. w \in [Threads -> Queues \cup {NULL}] /\ Lists(front, Ends, Links, w, p) /\ Placed(w)
  BY DEF Before, QueueInv
<1>3. ASSUME NEW t \in Threads PROVE w[t] = NULL
  <2>1. w[t] # NULL => front[w[t]] # NULL BY <1>2 DEF Lists
  <2> QED BY <1>1, <1>2, <2>1
<1>4. \A t \in Threads : ~Carried(t) BY <1>1 DEF Carried, CarryLabels, EnqLabels, DeqLabels
<1>5. state \in [Threads -> {"NONE", "QUEUED", "YIELD", "EXITED", "JOINING",
                            "BLOCKED", "RUNNING"}]
      /\ priority \in [Threads -> Levels]
  BY DEF Before, IInv, TypeOK
<1>6. NULL \notin Levels /\ NULL \notin Mutexes /\ NULL \notin Threads
  BY ThreadAssumption DEF Queues
<1>7. ASSUME NEW t \in Threads PROVE state[t] \in {"NONE", "EXITED"}
  <2>1. /\ state[t] = "QUEUED" => w[t] = IF Carried(t) THEN NULL ELSE priority[t]
        /\ state[t] = "BLOCKED" =>
             IF Carried(t) THEN w[t] = NULL
                           ELSE w[t] \in Mutexes /\ Waits(t, w[t])
        /\ state[t] \in {"RUNNING", "YIELD", "JOINING"} => t = currentThread
    BY <1>2 DEF Placed
  <2> QED BY <1>3, <1>4, <1>5, <1>6, <2>1
<1> QED BY <1>3, <1>7

\* The code of the other threads, and what the one that runs holds.
LEMMA CodeLocal ==
  ASSUME NEW w, NEW p, Before(w, p), Calling \/ Returning
  PROVE  /\ \A t \in Threads : t = cpu.me => CodeOf(t)' = cpu' /\ CodeOf(t) = cpu
         /\ \A t \in Threads : t # cpu.me =>
              \/ CodeOf(t)' = CodeOf(t)
              \/ /\ CodeOf(t)' = UserCode(t, {}) /\ CodeOf(t).held = {}
                 /\ state[t] = "NONE" /\ Create(t)
         /\ TestAndSet \/ Release \/ (cpu'.held = cpu.held /\ flag' = flag)
<1> USE DEF At
<1>1. \A t \in Threads : t = cpu.me => CodeOf(t)' = cpu' /\ CodeOf(t) = cpu
  BY StaysLocal DEF CodeOf, Before
<1>2. ASSUME NEW t \in Threads, t # cpu.me
      PROVE  \/ CodeOf(t)' = CodeOf(t)
             \/ /\ CodeOf(t)' = UserCode(t, {}) /\ CodeOf(t).held = {}
                /\ state[t] = "NONE" /\ Create(t)
  <2>1. CodeOf(t) = ctx[t] /\ CodeOf(t)' = ctx'[t] BY <1>2, StaysLocal DEF CodeOf, Before
  <2>2. CASE \E u \in Threads : Create(u)
    <3>1. PICK u \in Threads : Create(u) BY <2>2
    <3>2. ctx' = [ctx EXCEPT ![u] = UserCode(u, {})] /\ state[u] = "NONE"
      BY <3>1 DEF Create
    <3>3. ctx[u].held = {} BY <3>2 DEF Before, QueueInv, Placed
    <3> QED BY <2>1, <3>1, <3>2, <3>3, Typed DEF Before
  <2>3. CASE ~\E u \in Threads : Create(u)
    <3>1. ctx' = ctx
      BY <2>3 DEF Calling, Returning, Yield, Exit, Join, Lock, Unlock, Arm, ExitValue, JoinTest,
         JoinDone, TestAndSet, LockBlock, UnlockTest, Wake, Release, EnqTest, EnqFront, EnqLoad,
         EnqLink, EnqRear, DeqAdvance, DeqClear, DeqTest, DeqNull
    <3> QED BY <2>1, <3>1
  <2> QED BY <2>2, <2>3
<1>3. TestAndSet \/ Release \/ flag' = flag
  BY DEF Calling, Returning, Yield, Exit, Create, Join, Lock, Unlock, Arm, ExitValue, JoinTest,
     JoinDone, LockBlock, UnlockTest, Wake, EnqTest, EnqFront, EnqLoad,
     EnqLink, EnqRear, DeqAdvance, DeqClear, DeqTest, DeqNull
<1>4. TestAndSet \/ Release \/ cpu'.held = cpu.held
  <2>1. cpu \in Continuation BY Typed DEF Before
  <2>2. CASE Calling
    BY <2>1, <2>2 DEF Calling, Yield, Exit, Create, Join, Lock, Unlock, Continuation
  <2>3. CASE Arm \/ ExitValue \/ JoinTest \/ JoinDone
    BY <2>1, <2>3 DEF Arm, ExitValue, JoinTest, JoinDone, Goto, UserCode, Continuation
  <2>6. CASE LockBlock \/ UnlockTest \/ Wake
    BY <2>1, <2>6 DEF LockBlock, UnlockTest, Wake, Goto, Continuation
  <2>4. CASE EnqTest \/ EnqFront \/ EnqLoad \/ EnqLink
    BY <2>1, <2>4 DEF EnqTest, EnqFront, EnqLoad, EnqLink, Goto, Continuation
  <2>7. CASE EnqRear
    BY <2>1, <2>7 DEF EnqRear, AfterEnqueue, UserCode, Continuation
  <2>5. CASE \/ DeqAdvance \/ DeqClear \/ DeqTest \/ DeqNull
    BY <2>1, <2>5 DEF DeqAdvance, DeqClear, DeqTest, DeqNull, Goto, Continuation
  <2> QED BY <2>2, <2>3, <2>4, <2>5, <2>6, <2>7 DEF Returning
<1> QED BY <1>1, <1>2, <1>3, <1>4

\* A flag is taken together with the lock, and cleared with it.
LEMMA HolderLocal ==
  ASSUME NEW w, NEW p, Before(w, p), Calling \/ Returning
  PROVE  HolderOK'
<1>1. /\ HolderOK /\ cpu.me \in Threads /\ flag \in [Mutexes -> {0, 1}]
      /\ cpu \in Continuation
  BY Typed DEF Before, QueueInv, IInv, TypeOK
<1>2. /\ \A t \in Threads : t = cpu.me => CodeOf(t)' = cpu' /\ CodeOf(t) = cpu
      /\ \A t \in Threads : t # cpu.me =>
           CodeOf(t)' = CodeOf(t) \/ CodeOf(t).held = {}
      /\ TestAndSet \/ Release \/ (cpu'.held = cpu.held /\ flag' = flag)
  BY CodeLocal
<1>6. SUFFICES ASSUME NEW m \in Mutexes, flag'[m] = 1
               PROVE  \E t \in Threads : m \in (CodeOf(t)').held
  BY DEF HolderOK
<1>7. ASSUME flag[m] = 1, m \in cpu.held => m \in cpu'.held
      PROVE  \E t \in Threads : m \in (CodeOf(t)').held
  <2>1. PICK h \in Threads : m \in CodeOf(h).held BY <1>1, <1>7 DEF HolderOK
  <2>2. CASE h = cpu.me
    <3>1. m \in (CodeOf(h)').held BY <1>2, <1>7, <2>1, <2>2
    <3> QED BY <3>1
  <2>3. CASE h # cpu.me
    <3>1. m \in (CodeOf(h)').held BY <1>2, <2>1, <2>3
    <3> QED BY <3>1
  <2> QED BY <2>2, <2>3
<1>3. CASE TestAndSet
  <2>1. cpu.held \subseteq cpu'.held /\ (flag[cpu.arg] # 1 => cpu.arg \in cpu'.held)
    BY <1>1, <1>3 DEF TestAndSet, Goto, UserCode, Continuation
  <2>2. m = cpu.arg \/ flag[m] = 1 BY <1>1, <1>3, <1>6 DEF TestAndSet
  <2>3. PICK h \in Threads : h = cpu.me BY <1>1
  <2>4. CodeOf(h)' = cpu' BY <1>2, <2>3
  <2> QED BY <1>1, <1>7, <2>1, <2>2, <2>3, <2>4
<1>4. CASE Release
  <2>1. cpu'.held = cpu.held \ {cpu.arg} BY <1>4 DEF Release, UserCode
  <2>2. m # cpu.arg /\ flag[m] = 1
    <3>1. flag' = [flag EXCEPT ![cpu.arg] = 0] BY <1>4 DEF Release
    <3> QED BY <1>1, <1>6, <3>1
  <2> QED BY <1>7, <2>1, <2>2
<1>5. CASE cpu'.held = cpu.held /\ flag' = flag
  BY <1>5, <1>6, <1>7
<1> QED BY <1>2, <1>3, <1>4, <1>5

\* No call takes a thread out of EXITED: the one that exits makes no other call.
LEMMA ExitedLocal ==
  ASSUME NEW w, NEW p, Before(w, p), Calling \/ Returning,
         NEW t \in Threads, state[t] = "EXITED"
  PROVE  state'[t] = "EXITED"
<1>1. /\ state \in [Threads -> {"NONE", "QUEUED", "YIELD", "EXITED", "JOINING",
                                "BLOCKED", "RUNNING"}]
      /\ ExitOK /\ t # NULL
  BY ThreadAssumption DEF Before, TInv, IInv, TypeOK
<1>2. CASE t = cpu.me
  <2>1. CodeOf(t) = cpu BY <1>2 DEF CodeOf
  <2>2. cpu.op = "exit" /\ cpu.pc \in {"exit_val", "halt"} \cup SchedLabels
    BY <1>1, <2>1 DEF ExitOK
  <2>3. cpu.pc = "exit_val" BY <2>2, LocalCurrent
  <2>4. state' = state
    <3>1. CASE Calling
      BY <2>3, <3>1 DEF Calling, Yield, Exit, Create, Join, Lock, Unlock, Running,
         CallFrom, At
    <3>2. CASE Returning
      BY <2>3, <3>2 DEF At, Returning, Arm, ExitValue, JoinTest, JoinDone,
         TestAndSet, LockBlock, UnlockTest, Wake, Release, EnqTest, EnqFront,
         EnqLoad, EnqLink, EnqRear, DeqAdvance, DeqClear, DeqTest, DeqNull
    <3> QED BY <3>1, <3>2
  <2> QED BY <2>4
<1>3. CASE t # cpu.me
  <2>1. t # currentThread BY <1>1, <1>3, LocalCurrent
  <2>2. Wake => t # cpu.thr BY WokenThread
  <2>3. \A u \in Threads : Create(u) => t # u /\ (firstCall => t # Main)
    BY <1>3, NewThread DEF Create
  <2>4. state'[t] = state[t]
    <3>1. CASE Calling
      BY <1>1, <2>1, <2>3, <3>1 DEF Calling, Yield, Exit, Create, Join, Lock, Unlock
    <3>2. CASE Returning
      BY <1>1, <2>1, <2>2, <3>2 DEF Returning, Arm, ExitValue, JoinTest, JoinDone,
         TestAndSet, LockBlock, UnlockTest, Wake, Release, EnqTest, EnqFront,
         EnqLoad, EnqLink, EnqRear, DeqAdvance, DeqClear, DeqTest, DeqNull
    <3> QED BY <3>1, <3>2
  <2> QED BY <2>4
<1> QED BY <1>2, <1>3

\* A call runs on no freed stack.
LEMMA FreedLocal ==
  ASSUME NEW w, NEW p, Before(w, p), Calling \/ Returning
  PROVE  FreedOK'
<1>1. /\ FreedOK /\ cpu'.me = cpu.me /\ freed' = freed /\ ~InHandler
      /\ cpu.pc \notin SchedLabels
  BY StaysLocal, LocalCurrent DEF Before, QueueInv
<1>2. cpu.me \notin freed
  BY <1>1 DEF FreedOK, Switching, SchedAt, SchedLabels
<1>3. ASSUME NEW t \in freed, t \in Threads PROVE state'[t] = "EXITED"
  BY <1>1, <1>3, ExitedLocal DEF FreedOK
<1>4. freed \subseteq Threads BY DEF Before, IInv, TypeOK
<1> QED BY <1>1, <1>2, <1>3, <1>4 DEF FreedOK

\* The queue of each thread after a step outside schedule().
LocalMove(w, w2) ==
  /\ w2 \in [Threads -> Queues \cup {NULL}]
  /\ \A t \in Threads :
       w2[t] = IF t = cpu.thr /\ cpu.pc \in {"enq_front", "enq_link"} THEN cpu.q
               ELSE IF t = cpu.thr /\ cpu.pc = "deq_adv" THEN NULL ELSE w[t]

\* The pointers as enqueue() and dequeue() are about to leave them.
LEMMA ListsTyped ==
  ASSUME NEW w, NEW p, IInv, w \in [Threads -> Queues \cup {NULL}], p \in [Threads -> Nat]
  PROVE  Typing(front, Ends, Links, w, p)
<1>1. /\ front \in [Queues -> ThreadOrNull] /\ rear \in [Queues -> ThreadOrNull]
      /\ next \in [Threads -> ThreadOrNull] /\ cpu.thr \in ThreadOrNull
      /\ NULL \in ThreadOrNull
  BY Typed DEF Continuation, ThreadOrNull
<1>2. Ends \in [Queues -> ThreadOrNull] BY <1>1 DEF Ends
<1>3. Links \in [Threads -> ThreadOrNull] BY <1>1 DEF Links
<1> QED BY <1>1, <1>2, <1>3 DEF Typing

\* The pointers of the next state, one by one.
LEMMA ListsNext ==
  ASSUME NEW w, NEW p, NEW f, NEW r, NEW n, Typing(f, r, n, w, p), Lists(f, r, n, w, p),
         \A q \in Queues : front'[q] = f[q] /\ Ends'[q] = r[q],
         \A t \in Threads : Links'[t] = n[t]
  PROVE  Lists(front, Ends, Links, w, p)'
<1>1. ASSUME NEW F, NEW R, NEW N,
             \A q \in Queues : F[q] = f[q] /\ R[q] = r[q],
             \A t \in Threads : N[t] = n[t]
      PROVE  Lists(F, R, N, w, p)
  <2>1. \A q \in Queues :
       /\ F[q] # NULL => w[F[q]] = q
       /\ R[q] = NULL <=> F[q] = NULL
       /\ R[q] # NULL => w[R[q]] = q /\ N[R[q]] = NULL
    <3>1. \A q \in Queues : r[q] # NULL => r[q] \in Threads BY DEF Typing, ThreadOrNull
    <3> QED BY <1>1, <3>1 DEF Lists
  <2>2. \A t \in Threads : w[t] = NULL => N[t] = NULL BY <1>1 DEF Lists
  <2>3. \A t \in Threads : w[t] # NULL =>
       /\ F[w[t]] # NULL /\ p[F[w[t]]] <= p[t]
       /\ N[t] # NULL => w[N[t]] = w[t] /\ p[t] < p[N[t]]
    <3>1. \A t \in Threads : w[t] # NULL => w[t] \in Queues BY DEF Typing
    <3> QED BY <1>1, <3>1 DEF Lists
  <2>4. \A t, u \in Threads : w[t] # NULL /\ w[u] = w[t] =>
       /\ p[t] = p[u] => t = u
       /\ p[t] < p[u] => N[t] # NULL /\ p[N[t]] <= p[u]
    BY <1>1 DEF Lists
  <2> QED BY <2>1, <2>2, <2>3, <2>4 DEF Lists
<1> QED BY <1>1

\* Statements that neither append nor unlink, and those that make the second
\* and third assignment of enqueue() and dequeue().
LEMMA ListsLocal ==
  ASSUME NEW w, NEW p, Before(w, p), Calling \/ Returning, NEW w2, LocalMove(w, w2)
  PROVE  \E p2 \in [Threads -> Nat] : Lists(front, Ends, Links, w2, p2)'
<1> USE DEF At
<1>1. /\ w \in [Threads -> Queues \cup {NULL}] /\ p \in [Threads -> Nat]
      /\ Lists(front, Ends, Links, w, p) /\ CarryOK(w)
      /\ w2 \in [Threads -> Queues \cup {NULL}] /\ IInv
  BY DEF Before, QueueInv, LocalMove
<1>2. Typing(front, Ends, Links, w, p) BY <1>1, ListsTyped
<1>3. /\ cpu \in Continuation /\ front \in [Queues -> ThreadOrNull]
      /\ rear \in [Queues -> ThreadOrNull] /\ next \in [Threads -> ThreadOrNull]
      /\ NULL \notin Threads
  BY <1>1, Typed, ThreadAssumption
<1>4. /\ cpu.pc \in EnqLabels => cpu.thr \in Threads /\ cpu.q \in Queues
      /\ cpu.pc \in DeqLabels =>
           cpu.thr \in Threads /\ cpu.arg \in Mutexes /\ cpu.arg \in Queues
  BY <1>1 DEF IInv, CallOK, Queues
<1>5. ASSUME \A q \in Queues : front'[q] = front[q] /\ Ends'[q] = Ends[q],
             \A t \in Threads : Links'[t] = Links[t],
             \A t \in Threads : w2[t] = w[t]
      PROVE  \E p2 \in [Threads -> Nat] : Lists(front, Ends, Links, w2, p2)'
  <2>1. w2 = w BY <1>1, <1>5
  <2>2. Lists(front, Ends, Links, w, p)' BY <1>1, <1>2, <1>5, ListsNext
  <2> QED BY <1>1, <2>1, <2>2
<1>6. CASE Calling
  <2>1. cpu.pc = "user" /\ UNCHANGED listVars
        /\ cpu'.pc \in {"sched", "exit_val", "enq_test", "join_test", "lock_tas", "unlock"}
    BY <1>1, <1>6, CallCode
  <2>2. \A q \in Queues : front'[q] = front[q] /\ Ends'[q] = Ends[q] BY <2>1 DEF Ends
  <2>3. \A t \in Threads : Links'[t] = Links[t] BY <2>1 DEF Links
  <2>4. \A t \in Threads : w2[t] = w[t] BY <2>1 DEF LocalMove
  <2> QED BY <1>5, <2>2, <2>3, <2>4
<1>7. CASE Arm \/ ExitValue \/ JoinTest \/ JoinDone \/ TestAndSet \/ LockBlock \/ Wake \/ Release
  <2>1. /\ UNCHANGED listVars
        /\ cpu.pc \notin {"enq_front", "enq_link", "enq_rear", "deq_adv", "deq_clear", "deq_test", "deq_null"}
        /\ cpu'.pc \notin {"enq_rear", "deq_clear", "deq_test", "deq_null"}
    <3>1. CASE Arm \/ ExitValue \/ JoinTest \/ JoinDone
      BY <1>3, <3>1 DEF Arm, ExitValue, JoinTest, JoinDone, Goto, UserCode, Continuation
    <3>2. CASE TestAndSet \/ Release
      BY <1>3, <3>2 DEF TestAndSet, Release, Goto, UserCode, Continuation
    <3>3. CASE LockBlock \/ Wake BY <1>3, <3>3 DEF LockBlock, Wake, Continuation
    <3> QED BY <1>7, <3>1, <3>2, <3>3
  <2>2. \A q \in Queues : front'[q] = front[q] /\ Ends'[q] = Ends[q] BY <2>1 DEF Ends
  <2>3. \A t \in Threads : Links'[t] = Links[t] BY <2>1 DEF Links
  <2>4. \A t \in Threads : w2[t] = w[t] BY <2>1 DEF LocalMove
  <2> QED BY <1>5, <2>2, <2>3, <2>4
<1>8. CASE UnlockTest \/ EnqTest \/ EnqLoad
  <2>1. /\ UNCHANGED listVars
        /\ cpu.pc \notin {"enq_front", "enq_link", "enq_rear", "deq_adv", "deq_clear", "deq_test", "deq_null"}
        /\ cpu'.pc \notin {"enq_rear", "deq_clear", "deq_test", "deq_null"}
    BY <1>3, <1>8 DEF UnlockTest, EnqTest, EnqLoad, Goto, Continuation
  <2>2. \A q \in Queues : front'[q] = front[q] /\ Ends'[q] = Ends[q] BY <2>1 DEF Ends
  <2>3. \A t \in Threads : Links'[t] = Links[t] BY <2>1 DEF Links
  <2>4. \A t \in Threads : w2[t] = w[t] BY <2>1 DEF LocalMove
  <2> QED BY <1>5, <2>2, <2>3, <2>4
<1>9. CASE EnqRear
  <2>1. /\ cpu.pc = "enq_rear" /\ UNCHANGED <<front, next>>
        /\ \A q \in Queues : rear'[q] = IF q = cpu.q THEN cpu.thr ELSE rear[q]
        /\ cpu'.pc \notin {"enq_rear", "deq_clear", "deq_test", "deq_null"}
    BY <1>3, <1>9 DEF EnqRear, AfterEnqueue, UserCode, Continuation
  <2>2. \A q \in Queues : front'[q] = front[q] /\ Ends'[q] = Ends[q] BY <2>1 DEF Ends
  <2>3. \A t \in Threads : Links'[t] = Links[t] BY <2>1 DEF Links
  <2>4. \A t \in Threads : w2[t] = w[t] BY <2>1 DEF LocalMove
  <2> QED BY <1>5, <2>2, <2>3, <2>4
<1>10. CASE DeqClear
  <2>1. /\ cpu.pc = "deq_clear" /\ cpu'.pc = "deq_test" /\ UNCHANGED <<front, rear>>
        /\ \A t \in Threads : next'[t] = IF t = cpu.thr THEN NULL ELSE next[t]
        /\ cpu'.arg = cpu.arg
    BY <1>3, <1>10 DEF DeqClear, Goto, Continuation
  <2>2. \A q \in Queues : front'[q] = front[q] /\ Ends'[q] = Ends[q] BY <2>1 DEF Ends
  <2>3. \A t \in Threads : Links'[t] = Links[t] BY <2>1 DEF Links
  <2>4. \A t \in Threads : w2[t] = w[t] BY <2>1 DEF LocalMove
  <2> QED BY <1>5, <2>2, <2>3, <2>4
<1>11. CASE DeqTest
  <2>1. /\ cpu.pc = "deq_test" /\ UNCHANGED listVars /\ cpu'.arg = cpu.arg
        /\ cpu'.pc = IF front[cpu.arg] = NULL THEN "deq_null" ELSE "wake"
    BY <1>3, <1>11 DEF DeqTest, Goto, Continuation
  <2>2. \A q \in Queues : front'[q] = front[q] /\ Ends'[q] = Ends[q] BY <2>1 DEF Ends
  <2>3. \A t \in Threads : Links'[t] = Links[t] BY <2>1 DEF Links
  <2>4. \A t \in Threads : w2[t] = w[t] BY <2>1 DEF LocalMove
  <2> QED BY <1>5, <2>2, <2>3, <2>4
<1>12. CASE DeqNull
  <2>1. /\ cpu.pc = "deq_null" /\ cpu'.pc = "wake" /\ UNCHANGED <<front, next>>
        /\ \A q \in Queues : rear'[q] = IF q = cpu.arg THEN NULL ELSE rear[q]
        /\ front[cpu.arg] = NULL
    BY <1>1, <1>3, <1>12 DEF DeqNull, Goto, Continuation, CarryOK
  <2>2. \A q \in Queues : front'[q] = front[q] /\ Ends'[q] = Ends[q] BY <2>1 DEF Ends
  <2>3. \A t \in Threads : Links'[t] = Links[t] BY <2>1 DEF Links
  <2>4. \A t \in Threads : w2[t] = w[t] BY <2>1 DEF LocalMove
  <2> QED BY <1>5, <2>2, <2>3, <2>4
<1>13. CASE EnqFront
  <2>1. /\ cpu.pc = "enq_front" /\ cpu'.pc = "enq_rear" /\ UNCHANGED <<rear, next>>
        /\ cpu'.q = cpu.q /\ cpu'.thr = cpu.thr
        /\ \A q \in Queues : front'[q] = IF q = cpu.q THEN cpu.thr ELSE front[q]
    BY <1>3, <1>13 DEF EnqFront, Goto, Continuation
  <2>2. /\ cpu.thr \in Threads /\ cpu.q \in Queues /\ w[cpu.thr] = NULL
        /\ rear[cpu.q] = NULL
    BY <1>1, <1>4, <2>1 DEF CarryOK, EnqLabels
  <2>3. Appended(front, Ends, Links, w, cpu.q, cpu.thr, front', Ends', Links', w2)
    <3>1. \A q \in Queues : Ends[q] = rear[q] /\ Ends'[q] = IF q = cpu.q THEN cpu.thr ELSE rear[q]
      BY <2>1 DEF Ends
    <3>2. \A t \in Threads : Links'[t] = Links[t] BY <2>1 DEF Links
    <3>3. \A t \in Threads : w2[t] = IF t = cpu.thr THEN cpu.q ELSE w[t] BY <2>1 DEF LocalMove
    <3> QED BY <1>3, <2>1, <2>2, <3>1, <3>2, <3>3 DEF Appended
  <2>4. PICK p2 \in [Threads -> Nat] : Lists(front', Ends', Links', w2, p2)
    BY <1>1, <1>2, <2>2, <2>3, ListAppend
  <2> QED BY <2>4
<1>14. CASE EnqLink
  <2>1. /\ cpu.pc = "enq_link" /\ cpu'.pc = "enq_rear" /\ UNCHANGED <<rear, front>>
        /\ cpu'.q = cpu.q /\ cpu'.thr = cpu.thr
        /\ \A t \in Threads : next'[t] = IF t = cpu.reg THEN cpu.thr ELSE next[t]
    BY <1>3, <1>14 DEF EnqLink, Goto, Continuation
  <2>2. /\ cpu.thr \in Threads /\ cpu.q \in Queues /\ w[cpu.thr] = NULL
        /\ rear[cpu.q] # NULL /\ cpu.reg = rear[cpu.q]
    BY <1>1, <1>4, <2>1 DEF CarryOK, EnqLabels
  <2>3. Appended(front, Ends, Links, w, cpu.q, cpu.thr, front', Ends', Links', w2)
    <3>1. \A q \in Queues : Ends[q] = rear[q] /\ Ends'[q] = IF q = cpu.q THEN cpu.thr ELSE rear[q]
      BY <2>1 DEF Ends
    <3>2. \A t \in Threads : Links[t] = next[t]
                             /\ Links'[t] = IF t = rear[cpu.q] THEN cpu.thr ELSE next[t]
      BY <2>1, <2>2 DEF Links
    <3>3. \A t \in Threads : w2[t] = IF t = cpu.thr THEN cpu.q ELSE w[t] BY <2>1 DEF LocalMove
    <3> QED BY <1>3, <2>1, <2>2, <3>1, <3>2, <3>3 DEF Appended
  <2>4. PICK p2 \in [Threads -> Nat] : Lists(front', Ends', Links', w2, p2)
    BY <1>1, <1>2, <2>2, <2>3, ListAppend
  <2> QED BY <2>4
<1>15. CASE DeqAdvance
  <2>1. /\ cpu.pc = "deq_adv" /\ cpu'.pc = "deq_clear" /\ UNCHANGED <<rear, next>>
        /\ cpu'.arg = cpu.arg /\ cpu'.thr = cpu.thr
        /\ \A q \in Queues : front'[q] = IF q = cpu.arg THEN next[front[cpu.arg]] ELSE front[q]
    BY <1>3, <1>15 DEF DeqAdvance, Goto, Continuation
  <2>2. /\ cpu.thr \in Threads /\ cpu.arg \in Queues /\ cpu.thr = front[cpu.arg]
    BY <1>1, <1>4, <2>1 DEF CarryOK, DeqLabels
  <2>3. w[cpu.thr] = cpu.arg BY <1>1, <1>3, <2>2 DEF Lists
  <2>4. Unlinked(front, Ends, Links, w, cpu.arg, cpu.thr, NULL, front', Ends', Links', w2)
    <3>1. \A t \in Threads : Links[t] = next[t]
                             /\ Links'[t] = IF t = cpu.thr THEN NULL ELSE next[t]
      BY <2>1 DEF Links
    <3>2. \A q \in Queues :
            /\ Ends[q] = rear[q]
            /\ Ends'[q] = IF q = cpu.arg /\ next[cpu.thr] = NULL THEN NULL ELSE rear[q]
      BY <2>1, <2>2 DEF Ends
    <3>3. \A t \in Threads : w2[t] = IF t = cpu.thr THEN NULL ELSE w[t] BY <2>1 DEF LocalMove
    <3> QED BY <1>3, <2>1, <2>2, <3>1, <3>2, <3>3 DEF Unlinked
  <2>5. Lists(front', Ends', Links', w2, p)
    BY <1>1, <1>2, <2>2, <2>3, <2>4, ListUnlink
  <2> QED BY <1>1, <2>5
<1> QED
  BY <1>6, <1>7, <1>8, <1>9, <1>10, <1>11, <1>12, <1>13, <1>14, <1>15 DEF Returning

\* What enqueue() and dequeue() have in hand.
LEMMA CarryLocal ==
  ASSUME NEW w, NEW p, Before(w, p), Calling \/ Returning, NEW w2, LocalMove(w, w2)
  PROVE  CarryOK(w2)'
<1> USE DEF At
<1>1. /\ CarryOK(w) /\ Placed(w) /\ Lists(front, Ends, Links, w, p) /\ IInv
      /\ cpu \in Continuation /\ cpu.me \in Threads /\ cpu.op \in Calls \cup {"none"}
      /\ front \in [Queues -> ThreadOrNull] /\ rear \in [Queues -> ThreadOrNull]
      /\ flag \in [Mutexes -> {0, 1}] /\ priority \in [Threads -> Levels]
      /\ state \in [Threads -> {"NONE", "QUEUED", "YIELD", "EXITED", "JOINING",
                            "BLOCKED", "RUNNING"}]
      /\ cpu'.me = cpu.me /\ priority' = priority
  BY Typed, StaysLocal DEF Before, QueueInv, IInv, TypeOK, Continuation
<1>2. /\ ~InHandler /\ cpu.pc \notin SchedLabels
      /\ currentThread = NULL \/ (currentThread = cpu.me /\ currentThread \in Threads)
  BY LocalCurrent
<1>3. /\ cpu.pc \in EnqLabels => cpu.thr \in Threads /\ cpu.q \in Queues
                                 /\ cpu.op \in {"create", "lock", "unlock"}
      /\ cpu.pc \in DeqLabels \cup {"unlock", "release"} =>
           cpu.op = "unlock" /\ cpu.arg \in Mutexes /\ cpu.arg \in Queues
      /\ cpu.pc \in DeqLabels => cpu.thr \in Threads
      /\ cpu.op = "lock" => cpu.arg \in Mutexes /\ cpu.arg \notin cpu.held
  BY <1>1 DEF IInv, CallOK, Queues
<1>4. ASSUME cpu.pc # "user", cpu.thr \in Threads, cpu.thr # cpu.me,
             Waits(cpu.thr, cpu.arg), cpu'.thr = cpu.thr, cpu'.arg = cpu.arg
      PROVE  Waits(cpu.thr, cpu.arg)'
  <2>1. PICK t \in Threads : t = cpu.thr BY <1>4
  <2>2. CodeOf(t)' = CodeOf(t) BY <1>4, <2>1, CodeLocal DEF Create, CallFrom
  <2>3. Waits(t, cpu.arg)' BY <1>4, <2>1, <2>2 DEF Waits
  <2> QED BY <1>4, <2>1, <2>3 DEF Waits
<1>5. CASE \E t \in Threads : Create(t)
  <2>1. PICK t \in Threads : Create(t) BY <1>5
  <2>2. /\ cpu'.op = "create" /\ cpu'.pc = "enq_test" /\ cpu'.thr = t /\ cpu'.q = priority[t]
        /\ cpu.pc = "user" /\ state[t] = "NONE" /\ state'[t] = "QUEUED"
    BY <1>1, <2>1 DEF Create, CallFrom, Continuation
  <2>3. w[t] = NULL /\ w2[t] = w[t]
    BY <1>1, <2>2 DEF Placed, LocalMove
  <2>4. t # cpu.me
    <3>1. currentThread # t BY <2>1, NewThread
    <3>2. currentThread = NULL => cpu.me = Main /\ t # Main BY <2>1, NewThread
    <3> QED BY <1>2, <3>1, <3>2
  <2> QED BY <1>1, <2>2, <2>3, <2>4 DEF CarryOK, EnqLabels, DeqLabels, SchedLabels
<1>6. CASE \/ Yield \/ Exit \/ \E t \in Threads : Join(t)
           \/ \E m \in Mutexes : Lock(m) \/ Unlock(m)
  <2>1. /\ cpu'.pc \in {"sched", "exit_val", "join_test", "lock_tas", "unlock"}
        /\ cpu'.pc = "sched" => cpu'.op # "lock"
    <3>1. CASE Yield \/ Exit BY <1>1, <3>1 DEF Yield, Exit, Continuation
    <3>2. CASE \E t \in Threads : Join(t) BY <1>1, <3>2 DEF Join, Continuation
    <3>3. CASE \E m \in Mutexes : Lock(m) BY <1>1, <3>3 DEF Lock, Continuation
    <3>4. CASE \E m \in Mutexes : Unlock(m) BY <1>1, <3>4 DEF Unlock, Continuation
    <3> QED BY <1>6, <3>1, <3>2, <3>3, <3>4
  <2> QED BY <2>1 DEF CarryOK, EnqLabels, DeqLabels, SchedLabels
<1>7. CASE Arm \/ ExitValue \/ JoinTest \/ JoinDone \/ Release
  <2>1. /\ cpu'.pc \in {"user", "sched", "join_done"}
        /\ cpu'.pc = "sched" => cpu'.op # "lock"
    <3>1. cpu.pc \in {"exit_val", "join_test"} => cpu.op # "lock"
      BY BodyOps, <1>1 DEF Before, QueueInv, MaskOK
    <3> QED BY <1>1, <1>7, <3>1 DEF Arm, ExitValue, JoinTest, JoinDone, Release, Goto, UserCode,
            Continuation
  <2> QED BY <2>1 DEF CarryOK, EnqLabels, DeqLabels, SchedLabels
<1>8. CASE TestAndSet
  <2>1. /\ cpu'.pc \in {"user", "lock_block"} /\ cpu'.op # "unlock"
        /\ cpu'.pc = "lock_block" => flag'[cpu'.arg] = 1
    BY <1>1, <1>3, <1>8 DEF TestAndSet, Goto, UserCode, Continuation, IInv, CallOK
  <2> QED BY <2>1 DEF CarryOK, EnqLabels, DeqLabels, SchedLabels
<1>9. CASE LockBlock
  <2>1. /\ cpu'.pc = "enq_test" /\ cpu'.op = "lock" /\ cpu'.arg = cpu.arg
        /\ cpu'.thr = currentThread /\ cpu'.q = cpu.arg /\ flag' = flag
        /\ UNCHANGED currentThread /\ cpu.pc = "lock_block" /\ cpu.op = "lock"
        /\ state' = [state EXCEPT ![currentThread] = "BLOCKED"]
    BY <1>1, <1>9 DEF LockBlock, Continuation, IInv, CallOK
  <2>2. currentThread \in Threads BY <1>1, <2>1, CurrentThread
  <2>3. state[currentThread] \in {"RUNNING", "YIELD", "JOINING", "EXITED"}
    BY <2>1, <2>2, LocalCurrent, ThreadAssumption DEF EnqLabels
  <2>4. w2[currentThread] = NULL
    BY <1>1, <2>1, <2>2, <2>3 DEF Placed, LocalMove
  <2>5. flag[cpu.arg] = 1 BY <1>1, <2>1 DEF CarryOK
  <2> QED BY <1>1, <2>1, <2>2, <2>4, <2>5 DEF CarryOK, CurrentIs, EnqLabels, DeqLabels, SchedLabels
<1>10. CASE Wake
  <2>1. /\ cpu'.pc = "enq_test" /\ cpu'.op = "unlock" /\ cpu'.arg = cpu.arg
        /\ cpu'.thr = cpu.thr /\ cpu'.q = priority[cpu.thr] /\ cpu.pc = "wake"
        /\ state' = [state EXCEPT ![cpu.thr] = "QUEUED"]
    BY <1>1, <1>3, <1>10 DEF Wake, Continuation, DeqLabels
  <2>2. /\ cpu.thr \in Threads /\ cpu.thr # cpu.me /\ w[cpu.thr] = NULL
        /\ Waits(cpu.thr, cpu.arg)
    BY <1>10, WokenThread
  <2>4. Waits(cpu.thr, cpu.arg)' BY <1>4, <2>1, <2>2
  <2>5. w2[cpu.thr] = NULL BY <2>1, <2>2 DEF LocalMove
  <2>6. state'[cpu.thr] = "QUEUED" BY <1>1, <2>1, <2>2
  <2> QED BY <1>1, <2>1, <2>2, <2>4, <2>5, <2>6 DEF CarryOK, EnqLabels, DeqLabels, SchedLabels

<1>11. ASSUME cpu.pc \in EnqLabels, cpu'.pc \in EnqLabels, cpu'.op = cpu.op,
              cpu'.arg = cpu.arg, cpu'.thr = cpu.thr, cpu'.q = cpu.q,
              UNCHANGED <<state, flag, currentThread, rear>>,
              w2[cpu.thr] = IF cpu'.pc = "enq_rear" THEN cpu.q ELSE NULL,
              cpu'.pc = "enq_front" => rear[cpu.q] = NULL,
              cpu'.pc \in {"enq_load", "enq_link"} => rear[cpu.q] # NULL,
              cpu'.pc = "enq_link" => cpu'.reg = rear[cpu.q]
       PROVE  CarryOK(w2)'
  <2>1. cpu.pc # "user" BY <1>11 DEF EnqLabels
  <2>2. /\ cpu.op = "lock" =>
            cpu.thr = currentThread /\ CurrentIs("BLOCKED") /\ cpu.q = cpu.arg
        /\ cpu.op # "lock" =>
            cpu.thr # cpu.me /\ state[cpu.thr] = "QUEUED" /\ cpu.q = priority[cpu.thr]
        /\ cpu.op = "unlock" => Waits(cpu.thr, cpu.arg)
        /\ cpu.op = "lock" => flag[cpu.arg] = 1
    BY <1>1, <1>11 DEF CarryOK
  <2>3. cpu.op = "unlock" => Waits(cpu.thr, cpu.arg)'
    BY <1>3, <1>4, <1>11, <2>1, <2>2
  <2>4. cpu'.pc \notin DeqLabels \cup SchedLabels
    BY <1>11 DEF EnqLabels, DeqLabels, SchedLabels
  <2>5. cpu'.pc \notin {"deq_adv", "deq_null"} BY <2>4 DEF DeqLabels
  <2> QED BY <1>1, <1>11, <2>2, <2>3, <2>4, <2>5 DEF CarryOK, CurrentIs
<1>12. CASE EnqTest
  <2>1. /\ cpu'.pc = IF rear[cpu.q] = NULL THEN "enq_front" ELSE "enq_load"
        /\ cpu.pc = "enq_test" /\ cpu'.op = cpu.op
        /\ cpu'.arg = cpu.arg /\ cpu'.thr = cpu.thr /\ cpu'.q = cpu.q
        /\ UNCHANGED <<state, flag, currentThread, rear>>
    BY <1>1, <1>12 DEF EnqTest, Goto, Continuation
  <2>2. w2[cpu.thr] = NULL BY <1>1, <1>3, <2>1 DEF LocalMove, CarryOK, EnqLabels
  <2> QED BY <1>11, <2>1, <2>2 DEF EnqLabels
<1>13. CASE EnqFront
  <2>1. /\ cpu'.pc = "enq_rear" /\ cpu.pc = "enq_front" /\ cpu'.op = cpu.op
        /\ cpu'.arg = cpu.arg /\ cpu'.thr = cpu.thr /\ cpu'.q = cpu.q
        /\ UNCHANGED <<state, flag, currentThread, rear>>
    BY <1>1, <1>13 DEF EnqFront, Goto, Continuation
  <2>2. w2[cpu.thr] = cpu.q BY <1>1, <1>3, <2>1 DEF LocalMove, EnqLabels
  <2> QED BY <1>11, <2>1, <2>2 DEF EnqLabels
<1>14. CASE EnqLoad
  <2>1. cpu.pc = "enq_load" /\ rear[cpu.q] # NULL BY <1>1, <1>14 DEF EnqLoad, CarryOK, EnqLabels
  <2>2. /\ cpu'.pc = "enq_link" /\ cpu'.op = cpu.op /\ cpu'.reg = rear[cpu.q]
        /\ cpu'.arg = cpu.arg /\ cpu'.thr = cpu.thr /\ cpu'.q = cpu.q
        /\ UNCHANGED <<state, flag, currentThread, rear>>
    BY <1>1, <1>14, <2>1 DEF EnqLoad, Continuation
  <2>3. w2[cpu.thr] = NULL BY <1>1, <1>3, <2>1 DEF LocalMove, CarryOK, EnqLabels
  <2> QED BY <1>11, <2>1, <2>2, <2>3 DEF EnqLabels
<1>15. CASE EnqLink
  <2>1. /\ cpu'.pc = "enq_rear" /\ cpu.pc = "enq_link" /\ cpu'.op = cpu.op
        /\ cpu'.arg = cpu.arg /\ cpu'.thr = cpu.thr /\ cpu'.q = cpu.q
        /\ UNCHANGED <<state, flag, currentThread, rear>>
    BY <1>1, <1>15 DEF EnqLink, Goto, Continuation
  <2>2. w2[cpu.thr] = cpu.q BY <1>1, <1>3, <2>1 DEF LocalMove, EnqLabels
  <2> QED BY <1>11, <2>1, <2>2 DEF EnqLabels
<1>16. CASE EnqRear
  <2>1. /\ cpu'.pc \in {"sched", "release", "arm", "user"}
        /\ cpu'.op = "lock" => cpu.op = "lock"
        /\ UNCHANGED <<state, currentThread>> /\ cpu.pc \in EnqLabels
    BY <1>1, <1>16 DEF EnqRear, AfterEnqueue, UserCode, Continuation, EnqLabels
  <2>2. cpu.op = "lock" => currentThread = cpu.me /\ CurrentIs("BLOCKED")
    BY <1>1, <1>2, <1>3, <2>1, ThreadAssumption DEF CarryOK
  <2>3. cpu'.op = "lock" => state'[cpu'.me] = "BLOCKED" BY <1>1, <2>1, <2>2 DEF CurrentIs
  <2> QED BY <2>1, <2>3 DEF CarryOK, EnqLabels, DeqLabels, SchedLabels
<1>17. CASE UnlockTest
  <2>1. /\ cpu'.pc \in {"release", "deq_adv"} /\ cpu'.op = "unlock"
        /\ cpu'.pc = "deq_adv" => cpu'.thr = front'[cpu'.arg]
    <3>1. cpu.pc = "unlock" /\ front' = front /\ cpu.op = "unlock"
      BY <1>1, <1>17 DEF UnlockTest, IInv, CallOK
    <3>2. CASE front[cpu.arg] = NULL
      BY <1>1, <1>17, <3>1, <3>2 DEF UnlockTest, Goto, Continuation
    <3>3. CASE front[cpu.arg] # NULL
      <4>1. cpu' = [cpu EXCEPT !.pc = "deq_adv", !.thr = front[cpu.arg]]
        BY <1>17, <3>3 DEF UnlockTest
      <4>2. /\ cpu'.pc = "deq_adv" /\ cpu'.op = cpu.op /\ cpu'.arg = cpu.arg
            /\ cpu'.thr = front[cpu.arg]
        BY <1>1, <4>1 DEF Continuation
      <4> QED BY <3>1, <4>2
    <3> QED BY <3>2, <3>3
  <2> QED BY <2>1 DEF CarryOK, EnqLabels, DeqLabels, SchedLabels
<1>18. ASSUME cpu.pc \in DeqLabels, cpu'.pc \in DeqLabels \ {"deq_adv"}, cpu'.op = cpu.op,
              cpu'.arg = cpu.arg, cpu'.thr = cpu.thr, UNCHANGED state,
              state[cpu.thr] = "BLOCKED", Waits(cpu.thr, cpu.arg),
              cpu'.pc = "deq_null" => front'[cpu.arg] = NULL
       PROVE  CarryOK(w2)'
  <2>1. cpu.pc # "user" /\ cpu.thr \in Threads /\ cpu.op = "unlock"
    BY <1>3, <1>18 DEF DeqLabels
  <2>2. cpu.thr # cpu.me BY <1>18, <2>1 DEF Waits, CodeOf
  <2>3. Waits(cpu.thr, cpu.arg)' BY <1>4, <1>18, <2>1, <2>2
  <2>4. cpu'.pc \notin EnqLabels \cup SchedLabels
    BY <1>18 DEF EnqLabels, DeqLabels, SchedLabels
  <2>5. cpu'.pc \notin {"enq_front", "enq_load", "enq_link", "enq_rear"}
    BY <2>4 DEF EnqLabels
  <2> QED BY <1>18, <2>1, <2>3, <2>4, <2>5 DEF CarryOK
<1>19. CASE DeqAdvance
  <2>1. /\ cpu'.pc = "deq_clear" /\ cpu.pc = "deq_adv" /\ cpu'.op = cpu.op
        /\ cpu'.arg = cpu.arg /\ cpu'.thr = cpu.thr /\ UNCHANGED state
    BY <1>1, <1>19 DEF DeqAdvance, Goto, Continuation
  <2>2. /\ cpu.thr = front[cpu.arg] /\ cpu.thr \in Threads /\ cpu.arg \in Mutexes
        /\ cpu.arg \in Queues
    BY <1>1, <1>3, <2>1 DEF CarryOK, DeqLabels
  <2>3. w[cpu.thr] = cpu.arg BY <1>1, <2>2, ThreadAssumption DEF Lists
  <2>4. state[cpu.thr] = "BLOCKED" /\ Waits(cpu.thr, cpu.arg)
    <3>1. ~Carried(cpu.thr) BY <2>1 DEF Carried, CarryLabels, EnqLabels
    <3>2. cpu.arg # NULL /\ cpu.arg \notin Levels
      BY <2>2, LevelAssumption, ThreadAssumption
    <3> QED BY <1>1, <2>2, <2>3, <3>1, <3>2 DEF Placed
  <2> QED BY <1>18, <2>1, <2>4 DEF DeqLabels
<1>20. CASE DeqClear \/ DeqTest \/ DeqNull
  <2>1. /\ cpu'.pc \in {"deq_test", "deq_null", "wake"}
        /\ cpu.pc \in {"deq_clear", "deq_test", "deq_null"} /\ cpu'.op = cpu.op
        /\ cpu'.arg = cpu.arg /\ cpu'.thr = cpu.thr /\ UNCHANGED state
        /\ cpu'.pc = "deq_null" => front'[cpu.arg] = NULL
    BY <1>1, <1>20 DEF DeqClear, DeqTest, DeqNull, Goto, Continuation
  <2>2. state[cpu.thr] = "BLOCKED" /\ Waits(cpu.thr, cpu.arg)
    BY <1>1, <2>1 DEF CarryOK, DeqLabels
  <2> QED BY <1>18, <2>1, <2>2 DEF DeqLabels
<1> QED
  BY <1>5, <1>6, <1>7, <1>8, <1>9, <1>10, <1>12, <1>13, <1>14, <1>15, <1>16, <1>17, <1>19,
     <1>20 DEF Calling, Returning

\* Every state keeps its queue.
LEMMA PlacedLocal ==
  ASSUME NEW w, NEW p, Before(w, p), Calling \/ Returning, NEW w2, LocalMove(w, w2)
  PROVE  Placed(w2)'
<1> USE DEF At
<1>1. /\ CarryOK(w) /\ Placed(w) /\ Lists(front, Ends, Links, w, p) /\ IInv
      /\ cpu \in Continuation /\ cpu.me \in Threads /\ cpu.op \in Calls \cup {"none"}
      /\ front \in [Queues -> ThreadOrNull] /\ priority \in [Threads -> Levels]
      /\ ctx \in [Threads -> Continuation]
      /\ state \in [Threads -> {"NONE", "QUEUED", "YIELD", "EXITED", "JOINING",
                            "BLOCKED", "RUNNING"}]
      /\ cpu'.me = cpu.me /\ priority' = priority
  BY Typed, StaysLocal DEF Before, QueueInv, IInv, TypeOK, Continuation
<1>2. /\ ~InHandler /\ cpu.pc \notin SchedLabels
      /\ currentThread = NULL \/ (currentThread = cpu.me /\ currentThread \in Threads)
      /\ currentThread # NULL =>
           \/ state[currentThread] \in {"RUNNING", "YIELD", "JOINING", "EXITED"}
           \/ state[currentThread] = "BLOCKED" /\ cpu.op = "lock" /\ cpu.pc \in EnqLabels
      /\ currentThread = NULL =>
           \A t \in Threads : state[t] \in {"NONE", "EXITED"} /\ w[t] = NULL
  BY LocalCurrent, BeforeCreate
<1>3. /\ cpu.pc \in EnqLabels => cpu.thr \in Threads /\ cpu.q \in Queues
                                 /\ cpu.op \in {"create", "lock", "unlock"}
      /\ cpu.pc \in DeqLabels \cup {"unlock", "release"} =>
           cpu.op = "unlock" /\ cpu.arg \in Mutexes /\ cpu.arg \in Queues
      /\ cpu.pc \in DeqLabels => cpu.thr \in Threads
      /\ cpu.op = "lock" => cpu.arg \in Mutexes /\ cpu.arg \notin cpu.held
  BY <1>1 DEF IInv, CallOK, Queues
<1>4. /\ NULL \notin Threads /\ NULL \notin Queues /\ Levels \subseteq Queues
      /\ Mutexes \subseteq Queues /\ Levels \cap Mutexes = {}
  BY ThreadAssumption, LevelAssumption DEF Queues
\* The threads that neither run nor are in hand.
<1>5. ASSUME NEW t \in Threads, NEW m, t # cpu.me, ~Create(t)
      PROVE  /\ Waits(t, m)' <=> Waits(t, m)
             /\ CodeOf(t)' = CodeOf(t) /\ (ctx[t].held = {} => (ctx[t].held)' = {})
  <2>1. CodeOf(t)' = CodeOf(t) BY <1>5, CodeLocal
  <2>2. CodeOf(t) = ctx[t] /\ CodeOf(t)' = ctx'[t] BY <1>1, <1>5 DEF CodeOf
  <2> QED BY <2>1, <2>2 DEF Waits
<1>6. ASSUME NEW t \in Threads, ctx[t].held = {} PROVE ctx'[t].held = {}
  <2>1. CASE \E u \in Threads : Create(u)
    <3>1. PICK u \in Threads : ctx' = [ctx EXCEPT ![u] = UserCode(u, {})]
      BY <2>1 DEF Create
    <3> QED BY <1>1, <1>6, <3>1 DEF UserCode
  <2>2. CASE ~\E u \in Threads : Create(u)
    <3>1. ctx' = ctx
      BY <2>2 DEF Calling, Returning, Yield, Exit, Join, Lock, Unlock, Arm, ExitValue, JoinTest,
         JoinDone, TestAndSet, LockBlock, UnlockTest, Wake, Release, EnqTest, EnqFront, EnqLoad,
         EnqLink, EnqRear, DeqAdvance, DeqClear, DeqTest, DeqNull
    <3> QED BY <1>6, <3>1
  <2> QED BY <2>1, <2>2
<1>7. ASSUME NEW t \in Threads, ~Create(t), currentThread' = currentThread,
             state'[t] = state[t], Carried(t)' <=> Carried(t), w2[t] = w[t],
             t = cpu.me /\ state[t] = "BLOCKED" => cpu'.op = cpu.op /\ cpu'.arg = cpu.arg
      PROVE  /\ state'[t] = "QUEUED" =>
                  w2[t] = IF Carried(t)' THEN NULL ELSE priority'[t]
             /\ state'[t] = "BLOCKED" =>
                  IF Carried(t)' THEN w2[t] = NULL
                                 ELSE w2[t] \in Mutexes /\ Waits(t, w2[t])'
             /\ state'[t] \in {"RUNNING", "YIELD", "JOINING"} => t = currentThread'
             /\ state'[t] \notin {"QUEUED", "BLOCKED"} => w2[t] = NULL
             /\ state'[t] = "NONE" =>
                  ctx'[t].held = {} /\ (t = cpu'.me => currentThread' = NULL)
  <2>1. Waits(t, w[t]) => Waits(t, w[t])' \/ state[t] # "BLOCKED"
    <3>1. CASE t # cpu.me BY <1>5, <1>7, <3>1
    <3>2. CASE t = cpu.me
      <4>1. CodeOf(t) = cpu /\ CodeOf(t)' = cpu' BY <3>2, CodeLocal
      <4> QED BY <1>7, <3>2, <4>1 DEF Waits
    <3> QED BY <3>1, <3>2
  <2> QED BY <1>1, <1>6, <1>7, <2>1 DEF Placed
\* The current thread, between two states that are in no queue.
<1>8. ASSUME cpu.pc \notin EnqLabels, currentThread \in Threads,
             UNCHANGED currentThread,
             NEW s \in {"RUNNING", "YIELD", "JOINING", "EXITED"},
             state' = [state EXCEPT ![currentThread] = s],
             cpu.pc \notin CarryLabels, cpu'.pc \notin CarryLabels,
             ~\E t \in Threads : Create(t), \A t \in Threads : w2[t] = w[t]
      PROVE  Placed(w2)'
  <2>1. \A t \in Threads : ~Carried(t) /\ ~Carried(t)' BY <1>8 DEF Carried
  <2>2. ASSUME NEW t \in Threads, t # currentThread
        PROVE  state'[t] = state[t] /\ t # cpu.me
    BY <1>1, <1>2, <1>4, <1>8, <2>2
  <2>3. w2[currentThread] = NULL BY <1>1, <1>2, <1>4, <1>8 DEF Placed
  <2>4. state'[currentThread] = s BY <1>1, <1>8
  <2> QED BY <1>7, <1>8, <2>1, <2>2, <2>3, <2>4 DEF Placed
<1> DEFINE Same == /\ UNCHANGED <<state, currentThread>> /\ ~\E t \in Threads : Create(t)
                   /\ \A t \in Threads : w2[t] = w[t]
                   /\ cpu.pc \in CarryLabels <=> cpu'.pc \in CarryLabels
                   /\ cpu.pc \in CarryLabels => cpu'.thr = cpu.thr
                   /\ cpu.pc \in EnqLabels /\ cpu.op = "lock" =>
                        cpu'.op = cpu.op /\ cpu'.arg = cpu.arg
<1>9. ASSUME Same PROVE Placed(w2)'
  <2>1. \A t \in Threads : Carried(t)' <=> Carried(t) BY <1>9 DEF Carried
  <2>2. ASSUME state[cpu.me] = "BLOCKED" PROVE cpu.pc \in EnqLabels /\ cpu.op = "lock"
    BY <1>1, <1>2, <2>2
  <2> QED BY <1>7, <1>9, <2>1, <2>2 DEF Placed
<1> USE DEF CarryLabels, EnqLabels, DeqLabels
<1>10. CASE \/ \E m \in Mutexes : Lock(m) \/ Unlock(m)
  <2>1. cpu.pc = "user" /\ cpu'.pc \in {"lock_tas", "unlock"}
        /\ UNCHANGED <<state, currentThread>>
    BY <1>1, <1>10 DEF Lock, Unlock, CallFrom, Continuation
  <2>2. \A t \in Threads : w2[t] = w[t] /\ ~Create(t)
    BY <1>1, <2>1 DEF LocalMove, Create, Continuation
  <2> QED BY <1>9, <2>1, <2>2
<1>11. CASE \/ Arm \/ ExitValue \/ JoinTest \/ TestAndSet \/ UnlockTest \/ Release
  <2>1. /\ cpu.pc \notin {"user"} \cup EnqLabels \cup DeqLabels \/ cpu.pc = "unlock"
        /\ cpu'.pc \notin CarryLabels /\ UNCHANGED <<state, currentThread>>
    <3>1. CASE Arm \/ ExitValue \/ JoinTest
      BY <1>1, <3>1 DEF Arm, ExitValue, JoinTest, Goto, UserCode, Continuation
    <3>2. CASE TestAndSet \/ Release
      BY <1>1, <3>2 DEF TestAndSet, Release, Goto, UserCode, Continuation
    <3>3. CASE UnlockTest
      <4>1. cpu.pc = "unlock" /\ UNCHANGED <<state, currentThread>>
        BY <3>3 DEF UnlockTest
      <4>2. cpu'.pc \in {"release", "deq_adv"}
        BY <1>1, <3>3 DEF UnlockTest, Goto, Continuation
      <4> QED BY <4>1, <4>2
    <3> QED BY <1>11, <3>1, <3>2, <3>3
  <2>2. \A t \in Threads : w2[t] = w[t] /\ ~Create(t)
    BY <2>1 DEF LocalMove, Create, CallFrom
  <2> QED BY <1>9, <2>1, <2>2
<1>12. CASE EnqTest \/ EnqLoad
  <2>1. /\ cpu.pc \in {"enq_test", "enq_load"} /\ UNCHANGED <<state, currentThread>>
        /\ cpu'.pc \in {"enq_front", "enq_load", "enq_link"}
        /\ cpu'.op = cpu.op /\ cpu'.arg = cpu.arg /\ cpu'.thr = cpu.thr
    <3>1. cpu.pc = "enq_load" => rear[cpu.q] # NULL BY <1>1 DEF CarryOK
    <3> QED BY <1>1, <1>12, <3>1 DEF EnqTest, EnqLoad, Goto, Continuation
  <2>2. \A t \in Threads : w2[t] = w[t] /\ ~Create(t)
    BY <2>1 DEF LocalMove, Create, CallFrom
  <2> QED BY <1>9, <2>1, <2>2
<1>13. CASE EnqRear
  <2>1. /\ cpu.pc = "enq_rear" /\ UNCHANGED <<state, currentThread>>
        /\ cpu'.pc \in {"sched", "release", "arm", "user"}
        /\ cpu.op = "lock" => cpu'.op = cpu.op /\ cpu'.arg = cpu.arg
    BY <1>1, <1>13 DEF EnqRear, AfterEnqueue, UserCode, Continuation
  <2>2. \A t \in Threads : w2[t] = w[t] /\ ~Create(t)
    BY <2>1 DEF LocalMove, Create, CallFrom
  <2> QED BY <1>9, <2>1, <2>2
<1>14. CASE DeqClear \/ DeqTest \/ DeqNull
  <2>1. /\ cpu.pc \in {"deq_clear", "deq_test", "deq_null"} /\ UNCHANGED <<state, currentThread>>
        /\ cpu'.pc \in {"deq_test", "deq_null", "wake"} /\ cpu'.thr = cpu.thr
    BY <1>1, <1>14 DEF DeqClear, DeqTest, DeqNull, Goto, Continuation
  <2>2. \A t \in Threads : w2[t] = w[t] /\ ~Create(t)
    BY <2>1 DEF LocalMove, Create, CallFrom
  <2> QED BY <1>9, <2>1, <2>2
<1>15. CASE Yield \/ Exit \/ (\E t \in Threads : Join(t)) \/ JoinDone
  <2>1. PICK s \in {"RUNNING", "YIELD", "JOINING", "EXITED"} :
          state' = [state EXCEPT ![currentThread] = s]
    BY <1>15 DEF Yield, Exit, Join, JoinDone
  <2>2. /\ cpu.pc \in {"user", "join_done"} /\ UNCHANGED currentThread
        /\ cpu'.pc \in {"sched", "exit_val", "join_test", "user"}
        /\ cpu.pc = "user" => ~firstCall
        /\ cpu'.pc # "enq_test"
    <3>1. CASE Yield \/ Exit BY <1>1, <3>1 DEF Yield, Exit, Running, CallFrom, Continuation
    <3>2. CASE JoinDone BY <1>1, <3>2 DEF JoinDone, UserCode
    <3>3. CASE \E t \in Threads : Join(t)
      BY <1>1, <3>3 DEF Join, Running, CallFrom, Continuation
    <3> QED BY <1>15, <3>1, <3>2, <3>3
  <2>3. currentThread \in Threads BY <1>1, <2>2, CurrentThread
  <2>4. \A t \in Threads : w2[t] = w[t] /\ ~Create(t)
    <3>1. \A t \in Threads : ~Create(t) BY <1>1, <2>2 DEF Create, Continuation
    <3> QED BY <2>2, <3>1 DEF LocalMove
  <2> QED BY <1>8, <2>1, <2>2, <2>3, <2>4
<1>16. CASE LockBlock
  <2>1. /\ cpu.pc = "lock_block" /\ cpu'.pc = "enq_test" /\ cpu'.thr = currentThread
        /\ UNCHANGED currentThread /\ state' = [state EXCEPT ![currentThread] = "BLOCKED"]
    BY <1>1, <1>16 DEF LockBlock, Continuation
  <2>2. currentThread \in Threads BY <1>1, <2>1, CurrentThread
  <2>3. \A t \in Threads : w2[t] = w[t] /\ ~Create(t)
    BY <2>1 DEF LocalMove, Create, CallFrom
  <2>4. w2[currentThread] = NULL BY <1>1, <1>2, <1>4, <2>1, <2>2, <2>3 DEF Placed
  <2>5. Carried(currentThread)' BY <2>1 DEF Carried
  <2>6. state'[currentThread] = "BLOCKED" BY <1>1, <2>1, <2>2
  <2>7. ASSUME NEW t \in Threads, t # currentThread
        PROVE  state'[t] = state[t] /\ t # cpu.me /\ ~Carried(t) /\ ~Carried(t)'
    BY <1>1, <1>2, <1>4, <2>1, <2>2, <2>7 DEF Carried
  <2> QED BY <1>7, <2>1, <2>3, <2>4, <2>5, <2>6, <2>7 DEF Placed
<1>17. CASE Wake
  <2>1. /\ cpu.pc = "wake" /\ cpu'.pc = "enq_test" /\ cpu'.thr = cpu.thr
        /\ UNCHANGED currentThread /\ state' = [state EXCEPT ![cpu.thr] = "QUEUED"]
    BY <1>1, <1>17 DEF Wake, Continuation
  <2>2. /\ cpu.thr \in Threads /\ cpu.thr # cpu.me /\ cpu.thr # currentThread
        /\ w[cpu.thr] = NULL
    BY <1>17, WokenThread
  <2>3. \A t \in Threads : w2[t] = w[t] /\ ~Create(t)
    BY <2>1 DEF LocalMove, Create, CallFrom
  <2>4. \A t \in Threads : Carried(t)' <=> Carried(t) BY <2>1 DEF Carried
  <2>5. Carried(cpu.thr)' /\ state'[cpu.thr] = "QUEUED" BY <1>1, <2>1, <2>2 DEF Carried
  <2>6. ASSUME NEW t \in Threads, t # cpu.thr PROVE state'[t] = state[t]
    BY <1>1, <2>1, <2>6
  <2>7. ASSUME state[cpu.me] = "BLOCKED" PROVE FALSE BY <1>1, <1>2, <2>1, <2>7
  <2> QED BY <1>7, <2>1, <2>2, <2>3, <2>4, <2>5, <2>6, <2>7 DEF Placed, Carried
<1>18. CASE EnqFront \/ EnqLink
  <2>1. /\ cpu.pc \in {"enq_front", "enq_link"} /\ cpu'.pc = "enq_rear"
        /\ UNCHANGED <<state, currentThread>>
        /\ cpu'.op = cpu.op /\ cpu'.arg = cpu.arg
    BY <1>1, <1>18 DEF EnqFront, EnqLink, Goto, Continuation
  <2>2. \A t \in Threads : ~Create(t) /\ w2[t] = IF t = cpu.thr THEN cpu.q ELSE w[t]
    BY <2>1 DEF LocalMove, Create, CallFrom
  <2>3. \A t \in Threads : ~Carried(t)' /\ (t # cpu.thr => ~Carried(t)) BY <2>1 DEF Carried
  <2>4. /\ cpu.thr \in Threads
        /\ cpu.op = "lock" =>
             cpu.thr = currentThread /\ state[cpu.thr] = "BLOCKED" /\ cpu.q = cpu.arg
        /\ cpu.op # "lock" =>
            cpu.thr # cpu.me /\ state[cpu.thr] = "QUEUED" /\ cpu.q = priority[cpu.thr]
    BY <1>1, <1>3, <2>1 DEF CarryOK, CurrentIs
  <2>5. ASSUME NEW t \in Threads, t = cpu.thr, state[t] = "BLOCKED"
        PROVE  w2[t] \in Mutexes /\ Waits(t, w2[t])'
    <3>1. t = cpu.me /\ w2[t] = cpu.arg /\ cpu.op = "lock"
      BY <1>2, <1>4, <2>2, <2>4, <2>5
    <3>2. CodeOf(t)' = cpu' BY <3>1, CodeLocal
    <3> QED BY <1>3, <2>1, <3>1, <3>2 DEF Waits
  <2>6. ASSUME NEW t \in Threads, t = cpu.thr, state[t] = "QUEUED"
        PROVE  w2[t] = priority'[t]
    BY <1>1, <2>2, <2>4, <2>6
  <2>7. state[cpu.thr] \in {"QUEUED", "BLOCKED"} BY <2>4
  <2>8. ASSUME state[cpu.me] = "BLOCKED" PROVE cpu.op = "lock" BY <1>1, <1>2, <2>8
  <2> QED BY <1>7, <2>1, <2>2, <2>3, <2>5, <2>6, <2>7, <2>8 DEF Placed
<1>19. CASE DeqAdvance
  <2>1. /\ cpu.pc = "deq_adv" /\ cpu'.pc = "deq_clear" /\ cpu'.thr = cpu.thr
        /\ UNCHANGED <<state, currentThread>>
    BY <1>1, <1>19 DEF DeqAdvance, Goto, Continuation
  <2>2. \A t \in Threads : ~Create(t) /\ w2[t] = IF t = cpu.thr THEN NULL ELSE w[t]
    BY <2>1 DEF LocalMove, Create, CallFrom
  <2>3. \A t \in Threads : ~Carried(t) /\ (Carried(t)' <=> t = cpu.thr) BY <2>1 DEF Carried
  <2>4. cpu.thr = front[cpu.arg] /\ cpu.thr \in Threads /\ w[cpu.thr] = cpu.arg
    BY <1>1, <1>3, <1>4, <2>1 DEF CarryOK, Lists
  <2>5. state[cpu.thr] = "BLOCKED" BY <1>1, <1>3, <1>4, <2>1, <2>3, <2>4 DEF Placed
  <2>6. ASSUME state[cpu.me] = "BLOCKED" PROVE FALSE BY <1>1, <1>2, <2>1, <2>6
  <2> QED BY <1>7, <2>1, <2>2, <2>3, <2>4, <2>5, <2>6 DEF Placed
<1>20. CASE \E t \in Threads : Create(t)
  <2>1. PICK u \in Threads : Create(u) BY <1>20
  <2>2. /\ cpu.pc = "user" /\ cpu'.pc = "enq_test" /\ cpu'.thr = u /\ state[u] = "NONE"
        /\ IF firstCall
           THEN /\ currentThread' = Main
                /\ state' = [state EXCEPT ![Main] = "RUNNING", ![u] = "QUEUED"]
           ELSE /\ state' = [state EXCEPT ![u] = "QUEUED"]
                /\ currentThread' = currentThread
    BY <1>1, <2>1 DEF Create, CallFrom, Continuation
  <2>3. /\ currentThread # u /\ (firstCall <=> currentThread = NULL)
        /\ currentThread = NULL => cpu.me = Main /\ u # Main
    BY <2>1, NewThread
  <2>4. \A t \in Threads : w2[t] = w[t] BY <2>2 DEF LocalMove
  <2>5. \A t \in Threads : ~Carried(t) /\ (Carried(t)' <=> t = u) BY <2>2 DEF Carried
  <2>6. w[u] = NULL /\ u # cpu.me BY <1>1, <1>2, <2>2, <2>3 DEF Placed
  <2>7. \A t \in Threads : Create(t) => t = u
    BY <1>1, <2>2 DEF Create, Continuation
  <2>8. CASE ~firstCall
    <3>1. state'[u] = "QUEUED" /\ \A t \in Threads : t # u => state'[t] = state[t]
      BY <1>1, <2>2, <2>8
    <3>2. ASSUME state[cpu.me] = "BLOCKED" PROVE FALSE BY <1>1, <1>2, <2>2, <2>3, <2>8, <3>2
    <3> QED BY <1>7, <2>2, <2>4, <2>5, <2>6, <2>7, <2>8, <3>1, <3>2 DEF Placed
  <2>9. CASE firstCall
    <3>1. Main \in Threads BY ThreadAssumption
    <3>2. /\ state'[u] = "QUEUED" /\ state'[Main] = "RUNNING"
          /\ \A t \in Threads : t # u /\ t # Main => state'[t] = state[t]
      BY <1>1, <2>2, <2>3, <2>9, <3>1
    <3>3. \A t \in Threads : state[t] \in {"NONE", "EXITED"} /\ w[t] = NULL
      BY <1>2, <2>3, <2>9
    <3>4. \A t \in Threads : state[t] = "NONE" => ctx'[t].held = {}
      BY <1>1, <1>6 DEF Placed
    <3> QED BY <1>1, <2>2, <2>3, <2>4, <2>5, <2>6, <2>9, <3>1, <3>2, <3>3, <3>4 DEF Placed
  <2> QED BY <2>8, <2>9
<1> QED
  BY <1>10, <1>11, <1>12, <1>13, <1>14, <1>15, <1>16, <1>17, <1>18, <1>19, <1>20
     DEF Calling, Returning

\* Ready threads stay ready.
LEMMA QueuedStays ==
  ASSUME NEW w, NEW p, Before(w, p), Calling \/ Returning,
         NEW t \in Threads, state[t] = "QUEUED", t # cpu.me
  PROVE  state'[t] = "QUEUED"
<1>1. /\ state \in [Threads -> {"NONE", "QUEUED", "YIELD", "EXITED", "JOINING",
                            "BLOCKED", "RUNNING"}]
      /\ t # NULL
  BY ThreadAssumption DEF Before, IInv, TypeOK
<1>2. t # currentThread BY <1>1, LocalCurrent
<1>3. ASSUME NEW u \in Threads, Create(u) PROVE t # u /\ (firstCall => t # Main)
  <2>1. t # u BY <1>3 DEF Create
  <2>2. firstCall => Main = cpu.me BY <1>3, NewThread
  <2> QED BY <2>1, <2>2
<1>4. CASE Calling
  BY <1>1, <1>2, <1>3, <1>4 DEF Calling, Yield, Exit, Create, Join, Lock, Unlock
<1>5. CASE Returning
  BY <1>1, <1>2, <1>5 DEF Returning, Arm, ExitValue, JoinTest,
     JoinDone, TestAndSet, LockBlock, UnlockTest, Wake, Release, EnqTest, EnqFront, EnqLoad,
     EnqLink, EnqRear, DeqAdvance, DeqClear, DeqTest, DeqNull
<1> QED BY <1>4, <1>5

\* The waiters of a free mutex keep the one that is awake.
LEMMA WakeLocal ==
  ASSUME NEW w, NEW p, Before(w, p), Calling \/ Returning
  PROVE  WakeOK'
<1> USE DEF At
<1>1. /\ CarryOK(w) /\ WakeOK /\ IInv /\ MaskOK /\ Placed(w)
      /\ cpu \in Continuation /\ cpu.me \in Threads
      /\ front \in [Queues -> ThreadOrNull] /\ flag \in [Mutexes -> {0, 1}]
      /\ cpu'.me = cpu.me /\ currentThread \in ThreadOrNull
      /\ ctx \in [Threads -> Continuation] /\ priority \in [Threads -> Levels]
      /\ Mutexes \subseteq Queues /\ Levels \cap Mutexes = {}
  BY Typed, StaysLocal, LevelAssumption
     DEF Before, QueueInv, IInv, TypeOK, Continuation, Queues
<1>2. \A t \in Threads : t = cpu.me => CodeOf(t) = cpu BY DEF CodeOf
<1>3. SUFFICES ASSUME NEW m \in Mutexes, front'[m] # NULL, Freeing(m)'
               PROVE  \E t \in Threads : Awake(t, m)'
  BY DEF WakeOK
<1>4. ASSUME NEW t \in Threads, Awake(t, m), t # cpu.me PROVE Awake(t, m)'
  <2>1. state[t] = "QUEUED" BY <1>1, <1>4, LocalCurrent, ThreadAssumption DEF Awake, Placed
  <2>2. state'[t] = "QUEUED" BY <1>4, <2>1, QueuedStays
  <2>3. CodeOf(t)' = CodeOf(t) BY <1>4, <2>1, CodeLocal
  <2> QED BY <1>4, <2>2, <2>3 DEF Awake, Waits
<1>5. ASSUME front[m] # NULL, Freeing(m), cpu.pc = "lock_tas" => cpu.arg # m
      PROVE  \E t \in Threads : Awake(t, m)'
  <2>1. PICK t \in Threads : Awake(t, m) BY <1>1, <1>5 DEF WakeOK
  <2>2. cpu.pc \notin SchedLabels
    <3>1. CASE Calling BY <1>1, <3>1, CallCode DEF SchedLabels
    <3>2. CASE Returning
      BY <3>2 DEF Returning, Arm, ExitValue, JoinTest, JoinDone, TestAndSet, LockBlock,
         UnlockTest, Wake, Release, EnqTest, EnqFront, EnqLoad, EnqLink, EnqRear,
         DeqAdvance, DeqClear, DeqTest, DeqNull, SchedLabels
    <3> QED BY <1>1, <3>1, <3>2
  <2>3. t # cpu.me BY <1>2, <1>5, <2>1, <2>2 DEF Awake, Waits
  <2> QED BY <1>4, <2>1, <2>3
<1>6. CASE Calling
  <2>1. /\ UNCHANGED <<front, flag>> /\ cpu.pc = "user"
        /\ cpu'.pc \in {"sched", "exit_val", "enq_test", "join_test", "lock_tas", "unlock"}
    BY <1>1, <1>6, CallCode
  <2> QED BY <1>3, <1>5, <2>1 DEF Freeing
<1>7. CASE Arm \/ ExitValue \/ JoinTest \/ JoinDone
  <2>1. UNCHANGED <<front, flag>> /\ cpu.pc # "lock_tas" /\ cpu'.pc # "release"
    BY <1>1, <1>7 DEF Arm, ExitValue, JoinTest, JoinDone, Goto, UserCode, Continuation
  <2> QED BY <1>3, <1>5, <2>1 DEF Freeing
<1>8. CASE LockBlock \/ Wake
  <2>1. UNCHANGED <<front, flag>> /\ cpu.pc # "lock_tas" /\ cpu'.pc # "release"
    BY <1>1, <1>8 DEF LockBlock, Wake, Continuation
  <2> QED BY <1>3, <1>5, <2>1 DEF Freeing
<1>9. CASE EnqTest \/ EnqLoad \/ EnqLink \/ DeqClear \/ DeqTest \/ DeqNull
  <2>1. UNCHANGED <<front, flag>> /\ cpu.pc # "lock_tas" /\ cpu'.pc # "release"
    BY <1>1, <1>9 DEF EnqTest, EnqLoad, EnqLink, DeqClear, DeqTest, DeqNull, Goto, Continuation
  <2> QED BY <1>3, <1>5, <2>1 DEF Freeing
<1>10. CASE TestAndSet
  <2>1. /\ front' = front /\ cpu.pc = "lock_tas" /\ cpu'.pc \in {"user", "lock_block"}
        /\ flag' = [flag EXCEPT ![cpu.arg] = 1]
    BY <1>1, <1>10 DEF TestAndSet, Goto, UserCode, Continuation
  <2>2. cpu.arg # m /\ flag[m] = 0 BY <1>1, <1>3, <2>1 DEF Freeing
  <2> QED BY <1>3, <1>5, <2>1, <2>2 DEF Freeing
<1>11. CASE UnlockTest
  <2>1. /\ UNCHANGED <<front, flag>> /\ cpu.pc = "unlock"
        /\ cpu'.pc = "release" => front[cpu'.arg] = NULL
    BY <1>1, <1>11 DEF UnlockTest, Goto, Continuation
  <2> QED BY <1>3, <1>5, <2>1 DEF Freeing
<1>12. CASE Release
  <2>1. /\ front' = front /\ cpu.pc = "release" /\ cpu'.pc = "user"
        /\ flag' = [flag EXCEPT ![cpu.arg] = 0]
    BY <1>1, <1>12 DEF Release, UserCode
  <2>2. Freeing(m) BY <1>1, <1>3, <2>1 DEF Freeing
  <2> QED BY <1>3, <1>5, <2>1, <2>2
<1>13. CASE EnqFront
  <2>1. /\ cpu.pc = "enq_front" /\ cpu'.pc = "enq_rear" /\ flag' = flag
        /\ front' = [front EXCEPT ![cpu.q] = cpu.thr]
    BY <1>1, <1>13 DEF EnqFront, Goto, Continuation
  <2>2. flag[m] = 0 BY <1>3, <2>1 DEF Freeing
  <2>3. m # cpu.q
    <3>1. cpu.op = "lock" => cpu.q = cpu.arg /\ flag[cpu.arg] = 1
      BY <1>1, <2>1 DEF CarryOK, EnqLabels
    <3>2. cpu.op # "lock" => cpu.q \in Levels
      BY <1>1, <2>1 DEF CarryOK, EnqLabels, IInv, CallOK
    <3> QED BY <1>1, <2>2, <3>1, <3>2
  <2> QED BY <1>1, <1>3, <1>5, <2>1, <2>2, <2>3 DEF Freeing
<1>14. CASE DeqAdvance
  <2>1. /\ cpu.pc = "deq_adv" /\ cpu'.pc = "deq_clear" /\ flag' = flag
        /\ front' = [front EXCEPT ![cpu.arg] = next[front[cpu.arg]]]
    BY <1>1, <1>14 DEF DeqAdvance, Goto, Continuation
  <2>2. front[cpu.arg] # NULL
    <3>1. cpu.thr = front[cpu.arg] /\ cpu.thr \in Threads
      BY <1>1, <2>1 DEF CarryOK, IInv, CallOK, DeqLabels
    <3> QED BY <3>1, ThreadAssumption
  <2> QED BY <1>1, <1>3, <1>5, <2>1, <2>2 DEF Freeing
<1>15. CASE EnqRear
  <2>1. /\ cpu.pc = "enq_rear" /\ UNCHANGED <<front, flag, state>>
        /\ cpu'.pc = "release" => cpu.op = "unlock" /\ cpu'.arg = cpu.arg
    BY <1>1, <1>15 DEF EnqRear, AfterEnqueue, UserCode, Continuation
  <2>2. CASE flag[m] = 0 BY <1>3, <1>5, <2>1, <2>2 DEF Freeing
  <2>3. CASE cpu'.pc = "release" /\ cpu'.arg = m
    <3>1. /\ cpu.op = "unlock" /\ cpu.arg = m /\ cpu.thr \in Threads /\ cpu.thr # cpu.me
          /\ state[cpu.thr] = "QUEUED" /\ Waits(cpu.thr, m)
      BY <1>1, <2>1, <2>3 DEF CarryOK, EnqLabels, IInv, CallOK
    <3>2. PICK t \in Threads : t = cpu.thr BY <3>1
    <3>3. CodeOf(t) = ctx[t] BY <3>1, <3>2 DEF CodeOf
    <3>4. CodeOf(t).pc \in SchedLabels \cup {"lock_tas"}
      BY <1>1, <3>1, <3>2, <3>3
         DEF MaskOK, Waits, InBody, Body, Critical
    <3>5. Awake(t, m) BY <3>1, <3>2, <3>4 DEF Awake
    <3> QED BY <1>4, <3>1, <3>2, <3>5
  <2> QED BY <1>3, <2>1, <2>2, <2>3 DEF Freeing
<1> QED
  BY <1>6, <1>7, <1>8, <1>9, <1>10, <1>11, <1>12, <1>13, <1>14, <1>15 DEF Returning

\* The client's calls and the library's statements keep the invariant.
LEMMA LocalStep ==
  ASSUME NEW w, NEW p, Before(w, p), Calling \/ Returning
  PROVE  \E w2, p2 : QueueInv(w2, p2)'
<1> DEFINE w2 == [t \in Threads |->
             IF t = cpu.thr /\ cpu.pc \in {"enq_front", "enq_link"} THEN cpu.q
             ELSE IF t = cpu.thr /\ cpu.pc = "deq_adv" THEN NULL ELSE w[t]]
<1>1. LocalMove(w, w2)
  <2>1. w \in [Threads -> Queues \cup {NULL}] /\ cpu.q \in Queues \cup {NULL}
    BY Typed DEF Before, QueueInv, Continuation
  <2> QED BY <2>1 DEF LocalMove
<1> HIDE DEF w2
<1>2. PICK v : LocalMove(w, v) BY <1>1
<1>3. PICK p2 \in [Threads -> Nat] : Lists(front, Ends, Links, v, p2)'
  BY <1>2, ListsLocal
<1>4. CarryOK(v)' /\ Placed(v)' BY <1>2, CarryLocal, PlacedLocal
<1>5. HolderOK' /\ FreedOK' /\ WakeOK' BY HolderLocal, FreedLocal, WakeLocal
<1>6. cpu'.me = cpu.me /\ cpu'.irq = "none" /\ cpu'.pc \notin InsideLabels
  BY StaysLocal DEF Before
<1>7. CurrentOK' BY <1>6, CurrentLocal
<1>8. MaskOK'
  <2>1. cpu.pc = "enq_load" => rear[cpu.q] # NULL
    BY DEF Before, QueueInv, CarryOK, EnqLabels
  <2> QED BY <2>1, MaskCall, MaskReturn DEF Before, QueueInv
<1>9. WalkOK(v)' BY <1>6 DEF WalkOK, SchedAt, InHandler, InsideLabels, SchedLabels
<1>10. v \in [Threads -> Queues \cup {NULL}] BY <1>2 DEF LocalMove
<1> QED BY <1>3, <1>4, <1>5, <1>7, <1>8, <1>9, <1>10 DEF QueueInv

----------------------------------------------------------------------------
(* The steps inside schedule().                                            *)

\* schedule() never runs on top of a half-done update of a queue.
LEMMA InsideState ==
  ASSUME NEW w, NEW p, Before(w, p), NEW k \in SchedLabels, SchedAt(k)
  PROVE  /\ cpu.pc \notin EnqLabels \cup DeqLabels \cup {"release"}
         /\ cpu.op = "lock" => cpu.pc \in SchedLabels \cup {"lock_tas"}
         /\ \A t \in Threads : ~Carried(t)
         /\ \A q \in Queues : Ends[q] = rear[q]
         /\ \A t \in Threads : Links[t] = next[t]
         /\ currentThread \in Threads
         /\ ~Switching => cpu.me = currentThread
<1>1. cpu \in Continuation /\ InBody(cpu) /\ MaskOK /\ CarryOK(w) /\ IInv
  BY Typed DEF Before, QueueInv, MaskOK
<1>2. cpu.pc \notin EnqLabels \cup DeqLabels \cup {"release"}
  <2>1. CASE InHandler BY <1>1, <2>1 DEF MaskOK, Critical
  <2>2. CASE ~InHandler
    BY <2>2 DEF SchedAt, SchedLabels, EnqLabels, DeqLabels
  <2> QED BY <2>1, <2>2
<1>3. cpu.op = "lock" => cpu.pc \in SchedLabels \cup {"lock_tas"}
  <2>1. CASE InHandler BY <1>1, <2>1, HandlerCalls DEF SchedLabels
  <2>2. CASE ~InHandler BY <2>2 DEF SchedAt
  <2> QED BY <2>1, <2>2
<1>5. \A t \in Threads : ~Carried(t) BY <1>2 DEF Carried, CarryLabels
<1>6. cpu.pc \notin {"enq_rear", "deq_clear", "deq_test", "deq_null"}
  BY <1>2 DEF EnqLabels, DeqLabels
<1>7. \A q \in Queues : Ends[q] = rear[q] BY <1>6 DEF Ends
<1>8. \A t \in Threads : Links[t] = next[t] BY <1>6 DEF Links
<1>9. currentThread \in Threads
  BY <1>1, CurrentThread DEF SchedAt, SchedLabels
<1>10. ~Switching => cpu.me = currentThread
  BY <1>1, <1>9, ThreadAssumption DEF IInv, ContextOwner
<1> QED BY <1>2, <1>3, <1>5, <1>7, <1>8, <1>9, <1>10

\* What a step inside schedule() leaves of the threads' code.
LEMMA InsideCode ==
  ASSUME NEW w, NEW p, Before(w, p), NEW k \in SchedLabels, NEW l \in SchedLabels,
         InsideFrom(k, l)
  PROVE  /\ MaskOK' /\ HolderOK' /\ SchedAt(k)
         /\ \A t \in Threads :
              /\ \A m : Waits(t, m)' <=> Waits(t, m)
              /\ CodeOf(t)' = CodeOf(t) \/ t = cpu.me
         /\ \A t \in Threads : ~Carried(t)'
         /\ \A q \in Queues : Ends'[q] = rear'[q]
         /\ \A t \in Threads : Links'[t] = next'[t]
         /\ cpu'.pc # "release" /\ cpu'.me = cpu.me /\ ctx' = ctx /\ flag' = flag
<1>1. MaskOK /\ HolderOK /\ IInv BY DEF Before, QueueInv
<1>2. /\ SchedAt(k) /\ SchedAt(l)' /\ ctx' = ctx /\ flag' = flag
      /\ cpu'.me = cpu.me /\ cpu'.held = cpu.held /\ cpu'.op = cpu.op
      /\ cpu'.arg = cpu.arg
      /\ IF InHandler THEN cpu'.pc = cpu.pc /\ cpu'.irq = l
                      ELSE cpu'.pc = l /\ cpu'.irq = cpu.irq
  BY DEF InsideFrom
<1>3. MaskOK' BY <1>1, <1>2, MaskInside
<1>4. cpu'.pc \notin EnqLabels \cup DeqLabels \cup {"release"}
  <2>1. CASE InHandler BY <1>2, <2>1, InsideState
  <2>2. CASE ~InHandler BY <1>2, <2>2 DEF SchedLabels, EnqLabels, DeqLabels
  <2> QED BY <2>1, <2>2
<1>5. \A t \in Threads :
        /\ t = cpu.me => CodeOf(t) = cpu /\ CodeOf(t)' = cpu'
        /\ t # cpu.me => CodeOf(t)' = CodeOf(t)
  BY <1>2 DEF CodeOf
<1>6. HolderOK'
  <2>1. \A t \in Threads : (CodeOf(t)').held = CodeOf(t).held BY <1>2, <1>5
  <2>2. ASSUME NEW m \in Mutexes, flag'[m] = 1
        PROVE  \E t \in Threads : m \in (CodeOf(t)').held
    <3>1. PICK t \in Threads : m \in CodeOf(t).held BY <1>1, <1>2, <2>2 DEF HolderOK
    <3> QED BY <2>1, <3>1
  <2> QED BY <2>2 DEF HolderOK
<1>7. \A t \in Threads : \A m : Waits(t, m)' <=> Waits(t, m)
  BY <1>2, <1>5 DEF Waits
<1>8. \A t \in Threads : ~Carried(t)' BY <1>4 DEF Carried, CarryLabels
<1>9. cpu'.pc \notin {"enq_rear", "deq_clear", "deq_test", "deq_null"}
  BY <1>4 DEF EnqLabels, DeqLabels
<1>10. \A q \in Queues : Ends'[q] = rear'[q] BY <1>9 DEF Ends
<1>11. \A t \in Threads : Links'[t] = next'[t] BY <1>9 DEF Links
<1> QED BY <1>2, <1>3, <1>4, <1>5, <1>6, <1>7, <1>8, <1>10, <1>11

\* Inside schedule() no call has a thread in hand.
LEMMA CarryInside ==
  ASSUME NEW w, NEW p, Before(w, p), NEW k \in SchedLabels, NEW l \in SchedLabels,
         InsideFrom(k, l), NEW w2
  PROVE  CarryOK(w2)'
<1>1. /\ cpu'.me = cpu.me /\ cpu'.op = cpu.op /\ SchedAt(k)
      /\ IF InHandler THEN cpu'.pc = cpu.pc ELSE cpu'.pc = l
  BY DEF InsideFrom
<1>2. /\ cpu.pc \notin EnqLabels \cup DeqLabels
      /\ cpu.op = "lock" => cpu.pc \in SchedLabels \cup {"lock_tas"}
  BY <1>1, InsideState
<1>3. cpu'.pc \notin EnqLabels \cup DeqLabels
  BY <1>1, <1>2 DEF SchedLabels, EnqLabels, DeqLabels
<1>4. cpu'.pc \notin {"enq_front", "enq_load", "enq_link", "enq_rear", "deq_adv", "deq_null"}
  BY <1>3 DEF EnqLabels, DeqLabels
<1>5. cpu'.op = "lock" => cpu'.pc # "lock_block"
  BY <1>1, <1>2 DEF SchedLabels
<1> QED BY <1>1, <1>2, <1>3, <1>4, <1>5 DEF CarryOK

\* The waiters keep the one that is awake.
LEMMA WakeInside ==
  ASSUME NEW w, NEW p, Before(w, p), NEW k \in SchedLabels, NEW l \in SchedLabels,
         InsideFrom(k, l), \A m \in Mutexes : front'[m] = front[m],
         \A t \in Threads :
           state[t] \in {"RUNNING", "QUEUED"} => state'[t] \in {"RUNNING", "QUEUED"}
  PROVE  WakeOK'
<1>1. WakeOK /\ SchedAt(k) BY DEF Before, QueueInv, InsideFrom
<1>2. /\ \A t \in Threads :
           /\ \A m : Waits(t, m)' <=> Waits(t, m)
           /\ CodeOf(t)' = CodeOf(t) \/ t = cpu.me
      /\ cpu'.pc # "release" /\ flag' = flag /\ cpu'.me = cpu.me
  BY InsideCode
<1>3. cpu'.pc = cpu.pc \/ cpu'.pc \in SchedLabels BY DEF InsideFrom
<1>4. \A t \in Threads :
        CodeOf(t).pc \in SchedLabels \cup {"lock_tas"} =>
          (CodeOf(t)').pc \in SchedLabels \cup {"lock_tas"}
  <2>1. \A t \in Threads : t = cpu.me => CodeOf(t) = cpu /\ CodeOf(t)' = cpu'
    BY <1>2 DEF CodeOf
  <2> QED BY <1>2, <1>3, <2>1
<1>5. ASSUME NEW m \in Mutexes, front'[m] # NULL, Freeing(m)'
      PROVE  \E t \in Threads : Awake(t, m)'
  <2>1. front[m] # NULL /\ Freeing(m) BY <1>2, <1>5 DEF Freeing
  <2>2. PICK t \in Threads : Awake(t, m) BY <1>1, <2>1 DEF WakeOK
  <2> QED BY <1>2, <1>4, <2>2 DEF Awake
<1> QED BY <1>5 DEF WakeOK

\* Where the threads are that keep state, queue and priority.
LEMMA PlacedInside ==
  ASSUME NEW w, NEW p, Before(w, p), NEW k \in SchedLabels, NEW l \in SchedLabels,
         InsideFrom(k, l), NEW t \in Threads, NEW w2, w2[t] = w[t],
         state'[t] = state[t], priority'[t] = priority[t],
         currentThread' = currentThread \/ state[t] \notin {"RUNNING", "YIELD", "JOINING", "NONE"}
           \/ (state[t] = "NONE" /\ t # cpu.me)
  PROVE  /\ state'[t] = "QUEUED" =>
              w2[t] = IF Carried(t)' THEN NULL ELSE priority'[t]
         /\ state'[t] = "BLOCKED" =>
              IF Carried(t)' THEN w2[t] = NULL
                             ELSE w2[t] \in Mutexes /\ Waits(t, w2[t])'
         /\ state'[t] \in {"RUNNING", "YIELD", "JOINING"} => t = currentThread'
         /\ state'[t] \notin {"QUEUED", "BLOCKED"} => w2[t] = NULL
         /\ state'[t] = "NONE" =>
              ctx'[t].held = {} /\ (t = cpu'.me => currentThread' = NULL)
<1>1. Placed(w) /\ SchedAt(k) BY DEF Before, QueueInv, InsideFrom
<1>2. /\ \A m : Waits(t, m)' <=> Waits(t, m)
      /\ ~Carried(t)' /\ cpu'.me = cpu.me /\ ctx' = ctx
  BY InsideCode
<1>3. ~Carried(t) BY <1>1, InsideState
<1> QED BY <1>1, <1>2, <1>3 DEF Placed

\* A step inside schedule() that leaves the queues and the states alone.
LEMMA InsideQuiet ==
  ASSUME NEW w, NEW p, Before(w, p), NEW k \in SchedLabels, NEW l \in SchedLabels,
         InsideFrom(k, l), UNCHANGED <<state, priority, currentThread, listVars>>,
         WalkOK(w)', CurrentOK', FreedOK'
  PROVE  QueueInv(w, p)'
<1>1. /\ w \in [Threads -> Queues \cup {NULL}] /\ p \in [Threads -> Nat] /\ IInv
      /\ Lists(front, Ends, Links, w, p) /\ SchedAt(k)
  BY DEF Before, QueueInv, InsideFrom
<1>2. Lists(front, Ends, Links, w, p)'
  <2>1. \A q \in Queues : front'[q] = front[q] /\ Ends'[q] = Ends[q]
    BY <1>1, InsideCode, InsideState
  <2>2. \A t \in Threads : Links'[t] = Links[t]
    BY <1>1, InsideCode, InsideState
  <2>3. Typing(front, Ends, Links, w, p) BY <1>1, ListsTyped
  <2> QED BY <1>1, <2>1, <2>2, <2>3, ListsNext
<1>3. Placed(w)' BY PlacedInside DEF Placed
<1>4. CarryOK(w)' BY CarryInside
<1>5. WakeOK' BY WakeInside
<1>6. MaskOK' /\ HolderOK' BY InsideCode
<1> QED BY <1>1, <1>2, <1>3, <1>4, <1>5, <1>6 DEF QueueInv

\* When no thread is ready and the current one cannot go on, those that wait
\* wait for one another.
LEMMA NoneReady ==
  ASSUME NEW w, NEW p, Before(w, p), SchedAt("switch"), ~CheckNextThread,
         CurrentIs("BLOCKED") \/ CurrentIs("EXITED")
  PROVE  /\ \A t \in Threads : state[t] # "QUEUED"
         /\ CircularWait \/ \A t \in Threads : state[t] # "BLOCKED"
<1>1. /\ w \in [Threads -> Queues \cup {NULL}]
      /\ Lists(front, Ends, Links, w, p) /\ Placed(w) /\ MaskOK
      /\ HolderOK /\ WakeOK /\ IInv /\ TInv
  BY DEF Before, QueueInv
<1>2. /\ "switch" \in SchedLabels /\ priority \in [Threads -> Levels]
      /\ NULL \notin Queues /\ Levels \subseteq Queues /\ Mutexes \subseteq Queues
      /\ flag \in [Mutexes -> {0, 1}] /\ ~Switching
      /\ state \in [Threads -> {"NONE", "QUEUED", "YIELD", "EXITED", "JOINING",
                            "BLOCKED", "RUNNING"}]
  BY <1>1, LabelSets, ThreadAssumption DEF IInv, TypeOK, Queues, Switching, SchedAt
<1>3. /\ cpu.pc # "release" /\ (\A t \in Threads : ~Carried(t))
      /\ currentThread \in Threads /\ cpu.me = currentThread
  BY <1>2, InsideState
<1>4. \A t \in Threads : state[t] # "QUEUED"
  <2>1. ASSUME NEW t \in Threads, state[t] = "QUEUED" PROVE FALSE
    <3>1. w[t] = priority[t] /\ w[t] \in Levels /\ w[t] # NULL
      BY <1>1, <1>2, <1>3, <2>1 DEF Placed
    <3>2. front[w[t]] # NULL BY <1>1, <3>1 DEF Lists
    <3> QED BY <3>1, <3>2 DEF CheckNextThread, Ready
  <2> QED BY <2>1
<1>5. \A t \in Threads : CodeOf(t) = IF t = cpu.me THEN cpu ELSE ctx[t] BY DEF CodeOf
<1>6. \A t \in Threads : CodeOf(t).op = "exit" => CodeOf(t).held = {}
  BY <1>1, <1>5 DEF MaskOK, InBody
<1>7. \A t \in Threads : state[t] = "BLOCKED" => w[t] \in Mutexes /\ Waits(t, w[t])
  BY <1>1, <1>3 DEF Placed
<1>8. \A t \in Threads : state[t] \notin {"RUNNING", "YIELD", "JOINING"}
  BY <1>1 DEF Placed, CurrentIs
<1>9. ASSUME NEW b \in Threads, state[b] = "BLOCKED" PROVE CircularWait
  <2> DEFINE Awaited ==
        {m \in Mutexes : \E u \in Threads : state[u] = "BLOCKED" /\ w[u] = m}
  <2>1. Awaited # {} /\ Awaited \in SUBSET Mutexes BY <1>7, <1>9
  <2>2. ASSUME NEW m \in Awaited
        PROVE  \E t \in Threads : /\ m \in CodeOf(t).held /\ state[t] = "BLOCKED"
                                   /\ \E l \in Awaited : Waits(t, l)
    <3>1. m \in Mutexes /\ front[m] # NULL
      <4>1. PICK u \in Threads : m \in Mutexes /\ w[u] = m BY <2>2
      <4> QED BY <1>1, <1>2, <4>1 DEF Lists
    <3>2. flag[m] = 1
      <4>1. SUFFICES ASSUME flag[m] = 0 PROVE FALSE BY <1>2, <3>1
      <4>2. PICK a \in Threads : Awake(a, m) BY <1>1, <3>1, <4>1 DEF WakeOK, Freeing
      <4> QED BY <1>4, <1>8, <4>2 DEF Awake
    <3>3. PICK h \in Threads : m \in CodeOf(h).held BY <1>1, <3>1, <3>2 DEF HolderOK
    <3>4. state[h] # "EXITED"
      <4>1. CodeOf(h).op # "exit" BY <1>6, <3>3
      <4> QED BY <1>1, <4>1 DEF TInv, ExitOK
    <3>5. state[h] # "NONE"
      <4>1. SUFFICES ASSUME state[h] = "NONE" PROVE FALSE OBVIOUS
      <4>2. h # currentThread BY <4>1 DEF CurrentIs
      <4>3. ctx[h].held = {} BY <1>1, <4>1 DEF Placed
      <4> QED BY <1>3, <1>5, <3>3, <4>2, <4>3
    <3>6. state[h] = "BLOCKED" BY <1>2, <1>4, <1>8, <3>4, <3>5
    <3>7. w[h] \in Awaited /\ Waits(h, w[h]) BY <1>7, <3>6
    <3> QED BY <3>3, <3>6, <3>7
  <2> HIDE DEF Awaited
  <2> QED BY <2>1, <2>2 DEF CircularWait
<1> QED BY <1>4, <1>9

\* What CurrentOK asks at a label before the choice of the next thread.
LEMMA CurrentInside ==
  ASSUME NEW w, NEW p, Before(w, p), NEW k \in SchedLabels,
         NEW l \in {"maint", "switch"}, InsideFrom(k, l), k \in {"sched", "maint"},
         UNCHANGED <<state, currentThread>>
  PROVE  CurrentOK'
<1>1. /\ IF InHandler THEN InHandler' /\ cpu'.irq = l ELSE ~InHandler' /\ cpu'.pc = l
      /\ SchedAt(k) /\ cpu'.op = cpu.op /\ CurrentOK
  BY DEF InsideFrom, InHandler, Before, QueueInv
<1>2. ~Switching' /\ ~SchedAt("next")' /\ ~SchedAt("keep")'
  BY <1>1 DEF Switching, SchedAt
<1>3. ~SchedAt("next") BY <1>1 DEF SchedAt
<1>4. currentThread \in Threads /\ (InHandler => cpu'.pc = cpu.pc)
  BY <1>1, InsideState DEF InsideFrom
<1> QED BY <1>1, <1>2, <1>3, <1>4, ThreadAssumption DEF CurrentOK, CurrentIs

\* Nothing runs on a freed stack before the choice of the next thread.
LEMMA FreedInside ==
  ASSUME NEW w, NEW p, Before(w, p), NEW k \in SchedLabels, NEW l \in SchedLabels,
         InsideFrom(k, l), freed' = freed,
         k \in {"next", "tail"} => l \in {"tail", "swap"}, k # "swap",
         \A t \in Threads : state[t] = "EXITED" => state'[t] = "EXITED"
  PROVE  FreedOK'
<1>1. /\ SchedAt(k) /\ SchedAt(l)' /\ cpu'.me = cpu.me /\ FreedOK
      /\ freed \subseteq Threads
  BY DEF InsideFrom, Before, QueueInv, IInv, TypeOK
<1>2. SchedAt("next") \/ Switching => k \in {"next", "tail"}
  BY <1>1 DEF SchedAt, Switching
<1>3. k \in {"next", "tail"} => Switching' BY <1>1 DEF Switching
<1> QED BY <1>1, <1>2, <1>3 DEF FreedOK

\* maintenance() starts with the front of level 1.
LEMMA SchedEnterQueues ==
  ASSUME NEW w, NEW p, Before(w, p), SchedEnter
  PROVE  QueueInv(w, p)'
<1>1. PICK l \in {"maint", "switch"} : InsideFrom("sched", l) BY InsideSteps DEF Before
<1>2. l \in SchedLabels /\ "sched" \in SchedLabels BY LabelSets
<1>3. UNCHANGED <<state, priority, currentThread, freed, listVars>> BY DEF SchedEnter
<1>4. CurrentOK' BY <1>1, <1>2, <1>3, CurrentInside
<1>5. FreedOK' BY <1>1, <1>2, <1>3, FreedInside
<1>6. WalkOK(w)'
  <2>1. SchedAt("maint")' => walk' = [i |-> 1, ptr |-> front[1], prev |-> NULL]
    BY DEF SchedEnter, SchedAt, SchedTo, InHandler, Before, IInv, TypeOK, Continuation
  <2>2. 1 \in Queues BY LevelAssumption DEF Queues, Levels
  <2>3. front[1] # NULL => w[front[1]] = 1 BY <2>2 DEF Before, QueueInv, Lists
  <2> QED BY <1>3, <2>1, <2>3 DEF WalkOK
<1> QED BY <1>1, <1>2, <1>3, <1>4, <1>5, <1>6, InsideQuiet

\* The loop of maintenance() keeps prev one thread behind ptr,
LEMMA MaintSkipQueues ==
  ASSUME NEW w, NEW p, Before(w, p), MaintSkip
  PROVE  QueueInv(w, p)'
<1>1. InsideFrom("maint", "maint") BY InsideSteps DEF Before
<1>2. "maint" \in SchedLabels BY LabelSets
<1>3. UNCHANGED <<state, priority, currentThread, freed, listVars>> BY DEF MaintSkip
<1>4. CurrentOK' BY <1>1, <1>2, <1>3, CurrentInside
<1>5. FreedOK' BY <1>1, <1>2, <1>3, FreedInside
<1>6. WalkOK(w)'
  <2>1. /\ SchedAt("maint") /\ walk.ptr \in Threads /\ walk.ptr # NULL
        /\ walk'.i = walk.i /\ walk'.prev = walk.ptr /\ walk'.ptr = next[walk.ptr]
    BY DEF MaintSkip, Before, IInv, TypeOK, ThreadOrNull
  <2>2. walk.i # 0 /\ w[walk.ptr] = walk.i BY <2>1 DEF Before, QueueInv, WalkOK
  <2>3. Links[walk.ptr] = next[walk.ptr] BY <1>2, <2>1, InsideState
  <2>4. walk.i \in Queues /\ walk.i # NULL
    BY ThreadAssumption DEF Before, IInv, TypeOK, Queues
  <2>5. next[walk.ptr] # NULL => w[next[walk.ptr]] = walk.i
    BY <2>1, <2>2, <2>3, <2>4 DEF Before, QueueInv, Lists
  <2> QED BY <1>3, <2>1, <2>2, <2>5 DEF WalkOK
<1> QED BY <1>1, <1>2, <1>3, <1>4, <1>5, <1>6, InsideQuiet

\* and starts the next level at its front.
LEMMA MaintNextLevelQueues ==
  ASSUME NEW w, NEW p, Before(w, p), MaintNextLevel
  PROVE  QueueInv(w, p)'
<1>1. PICK l \in {"maint", "switch"} : InsideFrom("maint", l) BY InsideSteps DEF Before
<1>2. l \in SchedLabels /\ "maint" \in SchedLabels BY LabelSets
<1>3. UNCHANGED <<state, priority, currentThread, freed, listVars>> BY DEF MaintNextLevel
<1>4. CurrentOK' BY <1>1, <1>2, <1>3, CurrentInside
<1>5. FreedOK' BY <1>1, <1>2, <1>3, FreedInside
<1>6. WalkOK(w)'
  <2>1. walk.i \in Levels BY DEF Before, IInv, TypeOK
  <2>2. CASE walk.i + 1 < RUN_QUEUES
    <3>1. walk' = [i |-> walk.i + 1, ptr |-> front[walk.i + 1], prev |-> NULL]
      BY <2>2 DEF MaintNextLevel
    <3>2. walk.i + 1 \in Queues /\ walk.i + 1 # 0
      BY <2>1, <2>2, LevelAssumption DEF Queues, Levels
    <3>3. front[walk.i + 1] # NULL => w[front[walk.i + 1]] = walk.i + 1
      BY <3>2 DEF Before, QueueInv, Lists
    <3> QED BY <1>3, <3>1, <3>2, <3>3 DEF WalkOK
  <2>3. CASE ~(walk.i + 1 < RUN_QUEUES)
    <3>1. SchedAt("maint") /\ cpu' = SchedTo("switch") BY <2>3 DEF MaintNextLevel
    <3>2. ~SchedAt("maint")'
      BY <3>1 DEF SchedAt, SchedTo, InHandler, Before, IInv, TypeOK, Continuation
    <3> QED BY <3>2 DEF WalkOK
  <2> QED BY <2>2, <2>3
<1> QED BY <1>1, <1>2, <1>3, <1>4, <1>5, <1>6, InsideQuiet

\* The current thread keeps the processor.
LEMMA KeepQueues ==
  ASSUME NEW w, NEW p, Before(w, p), KeepAlone \/ KeepRunning, ~Recalled
  PROVE  QueueInv(w, p)'
<1>1. InsideFrom("switch", "keep") BY InsideSteps DEF Before
<1>2. "switch" \in SchedLabels /\ "keep" \in SchedLabels /\ SchedAt("switch")
  BY LabelSets DEF KeepAlone, KeepRunning
<1>3. UNCHANGED <<state, priority, currentThread, freed, listVars>>
  BY DEF KeepAlone, KeepRunning
<1>4. IF InHandler THEN InHandler' /\ cpu'.irq = "keep" ELSE ~InHandler' /\ cpu'.pc = "keep"
  BY <1>1 DEF InsideFrom, InHandler
<1>5. ~Switching' /\ ~SchedAt("next")' /\ ~SchedAt("maint")'
  BY <1>4 DEF Switching, SchedAt
<1>6. CurrentOK'
  <2>1. ~SchedAt("next") /\ CurrentOK /\ currentThread \in Threads
    BY <1>2, InsideState DEF SchedAt, Before, QueueInv
  <2>2. state[currentThread] # "BLOCKED"
    <3>1. CASE KeepAlone
      <4>1. ~CheckNextThread BY <3>1 DEF KeepAlone
      <4> QED BY <1>2, <4>1 DEF Recalled, CurrentIs
    <3>2. CASE KeepRunning BY <3>2 DEF KeepRunning, CurrentIs
    <3> QED BY <3>1, <3>2
  <2> QED BY <1>3, <1>5, <2>1, <2>2, ThreadAssumption DEF CurrentOK, CurrentIs
<1>7. FreedOK' BY <1>1, <1>2, <1>3, FreedInside
<1>8. WalkOK(w)' BY <1>5 DEF WalkOK
<1> QED BY <1>1, <1>2, <1>3, <1>6, <1>7, <1>8, InsideQuiet

\* The current thread goes, to no run queue.
LEMMA ReapQueues ==
  ASSUME NEW w, NEW p, Before(w, p), Reap \/ Block
  PROVE  QueueInv(w, p)'
<1>1. InsideFrom("switch", "next") BY InsideSteps DEF Before
<1>2. "switch" \in SchedLabels /\ "next" \in SchedLabels /\ SchedAt("switch")
  BY LabelSets DEF Reap, Block
<1>3. /\ UNCHANGED <<state, priority, currentThread, listVars>>
      /\ state[currentThread] \in {"EXITED", "BLOCKED"}
      /\ freed' = freed \/ (freed' = freed \cup {currentThread}
                            /\ state[currentThread] = "EXITED")
  BY DEF Reap, Block, CurrentIs
<1>4. IF InHandler THEN InHandler' /\ cpu'.irq = "next" ELSE ~InHandler' /\ cpu'.pc = "next"
  BY <1>1 DEF InsideFrom, InHandler
<1>5. ~Switching' /\ SchedAt("next")' /\ ~SchedAt("maint")'
  BY <1>4 DEF Switching, SchedAt
<1>6. CurrentOK' BY <1>3, <1>5 DEF CurrentOK, CurrentIs
<1>7. FreedOK' BY <1>3, <1>5 DEF Before, QueueInv, FreedOK
<1>8. WalkOK(w)' BY <1>5 DEF WalkOK
<1> QED BY <1>1, <1>2, <1>3, <1>6, <1>7, <1>8, InsideQuiet

\* inScheduler is cleared before swapcontext().
LEMMA SwapTailQueues ==
  ASSUME NEW w, NEW p, Before(w, p), SwapTail
  PROVE  QueueInv(w, p)'
<1>1. InsideFrom("tail", "swap") BY InsideSteps DEF Before
<1>2. "tail" \in SchedLabels /\ "swap" \in SchedLabels /\ SchedAt("tail")
  BY LabelSets DEF SwapTail
<1>3. UNCHANGED <<state, priority, currentThread, freed, listVars>> BY DEF SwapTail
<1>4. IF InHandler THEN InHandler' /\ cpu'.irq = "swap" ELSE ~InHandler' /\ cpu'.pc = "swap"
  BY <1>1 DEF InsideFrom, InHandler
<1>5. Switching' /\ ~SchedAt("next")' /\ ~SchedAt("maint")'
  BY <1>4 DEF Switching, SchedAt
<1>6. CurrentOK'
  <2>1. CurrentOK /\ Switching BY <1>2 DEF Before, QueueInv, Switching
  <2> QED BY <1>3, <1>5, <2>1 DEF CurrentOK, CurrentIs
<1>7. FreedOK' BY <1>1, <1>2, <1>3, FreedInside
<1>8. WalkOK(w)' BY <1>5 DEF WalkOK
<1> QED BY <1>1, <1>2, <1>3, <1>6, <1>7, <1>8, InsideQuiet

\* schedule() returns to the thread that called it.
LEMMA ReturnQueues ==
  ASSUME NEW w, NEW p, Before(w, p), AllFinished \/ Keep
  PROVE  QueueInv(w, p)'
<1>1. PICK k \in {"switch", "keep"} : SchedAt(k) BY DEF AllFinished, Keep
<1>2. /\ k \in SchedLabels /\ cpu' = AfterSchedule
      /\ UNCHANGED <<threadVars, listVars, schedPtrs, walk, machine>>
  BY <1>1, LabelSets DEF AllFinished, Keep
<1>3. /\ w \in [Threads -> Queues \cup {NULL}] /\ p \in [Threads -> Nat] /\ IInv
      /\ Lists(front, Ends, Links, w, p) /\ Placed(w) /\ MaskOK /\ CurrentOK
      /\ HolderOK /\ WakeOK /\ FreedOK /\ TInv
  BY DEF Before, QueueInv
<1>4. /\ cpu.pc \notin EnqLabels \cup DeqLabels \cup {"release"}
      /\ \A t \in Threads : ~Carried(t)
      /\ \A q \in Queues : Ends[q] = rear[q]
      /\ \A t \in Threads : Links[t] = next[t]
      /\ currentThread \in Threads /\ currentThread # NULL
      /\ ~Switching /\ cpu.me = currentThread
  <2>1. ~Switching BY <1>1 DEF Switching, SchedAt
  <2> QED BY <1>1, <1>2, <2>1, InsideState, ThreadAssumption
<1>5. state[currentThread] \in {"RUNNING", "YIELD", "JOINING", "EXITED"}
  <2>1. CASE AllFinished BY <2>1 DEF AllFinished, CurrentIs
  <2>2. CASE Keep
    <3>1. SchedAt("keep") /\ ~SchedAt("next") BY <2>2 DEF Keep, SchedAt
    <3> QED BY <1>3, <1>4, <3>1 DEF CurrentOK, CurrentIs, SchedAt, EnqLabels
  <2> QED BY <2>1, <2>2
<1>6. /\ InBody(AfterSchedule) /\ AfterSchedule.irq = "none"
      /\ AfterSchedule.me = cpu.me /\ AfterSchedule.held = cpu.held
      /\ AfterSchedule.op \in {"none", cpu.op}
      /\ AfterSchedule.pc \notin Critical /\ AfterSchedule.pc \notin InsideLabels
      /\ AfterSchedule.pc # "arm"
      /\ AfterSchedule.op = "lock" => AfterSchedule.pc \in SchedLabels \cup {"lock_tas"}
      /\ cpu.op = "lock" => AfterSchedule.op = cpu.op /\ AfterSchedule.arg = cpu.arg
  BY <1>1, <1>2, <1>3, MaskAfter, AfterFields DEF SchedLabels
<1>7. ~InHandler' /\ ~Switching' /\ ~SchedAt("next")' /\ ~SchedAt("maint")'
  BY <1>2, <1>6 DEF InHandler, Switching, SchedAt, InsideLabels, SchedLabels
<1>8. MaskOK' BY <1>2, <1>3, <1>6, <1>7 DEF MaskOK
<1>9. \A t \in Threads :
        /\ t = cpu.me => CodeOf(t) = cpu /\ CodeOf(t)' = AfterSchedule
        /\ t # cpu.me => CodeOf(t)' = CodeOf(t)
  BY <1>2, <1>6 DEF CodeOf
<1>10. HolderOK'
  <2>1. \A t \in Threads : (CodeOf(t)').held = CodeOf(t).held BY <1>6, <1>9
  <2>2. ASSUME NEW m \in Mutexes, flag'[m] = 1
        PROVE  \E t \in Threads : m \in (CodeOf(t)').held
    <3>1. PICK t \in Threads : m \in CodeOf(t).held BY <1>2, <1>3, <2>2 DEF HolderOK
    <3> QED BY <2>1, <3>1
  <2> QED BY <2>2 DEF HolderOK
<1>11. WakeOK'
  <2>1. ASSUME NEW m \in Mutexes, front'[m] # NULL, Freeing(m)'
        PROVE  \E t \in Threads : Awake(t, m)'
    <3>1. front[m] # NULL /\ Freeing(m) BY <1>2, <1>6, <2>1 DEF Freeing, Critical
    <3>2. PICK t \in Threads : Awake(t, m) BY <1>3, <3>1 DEF WakeOK
    <3>3. Waits(t, m)' BY <1>6, <1>9, <3>2 DEF Awake, Waits
    <3>4. (CodeOf(t)').pc \in SchedLabels \cup {"lock_tas"}
      BY <1>6, <1>9, <3>2, <3>3 DEF Awake, Waits
    <3> QED BY <1>2, <3>2, <3>3, <3>4 DEF Awake
  <2> QED BY <2>1 DEF WakeOK
<1>12. CarryOK(w)'
  <2>1. cpu'.pc \notin {"enq_front", "enq_load", "enq_link", "enq_rear", "deq_adv", "deq_null"}
    BY <1>2, <1>6 DEF Critical, EnqLabels, DeqLabels
  <2> QED BY <1>2, <1>6, <2>1 DEF CarryOK, Critical
<1>13. \A t \in Threads : ~Carried(t)' BY <1>2, <1>6 DEF Carried, CarryLabels, Critical
<1>14. Placed(w)'
  <2>1. ASSUME NEW t \in Threads, state[t] = "BLOCKED" PROVE Waits(t, w[t])'
    <3>1. Waits(t, w[t]) BY <1>3, <1>4, <2>1 DEF Placed
    <3>2. t # cpu.me BY <1>4, <1>5, <2>1
    <3> QED BY <1>9, <3>1, <3>2 DEF Waits
  <2> QED BY <1>2, <1>3, <1>4, <1>6, <1>13, <2>1 DEF Placed
<1>15. CurrentOK' BY <1>2, <1>5, <1>7 DEF CurrentOK, CurrentIs
<1>16. FreedOK'
  <2>1. ~SchedAt("next") BY <1>1 DEF SchedAt
  <2> QED BY <1>2, <1>3, <1>4, <1>6, <2>1 DEF FreedOK
<1>17. WalkOK(w)' BY <1>7 DEF WalkOK
<1>18. Lists(front, Ends, Links, w, p)'
  <2>1. cpu'.pc \notin {"enq_rear", "deq_clear", "deq_test", "deq_null"}
    BY <1>2, <1>6 DEF Critical, EnqLabels, DeqLabels
  <2>2. \A q \in Queues : front'[q] = front[q] /\ Ends'[q] = Ends[q]
    BY <1>2, <1>4, <2>1 DEF Ends
  <2>3. \A t \in Threads : Links'[t] = Links[t] BY <1>2, <1>4, <2>1 DEF Links
  <2>4. Typing(front, Ends, Links, w, p) BY <1>3, ListsTyped
  <2> QED BY <1>3, <2>2, <2>3, <2>4, ListsNext
<1> QED
  BY <1>3, <1>8, <1>10, <1>11, <1>12, <1>14, <1>15, <1>16, <1>17, <1>18 DEF QueueInv

\* swapcontext() resumes the thread that has been chosen.
LEMMA SwapQueues ==
  ASSUME NEW w, NEW p, Before(w, p), Swap
  PROVE  QueueInv(w, p)'
<1>1. /\ w \in [Threads -> Queues \cup {NULL}] /\ p \in [Threads -> Nat] /\ IInv
      /\ Lists(front, Ends, Links, w, p) /\ Placed(w) /\ MaskOK /\ CurrentOK
      /\ HolderOK /\ WakeOK /\ FreedOK /\ ~SlowTail /\ cpu.me \in Threads
      /\ UNCHANGED <<threadVars, listVars, schedVars, flag>>
  BY Typed DEF Before, QueueInv, Swap
<1>2. /\ cpu'.me = currentThread /\ ~InHandler' /\ cpu'.pc \notin InsideLabels
      /\ currentThread \in Threads /\ SchedAt("swap") /\ "swap" \in SchedLabels
      /\ \A t \in Threads :
           CodeOf(t)' = IF t = cpu.me THEN AfterSchedule ELSE CodeOf(t)
  BY <1>1, SwapCode, LabelSets
<1>3. /\ cpu.pc \notin EnqLabels \cup DeqLabels \cup {"release"}
      /\ \A t \in Threads : ~Carried(t)
      /\ \A q \in Queues : Ends[q] = rear[q]
      /\ \A t \in Threads : Links[t] = next[t]
  BY <1>2, InsideState
<1>4. CurrentIs("RUNNING") /\ currentThread # NULL
  BY <1>1, <1>2, ThreadAssumption DEF CurrentOK, Switching
<1>5. /\ InBody(AfterSchedule) /\ AfterSchedule.held = cpu.held
      /\ AfterSchedule.op # "create" /\ AfterSchedule.pc \notin Critical \cup {"arm"}
      /\ AfterSchedule.op = "lock" => AfterSchedule.pc \in SchedLabels \cup {"lock_tas"}
      /\ cpu.op = "lock" => AfterSchedule.op = cpu.op /\ AfterSchedule.arg = cpu.arg
  BY <1>1, <1>2, MaskAfter DEF SchedLabels
<1>6. \A t \in Threads :
        /\ InBody(CodeOf(t)') /\ (CodeOf(t)').op # "create"
        /\ (CodeOf(t)').pc \notin Critical \cup {"arm"}
        /\ (CodeOf(t)').held = CodeOf(t).held
  <2>1. \A t \in Threads : t # cpu.me => ctx[t].pc # "arm"
    BY <1>1, Typed, BodyOps DEF MaskOK
  <2> QED BY <1>1, <1>2, <1>5, <2>1 DEF MaskOK, CodeOf
<1>7. \A t \in Threads :
        /\ t = currentThread => cpu' = CodeOf(t)'
        /\ t # currentThread => ctx'[t] = CodeOf(t)'
  BY <1>2 DEF CodeOf
<1>8. ~Switching' /\ ~SchedAt("next")' /\ ~SchedAt("maint")'
  BY <1>2 DEF Switching, SchedAt, InsideLabels, SchedLabels
<1>9. MaskOK' BY <1>2, <1>6, <1>7 DEF MaskOK
<1>10. cpu'.pc \notin Critical BY <1>2, <1>6, <1>7
<1>11. HolderOK'
  <2>1. ASSUME NEW m \in Mutexes, flag'[m] = 1
        PROVE  \E t \in Threads : m \in (CodeOf(t)').held
    <3>1. PICK t \in Threads : m \in CodeOf(t).held BY <1>1, <2>1 DEF HolderOK
    <3> QED BY <1>6, <3>1
  <2> QED BY <2>1 DEF HolderOK
<1>12. WakeOK'
  <2>1. ASSUME NEW m \in Mutexes, front'[m] # NULL, Freeing(m)'
        PROVE  \E t \in Threads : Awake(t, m)'
    <3>1. front[m] # NULL /\ Freeing(m) BY <1>1, <1>10, <2>1 DEF Freeing, Critical
    <3>2. PICK t \in Threads : Awake(t, m) BY <1>1, <3>1 DEF WakeOK
    <3>3. CASE t = cpu.me
      <4>1. CodeOf(t) = cpu /\ CodeOf(t)' = AfterSchedule BY <1>2, <3>3 DEF CodeOf
      <4>2. Waits(t, m)' /\ (CodeOf(t)').pc \in SchedLabels \cup {"lock_tas"}
        BY <1>5, <3>2, <4>1 DEF Awake, Waits
      <4> QED BY <1>1, <3>2, <4>2 DEF Awake
    <3>4. CASE t # cpu.me BY <1>1, <1>2, <3>2, <3>4 DEF Awake, Waits
    <3> QED BY <3>3, <3>4
  <2> QED BY <2>1 DEF WakeOK
<1>13. CarryOK(w)'
  <2>1. cpu'.pc \notin {"enq_front", "enq_load", "enq_link", "enq_rear", "deq_adv", "deq_null"}
    BY <1>10 DEF Critical, EnqLabels, DeqLabels
  <2> QED BY <1>10, <2>1 DEF CarryOK, Critical
<1>14. \A t \in Threads : ~Carried(t)' BY <1>10 DEF Carried, CarryLabels, Critical
<1>15. Placed(w)'
  <2>1. ASSUME NEW t \in Threads, state[t] = "BLOCKED" PROVE Waits(t, w[t])'
    <3>1. Waits(t, w[t]) BY <1>1, <1>3, <2>1 DEF Placed
    <3>2. CASE t = cpu.me
      <4>1. CodeOf(t) = cpu BY <3>2 DEF CodeOf
      <4> QED BY <1>2, <1>5, <3>1, <3>2, <4>1 DEF Waits
    <3>3. CASE t # cpu.me BY <1>2, <3>1, <3>3 DEF Waits
    <3> QED BY <3>2, <3>3
  <2>2. ASSUME NEW t \in Threads, state[t] = "NONE"
        PROVE  ctx'[t].held = {} /\ t # currentThread
    <3>1. t # currentThread /\ t # cpu.me /\ ctx[t].held = {}
      BY <1>1, <1>4, <2>2 DEF Placed, CurrentIs
    <3>2. ctx'[t] = ctx[t] BY <1>2, <1>7, <3>1 DEF CodeOf
    <3> QED BY <3>1, <3>2
  <2> QED BY <1>1, <1>2, <1>3, <1>14, <2>1, <2>2 DEF Placed
<1>16. CurrentOK' BY <1>1, <1>4, <1>8 DEF CurrentOK, CurrentIs
<1>17. FreedOK' BY <1>1, <1>2, <1>4 DEF FreedOK, CurrentIs
<1>18. WalkOK(w)' BY <1>8 DEF WalkOK
<1>19. Lists(front, Ends, Links, w, p)'
  <2>1. cpu'.pc \notin {"enq_rear", "deq_clear", "deq_test", "deq_null"}
    BY <1>10 DEF Critical, EnqLabels, DeqLabels
  <2>2. \A q \in Queues : front'[q] = front[q] /\ Ends'[q] = Ends[q]
    BY <1>1, <1>3, <2>1 DEF Ends
  <2>3. \A t \in Threads : Links'[t] = Links[t] BY <1>1, <1>3, <2>1 DEF Links
  <2>4. Typing(front, Ends, Links, w, p) BY <1>1, ListsTyped
  <2> QED BY <1>1, <2>2, <2>3, <2>4, ListsNext
<1> QED
  BY <1>1, <1>9, <1>11, <1>12, <1>13, <1>15, <1>16, <1>17, <1>18, <1>19 DEF QueueInv

\* A step that leaves all the invariant speaks of as it is.
LEMMA SameQueues ==
  ASSUME NEW w, NEW p, Before(w, p),
         UNCHANGED <<state, priority, listVars, flag, currentThread, walk, freed, cpu, ctx,
                     firstCall>>
  PROVE  QueueInv(w, p)'
<1>1. QueueInv(w, p) BY DEF Before
<1>2. Ends' = Ends /\ Links' = Links BY DEF Ends, Links
<1>3. Lists(front, Ends, Links, w, p)' BY <1>1, <1>2 DEF QueueInv, Lists
<1>4. \A t \in Threads : CodeOf(t)' = CodeOf(t) /\ (Carried(t)' <=> Carried(t))
  BY DEF CodeOf, Carried
<1>5. Placed(w)' BY <1>1, <1>4 DEF QueueInv, Placed, Waits
<1>6. CurrentOK' BY <1>1 DEF QueueInv, CurrentOK, CurrentIs, Switching, SchedAt, InHandler
<1>7. MaskOK' BY <1>1 DEF QueueInv, MaskOK, InHandler
<1>8. CarryOK(w)' BY <1>1 DEF QueueInv, CarryOK, CurrentIs, Waits, CodeOf
<1>9. HolderOK' BY <1>1, <1>4 DEF QueueInv, HolderOK
<1>10. WakeOK' BY <1>1, <1>4 DEF QueueInv, WakeOK, Awake, Waits, Freeing
<1>11. WalkOK(w)' BY <1>1 DEF QueueInv, WalkOK, SchedAt, InHandler
<1>12. FreedOK'
  BY <1>1 DEF QueueInv, FreedOK, Switching, SchedAt, InHandler
<1> QED
  BY <1>1, <1>3, <1>5, <1>6, <1>7, <1>8, <1>9, <1>10, <1>11, <1>12 DEF QueueInv

\* A tick that does not tear an update.
LEMMA SignalQueues ==
  ASSUME NEW w, NEW p, Before(w, p), Signal, ~TearingTick
  PROVE  QueueInv(w, p)'
<1>1. UNCHANGED <<state, priority, listVars, flag, currentThread, walk, freed, ctx,
                  firstCall>>
  BY DEF Signal
<1>2. CASE inScheduler = 1
  <2>1. cpu' = cpu BY <1>2 DEF Signal
  <2> QED BY <1>1, <2>1, SameQueues
<1>3. CASE inScheduler # 1
  <2>1. /\ QueueInv(w, p) /\ cpu \in Continuation /\ IInv /\ MaskOK /\ InBody(cpu)
        /\ cpu.me \in Threads /\ w \in [Threads -> Queues \cup {NULL}]
        /\ p \in [Threads -> Nat]
    BY Typed DEF Before, QueueInv, MaskOK
  <2>2. /\ cpu'.irq = "sched" /\ cpu'.pc = cpu.pc /\ cpu'.op = cpu.op /\ cpu'.arg = cpu.arg
        /\ cpu'.thr = cpu.thr /\ cpu'.q = cpu.q /\ cpu'.me = cpu.me /\ cpu'.held = cpu.held
        /\ cpu'.reg = cpu.reg
    BY <1>3, <2>1 DEF Signal, Continuation
  <2>3. ~InHandler /\ cpu.pc \notin {"keep", "tail", "swap"}
    BY DEF Signal, Deliverable, Before
  <2>4. cpu.pc \notin Critical /\ cpu.pc # "arm"
    <3>1. InHandler' BY <2>2 DEF InHandler
    <3>2. ~firstCall BY <2>1 DEF Signal, Deliverable, IInv, BeforeTimer
    <3> QED BY <2>1, <3>1, <3>2 DEF TearingTick, MaskOK
  <2>5. /\ InHandler' /\ ~Switching /\ ~Switching' /\ ~SchedAt("next")' /\ ~SchedAt("maint")'
        /\ ~SchedAt("next") /\ ~SchedAt("keep")'
    BY <1>3, <2>1, <2>2, <2>3 DEF InHandler, Switching, SchedAt, IInv, ScheduleOK
  <2>6. Ends' = Ends /\ Links' = Links BY <1>1, <2>2 DEF Ends, Links
  <2>7. Lists(front, Ends, Links, w, p)' BY <1>1, <2>1, <2>6 DEF QueueInv, Lists
  <2>8. \A t \in Threads :
          /\ (CodeOf(t)').op = CodeOf(t).op /\ (CodeOf(t)').arg = CodeOf(t).arg
          /\ (CodeOf(t)').pc = CodeOf(t).pc /\ (CodeOf(t)').held = CodeOf(t).held
          /\ Carried(t)' <=> Carried(t)
    BY <1>1, <2>2 DEF CodeOf, Carried
  <2>9. \A t \in Threads : \A m : Waits(t, m)' <=> Waits(t, m) BY <2>8 DEF Waits
  <2>10. Placed(w)' BY <1>1, <2>1, <2>2, <2>8, <2>9 DEF QueueInv, Placed
  <2>11. CurrentOK'
    BY <1>1, <2>1, <2>2, <2>4, <2>5 DEF QueueInv, CurrentOK, CurrentIs, Critical
  <2>12. MaskOK' BY <1>1, <2>1, <2>2, <2>4 DEF MaskOK, InBody
  <2>13. CarryOK(w)'
    <3>1. cpu.pc \notin EnqLabels \cup DeqLabels BY <2>4 DEF Critical
    <3>2. cpu.pc \notin {"enq_front", "enq_load", "enq_link", "enq_rear", "deq_adv", "deq_null"}
      BY <3>1 DEF EnqLabels, DeqLabels
    <3> QED BY <2>2, <2>4, <3>1, <3>2 DEF CarryOK, Critical
  <2>14. HolderOK' BY <1>1, <2>1, <2>8 DEF QueueInv, HolderOK
  <2>15. WakeOK'
    <3>1. \A m \in Mutexes : Freeing(m)' <=> Freeing(m) BY <1>1, <2>2 DEF Freeing
    <3>2. \A t \in Threads : \A m : Awake(t, m)' <=> Awake(t, m)
      BY <1>1, <2>8, <2>9 DEF Awake
    <3> QED BY <1>1, <2>1, <3>1, <3>2 DEF QueueInv, WakeOK
  <2>16. WalkOK(w)' BY <2>5 DEF WalkOK
  <2>17. FreedOK' BY <1>1, <2>1, <2>2, <2>5 DEF QueueInv, FreedOK
  <2> QED
    BY <2>1, <2>7, <2>10, <2>11, <2>12, <2>13, <2>14, <2>15, <2>16, <2>17 DEF QueueInv
<1> QED BY <1>2, <1>3

\* A step inside schedule() that moves one thread, into a run queue or out.
LEMMA InsideMove ==
  ASSUME NEW w, NEW p, Before(w, p), NEW k \in SchedLabels, NEW l \in SchedLabels,
         InsideFrom(k, l), NEW v \in [Threads -> Queues \cup {NULL}],
         NEW p2 \in [Threads -> Nat], Lists(front, Ends, Links, v, p2)',
         NEW t \in Threads,
         \/ state'[t] = "QUEUED" /\ v[t] = priority'[t]
         \/ state'[t] = "RUNNING" /\ v[t] = NULL /\ t = currentThread',
         \A u \in Threads : u # t =>
           /\ v[u] = w[u] /\ state'[u] = state[u] /\ priority'[u] = priority[u]
           /\ \/ currentThread' = currentThread
              \/ state[u] \notin {"RUNNING", "YIELD", "JOINING", "NONE"}
              \/ state[u] = "NONE" /\ u # cpu.me,
         WakeOK', CurrentOK', FreedOK', WalkOK(v)'
  PROVE  QueueInv(v, p2)'
<1>1. \A u \in Threads : u # t =>
        /\ state'[u] = "QUEUED" =>
             v[u] = IF Carried(u)' THEN NULL ELSE priority'[u]
        /\ state'[u] = "BLOCKED" =>
             IF Carried(u)' THEN v[u] = NULL
                            ELSE v[u] \in Mutexes /\ Waits(u, v[u])'
        /\ state'[u] \in {"RUNNING", "YIELD", "JOINING"} => u = currentThread'
        /\ state'[u] \notin {"QUEUED", "BLOCKED"} => v[u] = NULL
        /\ state'[u] = "NONE" =>
             ctx'[u].held = {} /\ (u = cpu'.me => currentThread' = NULL)
  <2>1. SUFFICES ASSUME NEW u \in Threads, u # t
                 PROVE  /\ state'[u] = "QUEUED" =>
                             v[u] = IF Carried(u)' THEN NULL ELSE priority'[u]
                        /\ state'[u] = "BLOCKED" =>
                             IF Carried(u)' THEN v[u] = NULL
                                            ELSE v[u] \in Mutexes /\ Waits(u, v[u])'
                        /\ state'[u] \in {"RUNNING", "YIELD", "JOINING"} =>
                             u = currentThread'
                        /\ state'[u] \notin {"QUEUED", "BLOCKED"} => v[u] = NULL
                        /\ state'[u] = "NONE" =>
                             ctx'[u].held = {} /\ (u = cpu'.me => currentThread' = NULL)
    OBVIOUS
  <2> QED BY <2>1, PlacedInside
<1>2. \A u \in Threads : ~Carried(u)' BY InsideCode
<1>3. Placed(v)' BY <1>1, <1>2 DEF Placed
<1>4. CarryOK(v)' BY CarryInside
<1>5. MaskOK' /\ HolderOK' BY InsideCode
<1> QED BY <1>3, <1>4, <1>5 DEF QueueInv

\* The current thread goes to the end of a run queue.
LEMMA RequeueQueues ==
  ASSUME NEW w, NEW p, Before(w, p), Requeue \/ Demote
  PROVE  \E w2, p2 : QueueInv(w2, p2)'
<1>1. InsideFrom("switch", "next") BY InsideSteps DEF Before
<1>2. "switch" \in SchedLabels /\ "next" \in SchedLabels /\ SchedAt("switch")
  BY LabelSets DEF Requeue, Demote
<1>3. /\ w \in [Threads -> Queues \cup {NULL}] /\ p \in [Threads -> Nat] /\ IInv
      /\ Lists(front, Ends, Links, w, p) /\ Placed(w)
  BY DEF Before, QueueInv
<1>4. /\ \A q \in Queues : Ends[q] = rear[q] /\ Ends'[q] = rear'[q]
      /\ \A t \in Threads : Links[t] = next[t] /\ Links'[t] = next'[t]
      /\ currentThread \in Threads
  BY <1>1, <1>2, InsideState, InsideCode
<1>5. PICK t \in Threads : t = currentThread BY <1>4
<1>6. /\ state \in [Threads -> {"NONE", "QUEUED", "YIELD", "EXITED", "JOINING",
                                "BLOCKED", "RUNNING"}]
      /\ priority \in [Threads -> Levels] /\ Levels \subseteq Queues
      /\ Levels \cap Mutexes = {} /\ Mutexes \subseteq Queues
      /\ front \in [Queues -> ThreadOrNull] /\ rear \in [Queues -> ThreadOrNull]
      /\ next \in [Threads -> ThreadOrNull]
  BY <1>3, LevelAssumption DEF IInv, TypeOK, Queues
<1>7. PICK q \in Levels :
        /\ priority'[t] = q /\ \A u \in Threads : u # t => priority'[u] = priority[u]
        /\ Enqueue(t, q)
  <2>1. CASE Requeue BY <1>5, <1>6, <2>1 DEF Requeue
  <2>2. CASE Demote
    <3>1. /\ priority' = [priority EXCEPT ![t] = LowerPriority(priority[t])]
          /\ Enqueue(t, LowerPriority(priority[t]))
      BY <1>5, <2>2 DEF Demote
    <3>2. LowerPriority(priority[t]) \in Levels
      BY <1>6, LevelAssumption DEF LowerPriority, Levels
    <3> QED BY <1>6, <3>1, <3>2
  <2> QED BY <2>1, <2>2
<1>8. /\ state[t] \in {"YIELD", "JOINING", "RUNNING"}
      /\ state' = [state EXCEPT ![t] = "QUEUED"]
      /\ UNCHANGED <<currentThread, freed>>
  BY <1>5 DEF Requeue, Demote, CurrentIs
<1>9. w[t] = NULL /\ q \in Queues BY <1>3, <1>6, <1>8 DEF Placed
<1>10. PICK v \in [Threads -> Queues \cup {NULL}] :
         \A u \in Threads : v[u] = IF u = t THEN q ELSE w[u]
  <2>1. [w EXCEPT ![t] = q] \in [Threads -> Queues \cup {NULL}] BY <1>3, <1>9
  <2> QED BY <1>3, <2>1
<1>11. PICK p2 \in [Threads -> Nat] : Lists(front, Ends, Links, v, p2)'
  <2>1. Typing(front, Ends, Links, w, p) BY <1>3, ListsTyped
  <2>2. /\ \A x \in Queues : front'[x] = IF x = q /\ Ends[q] = NULL THEN t ELSE front[x]
        /\ \A x \in Queues : Ends'[x] = IF x = q THEN t ELSE Ends[x]
    BY <1>4, <1>6, <1>7, <1>9 DEF Enqueue
  <2>3. \A u \in Threads : Links'[u] = IF u = Ends[q] THEN t ELSE Links[u]
    BY <1>4, <1>6, <1>7, <1>9, ThreadAssumption DEF Enqueue
  <2>4. Appended(front, Ends, Links, w, q, t, front', Ends', Links', v)
    BY <1>10, <2>2, <2>3 DEF Appended
  <2> QED BY <1>3, <1>9, <2>1, <2>4, ListAppend
<1>12. IF InHandler THEN InHandler' /\ cpu'.irq = "next" ELSE ~InHandler' /\ cpu'.pc = "next"
  BY <1>1 DEF InsideFrom, InHandler
<1>13. ~Switching' /\ SchedAt("next")' /\ ~SchedAt("maint")'
  BY <1>12 DEF Switching, SchedAt
<1>14. CurrentOK' BY <1>5, <1>6, <1>8, <1>13 DEF CurrentOK, CurrentIs
<1>15. FreedOK'
  <2>1. \A u \in Threads : state[u] = "EXITED" => state'[u] = "EXITED" BY <1>6, <1>8
  <2> QED BY <1>1, <1>2, <1>8, <2>1, FreedInside
<1>16. WakeOK'
  <2>1. \A m \in Mutexes : front'[m] = front[m] BY <1>6, <1>7 DEF Enqueue
  <2>2. \A u \in Threads : state[u] = "QUEUED" => state'[u] = "QUEUED" BY <1>6, <1>8
  <2> QED BY <1>1, <1>2, <1>8, <2>1, <2>2, WakeInside
<1>17. WalkOK(v)' BY <1>13 DEF WalkOK
<1>18. /\ state'[t] = "QUEUED" /\ v[t] = priority'[t]
       /\ \A u \in Threads : u # t =>
            v[u] = w[u] /\ state'[u] = state[u] /\ priority'[u] = priority[u]
  BY <1>6, <1>7, <1>8, <1>10
<1>19. QueueInv(v, p2)'
  BY <1>1, <1>2, <1>8, <1>11, <1>14, <1>15, <1>16, <1>17, <1>18, InsideMove
<1> QED BY <1>19

\* The first thread of a run queue becomes the current one.
LEMMA DispatchQueues ==
  ASSUME NEW w, NEW p, Before(w, p), NEW i \in Levels, DispatchFrom(i)
  PROVE  \E w2, p2 : QueueInv(w2, p2)'
<1>1. InsideFrom("next", "tail") BY InsideSteps DEF Before, Dispatch
<1>2. "next" \in SchedLabels /\ "tail" \in SchedLabels /\ SchedAt("next")
  BY LabelSets DEF DispatchFrom
<1>3. /\ w \in [Threads -> Queues \cup {NULL}] /\ p \in [Threads -> Nat] /\ IInv
      /\ Lists(front, Ends, Links, w, p) /\ Placed(w) /\ CurrentOK
  BY DEF Before, QueueInv
<1>4. ~Switching BY <1>2 DEF Switching, SchedAt
<1>5. /\ \A q \in Queues : Ends[q] = rear[q] /\ Ends'[q] = rear'[q]
      /\ \A u \in Threads : Links[u] = next[u] /\ Links'[u] = next'[u] /\ ~Carried(u)
      /\ currentThread \in Threads /\ cpu.me = currentThread
  BY <1>1, <1>2, <1>4, InsideState, InsideCode
<1>6. /\ state \in [Threads -> {"NONE", "QUEUED", "YIELD", "EXITED", "JOINING",
                                "BLOCKED", "RUNNING"}]
      /\ i \in Queues /\ i # NULL /\ i \notin Mutexes /\ Mutexes \subseteq Queues
      /\ front \in [Queues -> ThreadOrNull] /\ rear \in [Queues -> ThreadOrNull]
      /\ next \in [Threads -> ThreadOrNull] /\ NULL \notin Threads
  BY <1>3, LevelAssumption, ThreadAssumption DEF IInv, TypeOK, Queues
<1>7. PICK t \in Threads : t = front[i]
  BY <1>6 DEF DispatchFrom, BestLevel, Ready, ThreadOrNull
<1>8. w[t] = i BY <1>3, <1>6, <1>7 DEF Lists
<1>9. state[t] = "QUEUED" BY <1>3, <1>5, <1>6, <1>8 DEF Placed
<1>10. /\ currentThread' = t /\ state' = [state EXCEPT ![t] = "RUNNING"]
       /\ front' = [front EXCEPT ![i] = next[t]] /\ next' = [next EXCEPT ![t] = NULL]
       /\ rear' = IF next[t] = NULL THEN [rear EXCEPT ![i] = NULL] ELSE rear
       /\ UNCHANGED <<priority, freed>>
  BY <1>7 DEF DispatchFrom, RearAfter
<1>11. PICK v \in [Threads -> Queues \cup {NULL}] :
         \A u \in Threads : v[u] = IF u = t THEN NULL ELSE w[u]
  <2>1. [w EXCEPT ![t] = NULL] \in [Threads -> Queues \cup {NULL}] BY <1>3
  <2> QED BY <1>3, <2>1
<1>12. Lists(front, Ends, Links, v, p)'
  <2>1. Typing(front, Ends, Links, w, p) BY <1>3, ListsTyped
  <2>2. \A x \in Queues : front'[x] = IF x = i /\ t = front[i] THEN Links[t] ELSE front[x]
    BY <1>5, <1>6, <1>7, <1>10
  <2>3. \A x \in Queues : Ends'[x] =
          IF x = i /\ Links[t] = NULL THEN IF t = front[i] THEN NULL ELSE NULL ELSE Ends[x]
    BY <1>5, <1>6, <1>10
  <2>4. \A u \in Threads : Links'[u] =
          IF u = t THEN NULL ELSE IF u = NULL /\ t # front[i] THEN Links[t] ELSE Links[u]
    BY <1>5, <1>6, <1>10
  <2>5. Unlinked(front, Ends, Links, w, i, t, NULL, front', Ends', Links', v)
    BY <1>7, <1>11, <2>2, <2>3, <2>4 DEF Unlinked
  <2> QED BY <1>3, <1>6, <1>8, <2>1, <2>5, ListUnlink
<1>13. IF InHandler THEN InHandler' /\ cpu'.irq = "tail" ELSE ~InHandler' /\ cpu'.pc = "tail"
  BY <1>1 DEF InsideFrom, InHandler
<1>14. Switching' /\ ~SchedAt("next")' /\ ~SchedAt("maint")'
  BY <1>13 DEF Switching, SchedAt
<1>15. CurrentOK' BY <1>6, <1>10, <1>14 DEF CurrentOK, CurrentIs
<1>16. FreedOK'
  <2>1. \A u \in Threads : state[u] = "EXITED" => state'[u] = "EXITED"
    BY <1>6, <1>9, <1>10
  <2> QED BY <1>1, <1>2, <1>10, <2>1, FreedInside
<1>17. WakeOK'
  <2>1. \A m \in Mutexes : front'[m] = front[m] BY <1>6, <1>10
  <2>2. \A u \in Threads :
          state[u] \in {"RUNNING", "QUEUED"} => state'[u] \in {"RUNNING", "QUEUED"}
    BY <1>6, <1>10
  <2> QED BY <1>1, <1>2, <2>1, <2>2, WakeInside
<1>18. WalkOK(v)' BY <1>14 DEF WalkOK
<1>19. state[currentThread] \in {"QUEUED", "BLOCKED", "EXITED"}
  BY <1>2, <1>3, <1>5, <1>6 DEF CurrentOK
<1>20. \A u \in Threads : u # t =>
         /\ v[u] = w[u] /\ state'[u] = state[u] /\ priority'[u] = priority[u]
         /\ \/ state[u] \notin {"RUNNING", "YIELD", "JOINING", "NONE"}
            \/ state[u] = "NONE" /\ u # cpu.me
  <2>1. \A u \in Threads :
          /\ state[u] \in {"RUNNING", "YIELD", "JOINING"} => u = currentThread
          /\ state[u] = "NONE" => u # currentThread
    BY <1>3, <1>19 DEF Placed
  <2> QED BY <1>5, <1>6, <1>10, <1>11, <1>19, <2>1
<1>21. state'[t] = "RUNNING" /\ v[t] = NULL BY <1>6, <1>10, <1>11
<1>22. p \in [Threads -> Nat] /\ t = currentThread' /\ state[t] # "BLOCKED"
  BY <1>3, <1>9, <1>10
<1>23. QueueInv(v, p)'
  BY <1>1, <1>2, <1>12, <1>15, <1>16, <1>17, <1>18, <1>20, <1>21, <1>22, InsideMove
<1> QED BY <1>23

\* maintenance() moves a thread from its level to the best one.
LEMMA PromoteQueues ==
  ASSUME NEW w, NEW p, Before(w, p), MaintPromote
  PROVE  \E w2, p2 : QueueInv(w2, p2)'
<1>1. InsideFrom("maint", "maint") BY InsideSteps DEF Before
<1>2. "maint" \in SchedLabels /\ SchedAt("maint") BY LabelSets DEF MaintPromote
<1>3. /\ w \in [Threads -> Queues \cup {NULL}] /\ p \in [Threads -> Nat] /\ IInv
      /\ Lists(front, Ends, Links, w, p) /\ Placed(w) /\ WalkOK(w)
  BY DEF Before, QueueInv
<1>4. /\ \A q \in Queues : Ends[q] = rear[q] /\ Ends'[q] = rear'[q]
      /\ \A u \in Threads : Links[u] = next[u] /\ Links'[u] = next'[u] /\ ~Carried(u)
  BY <1>1, <1>2, InsideState, InsideCode
<1>5. /\ state \in [Threads -> {"NONE", "QUEUED", "YIELD", "EXITED", "JOINING",
                                "BLOCKED", "RUNNING"}]
      /\ priority \in [Threads -> Levels] /\ Levels \subseteq Queues
      /\ Levels \cap Mutexes = {} /\ Mutexes \subseteq Queues
      /\ front \in [Queues -> ThreadOrNull] /\ rear \in [Queues -> ThreadOrNull]
      /\ next \in [Threads -> ThreadOrNull] /\ NULL \notin Threads /\ NULL \notin Queues
      /\ walk \in [i : Levels, ptr : ThreadOrNull, prev : ThreadOrNull]
      /\ 0 \in Levels
  BY <1>3, LevelAssumption, ThreadAssumption DEF IInv, TypeOK, Queues, Levels
<1>6. PICK t \in Threads : t = walk.ptr BY <1>5 DEF MaintPromote, ThreadOrNull
<1>7. PICK i \in Levels : i = walk.i BY <1>5
<1>8. PICK b \in ThreadOrNull : b = walk.prev BY <1>5
<1>9. /\ i # 0 /\ w[t] = i
      /\ t # front[i] => b # NULL /\ w[b] = i /\ next[b] = t
  BY <1>2, <1>3, <1>5, <1>6, <1>7, <1>8 DEF WalkOK
<1> DEFINE next1 == IF t = front[i] THEN next ELSE [next EXCEPT ![b] = next[t]]
           next2 == [next1 EXCEPT ![t] = NULL]
           front1 == IF t = front[i] THEN [front EXCEPT ![i] = next[t]] ELSE front
           rear1 == IF next[t] # NULL THEN rear
                    ELSE [rear EXCEPT ![i] = IF t = front[i] THEN NULL ELSE b]
<1>10. /\ priority' = [priority EXCEPT ![t] = 0]
       /\ front' = IF rear1[0] = NULL THEN [front1 EXCEPT ![0] = t] ELSE front1
       /\ next' = IF rear1[0] = NULL THEN next2 ELSE [next2 EXCEPT ![rear1[0]] = t]
       /\ rear' = [rear1 EXCEPT ![0] = t]
       /\ walk' = IF next[t] = NULL THEN [walk EXCEPT !.ptr = NULL]
                  ELSE [walk EXCEPT !.prev = next[t], !.ptr = next'[next[t]]]
       /\ UNCHANGED <<state, currentThread, freed>>
  BY <1>6, <1>7, <1>8 DEF MaintPromote
<1>11. /\ next1 \in [Threads -> ThreadOrNull] /\ next2 \in [Threads -> ThreadOrNull]
       /\ front1 \in [Queues -> ThreadOrNull] /\ rear1 \in [Queues -> ThreadOrNull]
  BY <1>5, <1>9 DEF ThreadOrNull
<1>12. /\ \A x \in Queues : front1[x] = IF x = i /\ t = front[i] THEN next[t] ELSE front[x]
       /\ \A x \in Queues : rear1[x] =
            IF x = i /\ next[t] = NULL THEN IF t = front[i] THEN NULL ELSE b ELSE rear[x]
       /\ \A u \in Threads : next2[u] =
            IF u = t THEN NULL ELSE IF u = b /\ t # front[i] THEN next[t] ELSE next[u]
  BY <1>5
<1>13. PICK f1, r1, n1 : f1 = front1 /\ r1 = rear1 /\ n1 = next2 OBVIOUS
<1> HIDE DEF next1, next2, front1, rear1
<1>14. PICK w1 \in [Threads -> Queues \cup {NULL}] :
         \A u \in Threads : w1[u] = IF u = t THEN NULL ELSE w[u]
  <2>1. [w EXCEPT ![t] = NULL] \in [Threads -> Queues \cup {NULL}] BY <1>3
  <2> QED BY <1>3, <2>1
<1>15. Lists(f1, r1, n1, w1, p)
  <2>1. Typing(front, Ends, Links, w, p) BY <1>3, ListsTyped
  <2>2. /\ \A x \in Queues : f1[x] = IF x = i /\ t = front[i] THEN Links[t] ELSE front[x]
        /\ \A x \in Queues : r1[x] =
             IF x = i /\ Links[t] = NULL THEN IF t = front[i] THEN NULL ELSE b ELSE Ends[x]
        /\ \A u \in Threads : n1[u] =
             IF u = t THEN NULL ELSE IF u = b /\ t # front[i] THEN Links[t] ELSE Links[u]
    BY <1>4, <1>12, <1>13
  <2>3. t # front[i] => b \in Threads /\ w[b] = i /\ Links[b] = t
    BY <1>4, <1>9 DEF ThreadOrNull
  <2>4. Unlinked(front, Ends, Links, w, i, t, b, f1, r1, n1, w1)
    BY <1>14, <2>2, <2>3 DEF Unlinked
  <2>5. i \in Queues BY <1>5
  <2> QED BY <1>3, <1>9, <2>1, <2>4, <2>5, ListUnlink
<1>16. Typing(f1, r1, n1, w1, p) BY <1>3, <1>11, <1>13, <1>14 DEF Typing
<1>17. PICK v \in [Threads -> Queues \cup {NULL}] :
         \A u \in Threads : v[u] = IF u = t THEN 0 ELSE w1[u]
  <2>1. [w1 EXCEPT ![t] = 0] \in [Threads -> Queues \cup {NULL}] BY <1>5, <1>14
  <2> QED BY <1>14, <2>1
<1>18. PICK p2 \in [Threads -> Nat] : Lists(front, Ends, Links, v, p2)'
  <2>1. 0 \in Queues BY <1>5
  <2>2. /\ \A x \in Queues : front'[x] = IF x = 0 /\ r1[0] = NULL THEN t ELSE f1[x]
        /\ \A x \in Queues : Ends'[x] = IF x = 0 THEN t ELSE r1[x]
    BY <1>4, <1>10, <1>11, <1>13, <2>1
  <2>3. \A u \in Threads : Links'[u] = IF u = r1[0] THEN t ELSE n1[u]
    <3>1. CASE r1[0] = NULL
      <4>1. next' = n1 /\ \A u \in Threads : u # r1[0] BY <1>5, <1>10, <1>13, <3>1
      <4> QED BY <1>4, <4>1
    <3>2. CASE r1[0] # NULL
      <4>1. next' = [n1 EXCEPT ![r1[0]] = t] /\ n1 \in [Threads -> ThreadOrNull]
        BY <1>10, <1>11, <1>13, <3>2
      <4> QED BY <1>4, <4>1
    <3> QED BY <3>1, <3>2
  <2>4. Appended(f1, r1, n1, w1, 0, t, front', Ends', Links', v)
    BY <1>17, <2>2, <2>3 DEF Appended
  <2>5. w1[t] = NULL BY <1>14
  <2> QED BY <1>15, <1>16, <2>1, <2>4, <2>5, ListAppend
<1>19. \A u \in Threads : v[u] = IF u = t THEN 0 ELSE w[u] BY <1>14, <1>17
<1>20. state[t] = "QUEUED"
  <2>1. w[t] # NULL /\ w[t] \notin Mutexes BY <1>5, <1>9
  <2> QED BY <1>3, <1>4, <1>5, <2>1 DEF Placed
<1>21. CurrentOK' BY <1>1, <1>2, <1>10, CurrentInside
<1>22. FreedOK' BY <1>1, <1>2, <1>10, FreedInside
<1>23. WakeOK'
  <2>1. \A m \in Mutexes : front'[m] = front[m]
    <3>1. \A m \in Mutexes : m # i /\ m # 0 /\ m \in Queues BY <1>5
    <3>2. \A x \in Queues : x # 0 => front'[x] = front1[x] BY <1>10, <1>11
    <3> QED BY <1>12, <3>1, <3>2
  <2> QED BY <1>1, <1>2, <1>10, <2>1, WakeInside
<1>24. WalkOK(v)'
  <2>1. walk'.i = i /\ (next[t] = NULL => walk'.ptr = NULL) BY <1>5, <1>7, <1>10
  <2>2. ASSUME next[t] # NULL, next'[next[t]] # NULL
        PROVE  v[next[t]] = i /\ v[next'[next[t]]] = i
    <3>1. next[t] \in Threads /\ Links[t] = next[t] /\ i # NULL
      BY <1>4, <1>5, <2>2 DEF ThreadOrNull
    <3>2. w[next[t]] = i /\ next[t] # t
      <4>1. w[next[t]] = w[t] /\ p[t] < p[next[t]]
        BY <1>3, <1>9, <2>2, <3>1 DEF Lists
      <4>2. p[t] \in Nat BY <1>3
      <4> QED BY <1>9, <4>1, <4>2
    <3>3. PICK s \in Threads : s = next[t] BY <3>1
    <3>4. v[s] = i /\ Links'[s] = next'[s] BY <1>4, <1>19, <3>2, <3>3
    <3>5. Links'[s] # NULL => v[Links'[s]] = v[s] BY <1>18, <3>1, <3>4 DEF Lists
    <3> QED BY <2>2, <3>3, <3>4, <3>5
  <2>3. next[t] # NULL => walk'.prev = next[t] /\ walk'.ptr = next'[next[t]]
    BY <1>5, <1>10
  <2> QED BY <1>9, <2>1, <2>2, <2>3 DEF WalkOK
<1>25. /\ state'[t] = "QUEUED" /\ v[t] = priority'[t]
       /\ \A u \in Threads : u # t =>
            /\ v[u] = w[u] /\ state'[u] = state[u] /\ priority'[u] = priority[u]
            /\ currentThread' = currentThread
  BY <1>5, <1>10, <1>19, <1>20
<1>26. t = cpu.me => state[t] # "BLOCKED" BY <1>20
<1>27. QueueInv(v, p2)'
  BY <1>1, <1>2, <1>18, <1>21, <1>22, <1>23, <1>24, <1>25, <1>26, InsideMove
<1> QED BY <1>27

----------------------------------------------------------------------------
(* All of them, and what follows.                                          *)

\* Every step of the program keeps the lists.
LEMMA NextQueues ==
  ASSUME NEW w, NEW p, Before(w, p), [Next]_vars,
         ~TearingTick, ~(Recalled /\ KeepAlone)
  PROVE  ListInv'
<1>1. CASE Calling \/ Returning BY <1>1, LocalStep DEF ListInv
<1>2. CASE Scheduling
  <2>1. CASE SchedEnter \/ MaintSkip \/ MaintNextLevel
    BY <2>1, SchedEnterQueues, MaintSkipQueues, MaintNextLevelQueues DEF ListInv
  <2>2. CASE MaintPromote BY <2>2, PromoteQueues DEF ListInv
  <2>3. CASE AllFinished \/ Keep \/ KeepAlone \/ KeepRunning
    BY <2>3, ReturnQueues, KeepQueues DEF ListInv, Recalled, KeepRunning
  <2>4. CASE Requeue \/ Demote BY <2>4, RequeueQueues DEF ListInv
  <2>5. CASE Reap \/ Block BY <2>5, ReapQueues DEF ListInv
  <2>6. CASE Dispatch BY <2>6, DispatchQueues DEF ListInv, Dispatch
  <2>7. CASE SwapTail \/ Swap BY <2>7, SwapTailQueues, SwapQueues DEF ListInv
  <2> QED BY <1>2, <2>1, <2>2, <2>3, <2>4, <2>5, <2>6, <2>7 DEF Scheduling
<1>3. CASE Signal BY <1>3, SignalQueues DEF ListInv
<1>4. CASE Halted \/ UNCHANGED vars
  <2>1. UNCHANGED vars BY <1>4 DEF Halted
  <2> QED BY <2>1, SameQueues DEF ListInv, vars
<1> QED BY <1>1, <1>2, <1>3, <1>4 DEF Next

\* At first every queue is empty and no thread is created.
LEMMA InitQueues == ASSUME Init PROVE ListInv
<1> DEFINE w == [t \in Threads |-> NULL]
           p == [t \in Threads |-> 0]
<1>1. /\ w \in [Threads -> Queues \cup {NULL}] /\ p \in [Threads -> Nat]
      /\ \A t \in Threads : w[t] = NULL
  OBVIOUS
<1>2. /\ cpu = UserCode(Main, {}) /\ (\A t \in Threads : ctx[t] = UserCode(t, {}))
      /\ (\A t \in Threads : state[t] = "NONE") /\ currentThread = NULL
      /\ (\A q \in Queues : front[q] = NULL /\ rear[q] = NULL)
      /\ (\A t \in Threads : next[t] = NULL) /\ freed = {}
      /\ (\A m \in Mutexes : flag[m] = 0 /\ m \in Queues)
  BY DEF Init, Queues
<1>3. /\ cpu.pc = "user" /\ cpu.op = "none" /\ cpu.irq = "none" /\ cpu.held = {}
      /\ \A t \in Threads : ctx[t].pc = "user" /\ ctx[t].op = "none" /\ ctx[t].held = {}
  <2>1. \A t \in Threads : /\ UserCode(t, {}).pc = "user" /\ UserCode(t, {}).op = "none"
                           /\ UserCode(t, {}).irq = "none" /\ UserCode(t, {}).held = {}
    BY DEF UserCode
  <2> QED BY <1>2, <2>1, ThreadAssumption
<1>4. (\A q \in Queues : Ends[q] = NULL) /\ (\A t \in Threads : Links[t] = NULL)
  BY <1>2, <1>3 DEF Ends, Links
<1> HIDE DEF w, p
<1>5. Lists(front, Ends, Links, w, p) BY <1>1, <1>2, <1>4 DEF Lists
<1>6. ~InHandler /\ ~Switching /\ ~SchedAt("next") /\ ~SchedAt("maint")
  BY <1>3 DEF InHandler, Switching, SchedAt
<1>7. Placed(w) BY <1>1, <1>2, <1>3 DEF Placed
<1>8. CurrentOK BY <1>2 DEF CurrentOK
<1>9. MaskOK
  BY <1>3, <1>6 DEF MaskOK, InBody, Body, Critical, EnqLabels, DeqLabels
<1>10. CarryOK(w) BY <1>3 DEF CarryOK, EnqLabels, DeqLabels
<1>11. HolderOK BY <1>2 DEF HolderOK
<1>12. WakeOK BY <1>2 DEF WakeOK
<1>13. WalkOK(w) BY <1>6 DEF WalkOK
<1>14. FreedOK BY <1>2 DEF FreedOK
<1> QED
  BY <1>1, <1>5, <1>7, <1>8, <1>9, <1>10, <1>11, <1>12, <1>13, <1>14 DEF ListInv, QueueInv

\* Until a tick tears an update, the pointers form disjoint lists in which every
\* thread has the place its state names, also in the middle of enqueue() and
\* dequeue(), and whatever else the ticks interrupt.
THEOREM Queueing ==
  ASSUME ~SlowTail PROVE HSpec => [](IInv /\ TInv /\ (Intact => ListInv))
<1>1. HInit => IInv /\ TInv /\ ListInv
  <2>1. Init => TInv
    BY DEF Init, TInv, ExitOK, TimerOK, PreemptionArmed, Switching, SchedAt,
       InHandler, CodeOf, UserCode
  <2> QED BY <2>1, InitInv, InitQueues DEF HInit
<1>2. ASSUME IInv, TInv, Intact => ListInv, [HNext]_hvars
      PROVE  IInv' /\ TInv' /\ (Intact => ListInv)'
  <2>1. [Next]_vars BY <1>2 DEF HNext, hvars
  <2>2. IInv' /\ TInv' BY <1>2, <2>1, NextInv, NextTimer
  <2>3. ASSUME Intact' PROVE ListInv'
    <3>1. CASE HNext
      <4>1. Intact /\ ~TearingTick /\ ~(Recalled /\ KeepAlone)
        BY <2>3, <3>1 DEF HNext, Intact
      <4>2. PICK w, p : QueueInv(w, p) BY <1>2, <4>1 DEF ListInv
      <4>3. Before(w, p) BY <1>2, <4>2 DEF Before
      <4> QED BY <2>1, <4>1, <4>3, NextQueues
    <3>2. CASE UNCHANGED hvars
      <4>1. Intact /\ UNCHANGED vars BY <2>3, <3>2 DEF Intact, hvars
      <4>2. PICK w, p : QueueInv(w, p) BY <1>2, <4>1 DEF ListInv
      <4>3. Before(w, p) BY <1>2, <4>2 DEF Before
      <4> QED BY <4>1, <4>3, SameQueues DEF ListInv, vars
    <3> QED BY <1>2, <3>1, <3>2
  <2> QED BY <2>2, <2>3
<1>3. IInv /\ TInv /\ (Intact => ListInv) /\ [HNext]_hvars =>
        (IInv /\ TInv /\ (Intact => ListInv))'
  BY <1>2
<1>4. HInit => IInv /\ TInv /\ (Intact => ListInv) BY <1>1
<1> QED BY <1>3, <1>4, PTL DEF HSpec

\* The pointers of the threads that are in a queue are as they will be.
LEMMA LinksAre ==
  ASSUME NEW w, NEW p, QueueInv(w, p)
  PROVE  \A t \in Threads : w[t] # NULL => next[t] = Links[t]
<1>1. Placed(w) /\ CarryOK(w) BY DEF QueueInv
<1> SUFFICES ASSUME NEW t \in Threads, w[t] # NULL PROVE next[t] = Links[t] OBVIOUS
<1>2. ~(cpu.pc = "deq_clear" /\ t = cpu.thr)
  <2>1. SUFFICES ASSUME cpu.pc = "deq_clear", t = cpu.thr PROVE FALSE OBVIOUS
  <2>2. Carried(t) /\ state[t] = "BLOCKED"
    BY <1>1, <2>1 DEF CarryOK, Carried, CarryLabels, DeqLabels
  <2> QED BY <1>1, <2>2 DEF Placed
<1> QED BY <1>2 DEF Links

\* What Chain follows are the lists of the invariant.
LEMMA ChainsAre ==
  ASSUME NEW w, NEW p, IInv, QueueInv(w, p), NEW q \in Queues
  PROVE  /\ Chain(q) \in Seq(Threads) /\ Len(Chain(q)) <= Cardinality(Threads)
         /\ IsPath(Chain(q), front[q], next)
         /\ \A i, j \in 1 .. Len(Chain(q)) : i < j => p[Chain(q)[i]] < p[Chain(q)[j]]
         /\ Ends[q] = IF Chain(q) = <<>> THEN NULL ELSE Chain(q)[Len(Chain(q))]
         /\ \A t \in Threads : In(t, q) <=> w[t] = q
<1>1. /\ w \in [Threads -> Queues \cup {NULL}] /\ p \in [Threads -> Nat]
      /\ Lists(front, Ends, Links, w, p) /\ Placed(w) /\ CarryOK(w)
  BY DEF QueueInv
<1>2. next \in [Threads -> ThreadOrNull] BY DEF IInv, TypeOK
<1>3. \A t \in Threads : w[t] # NULL => next[t] = Links[t] BY LinksAre
<1>4. Follows(front, Ends, Links, w, p) BY <1>1, <1>2, <1>3, ListsTyped DEF Follows
<1> QED BY <1>4, ChainIs

\* No NULL is stored through, and the lists are disjoint, end at their rear
\* and hold no thread twice, until a tick finds one of the statements of
\* Critical: my_pthread.c:135-184, 230-291.
THEOREM QueuesIntact == ASSUME ~SlowTail PROVE HSpec => []QueueIntegrity
<1>1. ASSUME IInv, ListInv PROVE QueueIntegrity
  <2>1. PICK w, p : QueueInv(w, p) BY <1>1 DEF ListInv
  <2>2. /\ MaskOK /\ Lists(front, Ends, Links, w, p) /\ cpu \in Continuation
        /\ rear \in [Queues -> ThreadOrNull]
    BY <1>1, <2>1, Typed DEF QueueInv
  <2>3. cpu.pc # "segv" BY <2>2, BodyOps DEF MaskOK
  <2>4. ASSUME ~MidUpdate, NEW q \in Queues
        PROVE  /\ Len(Chain(q)) <= Cardinality(Threads)
               /\ rear[q] = IF Chain(q) = <<>> THEN NULL ELSE Chain(q)[Len(Chain(q))]
               /\ rear[q] # NULL => w[rear[q]] = q
    <3>1. Ends[q] = rear[q] BY <2>4 DEF Ends, MidUpdate
    <3> QED BY <1>1, <2>1, <2>2, <3>1, ChainsAre DEF Lists
  <2> QED BY <2>3, <2>4 DEF QueueIntegrity
<1>2. ~Intact => QueueIntegrity BY DEF QueueIntegrity
<1> QED BY <1>1, <1>2, Queueing, PTL

\* No thread is lost: whatever was interrupted, each is the current one, in the
\* queue its state names, or in the hand of create() or unlock().
THEOREM AllAccounted == ASSUME ~SlowTail PROVE HSpec => []Accounted
<1>1. ASSUME IInv, ListInv PROVE Accounted
  <2>1. PICK w, p : QueueInv(w, p) BY <1>1 DEF ListInv
  <2>2. /\ Placed(w) /\ CarryOK(w) /\ MaskOK /\ cpu \in Continuation
        /\ state \in [Threads -> {"NONE", "QUEUED", "YIELD", "EXITED", "JOINING",
                                  "BLOCKED", "RUNNING"}]
        /\ priority \in [Threads -> Levels] /\ NULL \notin Queues
    BY <1>1, <2>1, Typed, ThreadAssumption DEF QueueInv, IInv, TypeOK
  <2>3. \A t \in Threads : \A q \in Queues : In(t, q) <=> w[t] = q
    BY <1>1, <2>1, ChainsAre
  <2>4. /\ Levels \subseteq Queues /\ Mutexes \subseteq Queues
        /\ cpu.pc \in EnqLabels => cpu.op \in {"create", "lock", "unlock"}
        /\ cpu.pc \in DeqLabels => cpu.op = "unlock"
    BY <1>1 DEF Queues, IInv, CallOK
  <2>5. ASSUME NEW t \in Threads, state[t] = "QUEUED"
        PROVE  In(t, priority[t]) \/ InHand(t)
    <3>1. CASE Carried(t)
      <4>1. cpu.op # "lock" /\ cpu.thr = t
        BY <2>2, <2>4, <2>5, <3>1 DEF Carried, CarryLabels, CarryOK, CurrentIs
      <4> QED
        BY <2>4, <3>1, <4>1 DEF Carried, CarryLabels, EnqLabels, DeqLabels, InHand
    <3>2. CASE ~Carried(t) BY <2>2, <2>3, <2>4, <2>5, <3>2 DEF Placed
    <3> QED BY <3>1, <3>2
  <2>6. ASSUME NEW t \in Threads, state[t] = "BLOCKED"
        PROVE  t = currentThread \/ (\E m \in Mutexes : In(t, m)) \/ InHand(t)
    <3>1. CASE Carried(t)
      <4>1. cpu.pc \in EnqLabels => t = currentThread
        BY <2>2, <2>6, <3>1 DEF Carried, CarryOK
      <4>2. cpu.pc \in DeqLabels \ {"deq_adv"} => InHand(t)
        BY <2>4, <3>1 DEF Carried, DeqLabels, InHand
      <4> QED BY <3>1, <4>1, <4>2 DEF Carried, CarryLabels
    <3>2. CASE ~Carried(t) BY <2>2, <2>3, <2>4, <2>6, <3>2 DEF Placed
    <3> QED BY <3>1, <3>2
  <2>7. \A t \in Threads :
          state[t] \in {"RUNNING", "YIELD", "JOINING"} => t = currentThread
    BY <2>2 DEF Placed
  <2>8. ASSUME NEW t \in Threads, state[t] \in {"NONE", "EXITED"}
        PROVE  \A q \in Queues : ~In(t, q)
    <3>1. w[t] = NULL BY <2>2, <2>8 DEF Placed
    <3> QED BY <2>2, <2>3, <3>1
  <2> QED BY <2>2, <2>5, <2>6, <2>7, <2>8 DEF Accounted
<1>2. ~Intact => Accounted BY DEF Accounted
<1> QED BY <1>1, <1>2, Queueing, PTL

\* The waiters of a free mutex have one that unlock() has woken and that is on
\* its way back to the test-and-set (my_pthread.c:461-488).
THEOREM WakeupsKept == ASSUME ~SlowTail PROVE HSpec => []NoLostWakeup
<1>1. ASSUME ListInv PROVE NoLostWakeup
  <2>1. WakeOK BY <1>1 DEF ListInv, QueueInv
  <2> QED BY <2>1 DEF WakeOK, Freeing, Awake, Waits, NoLostWakeup
<1>2. ~Intact => NoLostWakeup BY DEF NoLostWakeup
<1> QED BY <1>1, <1>2, Queueing, PTL

\* schedule() says that all threads have finished only when they have: a taken
\* mutex has a holder that has not exited, a free one a waiter that is awake, so
\* a thread that waits is never the last, except for those that wait for one
\* another in a circle (my_pthread.c:321-328).
THEOREM FinishedTrue == ASSUME ~SlowTail PROVE HSpec => []AllFinishedIsTrue
<1>1. ASSUME IInv, TInv, ListInv PROVE AllFinishedIsTrue
  <2>1. PICK w, p : QueueInv(w, p) BY <1>1 DEF ListInv
  <2>2. Before(w, p) /\ Placed(w)
        /\ state \in [Threads -> {"NONE", "QUEUED", "YIELD", "EXITED", "JOINING",
                                  "BLOCKED", "RUNNING"}]
    BY <1>1, <2>1 DEF Before, QueueInv, IInv, TypeOK
  <2>3. ASSUME SchedAt("switch"), ~CheckNextThread, CurrentIs("EXITED"), ~CircularWait,
               NEW t \in Threads
        PROVE  state[t] \in {"NONE", "EXITED"}
    <3>1. state[t] \notin {"QUEUED", "BLOCKED"} BY <2>2, <2>3, NoneReady
    <3>2. state[t] \in {"RUNNING", "YIELD", "JOINING"} => t = currentThread
      BY <2>2 DEF Placed
    <3> QED BY <2>2, <2>3, <3>1, <3>2 DEF CurrentIs
  <2> QED BY <2>3 DEF AllFinishedIsTrue
<1>2. ~Intact => AllFinishedIsTrue BY DEF AllFinishedIsTrue
<1> QED BY <1>1, <1>2, Queueing, PTL

\* The steps that lead to the choice of the next thread.
LEMMA ToNext ==
  ASSUME ~SlowTail, IInv, [Next]_vars, SchedAt("next")'
  PROVE  \/ Requeue \/ Demote \/ Reap \/ Block
         \/ SchedAt("next") /\ UNCHANGED front
<1>1. \A k, l \in SchedLabels : InsideFrom(k, l) => l = "next"
  <2> SUFFICES ASSUME NEW k \in SchedLabels, NEW l \in SchedLabels, InsideFrom(k, l)
               PROVE  l = "next"
    OBVIOUS
  <2>1. cpu'.irq = "none" \/ cpu'.irq = l BY DEF InsideFrom, InHandler
  <2>2. IF InHandler' THEN cpu'.irq = "next" ELSE cpu'.pc = "next" BY DEF SchedAt
  <2>3. SchedAt(l)' BY DEF InsideFrom
  <2> QED BY <2>2, <2>3 DEF SchedAt
<1>2. {"sched", "maint", "switch", "next", "keep", "tail", "swap"} = SchedLabels
  BY DEF SchedLabels
<1>3. ~(cpu'.irq = "none" /\ cpu'.pc \notin InsideLabels)
  BY DEF SchedAt, InHandler, InsideLabels, SchedLabels
<1>4. CASE Calling \/ Returning BY <1>3, <1>4, StaysLocal
<1>5. CASE Scheduling
  <2>1. ~(SchedEnter \/ MaintSkip \/ MaintPromote \/ MaintNextLevel)
    BY <1>1, <1>2, InsideSteps
  <2>2. ~(KeepAlone \/ KeepRunning \/ Dispatch \/ SwapTail)
    BY <1>1, <1>2, InsideSteps
  <2>3. ~(AllFinished \/ Keep)
    <3>1. SUFFICES ASSUME AllFinished \/ Keep PROVE FALSE OBVIOUS
    <3>2. PICK k \in SchedLabels : SchedAt(k) /\ cpu' = AfterSchedule
      BY <1>2, <3>1 DEF AllFinished, Keep
    <3> QED BY <1>3, <3>2, AfterFields
  <2>4. ~Swap BY <1>3, SwapCode DEF InHandler
  <2> QED BY <1>5, <2>1, <2>2, <2>3, <2>4 DEF Scheduling
<1>6. CASE Signal
  <2>1. front' = front /\ cpu \in Continuation
        /\ (cpu' = cpu \/ cpu' = [cpu EXCEPT !.irq = "sched"])
    BY <1>6, Typed DEF Signal
  <2>2. cpu' = cpu BY <2>1 DEF SchedAt, InHandler, Continuation
  <2> QED BY <2>1, <2>2 DEF SchedAt, InHandler
<1>7. CASE Halted \/ UNCHANGED vars
  <2>1. UNCHANGED <<front, cpu>> BY <1>7 DEF Halted, vars
  <2> QED BY <2>1 DEF SchedAt, InHandler
<1> QED BY <1>4, <1>5, <1>6, <1>7 DEF Next

\* What enqueue() has put on a level is ready.
LEMMA EnqueueReady ==
  ASSUME IInv, NEW t \in Threads, NEW q \in Levels, Enqueue(t, q),
         rear[q] # NULL => front[q] # NULL
  PROVE  CheckNextThread'
<1>1. q \in Queues /\ front \in [Queues -> ThreadOrNull] /\ t # NULL
  BY Typed, ThreadAssumption DEF Queues
<1>2. front'[q] # NULL BY <1>1 DEF Enqueue
<1> QED BY <1>2 DEF CheckNextThread, Ready

\* schedule() gives up the processor only to a thread that is ready, so that
\* the stores through the result of getNextThread() find one, and a lock()
\* that has to wait never gets it back: the holder of the mutex, or the waiter
\* that is awake, is ready or waits for another mutex in turn, and that chain
\* ends unless it closes to a circle (my_pthread.c:321, 420-423).
THEOREM ReadyToRun == ASSUME ~SlowTail PROVE HSpec => []SomebodyIsReady
<1> DEFINE NextReady == Intact /\ SchedAt("next") => CheckNextThread
<1>1. HInit => NextReady
  <2>1. cpu = UserCode(Main, {}) => cpu.irq = "none" /\ cpu.pc = "user" BY DEF UserCode
  <2> QED BY <2>1 DEF HInit, Init, SchedAt, InHandler
<1>2. ASSUME IInv, ListInv, SchedAt("next") => CheckNextThread, [Next]_vars,
             SchedAt("next")'
      PROVE  CheckNextThread'
  <2>1. PICK w, p : QueueInv(w, p) BY <1>2 DEF ListInv
  <2>2. CASE SchedAt("next") /\ UNCHANGED front
    BY <1>2, <2>2 DEF CheckNextThread, Ready
  <2>3. CASE Reap \/ Block
    BY <2>3 DEF Reap, Block, CheckNextThread, Ready
  <2>4. CASE Requeue \/ Demote
    <3>1. PICK q \in Levels : Enqueue(currentThread, q)
      <4>1. currentThread \in Threads
        <5>1. SchedAt("switch") BY <2>4 DEF Requeue, Demote
        <5> QED BY <1>2, <5>1, CurrentThread DEF SchedAt
      <4>2. /\ priority[currentThread] \in Levels
            /\ LowerPriority(priority[currentThread]) \in Levels
        BY <1>2, <4>1, RunFunctions
      <4> QED BY <2>4, <4>2 DEF Requeue, Demote
    <3>2. currentThread \in Threads
      <4>1. SchedAt("switch") BY <2>4 DEF Requeue, Demote
      <4> QED BY <1>2, <4>1, CurrentThread DEF SchedAt
    <3>3. rear[q] # NULL => front[q] # NULL
      <4>1. Lists(front, Ends, Links, w, p) /\ q \in Queues
        BY <2>1 DEF QueueInv, Queues
      <4>2. Ends[q] = rear[q]
        <5>1. SchedAt("switch") /\ "switch" \in SchedLabels
          BY <2>4, LabelSets DEF Requeue, Demote
        <5>2. cpu.pc \notin {"enq_rear", "deq_clear", "deq_test", "deq_null"}
          <6>1. CASE ~InHandler BY <5>1, <6>1 DEF SchedAt
          <6>2. CASE InHandler
            BY <2>1, <6>2 DEF QueueInv, MaskOK, Critical, EnqLabels, DeqLabels
          <6> QED BY <6>1, <6>2
        <5> QED BY <4>1, <5>2 DEF Ends
      <4> QED BY <4>1, <4>2 DEF Lists
    <3> QED BY <1>2, <3>1, <3>2, <3>3, EnqueueReady
  <2> QED BY <1>2, <2>2, <2>3, <2>4, ToNext
<1>3. IInv /\ (Intact => ListInv) /\ NextReady /\ [HNext]_hvars => NextReady'
  <2>1. SUFFICES ASSUME IInv, Intact => ListInv, NextReady, [HNext]_hvars,
                        Intact', SchedAt("next")'
                 PROVE  CheckNextThread'
    OBVIOUS
  <2>2. CASE HNext
    <3>1. Intact /\ [Next]_vars BY <2>1, <2>2 DEF HNext, Intact
    <3> QED BY <1>2, <2>1, <3>1
  <2>3. CASE UNCHANGED hvars
    <3>1. Intact /\ [Next]_vars BY <2>1, <2>3 DEF Intact, hvars
    <3> QED BY <1>2, <2>1, <3>1
  <2> QED BY <2>1, <2>2, <2>3
<1>4. ASSUME IInv, TInv, ListInv, Intact, NextReady PROVE SomebodyIsReady
  <2>1. PICK w, p : QueueInv(w, p) BY <1>4 DEF ListInv
  <2>2. Before(w, p) BY <1>4, <2>1 DEF Before
  <2>3. ASSUME SchedAt("switch"), CurrentIs("BLOCKED"), ~CheckNextThread, ~CircularWait
        PROVE  FALSE
    <3>1. currentThread \in Threads BY <1>4, <2>3, CurrentThread DEF SchedAt
    <3>2. state[currentThread] \notin {"QUEUED", "BLOCKED"}
      BY <2>2, <2>3, <3>1, NoneReady
    <3> QED BY <2>3, <3>2 DEF CurrentIs
  <2> QED BY <1>4, <2>3 DEF SomebodyIsReady
<1>5. ~Intact => SomebodyIsReady BY DEF SomebodyIsReady
<1> HIDE DEF NextReady
<1> QED BY <1>1, <1>3, <1>4, <1>5, Queueing, PTL DEF HSpec

\* Only the rest of the schedule() that freed a stack still runs on it.
THEOREM StacksFreed == ASSUME ~SlowTail PROVE HSpec => []FreedStackUnused
<1>1. ListInv => FreedStackUnused BY DEF ListInv, QueueInv, FreedOK, FreedStackUnused
<1>2. ~Intact => FreedStackUnused BY DEF FreedStackUnused
<1> QED BY <1>1, <1>2, Queueing, PTL

\* A thread that has exited is never queued, woken or created again: neither by
\* what other threads do to the queues nor by schedule().
THEOREM ExitsAreFinal == ASSUME ~SlowTail PROVE HSpec => ExitedForGood
<1>1. ASSUME IInv, TInv, ListInv, [Next]_vars, NEW t \in Threads, state[t] = "EXITED"
      PROVE  state'[t] = "EXITED"
  <2>1. PICK w, p : QueueInv(w, p) BY <1>1 DEF ListInv
  <2>2. /\ Before(w, p) /\ Placed(w)
        /\ state \in [Threads -> {"NONE", "QUEUED", "YIELD", "EXITED", "JOINING",
                                  "BLOCKED", "RUNNING"}]
    BY <1>1, <2>1 DEF Before, QueueInv, IInv, TypeOK
  <2>3. CASE Calling \/ Returning BY <1>1, <2>2, <2>3, ExitedLocal
  <2>4. CASE Dispatch
    <3>1. PICK i \in Levels : DispatchFrom(i) BY <2>4 DEF Dispatch
    <3>2. /\ state' = [state EXCEPT ![front[i]] = "RUNNING"] /\ front[i] # NULL
          /\ i \in Queues /\ i # NULL
      BY <3>1, ThreadAssumption DEF DispatchFrom, BestLevel, Ready, Queues
    <3>3. w[front[i]] = i BY <2>1, <3>2 DEF QueueInv, Lists
    <3>4. w[t] = NULL BY <1>1, <2>2 DEF Placed
    <3> QED BY <1>1, <2>2, <3>2, <3>3, <3>4
  <2>5. CASE Scheduling /\ ~Dispatch
    <3>1. \/ state' = state
          \/ state' = [state EXCEPT ![currentThread] = "QUEUED"]
             /\ state[currentThread] # "EXITED"
      BY <2>5 DEF Scheduling, SchedEnter, MaintSkip, MaintPromote, MaintNextLevel,
         AllFinished, KeepAlone, KeepRunning, Requeue, Demote, Reap, Block, Keep,
         SwapTail, Swap, CurrentIs
    <3> QED BY <1>1, <2>2, <3>1
  <2>6. CASE Signal \/ Halted \/ UNCHANGED vars
    BY <1>1, <2>6 DEF Signal, Halted, vars
  <2> QED BY <1>1, <2>3, <2>4, <2>5, <2>6 DEF Next
<1>2. IInv /\ TInv /\ (Intact => ListInv) /\ [HNext]_hvars =>
        [Intact' => \A t \in Threads : state[t] = "EXITED" => state'[t] = "EXITED"]_hvars
  <2>1. SUFFICES ASSUME IInv, TInv, Intact => ListInv, HNext, Intact'
                 PROVE  \A t \in Threads : state[t] = "EXITED" => state'[t] = "EXITED"
    OBVIOUS
  <2>2. Intact /\ [Next]_vars BY <2>1 DEF HNext, Intact
  <2> QED BY <1>1, <2>1, <2>2
<1> QED BY <1>2, Queueing, PTL DEF HSpec, ExitedForGood

----------------------------------------------------------------------------
(* The value that join() hands back.                                       *)

\* No step takes a value back, nor the store that leaves it.
LEMMA ValuedStays ==
  ASSUME ~SlowTail, IInv, [Next]_vars, NEW t \in Threads, Valued(t)
  PROVE  Valued(t)'
<1>1. /\ cpu \in Continuation /\ cpu.me \in Threads /\ ctx \in [Threads -> Continuation]
      /\ retval \in [Threads -> ThreadOrNull]
      /\ state \in [Threads -> {"NONE", "QUEUED", "YIELD", "EXITED", "JOINING",
                                "BLOCKED", "RUNNING"}]
  BY Typed DEF IInv, TypeOK, Continuation
<1>2. CodeOf(t) = IF t = cpu.me THEN cpu ELSE ctx[t] BY DEF CodeOf
<1>3. CASE ExitValue
  <2>1. /\ cpu.pc = "exit_val" /\ ~InHandler /\ UNCHANGED <<state, ctx>>
        /\ retval' = [retval EXCEPT ![currentThread] = cpu.me]
    BY <1>3 DEF ExitValue, At
  <2>2. currentThread = cpu.me
    <3>1. ~Switching BY <2>1 DEF Switching, SchedAt
    <3>2. currentThread \in Threads BY <2>1, CurrentThread
    <3> QED BY <3>1, <3>2, ThreadAssumption DEF IInv, ContextOwner
  <2>3. cpu'.me = cpu.me BY <1>1, <1>3 DEF ExitValue, Goto, Continuation
  <2>4. t # cpu.me => CodeOf(t)' = CodeOf(t) BY <2>1, <2>3 DEF CodeOf
  <2>5. retval'[t] = IF t = cpu.me THEN t ELSE retval[t] BY <1>1, <2>1, <2>2
  <2> QED BY <2>1, <2>4, <2>5 DEF Valued
<1>4. ASSUME retval' = retval, state[t] # "NONE" => state'[t] # "NONE",
             CodeOf(t).pc = "exit_val" /\ state[t] # "NONE" => (CodeOf(t)').pc = "exit_val"
      PROVE  Valued(t)'
  BY <1>4 DEF Valued
<1>5. CASE (Calling \/ Returning) /\ ~ExitValue
  <2>1. /\ cpu'.me = cpu.me /\ retval' = retval
        /\ state[t] # "NONE" => state'[t] # "NONE"
        /\ ctx'[t] = ctx[t] \/ state[t] = "NONE"
        /\ cpu.pc # "exit_val"
    <3>1. cpu'.me = cpu.me BY <1>5, StaysLocal
    <3>2. CASE Calling
      BY <1>1, <3>1, <3>2 DEF Calling, Running, CallFrom, At, Yield, Exit, Create, Join,
         Lock, Unlock
    <3>3. CASE Returning
      BY <1>1, <1>5, <3>1, <3>3 DEF Returning, At, Arm, JoinTest, JoinDone, TestAndSet,
         LockBlock, UnlockTest, Wake, Release, EnqTest, EnqFront, EnqLoad, EnqLink,
         EnqRear, DeqAdvance, DeqClear, DeqTest, DeqNull
    <3> QED BY <1>5, <3>2, <3>3
  <2> QED BY <1>2, <1>4, <2>1 DEF CodeOf
<1>6. CASE Scheduling
  <2>1. PICK k \in SchedLabels : SchedAt(k)
    BY <1>6, LabelSets DEF Scheduling, SchedEnter, MaintSkip, MaintPromote, MaintNextLevel,
       AllFinished, KeepAlone, KeepRunning, Requeue, Demote, Reap, Block, Dispatch,
       DispatchFrom, Keep, SwapTail, Swap
  <2>2. /\ retval' = retval
        /\ \/ state' = state
           \/ \E u : \E s \in {"QUEUED", "RUNNING"} : state' = [state EXCEPT ![u] = s]
    BY <1>6 DEF Scheduling, SchedEnter, MaintSkip, MaintPromote, MaintNextLevel,
       AllFinished, KeepAlone, KeepRunning, Requeue, Demote, Reap, Block, Dispatch,
       DispatchFrom, Keep, SwapTail, Swap
  <2>3. state[t] # "NONE" => state'[t] # "NONE" BY <1>1, <2>2
  <2>4. cpu.pc = "exit_val" => InHandler BY <2>1 DEF SchedAt, SchedLabels
  <2>5. cpu.pc = "exit_val" => AfterSchedule.pc = "exit_val"
    BY <1>1, <2>4 DEF AfterSchedule, Continuation
  <2>6. CodeOf(t).pc = "exit_val" => (CodeOf(t)').pc = "exit_val"
    <3>1. CASE Swap BY <1>2, <2>5, <3>1, SwapCode
    <3>2. CASE AllFinished \/ Keep
      <4>1. cpu' = AfterSchedule /\ ctx' = ctx /\ cpu'.me = cpu.me
        BY <2>1, <3>2, AfterFields DEF AllFinished, Keep
      <4> QED BY <1>2, <2>5, <4>1 DEF CodeOf
    <3>3. CASE ~Swap /\ ~AllFinished /\ ~Keep
      <4>1. PICK i \in SchedLabels, j \in SchedLabels : InsideFrom(i, j)
        BY <1>6, <3>3, InsideSteps, LabelSets DEF Scheduling
      <4>2. /\ cpu'.me = cpu.me /\ ctx' = ctx
            /\ cpu.pc = "exit_val" => cpu'.pc = "exit_val"
        BY <2>4, <4>1 DEF InsideFrom
      <4> QED BY <1>2, <4>2 DEF CodeOf
    <3> QED BY <3>1, <3>2, <3>3
  <2> QED BY <1>4, <2>2, <2>3, <2>6
<1>7. CASE Signal \/ Halted \/ UNCHANGED vars
  <2>1. /\ UNCHANGED <<retval, state, ctx>>
        /\ cpu' = cpu \/ cpu' = [cpu EXCEPT !.irq = "sched"]
    BY <1>7 DEF Signal, Halted, vars
  <2>2. cpu'.me = cpu.me /\ cpu'.pc = cpu.pc BY <1>1, <2>1 DEF Continuation
  <2> QED BY <1>2, <1>4, <2>1, <2>2 DEF CodeOf
<1> QED BY <1>3, <1>5, <1>6, <1>7 DEF Next

\* A step after which nobody has exited, or has found an exit, without a value.
LEMMA JoinKept ==
  ASSUME ~SlowTail, IInv, JInv, [Next]_vars,
         \A t \in Threads : state'[t] = "EXITED" => state[t] = "EXITED" \/ Valued(t)',
         \A t \in Threads : (CodeOf(t)').pc = "join_done" =>
           \E u \in Threads : u = (CodeOf(t)').arg /\ Valued(u)
  PROVE  JInv'
<1>1. \A t \in Threads : Valued(t) => Valued(t)' BY ValuedStays
<1>2. ASSUME NEW t \in Threads, (CodeOf(t)').pc = "join_done"
      PROVE  Valued(CodeOf(t).arg)'
  <2>1. PICK u \in Threads : u = (CodeOf(t)').arg /\ Valued(u) BY <1>2
  <2>2. Valued(u)' BY <1>1, <2>1
  <2> QED BY <2>1, <2>2 DEF Valued, CodeOf
<1> QED BY <1>1, <1>2 DEF JInv

\* The code of the threads that have found the exit they wait for.
LEMMA JoinedCode ==
  ASSUME IInv, JInv, NEW t \in Threads, CodeOf(t).pc = "join_done"
  PROVE  CodeOf(t).arg \in Threads /\ Valued(CodeOf(t).arg)
<1>1. CallOK(CodeOf(t)) BY DEF IInv, SavedOK, CodeOf
<1> QED BY <1>1 DEF CallOK, JInv

\* A library call other than the test of join() and those of exit().
LEMMA JoinLocal ==
  ASSUME ~SlowTail, IInv, JInv, Calling \/ Returning, ~Exit, ~ExitValue, ~JoinTest
  PROVE  JInv'
<1> USE DEF At, Goto
<1>1. cpu \in Continuation /\ ctx \in [Threads -> Continuation]
      /\ state \in [Threads -> {"NONE", "QUEUED", "YIELD", "EXITED", "JOINING",
                                "BLOCKED", "RUNNING"}]
  BY Typed DEF IInv, TypeOK
<1>2. /\ retval' = retval /\ cpu.pc \notin {"exit_val"}
      /\ \/ state' = state
         \/ \E t : \E s \in {"RUNNING", "BLOCKED", "QUEUED", "YIELD", "JOINING"} :
              state' = [state EXCEPT ![t] = s]
         \/ \E t : state' = [state EXCEPT ![Main] = "RUNNING", ![t] = "QUEUED"]
      /\ ctx' = ctx \/ \E t : ctx' = [ctx EXCEPT ![t] = UserCode(t, {})]
  <2>1. CASE Calling
    BY <2>1 DEF Calling, Running, CallFrom, Yield, Create, Join, Lock, Unlock
  <2>2. CASE Returning
    BY <2>2 DEF Returning, Arm, JoinDone, TestAndSet, LockBlock, UnlockTest, Wake,
       Release, EnqTest, EnqFront, EnqLoad, EnqLink, EnqRear, DeqAdvance, DeqClear,
       DeqTest, DeqNull
  <2> QED BY <2>1, <2>2
<1>3. cpu'.me = cpu.me /\ cpu'.pc # "join_done"
  <2> USE <1>1 DEF Continuation, UserCode
  <2>1. CASE Calling BY <2>1, CallCode
  <2>2. CASE Arm \/ JoinDone \/ TestAndSet \/ Release
    BY <2>2 DEF Arm, JoinDone, TestAndSet, Release
  <2>3. CASE LockBlock \/ UnlockTest \/ Wake \/ EnqTest
    BY <2>3 DEF LockBlock, UnlockTest, Wake, EnqTest
  <2>4. CASE EnqFront \/ EnqLoad \/ EnqLink
    BY <2>4 DEF EnqFront, EnqLoad, EnqLink
  <2>6. CASE EnqRear
    <3>1. cpu' = AfterEnqueue BY <2>6 DEF EnqRear
    <3>2. CASE cpu.op = "lock" BY <3>1, <3>2 DEF AfterEnqueue
    <3>3. CASE cpu.op = "unlock" BY <3>1, <3>3 DEF AfterEnqueue
    <3>4. CASE cpu.op \notin {"lock", "unlock"} BY <3>1, <3>4 DEF AfterEnqueue
    <3> QED BY <3>2, <3>3, <3>4
  <2>5. CASE DeqAdvance \/ DeqClear \/ DeqTest \/ DeqNull
    BY <2>5 DEF DeqAdvance, DeqClear, DeqTest, DeqNull
  <2> QED BY <2>1, <2>2, <2>3, <2>4, <2>5, <2>6 DEF Returning
<1>4. \A t \in Threads : state'[t] = "EXITED" => state[t] = "EXITED" BY <1>1, <1>2
<1>5. \A t \in Threads : t # cpu.me /\ (CodeOf(t)').pc = "join_done" =>
        CodeOf(t)' = CodeOf(t)
  <2>1. \A t \in Threads : ctx'[t] = ctx[t] \/ ctx'[t].pc = "user"
    BY <1>1, <1>2 DEF UserCode
  <2> QED BY <1>3, <2>1 DEF CodeOf
<1>6. \A t \in Threads : t = cpu.me => (CodeOf(t)').pc # "join_done"
  BY <1>3 DEF CodeOf
<1>7. [Next]_vars BY DEF Next
<1> QED BY <1>4, <1>5, <1>6, <1>7, JoinKept, JoinedCode

\* exit() goes on to the store of its value, wherever a tick suspends it, and
\* join() looks for the value only once the thread has exited.
LEMMA JoinExit ==
  ASSUME ~SlowTail, IInv, JInv, Exit \/ ExitValue \/ JoinTest
  PROVE  JInv'
<1> USE DEF At, Goto
<1>1. /\ cpu \in Continuation /\ cpu.me \in Threads /\ ~InHandler /\ ctx' = ctx
      /\ state \in [Threads -> {"NONE", "QUEUED", "YIELD", "EXITED", "JOINING",
                                "BLOCKED", "RUNNING"}]
  BY Typed DEF IInv, TypeOK, Exit, ExitValue, JoinTest, Running, CallFrom, Continuation
<1>2. [Next]_vars BY DEF Next, Calling, Returning
<1>3. ASSUME cpu'.me = cpu.me, cpu'.pc # "join_done", NEW t \in Threads,
             (CodeOf(t)').pc = "join_done"
      PROVE  \E u \in Threads : u = (CodeOf(t)').arg /\ Valued(u)
  <2>1. CodeOf(t)' = CodeOf(t) BY <1>1, <1>3 DEF CodeOf
  <2> QED BY <1>3, <2>1, JoinedCode
<1>4. CASE Exit
  <2>1. /\ cpu.pc = "user" /\ ~firstCall
        /\ state' = [state EXCEPT ![currentThread] = "EXITED"]
        /\ cpu' = [cpu EXCEPT !.op = "exit", !.pc = "exit_val"]
    BY <1>4 DEF Exit, Running, CallFrom
  <2>2. /\ cpu'.me = cpu.me /\ cpu'.pc = "exit_val" BY <1>1, <2>1 DEF Continuation
  <2>3. currentThread = cpu.me
    <3>1. ~Switching BY <1>1, <2>1 DEF Switching, SchedAt
    <3> QED BY <2>1, <3>1 DEF IInv, ContextOwner, BeforeTimer
  <2>4. ASSUME NEW t \in Threads, state'[t] = "EXITED"
        PROVE  state[t] = "EXITED" \/ Valued(t)'
    <3>1. CASE t = cpu.me BY <2>2, <2>4, <3>1 DEF Valued, CodeOf
    <3>2. CASE t # cpu.me BY <1>1, <2>1, <2>3, <2>4, <3>2
    <3> QED BY <3>1, <3>2
  <2> QED BY <1>2, <1>3, <2>2, <2>4, JoinKept
<1>5. CASE ExitValue
  <2>1. state' = state /\ cpu' = [cpu EXCEPT !.pc = "sched"] BY <1>5 DEF ExitValue
  <2>2. cpu'.me = cpu.me /\ cpu'.pc = "sched" BY <1>1, <2>1 DEF Continuation
  <2> QED BY <1>2, <1>3, <2>1, <2>2, JoinKept
<1>6. CASE JoinTest
  <2>1. /\ cpu.pc = "join_test" /\ state' = state
        /\ cpu' = [cpu EXCEPT !.pc = IF HasExited(cpu.arg) THEN "join_done" ELSE "sched"]
    BY <1>6 DEF JoinTest
  <2>2. cpu'.me = cpu.me /\ cpu'.arg = cpu.arg /\ cpu.arg \in Threads
        /\ (cpu'.pc = "join_done" => state[cpu.arg] = "EXITED")
    BY <1>1, <2>1 DEF Continuation, HasExited, IInv, CallOK
  <2>3. ASSUME NEW t \in Threads, (CodeOf(t)').pc = "join_done"
        PROVE  \E u \in Threads : u = (CodeOf(t)').arg /\ Valued(u)
    <3>1. CASE t = cpu.me
      <4>1. CodeOf(t)' = cpu' BY <2>2, <3>1 DEF CodeOf
      <4> QED BY <2>2, <2>3, <4>1 DEF JInv
    <3>2. CASE t # cpu.me
      <4>1. CodeOf(t)' = CodeOf(t) BY <1>1, <2>2, <3>2 DEF CodeOf
      <4> QED BY <2>3, <4>1, JoinedCode
    <3> QED BY <3>1, <3>2
  <2> QED BY <1>2, <2>1, <2>3, JoinKept
<1> QED BY <1>4, <1>5, <1>6

\* What schedule() returns to has found no exit that it had not found before.
LEMMA JoinAfter ==
  ASSUME IInv, NEW k \in SchedLabels, SchedAt(k)
  PROVE  AfterSchedule.pc = "join_done" =>
           cpu.pc = "join_done" /\ AfterSchedule.arg = cpu.arg
<1>1. cpu \in Continuation BY Typed
<1>2. CASE InHandler BY <1>1, <1>2 DEF AfterSchedule, Continuation
<1>3. CASE ~InHandler
  BY <1>1, <1>3 DEF AfterSchedule, UserCode, RetryLock, Continuation
<1> QED BY <1>2, <1>3

\* schedule() and its switches.
LEMMA JoinSchedule ==
  ASSUME ~SlowTail, IInv, JInv, Scheduling
  PROVE  JInv'
<1>1. PICK k \in SchedLabels : SchedAt(k)
  BY LabelSets DEF Scheduling, SchedEnter, MaintSkip, MaintPromote, MaintNextLevel,
     AllFinished, KeepAlone, KeepRunning, Requeue, Demote, Reap, Block, Dispatch,
     DispatchFrom, Keep, SwapTail, Swap
<1>2. [Next]_vars BY DEF Next
<1>3. /\ \/ state' = state
         \/ \E t : \E s \in {"QUEUED", "RUNNING"} : state' = [state EXCEPT ![t] = s]
  BY DEF Scheduling, SchedEnter, MaintSkip, MaintPromote, MaintNextLevel,
     AllFinished, KeepAlone, KeepRunning, Requeue, Demote, Reap, Block, Dispatch,
     DispatchFrom, Keep, SwapTail, Swap
<1>4. \A t \in Threads : state'[t] = "EXITED" => state[t] = "EXITED"
  <2>1. state \in [Threads -> {"NONE", "QUEUED", "YIELD", "EXITED", "JOINING",
                               "BLOCKED", "RUNNING"}]
    BY DEF IInv, TypeOK
  <2> QED BY <1>3, <2>1
<1>5. \A t \in Threads : (CodeOf(t)').pc = "join_done" =>
        CodeOf(t).pc = "join_done" /\ (CodeOf(t)').arg = CodeOf(t).arg
  <2>1. CASE Swap
    <3>1. \A t \in Threads : t = cpu.me => CodeOf(t) = cpu BY DEF CodeOf
    <3> QED BY <1>1, <2>1, <3>1, SwapCode, JoinAfter
  <2>2. CASE AllFinished \/ Keep
    <3>1. cpu' = AfterSchedule /\ ctx' = ctx /\ cpu'.me = cpu.me
      BY <1>1, <2>2, AfterFields DEF AllFinished, Keep
    <3>2. \A t \in Threads :
            /\ t = cpu.me => CodeOf(t) = cpu /\ CodeOf(t)' = AfterSchedule
            /\ t # cpu.me => CodeOf(t)' = CodeOf(t)
      BY <3>1 DEF CodeOf
    <3> QED BY <1>1, <3>2, JoinAfter
  <2>3. CASE ~Swap /\ ~AllFinished /\ ~Keep
    <3>1. PICK i \in SchedLabels, j \in SchedLabels : InsideFrom(i, j)
      BY <2>3, InsideSteps, LabelSets DEF Scheduling
    <3>2. /\ cpu'.me = cpu.me /\ cpu'.arg = cpu.arg /\ ctx' = ctx
          /\ cpu'.pc = "join_done" => cpu.pc = "join_done"
      BY <3>1 DEF InsideFrom, SchedLabels
    <3> QED BY <3>2 DEF CodeOf
  <2> QED BY <2>1, <2>2, <2>3
<1> QED BY <1>2, <1>3, <1>4, <1>5, JoinKept, JoinedCode

\* When join() returns, the value it hands back is the one that the thread it
\* names gave to my_pthread_exit (my_pthread.c:112-119), unless a tick has
\* suspended that thread between the two stores of exit() (99-100).
THEOREM JoinsReturnValue == ASSUME ~SlowTail PROVE Spec => []JoinValue
<1>1. Init => IInv /\ TInv /\ JInv
  <2>1. Init => TInv /\ JInv
    BY DEF Init, TInv, ExitOK, TimerOK, PreemptionArmed, Switching, SchedAt,
       InHandler, CodeOf, UserCode, JInv
  <2> QED BY <2>1, InitInv
<1>2. ASSUME IInv, JInv, [Next]_vars PROVE JInv'
  <2>1. CASE Calling \/ Returning BY <1>2, <2>1, JoinLocal, JoinExit
  <2>2. CASE Scheduling BY <1>2, <2>2, JoinSchedule
  <2>3. CASE Signal \/ Halted \/ UNCHANGED vars
    <3>1. /\ UNCHANGED <<state, ctx>> /\ cpu \in Continuation
          /\ cpu' = cpu \/ cpu' = [cpu EXCEPT !.irq = "sched"]
      BY <1>2, <2>3, Typed DEF Signal, Halted, vars
    <3>2. cpu'.me = cpu.me /\ cpu'.arg = cpu.arg /\ cpu'.pc = cpu.pc
      BY <3>1 DEF Continuation
    <3>3. \A t \in Threads :
            (CodeOf(t)').pc = CodeOf(t).pc /\ (CodeOf(t)').arg = CodeOf(t).arg
      BY <3>1, <3>2 DEF CodeOf
    <3> QED BY <1>2, <3>1, <3>3, JoinKept, JoinedCode
  <2> QED BY <1>2, <2>1, <2>2, <2>3 DEF Next
<1>3. IInv /\ JInv /\ [Next]_vars => IInv' /\ JInv'
  BY <1>2, NextInv
<1>4. IInv /\ JInv => JoinValue
  <2>1. SUFFICES ASSUME IInv, JInv, At("join_done")
                 PROVE  retval[cpu.arg] = cpu.arg \/ CodeOf(cpu.arg).pc = "exit_val"
    BY DEF JoinValue
  <2>2. cpu.me \in Threads BY <2>1, Typed DEF Continuation
  <2> QED BY <2>1, <2>2 DEF JInv, Valued, CodeOf, At
<1> QED BY <1>1, <1>3, <1>4, PTL DEF Spec
=============================================================================
