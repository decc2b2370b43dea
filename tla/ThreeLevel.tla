----------------------------- MODULE ThreeLevel -----------------------------
(* src/matrix/my_pthread.c, the earlier library of the benchmarks: three      *)
(* queues and yield() as the scheduler.  The SIGALRM handler is a yield() on   *)
(* top of whatever it interrupts, the calls of the library included; the       *)
(* signal is blocked only while the handler is on the stack.  One step is one  *)
(* C statement; statements that touch nothing but locals or a struct nobody    *)
(* else knows yet belong to the next one or to the call.                       *)
(*                                                                            *)
(* stack[t] is what is on the stack of t above its client code, the frame that *)
(* runs first.  A label is the line it stands for.  swapcontext() leaves the   *)
(* stack the processor is on (running) for the one a struct refers to (ctx);   *)
(* sched->current_thread is a pointer of its own.                              *)
EXTENDS Integers, Sequences

CONSTANTS
  MAX_THREAD,  \* threads main may create
  MAX_FRAMES   \* frames on a stack: a DONE thread may be resumed for ever

ASSUME ThreadAssumption == MAX_THREAD \in Nat /\ MAX_FRAMES \in Nat

Workers == 1 .. MAX_THREAD
Main == 0
NULL == -1
Threads == Workers \cup {Main}
Levels == 0 .. 2

VARIABLES
  MLQ_Running,     \* head, tail and size of each queue
  next,            \* the link in each struct
  status, priority, parent,
  current_thread,
  running,         \* whose stack the processor is on
  stack,           \* the frames of each thread, above its client code
  ctx,             \* the stack thread_context resumes; NULL once that has run on
  armed,           \* the one-shot timer is set, or its signal pending
  outcome          \* how the process ended, or "runs"

queues == <<MLQ_Running, next>>
structs == <<status, priority, parent>>
switch == <<current_thread, running, ctx>>
signal == <<armed, outcome>>
libvars == <<queues, structs, switch, stack, signal>>

-----------------------------------------------------------------------------
(* Frames. *)

\* level: the queue, or i of yield(); node: the thread that is enqueued, the
\* front of dequeue(), thr of yield() or the child of join().
Frame(l, q, t) == [at |-> l, level |-> q, node |-> t, irq |-> FALSE,
                   curr |-> NULL, new_priority |-> 0]

enqueue(q, t) == Frame("327", q, t)
dequeue(q)    == Frame("342", q, NULL)
yield         == Frame("77", 0, NULL)
handler       == [yield EXCEPT !.irq = TRUE]
exit          == Frame("158", 0, NULL)
join(child)   == Frame("170", 0, child)
createTail    == Frame("44", 0, NULL)

Top   == Head(stack[running])
Below == Tail(stack[running])

InClient == outcome = "runs" /\ stack[running] = <<>>
At(l)    == outcome = "runs" /\ stack[running] # <<>> /\ Top.at = l

Stack(s)   == stack' = [stack EXCEPT ![running] = s]
Become(f)  == Stack(<<f>> \o Below)
Goto(l)    == Become([Top EXCEPT !.at = l])
Call(f, l) == Stack(<<f, [Top EXCEPT !.at = l]>> \o Below)
Return     == Stack(Below)

End(how) == outcome' = how /\ UNCHANGED <<queues, structs, switch, stack, armed>>

\* A statement that leaves everything but the stack alone.
Local == UNCHANGED <<queues, structs, switch, signal>>

-----------------------------------------------------------------------------
\* initializeScheduler(), called by the first create: main runs and is ACTIVE.
\* What nobody writes (next, parent_thread, main's priority_level) is 0, the
\* memory malloc() hands out being fresh.
LibInit ==
  /\ MLQ_Running = [l \in Levels |-> [head |-> NULL, tail |-> NULL, size |-> 0]]
  /\ next = [t \in Threads |-> NULL]
  /\ status = [t \in Threads |-> "ACTIVE"]
  /\ priority = [t \in Threads |-> 0]
  /\ parent = [t \in Threads |-> NULL]
  /\ current_thread = Main /\ running = Main
  /\ stack = [t \in Threads |-> <<>>]
  /\ ctx = [t \in Threads |-> NULL]
  /\ armed = FALSE
  /\ outcome = "runs"

-----------------------------------------------------------------------------
(* enqueue() and dequeue(). *)

Queue == MLQ_Running[Top.level]
Size(k) == MLQ_Running' = [MLQ_Running EXCEPT ![Top.level].size = @ + k]

EnqueueTest ==
  /\ At("327")
  /\ Goto(IF Queue.size = 0 THEN "328" ELSE "334")
  /\ Local

EnqueueFirst ==
  /\ At("328")
  /\ MLQ_Running' = [MLQ_Running EXCEPT ![Top.level].head = Top.node,
                                        ![Top.level].tail = Top.node]
  /\ Goto("337")
  /\ UNCHANGED <<next, structs, switch, signal>>

\* tail is not advanced.
EnqueueLink ==
  /\ At("334") /\ Queue.tail # NULL
  /\ next' = [next EXCEPT ![Queue.tail] = Top.node]
  /\ Goto("336")
  /\ UNCHANGED <<MLQ_Running, structs, switch, signal>>

EnqueueLast ==
  /\ At("336")
  /\ next' = [next EXCEPT ![Top.node] = NULL]
  /\ Goto("337")
  /\ UNCHANGED <<MLQ_Running, structs, switch, signal>>

\* Lines 330 and 337.
EnqueueCount ==
  /\ At("337")
  /\ Size(1)
  /\ Return
  /\ UNCHANGED <<next, structs, switch, signal>>

DequeueFront ==
  /\ At("342")
  /\ Become([Top EXCEPT !.at = "343", !.node = Queue.head])
  /\ Local

DequeueTest ==
  /\ At("343")
  /\ Goto(IF Queue.size = 1 THEN "344" ELSE "348")
  /\ Local

DequeueCountLast ==
  /\ At("344")
  /\ Size(-1)
  /\ Goto("345")
  /\ UNCHANGED <<next, structs, switch, signal>>

\* return front
Returns(t) == Stack(<<[Below[1] EXCEPT !.node = t]>> \o Tail(Below))

DequeueClear ==
  /\ At("345")
  /\ MLQ_Running' = [MLQ_Running EXCEPT ![Top.level].head = NULL,
                                        ![Top.level].tail = NULL]
  /\ Returns(Top.node)
  /\ UNCHANGED <<next, structs, switch, signal>>

DequeueAdvance ==
  /\ At("348") /\ Top.node # NULL
  /\ MLQ_Running' = [MLQ_Running EXCEPT ![Top.level].head = next[Top.node]]
  /\ Goto("349")
  /\ UNCHANGED <<next, structs, switch, signal>>

DequeueUnlink ==
  /\ At("349")
  /\ next' = [next EXCEPT ![Top.node] = NULL]
  /\ Goto("350")
  /\ UNCHANGED <<MLQ_Running, structs, switch, signal>>

DequeueCount ==
  /\ At("350")
  /\ Size(-1)
  /\ Returns(Top.node)
  /\ UNCHANGED <<next, structs, switch, signal>>

\* A NULL tail or head is followed, or dequeue() has returned NULL.
FollowNull ==
  /\ \/ At("334") /\ Queue.tail = NULL
     \/ At("348") /\ Top.node = NULL
     \/ At("96") /\ Top.node = NULL
  /\ End("crash")

Lists ==
  \/ EnqueueTest \/ EnqueueFirst \/ EnqueueLink \/ EnqueueLast \/ EnqueueCount
  \/ DequeueFront \/ DequeueTest \/ DequeueCountLast \/ DequeueClear
  \/ DequeueAdvance \/ DequeueUnlink \/ DequeueCount \/ FollowNull

-----------------------------------------------------------------------------
(* my_pthread_yield(). *)

YieldCurrent ==
  /\ At("77")
  /\ Become([Top EXCEPT !.at = "79", !.curr = current_thread])
  /\ Local

YieldTestRunning ==
  /\ At("79")
  /\ Goto(IF status[Top.curr] = "RUNNING" THEN "80" ELSE "83")
  /\ Local

YieldPause ==
  /\ At("80")
  /\ status' = [status EXCEPT ![Top.curr] = "PAUSED"]
  /\ Goto("83")
  /\ UNCHANGED <<queues, priority, parent, switch, signal>>

YieldTestDone ==
  /\ At("83")
  /\ Goto(IF status[Top.curr] = "DONE" THEN "84" ELSE "87")
  /\ Local

YieldParent ==
  /\ At("84")
  /\ status' = IF parent[Top.curr] = NULL THEN status
               ELSE [status EXCEPT ![parent[Top.curr]] = "RUNNING"]
  /\ Goto("87")
  /\ UNCHANGED <<queues, priority, parent, switch, signal>>

\* Mutant: the priority grows without end.
Uncapped(l) == l
Capped(l) == IF l > 2 THEN 2 ELSE l

YieldPriority ==
  /\ At("87")
  /\ Become([Top EXCEPT !.at = "89", !.new_priority = Capped(priority[Top.curr] + 1)])
  /\ Local

YieldLower ==
  /\ At("89")
  /\ priority' = [priority EXCEPT ![Top.curr] = Top.new_priority]
  /\ Goto("93")
  /\ UNCHANGED <<queues, status, parent, switch, signal>>

YieldScan ==
  /\ At("93")
  /\ IF Top.level \notin Levels THEN Goto("119")
     ELSE IF MLQ_Running[Top.level].size = 0 THEN Become([Top EXCEPT !.level = @ + 1])
     ELSE Call(dequeue(Top.level), "96")
  /\ Local

YieldFindsActive ==
  /\ At("96") /\ Top.node # NULL /\ status[Top.node] = "ACTIVE"
  /\ End("exit(1)")

YieldTestActive ==
  /\ At("96") /\ Top.node # NULL /\ status[Top.node] # "ACTIVE"
  /\ Goto("99")
  /\ Local

\* A BLOCKED thread is out of the queue and nobody's concern any more.
YieldTestBlocked ==
  /\ At("99")
  /\ IF status[Top.node] = "BLOCKED" THEN Become([Top EXCEPT !.at = "93", !.level = @ + 1])
                                    ELSE Goto("102")
  /\ Local

\* Lines 102, 103 and 109: curr is queued, in whatever state it is.
YieldEnqueue ==
  /\ At("102")
  /\ Call(enqueue(Top.new_priority, Top.curr),
          IF status[Top.node] = "DONE" THEN "104" ELSE "112")
  /\ Local

YieldAssign ==
  /\ At("112")
  /\ current_thread' = Top.node
  /\ Goto("113")
  /\ UNCHANGED <<queues, structs, running, ctx, signal>>

\* swapcontext(&curr->thread_context, &thr->thread_context).  If the two are one
\* the stack runs on, and the struct refers to where it has left.
Swap(l) ==
  IF Top.node = Top.curr
  THEN /\ ctx' = [ctx EXCEPT ![Top.curr] = NULL]
       /\ Goto(l)
       /\ UNCHANGED <<queues, structs, current_thread, running, signal>>
  ELSE /\ ctx[Top.node] # NULL
       /\ running' = ctx[Top.node]
       /\ ctx' = [ctx EXCEPT ![Top.node] = NULL, ![Top.curr] = running]
       /\ Goto(l)
       /\ UNCHANGED <<queues, structs, current_thread, signal>>

YieldSwap == (At("104") /\ Swap("105")) \/ (At("113") /\ Swap("119"))

\* The context is one whose stack has run on since: what its frames hold now,
\* nobody knows.
YieldSwapStale ==
  /\ At("104") \/ At("113")
  /\ Top.node # Top.curr /\ ctx[Top.node] = NULL
  /\ End("undefined")

\* Back from the DONE thread that was resumed: exit() for whoever is current.
YieldExits ==
  /\ At("105") /\ Len(stack[running]) < MAX_FRAMES
  /\ Call(exit, "119")
  /\ Local

\* Lines 119 to 131.
YieldTimer ==
  /\ At("119")
  /\ armed' = TRUE
  /\ Return
  /\ UNCHANGED <<queues, structs, switch, outcome>>

Yield ==
  \/ YieldCurrent \/ YieldTestRunning \/ YieldPause \/ YieldTestDone \/ YieldParent
  \/ YieldPriority \/ YieldLower \/ YieldScan
  \/ YieldFindsActive \/ YieldTestActive \/ YieldTestBlocked \/ YieldEnqueue
  \/ YieldAssign \/ YieldSwap \/ YieldSwapStale \/ YieldExits \/ YieldTimer

-----------------------------------------------------------------------------
(* create, exit and join.  What create writes into the new struct before it   *)
(* is enqueued nobody else can see.                                            *)

my_pthread_create(t) ==
  /\ status' = [status EXCEPT ![t] = "RUNNING"]
  /\ priority' = [priority EXCEPT ![t] = 0]
  /\ ctx' = [ctx EXCEPT ![t] = t]
  /\ Stack(<<enqueue(0, t), createTail>>)
  /\ UNCHANGED <<queues, parent, current_thread, running, signal>>

CreateTimer ==
  /\ At("44")
  /\ armed' = TRUE
  /\ Return
  /\ UNCHANGED <<queues, structs, switch, outcome>>

ExitDone ==
  /\ At("158")
  /\ status' = [status EXCEPT ![current_thread] = "DONE"]
  /\ Goto("160")
  /\ UNCHANGED <<queues, priority, parent, switch, signal>>

ExitYields == At("160") /\ Call(yield, "161") /\ Local

ExitReturns == At("161") /\ Return /\ Local

JoinParent ==
  /\ At("170")
  /\ parent' = [parent EXCEPT ![Top.node] = current_thread]
  /\ Goto("171")
  /\ UNCHANGED <<queues, status, priority, switch, signal>>

JoinBlock ==
  /\ At("171")
  /\ status' = [status EXCEPT ![current_thread] = "BLOCKED"]
  /\ Goto("172")
  /\ UNCHANGED <<queues, priority, parent, switch, signal>>

\* Mutant: any thread that is not running is taken for one that is done.
NotRunning(t) == status[t] # "RUNNING"
ChildDone(t) == status[t] = "DONE"

JoinWhile ==
  /\ At("172")
  /\ IF ChildDone(Top.node) THEN Return ELSE Call(yield, "172")
  /\ Local

Calls == CreateTimer \/ ExitDone \/ ExitYields \/ ExitReturns
         \/ JoinParent \/ JoinBlock \/ JoinWhile

-----------------------------------------------------------------------------
\* SIGALRM, blocked while its handler is on the stack.
InHandler ==
  \E k \in DOMAIN stack[running] : stack[running][k].irq

Tick ==
  /\ outcome = "runs" /\ armed /\ ~InHandler
  /\ armed' = FALSE
  /\ Stack(<<handler>> \o stack[running])
  /\ UNCHANGED <<queues, structs, switch, outcome>>

Library == Lists \/ Yield \/ Calls
=============================================================================
