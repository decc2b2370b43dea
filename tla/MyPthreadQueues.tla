--------------------------- MODULE MyPthreadQueues ---------------------------
(***************************************************************************)
(* The inductive invariant behind what MyPthreadTicks says of the queues,  *)
(* as long as no tick has torn an update (Intact there) and ~SlowTail.     *)
(*                                                                         *)
(* Two functions stand for the lists: where[t] is the queue whose list t   *)
(* is in, NULL for none, and place[t] orders the threads of a queue.  The  *)
(* pointers are right when front is the first of its queue in that order   *)
(* and next the successor; no statement about a path is needed.            *)
(***************************************************************************)
EXTENDS MyPthreadProps, MyPthreadInv

\* A tick at any of these statements finds an update half done, or a test
\* that the statement relies on already made.
Critical == EnqLabels \cup DeqLabels \cup {"lock_block", "release"}

\* The fronts f, rears r and links n are those of disjoint lists.
Lists(f, r, n, where, place) ==
  /\ \A q \in Queues :
       /\ f[q] # NULL => where[f[q]] = q
       /\ r[q] = NULL <=> f[q] = NULL
       /\ r[q] # NULL => where[r[q]] = q /\ n[r[q]] = NULL
  /\ \A t \in Threads : where[t] = NULL => n[t] = NULL
  /\ \A t \in Threads : where[t] # NULL =>
       /\ f[where[t]] # NULL /\ place[f[where[t]]] <= place[t]
       /\ n[t] # NULL => where[n[t]] = where[t] /\ place[t] < place[n[t]]
  /\ \A t, u \in Threads : where[t] # NULL /\ where[u] = where[t] =>
       /\ place[t] = place[u] => t = u
       /\ place[t] < place[u] => n[t] # NULL /\ place[n[t]] <= place[u]

\* rear and next as enqueue() and dequeue() are about to write them.
Ends ==
  [q \in Queues |->
     IF cpu.pc = "enq_rear" /\ q = cpu.q THEN cpu.thr
     ELSE IF /\ cpu.pc \in {"deq_clear", "deq_test", "deq_null"}
             /\ q = cpu.arg /\ front[q] = NULL THEN NULL
     ELSE rear[q]]

Links ==
  [t \in Threads |-> IF cpu.pc = "deq_clear" /\ t = cpu.thr THEN NULL ELSE next[t]]

\* The thread that enqueue() or dequeue() has in hand is in no queue.
CarryLabels == (EnqLabels \ {"enq_rear"}) \cup (DeqLabels \ {"deq_adv"})
Carried(t) == cpu.pc \in CarryLabels /\ cpu.thr = t

\* t is in the lock() of m.
Waits(t, m) == CodeOf(t).op = "lock" /\ CodeOf(t).arg = m

\* Every state has its queue.
Placed(where) ==
  \A t \in Threads :
    /\ state[t] = "QUEUED" => where[t] = IF Carried(t) THEN NULL ELSE priority[t]
    /\ state[t] = "BLOCKED" =>
         IF Carried(t) THEN where[t] = NULL
                       ELSE where[t] \in Mutexes /\ Waits(t, where[t])
    /\ state[t] \in {"RUNNING", "YIELD", "JOINING"} => t = currentThread
    /\ state[t] \notin {"QUEUED", "BLOCKED"} => where[t] = NULL
    /\ state[t] = "NONE" =>
         ctx[t].held = {} /\ (t = cpu.me => currentThread = NULL)

\* The state of the current thread at each label of schedule().
CurrentOK ==
  currentThread # NULL =>
    /\ Switching => CurrentIs("RUNNING")
    /\ SchedAt("next") => state[currentThread] \in {"QUEUED", "BLOCKED", "EXITED"}
    /\ ~SchedAt("next") =>
         \/ state[currentThread] \in {"RUNNING", "YIELD", "JOINING", "EXITED"}
         \/ /\ CurrentIs("BLOCKED") /\ cpu.op = "lock"
            /\ cpu.pc \in EnqLabels \cup {"sched", "maint", "switch"} /\ ~SchedAt("keep")

\* The statements of each library call.
Body(op) ==
  CASE op = "none"   -> {"user"}
    [] op = "create" -> EnqLabels \cup {"arm"}
    [] op = "yield"  -> SchedLabels
    [] op = "exit"   -> SchedLabels \cup {"exit_val", "halt"}
    [] op = "join"   -> SchedLabels \cup {"join_test", "join_done"}
    [] op = "lock"   -> EnqLabels \cup SchedLabels \cup {"lock_tas", "lock_block"}
    [] op = "unlock" -> EnqLabels \cup DeqLabels \cup {"unlock", "release"}

InBody(c) ==
  /\ c.op \in ClientCalls \cup {"none"} /\ c.pc \in Body(c.op)
  /\ c.op = "exit" => c.held = {}

\* No tick has found a thread at a critical statement.
MaskOK ==
  /\ InHandler => cpu.pc \notin Critical
  /\ InBody(cpu) /\ (cpu.pc = "arm" => firstCall)
  /\ \A t \in Threads : t # cpu.me =>
       InBody(ctx[t]) /\ ctx[t].op # "create" /\ ctx[t].pc \notin Critical

\* What enqueue() and dequeue() have in hand at each of their statements.
CarryOK(where) ==
  /\ cpu.pc \in EnqLabels =>
       /\ where[cpu.thr] = IF cpu.pc = "enq_rear" THEN cpu.q ELSE NULL
       /\ cpu.op = "lock" =>
            cpu.thr = currentThread /\ CurrentIs("BLOCKED") /\ cpu.q = cpu.arg
       /\ cpu.op # "lock" =>
            cpu.thr # cpu.me /\ state[cpu.thr] = "QUEUED" /\ cpu.q = priority[cpu.thr]
       /\ cpu.op = "unlock" => Waits(cpu.thr, cpu.arg)
       /\ cpu.pc = "enq_front" => rear[cpu.q] = NULL
       /\ cpu.pc = "enq_load" => rear[cpu.q] # NULL
       /\ cpu.pc = "enq_link" => rear[cpu.q] # NULL /\ cpu.reg = rear[cpu.q]
  /\ cpu.pc = "deq_adv" => cpu.thr = front[cpu.arg]
  /\ cpu.pc \in DeqLabels \ {"deq_adv"} =>
       state[cpu.thr] = "BLOCKED" /\ Waits(cpu.thr, cpu.arg)
  /\ cpu.pc = "deq_null" => front[cpu.arg] = NULL
  /\ cpu.op = "lock" /\ cpu.pc \in EnqLabels \cup {"lock_block"} => flag[cpu.arg] = 1

\* A taken mutex has its holder.
HolderOK ==
  \A m \in Mutexes : flag[m] = 1 => \E t \in Threads : m \in CodeOf(t).held

\* The waiters of a mutex that is free, or about to be, have one that is awake.
Freeing(m) == flag[m] = 0 \/ (cpu.pc = "release" /\ cpu.arg = m)
Awake(t, m) ==
  /\ Waits(t, m) /\ CodeOf(t).pc \in SchedLabels \cup {"lock_tas"}
  /\ state[t] \in {"RUNNING", "QUEUED"}
WakeOK ==
  \A m \in Mutexes :
    front[m] # NULL /\ Freeing(m) => \E t \in Threads : Awake(t, m)

\* maintenance() walks the list of its level.
WalkOK(where) ==
  SchedAt("maint") =>
    /\ walk.i # 0
    /\ walk.ptr # NULL =>
         /\ where[walk.ptr] = walk.i
         /\ walk.ptr # front[walk.i] =>
              /\ walk.prev # NULL /\ where[walk.prev] = walk.i
              /\ next[walk.prev] = walk.ptr

FreedOK ==
  /\ cpu.me \in freed => SchedAt("next") \/ Switching
  /\ \A t \in freed : state[t] = "EXITED"

QueueInv(where, place) ==
  /\ where \in [Threads -> Queues \cup {NULL}] /\ place \in [Threads -> Nat]
  /\ Lists(front, Ends, Links, where, place)
  /\ Placed(where) /\ CurrentOK /\ MaskOK /\ CarryOK(where) /\ HolderOK /\ WakeOK
  /\ WalkOK(where) /\ FreedOK

ListInv == \E where, place : QueueInv(where, place)

----------------------------------------------------------------------------
(* The invariant behind JoinValue, on top of IInv and TInv.                 *)

\* t has left its value, or stands before the store that does.
Valued(t) == retval[t] = t \/ (CodeOf(t).pc = "exit_val" /\ state[t] # "NONE")

JInv ==
  \A t \in Threads :
    /\ state[t] = "EXITED" => Valued(t)
    /\ CodeOf(t).pc = "join_done" => Valued(CodeOf(t).arg)
============================================================================
