--------------------------- MODULE MyPthreadTicks ----------------------------
(***************************************************************************)
(* What the queues and the states of MyPthread promise, wherever SIGALRM   *)
(* falls, up to the first tick that the code does not survive.  The        *)
(* library masks no signal outside schedule(): a tick between the          *)
(* statements of enqueue() or dequeue(), or between a test of lock() or    *)
(* unlock() and the store that relies on it, lets schedule() loose on      *)
(* half-written queues.  The history variable torn remembers that it       *)
(* happened.  No action of MyPthread reads it.                             *)
(***************************************************************************)
EXTENDS MyPthreadQueues

VARIABLE torn

hvars == <<vars, torn>>

\* schedule() starts in the handler on top of a half-done update.
TearingTick == Signal /\ InHandler' /\ cpu.pc \in Critical

\* schedule() returns into the lock() of a thread that waits: nobody else is
\* ready.  The thread is about to enqueue itself once more.
Recalled == SchedAt("switch") /\ ~CheckNextThread /\ CurrentIs("BLOCKED")

HInit == Init /\ torn = FALSE
HNext == Next /\ torn' = (torn \/ TearingTick \/ (Recalled /\ KeepAlone))
HSpec == HInit /\ [][HNext]_hvars

Intact == ~torn

\* Some mutexes are each held by a thread that waits for another of them.
CircularWait ==
  \E S \in SUBSET Mutexes :
    /\ S # {}
    /\ \A m \in S : \E t \in Threads :
         m \in CodeOf(t).held /\ state[t] = "BLOCKED" /\ \E l \in S : Waits(t, l)

----------------------------------------------------------------------------
\* No NULL is stored through, every queue is a NULL-terminated list without
\* repetition that ends at its rear, and no thread is in two (lists that share
\* a thread share their end): enqueue, dequeue, maintenance and getNextThread
\* agree on the lists (my_pthread.c:135-184, 230-291).  A list
\* that repeats itself has no end: Chain cuts it at one thread too many.
QueueIntegrity ==
  Intact =>
    /\ cpu.pc # "segv"
    /\ ~MidUpdate =>
         /\ \A q \in Queues :
              LET c == Chain(q)
              IN  /\ Len(c) <= Cardinality(Threads)
                  /\ rear[q] = IF c = <<>> THEN NULL ELSE c[Len(c)]
         /\ \A q, r \in Queues : q # r /\ rear[q] # NULL => rear[q] # rear[r]

\* No thread is lost: one that is created and has not exited is the current
\* one, waits in the queue its state names (the run queue of its priority for
\* QUEUED, a wait queue for BLOCKED), or is in the hand of create or unlock.
Accounted ==
  Intact => \A t \in Threads :
    CASE state[t] = "QUEUED"  -> In(t, priority[t]) \/ InHand(t)
      [] state[t] = "BLOCKED" -> \/ t = currentThread
                                 \/ \E m \in Mutexes : In(t, m)
                                 \/ InHand(t)
      [] state[t] \in {"RUNNING", "YIELD", "JOINING"} -> t = currentThread
      [] OTHER -> \A q \in Queues : ~In(t, q)

\* Threads wait on a free mutex only while one that unlock() woke is on its
\* way back to the test-and-set: the queue is never left with nobody to wake
\* it (my_pthread.c:461-488).
NoLostWakeup ==
  Intact => \A m \in Mutexes :
    front[m] # NULL /\ flag[m] = 0 => \E t \in Threads : Awake(t, m)

\* Once schedule() has freed a thread's stack only the rest of that schedule()
\* runs on it (my_pthread.c:361-366, 417-441), and a thread that has exited
\* stays EXITED.
FreedStackUnused == Intact /\ cpu.me \in freed => SchedAt("next") \/ Switching
ExitedForGood ==
  [][Intact' => \A t \in Threads : state[t] = "EXITED" => state'[t] = "EXITED"]_hvars

\* When schedule() says that all threads have finished running, they have:
\* none is ready, and none waits for a mutex (my_pthread.c:321-328).
AllFinishedIsTrue ==
  Intact /\ SchedAt("switch") /\ ~CheckNextThread /\ CurrentIs("EXITED") =>
    \/ \A t \in Threads : state[t] \in {"NONE", "EXITED"}
    \/ CircularWait

\* A thread that gives up the processor leaves it to another: schedule() does
\* not return to the lock() of a thread that has to wait, which would enqueue
\* it again (my_pthread.c:321, 461-473), and getNextThread() finds the thread
\* whose state is then written (423).
SomebodyIsReady ==
  Intact =>
    /\ SchedAt("switch") /\ CurrentIs("BLOCKED") => CheckNextThread \/ CircularWait
    /\ SchedAt("next") => CheckNextThread

----------------------------------------------------------------------------
\* The multilevel feedback queue the library implements.  A thread leaves the
\* processor when schedule() decides so, and a wait queue when it is ready.

AbsRunning ==
  IF currentThread = NULL THEN Main
  ELSE IF SchedAt("next") THEN NULL ELSE currentThread

AbsWaiting(m) ==
  LET c      == Chain(m)
      waking == cpu.op = "unlock" /\ cpu.arg = m /\ InHand(cpu.thr)
      queued == c # <<>> /\ c[Len(c)] = AbsRunning
  IN  (IF waking THEN <<cpu.thr>> ELSE <<>>)
        \o (IF queued THEN SubSeq(c, 1, Len(c) - 1) ELSE c)

Feedback == INSTANCE MLFQ WITH
  running <- AbsRunning,
  ready   <- [i \in Levels |-> Chain(i)],
  waiting <- [m \in Mutexes |-> AbsWaiting(m)],
  level   <- priority,
  new     <- {t \in Threads \ {Main} :
                state[t] = "NONE" \/ (cpu.op = "create" /\ InHand(t))}

\* The library implements MLFQ: whatever the client does and wherever the tick
\* falls, up to the first that tears an update, threads change queue, level
\* and processor only as the feedback queue allows.
ImplementsMLFQ ==
  /\ Feedback!Init
  /\ [][Intact' => Feedback!Next \/ UNCHANGED Feedback!vars]_hvars
============================================================================
