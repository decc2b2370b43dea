---------------------------- MODULE MMatrixProps ----------------------------
(* What is checked of the earlier library and its client mmatrix.c.          *)
EXTENDS MMatrix

Pointers == Threads \cup {NULL}

Labels ==
  {"327", "328", "334", "336", "337",                               \* enqueue
   "342", "343", "344", "345", "348", "349", "350",                 \* dequeue
   "77", "79", "80", "83", "84", "87", "89", "93", "96", "99",      \* yield
   "102", "104", "105", "112", "113", "119",
   "44", "158", "160", "161", "170", "171", "172"}

Frames ==
  [at : Labels, level : Levels \cup {3}, node : Pointers, irq : BOOLEAN,
   curr : Pointers, new_priority : Levels]

\* The variables are what the code declares, wherever ticks fall.
\* priority_level, which is the index of the queue a thread goes to, is one of
\* three, although two yield()s may count it up at once.  The size of a queue may
\* be anything, below 0 too (ticks inside dequeue(), 343-344).
TypeOK ==
  /\ MLQ_Running \in [Levels -> [head : Pointers, tail : Pointers, size : Int]]
  /\ next \in [Threads -> Pointers]
  /\ status \in [Threads -> {"ACTIVE", "RUNNING", "PAUSED", "BLOCKED", "DONE"}]
  /\ priority \in [Threads -> Levels]
  /\ parent \in [Threads -> Pointers]
  /\ current_thread \in Threads /\ running \in Threads
  /\ stack \in [Threads -> Seq(Frames)]
  /\ ctx \in [Threads -> Pointers]
  /\ armed \in BOOLEAN
  /\ outcome \in {"runs", "crash", "exit(1)", "undefined",
                  "success", "errors", "worker returned"}
  /\ n \in Workers /\ created \in 0 .. n /\ joined \in 0 .. n
  /\ computed \subseteq 1 .. n

\* A join that returns (my_pthread.c 172-183) has waited for its worker: that
\* one has computed its rows and called exit, so check_matrix() never counts an
\* element wrong.  A worker is DONE only after its own code has called exit: the
\* exit() of line 105, which acts for whoever is current, may end main, never a
\* worker with rows to compute.  This survives whatever ticks in the middle of
\* create, yield, exit, enqueue and dequeue do to the queues and to whom the calls
\* act for, as long as no stale context is resumed (outcome "undefined").
JoinWaits ==
  /\ \A w \in 1 .. joined : w \in computed /\ pc[w] = "exited"
  /\ \A w \in Workers : status[w] = "DONE" => pc[w] = "exited"
  /\ outcome # "errors"

\* "never happens" (mmatrix.c 50): nothing of a worker runs after its exit.
NeverReturns == outcome # "worker returned"
=============================================================================
