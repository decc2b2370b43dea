------------------------------- MODULE MLFQ --------------------------------
(***************************************************************************)
(* What the library promises its client: a multilevel feedback queue.  The *)
(* thread that runs leaves the processor by yielding, by using up its      *)
(* slice (one level down), by exiting or by waiting for a mutex; the next  *)
(* one is the oldest of the best level; an aged thread may move to the     *)
(* back of the best level, and unlock() makes the first waiter ready.      *)
(***************************************************************************)
EXTENDS Naturals, Sequences

CONSTANTS Threads, Main, Mutexes, NULL, RUN_QUEUES

Levels == 0 .. RUN_QUEUES - 1

VARIABLES
  running,  \* the thread on the processor, NULL while one is chosen
  ready,    \* ready[i]: the threads of level i, first come first served
  waiting,  \* waiting[m]: the threads that wait for mutex m
  level,    \* the level each thread returns to
  new       \* the threads not created yet

vars == <<running, ready, waiting, level, new>>

Init ==
  /\ running = Main
  /\ ready = [i \in Levels |-> <<>>]
  /\ waiting = [m \in Mutexes |-> <<>>]
  /\ level = [t \in Threads |-> 0]
  /\ new = Threads \ {Main}

MakeReady(t, i) == ready' = [ready EXCEPT ![i] = Append(@, t)]

Create(t) ==
  /\ running # NULL /\ t \in new
  /\ new' = new \ {t}
  /\ MakeReady(t, level[t])
  /\ UNCHANGED <<running, waiting, level>>

Leave == running # NULL /\ running' = NULL

Yield ==
  /\ Leave
  /\ MakeReady(running, level[running])
  /\ UNCHANGED <<waiting, level, new>>

Expire ==
  /\ Leave
  /\ LET below == IF level[running] = RUN_QUEUES - 1 THEN level[running]
                  ELSE level[running] + 1
     IN /\ level' = [level EXCEPT ![running] = below]
        /\ MakeReady(running, below)
  /\ UNCHANGED <<waiting, new>>

Exit == Leave /\ UNCHANGED <<ready, waiting, level, new>>

Wait(m) ==
  /\ Leave
  /\ waiting' = [waiting EXCEPT ![m] = Append(@, running)]
  /\ UNCHANGED <<ready, level, new>>

Wake(m) ==
  /\ running # NULL /\ waiting[m] # <<>>
  /\ waiting' = [waiting EXCEPT ![m] = Tail(@)]
  /\ MakeReady(Head(waiting[m]), level[Head(waiting[m])])
  /\ UNCHANGED <<running, level, new>>

\* The thread at place k of level i goes to the back of level 0.
Boost(i, k) ==
  /\ running # NULL /\ i > 0 /\ k \in 1 .. Len(ready[i])
  /\ LET t    == ready[i][k]
         rest == SubSeq(ready[i], 1, k - 1) \o SubSeq(ready[i], k + 1, Len(ready[i]))
     IN /\ level' = [level EXCEPT ![t] = 0]
        /\ ready' = [ready EXCEPT ![i] = rest, ![0] = Append(@, t)]
  /\ UNCHANGED <<running, waiting, new>>

Dispatch(i) ==
  /\ running = NULL
  /\ ready[i] # <<>> /\ \A j \in 0 .. i - 1 : ready[j] = <<>>
  /\ running' = Head(ready[i])
  /\ ready' = [ready EXCEPT ![i] = Tail(@)]
  /\ UNCHANGED <<waiting, level, new>>

Next ==
  \/ Yield \/ Expire \/ Exit
  \/ \E t \in Threads : Create(t)
  \/ \E m \in Mutexes : Wait(m) \/ Wake(m)
  \/ \E i \in Levels : Dispatch(i) \/ \E k \in DOMAIN ready[i] : Boost(i, k)

Spec == Init /\ [][Next]_vars
============================================================================
