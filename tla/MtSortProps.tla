----------------------------- MODULE MtSortProps -----------------------------
(* What is checked and proved of mtsort.c.                                    *)
EXTENDS MtSort, FiniteSets, Functions

SorterLabels == {"none", "while", "lock0", "lock1", "compare", "store0", "store1",
                 "unlock0", "unlock1", "exited"}

\* The variables are what the code declares.
TypeOK ==
  /\ num \in [Positions -> Int]
  /\ mutex \in [Positions -> Positions \cup {FREE}]
  /\ alive \subseteq Positions
  /\ quitting \in BOOLEAN
  /\ pc \in [Sorters -> SorterLabels]
  /\ swap \in [Sorters -> Int]
  /\ cpc \in {"none", "while", "lock", "check", "unlock", "exited"}
  /\ ci \in 0 .. N
  /\ mpc \in {"create", "exit", "join", "destroy", "after"}
  /\ mi \in 0 .. N

Ordered(l) == \A i \in 0 .. N - 2 : l[i] <= l[i + 1]

\* Once quitting is set (104) the list is sorted, and no sorter that is still
\* in its loop disturbs it.
QuitSorted == quitting => Ordered(num)

\* "The list is sorted" (199) when main says so: it has the elements main made
\* it of (153), in order, and every thread has ended.
AfterIsSorted ==
  mpc = "after" => /\ num = [p \in Positions |-> p + 1] /\ cpc = "exited"
                   /\ \A i \in Sorters : pc[i] = "exited"

\* Nobody locks, holds or unlocks a mutex before its init or after its destroy
\* (162-165, 196).
Using(i, p) ==
  \/ p = i /\ pc[i] \in {"lock0", "lock1", "compare", "store0", "store1", "unlock0"}
  \/ p = i + 1 /\ pc[i] \in {"lock1", "compare", "store0", "store1", "unlock0", "unlock1"}

MutexesAlive ==
  /\ \A i \in Sorters, p \in Positions : Using(i, p) => p \in alive
  /\ cpc \in {"lock", "check", "unlock"} => alive = Positions

\* Between its two stores sorter i has one element twice in num, the other in
\* swap: the list is as if both stores were done.
Settled ==
  [p \in Positions |->
     IF p - 1 \in Sorters /\ pc[p - 1] = "store1" THEN swap[p - 1] ELSE num[p]]

\* No element is lost or doubled, wherever between its two stores (59, 60) a
\* sorter is preempted and whatever the others do meanwhile.
NothingLost == Settled \in Bijection(Positions, 1 .. N)

\* The pairs that are out of order become fewer with every exchange, so that
\* there are at most N * (N - 1) / 2: what the sorters do to the list comes to
\* an end by itself, not only by quitting.
Inversions(l) ==
  {x \in Positions \X Positions : x[1] < x[2] /\ l[x[2]] < l[x[1]]}

ExchangesEnd ==
  [][Settled' # Settled =>
       Cardinality(Inversions(Settled')) < Cardinality(Inversions(Settled))]_vars

\* While main waits in a join, some thread is not waiting for a mutex: two
\* locks upwards in each sorter (47, 48) and all of them upwards in the checker
\* (93) close no circle.
SorterWaits(i) ==
  \/ pc[i] = "lock0" /\ mutex[i] # FREE
  \/ pc[i] = "lock1" /\ mutex[i + 1] # FREE
CheckerWaits == cpc = "lock" /\ ci < N /\ mutex[ci] # FREE
MainWaits == mpc = "join" /\ IF mi < N - 1 THEN pc[mi] # "exited" ELSE cpc # "exited"

NoDeadlock ==
  MainWaits =>
    \/ \E i \in Sorters : pc[i] \notin {"none", "exited"} /\ ~SorterWaits(i)
    \/ cpc \notin {"none", "exited"} /\ ~CheckerWaits

Sort == INSTANCE NeighbourSort WITH list <- Settled, done <- quitting

\* Preempted threads and single stores add up to exchanges of neighbours.
ImplementsSort == Sort!Spec

-----------------------------------------------------------------------------
(* The inductive invariant.                                                   *)
Holding0 == {"lock1", "compare", "store0", "store1", "unlock0"}
Holding1 == {"compare", "store0", "store1", "unlock0", "unlock1"}
Storing == {"store0", "store1"}

\* A thread that is between lock and unlock of a mutex is its holder.
Held ==
  /\ \A i \in Sorters : pc[i] \in Holding0 => mutex[i] = i
  /\ \A i \in Sorters : pc[i] \in Holding1 => mutex[i + 1] = i
  /\ \A p \in Positions :
       \/ cpc = "lock" /\ p < ci
       \/ cpc = "check"
       \/ cpc = "unlock" /\ p >= ci
       => mutex[p] = FnCheck

\* The holder of a mutex is between lock and unlock of it.
Owned ==
  \A p \in Positions :
    /\ mutex[p] \in Sorters =>
         \/ mutex[p] = p /\ pc[p] \in Holding0
         \/ mutex[p] = p - 1 /\ pc[p - 1] \in Holding1
    /\ mutex[p] = FnCheck =>
         \/ cpc = "lock" /\ p < ci
         \/ cpc = "check"
         \/ cpc = "unlock" /\ p >= ci

\* What sorter i has compared still holds when it stores.
SwapOK ==
  \A i \in Sorters :
    /\ pc[i] = "store0" => swap[i] = num[i] /\ num[i + 1] < num[i]
    /\ pc[i] = "store1" => num[i] = num[i + 1] /\ num[i + 1] < swap[i]

\* What the checker has compared still holds when it sets quitting; it sets it
\* once, and nobody stores after that.
CheckOK ==
  /\ cpc = "check" => \A j \in Sorters : j < ci => num[j] <= num[j + 1]
  /\ cpc \in {"none", "lock", "check"} => ~quitting
  /\ quitting => \A i \in Sorters : pc[i] \notin Storing

\* Which mutexes and threads there are, by what main does.
LifeOK ==
  /\ mpc \in {"create", "exit"} =>
       /\ mi <= N - 1 /\ 0 .. mi \subseteq alive /\ cpc = "none"
       /\ \A i \in Sorters : i >= mi => pc[i] = "none"
  /\ mpc = "create" => alive = 0 .. mi
  /\ mpc = "join" => alive = Positions /\ \A i \in Sorters : i < mi => pc[i] = "exited"
  /\ mpc = "join" => mi <= N - 1
  /\ mpc \in {"destroy", "after"} =>
       cpc = "exited" /\ \A i \in Sorters : pc[i] = "exited"
  /\ cpc = "exited" => quitting

\* The threads main has created.
StartedOK ==
  /\ mpc = "create" => \A i \in Sorters : i < mi => pc[i] # "none"
  /\ mpc = "join" => cpc # "none" /\ \A i \in Sorters : pc[i] # "none"

Inv ==
  /\ TypeOK /\ Held /\ Owned /\ SwapOK /\ CheckOK /\ QuitSorted
  /\ LifeOK /\ StartedOK

-----------------------------------------------------------------------------
\* Fairness: threads that can go on do.  A thread that waits for a mutex is not
\* promised to get it, others may always be faster.
FairSpec ==
  Spec /\ WF_vars(Main) /\ WF_vars(Checker) /\ \A i \in Sorters : WF_vars(Sorter(i))

\* Once the checker has set quitting (104) every loop ends, every mutex is given
\* back and main gets through its joins (189-193): who still waits for a mutex
\* gets it, because nobody takes one again and again any more.
QuitEnds == quitting ~> mpc = "after"
==============================================================================
