------------------------------- MODULE MtSort -------------------------------
(* src/msort/mtsort.c as `make system` builds it: its threads and mutexes are  *)
(* those of pthread, by src/mypthread-system-override.h.  (`make basic` links  *)
(* src/msort/my_pthread.c instead, which puts the first mutex only on its list *)
(* and whose lock() excludes nobody from the others.)  Sorter i exchanges      *)
(* num[i] and num[i + 1] under mutexes i and i + 1; a checker takes all        *)
(* mutexes and looks whether the list is sorted.  A thread may be preempted    *)
(* between any two accesses to what they share.                                *)
EXTENDS Integers

CONSTANT N  \* nListSize

ASSUME NAssumption == N \in Nat \ {0}

VARIABLES
  num,       \* the list
  mutex,     \* the thread that holds a mutex, or FREE
  alive,     \* mutexes that are initialised and not destroyed
  quitting,
  pc, swap,  \* of the sorters: statement and local
  cpc, ci,   \* of the checker: statement and i
  mpc, mi    \* of main: statement and i

vars == <<num, mutex, alive, quitting, pc, swap, cpc, ci, mpc, mi>>
checker == <<cpc, ci>>
main == <<mpc, mi>>

Positions == 0 .. N - 1
Sorters == 0 .. N - 2
FnCheck == N - 1   \* the checker, as the holder of a mutex
FREE == -1

Init ==
  /\ num = [i \in Positions |-> N - i]
  /\ mutex = [p \in Positions |-> FREE]
  /\ alive = {0}
  /\ quitting = FALSE
  /\ pc = [i \in Sorters |-> "none"]
  /\ swap = [i \in Sorters |-> 0]
  /\ cpc = "none" /\ ci = 0
  /\ mpc = "create" /\ mi = 0

\* pthread_mutex_lock() and pthread_mutex_unlock().
Lock(t, p) == mutex[p] = FREE /\ mutex' = [mutex EXCEPT ![p] = t]
Unlock(p) == mutex' = [mutex EXCEPT ![p] = FREE]

-----------------------------------------------------------------------------
(* fnsort *)

Goto(i, l) == pc' = [pc EXCEPT ![i] = l]

\* Mutant: the compiler takes the load of quitting out of the loop.
WhileHoisted(i) ==
  /\ pc[i] = "while"
  /\ Goto(i, "lock0")
  /\ UNCHANGED <<num, mutex, alive, quitting, swap, checker, main>>

While(i) ==
  /\ pc[i] = "while"
  /\ Goto(i, IF quitting THEN "exited" ELSE "lock0")
  /\ UNCHANGED <<num, mutex, alive, quitting, swap, checker, main>>

Lock0(i) ==
  /\ pc[i] = "lock0" /\ Lock(i, i)
  /\ Goto(i, "lock1")
  /\ UNCHANGED <<num, alive, quitting, swap, checker, main>>

\* Mutant: the second mutex is the first one again.
LockSameAgain(i) ==
  /\ pc[i] = "lock1"
  /\ Goto(i, "compare")
  /\ UNCHANGED <<num, mutex, alive, quitting, swap, checker, main>>

Lock1(i) ==
  /\ pc[i] = "lock1" /\ Lock(i, i + 1)
  /\ Goto(i, "compare")
  /\ UNCHANGED <<num, alive, quitting, swap, checker, main>>

Compare(i) ==
  /\ pc[i] = "compare"
  /\ IF num[i + 1] < num[i]
     THEN swap' = [swap EXCEPT ![i] = num[i]] /\ Goto(i, "store0")
     ELSE swap' = swap /\ Goto(i, "unlock0")
  /\ UNCHANGED <<num, mutex, alive, quitting, checker, main>>

Store0(i) ==
  /\ pc[i] = "store0"
  /\ num' = [num EXCEPT ![i] = num[i + 1]]
  /\ Goto(i, "store1")
  /\ UNCHANGED <<mutex, alive, quitting, swap, checker, main>>

\* Mutant: the element is stored over itself, the temporary is forgotten.
StoreSame(i) ==
  /\ pc[i] = "store1"
  /\ num' = [num EXCEPT ![i + 1] = num[i]]
  /\ Goto(i, "unlock0")
  /\ UNCHANGED <<mutex, alive, quitting, swap, checker, main>>

Store1(i) ==
  /\ pc[i] = "store1"
  /\ num' = [num EXCEPT ![i + 1] = swap[i]]
  /\ Goto(i, "unlock0")
  /\ UNCHANGED <<mutex, alive, quitting, swap, checker, main>>

Unlock0(i) ==
  /\ pc[i] = "unlock0" /\ Unlock(i)
  /\ Goto(i, "unlock1")
  /\ UNCHANGED <<num, alive, quitting, swap, checker, main>>

Unlock1(i) ==
  /\ pc[i] = "unlock1" /\ Unlock(i + 1)
  /\ Goto(i, "while")
  /\ UNCHANGED <<num, alive, quitting, swap, checker, main>>

\* Threads run until the process ends by exit(1).
Sorter(i) ==
  /\ mpc # "exit"
  /\ \/ While(i) \/ Lock0(i) \/ Lock1(i) \/ Compare(i)
     \/ Store0(i) \/ Store1(i) \/ Unlock0(i) \/ Unlock1(i)

-----------------------------------------------------------------------------
(* fncheck *)

At(l, k) == cpc' = l /\ ci' = k

CheckWhile ==
  /\ cpc = "while"
  /\ IF quitting THEN At("exited", 0) ELSE At("lock", 0)
  /\ UNCHANGED <<num, mutex, alive, quitting, pc, swap, main>>

\* Mutant: the checker takes the mutexes from the last to the first.
LockDown ==
  /\ cpc = "lock"
  /\ IF ci = N THEN At("check", 0) /\ mutex' = mutex
               ELSE Lock(FnCheck, N - 1 - ci) /\ At("lock", ci + 1)
  /\ UNCHANGED <<num, alive, quitting, pc, swap, main>>

LockAll ==
  /\ cpc = "lock"
  /\ IF ci = N THEN At("check", 0) /\ mutex' = mutex
               ELSE Lock(FnCheck, ci) /\ At("lock", ci + 1)
  /\ UNCHANGED <<num, alive, quitting, pc, swap, main>>

\* Mutant: the last pair is not looked at.
CheckShort ==
  /\ cpc = "check"
  /\ quitting' = (ci >= N - 2)
  /\ IF ci < N - 2 /\ num[ci] <= num[ci + 1] THEN At("check", ci + 1)
                                             ELSE At("unlock", 0)
  /\ UNCHANGED <<num, mutex, alive, pc, swap, main>>

\* One comparison; after the last one, or the first that fails, quitting is set.
Check ==
  /\ cpc = "check"
  /\ quitting' = (ci >= N - 1)
  /\ IF ci < N - 1 /\ num[ci] <= num[ci + 1] THEN At("check", ci + 1)
                                             ELSE At("unlock", 0)
  /\ UNCHANGED <<num, mutex, alive, pc, swap, main>>

UnlockAll ==
  /\ cpc = "unlock"
  /\ IF ci = N THEN At("while", 0) /\ mutex' = mutex
               ELSE Unlock(ci) /\ At("unlock", ci + 1)
  /\ UNCHANGED <<num, alive, quitting, pc, swap, main>>

Checker == mpc # "exit" /\ (CheckWhile \/ LockAll \/ Check \/ UnlockAll)

-----------------------------------------------------------------------------
(* main *)

MainAt(l, k) == mpc' = l /\ mi' = k

\* The mutex i + 1 is initialised before thread i is created.
Create ==
  /\ mpc = "create"
  /\ IF mi < N - 1
     THEN /\ alive' = alive \cup {mi + 1}
          /\ Goto(mi, "while")
          /\ MainAt("create", mi + 1)
          /\ cpc' = cpc
     ELSE /\ cpc' = "while"
          /\ MainAt("join", 0)
          /\ UNCHANGED <<alive, pc>>
  /\ UNCHANGED <<num, mutex, quitting, swap, ci>>

\* "[FATAL] Could not create thread", after the init of its mutex.
CreateFails ==
  /\ mpc = "create"
  /\ alive' = IF mi < N - 1 THEN alive \cup {mi + 1} ELSE alive
  /\ MainAt("exit", mi)
  /\ UNCHANGED <<num, mutex, quitting, pc, swap, checker>>

\* Mutant: main does not join the checker.
JoinSorters ==
  /\ mpc = "join"
  /\ IF mi < N - 1 THEN pc[mi] = "exited" /\ MainAt("join", mi + 1)
                   ELSE MainAt("destroy", 0)
  /\ UNCHANGED <<num, mutex, alive, quitting, pc, swap, checker>>

Join ==
  /\ mpc = "join"
  /\ IF mi < N - 1 THEN pc[mi] = "exited" /\ MainAt("join", mi + 1)
                   ELSE cpc = "exited" /\ MainAt("destroy", 0)
  /\ UNCHANGED <<num, mutex, alive, quitting, pc, swap, checker>>

Destroy ==
  /\ mpc = "destroy"
  /\ IF mi < N THEN alive' = alive \ {mi} /\ MainAt("destroy", mi + 1)
               ELSE alive' = alive /\ MainAt("after", 0)
  /\ UNCHANGED <<num, mutex, quitting, pc, swap, checker>>

Main == Create \/ CreateFails \/ Join \/ Destroy

Ended == mpc \in {"after", "exit"} /\ UNCHANGED vars

Next == Main \/ Checker \/ (\E i \in Sorters : Sorter(i)) \/ Ended

Spec == Init /\ [][Next]_vars
=============================================================================
