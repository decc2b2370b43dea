-------------------------- MODULE MCMyPthreadTicks --------------------------
(* Small instances of MyPthread with the history of MyPthreadTicks.        *)
EXTENDS MyPthreadTicks, TLC

\* main is told apart by the code (my_pthread_create), the others are not.
Symmetry == Permutations(Threads \ {Main}) \cup Permutations(Mutexes)

\* The client locks any mutex whatever else it holds.
AnyOrder == {p \in Mutexes \X Mutexes : p[1] # p[2]}
============================================================================
