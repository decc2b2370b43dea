---------------------------- MODULE MCMyPthread ----------------------------
(* Small instances of MyPthread, without the history of MyPthreadTicks.    *)
EXTENDS MyPthreadQueues, TLC

\* main is told apart by the code (my_pthread_create), the others are not.
Symmetry == Permutations(Threads \ {Main})
============================================================================
