------------------------------- MODULE MMatrix -------------------------------
(* src/matrix/mmatrix.c over its library: main creates n workers, joins them  *)
(* in the order it created them and checks the product; a worker computes its  *)
(* rows and exits.                                                             *)
EXTENDS ThreeLevel

VARIABLES
  n,         \* the program's argument
  pc,        \* the statement of each thread's code
  created, joined,  \* i of main's two loops
  computed   \* workers whose rows of c are there

client == <<n, pc, created, joined, computed>>
vars == <<libvars, client>>

Init ==
  /\ LibInit
  /\ n \in Workers
  /\ pc = [t \in Threads |-> IF t = Main THEN "create" ELSE "mm"]
  /\ created = 0 /\ joined = 0
  /\ computed = {}

Executes(t, l) == InClient /\ running = t /\ pc[t] = l

Continue(t, l) == pc' = [pc EXCEPT ![t] = l]

-----------------------------------------------------------------------------
(* main *)

Create ==
  /\ Executes(Main, "create")
  /\ my_pthread_create(created + 1)
  /\ created' = created + 1
  /\ Continue(Main, IF created' = n THEN "join" ELSE "create")
  /\ UNCHANGED <<n, joined, computed>>

Join ==
  /\ Executes(Main, "join")
  /\ Stack(<<join(joined + 1)>>) /\ Local
  /\ Continue(Main, "joining")
  /\ UNCHANGED <<n, created, joined, computed>>

Joined ==
  /\ Executes(Main, "joining")
  /\ joined' = joined + 1
  /\ Continue(Main, IF joined' = n THEN "check" ELSE "join")
  /\ UNCHANGED <<libvars, n, created, computed>>

\* check_matrix(), after which main returns.
Check ==
  /\ Executes(Main, "check")
  /\ End(IF computed = 1 .. n THEN "success" ELSE "errors")
  /\ UNCHANGED client

-----------------------------------------------------------------------------
(* worker *)

Multiply(w) ==
  /\ Executes(w, "mm")
  /\ computed' = computed \cup {w}
  /\ Continue(w, "exit")
  /\ UNCHANGED <<libvars, n, created, joined>>

Exit(w) ==
  /\ Executes(w, "exit")
  /\ Stack(<<exit>>) /\ Local
  /\ Continue(w, "exited")
  /\ UNCHANGED <<n, created, joined, computed>>

\* my_pthread_exit() has returned, and so does worker(): nobody assigns uc_link,
\* which is 0 in fresh memory, and the process ends.
NeverHappens(w) ==
  /\ Executes(w, "exited")
  /\ End("worker returned")
  /\ UNCHANGED client

Worker(w) == Multiply(w) \/ Exit(w) \/ NeverHappens(w)

-----------------------------------------------------------------------------
Next ==
  \/ Create \/ Join \/ Joined \/ Check
  \/ \E w \in Workers : Worker(w)
  \/ (Library \/ Tick) /\ UNCHANGED client

Spec == Init /\ [][Next]_vars
=============================================================================
