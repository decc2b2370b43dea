--------------------------- MODULE NeighbourSort ---------------------------
(* What mtsort promises: neighbours that are out of order change places, one *)
(* pair at a time, and it ends with a sorted list.                           *)
EXTENDS Integers

CONSTANT N  \* elements of the list

VARIABLES list, done

Positions == 0 .. N - 1
Ordered(l) == \A i \in 0 .. N - 2 : l[i] <= l[i + 1]

Init == list = [i \in Positions |-> N - i] /\ done = FALSE

Exchange(i) ==
  /\ ~done /\ list[i + 1] < list[i]
  /\ list' = [list EXCEPT ![i] = list[i + 1], ![i + 1] = list[i]]
  /\ done' = done

Finish == Ordered(list) /\ done' = TRUE /\ list' = list

Next == Finish \/ \E i \in 0 .. N - 2 : Exchange(i)

Spec == Init /\ [][Next]_<<list, done>>
============================================================================
