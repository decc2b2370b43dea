----------------------------- MODULE MtSortProofs -----------------------------
(* Proofs about mtsort.c for lists of every length.                            *)
EXTENDS MtSortProps, FiniteSetTheorems, FunctionTheorems, TLAPS

(* One lemma per action: it preserves each conjunct of Inv.  Ownership of the *)
(* mutexes (Held) is what keeps a value from changing between a comparison    *)
(* and the stores or the end of the check that rely on it (SwapOK, CheckOK).  *)

LEMMA WhileStep ==
  ASSUME Inv, NEW i \in Sorters, While(i)
  PROVE  Inv'
<1> USE NAssumption DEF Positions, Sorters, FnCheck, FREE, Inv, TypeOK, checker, main, While, Goto
<1>1. TypeOK'
  BY DEF SorterLabels
<1>2. Held'
  BY DEF Held, Holding0, Holding1
<1>3. SwapOK'
  BY DEF SwapOK
<1>4. CheckOK'
  BY DEF CheckOK, Storing
<1>5. QuitSorted'
  BY DEF QuitSorted, Ordered
<1>6. LifeOK'
  BY DEF LifeOK, CheckOK
<1>7. Owned'
  BY DEF Owned, Held, Holding0, Holding1
<1>8. StartedOK'
  BY DEF StartedOK
<1>9. QED
  BY <1>1, <1>2, <1>3, <1>4, <1>5, <1>6, <1>7, <1>8

LEMMA Lock0Step ==
  ASSUME Inv, NEW i \in Sorters, Lock0(i)
  PROVE  Inv'
<1> USE NAssumption DEF Positions, Sorters, FnCheck, FREE, Inv, TypeOK, checker, main, Lock0, Goto, Lock
<1>1. TypeOK'
  BY DEF SorterLabels
<1>2. Held'
  <2>1. ASSUME NEW j \in Sorters, pc'[j] \in Holding0
        PROVE  mutex'[j] = j
    BY <2>1 DEF Held, Holding0, Holding1, SorterLabels
  <2>2. ASSUME NEW j \in Sorters, pc'[j] \in Holding1
        PROVE  mutex'[j + 1] = j
    BY <2>2 DEF Held, Holding0, Holding1, SorterLabels
  <2>3. ASSUME NEW p \in Positions, mutex[p] = FnCheck
        PROVE  mutex'[p] = FnCheck
    BY <2>3 DEF Held, Holding0, Holding1
  <2>4. UNCHANGED <<cpc, ci>>
    OBVIOUS
  <2>5. QED
    BY <2>1, <2>2, <2>3, <2>4 DEF Held
<1>3. SwapOK'
  BY DEF SwapOK
<1>4. CheckOK'
  BY DEF CheckOK, Storing
<1>5. QuitSorted'
  BY DEF QuitSorted, Ordered
<1>6. LifeOK'
  BY DEF LifeOK, CheckOK
<1>7. Owned'
  <2>1. pc' = [pc EXCEPT ![i] = "lock1"] /\ mutex' = [mutex EXCEPT ![i] = i]
        /\ UNCHANGED <<cpc, ci>>
    OBVIOUS
  <2>2. ASSUME NEW p \in Positions, mutex'[p] \in Sorters
        PROVE  \/ mutex'[p] = p /\ pc'[p] \in Holding0
               \/ mutex'[p] = p - 1 /\ pc'[p - 1] \in Holding1
    <3>1. CASE p = i
      BY <2>1, <3>1 DEF Holding0
    <3>2. CASE p # i
      <4>1. \/ mutex[p] = p /\ pc[p] \in Holding0
            \/ mutex[p] = p - 1 /\ pc[p - 1] \in Holding1
        BY <2>1, <2>2, <3>2 DEF Owned
      <4>2. pc[i] \notin Holding1
        BY DEF Holding1
      <4>3. QED
        BY <2>1, <2>2, <3>2, <4>1, <4>2
    <3>3. QED
      BY <3>1, <3>2
  <2>3. \A p \in Positions : mutex'[p] = FnCheck => mutex[p] = FnCheck
    BY <2>1
  <2>4. QED
    BY <2>1, <2>2, <2>3 DEF Owned
<1>8. StartedOK'
  BY DEF StartedOK
<1>9. QED
  BY <1>1, <1>2, <1>3, <1>4, <1>5, <1>6, <1>7, <1>8

LEMMA Lock1Step ==
  ASSUME Inv, NEW i \in Sorters, Lock1(i)
  PROVE  Inv'
<1> USE NAssumption DEF Positions, Sorters, FnCheck, FREE, Inv, TypeOK, checker, main, Lock1, Goto, Lock
<1>1. TypeOK'
  BY DEF SorterLabels
<1>2. Held'
  <2>1. ASSUME NEW j \in Sorters, pc'[j] \in Holding0
        PROVE  mutex'[j] = j
    BY <2>1, SMTT(20) DEF Held, Holding0, Holding1, SorterLabels
  <2>2. ASSUME NEW j \in Sorters, pc'[j] \in Holding1
        PROVE  mutex'[j + 1] = j
    BY <2>2 DEF Held, Holding0, Holding1, SorterLabels
  <2>3. ASSUME NEW p \in Positions, mutex[p] = FnCheck
        PROVE  mutex'[p] = FnCheck
    BY <2>3 DEF Held, Holding0, Holding1
  <2>4. UNCHANGED <<cpc, ci>>
    OBVIOUS
  <2>5. QED
    BY <2>1, <2>2, <2>3, <2>4 DEF Held
<1>3. SwapOK'
  BY DEF SwapOK
<1>4. CheckOK'
  BY DEF CheckOK, Storing
<1>5. QuitSorted'
  BY DEF QuitSorted, Ordered
<1>6. LifeOK'
  BY DEF LifeOK, CheckOK
<1>7. Owned'
  <2>1. pc' = [pc EXCEPT ![i] = "compare"] /\ mutex' = [mutex EXCEPT ![i + 1] = i]
    OBVIOUS
  <2>2. ASSUME NEW p \in Positions, mutex'[p] \in Sorters
        PROVE  \/ mutex'[p] = p /\ pc'[p] \in Holding0
               \/ mutex'[p] = p - 1 /\ pc'[p - 1] \in Holding1
    <3>1. CASE p = i + 1
      BY <2>1, <3>1 DEF Holding1
    <3>2. CASE p # i + 1
      <4>1. \/ mutex[p] = p /\ pc[p] \in Holding0
            \/ mutex[p] = p - 1 /\ pc[p - 1] \in Holding1
        BY <2>1, <2>2, <3>2 DEF Owned
      <4>2. QED
        BY <2>1, <2>2, <3>2, <4>1 DEF Holding0
    <3>3. QED
      BY <3>1, <3>2
  <2>3. \A p \in Positions : mutex'[p] = FnCheck => mutex[p] = FnCheck
    BY <2>1
  <2>4. QED
    BY <2>2, <2>3 DEF Owned
<1>8. StartedOK'
  BY DEF StartedOK
<1>9. QED
  BY <1>1, <1>2, <1>3, <1>4, <1>5, <1>6, <1>7, <1>8

LEMMA CompareStep ==
  ASSUME Inv, NEW i \in Sorters, Compare(i)
  PROVE  Inv'
<1> USE NAssumption DEF Positions, Sorters, FnCheck, FREE, Inv, TypeOK, checker, main, Compare, Goto
<1>a. swap'[i] \in Int /\ pc'[i] \in {"store0", "unlock0"}
  OBVIOUS
<1>b. \A k \in Sorters : k # i => swap'[k] = swap[k] /\ pc'[k] = pc[k]
  OBVIOUS
<1>c. swap' \in [Sorters -> Int] /\ pc' \in [Sorters -> SorterLabels]
  <2>1. CASE num[i + 1] < num[i]
    <3>1. swap' = [swap EXCEPT ![i] = num[i]] /\ pc' = [pc EXCEPT ![i] = "store0"]
      BY <2>1
    <3> HIDE DEF Compare
    <3>2. QED
      BY <3>1 DEF SorterLabels
  <2>2. CASE ~(num[i + 1] < num[i])
    <3>1. swap' = swap /\ pc' = [pc EXCEPT ![i] = "unlock0"]
      BY <2>2
    <3> HIDE DEF Compare
    <3>2. QED
      BY <3>1 DEF SorterLabels
  <2>3. QED
    BY <2>1, <2>2
<1>1. TypeOK'
  <2>1. UNCHANGED <<num, mutex, alive, quitting, cpc, ci, mpc, mi>>
    OBVIOUS
  <2> HIDE DEF Compare
  <2>2. QED
    BY <1>c, <2>1
<1>2. Held'
  BY DEF Held, Holding0, Holding1
<1>3. SwapOK'
  <2>1. CASE num[i + 1] < num[i]
    BY <2>1, ZenonT(40) DEF SwapOK, SorterLabels
  <2>2. CASE ~(num[i + 1] < num[i])
    BY <2>2 DEF SwapOK, SorterLabels
  <2>3. QED
    BY <2>1, <2>2
<1>4. CheckOK'
  <2>1. quitting => pc'[i] = "unlock0"
    BY DEF QuitSorted, Ordered
  <2>2. quitting => \A k \in Sorters : pc'[k] \notin Storing
    BY <1>b, <2>1 DEF CheckOK, Storing
  <2>3. QED
    BY <2>2 DEF CheckOK
<1>5. QuitSorted'
  BY DEF QuitSorted, Ordered
<1>6. LifeOK'
  BY DEF LifeOK, CheckOK
<1>7. Owned'
  <2>1. \A k \in Sorters : pc[k] \in Holding0 => pc'[k] \in Holding0
    BY <1>a, <1>b DEF Holding0
  <2>2. \A k \in Sorters : pc[k] \in Holding1 => pc'[k] \in Holding1
    BY <1>a, <1>b DEF Holding1
  <2>3. mutex' = mutex /\ cpc' = cpc /\ ci' = ci
    OBVIOUS
  <2> HIDE DEF Compare
  <2>4. \A p \in Positions : mutex[p] = p - 1 /\ mutex[p] \in Sorters => p - 1 \in Sorters
    OBVIOUS
  <2>5. \A p \in Positions : mutex[p] = p /\ mutex[p] \in Sorters => p \in Sorters
    OBVIOUS
  <2>6. QED
    BY <2>1, <2>2, <2>3, <2>4, <2>5 DEF Owned
<1>8. StartedOK'
  BY DEF StartedOK
<1>9. QED
  BY <1>1, <1>2, <1>3, <1>4, <1>5, <1>6, <1>7, <1>8

LEMMA Store0Step ==
  ASSUME Inv, NEW i \in Sorters, Store0(i)
  PROVE  Inv'
<1> USE NAssumption DEF Positions, Sorters, FnCheck, FREE, Inv, TypeOK, checker, main, Store0, Goto
<1>1. TypeOK'
  BY DEF SorterLabels
<1>2. Held'
  <2>1. ASSUME NEW j \in Sorters, pc'[j] \in Holding0
        PROVE  mutex'[j] = j
    BY <2>1 DEF Held, Holding0, Holding1, SorterLabels
  <2>2. ASSUME NEW j \in Sorters, pc'[j] \in Holding1
        PROVE  mutex'[j + 1] = j
    BY <2>2 DEF Held, Holding0, Holding1, SorterLabels
  <2>3. ASSUME NEW p \in Positions, mutex[p] = FnCheck
        PROVE  mutex'[p] = FnCheck
    BY <2>3 DEF Held, Holding0, Holding1
  <2>4. UNCHANGED <<cpc, ci>>
    OBVIOUS
  <2>5. QED
    BY <2>1, <2>2, <2>3, <2>4 DEF Held
<1>3. SwapOK'
  BY SMTT(20) DEF SwapOK, Held, Holding0, Holding1
<1>4. CheckOK'
  BY DEF CheckOK, SwapOK, Held, Holding0, Holding1, Storing, QuitSorted, Ordered
<1>5. QuitSorted'
  BY DEF CheckOK, SwapOK, Storing, QuitSorted, Ordered
<1>6. LifeOK'
  BY DEF LifeOK, CheckOK
<1>7. Owned'
  BY DEF Owned, Held, Holding0, Holding1
<1>8. StartedOK'
  BY DEF StartedOK
<1>9. QED
  BY <1>1, <1>2, <1>3, <1>4, <1>5, <1>6, <1>7, <1>8

LEMMA Store1Step ==
  ASSUME Inv, NEW i \in Sorters, Store1(i)
  PROVE  Inv'
<1> USE NAssumption DEF Positions, Sorters, FnCheck, FREE, Inv, TypeOK, checker, main, Store1, Goto
<1>1. TypeOK'
  BY DEF SorterLabels
<1>2. Held'
  <2>1. ASSUME NEW j \in Sorters, pc'[j] \in Holding0
        PROVE  mutex'[j] = j
    BY <2>1 DEF Held, Holding0, Holding1, SorterLabels
  <2>2. ASSUME NEW j \in Sorters, pc'[j] \in Holding1
        PROVE  mutex'[j + 1] = j
    BY <2>2 DEF Held, Holding0, Holding1, SorterLabels
  <2>3. ASSUME NEW p \in Positions, mutex[p] = FnCheck
        PROVE  mutex'[p] = FnCheck
    BY <2>3 DEF Held, Holding0, Holding1
  <2>4. UNCHANGED <<cpc, ci>>
    OBVIOUS
  <2>5. QED
    BY <2>1, <2>2, <2>3, <2>4 DEF Held
<1>3. SwapOK'
  BY SMTT(20) DEF SwapOK, Held, Holding0, Holding1
<1>4. CheckOK'
  BY DEF CheckOK, SwapOK, Held, Holding0, Holding1, Storing, QuitSorted, Ordered
<1>5. QuitSorted'
  BY DEF CheckOK, SwapOK, Storing, QuitSorted, Ordered
<1>6. LifeOK'
  BY DEF LifeOK, CheckOK
<1>7. Owned'
  BY DEF Owned, Held, Holding0, Holding1
<1>8. StartedOK'
  BY DEF StartedOK
<1>9. QED
  BY <1>1, <1>2, <1>3, <1>4, <1>5, <1>6, <1>7, <1>8

LEMMA Unlock0Step ==
  ASSUME Inv, NEW i \in Sorters, Unlock0(i)
  PROVE  Inv'
<1> USE NAssumption DEF Positions, Sorters, FnCheck, FREE, Inv, TypeOK, checker, main, Unlock0, Goto, Unlock
<1>1. TypeOK'
  BY DEF SorterLabels
<1>2. Held'
  <2> USE DEF Held, Holding0, Holding1
  <2>1. \A j \in Sorters : pc'[j] \in Holding0 => pc[j] \in Holding0 /\ mutex'[j] = j
    OBVIOUS
  <2>2. \A j \in Sorters : pc'[j] \in Holding1 => pc[j] \in Holding1 /\ mutex'[j + 1] = j
    BY SMTT(20)
  <2>3. ASSUME NEW p \in Positions,
               \/ cpc' = "lock" /\ p < ci'
               \/ cpc' = "check"
               \/ cpc' = "unlock" /\ p >= ci'
        PROVE  mutex'[p] = FnCheck
    <3>1. mutex[p] = FnCheck
      BY <2>3
    <3>2. mutex[i] = i
      OBVIOUS
    <3>3. p # i
      BY <3>1, <3>2
    <3>4. QED
      BY <3>1, <3>3
  <2>4. QED
    BY <2>1, <2>2, <2>3
<1>3. SwapOK'
  BY DEF SwapOK
<1>4. CheckOK'
  BY DEF CheckOK, Storing
<1>5. QuitSorted'
  BY DEF QuitSorted, Ordered
<1>6. LifeOK'
  BY DEF LifeOK, CheckOK
<1>7. Owned'
  <2>1. pc' = [pc EXCEPT ![i] = "unlock1"] /\ mutex' = [mutex EXCEPT ![i] = FREE]
        /\ UNCHANGED <<cpc, ci>>
    OBVIOUS
  <2>2. ASSUME NEW p \in Positions, mutex'[p] \in Sorters
        PROVE  \/ mutex'[p] = p /\ pc'[p] \in Holding0
               \/ mutex'[p] = p - 1 /\ pc'[p - 1] \in Holding1
    <3>1. p # i /\ mutex'[p] = mutex[p]
      BY <2>1, <2>2
    <3>2. \/ mutex[p] = p /\ pc[p] \in Holding0
          \/ mutex[p] = p - 1 /\ pc[p - 1] \in Holding1
      BY <2>2, <3>1 DEF Owned
    <3>3. CASE mutex[p] = p /\ pc[p] \in Holding0
      BY <2>1, <2>2, <3>1, <3>3
    <3>4. CASE mutex[p] = p - 1 /\ pc[p - 1] \in Holding1
      <4>1. p - 1 \in Sorters
        BY <2>2, <3>1, <3>4
      <4>2. pc'[p - 1] \in Holding1
        BY <2>1, <3>4, <4>1 DEF Holding1
      <4>3. QED
        BY <3>1, <3>4, <4>2
    <3>5. QED
      BY <3>2, <3>3, <3>4
  <2>3. \A p \in Positions : mutex'[p] = FnCheck => mutex[p] = FnCheck
    BY <2>1
  <2>4. QED
    BY <2>1, <2>2, <2>3 DEF Owned
<1>8. StartedOK'
  BY DEF StartedOK
<1>9. QED
  BY <1>1, <1>2, <1>3, <1>4, <1>5, <1>6, <1>7, <1>8

LEMMA Unlock1Step ==
  ASSUME Inv, NEW i \in Sorters, Unlock1(i)
  PROVE  Inv'
<1> USE NAssumption DEF Positions, Sorters, FnCheck, FREE, Inv, TypeOK, checker, main, Unlock1, Goto, Unlock
<1>1. TypeOK'
  BY DEF SorterLabels
<1>2. Held'
  <2>1. ASSUME NEW j \in Sorters, pc'[j] \in Holding0
        PROVE  mutex'[j] = j
    BY <2>1, SMTT(20) DEF Held, Holding0, Holding1, SorterLabels
  <2>2. ASSUME NEW j \in Sorters, pc'[j] \in Holding1
        PROVE  mutex'[j + 1] = j
    BY <2>2 DEF Held, Holding0, Holding1, SorterLabels
  <2>3. ASSUME NEW p \in Positions,
               \/ cpc' = "lock" /\ p < ci'
               \/ cpc' = "check"
               \/ cpc' = "unlock" /\ p >= ci'
        PROVE  mutex'[p] = FnCheck
    <3>1. mutex[p] = FnCheck
      BY <2>3 DEF Held
    <3>2. p # i + 1
      BY <3>1 DEF Held, Holding1
    <3>3. QED
      BY <3>1, <3>2
  <2>4. QED
    BY <2>1, <2>2, <2>3 DEF Held
<1>3. SwapOK'
  BY DEF SwapOK
<1>4. CheckOK'
  BY DEF CheckOK, Storing
<1>5. QuitSorted'
  BY DEF QuitSorted, Ordered
<1>6. LifeOK'
  BY DEF LifeOK, CheckOK
<1>7. Owned'
  <2>1. pc' = [pc EXCEPT ![i] = "while"] /\ mutex' = [mutex EXCEPT ![i + 1] = FREE]
    OBVIOUS
  <2>2. ASSUME NEW p \in Positions, mutex'[p] \in Sorters
        PROVE  \/ mutex'[p] = p /\ pc'[p] \in Holding0
               \/ mutex'[p] = p - 1 /\ pc'[p - 1] \in Holding1
    <3>1. p # i + 1 /\ mutex'[p] = mutex[p]
      BY <2>1, <2>2
    <3>2. \/ mutex[p] = p /\ pc[p] \in Holding0
          \/ mutex[p] = p - 1 /\ pc[p - 1] \in Holding1
      BY <2>2, <3>1 DEF Owned
    <3>3. pc[i] \notin Holding0
      BY DEF Holding0
    <3>4. QED
      BY <2>1, <2>2, <3>1, <3>2, <3>3
  <2>3. \A p \in Positions : mutex'[p] = FnCheck => mutex[p] = FnCheck
    BY <2>1
  <2>4. QED
    BY <2>2, <2>3 DEF Owned
<1>8. StartedOK'
  BY DEF StartedOK
<1>9. QED
  BY <1>1, <1>2, <1>3, <1>4, <1>5, <1>6, <1>7, <1>8

LEMMA CheckWhileStep ==
  ASSUME Inv, CheckWhile
  PROVE  Inv'
<1> USE NAssumption DEF Positions, Sorters, FnCheck, FREE, Inv, TypeOK, checker, main, CheckWhile, At
<1>1. TypeOK'
  BY DEF SorterLabels
<1>2. Held'
  BY DEF Held, Holding0, Holding1
<1>3. SwapOK'
  BY DEF SwapOK
<1>4. CheckOK'
  BY DEF CheckOK, Storing
<1>5. QuitSorted'
  BY DEF QuitSorted, Ordered
<1>6. LifeOK'
  BY DEF LifeOK, CheckOK
<1>7. Owned'
  BY DEF Owned, Held, Holding0, Holding1
<1>8. StartedOK'
  BY DEF StartedOK
<1>9. QED
  BY <1>1, <1>2, <1>3, <1>4, <1>5, <1>6, <1>7, <1>8

LEMMA LockAllStep ==
  ASSUME Inv, LockAll
  PROVE  Inv'
<1> USE NAssumption DEF Positions, Sorters, FnCheck, FREE, Inv, TypeOK, checker, main, LockAll, At, Lock
<1>1. TypeOK'
  <2>1. mutex' = mutex \/ mutex' = [mutex EXCEPT ![ci] = FnCheck]
    OBVIOUS
  <2>2. ci' \in 0 .. N /\ cpc' \in {"lock", "check"}
    OBVIOUS
  <2>3. UNCHANGED <<num, alive, quitting, pc, swap, mpc, mi>>
    OBVIOUS
  <2> HIDE DEF LockAll
  <2>4. mutex' \in [Positions -> Positions \cup {FREE}]
    BY <2>1
  <2>5. QED
    BY <2>2, <2>3, <2>4
<1>2. Held'
  <2>1. ASSUME NEW j \in Sorters, pc'[j] \in Holding0
        PROVE  mutex'[j] = j
    <3>1. pc[j] \in Holding0
      BY <2>1
    <3>2. CASE ci = N
      BY <2>1, <3>1, <3>2 DEF Held
    <3>3. CASE ci # N
      BY <2>1, <3>1, <3>3, SMTT(20) DEF Held
    <3>4. QED
      BY <3>2, <3>3
  <2>2. ASSUME NEW j \in Sorters, pc'[j] \in Holding1
        PROVE  mutex'[j + 1] = j
    <3>1. pc[j] \in Holding1
      BY <2>2
    <3>2. CASE ci = N
      BY <2>2, <3>1, <3>2 DEF Held
    <3>3. CASE ci # N
      <4>1. mutex[j + 1] = j /\ mutex[ci] = FREE
        BY <3>1, <3>3 DEF Held
      <4>2. mutex' = [mutex EXCEPT ![ci] = FnCheck]
        BY <3>3
      <4>3. QED
        BY <4>1, <4>2
    <3>4. QED
      BY <3>2, <3>3
  <2>3. ASSUME NEW p \in Positions,
               \/ cpc' = "lock" /\ p < ci'
               \/ cpc' = "check"
               \/ cpc' = "unlock" /\ p >= ci'
        PROVE  mutex'[p] = FnCheck
    BY <2>3, SMTT(20) DEF Held, Holding0, Holding1
  <2>4. QED
    BY <2>1, <2>2, <2>3 DEF Held
<1>3. SwapOK'
  BY DEF SwapOK
<1>4. CheckOK'
  BY DEF CheckOK, Storing
<1>5. QuitSorted'
  BY DEF QuitSorted, Ordered
<1>6. LifeOK'
  BY DEF LifeOK, CheckOK
<1>7. Owned'
  <2>1. \A p \in Positions : mutex'[p] \in Sorters => mutex'[p] = mutex[p]
    <3>1. CASE ci = N
      BY <3>1
    <3>2. CASE ci # N
      BY <3>2
    <3>3. QED
      BY <3>1, <3>2
  <2>2. ASSUME NEW p \in Positions, mutex'[p] = FnCheck
        PROVE  (cpc' = "lock" /\ p < ci') \/ cpc' = "check"
    <3>1. CASE ci = N
      BY <3>1
    <3>2. CASE ci # N
      <4>1. cpc' = "lock" /\ ci' = ci + 1 /\ mutex' = [mutex EXCEPT ![ci] = FnCheck]
        BY <3>2
      <4>2. p = ci \/ p < ci
        BY <2>2, <4>1 DEF Owned
      <4>3. QED
        BY <4>1, <4>2
    <3>3. QED
      BY <3>1, <3>2
  <2>3. pc' = pc
    OBVIOUS
  <2>4. QED
    BY <2>1, <2>2, <2>3 DEF Owned
<1>8. StartedOK'
  BY DEF StartedOK
<1>9. QED
  BY <1>1, <1>2, <1>3, <1>4, <1>5, <1>6, <1>7, <1>8

LEMMA CheckStep ==
  ASSUME Inv, Check
  PROVE  Inv'
<1> USE NAssumption DEF Positions, Sorters, FnCheck, FREE, Inv, TypeOK, checker, main, Check, At
<1>1. TypeOK'
  <2>1. ci' \in 0 .. N /\ cpc' \in {"check", "unlock"} /\ quitting' \in BOOLEAN
    OBVIOUS
  <2>2. UNCHANGED <<num, mutex, alive, pc, swap, mpc, mi>>
    OBVIOUS
  <2> HIDE DEF Check
  <2>3. QED
    BY <2>1, <2>2
<1>2. Held'
  BY DEF Held, Holding0, Holding1
<1>3. SwapOK'
  BY DEF SwapOK
<1>4. CheckOK'
  BY SMTT(20) DEF CheckOK, SwapOK, Held, Holding0, Holding1, Storing, QuitSorted, Ordered
<1>5. QuitSorted'
  BY DEF CheckOK, SwapOK, Storing, QuitSorted, Ordered
<1>6. LifeOK'
  BY DEF LifeOK, CheckOK
<1>7. Owned'
  BY DEF Owned, Held, Holding0, Holding1
<1>8. StartedOK'
  BY DEF StartedOK
<1>9. QED
  BY <1>1, <1>2, <1>3, <1>4, <1>5, <1>6, <1>7, <1>8

LEMMA UnlockAllStep ==
  ASSUME Inv, UnlockAll
  PROVE  Inv'
<1> USE NAssumption DEF Positions, Sorters, FnCheck, FREE, Inv, TypeOK, checker, main, UnlockAll, At, Unlock
<1>1. TypeOK'
  <2>1. mutex' \in [Positions -> Positions \cup {FREE}]
    OBVIOUS
  <2>2. ci' \in 0 .. N /\ cpc' \in {"while", "unlock"}
    OBVIOUS
  <2>3. QED
    BY <2>1, <2>2
<1>2. Held'
  <2>1. ASSUME NEW j \in Sorters, pc'[j] \in Holding0
        PROVE  mutex'[j] = j
    BY <2>1, SMTT(20) DEF Held, Holding0, Holding1, SorterLabels
  <2>2. ASSUME NEW j \in Sorters, pc'[j] \in Holding1
        PROVE  mutex'[j + 1] = j
    BY <2>2, SMTT(20) DEF Held, Holding0, Holding1, SorterLabels
  <2>3. ASSUME NEW p \in Positions,
               \/ cpc' = "lock" /\ p < ci'
               \/ cpc' = "check"
               \/ cpc' = "unlock" /\ p >= ci'
        PROVE  mutex'[p] = FnCheck
    <3>1. ci # N /\ ci' = ci + 1 /\ p >= ci + 1
      BY <2>3
    <3>2. mutex[p] = FnCheck
      BY <3>1 DEF Held
    <3>3. QED
      BY <3>1, <3>2
  <2>4. QED
    BY <2>1, <2>2, <2>3 DEF Held
<1>3. SwapOK'
  BY DEF SwapOK
<1>4. CheckOK'
  BY DEF CheckOK, Storing
<1>5. QuitSorted'
  BY DEF QuitSorted, Ordered
<1>6. LifeOK'
  BY DEF LifeOK, CheckOK
<1>7. Owned'
  <2>1. \A p \in Positions : mutex'[p] # FREE => mutex'[p] = mutex[p]
    <3>1. CASE ci = N
      BY <3>1
    <3>2. CASE ci # N
      BY <3>2
    <3>3. QED
      BY <3>1, <3>2
  <2>2. ASSUME NEW p \in Positions, mutex'[p] = FnCheck
        PROVE  cpc' = "unlock" /\ p >= ci'
    <3>1. mutex[p] = FnCheck /\ p >= ci
      BY <2>1, <2>2 DEF Owned
    <3>2. ci # N /\ ci' = ci + 1 /\ mutex' = [mutex EXCEPT ![ci] = FREE] /\ cpc' = "unlock"
      BY <3>1
    <3>3. p # ci
      BY <2>2, <3>2
    <3>4. QED
      BY <3>1, <3>2, <3>3
  <2>3. pc' = pc
    OBVIOUS
  <2>4. \A p \in Positions : mutex'[p] \in Sorters \/ mutex'[p] = FnCheck => mutex'[p] # FREE
    OBVIOUS
  <2> HIDE DEF UnlockAll
  <2>5. QED
    BY <2>1, <2>2, <2>3, <2>4 DEF Owned
<1>8. StartedOK'
  BY DEF StartedOK
<1>9. QED
  BY <1>1, <1>2, <1>3, <1>4, <1>5, <1>6, <1>7, <1>8

LEMMA CreateStep ==
  ASSUME Inv, Create
  PROVE  Inv'
<1> USE NAssumption DEF Positions, Sorters, FnCheck, FREE, Inv, TypeOK, checker, main, Create, MainAt, Goto
<1>1. TypeOK'
  <2>1. mi' \in 0 .. N /\ mpc' \in {"create", "join"}
    BY SMTT(20)
  <2>2. alive' \subseteq Positions
    <3>1. CASE mi < N - 1
      BY <3>1, mi + 1 \in Positions
    <3>2. CASE ~(mi < N - 1)
      BY <3>2
    <3>3. QED
      BY <3>1, <3>2
  <2>3. pc' \in [Sorters -> SorterLabels]
    BY DEF SorterLabels
  <2>4. cpc' \in {"none", "while", "lock", "check", "unlock", "exited"}
    OBVIOUS
  <2>5. QED
    BY <2>1, <2>2, <2>3, <2>4
<1>2. Held'
  BY DEF Held, Holding0, Holding1
<1>3. SwapOK'
  BY DEF SwapOK
<1>4. CheckOK'
  BY DEF CheckOK, Storing
<1>5. QuitSorted'
  BY DEF QuitSorted, Ordered
<1>6. LifeOK'
  <2>1. CASE mi < N - 1
    <3>1. mi \in Sorters /\ mpc' = "create" /\ mi' = mi + 1 /\ cpc' = "none"
      BY <2>1 DEF LifeOK
    <3>2. alive = 0 .. mi /\ alive' = alive \cup {mi + 1}
      BY <2>1 DEF LifeOK
    <3>3. alive' = 0 .. mi'
      BY <3>1, <3>2, SMTT(20)
    <3>4. \A i \in Sorters : i >= mi' => pc'[i] = "none"
      BY <2>1, <3>1 DEF LifeOK
    <3>5. QED
      BY <2>1, <3>1, <3>3, <3>4 DEF LifeOK
  <2>2. CASE ~(mi < N - 1)
    BY <2>2 DEF LifeOK, CheckOK
  <2>3. QED
    BY <2>1, <2>2
<1>7. Owned'
  <2>1. \A k \in Sorters : pc[k] # "none" => pc'[k] = pc[k]
    <3>1. CASE mi < N - 1
      BY <3>1 DEF LifeOK
    <3>2. CASE ~(mi < N - 1)
      BY <3>2
    <3>3. QED
      BY <3>1, <3>2
  <2>2. mutex' = mutex
    OBVIOUS
  <2>3. ASSUME NEW p \in Positions, mutex[p] \in Sorters
        PROVE  \/ mutex[p] = p /\ pc'[p] \in Holding0
               \/ mutex[p] = p - 1 /\ pc'[p - 1] \in Holding1
    BY <2>1, <2>3 DEF Owned, Holding0, Holding1
  <2>4. \A p \in Positions : mutex[p] # FnCheck
    BY DEF Owned, LifeOK
  <2>5. QED
    BY <2>2, <2>3, <2>4 DEF Owned
<1>8. StartedOK'
  <2>1. CASE mi < N - 1
    <3>1. mi \in Sorters /\ mpc' = "create" /\ mi' = mi + 1 /\ pc' = [pc EXCEPT ![mi] = "while"]
      BY <2>1 DEF LifeOK
    <3>2. QED
      BY <3>1 DEF StartedOK
  <2>2. CASE ~(mi < N - 1)
    <3>1. mi = N - 1 /\ mpc' = "join" /\ pc' = pc /\ cpc' = "while"
      BY <2>2 DEF LifeOK
    <3>2. QED
      BY <3>1 DEF StartedOK
  <2>3. QED
    BY <2>1, <2>2
<1>9. QED
  BY <1>1, <1>2, <1>3, <1>4, <1>5, <1>6, <1>7, <1>8

LEMMA CreateFailsStep ==
  ASSUME Inv, CreateFails
  PROVE  Inv'
<1> USE NAssumption DEF Positions, Sorters, FnCheck, FREE, Inv, TypeOK, checker, CreateFails, MainAt
<1>1. mpc' = "exit" /\ mi' = mi /\ alive' \subseteq Positions /\ alive \subseteq alive'
  <2>1. CASE mi < N - 1
    BY <2>1, mi + 1 \in Positions
  <2>2. CASE ~(mi < N - 1)
    BY <2>2
  <2>3. QED
    BY <2>1, <2>2
<1>2. UNCHANGED <<num, mutex, quitting, pc, swap, cpc, ci>>
  OBVIOUS
<1>3. mpc = "create"
  OBVIOUS
<1> HIDE DEF CreateFails
<1>4. TypeOK'
  BY <1>1, <1>2
<1>5. LifeOK'
  BY <1>1, <1>2, <1>3 DEF LifeOK
<1>6. Held' /\ Owned'
  BY <1>2 DEF Held, Owned
<1>7. SwapOK' /\ CheckOK' /\ QuitSorted'
  BY <1>2 DEF SwapOK, CheckOK, QuitSorted, Ordered
<1>8. StartedOK'
  BY <1>1 DEF StartedOK
<1>9. QED
  BY <1>4, <1>5, <1>6, <1>7, <1>8

LEMMA JoinStep ==
  ASSUME Inv, Join
  PROVE  Inv'
<1> USE NAssumption DEF Positions, Sorters, FnCheck, FREE, Inv, TypeOK, checker, main, Join, MainAt
<1>1. TypeOK'
  <2>1. mi' \in 0 .. N /\ mpc' \in {"join", "destroy"}
    BY SMTT(20)
  <2>2. UNCHANGED <<num, mutex, alive, quitting, pc, swap, cpc, ci>>
    OBVIOUS
  <2> HIDE DEF Join
  <2>3. QED
    BY <2>1, <2>2
<1>2. Held'
  BY DEF Held, Holding0, Holding1
<1>3. SwapOK'
  BY DEF SwapOK
<1>4. CheckOK'
  BY DEF CheckOK, Storing
<1>5. QuitSorted'
  BY DEF QuitSorted, Ordered
<1>6. LifeOK'
  BY SMTT(20) DEF LifeOK, CheckOK
<1>7. Owned'
  BY DEF Owned, Held, Holding0, Holding1
<1>8. StartedOK'
  BY DEF StartedOK
<1>9. QED
  BY <1>1, <1>2, <1>3, <1>4, <1>5, <1>6, <1>7, <1>8

LEMMA DestroyStep ==
  ASSUME Inv, Destroy
  PROVE  Inv'
<1> USE NAssumption DEF Positions, Sorters, FnCheck, FREE, Inv, TypeOK, checker, main, Destroy, MainAt
<1>1. TypeOK'
  <2>1. mi' \in 0 .. N /\ mpc' \in {"destroy", "after"}
    OBVIOUS
  <2>2. alive' \subseteq Positions
    OBVIOUS
  <2>3. QED
    BY <2>1, <2>2
<1>2. Held'
  BY DEF Held, Holding0, Holding1
<1>3. SwapOK'
  BY DEF SwapOK
<1>4. CheckOK'
  BY DEF CheckOK, Storing
<1>5. QuitSorted'
  BY DEF QuitSorted, Ordered
<1>6. LifeOK'
  BY DEF LifeOK, CheckOK
<1>7. Owned'
  BY DEF Owned, Held, Holding0, Holding1
<1>8. StartedOK'
  BY DEF StartedOK
<1>9. QED
  BY <1>1, <1>2, <1>3, <1>4, <1>5, <1>6, <1>7, <1>8

-----------------------------------------------------------------------------
LEMMA InitInv ==
  ASSUME Init
  PROVE  Inv
<1> USE NAssumption DEF Init, Positions, Sorters, FnCheck, FREE
<1>1. TypeOK
  <2>1. N \in Int /\ 0 \in 0 .. N /\ {0} \subseteq Positions
    OBVIOUS
  <2>2. num \in [Positions -> Int]
    BY <2>1
  <2>3. mutex \in [Positions -> Positions \cup {FREE}]
    OBVIOUS
  <2>4. pc \in [Sorters -> SorterLabels]
    BY DEF SorterLabels
  <2>5. swap \in [Sorters -> Int]
    OBVIOUS
  <2>6. quitting \in BOOLEAN
    BY Zenon
  <2>7. QED
    BY <2>1, <2>2, <2>3, <2>4, <2>5, <2>6 DEF TypeOK
<1>2. Held
  BY DEF Held, Holding0, Holding1
<1>3. SwapOK
  BY DEF SwapOK
<1>4. CheckOK
  BY DEF CheckOK, Storing
<1>5. QuitSorted /\ LifeOK
  BY DEF QuitSorted, LifeOK
<1>7. Owned /\ StartedOK
  <2>1. \A p \in Positions : mutex[p] \notin Sorters /\ mutex[p] # FnCheck
    OBVIOUS
  <2>2. Owned
    BY <2>1 DEF Owned
  <2>3. StartedOK
    BY DEF StartedOK
  <2>4. QED
    BY <2>2, <2>3
<1>6. QED
  BY <1>1, <1>2, <1>3, <1>4, <1>5, <1>7 DEF Inv

LEMMA StutterInv ==
  ASSUME Inv, UNCHANGED vars
  PROVE  Inv'
BY DEF vars, Inv, TypeOK, Held, Owned, SwapOK, CheckOK, QuitSorted, Ordered, LifeOK,
       StartedOK

LEMMA NextInv ==
  ASSUME Inv, [Next]_vars
  PROVE  Inv'
<1>1. ASSUME NEW i \in Sorters, Sorter(i)
      PROVE  Inv'
  BY <1>1, WhileStep, Lock0Step, Lock1Step, CompareStep, Store0Step, Store1Step,
     Unlock0Step, Unlock1Step DEF Sorter
<1>2. CASE Checker
  BY <1>2, CheckWhileStep, LockAllStep, CheckStep, UnlockAllStep DEF Checker
<1>3. CASE Main
  BY <1>3, CreateStep, CreateFailsStep, JoinStep, DestroyStep DEF Main
<1>4. CASE Ended \/ UNCHANGED vars
  BY <1>4, StutterInv DEF Ended
<1>5. QED
  BY <1>1, <1>2, <1>3, <1>4 DEF Next

\* The invariant holds for lists of every length.
THEOREM Invariance == Spec => []Inv
<1>1. Init => Inv
  BY InitInv
<1>2. Inv /\ [Next]_vars => Inv'
  BY NextInv
<1>3. QED
  BY <1>1, <1>2, PTL DEF Spec

\* The variables of mtsort.c keep to their types.
THEOREM TypeCorrect == Spec => []TypeOK
<1>1. Inv => TypeOK
  BY DEF Inv
<1>2. QED
  BY <1>1, Invariance, PTL

\* Once the checker has set quitting (104) the list is and stays sorted.
THEOREM SortedOnceQuitting == Spec => []QuitSorted
<1>1. Inv => QuitSorted
  BY DEF Inv
<1>2. QED
  BY <1>1, Invariance, PTL

\* main neither creates a thread before its mutexes nor destroys a mutex
\* before the last thread that uses it has ended.
THEOREM MutexesOutliveThreads == Spec => []MutexesAlive
<1>1. ASSUME Inv
      PROVE  MutexesAlive
  <2>1. mpc \in {"create", "exit", "join", "destroy", "after"}
    BY <1>1 DEF Inv, TypeOK
  <2>2. CASE mpc \in {"create", "exit"}
    <3>1. \A i \in Sorters : pc[i] # "none" => i < mi
      BY <1>1, <2>2, NAssumption DEF Inv, LifeOK, Sorters, TypeOK
    <3>2. \A i \in Sorters, p \in Positions : Using(i, p) => i < mi /\ (p = i \/ p = i + 1)
      BY <3>1 DEF Using
    <3>3. 0 .. mi \subseteq alive /\ cpc = "none"
      BY <1>1, <2>2 DEF Inv, LifeOK
    <3>4. QED
      BY <1>1, <3>2, <3>3, NAssumption DEF MutexesAlive, Inv, TypeOK, Sorters, Positions
  <2>3. CASE mpc = "join"
    BY <1>1, <2>3 DEF Inv, LifeOK, MutexesAlive
  <2>4. CASE mpc \in {"destroy", "after"}
    BY <1>1, <2>4 DEF Inv, LifeOK, MutexesAlive, Using
  <2>5. QED
    BY <2>1, <2>2, <2>3, <2>4
<1>2. QED
  BY <1>1, Invariance, PTL

-----------------------------------------------------------------------------
(* mtsort implements NeighbourSort.                                            *)

\* An exchange happens at the first of its stores.
LEMMA Store0Exchanges ==
  ASSUME Inv, NEW i \in Sorters, Store0(i)
  PROVE  Sort!Exchange(i)
<1> USE NAssumption DEF Positions, Sorters, FnCheck, FREE
<1>1. i \in Positions /\ i + 1 \in Positions
  OBVIOUS
<1>2. mutex[i] = i /\ mutex[i + 1] = i
  BY DEF Inv, Held, Store0, Holding0, Holding1
<1>3. i - 1 \in Sorters => pc[i - 1] # "store1"
  BY <1>2 DEF Inv, Held, Holding1
<1>4. Settled[i] = num[i]
  BY <1>1, <1>3 DEF Settled
<1>5. Settled[i + 1] = num[i + 1]
  BY <1>1 DEF Settled, Store0
<1>6. ~quitting /\ num[i + 1] < num[i] /\ swap[i] = num[i]
  BY DEF Inv, CheckOK, SwapOK, Storing, Store0
<1>7. pc' = [pc EXCEPT ![i] = "store1"] /\ num' = [num EXCEPT ![i] = num[i + 1]]
      /\ swap' = swap /\ quitting' = quitting
  BY DEF Store0, Goto
<1>8. ASSUME NEW p \in Positions
      PROVE  Settled'[p] = IF p = i + 1 THEN num[i] ELSE IF p = i THEN num[i + 1]
                           ELSE Settled[p]
  <2>1. CASE p = i + 1
    BY <1>6, <1>7, <2>1 DEF Settled, Inv, TypeOK
  <2>2. CASE p = i
    BY <1>3, <1>7, <2>2 DEF Settled, Inv, TypeOK
  <2>3. CASE p # i /\ p # i + 1
    BY <1>7, <2>3 DEF Settled, Inv, TypeOK
  <2>4. QED
    BY <2>1, <2>2, <2>3
<1>9. Settled' = [Settled EXCEPT ![i] = Settled[i + 1], ![i + 1] = Settled[i]]
  <2>1. Settled = [p \in Positions |-> Settled[p]]
    BY DEF Settled
  <2>2. Settled' = [p \in Positions |-> Settled'[p]]
    BY DEF Settled
  <2>3. QED
    BY <1>1, <1>4, <1>5, <1>8, <2>1, <2>2
<1>10. QED
  BY <1>4, <1>5, <1>6, <1>7, <1>9 DEF Sort!Exchange

\* The second store only makes num what Settled already is.
LEMMA Store1Settles ==
  ASSUME Inv, NEW i \in Sorters, Store1(i)
  PROVE  Settled' = Settled
<1> USE NAssumption DEF Positions, Sorters, FnCheck, FREE
<1>1. pc' = [pc EXCEPT ![i] = "unlock0"] /\ num' = [num EXCEPT ![i + 1] = swap[i]]
      /\ swap' = swap /\ pc[i] = "store1"
  BY DEF Store1, Goto
<1>2. ASSUME NEW p \in Positions
      PROVE  Settled'[p] = Settled[p]
  <2>1. CASE p = i + 1
    BY <1>1, <2>1 DEF Settled, Inv, TypeOK
  <2>2. CASE p # i + 1
    BY <1>1, <2>2 DEF Settled, Inv, TypeOK
  <2>3. QED
    BY <2>1, <2>2
<1>3. QED
  BY <1>2 DEF Settled

\* The other steps of a sorter touch neither num nor a thread at its second store.
LEMMA OthersSettled ==
  ASSUME Inv, NEW i \in Sorters,
         While(i) \/ Lock0(i) \/ Lock1(i) \/ Compare(i) \/ Unlock0(i) \/ Unlock1(i)
  PROVE  Settled' = Settled /\ quitting' = quitting
<1> USE NAssumption DEF Positions, Sorters
<1>1. num' = num /\ quitting' = quitting /\ pc[i] # "store1" /\ pc'[i] # "store1"
  BY DEF While, Lock0, Lock1, Compare, Unlock0, Unlock1, Goto, Inv, TypeOK
<1>2. \A j \in Sorters : j # i => pc'[j] = pc[j] /\ swap'[j] = swap[j]
  BY DEF While, Lock0, Lock1, Compare, Unlock0, Unlock1, Goto, Inv, TypeOK
<1>3. ASSUME NEW p \in Positions
      PROVE  Settled'[p] = Settled[p]
  BY <1>1, <1>2 DEF Settled
<1>4. QED
  BY <1>1, <1>3 DEF Settled

\* The checker sets quitting when it holds every mutex, and nobody is between
\* two stores.
LEMMA CheckFinishes ==
  ASSUME Inv, Check
  PROVE  Sort!Finish \/ UNCHANGED <<Settled, quitting>>
<1> USE NAssumption DEF Positions, Sorters, FnCheck, FREE
<1>1. \A i \in Sorters : pc[i] # "store1"
  BY DEF Inv, Held, Check, Holding0
<1>2. Settled = num
  BY <1>1 DEF Settled, Inv, TypeOK
<1>3. Settled' = num
  BY <1>1 DEF Settled, Inv, TypeOK, Check
<1>4. CASE ci >= N - 1
  <2>1. \A j \in Sorters : j < ci => num[j] <= num[j + 1]
    BY DEF Inv, CheckOK, Check
  <2>2. \A j \in Sorters : j < ci
    BY <1>4 DEF Inv, TypeOK
  <2>3. Ordered(num)
    BY <2>1, <2>2 DEF Ordered
  <2>4. quitting' = TRUE
    BY <1>4 DEF Check
  <2>5. QED
    BY <1>2, <1>3, <2>3, <2>4 DEF Sort!Finish, Sort!Ordered, Ordered
<1>5. CASE ~(ci >= N - 1)
  <2>1. quitting' = FALSE
    <3>1. quitting' = (ci >= N - 1)
      BY DEF Check
    <3>2. (ci >= N - 1) \in BOOLEAN
      BY DEF Inv, TypeOK
    <3>3. QED
      BY <1>5, <3>1, <3>2, Zenon
  <2>2. quitting = FALSE
    <3>1. ~quitting /\ quitting \in BOOLEAN
      BY DEF Check, Inv, CheckOK, TypeOK
    <3>2. QED
      BY <3>1, Zenon
  <2>3. QED
    BY <1>2, <1>3, <2>1, <2>2
<1>6. QED
  BY <1>4, <1>5

\* main starts threads at the top of their loops.
LEMMA CreateSettled ==
  ASSUME Inv, Create
  PROVE  UNCHANGED <<Settled, quitting>>
<1> USE NAssumption DEF Positions, Sorters
<1>1. \A i \in Sorters : (pc'[i] = "store1") = (pc[i] = "store1")
  <2>1. CASE mi < N - 1
    BY <2>1, SMTT(20) DEF Create, Goto, Inv, TypeOK, LifeOK
  <2>2. CASE ~(mi < N - 1)
    BY <2>2 DEF Create
  <2>3. QED
    BY <2>1, <2>2
<1>2. num' = num /\ swap' = swap /\ quitting' = quitting
  BY DEF Create
<1>3. QED
  BY <1>1, <1>2 DEF Settled

\* Every step of mtsort is one of NeighbourSort, or stutters.
LEMMA StepSorts ==
  ASSUME Inv, [Next]_vars
  PROVE  [Sort!Next]_<<Settled, quitting>>
<1>1. ASSUME NEW i \in Sorters, Sorter(i)
      PROVE  [Sort!Next]_<<Settled, quitting>>
  <2>1. CASE Store0(i)
    BY <2>1, Store0Exchanges DEF Sort!Next, Sorters
  <2>2. CASE Store1(i)
    BY <2>2, Store1Settles DEF Store1
  <2>3. CASE While(i) \/ Lock0(i) \/ Lock1(i) \/ Compare(i) \/ Unlock0(i) \/ Unlock1(i)
    BY <2>3, OthersSettled
  <2>4. QED
    BY <1>1, <2>1, <2>2, <2>3 DEF Sorter
<1>2. CASE Check
  BY <1>2, CheckFinishes DEF Sort!Next
<1>3. CASE CheckWhile \/ LockAll \/ UnlockAll
  BY <1>3 DEF CheckWhile, LockAll, UnlockAll, main, Settled
<1>4. CASE Create
  BY <1>4, CreateSettled
<1>5. CASE CreateFails \/ Join \/ Destroy
  BY <1>5 DEF CreateFails, Join, Destroy, checker, Settled
<1>6. CASE Ended \/ UNCHANGED vars
  BY <1>6 DEF Ended, vars, Settled
<1>7. QED
  BY <1>1, <1>2, <1>3, <1>4, <1>5, <1>6 DEF Next, Checker, Main

\* Preempted threads that store one element at a time sort like exchanges of
\* neighbours that are out of order, for lists of every length.
THEOREM Refinement == Spec => ImplementsSort
<1>1. Init => Sort!Init
  BY NAssumption DEF Init, Sort!Init, Settled, Sort!Positions, Positions, Sorters
<1>2. Inv /\ [Next]_vars => [Sort!Next]_<<Settled, quitting>>
  BY StepSorts
<1>3. QED
  BY <1>1, <1>2, Invariance, PTL DEF Spec, Sort!Spec, ImplementsSort

-----------------------------------------------------------------------------
(* What exchanges of neighbours do to a list.                                 *)

Exchanged(l, i) == [l EXCEPT ![i] = l[i + 1], ![i + 1] = l[i]]

\* The place that i and i + 1 exchanged give to position p.
Mirror(i, p) == IF p = i THEN i + 1 ELSE IF p = i + 1 THEN i ELSE p

LEMMA MirrorIs ==
  ASSUME NEW i \in Sorters, NEW p \in Positions
  PROVE  Mirror(i, p) \in Positions /\ Mirror(i, Mirror(i, p)) = p
BY NAssumption DEF Mirror, Positions, Sorters

LEMMA ExchangedIs ==
  ASSUME NEW T, NEW l \in [Positions -> T], NEW i \in Sorters
  PROVE  /\ Exchanged(l, i) \in [Positions -> T]
         /\ \A p \in Positions : Exchanged(l, i)[p] = l[Mirror(i, p)]
BY NAssumption DEF Exchanged, Mirror, Positions, Sorters

\* An exchange of two elements of a permutation gives a permutation.
LEMMA ExchangePermutes ==
  ASSUME NEW T, NEW l \in Bijection(Positions, T), NEW i \in Sorters
  PROVE  Exchanged(l, i) \in Bijection(Positions, T)
<1> DEFINE k == Exchanged(l, i)
<1>1. l \in [Positions -> T]
  BY Fun_BijectionProperties
<1>2. \A a, b \in Positions : l[a] = l[b] => a = b
  BY Fun_BijectionProperties
<1>3. \A t \in T : \E p \in Positions : l[p] = t
  BY Fun_BijectionProperties, Fun_SurjectionProperties
<1>4. k \in [Positions -> T] /\ \A p \in Positions : k[p] = l[Mirror(i, p)]
  BY <1>1, ExchangedIs
<1> HIDE DEF k
<1>5. \A a, b \in Positions : k[a] = k[b] => a = b
  <2> SUFFICES ASSUME NEW a \in Positions, NEW b \in Positions, k[a] = k[b]
               PROVE  a = b
    OBVIOUS
  <2>1. Mirror(i, a) = Mirror(i, b)
    BY <1>2, <1>4, MirrorIs
  <2>2. QED
    BY <2>1, MirrorIs
<1>6. \A t \in T : \E p \in Positions : k[p] = t
  <2> SUFFICES ASSUME NEW t \in T
               PROVE  \E p \in Positions : k[p] = t
    OBVIOUS
  <2>1. PICK p \in Positions : l[p] = t
    BY <1>3
  <2>2. k[Mirror(i, p)] = t
    BY <1>4, <2>1, MirrorIs
  <2>3. QED
    BY <2>2, MirrorIs
<1>7. k \in Injection(Positions, T)
  BY <1>4, <1>5, Fun_IsInj
<1>8. k \in Surjection(Positions, T)
  BY <1>4, <1>6, Fun_IsSurj
<1>9. QED
  BY <1>7, <1>8 DEF Bijection, k

\* An exchange of neighbours that are out of order leaves one inversion less:
\* with the two positions mirrored, an inversion of the new list is one of the
\* old, and none becomes the exchanged pair itself.
LEMMA ExchangeInverts ==
  ASSUME NEW l \in [Positions -> Int], NEW i \in Sorters, l[i + 1] < l[i]
  PROVE  Cardinality(Inversions(Exchanged(l, i))) < Cardinality(Inversions(l))
<1> USE NAssumption
<1> DEFINE k == Exchanged(l, i)
           pair == <<i, i + 1>>
           rest == Inversions(l) \ {pair}
           m == [x \in Inversions(k) |-> <<Mirror(i, x[1]), Mirror(i, x[2])>>]
<1>1. k \in [Positions -> Int] /\ \A p \in Positions : k[p] = l[Mirror(i, p)]
  BY DEF Exchanged, Mirror, Positions, Sorters
<1>2. i \in Positions /\ i + 1 \in Positions /\ Mirror(i, i) = i + 1 /\ Mirror(i, i + 1) = i
  BY DEF Positions, Sorters, Mirror
<1> HIDE DEF k
<1>3. IsFiniteSet(Inversions(l))
  <2>1. IsFiniteSet(Positions)
    BY FS_Interval DEF Positions
  <2>2. IsFiniteSet(Positions \X Positions)
    BY <2>1, FS_Product
  <2>3. Inversions(l) \in SUBSET (Positions \X Positions)
    BY DEF Inversions
  <2>4. QED
    BY <2>2, <2>3, FS_Subset
<1>4. pair \in Inversions(l)
  BY <1>2 DEF Inversions, Positions
<1>5. IsFiniteSet(rest) /\ Cardinality(rest) = Cardinality(Inversions(l)) - 1
  BY <1>3, <1>4, FS_RemoveElement
<1>6. ASSUME NEW x \in Inversions(k)
      PROVE  /\ m[x] \in rest
             /\ \E a \in Positions, b \in Positions :
                  x = <<a, b>> /\ m[x] = <<Mirror(i, a), Mirror(i, b)>>
  <2>1. PICK a \in Positions, b \in Positions : x = <<a, b>> /\ a < b /\ k[b] < k[a]
    BY DEF Inversions
  <2>2. x[1] = a /\ x[2] = b
    BY <2>1
  <2>3. l[Mirror(i, b)] < l[Mirror(i, a)]
    BY <1>1, <2>1
  <2>4. ~(a = i /\ b = i + 1)
    <3>1. SUFFICES ASSUME a = i, b = i + 1
                   PROVE  FALSE
      OBVIOUS
    <3>2. l[i] < l[i + 1]
      BY <1>2, <2>3, <3>1
    <3>3. QED
      BY <1>2, <3>2
  <2>5. a \in Int /\ b \in Int /\ i \in Int
    BY DEF Positions, Sorters
  <2>6. Mirror(i, a) < Mirror(i, b) /\ ~(Mirror(i, a) = i /\ Mirror(i, b) = i + 1)
    BY <2>1, <2>4, <2>5 DEF Mirror
  <2>7. Mirror(i, a) \in Positions /\ Mirror(i, b) \in Positions
    BY <2>1, MirrorIs
  <2>8. <<Mirror(i, a), Mirror(i, b)>> \in Inversions(l)
    BY <2>3, <2>6, <2>7 DEF Inversions
  <2>9. <<Mirror(i, a), Mirror(i, b)>> # pair
    BY <2>6
  <2>10. m[x] = <<Mirror(i, a), Mirror(i, b)>>
    BY <2>2
  <2>11. QED
    BY <2>1, <2>2, <2>8, <2>9, <2>10
<1>7. m \in Injection(Inversions(k), rest)
  <2>1. m \in [Inversions(k) -> rest]
    BY <1>6
  <2>2. ASSUME NEW x \in Inversions(k), NEW y \in Inversions(k), m[x] = m[y]
        PROVE  x = y
    <3>1. PICK a \in Positions, b \in Positions :
            x = <<a, b>> /\ m[x] = <<Mirror(i, a), Mirror(i, b)>>
      BY <1>6
    <3>2. PICK c \in Positions, d \in Positions :
            y = <<c, d>> /\ m[y] = <<Mirror(i, c), Mirror(i, d)>>
      BY <1>6
    <3> HIDE DEF m
    <3>3. Mirror(i, a) = Mirror(i, c) /\ Mirror(i, b) = Mirror(i, d)
      BY <2>2, <3>1, <3>2
    <3>4. a = c /\ b = d
      BY <3>3, MirrorIs
    <3>5. QED
      BY <3>1, <3>2, <3>4
  <2>3. QED
    BY <2>1, <2>2, Fun_IsInj
<1>8. Cardinality(Inversions(k)) <= Cardinality(rest)
  BY <1>5, <1>7, FS_Injection
<1>9. Cardinality(Inversions(l)) \in Nat /\ Cardinality(Inversions(k)) \in Nat
  BY <1>3, <1>5, <1>7, FS_Injection, FS_CardinalityType
<1>10. QED
  BY <1>5, <1>8, <1>9 DEF k

\* A non-empty set of natural numbers has a least one.
LEMMA LeastNatural ==
  ASSUME NEW S, S \subseteq Nat, S # {}
  PROVE  \E m \in S : \A k \in S : m <= k
<1> DEFINE less == OpToRel(<, Nat)
<1>1. IsWellFoundedOn(less, Nat)
  BY NatLessThanWellFounded
<1>2. \A i, j \in Nat : <<i, j>> \in less <=> i < j
  BY DEF OpToRel
<1> HIDE DEF less
<1>3. PICK m \in S : \A k \in S : ~(<<k, m>> \in less)
  <2>1. S \subseteq Nat /\ S # {}
    OBVIOUS
  <2>2. QED
    BY <1>1, <2>1, WFMin
<1>4. \A k \in S : ~(k < m)
  <2>1. m \in Nat /\ \A k \in S : k \in Nat
    OBVIOUS
  <2>2. QED
    BY <1>2, <1>3, <2>1, Zenon
<1>5. \A k \in S : k \in Nat
  OBVIOUS
<1>6. QED
  BY <1>4, <1>5

\* Of the permutations of 1 .. N one is sorted.
LEMMA SortedPermutation ==
  ASSUME NEW l \in Bijection(Positions, 1 .. N), Ordered(l)
  PROVE  l = [p \in Positions |-> p + 1]
<1> USE NAssumption
<1> DEFINE T == 1 .. N
<1>a. l \in Bijection(Positions, T)
  OBVIOUS
<1> HIDE DEF T
<1>b. /\ l \in [Positions -> T]
      /\ \A a, b \in Positions : l[a] = l[b] => a = b
      /\ \A v \in T : \E p \in Positions : l[p] = v
  BY <1>a, Fun_BijectionProperties
<1>1. l \in [Positions -> 1 .. N]
  BY <1>b DEF T
<1>2. \A a, b \in Positions : l[a] = l[b] => a = b
  BY <1>b
<1>3. \A v \in 1 .. N : \E p \in Positions : l[p] = v
  BY <1>b DEF T
<1>4. ASSUME NEW p \in Positions
      PROVE  \A q \in Positions : p <= q => l[p] <= l[q]
  <2> DEFINE S == {q \in Positions : p <= q /\ l[q] < l[p]}
  <2> SUFFICES ASSUME S # {}
               PROVE  FALSE
    BY <1>1
  <2>1. S \subseteq Nat
    BY DEF Positions
  <2>2. PICK q \in S : \A r \in S : q <= r
    BY <2>1, LeastNatural, Zenon
  <2>3. q \in Positions /\ p <= q /\ l[q] < l[p] /\ l[p] \in Int /\ q # p
    BY <1>1, <2>2
  <2>4. q - 1 \in Positions /\ p <= q - 1 /\ q - 1 \in 0 .. N - 2
    BY <2>3 DEF Positions
  <2>5. l[q - 1] <= l[q]
    <3>1. PICK r \in 0 .. N - 2 : r = q - 1
      BY <2>4
    <3>2. l[r] <= l[r + 1] /\ r + 1 = q
      BY <2>3, <3>1 DEF Ordered, Positions
    <3>3. QED
      BY <3>1, <3>2
  <2>6. q - 1 \in S
    BY <1>1, <2>3, <2>4, <2>5
  <2>7. QED
    BY <2>2, <2>3, <2>6 DEF Positions
<1>5. \A p \in Positions : l[p] = p + 1
  <2> DEFINE S == {p \in Positions : l[p] # p + 1}
  <2> SUFFICES ASSUME S # {}
               PROVE  FALSE
    OBVIOUS
  <2>1. S \subseteq Nat
    BY DEF Positions
  <2>2. PICK p \in S : \A q \in S : p <= q
    BY <2>1, LeastNatural, Zenon
  <2>3. p \in Positions /\ p \in Nat /\ p < N /\ l[p] # p + 1 /\ l[p] \in 1 .. N
    BY <1>1, <2>2 DEF Positions
  <2>4. \A q \in Positions : q < p => l[q] = q + 1
    BY <2>2, <2>3 DEF Positions
  <2>5. l[p] > p + 1
    <3>1. ASSUME l[p] <= p
          PROVE  FALSE
      <4>1. l[p] - 1 \in Positions /\ l[p] - 1 < p
        BY <2>3, <3>1 DEF Positions
      <4>2. l[l[p] - 1] = l[p]
        BY <2>3, <2>4, <4>1
      <4>3. QED
        BY <1>2, <2>3, <4>1, <4>2
    <3>2. QED
      BY <2>3, <3>1
  <2>6. p + 1 \in 1 .. N
    BY <2>3
  <2>7. PICK r \in Positions : l[r] = p + 1
    BY <1>3, <2>6
  <2>8. CASE r < p
    BY <2>3, <2>4, <2>7, <2>8 DEF Positions
  <2>9. CASE p <= r
    BY <1>4, <2>3, <2>5, <2>7, <2>9
  <2>10. QED
    BY <2>3, <2>8, <2>9 DEF Positions
<1>6. QED
  BY <1>1, <1>5

-----------------------------------------------------------------------------
LEMMA SettledInt ==
  ASSUME Inv
  PROVE  Settled \in [Positions -> Int]
BY DEF Settled, Inv, TypeOK

\* A step leaves the list alone or exchanges neighbours.
LEMMA StepExchanges ==
  ASSUME Inv, [Next]_vars, Settled' # Settled
  PROVE  \E i \in Sorters :
           Settled[i + 1] < Settled[i] /\ Settled' = Exchanged(Settled, i)
<1>1. Sort!Next
  BY StepSorts
<1>2. PICK i \in 0 .. N - 2 : Sort!Exchange(i)
  BY <1>1 DEF Sort!Next, Sort!Finish
<1>3. QED
  BY <1>2 DEF Sort!Exchange, Exchanged, Sorters

\* Whatever the sorters do to it, the list has the elements it had (59, 60).
THEOREM ElementsKept == Spec => []NothingLost
<1>1. Init => NothingLost
  <2> SUFFICES ASSUME Init
               PROVE  NothingLost
    OBVIOUS
  <2> DEFINE l == [p \in Positions |-> N - p]
  <2>1. Settled = l
    BY DEF Init, Settled
  <2>2. l \in [Positions -> 1 .. N] /\ \A a, b \in Positions : l[a] = l[b] => a = b
    BY NAssumption DEF Positions
  <2>3. ASSUME NEW v \in 1 .. N
        PROVE  \E p \in Positions : l[p] = v
    <3>1. N - v \in Positions /\ l[N - v] = v
      BY NAssumption DEF Positions
    <3>2. QED
      BY <3>1
  <2> HIDE DEF l
  <2>4. l \in Bijection(Positions, 1 .. N)
    BY <2>2, <2>3, Fun_IsBij
  <2>5. QED
    BY <2>1, <2>4 DEF NothingLost
<1>2. Inv /\ NothingLost /\ [Next]_vars => NothingLost'
  <2> SUFFICES ASSUME Inv, NothingLost, [Next]_vars, Settled' # Settled
               PROVE  NothingLost'
    BY NAssumption DEF NothingLost, Positions
  <2>1. PICK i \in Sorters : Settled' = Exchanged(Settled, i)
    BY StepExchanges
  <2>2. QED
    BY <2>1, ExchangePermutes DEF NothingLost, Positions
<1>3. QED
  BY <1>1, <1>2, Invariance, PTL DEF Spec

\* Every exchange makes the list more sorted: the number of pairs that are out
\* of order is what the exchanges that are still to come are bounded by.
THEOREM ExchangesFewer == Spec => ExchangesEnd
<1>1. ASSUME Inv, [Next]_vars, Settled' # Settled
      PROVE  Cardinality(Inversions(Settled')) < Cardinality(Inversions(Settled))
  <2>1. PICK i \in Sorters :
          Settled[i + 1] < Settled[i] /\ Settled' = Exchanged(Settled, i)
    BY <1>1, StepExchanges
  <2>2. Settled \in [Positions -> Int]
    BY <1>1, SettledInt
  <2>3. QED
    BY <2>1, <2>2, ExchangeInverts
<1>2. Inv /\ [Next]_vars =>
        [Settled' # Settled =>
           Cardinality(Inversions(Settled')) < Cardinality(Inversions(Settled))]_vars
  BY <1>1
<1>3. QED
  BY <1>2, Invariance, PTL DEF Spec, ExchangesEnd

\* main prints "[AFTER] The list is sorted" (199) of 1 .. N only.
THEOREM SortedAfter == Spec => []AfterIsSorted
<1>1. ASSUME Inv, NothingLost
      PROVE  AfterIsSorted
  <2> SUFFICES ASSUME mpc = "after"
               PROVE  AfterIsSorted
    BY DEF AfterIsSorted
  <2>1. cpc = "exited" /\ quitting /\ \A i \in Sorters : pc[i] = "exited"
    BY <1>1 DEF Inv, LifeOK
  <2>2. Settled = num
    BY <1>1, <2>1 DEF Settled, Inv, TypeOK
  <2>3. Ordered(num) /\ num \in Bijection(Positions, 1 .. N)
    BY <1>1, <2>1, <2>2 DEF Inv, QuitSorted, NothingLost
  <2>4. num = [p \in Positions |-> p + 1]
    BY <2>3, SortedPermutation
  <2>5. QED
    BY <2>1, <2>4 DEF AfterIsSorted
<1>2. QED
  BY <1>1, Invariance, ElementsKept, PTL

-----------------------------------------------------------------------------
\* The mutexes that somebody waits for.
Awaited ==
  {p \in Positions :
     \/ p \in Sorters /\ pc[p] = "lock0" /\ mutex[p] # FREE
     \/ p - 1 \in Sorters /\ pc[p - 1] = "lock1" /\ mutex[p] # FREE
     \/ p = ci /\ CheckerWaits}

\* Nobody waits for ever: if all did, so would the holder of the last mutex
\* that is waited for, but who holds a mutex waits for later ones only.
THEOREM NobodyStuck == Spec => []NoDeadlock
<1> USE NAssumption DEF Positions, Sorters, FnCheck, FREE
<1>1. ASSUME Inv
      PROVE  NoDeadlock
  <2> SUFFICES ASSUME MainWaits,
                      \A i \in Sorters : pc[i] \notin {"none", "exited"} => SorterWaits(i),
                      cpc \notin {"none", "exited"} => CheckerWaits
               PROVE  FALSE
    BY DEF NoDeadlock
  <2> USE <1>1
  <2>1. cpc # "none" /\ \A i \in Sorters : pc[i] # "none"
    BY DEF MainWaits, Inv, StartedOK
  <2>2. mi \in Int /\ 0 <= mi /\ mi <= N - 1 /\ ci \in Int /\ 0 <= ci
    BY DEF MainWaits, Inv, LifeOK, TypeOK
  <2>3. \A i \in Sorters : SorterWaits(i) => i \in Awaited \/ i + 1 \in Awaited
    BY DEF SorterWaits, Awaited
  <2>4. CheckerWaits => ci \in Awaited
    BY <2>2 DEF CheckerWaits, Awaited
  <2>5. Awaited # {}
    <3>1. CASE mi < N - 1
      <4>1. mi \in Sorters /\ pc[mi] # "exited"
        BY <2>2, <3>1 DEF MainWaits
      <4>2. QED
        BY <2>1, <2>3, <4>1
    <3>2. CASE ~(mi < N - 1)
      BY <2>1, <2>4, <3>2 DEF MainWaits
    <3>3. QED
      BY <3>1, <3>2
  <2>6. PICK p \in Awaited : \A q \in Awaited : q <= p
    <3> DEFINE S == {n \in Nat : N - 1 - n \in Awaited}
    <3>1. S \subseteq Nat
      OBVIOUS
    <3>2. \A q \in Awaited : N - 1 - q \in S
      BY DEF Awaited
    <3>3. S # {}
      BY <2>5, <3>2
    <3>4. PICK n \in S : \A k \in S : n <= k
      BY <3>1, <3>3, LeastNatural, Zenon
    <3>5. \A q \in Awaited : n <= N - 1 - q /\ q \in Int
      BY <3>2, <3>4 DEF Awaited
    <3>6. N - 1 - n \in Awaited /\ n \in Int
      BY <3>4
    <3>7. QED
      BY <3>5, <3>6
  <2>7. p \in Positions /\ mutex[p] \in Positions
    BY <2>6 DEF Awaited, CheckerWaits, Inv, TypeOK
  <2>8. CASE mutex[p] = FnCheck
    <3>1. \/ cpc = "lock" /\ p < ci
          \/ cpc = "check"
          \/ cpc = "unlock" /\ p >= ci
      BY <2>7, <2>8 DEF Inv, Owned
    <3>2. CheckerWaits
      BY <3>1
    <3>3. cpc = "lock" /\ p < ci
      BY <3>1, <3>2 DEF CheckerWaits
    <3>4. QED
      BY <2>2, <2>4, <2>6, <2>7, <3>2, <3>3
  <2>9. CASE mutex[p] \in Sorters
    <3>1. \/ mutex[p] = p /\ pc[p] \in Holding0
          \/ mutex[p] = p - 1 /\ pc[p - 1] \in Holding1
      BY <2>7, <2>9 DEF Inv, Owned
    <3>2. CASE mutex[p] = p /\ pc[p] \in Holding0
      <4>1. p \in Sorters /\ SorterWaits(p) /\ pc[p] = "lock1" /\ mutex[p + 1] # FREE
        BY <2>9, <3>2 DEF Holding0, SorterWaits
      <4>2. p + 1 \in Awaited
        BY <4>1 DEF Awaited
      <4>3. QED
        BY <2>6, <2>7, <4>2
    <3>3. CASE mutex[p] = p - 1 /\ pc[p - 1] \in Holding1
      BY <2>9, <3>3 DEF Holding1, SorterWaits
    <3>4. QED
      BY <3>1, <3>2, <3>3
  <2>10. QED
    BY <2>7, <2>8, <2>9
<1>2. QED
  BY <1>1, Invariance, PTL
===============================================================================
