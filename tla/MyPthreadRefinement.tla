------------------------ MODULE MyPthreadRefinement -------------------------
(***************************************************************************)
(* MyPthread implements MLFQ, as long as no tick tears an update.  A store *)
(* that links or unlinks a thread changes the Chain of one queue by an     *)
(* Append or a Without; the step of MLFQ is read off from that.            *)
(***************************************************************************)
EXTENDS MyPthreadQueueProofs, SequenceTheorems

USE DEF threadVars, accounts, listVars, schedVars, schedPtrs, machine

----------------------------------------------------------------------------
(* Paths, when a thread is linked or unlinked.                             *)

\* c without its k-th element, and its last element.
Without(c, k) == SubSeq(c, 1, k - 1) \o SubSeq(c, k + 1, Len(c))
Last(c) == c[Len(c)]

\* The elements of Without(c, k).
LEMMA WithoutIs ==
  ASSUME NEW S, NEW c \in Seq(S), NEW k \in 1 .. Len(c)
  PROVE  /\ Without(c, k) \in Seq(S) /\ Len(Without(c, k)) = Len(c) - 1
         /\ \A i \in 1 .. Len(c) - 1 :
              Without(c, k)[i] = IF i < k THEN c[i] ELSE c[i + 1]
<1> DEFINE a == SubSeq(c, 1, k - 1)
           b == SubSeq(c, k + 1, Len(c))
<1>0. Len(c) \in Nat /\ k \in Nat /\ k >= 1 /\ k <= Len(c) OBVIOUS
<1>1. a \in Seq(S) /\ Len(a) = k - 1 /\ \A i \in 1 .. k - 1 : a[i] = c[i]
  BY <1>0
<1>2. /\ b \in Seq(S) /\ Len(b) = Len(c) - k
      /\ \A i \in 1 .. Len(c) - k : b[i] = c[k + i]
  BY <1>0
<1> HIDE DEF a, b
<1>3. a \o b \in Seq(S) BY <1>1, <1>2
<1>4. Len(a \o b) = Len(a) + Len(b)
  <2>1. \A x, y \in Seq(S) : Len(x \o y) = Len(x) + Len(y) OBVIOUS
  <2>2. a \in Seq(S) /\ b \in Seq(S) BY <1>1, <1>2
  <2> QED BY <2>1, <2>2
<1>5. ASSUME NEW i \in 1 .. Len(c) - 1
      PROVE  (a \o b)[i] = IF i < k THEN c[i] ELSE c[i + 1]
  <2>1. CASE i < k
    <3>1. (a \o b)[i] = a[i] BY <1>0, <1>1, <1>2, <2>1
    <3> QED BY <1>0, <1>1, <2>1, <3>1
  <2>2. CASE ~(i < k)
    <3>1. i - Len(a) \in 1 .. Len(b) /\ k + (i - Len(a)) = i + 1 BY <1>0, <1>1, <1>2, <2>2
    <3>2. (a \o b)[i] = b[i - Len(a)] BY <1>0, <1>1, <1>2, <2>2
    <3> QED BY <1>0, <1>1, <1>2, <2>2, <3>1, <3>2
  <2> QED BY <2>1, <2>2
<1>6. Len(a \o b) = Len(c) - 1 BY <1>0, <1>1, <1>2, <1>4
<1>7. Without(c, k) = a \o b BY DEF Without, a, b
<1> QED BY <1>3, <1>5, <1>6, <1>7

\* Two paths from one thread are the same.
LEMMA SamePath ==
  ASSUME NEW nx \in [Threads -> ThreadOrNull], NEW P, PathsOf(P, nx),
         NEW t \in ThreadOrNull, NEW c, IsPath(c, t, nx), NEW d, IsPath(d, t, nx)
  PROVE  c = d
<1>1. Len(c) \in Nat /\ Len(d) \in Nat BY DEF IsPath
<1>2. Len(c) + Len(d) \in Nat /\ Len(c) <= Len(c) + Len(d) /\ Len(d) <= Len(c) + Len(d)
  BY <1>1
<1> DEFINE k == Len(c) + Len(d)
<1> HIDE DEF k
<1>3. k \in Nat /\ Len(c) <= k /\ Len(d) <= k BY <1>2 DEF k
<1>4. P[k][t] = c BY <1>3, OnePath
<1>5. P[k][t] = d BY <1>3, OnePath
<1> QED BY <1>4, <1>5

\* None of c's links is written.
LEMMA PathStays ==
  ASSUME NEW n, NEW n2, NEW t, NEW c, IsPath(c, t, n),
         \A i \in 1 .. Len(c) : n2[c[i]] = n[c[i]]
  PROVE  IsPath(c, t, n2)
BY DEF IsPath

\* t is linked behind the last thread of c.
LEMMA PathAppends ==
  ASSUME NEW n, NEW n2, NEW f, NEW f2, NEW c, IsPath(c, f, n), NEW t \in Threads,
         f2 = IF c = <<>> THEN t ELSE f,
         \A i \in 1 .. Len(c) : n2[c[i]] = IF i = Len(c) THEN t ELSE n[c[i]],
         n2[t] = NULL
  PROVE  IsPath(Append(c, t), f2, n2)
<1>1. /\ c \in Seq(Threads) /\ Len(c) \in Nat /\ (c # <<>> => c[1] = f)
      /\ \A i \in 1 .. Len(c) : n[c[i]] = IF i = Len(c) THEN NULL ELSE c[i + 1]
  BY DEF IsPath
<1> DEFINE d == Append(c, t)
<1>2. /\ d \in Seq(Threads) /\ Len(d) = Len(c) + 1 /\ d[Len(c) + 1] = t
      /\ \A i \in 1 .. Len(c) : d[i] = c[i]
  BY <1>1
<1> HIDE DEF d
<1>3. ASSUME NEW i \in 1 .. Len(d)
      PROVE  n2[d[i]] = IF i = Len(d) THEN NULL ELSE d[i + 1]
  <2>1. CASE i = Len(d) BY <1>1, <1>2, <2>1
  <2>2. CASE i # Len(d)
    <3>1. i \in 1 .. Len(c)
      <4>1. i \in 1 .. Len(c) + 1 /\ i # Len(c) + 1 BY <1>2, <2>2
      <4> QED BY <1>1, <4>1
    <3>2. d[i] = c[i] BY <1>2, <3>1
    <3>3. CASE i = Len(c) BY <1>2, <2>2, <3>1, <3>2, <3>3
    <3>4. CASE i # Len(c)
      <4>1. i + 1 \in 1 .. Len(c) BY <1>1, <3>1, <3>4
      <4>2. d[i + 1] = c[i + 1] BY <1>2, <4>1
      <4> QED BY <1>1, <2>2, <3>1, <3>2, <3>4, <4>2
    <3> QED BY <3>3, <3>4
  <2> QED BY <2>1, <2>2
<1>4. d # <<>> /\ d[1] = f2
  <2>0. d # <<>> BY <1>1, <1>2
  <2>1. CASE c = <<>>
    <3>1. Len(c) = 0 /\ 0 + 1 = 1 BY <2>1
    <3> QED BY <1>2, <2>0, <2>1, <3>1
  <2>2. CASE c # <<>>
    <3>1. 1 \in 1 .. Len(c) BY <1>1, <2>2
    <3> QED BY <1>1, <1>2, <2>0, <2>2, <3>1
  <2> QED BY <2>1, <2>2
<1>5. f2 # NULL
  <2>1. 1 \in 1 .. Len(d) BY <1>1, <1>2
  <2>2. d[1] \in Threads BY <1>2, <2>1
  <2> QED BY <1>4, <2>2, ThreadAssumption
<1>6. IsPath(d, f2, n2) BY <1>2, <1>3, <1>4, <1>5 DEF IsPath
<1> QED BY <1>6 DEF d

\* The k-th thread of c is unlinked.
LEMMA PathWithout ==
  ASSUME NEW n, NEW n2, NEW f, NEW f2, NEW c, IsPath(c, f, n), NEW k \in 1 .. Len(c),
         f2 = IF k = 1 THEN n[c[k]] ELSE f,
         \A i \in 1 .. Len(c) :
           i # k => n2[c[i]] = IF i = k - 1 THEN n[c[k]] ELSE n[c[i]]
  PROVE  IsPath(Without(c, k), f2, n2)
<1>1. /\ c \in Seq(Threads) /\ Len(c) \in Nat /\ (c # <<>> => c[1] = f)
      /\ \A i \in 1 .. Len(c) :
           /\ c[i] \in Threads
           /\ n[c[i]] = IF i = Len(c) THEN NULL ELSE c[i + 1]
      /\ c = <<>> <=> f = NULL
  BY DEF IsPath
<1>2. k \in Nat /\ 1 <= k /\ k <= Len(c) /\ Len(c) - 1 \in Nat BY <1>1
<1> DEFINE d == Without(c, k)
           N == Len(c) - 1
<1>3. /\ d \in Seq(Threads) /\ Len(d) = N
      /\ \A i \in 1 .. N : d[i] = IF i < k THEN c[i] ELSE c[i + 1]
  BY <1>1, WithoutIs
<1>4. N \in Nat /\ Len(c) = N + 1 /\ k <= N + 1 BY <1>1, <1>2
<1> HIDE DEF d, N
<1>5. ASSUME NEW i \in 1 .. N
      PROVE  n2[d[i]] = IF i = N THEN NULL ELSE d[i + 1]
  <2>0. i \in Nat /\ 1 <= i /\ i <= N BY <1>4
  <2>1. CASE i < k /\ i # k - 1
    <3>1. i \in 1 .. Len(c) /\ i # k /\ i # Len(c) /\ i + 1 < k /\ i + 1 \in 1 .. N /\ i # N
      BY <1>2, <1>4, <2>0, <2>1
    <3>2. n2[c[i]] = n[c[i]] BY <2>1, <3>1
    <3> QED BY <1>1, <1>3, <2>1, <3>1, <3>2
  <2>2. CASE i < k /\ i = k - 1
    <3>1. /\ i \in 1 .. Len(c) /\ i # k /\ ~(i + 1 < k) /\ i + 1 = k
          /\ i = N <=> k = Len(c)
          /\ i # N => i + 1 \in 1 .. N
      BY <1>2, <1>4, <2>0, <2>2
    <3>2. n2[c[i]] = n[c[k]] BY <2>2, <3>1
    <3>3. n[c[k]] = IF i = N THEN NULL ELSE c[i + 1 + 1] BY <1>1, <3>1
    <3>4. d[i] = c[i] /\ (i # N => d[i + 1] = c[i + 1 + 1]) BY <1>3, <2>2, <3>1
    <3> QED BY <3>2, <3>3, <3>4
  <2>3. CASE ~(i < k)
    <3>1. /\ i + 1 \in 1 .. Len(c) /\ i + 1 # k /\ i + 1 # k - 1 /\ ~(i + 1 < k)
          /\ i = N <=> i + 1 = Len(c)
          /\ i # N => i + 1 \in 1 .. N
      BY <1>2, <1>4, <2>0, <2>3
    <3>2. n2[c[i + 1]] = n[c[i + 1]] BY <3>1
    <3>3. n[c[i + 1]] = IF i = N THEN NULL ELSE c[i + 1 + 1] BY <1>1, <3>1
    <3>4. d[i] = c[i + 1] /\ (i # N => d[i + 1] = c[i + 1 + 1]) BY <1>3, <2>3, <3>1
    <3> QED BY <3>2, <3>3, <3>4
  <2> QED BY <2>1, <2>2, <2>3
<1>6. (d = <<>> <=> f2 = NULL) /\ (d # <<>> => d[1] = f2)
  <2>1. d = <<>> <=> N = 0 BY <1>3, <1>4
  <2>2. N # 0 => 1 \in 1 .. N /\ 1 + 1 \in 1 .. Len(c) BY <1>4
  <2>3. 1 \in 1 .. Len(c) /\ (N = 0 <=> 1 = Len(c)) BY <1>4
  <2>4. CASE k = 1
    <3>1. f2 = IF N = 0 THEN NULL ELSE c[1 + 1] BY <1>1, <2>3, <2>4
    <3>2. N # 0 => c[1 + 1] \in Threads /\ c[1 + 1] # NULL
      BY <1>1, <2>2, ThreadAssumption
    <3>3. N # 0 => d[1] = c[1 + 1] BY <1>3, <2>2, <2>4
    <3> QED BY <2>1, <3>1, <3>2, <3>3
  <2>5. CASE k # 1
    <3>1. N # 0 /\ 1 < k BY <1>2, <1>4, <2>5
    <3>2. d[1] = c[1] BY <1>3, <2>2, <3>1
    <3>3. c # <<>> BY <1>1, <2>3
    <3> QED BY <1>1, <2>1, <2>5, <3>1, <3>2, <3>3
  <2> QED BY <2>4, <2>5
<1>7. IsPath(d, f2, n2) BY <1>3, <1>5, <1>6 DEF IsPath
<1> QED BY <1>7 DEF d

----------------------------------------------------------------------------
(* The abstract state.                                                     *)

\* unlock() has the first waiter of m in hand; lock() has put its thread
\* behind the waiters of m, and no schedule(), its own or the handler's, has
\* yet taken the processor from it.
Waking(m) == cpu.op = "unlock" /\ cpu.arg = m /\ InHand(cpu.thr)
Parked(m) == /\ cpu.op = "lock" /\ cpu.arg = m
             /\ cpu.pc \in {"enq_rear", "sched", "maint", "switch"}
             /\ CurrentIs("BLOCKED") /\ ~SchedAt("next")

Waiters(m) ==
  (IF Waking(m) THEN <<cpu.thr>> ELSE <<>>)
    \o (IF Parked(m) THEN SubSeq(Chain(m), 1, Len(Chain(m)) - 1) ELSE Chain(m))

\* What holds of the lists in every state, on top of ListInv.
Pathed == \A q \in Queues : IsPath(Chain(q), front[q], next)

TailOK ==
  \A m \in Mutexes : Parked(m) /\ cpu.pc # "enq_rear" => rear[m] = currentThread

\* my_pthread_create() is given a thread of its own.
CreatingOK == cpu.op = "create" /\ cpu.pc \in EnqLabels => cpu.thr # Main

WaitersOK ==
  \A m \in Mutexes :
    /\ AbsWaiting(m) = Waiters(m)
    /\ Parked(m) => Chain(m) # <<>> /\ Last(Chain(m)) = currentThread

\* The threads of a queue.
LEMMA Members ==
  ASSUME NEW w, NEW p, Before(w, p), NEW q \in Queues
  PROVE  /\ Chain(q) \in Seq(Threads) /\ Len(Chain(q)) \in Nat
         /\ IsPath(Chain(q), front[q], next)
         /\ front[q] = NULL <=> Chain(q) = <<>>
         /\ \A i \in 1 .. Len(Chain(q)) : Chain(q)[i] \in Threads /\ w[Chain(q)[i]] = q
         /\ \A i, j \in 1 .. Len(Chain(q)) : Chain(q)[i] = Chain(q)[j] => i = j
         /\ \A t \in Threads : w[t] = q => \E i \in 1 .. Len(Chain(q)) : Chain(q)[i] = t
         /\ Ends[q] = IF Chain(q) = <<>> THEN NULL ELSE Last(Chain(q))
<1>1. IInv /\ QueueInv(w, p) /\ p \in [Threads -> Nat] BY DEF Before, QueueInv
<1>2. /\ Chain(q) \in Seq(Threads) /\ IsPath(Chain(q), front[q], next)
      /\ \A i, j \in 1 .. Len(Chain(q)) : i < j => p[Chain(q)[i]] < p[Chain(q)[j]]
      /\ Ends[q] = IF Chain(q) = <<>> THEN NULL ELSE Chain(q)[Len(Chain(q))]
      /\ \A t \in Threads : In(t, q) <=> w[t] = q
  BY <1>1, ChainsAre
<1>3. /\ Len(Chain(q)) \in Nat
      /\ \A i \in 1 .. Len(Chain(q)) : Chain(q)[i] \in Threads
      /\ DOMAIN Chain(q) = 1 .. Len(Chain(q))
  BY <1>2
<1>4. \A t \in Threads : w[t] = q <=> \E i \in 1 .. Len(Chain(q)) : Chain(q)[i] = t
  BY <1>2, <1>3 DEF In
<1>5. \A i, j \in 1 .. Len(Chain(q)) : Chain(q)[i] = Chain(q)[j] => i = j
  <2>1. \A i, j \in 1 .. Len(Chain(q)) : i < j => Chain(q)[i] # Chain(q)[j]
    <3> SUFFICES ASSUME NEW i \in 1 .. Len(Chain(q)), NEW j \in 1 .. Len(Chain(q)), i < j,
                        Chain(q)[i] = Chain(q)[j]
                 PROVE  FALSE
      OBVIOUS
    <3>1. p[Chain(q)[i]] < p[Chain(q)[j]] BY <1>2
    <3>2. p[Chain(q)[j]] \in Nat BY <1>1, <1>3
    <3> QED BY <3>1, <3>2
  <2> SUFFICES ASSUME NEW i \in 1 .. Len(Chain(q)), NEW j \in 1 .. Len(Chain(q)),
                      Chain(q)[i] = Chain(q)[j]
               PROVE  i = j
    OBVIOUS
  <2>2. i < j \/ j < i \/ i = j BY <1>3
  <2> QED BY <2>1, <2>2
<1>6. front[q] = NULL <=> Chain(q) = <<>> BY <1>2 DEF IsPath
<1> QED BY <1>2, <1>3, <1>4, <1>5, <1>6 DEF Last

\* Chain follows the links, up to a NULL.
LEMMA PathedIs ==
  ASSUME IInv, ListInv
  PROVE  Pathed
<1>1. PICK w, p : QueueInv(w, p) BY DEF ListInv
<1> QED BY <1>1, ChainsAre DEF Pathed

\* The only list the current thread is in is that of the mutex it is about to
\* wait for.
LEMMA WaitersAre ==
  ASSUME NEW w, NEW p, Before(w, p), TailOK, NEW m \in Mutexes
  PROVE  /\ AbsWaiting(m) = Waiters(m)
         /\ Parked(m) => Chain(m) # <<>> /\ Last(Chain(m)) = currentThread
<1>1. /\ Placed(w) /\ CarryOK(w) /\ CurrentOK /\ MaskOK /\ IInv
      /\ cpu \in Continuation /\ InBody(cpu)
      /\ m \in Queues /\ m \notin Levels /\ NULL \notin Queues
      /\ priority \in [Threads -> Levels] /\ NULL \notin Threads /\ Main \in Threads
      /\ currentThread \in ThreadOrNull
      /\ state \in [Threads -> {"NONE", "QUEUED", "YIELD", "EXITED", "JOINING",
                            "BLOCKED", "RUNNING"}]
  BY Typed, ThreadAssumption, LevelAssumption DEF Before, QueueInv, MaskOK, IInv, TypeOK, Queues
<1> DEFINE c == Chain(m)
<1>2. /\ Len(c) \in Nat /\ (c # <<>> => Last(c) \in Threads /\ w[Last(c)] = m)
      /\ Ends[m] = IF c = <<>> THEN NULL ELSE Last(c)
      /\ front[m] = NULL <=> c = <<>>
  <2>1. c # <<>> => Len(c) \in 1 .. Len(c) BY <1>1, Members
  <2> QED BY <1>1, <2>1, Members DEF Last
<1> HIDE DEF c
<1>3. ASSUME c # <<>>, Last(c) = AbsRunning PROVE Parked(m)
  <2> DEFINE t == Last(c)
  <2>0. t \in Threads /\ w[t] = m BY <1>2, <1>3
  <2>1. currentThread # NULL
    <3>1. currentThread = NULL => front[m] = NULL BY <1>1 DEF IInv, BeforeTimer
    <3> QED BY <1>2, <1>3, <3>1
  <2>2. ~SchedAt("next") /\ t = currentThread BY <1>1, <1>3, <2>0, <2>1 DEF AbsRunning
  <2> HIDE DEF t
  <2>3. state[t] = "BLOCKED" /\ ~Carried(t) /\ Waits(t, m)
    BY <1>1, <2>0 DEF Placed
  <2>4. ~Switching BY <1>1, <2>1, <2>2, <2>3 DEF CurrentOK, CurrentIs
  <2>5. /\ cpu.op = "lock" /\ cpu.pc \in EnqLabels \cup {"sched", "maint", "switch"}
    BY <1>1, <2>1, <2>2, <2>3 DEF CurrentOK, CurrentIs
  <2>6. cpu.me = t BY <1>1, <2>1, <2>2, <2>4 DEF IInv, ContextOwner
  <2>7. cpu.arg = m BY <2>3, <2>6 DEF Waits, CodeOf
  <2>8. cpu.pc \in EnqLabels => cpu.thr = t BY <1>1, <2>2, <2>5 DEF CarryOK
  <2>9. cpu.pc \in EnqLabels => cpu.pc = "enq_rear"
    BY <2>3, <2>8 DEF Carried, CarryLabels
  <2> QED BY <2>2, <2>3, <2>5, <2>7, <2>9 DEF Parked, CurrentIs
<1>4. ASSUME Parked(m) PROVE c # <<>> /\ Last(c) = currentThread /\ AbsRunning = currentThread
  <2>1. cpu.op = "lock" /\ cpu.arg = m BY <1>4 DEF Parked
  <2>3. currentThread # NULL
    BY <1>1, <1>4 DEF Parked, IInv, BeforeTimer
  <2>2. ~SchedAt("next") /\ ~Switching
    BY <1>1, <1>4, <2>3 DEF Parked, CurrentOK, CurrentIs
  <2>4. cpu.me = currentThread /\ AbsRunning = currentThread
    BY <1>1, <2>2, <2>3 DEF IInv, ContextOwner, AbsRunning
  <2>5. CASE cpu.pc = "enq_rear"
    <3>1. cpu.thr = currentThread /\ cpu.q = m
      BY <1>1, <2>1, <2>5 DEF CarryOK, EnqLabels
    <3>2. Ends[m] = currentThread BY <1>1, <2>5, <3>1 DEF Ends
    <3> QED BY <1>2, <2>3, <2>4, <3>2
  <2>6. CASE cpu.pc # "enq_rear"
    <3>1. cpu.pc \in {"sched", "maint", "switch"} BY <1>4, <2>6 DEF Parked
    <3>2. rear[m] = currentThread BY <1>4, <2>6 DEF TailOK
    <3>3. Ends[m] = rear[m] BY <1>1, <3>1 DEF Ends
    <3> QED BY <1>2, <2>3, <2>4, <3>2, <3>3
  <2> QED BY <2>5, <2>6
<1>5. (c # <<>> /\ Last(c) = AbsRunning) <=> Parked(m) BY <1>3, <1>4
<1>6. AbsWaiting(m) = Waiters(m) BY <1>5 DEF AbsWaiting, Waiters, Waking, Last, c
<1> QED BY <1>4, <1>6 DEF c

----------------------------------------------------------------------------
(* The lists after a step.                                                 *)

Mapped == IInv /\ CurrentOK /\ Pathed /\ TailOK /\ CreatingOK /\ WaitersOK

\* Whatever path the pointers form after a step is the queue.
LEMMA ChainNext ==
  ASSUME Mapped', NEW q \in Queues, NEW c, IsPath(c, front'[q], next')
  PROVE  Chain(q)' = c
<1>1. next' \in [Threads -> ThreadOrNull] /\ front' \in [Queues -> ThreadOrNull]
  BY DEF Mapped, IInv, TypeOK
<1>2. IsPath(Chain(q)', front'[q], next') BY DEF Mapped, Pathed
<1>3. PathsOf(Path', next') BY <1>1, PathNext
<1>4. front'[q] \in ThreadOrNull BY <1>1
<1> QED BY <1>1, <1>2, <1>3, <1>4, SamePath

\* A list none of whose pointers is written.
LEMMA ChainStays ==
  ASSUME Mapped, Mapped', NEW q \in Queues, front'[q] = front[q],
         \A i \in 1 .. Len(Chain(q)) : next'[Chain(q)[i]] = next[Chain(q)[i]]
  PROVE  Chain(q)' = Chain(q)
<1>1. IsPath(Chain(q), front[q], next) BY DEF Mapped, Pathed
<1>2. IsPath(Chain(q), front[q], next') BY <1>1, PathStays
<1> QED BY <1>2, ChainNext

\* A step that writes no link.
LEMMA ChainsStay ==
  ASSUME Mapped, Mapped', front' = front, next' = next
  PROVE  \A q \in Queues : Chain(q)' = Chain(q)
BY ChainStays

\* t, in no list, has become the last thread of q.
LEMMA ChainAppends ==
  ASSUME NEW w, NEW p, Before(w, p), Mapped, Mapped', NEW q \in Queues,
         NEW t \in Threads, w[t] = NULL, next[t] = NULL,
         \A r \in Queues : front'[r] = IF r = q /\ Chain(q) = <<>> THEN t ELSE front[r],
         \A u \in Threads :
           next'[u] = IF Chain(q) # <<>> /\ u = Last(Chain(q)) THEN t ELSE next[u],
         NEW r \in Queues
  PROVE  Chain(r)' = IF r = q THEN Append(Chain(q), t) ELSE Chain(r)
<1>1. /\ Len(Chain(q)) \in Nat
      /\ \A i \in 1 .. Len(Chain(q)) :
           Chain(q)[i] \in Threads /\ w[Chain(q)[i]] = q /\ Chain(q)[i] # t
      /\ \A i, j \in 1 .. Len(Chain(q)) : Chain(q)[i] = Chain(q)[j] => i = j
      /\ IsPath(Chain(q), front[q], next)
      /\ Chain(q) # <<>> => Len(Chain(q)) \in 1 .. Len(Chain(q))
  <2>1. NULL \notin Queues BY ThreadAssumption
  <2> QED BY <2>1, Members
<1>2. CASE r = q
  <2>1. \A i \in 1 .. Len(Chain(q)) :
          next'[Chain(q)[i]] = IF i = Len(Chain(q)) THEN t ELSE next[Chain(q)[i]]
    BY <1>1 DEF Last
  <2>2. next'[t] = NULL BY <1>1 DEF Last
  <2>3. front'[q] = IF Chain(q) = <<>> THEN t ELSE front[q] OBVIOUS
  <2>4. IsPath(Append(Chain(q), t), front'[q], next') BY <1>1, <2>1, <2>2, <2>3, PathAppends
  <2> QED BY <1>2, <2>4, ChainNext
<1>3. CASE r # q
  <2>1. \A i \in 1 .. Len(Chain(r)) : Chain(r)[i] \in Threads /\ w[Chain(r)[i]] = r
    BY Members
  <2>2. \A i \in 1 .. Len(Chain(r)) : next'[Chain(r)[i]] = next[Chain(r)[i]]
    BY <1>1, <1>3, <2>1 DEF Last
  <2> QED BY <1>3, <2>2, ChainStays
<1> QED BY <1>2, <1>3

\* The first thread of q has been taken.
LEMMA ChainTail ==
  ASSUME NEW w, NEW p, Before(w, p), Mapped, Mapped', NEW q \in Queues, front[q] # NULL,
         \A r \in Queues : front'[r] = IF r = q THEN next[front[q]] ELSE front[r],
         \A u \in Threads : u # front[q] => next'[u] = next[u],
         NEW r \in Queues
  PROVE  /\ Chain(q) # <<>> /\ Head(Chain(q)) = front[q] /\ front[q] \in Threads
         /\ Chain(r)' = IF r = q THEN Tail(Chain(q)) ELSE Chain(r)
<1> DEFINE c == Chain(q)
<1>1. /\ c \in Seq(Threads) /\ Len(c) \in Nat /\ c # <<>>
      /\ \A i \in 1 .. Len(c) : c[i] \in Threads /\ w[c[i]] = q
      /\ \A i, j \in 1 .. Len(c) : c[i] = c[j] => i = j
      /\ IsPath(c, front[q], next)
  BY Members
<1>2. 1 \in 1 .. Len(c) /\ c[1] = front[q] BY <1>1 DEF IsPath
<1>3. \A s \in Queues : s # q =>
        \A i \in 1 .. Len(Chain(s)) : w[Chain(s)[i]] = s /\ Chain(s)[i] \in Threads
  BY Members
<1> HIDE DEF c
<1>4. Tail(c) = Without(c, 1)
  <2>1. /\ Without(c, 1) \in Seq(Threads) /\ Len(Without(c, 1)) = Len(c) - 1
        /\ \A i \in 1 .. Len(c) - 1 : Without(c, 1)[i] = IF i < 1 THEN c[i] ELSE c[i + 1]
    BY <1>1, <1>2, WithoutIs
  <2>2. /\ Tail(c) \in Seq(Threads) /\ Len(Tail(c)) = Len(c) - 1
        /\ \A i \in 1 .. Len(c) - 1 : Tail(c)[i] = c[i + 1]
    BY <1>1
  <2>3. \A i \in 1 .. Len(c) - 1 : Without(c, 1)[i] = c[i + 1] BY <1>1, <2>1
  <2> QED BY <2>1, <2>2, <2>3, SeqEqual
<1>5. CASE r = q
  <2>1. \A i \in 1 .. Len(c) :
          i # 1 => next'[c[i]] = IF i = 1 - 1 THEN next[c[1]] ELSE next[c[i]]
    BY <1>1, <1>2
  <2>2. front'[q] = IF 1 = 1 THEN next[c[1]] ELSE front[q] BY <1>2
  <2>3. IsPath(Without(c, 1), front'[q], next') BY <1>1, <1>2, <2>1, <2>2, PathWithout
  <2>4. Chain(q)' = Without(c, 1) BY <2>3, ChainNext
  <2>5. Head(c) = c[1] BY <1>1
  <2> QED BY <1>1, <1>2, <1>4, <1>5, <2>4, <2>5 DEF c
<1>6. CASE r # q
  <2>1. \A i \in 1 .. Len(Chain(r)) : next'[Chain(r)[i]] = next[Chain(r)[i]]
    BY <1>1, <1>2, <1>3, <1>6
  <2>2. Chain(r)' = Chain(r) BY <1>6, <2>1, ChainStays
  <2>3. Head(c) = c[1] BY <1>1
  <2> QED BY <1>1, <1>2, <1>6, <2>2, <2>3 DEF c
<1> QED BY <1>5, <1>6

\* The thread at place k of its level has gone to the end of level 0.
LEMMA ChainPromotes ==
  ASSUME NEW w, NEW p, Before(w, p), Mapped, Mapped', MaintPromote,
         NEW i \in Levels, i = walk.i, NEW t \in Threads, t = walk.ptr
  PROVE  /\ i # 0
         /\ \E k \in 1 .. Len(Chain(i)) :
              /\ Chain(i)[k] = t
              /\ \A r \in Queues :
                   Chain(r)' = IF r = i THEN Without(Chain(i), k)
                               ELSE IF r = 0 THEN Append(Chain(0), t) ELSE Chain(r)
<1>1. "maint" \in SchedLabels /\ SchedAt("maint") BY LabelSets DEF MaintPromote
<1>2. IInv /\ WalkOK(w) BY DEF Before, QueueInv
<1>3. /\ Levels \subseteq Queues /\ 0 \in Levels /\ 0 \in Queues /\ i \in Queues
      /\ front \in [Queues -> ThreadOrNull] /\ rear \in [Queues -> ThreadOrNull]
      /\ next \in [Threads -> ThreadOrNull] /\ NULL \notin Threads
      /\ walk.prev \in ThreadOrNull
  BY <1>2, LevelAssumption, ThreadAssumption DEF IInv, TypeOK, Queues, Levels
<1>4. \A q \in Queues : Ends[q] = rear[q] BY <1>1, InsideState
<1>5. PICK b \in ThreadOrNull : b = walk.prev BY <1>3
<1>6. /\ i # 0 /\ w[t] = i
      /\ t # front[i] => b \in Threads /\ w[b] = i /\ next[b] = t
  BY <1>1, <1>2, <1>3, <1>5 DEF WalkOK, ThreadOrNull
<1> DEFINE next1 == IF t = front[i] THEN next ELSE [next EXCEPT ![b] = next[t]]
           next2 == [next1 EXCEPT ![t] = NULL]
           front1 == IF t = front[i] THEN [front EXCEPT ![i] = next[t]] ELSE front
           rear1 == IF next[t] # NULL THEN rear
                    ELSE [rear EXCEPT ![i] = IF t = front[i] THEN NULL ELSE b]
<1>7. /\ front' = IF rear1[0] = NULL THEN [front1 EXCEPT ![0] = t] ELSE front1
      /\ next' = IF rear1[0] = NULL THEN next2 ELSE [next2 EXCEPT ![rear1[0]] = t]
  BY <1>5 DEF MaintPromote
<1>8. /\ \A x \in Queues : front1[x] = IF x = i /\ t = front[i] THEN next[t] ELSE front[x]
      /\ front1 \in [Queues -> ThreadOrNull] /\ next2 \in [Threads -> ThreadOrNull]
      /\ rear1[0] = rear[0]
      /\ \A u \in Threads : next2[u] =
           IF u = t THEN NULL ELSE IF u = b /\ t # front[i] THEN next[t] ELSE next[u]
  BY <1>3, <1>6 DEF ThreadOrNull
<1> HIDE DEF next1, next2, front1, rear1
<1> DEFINE c == Chain(i)
           e == Chain(0)
<1>9. /\ c \in Seq(Threads) /\ Len(c) \in Nat /\ IsPath(c, front[i], next)
      /\ \A j \in 1 .. Len(c) : c[j] \in Threads /\ w[c[j]] = i
      /\ \A j, k \in 1 .. Len(c) : c[j] = c[k] => j = k
      /\ \A u \in Threads : w[u] = i => \E j \in 1 .. Len(c) : c[j] = u
  <2>1. i \in Queues BY <1>3
  <2> HIDE <1>2, <1>6
  <2> QED BY <2>1, Members
<1>10. /\ e \in Seq(Threads) /\ Len(e) \in Nat /\ IsPath(e, front[0], next)
       /\ \A j \in 1 .. Len(e) : e[j] \in Threads /\ w[e[j]] = 0
       /\ \A j, k \in 1 .. Len(e) : e[j] = e[k] => j = k
       /\ rear[0] = IF e = <<>> THEN NULL ELSE Last(e)
  <2>1. 0 \in Queues /\ Ends[0] = rear[0] BY <1>3, <1>4
  <2> HIDE <1>3, <1>4, <1>8
  <2>2. /\ e \in Seq(Threads) /\ Len(e) \in Nat /\ IsPath(e, front[0], next)
        /\ \A j \in 1 .. Len(e) : e[j] \in Threads /\ w[e[j]] = 0
        /\ \A j, k \in 1 .. Len(e) : e[j] = e[k] => j = k
    BY <2>1, Members
  <2>3. Ends[0] = IF e = <<>> THEN NULL ELSE Last(e) BY <2>1, Members
  <2> QED BY <2>1, <2>2, <2>3
<1> HIDE DEF c, e
<1>11. e # <<>> => Len(e) \in 1 .. Len(e) /\ Last(e) \in Threads /\ w[Last(e)] = 0
  BY <1>10 DEF Last
<1>12. \A x \in Queues :
         front'[x] = IF x = 0 /\ e = <<>> THEN t
                     ELSE IF x = i /\ t = front[i] THEN next[t] ELSE front[x]
  BY <1>3, <1>7, <1>8, <1>10, <1>11
<1>13. \A u \in Threads :
         next'[u] = IF e # <<>> /\ u = Last(e) THEN t ELSE next2[u]
  BY <1>3, <1>7, <1>8, <1>10, <1>11
<1>14. PICK k \in 1 .. Len(c) : c[k] = t BY <1>6, <1>9
<1>15. t = front[i] <=> k = 1
  <2>1. 1 \in 1 .. Len(c) /\ c[1] = front[i] BY <1>9, <1>14 DEF IsPath
  <2> QED BY <1>9, <1>14, <2>1
<1>16. k # 1 => k - 1 \in 1 .. Len(c) /\ c[k - 1] = b
  <2> SUFFICES ASSUME k # 1 PROVE k - 1 \in 1 .. Len(c) /\ c[k - 1] = b OBVIOUS
  <2>1. b \in Threads /\ w[b] = i /\ next[b] = t BY <1>6, <1>15
  <2>2. PICK j \in 1 .. Len(c) : c[j] = b BY <1>9, <2>1
  <2>3. next[c[j]] = IF j = Len(c) THEN NULL ELSE c[j + 1] BY <1>9 DEF IsPath
  <2>4. j # Len(c) /\ c[j + 1] = c[k] BY <1>3, <1>14, <2>1, <2>2, <2>3
  <2>5. j + 1 \in 1 .. Len(c) BY <1>9, <2>4
  <2>6. j + 1 = k BY <1>9, <2>4, <2>5
  <2> QED BY <1>9, <2>2, <2>6
<1>17. Chain(i)' = Without(c, k)
  <2>1. ASSUME NEW j \in 1 .. Len(c), j # k
        PROVE  next'[c[j]] = IF j = k - 1 THEN next[c[k]] ELSE next[c[j]]
    <3>1. c[j] \in Threads /\ w[c[j]] = i /\ c[j] # t BY <1>9, <1>14, <2>1
    <3>2. e # <<>> => c[j] # Last(e) BY <1>6, <1>11, <3>1
    <3>3. next'[c[j]] = IF c[j] = b /\ t # front[i] THEN next[t] ELSE next[c[j]]
      BY <1>8, <1>13, <3>1, <3>2
    <3>4. (c[j] = b /\ t # front[i]) <=> j = k - 1
      <4>1. ASSUME c[j] = b, t # front[i] PROVE j = k - 1
        BY <1>9, <1>15, <1>16, <4>1
      <4>2. ASSUME j = k - 1 PROVE c[j] = b /\ t # front[i]
        BY <1>15, <1>16, <4>2
      <4> QED BY <4>1, <4>2
    <3> QED BY <1>14, <3>3, <3>4
  <2>2. front'[i] = IF k = 1 THEN next[c[k]] ELSE front[i]
    BY <1>3, <1>6, <1>12, <1>14, <1>15
  <2>3. IsPath(Without(c, k), front'[i], next') BY <1>9, <2>1, <2>2, PathWithout
  <2> QED BY <1>3, <2>3, ChainNext
<1>18. Chain(0)' = Append(e, t)
  <2>1. ASSUME NEW j \in 1 .. Len(e)
        PROVE  next'[e[j]] = IF j = Len(e) THEN t ELSE next[e[j]]
    <3>1. e[j] \in Threads /\ w[e[j]] = 0 /\ e # <<>> BY <1>10
    <3>2. e[j] # t /\ (t # front[i] => e[j] # b) BY <1>6, <3>1
    <3>3. next2[e[j]] = next[e[j]] BY <1>8, <3>1, <3>2
    <3>4. e[j] = Last(e) <=> j = Len(e) BY <1>10, <1>11, <3>1 DEF Last
    <3> QED BY <1>13, <3>1, <3>3, <3>4
  <2>2. next'[t] = NULL
    <3>1. e # <<>> => t # Last(e) BY <1>6, <1>11
    <3> QED BY <1>8, <1>13, <3>1
  <2>3. front'[0] = IF e = <<>> THEN t ELSE front[0] BY <1>3, <1>6, <1>12
  <2>4. IsPath(Append(e, t), front'[0], next') BY <1>10, <2>1, <2>2, <2>3, PathAppends
  <2> QED BY <1>3, <2>4, ChainNext
<1>19. ASSUME NEW r \in Queues, r # i, r # 0 PROVE Chain(r)' = Chain(r)
  <2>1. \A j \in 1 .. Len(Chain(r)) : Chain(r)[j] \in Threads /\ w[Chain(r)[j]] = r
    BY Members
  <2>2. ASSUME NEW j \in 1 .. Len(Chain(r))
        PROVE  next'[Chain(r)[j]] = next[Chain(r)[j]]
    <3>1. PICK u \in Threads : u = Chain(r)[j] /\ w[u] = r BY <2>1
    <3>2. u # t /\ (t # front[i] => u # b) /\ (e # <<>> => u # Last(e))
      BY <1>6, <1>11, <1>19, <3>1
    <3>3. next'[u] = next[u] BY <1>8, <1>13, <3>2
    <3> QED BY <3>1, <3>3
  <2>3. front'[r] = front[r] BY <1>12, <1>19
  <2> QED BY <2>2, <2>3, ChainStays
<1> QED BY <1>6, <1>14, <1>17, <1>18, <1>19 DEF c, e

----------------------------------------------------------------------------
(* Mapped holds in every state.                                            *)

\* The context swapcontext() resumes is in no call that has a thread in hand.
LEMMA SwapTo ==
  ASSUME NEW w, NEW p, Before(w, p), Swap
  PROVE  /\ cpu'.irq = "none" /\ cpu'.pc \notin InsideLabels /\ cpu'.me = currentThread
         /\ cpu'.op # "create" /\ cpu'.pc \notin EnqLabels \cup DeqLabels
<1>1. IInv /\ MaskOK /\ ~SlowTail /\ cpu.me \in Threads
  BY Typed DEF Before, QueueInv
<1>2. /\ cpu'.me = currentThread /\ ~InHandler' /\ cpu'.pc \notin InsideLabels
      /\ currentThread \in Threads /\ SchedAt("swap") /\ "swap" \in SchedLabels
      /\ \A t \in Threads :
           CodeOf(t)' = IF t = cpu.me THEN AfterSchedule ELSE CodeOf(t)
  BY <1>1, SwapCode, LabelSets
<1>3. AfterSchedule.op # "create" /\ AfterSchedule.pc \notin Critical
  BY <1>1, <1>2, MaskAfter
<1>4. \A t \in Threads : (CodeOf(t)').op # "create" /\ (CodeOf(t)').pc \notin Critical
  BY <1>1, <1>2, <1>3 DEF MaskOK, CodeOf
<1>5. PICK t \in Threads : t = currentThread BY <1>2
<1>6. cpu' = CodeOf(t)' BY <1>2, <1>5 DEF CodeOf
<1> QED BY <1>2, <1>4, <1>6 DEF InHandler, Critical

\* What schedule() returns to.
LEMMA ReturnTo ==
  ASSUME NEW w, NEW p, Before(w, p), AllFinished \/ Keep
  PROVE  /\ cpu'.irq = "none" /\ cpu'.pc \notin InsideLabels
         /\ cpu'.op # "create" /\ cpu'.pc \notin EnqLabels \cup DeqLabels
<1>1. PICK k \in {"switch", "keep"} : SchedAt(k) BY DEF AllFinished, Keep
<1>2. k \in SchedLabels /\ cpu' = AfterSchedule BY LabelSets DEF AllFinished, Keep
<1>3. IInv /\ MaskOK BY DEF Before, QueueInv
<1> QED BY <1>1, <1>2, <1>3, MaskAfter, AfterFields DEF Critical

\* The thread that schedule() returns to does not wait.
LEMMA ReturnsAwake ==
  ASSUME NEW w, NEW p, Before(w, p), AllFinished \/ Keep \/ Swap
  PROVE  ~CurrentIs("BLOCKED") /\ UNCHANGED <<state, currentThread>>
<1>1. PICK k \in {"switch", "keep", "swap"} :
        /\ SchedAt(k) /\ (AllFinished => k = "switch") /\ (Keep => k = "keep")
        /\ Swap => k = "swap"
  BY DEF AllFinished, Keep, Swap, SchedAt
<1>2. CurrentOK /\ currentThread # NULL
  BY <1>1, LabelSets, InsideState, ThreadAssumption DEF Before, QueueInv
<1>3. CASE AllFinished BY <1>3 DEF AllFinished, CurrentIs
<1>4. CASE Keep
  <2>1. SchedAt("keep") /\ ~SchedAt("next") BY <1>4 DEF Keep, SchedAt
  <2> QED BY <1>2, <1>4, <2>1 DEF CurrentOK, CurrentIs, Keep
<1>5. CASE Swap
  <2>1. Switching BY <1>5 DEF Swap, Switching
  <2> QED BY <1>2, <1>5, <2>1 DEF CurrentOK, CurrentIs, Swap
<1> QED BY <1>3, <1>4, <1>5

\* The labels of lock() that Parked speaks of are reached by EnqRear only.
LEMMA TailLocal ==
  ASSUME NEW w, NEW p, Before(w, p), Calling \/ Returning
  PROVE  TailOK'
<1> USE DEF At
<1>1. /\ cpu \in Continuation /\ IInv /\ InBody(cpu) /\ CarryOK(w)
      /\ cpu.pc \in Labels /\ rear \in [Queues -> ThreadOrNull] /\ cpu.q \in Queues \cup {NULL}
  BY Typed DEF Before, QueueInv, MaskOK, IInv, TypeOK, Continuation
<1>2. SUFFICES ASSUME cpu'.op = "lock", cpu'.pc \in {"sched", "maint", "switch"}
               PROVE  rear'[cpu'.arg] = currentThread'
  BY DEF TailOK, Parked
<1>3. CASE Calling
  <2>1. cpu'.op # "lock" \/ cpu'.pc = "lock_tas"
    BY <1>1, <1>3
       DEF Calling, Yield, Exit, Create, Join, Lock, Unlock, Running, CallFrom, Continuation
  <2> QED BY <1>2, <2>1
<1>4. CASE EnqRear
  <2>1. cpu.op = "lock" /\ cpu.pc = "enq_rear"
    BY <1>1, <1>2, <1>4 DEF EnqRear, AfterEnqueue, UserCode, Continuation
  <2>2. cpu.thr = currentThread /\ cpu.q = cpu.arg /\ currentThread = cpu.me
    <3>1. cpu.pc \in EnqLabels BY <2>1 DEF EnqLabels
    <3>2. cpu.thr = currentThread /\ cpu.q = cpu.arg /\ cpu.thr \in Threads
      BY <1>1, <2>1, <3>1 DEF CarryOK, IInv, CallOK
    <3> QED BY <3>2, LocalCurrent, ThreadAssumption
  <2>3. cpu'.arg = cpu.arg /\ currentThread' = currentThread
    BY <1>1, <1>4, <2>1 DEF EnqRear, AfterEnqueue, Continuation
  <2>4. cpu.arg \in Queues BY <1>1, <2>1 DEF IInv, CallOK, Queues
  <2> QED BY <1>1, <1>4, <2>2, <2>3, <2>4 DEF EnqRear
<1>5. CASE Returning /\ ~EnqRear
  <2>1. cpu'.op # "lock" \/ cpu'.pc \notin {"sched", "maint", "switch"}
    <3>1. cpu.pc \in {"exit_val", "join_test"} => cpu.op # "lock" BY <1>1, BodyOps
    <3>3. CASE Arm \/ ExitValue \/ JoinTest \/ JoinDone
      BY <1>1, <3>1, <3>3 DEF Arm, ExitValue, JoinTest, JoinDone, Goto, UserCode, Continuation
    <3>4. CASE TestAndSet BY <1>1, <3>4 DEF TestAndSet, Goto, UserCode, Continuation
    <3>7. CASE LockBlock \/ UnlockTest \/ Wake
      BY <1>1, <3>7 DEF LockBlock, UnlockTest, Wake, Goto, Continuation
    <3>8. CASE Release BY <3>8 DEF Release, UserCode
    <3>5. CASE EnqTest \/ EnqFront \/ EnqLoad \/ EnqLink
      BY <1>1, <3>5 DEF EnqTest, EnqFront, EnqLoad, EnqLink, Goto, Continuation
    <3>6. CASE DeqAdvance \/ DeqClear \/ DeqTest \/ DeqNull
      BY <1>1, <3>6 DEF DeqAdvance, DeqClear, DeqTest, DeqNull, Goto, Continuation
    <3> QED BY <1>5, <3>3, <3>4, <3>5, <3>6, <3>7, <3>8 DEF Returning
  <2> QED BY <1>2, <2>1
<1> QED BY <1>3, <1>4, <1>5

\* A tick leaves the call it interrupts where it is.
LEMMA TickParks ==
  ASSUME NEW w, NEW p, Before(w, p), Signal
  PROVE  /\ cpu'.op = cpu.op /\ cpu'.pc = cpu.pc /\ cpu'.thr = cpu.thr
         /\ cpu'.arg = cpu.arg
         /\ SchedAt("next")' <=> SchedAt("next")
         /\ \A m : Parked(m)' <=> Parked(m)
<1>1. cpu \in Continuation /\ UNCHANGED <<state, currentThread>>
  BY Typed DEF Before, Signal
<1>2. cpu' = cpu \/ (cpu' = [cpu EXCEPT !.irq = "sched"] /\ inScheduler # 1)
  BY DEF Signal
<1>3. cpu'.op = cpu.op /\ cpu'.pc = cpu.pc /\ cpu'.thr = cpu.thr /\ cpu'.arg = cpu.arg
  BY <1>1, <1>2 DEF Continuation
<1>4. SchedAt("next")' <=> SchedAt("next")
  <2>1. CASE cpu' = cpu BY <2>1 DEF SchedAt, InHandler
  <2>2. CASE cpu' = [cpu EXCEPT !.irq = "sched"] /\ inScheduler # 1
    <3>1. ~SchedAt("next") BY <2>2 DEF Before, IInv, ScheduleOK
    <3>2. cpu'.irq = "sched" BY <1>1, <2>2 DEF Continuation
    <3>3. ~SchedAt("next")' BY <3>2 DEF SchedAt, InHandler
    <3> QED BY <3>1, <3>3
  <2> QED BY <1>2, <2>1, <2>2
<1> QED BY <1>1, <1>3, <1>4 DEF Parked, CurrentIs

\* In schedule(), be it the handler's, lock() stays where it is until another
\* thread is to be chosen.
LEMMA InsideParked ==
  ASSUME NEW w, NEW p, Before(w, p), CurrentOK', NEW k \in SchedLabels,
         NEW l \in SchedLabels, InsideFrom(k, l)
  PROVE  /\ cpu.pc # "enq_rear"
         /\ \A m : Parked(m) <=>
              cpu.op = "lock" /\ cpu.arg = m /\ CurrentIs("BLOCKED") /\ k # "next"
         /\ currentThread' # NULL => \A m : Parked(m)' <=>
              cpu.op = "lock" /\ cpu.arg = m /\ CurrentIs("BLOCKED")' /\ l # "next"
<1>1. /\ SchedAt(k) /\ SchedAt(l)' /\ cpu'.op = cpu.op /\ cpu'.arg = cpu.arg
      /\ IF InHandler THEN cpu'.pc = cpu.pc ELSE cpu'.pc = l
  BY DEF InsideFrom
<1>2. /\ cpu.pc \notin EnqLabels /\ currentThread # NULL
      /\ CurrentOK
  BY <1>1, InsideState, ThreadAssumption DEF Before, QueueInv
<1>3. cpu'.pc \notin EnqLabels
  BY <1>1, <1>2 DEF SchedLabels, EnqLabels
<1>4. (SchedAt("next") <=> k = "next") /\ (SchedAt("next")' <=> l = "next")
  BY <1>1 DEF SchedAt
<1>5. CurrentIs("BLOCKED") /\ k # "next" => cpu.pc \in {"sched", "maint", "switch"}
  BY <1>2, <1>4 DEF CurrentOK, CurrentIs
<1>6. currentThread' # NULL /\ CurrentIs("BLOCKED")' /\ l # "next" =>
        cpu'.pc \in {"sched", "maint", "switch"}
  BY <1>3, <1>4 DEF CurrentOK, CurrentIs
<1> QED BY <1>1, <1>2, <1>4, <1>5, <1>6 DEF Parked, EnqLabels

\* Only enqueue() takes lock() to its schedule(), and leaves its thread last.
LEMMA TailNext ==
  ASSUME NEW w, NEW p, Before(w, p), TailOK, CurrentOK', [Next]_vars
  PROVE  TailOK'
<1>0. IInv BY DEF Before
<1>1. CASE Calling \/ Returning BY <1>1, TailLocal
<1>2. ASSUME NEW k \in SchedLabels, NEW l \in SchedLabels, InsideFrom(k, l), k # "next",
             state' = state, currentThread' = currentThread,
             \A m \in Mutexes : rear'[m] = rear[m]
      PROVE  TailOK'
  <2>1. currentThread # NULL
    BY <1>2, InsideState, ThreadAssumption DEF InsideFrom
  <2>2. cpu.pc # "enq_rear" /\ \A m : Parked(m)' => Parked(m)
    BY <1>2, <2>1, InsideParked DEF CurrentIs
  <2> QED BY <1>2, <2>2 DEF TailOK
<1>3. CASE \/ SchedEnter \/ MaintSkip \/ MaintNextLevel \/ KeepAlone \/ KeepRunning
           \/ SwapTail
  <2>1. UNCHANGED <<state, currentThread, rear>>
    BY <1>3 DEF SchedEnter, MaintSkip, MaintNextLevel, KeepAlone, KeepRunning, SwapTail
  <2>2. PICK k \in SchedLabels, l \in SchedLabels : InsideFrom(k, l) /\ k # "next"
    BY <1>0, <1>3, InsideSteps, LabelSets
  <2> QED BY <1>2, <2>1, <2>2
<1>4. CASE MaintPromote
  <2>1. \A m \in Mutexes : m \in Queues /\ m \notin Levels
    BY LevelAssumption DEF Queues
  <2>2. rear \in [Queues -> ThreadOrNull] /\ walk.i \in Levels /\ 0 \in Levels
    BY <1>0, LevelAssumption DEF IInv, TypeOK, Levels
  <2>3. PICK r1 : /\ rear' = [r1 EXCEPT ![0] = walk.ptr]
                  /\ r1 = rear \/ \E x : r1 = [rear EXCEPT ![walk.i] = x]
    BY <1>4 DEF MaintPromote
  <2>4. \A m \in Mutexes : rear'[m] = rear[m] BY <2>1, <2>2, <2>3
  <2>5. InsideFrom("maint", "maint") /\ "maint" \in SchedLabels
    BY <1>0, <1>4, InsideSteps, LabelSets
  <2>6. UNCHANGED <<state, currentThread>> BY <1>4 DEF MaintPromote
  <2> QED BY <1>2, <2>4, <2>5, <2>6
<1>5. CASE Requeue \/ Demote \/ Reap \/ Block
  <2>1. InsideFrom("switch", "next") BY <1>0, <1>5, InsideSteps
  <2>2. SchedAt("next")' BY <2>1 DEF InsideFrom
  <2> QED BY <2>2 DEF TailOK, Parked
<1>6. CASE Dispatch
  <2>1. PICK i \in Levels : DispatchFrom(i) BY <1>6 DEF Dispatch
  <2>2. /\ currentThread' = front[i] /\ front[i] \in Threads
        /\ state' = [state EXCEPT ![front[i]] = "RUNNING"]
    BY <1>0, <2>1 DEF DispatchFrom, BestLevel, Ready, IInv, TypeOK, Queues, ThreadOrNull
  <2>3. state'[currentThread'] = "RUNNING" BY <1>0, <2>2 DEF IInv, TypeOK
  <2> QED BY <2>3 DEF TailOK, Parked, CurrentIs
<1>7. CASE AllFinished \/ Keep \/ Swap
  <2>1. ~CurrentIs("BLOCKED") /\ UNCHANGED <<state, currentThread>> BY <1>7, ReturnsAwake
  <2> QED BY <2>1 DEF TailOK, Parked, CurrentIs
<1>8. CASE Signal
  <2>1. UNCHANGED <<state, currentThread, rear>> BY <1>8 DEF Signal
  <2>2. /\ cpu'.pc = cpu.pc
        /\ \A m : Parked(m)' <=> Parked(m)
    BY <1>8, TickParks
  <2> QED BY <2>1, <2>2 DEF TailOK
<1>9. CASE Halted \/ UNCHANGED vars
  <2>1. UNCHANGED <<state, currentThread, rear, cpu>> BY <1>9 DEF Halted, vars
  <2> QED BY <2>1 DEF TailOK, Parked, CurrentIs, SchedAt, InHandler
<1> QED BY <1>1, <1>3, <1>4, <1>5, <1>6, <1>7, <1>8, <1>9 DEF Next, Scheduling

\* The thread in hand changes with the call only.
LEMMA CreatingNext ==
  ASSUME NEW w, NEW p, Before(w, p), CreatingOK, [Next]_vars
  PROVE  CreatingOK'
<1> USE DEF At, CreatingOK
<1>1. /\ cpu \in Continuation /\ IInv /\ InBody(cpu)
      /\ cpu.op = "create" => cpu.pc \in EnqLabels \cup {"arm"}
  BY Typed DEF Before, QueueInv, MaskOK, InBody, Body
<1>2. CASE Calling
  <2>1. CASE \E t \in Threads : Create(t) BY <1>1, <2>1 DEF Create, Continuation
  <2>2. CASE Yield \/ Exit BY <1>1, <2>2 DEF Yield, Exit, Continuation
  <2>3. CASE \E t \in Threads : Join(t) BY <1>1, <2>3 DEF Join, Continuation
  <2>4. CASE \E m \in Mutexes : Lock(m) BY <1>1, <2>4 DEF Lock, Continuation
  <2>5. CASE \E m \in Mutexes : Unlock(m) BY <1>1, <2>5 DEF Unlock, Continuation
  <2> QED BY <1>2, <2>1, <2>2, <2>3, <2>4, <2>5 DEF Calling
<1>3. CASE Returning
  <2> USE DEF EnqLabels
  <2>1. CASE Arm \/ JoinDone \/ Release BY <2>1 DEF Arm, JoinDone, Release, UserCode
  <2>2. CASE ExitValue \/ JoinTest BY <1>1, <2>2 DEF ExitValue, JoinTest, Goto, Continuation
  <2>3. CASE TestAndSet BY <1>1, <2>3 DEF TestAndSet, Goto, UserCode, Continuation
  <2>4. CASE LockBlock BY <1>1, <2>4 DEF LockBlock, Continuation
  <2>5. CASE Wake BY <1>1, <2>5 DEF Wake, Continuation
  <2>6. CASE UnlockTest BY <1>1, <2>6 DEF UnlockTest, Goto, Continuation
  <2>7. CASE EnqTest \/ EnqFront BY <1>1, <2>7 DEF EnqTest, EnqFront, Goto, Continuation
  <2>8. CASE EnqLoad \/ EnqLink BY <1>1, <2>8 DEF EnqLoad, EnqLink, Continuation
  <2>9. CASE EnqRear BY <1>1, <2>9 DEF EnqRear, AfterEnqueue, UserCode, Continuation
  <2>10. CASE DeqAdvance \/ DeqClear \/ DeqTest \/ DeqNull
    BY <1>1, <2>10 DEF DeqAdvance, DeqClear, DeqTest, DeqNull, Goto, Continuation
  <2> QED
    BY <1>3, <2>1, <2>2, <2>3, <2>4, <2>5, <2>6, <2>7, <2>8, <2>9, <2>10 DEF Returning
<1>4. ASSUME NEW k \in SchedLabels, NEW l \in SchedLabels, InsideFrom(k, l)
      PROVE  CreatingOK'
  <2>1. cpu'.op = cpu.op /\ cpu'.thr = cpu.thr /\ (cpu'.pc = cpu.pc \/ cpu'.pc = l)
    BY <1>4 DEF InsideFrom
  <2>2. l \notin EnqLabels BY DEF SchedLabels, EnqLabels
  <2> QED BY <2>1, <2>2
<1>5. CASE \/ SchedEnter \/ MaintSkip \/ MaintPromote \/ MaintNextLevel
           \/ KeepAlone \/ KeepRunning \/ Requeue \/ Demote \/ Reap \/ Block
           \/ Dispatch \/ SwapTail
  BY <1>1, <1>4, <1>5, InsideSteps, LabelSets
<1>6. CASE AllFinished \/ Keep \/ Swap BY <1>6, ReturnTo, SwapTo
<1>7. CASE Signal
  <2>1. cpu' = cpu \/ cpu' = [cpu EXCEPT !.irq = "sched"] BY <1>7 DEF Signal
  <2>2. cpu'.op = cpu.op /\ cpu'.pc = cpu.pc /\ cpu'.thr = cpu.thr
    BY <1>1, <2>1 DEF Continuation
  <2> QED BY <2>2
<1>8. CASE Halted \/ UNCHANGED vars BY <1>8 DEF Halted, vars
<1> QED BY <1>2, <1>3, <1>5, <1>6, <1>7, <1>8 DEF Next, Scheduling

----------------------------------------------------------------------------
(* The abstract state after a step.                                        *)

MapReady == [i \in Levels |-> Chain(i)]
MapWaiting == [m \in Mutexes |-> AbsWaiting(m)]
MapNew == {t \in Threads \ {Main} :
           state[t] = "NONE" \/ (cpu.op = "create" /\ InHand(t))}

\* A queue of waiters that no call changes.
LEMMA WaitersStay ==
  ASSUME Mapped, Mapped', NEW m \in Mutexes, Chain(m)' = Chain(m),
         Waking(m)' <=> Waking(m), Waking(m) => cpu'.thr = cpu.thr,
         Parked(m)' <=> Parked(m)
  PROVE  AbsWaiting(m)' = AbsWaiting(m)
<1>1. AbsWaiting(m) = Waiters(m) /\ AbsWaiting(m)' = Waiters(m)'
  BY DEF Mapped, WaitersOK
<1> DEFINE first == IF Waking(m) THEN <<cpu.thr>> ELSE <<>>
           rest == IF Parked(m) THEN SubSeq(Chain(m), 1, Len(Chain(m)) - 1) ELSE Chain(m)
<1>2. first' = first
  <2>1. CASE Waking(m) BY <2>1
  <2>2. CASE ~Waking(m) BY <2>2
  <2> QED BY <2>1, <2>2
<1>3. rest' = rest
  <2>1. CASE Parked(m) BY <2>1
  <2>2. CASE ~Parked(m) BY <2>2
  <2> QED BY <2>1, <2>2
<1>4. Waiters(m) = first \o rest /\ Waiters(m)' = first' \o rest' BY DEF Waiters
<1> HIDE DEF first, rest
<1> QED BY <1>1, <1>2, <1>3, <1>4

\* A step MLFQ does not see.
LEMMA Stutters ==
  ASSUME Mapped, Mapped', AbsRunning' = AbsRunning, priority' = priority,
         \A q \in Queues : Chain(q)' = Chain(q),
         \A m \in Mutexes : /\ Waking(m)' <=> Waking(m)
                            /\ Waking(m) => cpu'.thr = cpu.thr
                            /\ Parked(m)' <=> Parked(m),
         MapNew' = MapNew
  PROVE  UNCHANGED Feedback!vars
<1>1. \A m \in Mutexes : m \in Queues BY DEF Queues
<1>2. \A m \in Mutexes : AbsWaiting(m)' = AbsWaiting(m) BY <1>1, WaitersStay
<1>3. \A i \in Levels : Chain(i)' = Chain(i) BY DEF Queues
<1>4. MapWaiting' = MapWaiting /\ MapReady' = MapReady BY <1>2, <1>3 DEF MapWaiting, MapReady
<1> QED BY <1>4 DEF Feedback!vars, MapWaiting, MapReady, MapNew

\* No thread is created.
LEMMA NewStays ==
  ASSUME \A t \in Threads : /\ state'[t] = "NONE" <=> state[t] = "NONE"
                            /\ (cpu'.op = "create" /\ InHand(t)')
                                 <=> (cpu.op = "create" /\ InHand(t))
  PROVE  MapNew' = MapNew
BY DEF MapNew

\* In schedule() no thread is in the hand of create() or unlock().
LEMMA InsideMap ==
  ASSUME NEW w, NEW p, Before(w, p), NEW k \in SchedLabels, NEW l \in SchedLabels,
         InsideFrom(k, l)
  PROVE  /\ \A t : ~InHand(t) /\ ~InHand(t)'
         /\ \A m : ~Waking(m) /\ ~Waking(m)'
         /\ AbsRunning = IF k = "next" THEN NULL ELSE currentThread
         /\ currentThread' # NULL =>
              AbsRunning' = IF l = "next" THEN NULL ELSE currentThread'
         /\ currentThread \in Threads /\ currentThread # NULL
<1>1. /\ SchedAt(k) /\ SchedAt(l)' /\ cpu'.op = cpu.op /\ cpu'.arg = cpu.arg
      /\ IF InHandler THEN cpu'.pc = cpu.pc /\ cpu'.irq = l
                      ELSE cpu'.pc = l /\ cpu'.irq = cpu.irq
  BY DEF InsideFrom
<1>2. /\ cpu.pc \notin EnqLabels \cup DeqLabels
      /\ currentThread \in Threads /\ currentThread # NULL
  BY <1>1, InsideState, ThreadAssumption
<1>3. cpu'.pc \notin EnqLabels \cup DeqLabels
  BY <1>1, <1>2 DEF SchedLabels, EnqLabels, DeqLabels
<1>4. \A t : ~InHand(t) /\ ~InHand(t)'
  BY <1>2, <1>3 DEF InHand, EnqLabels, DeqLabels
<1>5. \A m : ~Waking(m) /\ ~Waking(m)' BY <1>4 DEF Waking
<1>9. SchedAt("next") <=> k = "next" BY <1>1 DEF SchedAt
<1>10. SchedAt("next")' <=> l = "next" BY <1>1 DEF SchedAt
<1> QED BY <1>2, <1>4, <1>5, <1>9, <1>10 DEF AbsRunning

\* A step inside schedule() that neither moves a thread nor changes who runs.
LEMMA InsideStutters ==
  ASSUME NEW w, NEW p, Before(w, p), Mapped, Mapped', NEW k \in SchedLabels,
         NEW l \in SchedLabels, InsideFrom(k, l), k # "next", l # "next",
         UNCHANGED <<state, priority, currentThread, front, next>>
  PROVE  UNCHANGED Feedback!vars
<1>1. AbsRunning' = AbsRunning BY InsideMap
<1>2. \A q \in Queues : Chain(q)' = Chain(q) BY ChainsStay
<1>3. MapNew' = MapNew BY InsideMap, NewStays
<1>4. \A m \in Mutexes : ~Waking(m) /\ ~Waking(m)' BY InsideMap
<1>5. \A m \in Mutexes : Parked(m)' <=> Parked(m)
  <2>1. currentThread # NULL BY InsideMap
  <2> QED BY <2>1, InsideParked DEF Mapped, CurrentIs
<1> QED BY <1>1, <1>2, <1>3, <1>4, <1>5, Stutters

----------------------------------------------------------------------------
(* The steps inside schedule().                                            *)

\* schedule() decides that the thread goes on, or has not decided.
LEMMA QuietSteps ==
  ASSUME NEW w, NEW p, Before(w, p), Mapped, Mapped',
         \/ SchedEnter \/ MaintSkip \/ MaintNextLevel
         \/ KeepAlone \/ KeepRunning \/ SwapTail
  PROVE  UNCHANGED Feedback!vars
<1>1. PICK k \in SchedLabels, l \in SchedLabels :
        InsideFrom(k, l) /\ k # "next" /\ l # "next"
  BY InsideSteps, LabelSets DEF Before
<1>2. UNCHANGED <<state, priority, currentThread, front, next>>
  BY DEF SchedEnter, MaintSkip, MaintNextLevel, KeepAlone, KeepRunning, SwapTail
<1> QED BY <1>1, <1>2, InsideStutters

\* enqueue() inside schedule().
LEMMA Enqueues ==
  ASSUME NEW w, NEW p, Before(w, p), Mapped, Mapped', NEW k \in SchedLabels, SchedAt(k),
         NEW q \in Queues, NEW t \in Threads, w[t] = NULL, Enqueue(t, q),
         NEW r \in Queues
  PROVE  Chain(r)' = IF r = q THEN Append(Chain(q), t) ELSE Chain(r)
<1>1. /\ Lists(front, Ends, Links, w, p) /\ IInv /\ NULL \notin Threads
      /\ front \in [Queues -> ThreadOrNull] /\ next \in [Threads -> ThreadOrNull]
  BY ThreadAssumption DEF Before, QueueInv, IInv, TypeOK
<1>2. Ends[q] = rear[q] /\ Links[t] = next[t] BY InsideState
<1>3. next[t] = NULL BY <1>1, <1>2 DEF Lists
<1>4. /\ rear[q] = IF Chain(q) = <<>> THEN NULL ELSE Last(Chain(q))
      /\ Chain(q) # <<>> => Last(Chain(q)) \in Threads
  <2>1. Chain(q) # <<>> => Len(Chain(q)) \in 1 .. Len(Chain(q)) BY Members
  <2> QED BY <1>2, <2>1, Members DEF Last
<1>5. \A x \in Queues : front'[x] = IF x = q /\ Chain(q) = <<>> THEN t ELSE front[x]
  BY <1>1, <1>4 DEF Enqueue
<1>6. \A u \in Threads :
        next'[u] = IF Chain(q) # <<>> /\ u = Last(Chain(q)) THEN t ELSE next[u]
  BY <1>1, <1>4 DEF Enqueue
<1> QED BY <1>3, <1>5, <1>6, ChainAppends

\* A thread enqueued at level q is the last ready one of that level.
LEMMA ReadyAppends ==
  ASSUME NEW q \in Levels, NEW t,
         \A r \in Queues : Chain(r)' = IF r = q THEN Append(Chain(q), t) ELSE Chain(r)
  PROVE  /\ MapReady' = [MapReady EXCEPT ![q] = Append(@, t)]
         /\ \A m \in Mutexes : Chain(m)' = Chain(m)
<1>1. \A i \in Levels : Chain(i)' = IF i = q THEN Append(Chain(q), t) ELSE Chain(i)
  BY DEF Queues
<1>2. \A m \in Mutexes : m \in Queues /\ m # q BY LevelAssumption DEF Queues
<1> QED BY <1>1, <1>2 DEF MapReady

\* A thread that does not wait leaves the processor.
LEMMA Leaving ==
  ASSUME NEW w, NEW p, Before(w, p), Mapped, Mapped', InsideFrom("switch", "next"),
         currentThread' = currentThread
  PROVE  /\ AbsRunning = currentThread /\ AbsRunning' = NULL
         /\ currentThread \in Threads /\ currentThread # NULL
         /\ ~CurrentIs("BLOCKED") /\ (\A m \in Mutexes : Chain(m)' = Chain(m))
              => MapWaiting' = MapWaiting
<1>1. /\ "switch" \in SchedLabels /\ "next" \in SchedLabels /\ SchedAt("switch")
      /\ ~Switching
  BY LabelSets DEF InsideFrom, Switching, SchedAt
<1>2. /\ AbsRunning = currentThread /\ AbsRunning' = NULL
      /\ currentThread \in Threads /\ currentThread # NULL
      /\ \A m : ~Waking(m) /\ ~Waking(m)'
  BY <1>1, InsideMap
<1>3. ASSUME ~CurrentIs("BLOCKED"), \A m \in Mutexes : Chain(m)' = Chain(m)
      PROVE  MapWaiting' = MapWaiting
  <2>1. \A m : ~Parked(m) /\ ~Parked(m)'
    BY <1>1, <1>2, <1>3, InsideParked DEF Mapped
  <2>2. \A m \in Mutexes : AbsWaiting(m)' = AbsWaiting(m)
    BY <1>2, <1>3, <2>1, WaitersStay
  <2> QED BY <2>2 DEF MapWaiting
<1> QED BY <1>2, <1>3

\* schedule() takes the processor from a thread that is ready: Yield, Expire.
LEMMA RequeueYields ==
  ASSUME NEW w, NEW p, Before(w, p), Mapped, Mapped', Requeue
  PROVE  Feedback!Yield
<1>1. InsideFrom("switch", "next") BY InsideSteps DEF Before
<1>2. "switch" \in SchedLabels /\ "next" \in SchedLabels /\ SchedAt("switch")
  BY LabelSets DEF Requeue
<1>3. /\ Placed(w) /\ priority \in [Threads -> Levels] /\ Levels \subseteq Queues
      /\ state \in [Threads -> {"NONE", "QUEUED", "YIELD", "EXITED", "JOINING",
                                "BLOCKED", "RUNNING"}]
  BY DEF Before, QueueInv, IInv, TypeOK, Queues
<1>4. /\ currentThread' = currentThread /\ priority' = priority
      /\ state' = [state EXCEPT ![currentThread] = "QUEUED"]
      /\ Enqueue(currentThread, priority[currentThread])
      /\ state[currentThread] \in {"YIELD", "JOINING"} /\ ~CurrentIs("BLOCKED")
  BY DEF Requeue, CurrentIs
<1>5. /\ AbsRunning = currentThread /\ AbsRunning' = NULL
      /\ currentThread \in Threads /\ currentThread # NULL
  BY <1>1, <1>4, Leaving
<1>6. w[currentThread] = NULL /\ priority[currentThread] \in Levels
  BY <1>3, <1>4, <1>5 DEF Placed
<1>7. \A r \in Queues :
        Chain(r)' = IF r = priority[currentThread]
                    THEN Append(Chain(priority[currentThread]), currentThread) ELSE Chain(r)
  BY <1>2, <1>3, <1>4, <1>5, <1>6, Enqueues
<1>8. /\ MapReady' = [MapReady EXCEPT ![priority[currentThread]] = Append(@, currentThread)]
      /\ \A m \in Mutexes : Chain(m)' = Chain(m)
  BY <1>6, <1>7, ReadyAppends
<1>9. MapWaiting' = MapWaiting BY <1>1, <1>4, <1>8, Leaving
<1>10. MapNew' = MapNew
  <2>1. \A t \in Threads : ~InHand(t) /\ ~InHand(t)' BY <1>1, <1>2, InsideMap
  <2>2. \A t \in Threads : state'[t] = "NONE" <=> state[t] = "NONE" BY <1>3, <1>4, <1>5
  <2> QED BY <2>1, <2>2, NewStays
<1> QED
  BY <1>4, <1>5, <1>8, <1>9, <1>10
     DEF Feedback!Yield, Feedback!Leave, Feedback!MakeReady, MapReady, MapWaiting, MapNew

\* One level down, if there is one.
LEMMA DemoteExpires ==
  ASSUME NEW w, NEW p, Before(w, p), Mapped, Mapped', Demote
  PROVE  Feedback!Expire
<1>1. InsideFrom("switch", "next") BY InsideSteps DEF Before
<1>2. "switch" \in SchedLabels /\ "next" \in SchedLabels /\ SchedAt("switch")
  BY LabelSets DEF Demote
<1>3. /\ Placed(w) /\ priority \in [Threads -> Levels] /\ Levels \subseteq Queues
      /\ state \in [Threads -> {"NONE", "QUEUED", "YIELD", "EXITED", "JOINING",
                                "BLOCKED", "RUNNING"}]
  BY DEF Before, QueueInv, IInv, TypeOK, Queues
<1>4. currentThread' = currentThread /\ ~CurrentIs("BLOCKED") BY DEF Demote, CurrentIs
<1>5. /\ AbsRunning = currentThread /\ AbsRunning' = NULL
      /\ currentThread \in Threads /\ currentThread # NULL
  BY <1>1, <1>4, Leaving
<1>6. PICK t \in Threads : t = currentThread BY <1>5
<1>7. LowerPriority(priority[t]) \in Levels
  BY <1>3, LevelAssumption DEF LowerPriority, Levels
<1>8. PICK q \in Levels : q = LowerPriority(priority[t]) BY <1>7
<1>9. q = IF priority[t] = RUN_QUEUES - 1 THEN priority[t] ELSE priority[t] + 1
  BY <1>3, <1>8, LevelAssumption DEF LowerPriority, Levels
<1>10. /\ priority' = [priority EXCEPT ![t] = q]
       /\ state' = [state EXCEPT ![t] = "QUEUED"]
       /\ Enqueue(t, q) /\ state[t] = "RUNNING"
  BY <1>6, <1>8 DEF Demote, CurrentIs
<1>11. w[t] = NULL BY <1>3, <1>10 DEF Placed
<1>12. \A r \in Queues : Chain(r)' = IF r = q THEN Append(Chain(q), t) ELSE Chain(r)
  BY <1>2, <1>3, <1>10, <1>11, Enqueues
<1>13. /\ MapReady' = [MapReady EXCEPT ![q] = Append(@, t)]
       /\ \A m \in Mutexes : Chain(m)' = Chain(m)
  BY <1>12, ReadyAppends
<1>14. MapWaiting' = MapWaiting BY <1>1, <1>4, <1>13, Leaving
<1>15. MapNew' = MapNew
  <2>1. \A u \in Threads : ~InHand(u) /\ ~InHand(u)' BY <1>1, <1>2, InsideMap
  <2>2. \A u \in Threads : state'[u] = "NONE" <=> state[u] = "NONE" BY <1>3, <1>10
  <2> QED BY <2>1, <2>2, NewStays
<1>16. AbsRunning = t BY <1>5, <1>6
<1> QED
  BY <1>5, <1>9, <1>10, <1>13, <1>14, <1>15, <1>16
     DEF Feedback!Expire, Feedback!Leave, Feedback!MakeReady, MapReady, MapWaiting, MapNew

\* It takes the processor from one that has exited.
LEMMA ReapExits ==
  ASSUME NEW w, NEW p, Before(w, p), Mapped, Mapped', Reap
  PROVE  Feedback!Exit
<1>1. InsideFrom("switch", "next") BY InsideSteps DEF Before
<1>2. "switch" \in SchedLabels /\ "next" \in SchedLabels BY LabelSets
<1>3. /\ UNCHANGED <<state, priority, currentThread, front, next>>
      /\ ~CurrentIs("BLOCKED")
  BY DEF Reap, CurrentIs
<1>4. \A q \in Queues : Chain(q)' = Chain(q) BY <1>3, ChainsStay
<1>5. /\ \A m \in Mutexes : Chain(m)' = Chain(m)
      /\ \A i \in Levels : Chain(i)' = Chain(i)
  BY <1>4 DEF Queues
<1>6. AbsRunning # NULL /\ AbsRunning' = NULL /\ MapWaiting' = MapWaiting
  BY <1>1, <1>3, <1>5, Leaving
<1>7. MapNew' = MapNew BY <1>1, <1>2, <1>3, InsideMap, NewStays
<1>8. MapReady' = MapReady BY <1>5 DEF MapReady
<1> QED
  BY <1>3, <1>6, <1>7, <1>8 DEF Feedback!Exit, Feedback!Leave, MapReady, MapWaiting, MapNew

\* The thread that leaves is the one that AbsWaiting did not count.
LEMMA BlockWaits ==
  ASSUME NEW w, NEW p, Before(w, p), Mapped, Mapped', Block
  PROVE  \E m \in Mutexes : Feedback!Wait(m)
<1>1. InsideFrom("switch", "next") BY InsideSteps DEF Before
<1>2. "switch" \in SchedLabels /\ "next" \in SchedLabels /\ SchedAt("switch")
  BY LabelSets DEF Block
<1>3. /\ UNCHANGED <<state, priority, currentThread, front, next>>
      /\ state[currentThread] = "BLOCKED"
  BY DEF Block, CurrentIs
<1>4. \A q \in Queues : Chain(q)' = Chain(q) BY <1>3, ChainsStay
<1>5. /\ \A m \in Mutexes : Chain(m)' = Chain(m)
      /\ \A i \in Levels : Chain(i)' = Chain(i)
  BY <1>4 DEF Queues
<1>6. /\ AbsRunning = currentThread /\ AbsRunning' = NULL
      /\ currentThread \in Threads /\ currentThread # NULL
  BY <1>1, <1>3, Leaving
<1>7. cpu.op = "lock" /\ cpu.arg \in Mutexes
  <2>1. CurrentOK /\ IInv BY DEF Before, QueueInv
  <2>2. ~Switching /\ ~SchedAt("next") BY <1>2 DEF Switching, SchedAt
  <2>3. cpu.op = "lock" BY <1>3, <1>6, <2>1, <2>2 DEF CurrentOK, CurrentIs
  <2> QED BY <2>1, <2>3 DEF IInv, CallOK
<1>8. PICK m \in Mutexes : m = cpu.arg BY <1>7
<1>9. /\ \A x : ~Waking(x) /\ ~Waking(x)' /\ ~Parked(x)'
      /\ Parked(m) /\ \A x : x # m => ~Parked(x)
  <2>1. \A x : ~Waking(x) /\ ~Waking(x)' BY <1>1, <1>2, InsideMap
  <2>2. CurrentOK' /\ currentThread' # NULL BY <1>3, <1>6 DEF Mapped
  <2>3. /\ \A x : Parked(x) <=> cpu.op = "lock" /\ cpu.arg = x /\ CurrentIs("BLOCKED")
        /\ \A x : ~Parked(x)'
    BY <1>1, <1>2, <2>2, InsideParked
  <2> QED BY <1>3, <1>7, <1>8, <2>1, <2>3 DEF CurrentIs
<1>10. \A x \in Mutexes : x # m => AbsWaiting(x)' = AbsWaiting(x)
  BY <1>5, <1>9, WaitersStay
<1>11. AbsWaiting(m)' = Append(AbsWaiting(m), currentThread)
  <2> DEFINE c == Chain(m)
  <2>1. c \in Seq(Threads) /\ c # <<>> /\ c[Len(c)] = currentThread
    <3>1. m \in Queues BY DEF Queues
    <3>2. c \in Seq(Threads) BY <3>1, Members
    <3> QED BY <1>9, <3>2 DEF Mapped, WaitersOK, Last
  <2>2. AbsWaiting(m) = <<>> \o SubSeq(c, 1, Len(c) - 1)
    BY <1>9 DEF Mapped, WaitersOK, Waiters
  <2>3. AbsWaiting(m)' = <<>> \o c
    <3>1. AbsWaiting(m)' = Waiters(m)' BY DEF Mapped, WaitersOK
    <3> QED BY <1>5, <1>9, <3>1 DEF Waiters
  <2> HIDE DEF c
  <2>4. SubSeq(c, 1, Len(c) - 1) \in Seq(Threads) BY <2>1
  <2>5. c = Append(SubSeq(c, 1, Len(c) - 1), c[Len(c)]) BY <2>1
  <2> QED BY <2>1, <2>2, <2>3, <2>4, <2>5
<1>12. MapWaiting' = [MapWaiting EXCEPT ![m] = Append(@, currentThread)]
  BY <1>10, <1>11 DEF MapWaiting
<1>13. MapNew' = MapNew BY <1>1, <1>2, <1>3, InsideMap, NewStays
<1>14. MapReady' = MapReady BY <1>5 DEF MapReady
<1>15. Feedback!Wait(m)
  BY <1>3, <1>6, <1>12, <1>13, <1>14
     DEF Feedback!Wait, Feedback!Leave, MapReady, MapWaiting, MapNew
<1> QED BY <1>15

\* maintenance() promotes a thread: Boost.
LEMMA PromoteBoosts ==
  ASSUME NEW w, NEW p, Before(w, p), Mapped, Mapped', MaintPromote
  PROVE  \E i \in Levels : \E k \in DOMAIN MapReady[i] : Feedback!Boost(i, k)
<1>1. InsideFrom("maint", "maint") BY InsideSteps DEF Before
<1>2. "maint" \in SchedLabels BY LabelSets
<1>3. /\ walk.i \in Levels /\ walk.ptr \in Threads /\ 0 \in Levels /\ Levels \subseteq Queues
      /\ Levels \subseteq Nat
  BY LevelAssumption DEF MaintPromote, Before, IInv, TypeOK, ThreadOrNull, Levels, Queues
<1>4. PICK i \in Levels : i = walk.i BY <1>3
<1>5. PICK t \in Threads : t = walk.ptr BY <1>3
<1>6. /\ priority' = [priority EXCEPT ![t] = 0]
      /\ UNCHANGED <<state, currentThread>>
  BY <1>5 DEF MaintPromote
<1>7. i # 0
  BY <1>4, <1>5, ChainPromotes
<1>8. PICK k \in 1 .. Len(Chain(i)) :
        /\ Chain(i)[k] = t
        /\ \A r \in Queues :
             Chain(r)' = IF r = i THEN Without(Chain(i), k)
                         ELSE IF r = 0 THEN Append(Chain(0), t) ELSE Chain(r)
  BY <1>4, <1>5, ChainPromotes
<1>9. MapReady[i] = Chain(i) /\ DOMAIN Chain(i) = 1 .. Len(Chain(i))
  <2>1. Chain(i) \in Seq(Threads) BY <1>3, Members
  <2> QED BY <2>1 DEF MapReady
<1>10. MapReady' = [MapReady EXCEPT ![i] = Without(Chain(i), k), ![0] = Append(@, t)]
  <2>1. \A r \in Levels :
          Chain(r)' = IF r = i THEN Without(Chain(i), k)
                      ELSE IF r = 0 THEN Append(Chain(0), t) ELSE Chain(r)
    BY <1>3, <1>8
  <2> QED BY <1>3, <1>7, <2>1 DEF MapReady
<1>11. /\ AbsRunning' = AbsRunning /\ AbsRunning # NULL
       /\ \A m \in Mutexes : ~Waking(m) /\ ~Waking(m)' /\ (Parked(m)' <=> Parked(m))
  <2>1. /\ AbsRunning' = AbsRunning /\ AbsRunning # NULL /\ currentThread # NULL
        /\ \A m \in Mutexes : ~Waking(m) /\ ~Waking(m)'
    BY <1>1, <1>2, <1>6, InsideMap
  <2>2. \A m : Parked(m)' <=> Parked(m)
    BY <1>1, <1>2, <1>6, <2>1, InsideParked DEF Mapped, CurrentIs
  <2> QED BY <2>1, <2>2
<1>12. \A m \in Mutexes : Chain(m)' = Chain(m)
  BY <1>3, <1>8, LevelAssumption DEF Queues
<1>13. MapWaiting' = MapWaiting
  <2>1. \A m \in Mutexes : AbsWaiting(m)' = AbsWaiting(m) BY <1>11, <1>12, WaitersStay
  <2> QED BY <2>1 DEF MapWaiting
<1>14. MapNew' = MapNew BY <1>1, <1>2, <1>6, InsideMap, NewStays
<1>15. i > 0 BY <1>3, <1>7
<1>16. Feedback!Boost(i, k)
  BY <1>6, <1>8, <1>9, <1>10, <1>11, <1>13, <1>14, <1>15
     DEF Feedback!Boost, Without, MapReady, MapWaiting, MapNew
<1> QED BY <1>9, <1>16

\* getNextThread() takes the first thread of the best level.
LEMMA DispatchTakes ==
  ASSUME NEW w, NEW p, Before(w, p), Mapped, Mapped', NEW i \in Levels, DispatchFrom(i)
  PROVE  Feedback!Dispatch(i)
<1>1. InsideFrom("next", "tail") BY InsideSteps DEF Before, Dispatch
<1>2. "next" \in SchedLabels /\ "tail" \in SchedLabels /\ SchedAt("next")
  BY LabelSets DEF DispatchFrom
<1>3. /\ i \in Queues /\ Placed(w) /\ NULL \notin Threads /\ NULL \notin Queues
      /\ front \in [Queues -> ThreadOrNull] /\ next \in [Threads -> ThreadOrNull]
      /\ state \in [Threads -> {"NONE", "QUEUED", "YIELD", "EXITED", "JOINING",
                                "BLOCKED", "RUNNING"}]
      /\ Lists(front, Ends, Links, w, p) /\ Levels \subseteq Queues
      /\ i \in Nat /\ \A j \in 0 .. i - 1 : j \in Levels
  BY LevelAssumption, ThreadAssumption DEF Before, QueueInv, IInv, TypeOK, Queues, Levels
<1>4. /\ front[i] # NULL /\ \A j \in 0 .. i - 1 : front[j] = NULL
      /\ priority' = priority
  BY DEF DispatchFrom, BestLevel, Ready
<1>5. PICK t \in Threads : t = front[i] BY <1>3, <1>4 DEF ThreadOrNull
<1>6. /\ currentThread' = t /\ state' = [state EXCEPT ![t] = "RUNNING"]
      /\ front' = [front EXCEPT ![i] = next[t]] /\ next' = [next EXCEPT ![t] = NULL]
  BY <1>5 DEF DispatchFrom
<1>7. state[t] # "NONE" BY <1>3, <1>4, <1>5 DEF Lists, Placed
<1>8. /\ \A r \in Queues : front'[r] = IF r = i THEN next[front[i]] ELSE front[r]
      /\ \A u \in Threads : u # front[i] => next'[u] = next[u]
  BY <1>3, <1>5, <1>6
<1>9. \A r \in Queues :
        /\ Chain(i) # <<>> /\ Head(Chain(i)) = front[i]
        /\ Chain(r)' = IF r = i THEN Tail(Chain(i)) ELSE Chain(r)
  BY <1>3, <1>4, <1>8, ChainTail
<1>10. MapReady' = [MapReady EXCEPT ![i] = Tail(@)]
  <2>1. \A r \in Levels : Chain(r)' = IF r = i THEN Tail(Chain(i)) ELSE Chain(r)
    BY <1>3, <1>9
  <2> QED BY <2>1 DEF MapReady
<1>11. /\ MapReady[i] # <<>> /\ Head(MapReady[i]) = t
       /\ \A j \in 0 .. i - 1 : MapReady[j] = <<>>
  <2>1. \A j \in Levels : MapReady[j] = Chain(j) BY DEF MapReady
  <2>2. \A j \in Queues : front[j] = NULL <=> Chain(j) = <<>> BY Members
  <2> QED BY <1>3, <1>4, <1>5, <1>9, <2>1, <2>2
<1>12. t # NULL BY <1>3
<1>13. AbsRunning = NULL /\ AbsRunning' = t BY <1>1, <1>2, <1>6, <1>12, InsideMap
<1>14. \A m \in Mutexes : ~Waking(m) /\ ~Waking(m)' /\ ~Parked(m) /\ ~Parked(m)'
  <2>1. \A m : ~Waking(m) /\ ~Waking(m)' BY <1>1, <1>2, InsideMap
  <2>2. ~CurrentIs("BLOCKED")' BY <1>3, <1>6 DEF CurrentIs
  <2> QED BY <1>2, <2>1, <2>2 DEF Parked
<1>15. \A m \in Mutexes : Chain(m)' = Chain(m)
  BY <1>3, <1>9, LevelAssumption DEF Queues
<1>16. MapWaiting' = MapWaiting
  <2>1. \A m \in Mutexes : AbsWaiting(m)' = AbsWaiting(m) BY <1>14, <1>15, WaitersStay
  <2> QED BY <2>1 DEF MapWaiting
<1>17. MapNew' = MapNew
  <2>1. \A u \in Threads : ~InHand(u) /\ ~InHand(u)' BY <1>1, <1>2, InsideMap
  <2>2. \A u \in Threads : state'[u] = "NONE" <=> state[u] = "NONE" BY <1>3, <1>6, <1>7
  <2> QED BY <2>1, <2>2, NewStays
<1> QED
  BY <1>4, <1>10, <1>11, <1>13, <1>16, <1>17
     DEF Feedback!Dispatch, MapReady, MapWaiting, MapNew

\* schedule() returns, to its caller or in the thread it has chosen.
LEMMA ReturnSteps ==
  ASSUME NEW w, NEW p, Before(w, p), Mapped, Mapped', AllFinished \/ Keep \/ Swap
  PROVE  UNCHANGED Feedback!vars
<1>1. UNCHANGED <<state, priority, currentThread, front, next>>
  BY DEF AllFinished, Keep, Swap
<1>2. /\ ~SchedAt("next")'
      /\ \A t : ~InHand(t)'
      /\ \A m : ~Waking(m)'
  <2>1. /\ cpu'.irq = "none" /\ cpu'.pc \notin InsideLabels
        /\ cpu'.pc \notin EnqLabels \cup DeqLabels
    BY ReturnTo, SwapTo
  <2> QED
    BY <2>1 DEF SchedAt, InHandler, InHand, Waking, InsideLabels, SchedLabels, EnqLabels,
       DeqLabels
<1>3. PICK k \in {"switch", "keep", "swap"} : SchedAt(k)
  BY DEF AllFinished, Keep, Swap
<1>4. k \in SchedLabels BY <1>3, LabelSets
<1>5. cpu.pc \notin EnqLabels \cup DeqLabels BY <1>3, <1>4, InsideState
<1>6. \A t : ~InHand(t) BY <1>5 DEF InHand, EnqLabels, DeqLabels
<1>7. \A m : ~Waking(m) BY <1>6 DEF Waking
<1>8. ~SchedAt("next") BY <1>3 DEF SchedAt
<1>9. \A m : ~Parked(m) /\ ~Parked(m)'
  <2>1. ~CurrentIs("BLOCKED") /\ UNCHANGED <<state, currentThread>> BY ReturnsAwake
  <2> QED BY <2>1 DEF Parked, CurrentIs
<1>10. AbsRunning' = AbsRunning BY <1>1, <1>2, <1>8 DEF AbsRunning
<1>11. MapNew' = MapNew BY <1>1, <1>2, <1>6, NewStays
<1>12. \A q \in Queues : Chain(q)' = Chain(q) BY <1>1, ChainsStay
<1> QED BY <1>1, <1>2, <1>7, <1>9, <1>10, <1>11, <1>12, Stutters

\* A tick moves no thread: schedule() has yet to decide.
LEMMA SignalStutters ==
  ASSUME NEW w, NEW p, Before(w, p), Mapped, Mapped', Signal
  PROVE  UNCHANGED Feedback!vars
<1>1. UNCHANGED <<state, priority, currentThread, front, next>> BY DEF Signal
<1>2. /\ cpu'.op = cpu.op /\ cpu'.pc = cpu.pc /\ cpu'.thr = cpu.thr
      /\ cpu'.arg = cpu.arg
      /\ SchedAt("next")' <=> SchedAt("next")
      /\ \A m : Parked(m)' <=> Parked(m)
  BY TickParks
<1>3. /\ \A t : InHand(t)' <=> InHand(t)
      /\ \A m : Waking(m)' <=> Waking(m)
  BY <1>2 DEF InHand, Waking
<1>4. AbsRunning' = AbsRunning BY <1>1, <1>2 DEF AbsRunning
<1>5. MapNew' = MapNew BY <1>1, <1>2, <1>3, NewStays
<1>6. \A q \in Queues : Chain(q)' = Chain(q) BY <1>1, ChainsStay
<1> QED BY <1>1, <1>2, <1>3, <1>4, <1>5, <1>6, Stutters

\* The process is over, or nothing happens.
LEMMA HaltedStutters ==
  ASSUME Mapped, Mapped', Halted \/ UNCHANGED vars
  PROVE  UNCHANGED Feedback!vars
<1>1. UNCHANGED <<state, priority, currentThread, front, next, cpu>>
  BY DEF Halted, vars
<1>2. AbsRunning' = AbsRunning BY <1>1 DEF AbsRunning, SchedAt, InHandler
<1>3. MapNew' = MapNew BY <1>1, NewStays DEF InHand
<1>4. \A q \in Queues : Chain(q)' = Chain(q) BY <1>1, ChainsStay
<1>5. \A m : (Waking(m)' <=> Waking(m)) /\ (Parked(m)' <=> Parked(m))
  BY <1>1 DEF Waking, Parked, InHand, CurrentIs, SchedAt, InHandler
<1> QED BY <1>1, <1>2, <1>3, <1>4, <1>5, Stutters

----------------------------------------------------------------------------
(* The steps of the library's calls.                                       *)

\* A call other than create().
Called ==
  \/ Yield \/ Exit \/ \E t \in Threads : Join(t)
  \/ \E m \in Mutexes : Lock(m) \/ Unlock(m)

\* The same thread runs.
LEMMA LocalMap ==
  ASSUME NEW w, NEW p, Before(w, p), Calling \/ Returning
  PROVE  AbsRunning' = AbsRunning /\ AbsRunning # NULL /\ priority' = priority
<1>1. /\ ~InHandler /\ cpu.pc \notin SchedLabels
      /\ cpu'.irq = "none" /\ cpu'.pc \notin InsideLabels /\ priority' = priority
      /\ NULL \notin Threads /\ Main \in Threads
  BY LocalCurrent, StaysLocal, ThreadAssumption DEF Before
<1>2. ~SchedAt("next") /\ ~SchedAt("next")'
  BY <1>1 DEF SchedAt, InHandler, SchedLabels, InsideLabels
<1>3. \/ currentThread' = currentThread
      \/ currentThread = NULL /\ currentThread' = Main
  <2>1. ASSUME NEW t \in Threads, Create(t)
        PROVE  currentThread' = currentThread \/ (currentThread = NULL /\ currentThread' = Main)
    <3>1. firstCall <=> currentThread = NULL BY <2>1, NewThread
    <3> QED BY <2>1, <3>1 DEF Create
  <2>2. CASE \E t \in Threads : Create(t) BY <2>1, <2>2
  <2>3. CASE Called
    <3>1. CASE Yield \/ Exit BY <3>1 DEF Yield, Exit
    <3>2. ASSUME NEW t \in Threads, Join(t) PROVE currentThread' = currentThread
      BY <3>2 DEF Join
    <3>3. ASSUME NEW m \in Mutexes, Lock(m) \/ Unlock(m)
          PROVE  currentThread' = currentThread
      BY <3>3 DEF Lock, Unlock
    <3> QED BY <2>3, <3>1, <3>2, <3>3 DEF Called
  <2>4. CASE Returning
    BY <2>4 DEF Returning, Arm, ExitValue, JoinTest, JoinDone, TestAndSet, LockBlock, UnlockTest,
       Wake, Release, EnqTest, EnqFront, EnqLoad, EnqLink, EnqRear, DeqAdvance, DeqClear,
       DeqTest, DeqNull
  <2> QED BY <2>2, <2>3, <2>4 DEF Calling, Called
<1> QED BY <1>1, <1>2, <1>3 DEF AbsRunning

\* A step that touches neither a list nor what is in hand.
LEMMA LocalStutters ==
  ASSUME NEW w, NEW p, Before(w, p), Mapped, Mapped', Calling \/ Returning,
         front' = front, next' = next,
         \A t \in Threads \ {Main} :
           (state'[t] = "NONE" \/ (cpu'.op = "create" /\ InHand(t)'))
             <=> (state[t] = "NONE" \/ (cpu.op = "create" /\ InHand(t))),
         \A m \in Mutexes : /\ Waking(m)' <=> Waking(m)
                            /\ Waking(m) => cpu'.thr = cpu.thr
                            /\ Parked(m)' <=> Parked(m)
  PROVE  UNCHANGED Feedback!vars
<1>1. AbsRunning' = AbsRunning /\ priority' = priority BY LocalMap
<1>2. MapNew' = MapNew BY DEF MapNew
<1>3. \A q \in Queues : Chain(q)' = Chain(q) BY ChainsStay
<1> QED BY <1>1, <1>2, <1>3, Stutters

\* The labels at which nothing is in hand.
LEMMA EmptyHand ==
  ASSUME cpu.pc \notin {"enq_test", "enq_front", "enq_load", "enq_link",
                        "deq_clear", "deq_test", "deq_null", "wake"}
  PROVE  /\ \A t : ~InHand(t)
         /\ \A m : ~Waking(m)
BY DEF InHand, Waking

\* The client's calls; create() takes its thread in hand.
LEMMA CallSteps ==
  ASSUME NEW w, NEW p, Before(w, p), Mapped, Mapped', Calling
  PROVE  UNCHANGED Feedback!vars
<1>1. /\ cpu.pc = "user" /\ cpu.op = "none" /\ UNCHANGED <<front, next>>
      /\ cpu'.pc \in {"sched", "exit_val", "enq_test", "join_test", "lock_tas", "unlock"}
      /\ cpu \in Continuation
      /\ state \in [Threads -> {"NONE", "QUEUED", "YIELD", "EXITED", "JOINING",
                                "BLOCKED", "RUNNING"}]
      /\ Main \in Threads
  BY CallCode, LocalCurrent, Typed, ThreadAssumption DEF Before, IInv, TypeOK
<1>2. \A m : ~Waking(m) /\ ~Parked(m) BY <1>1 DEF Waking, Parked
<1>3. \A t : ~(cpu.op = "create") BY <1>1
<1>4. CASE \E t \in Threads : Create(t)
  <2>1. PICK t \in Threads : Create(t) BY <1>4
  <2>2. /\ cpu'.op = "create" /\ cpu'.pc = "enq_test" /\ cpu'.thr = t
        /\ state[t] = "NONE"
        /\ \A u \in Threads \ {Main} : state'[u] = IF u = t THEN "QUEUED" ELSE state[u]
    BY <1>1, <2>1 DEF Create, Continuation
  <2>3. \A u : InHand(u)' <=> u = t BY <2>2 DEF InHand
  <2>4. \A m : ~Waking(m)' /\ ~Parked(m)' BY <2>2 DEF Waking, Parked
  <2>5. \A u \in Threads \ {Main} :
          (state'[u] = "NONE" \/ (cpu'.op = "create" /\ InHand(u)'))
            <=> (state[u] = "NONE" \/ (cpu.op = "create" /\ InHand(u)))
    BY <1>1, <2>2, <2>3
  <2> QED BY <1>1, <1>2, <2>4, <2>5, LocalStutters
<1>5. CASE Called
  <2>1. /\ cpu'.op \notin {"create"} /\ (cpu'.op = "lock" => cpu'.pc = "lock_tas")
        /\ cpu'.op = "unlock" => cpu'.pc = "unlock"
        /\ state' = state \/ \E s : s # "NONE" /\ state' = [state EXCEPT ![currentThread] = s]
    <3>1. CASE Yield \/ Exit BY <1>1, <3>1 DEF Yield, Exit, Continuation
    <3>2. CASE \E t \in Threads : Join(t) BY <1>1, <3>2 DEF Join, Continuation
    <3>3. CASE \E m \in Mutexes : Lock(m) BY <1>1, <3>3 DEF Lock, Continuation
    <3>4. CASE \E m \in Mutexes : Unlock(m) BY <1>1, <3>4 DEF Unlock, Continuation
    <3> QED BY <1>5, <3>1, <3>2, <3>3, <3>4 DEF Called
  <2>2. \A m : ~Waking(m)' /\ ~Parked(m)' BY <2>1 DEF Waking, Parked, InHand
  <2>3. state' = state \/ currentThread \in Threads
    <3>1. state' = state \/ ~firstCall
      <4>1. CASE Yield \/ Exit BY <4>1 DEF Yield, Exit, Running
      <4>2. CASE \E t \in Threads : Join(t) BY <4>2 DEF Join, Running
      <4>3. CASE \E m \in Mutexes : Lock(m) BY <4>3 DEF Lock
      <4>4. CASE \E m \in Mutexes : Unlock(m) BY <4>4 DEF Unlock
      <4> QED BY <1>5, <4>1, <4>2, <4>3, <4>4 DEF Called
    <3> QED BY <3>1, CurrentThread DEF Before
  <2>4. state' # state => state[currentThread] # "NONE"
    BY <1>1, <2>3, LocalCurrent, ThreadAssumption
  <2>5. \A t \in Threads : state'[t] = "NONE" <=> state[t] = "NONE" BY <1>1, <2>1, <2>3, <2>4
  <2> QED BY <1>1, <1>2, <2>1, <2>2, <2>5, LocalStutters
<1> QED BY <1>4, <1>5 DEF Calling, Called

\* The statements that write no list.
LEMMA PlainSteps ==
  ASSUME NEW w, NEW p, Before(w, p), Mapped, Mapped',
         \/ Arm \/ ExitValue \/ JoinTest \/ JoinDone
         \/ TestAndSet \/ LockBlock \/ UnlockTest \/ Release
  PROVE  UNCHANGED Feedback!vars
<1> USE DEF At
<1>1. Returning BY DEF Returning
<1>2. /\ cpu \in Continuation /\ InBody(cpu) /\ IInv
      /\ cpu.pc \in {"arm", "exit_val", "join_test", "join_done", "lock_tas", "lock_block",
                     "unlock", "release"}
      /\ state \in [Threads -> {"NONE", "QUEUED", "YIELD", "EXITED", "JOINING",
                                "BLOCKED", "RUNNING"}]
  BY Typed DEF Before, QueueInv, MaskOK, IInv, TypeOK, Arm, ExitValue, JoinTest, JoinDone,
     TestAndSet, LockBlock, UnlockTest, Release
<1>3. \A m : ~Parked(m) BY <1>2 DEF Parked
<1>4. (\A t : ~InHand(t)) /\ \A m : ~Waking(m) BY <1>2, EmptyHand
<1>5. UNCHANGED <<front, next>>
  BY DEF Arm, ExitValue, JoinTest, JoinDone, TestAndSet, LockBlock, UnlockTest, Release
<1>6. /\ cpu'.op \notin {"create", "unlock"} \/ cpu'.pc \in {"release", "deq_adv"}
      /\ cpu'.op = "lock" => cpu'.pc \in {"lock_block", "enq_test"}
  <2>1. /\ cpu.pc \in {"exit_val"} => cpu.op = "exit"
        /\ cpu.pc \in {"join_test", "join_done"} => cpu.op = "join"
        /\ cpu.pc \in {"lock_tas", "lock_block"} => cpu.op = "lock"
        /\ cpu.pc \in {"unlock", "release"} => cpu.op = "unlock"
    BY <1>2, BodyOps
  <2>2. CASE Arm \/ Release \/ JoinDone BY <2>2 DEF Arm, Release, JoinDone, UserCode
  <2>3. CASE ExitValue \/ JoinTest
    BY <1>2, <2>1, <2>3 DEF ExitValue, JoinTest, Goto, Continuation
  <2>4. CASE TestAndSet BY <1>2, <2>1, <2>4 DEF TestAndSet, Goto, UserCode, Continuation
  <2>5. CASE LockBlock BY <1>2, <2>1, <2>5 DEF LockBlock, Continuation
  <2>6. CASE UnlockTest BY <1>2, <2>1, <2>6 DEF UnlockTest, Goto, Continuation
  <2> QED BY <2>2, <2>3, <2>4, <2>5, <2>6
<1>7. /\ \A t : ~(cpu'.op = "create" /\ InHand(t)')
      /\ \A m : ~Waking(m)' /\ ~Parked(m)'
  BY <1>6 DEF InHand, Waking, Parked
<1>8. \A t \in Threads : state'[t] = "NONE" <=> state[t] = "NONE"
  <2>1. state' = state \/ \E s : s # "NONE" /\ state' = [state EXCEPT ![currentThread] = s]
    BY DEF Arm, ExitValue, JoinTest, JoinDone, TestAndSet, LockBlock, UnlockTest, Release
  <2>2. state' = state \/ cpu.pc \in {"join_done", "lock_block"}
    BY DEF Arm, ExitValue, JoinTest, JoinDone, TestAndSet, LockBlock, UnlockTest, Release
  <2>3. cpu.pc \in {"join_done", "lock_block"} => currentThread \in Threads
    BY <1>2, CurrentThread
  <2>4. currentThread \in Threads => state[currentThread] # "NONE"
    BY <1>1, <1>2, LocalCurrent, ThreadAssumption
  <2> QED BY <1>2, <2>1, <2>2, <2>3, <2>4
<1> QED BY <1>1, <1>3, <1>4, <1>5, <1>7, <1>8, LocalStutters

\* The statements of enqueue() and dequeue() that write no link.
LEMMA ListSteps ==
  ASSUME NEW w, NEW p, Before(w, p), Mapped, Mapped',
         EnqTest \/ EnqLoad \/ EnqRear \/ DeqTest \/ DeqNull \/ Wake
  PROVE  UNCHANGED Feedback!vars
<1> USE DEF At
<1>1. Returning BY DEF Returning
<1>2. /\ cpu \in Continuation /\ InBody(cpu) /\ IInv /\ CarryOK(w)
      /\ state \in [Threads -> {"NONE", "QUEUED", "YIELD", "EXITED", "JOINING",
                                "BLOCKED", "RUNNING"}]
      /\ cpu.pc \in EnqLabels => cpu.op \in QueueCalls
      /\ cpu.pc \in DeqLabels => cpu.op = "unlock"
  BY Typed, BodyOps DEF Before, QueueInv, MaskOK, IInv, TypeOK
<1>3. UNCHANGED <<front, next>>
  BY DEF EnqTest, EnqLoad, EnqRear, DeqTest, DeqNull, Wake
<1>4. CASE EnqTest \/ EnqLoad
  <2>1. /\ cpu.pc \in {"enq_test", "enq_load"}
        /\ cpu'.pc \in {"enq_front", "enq_load", "enq_link"}
        /\ cpu'.op = cpu.op /\ cpu'.thr = cpu.thr /\ cpu'.arg = cpu.arg /\ state' = state
    <3>1. CASE EnqTest BY <1>2, <3>1 DEF EnqTest, Goto, Continuation
    <3>2. CASE EnqLoad BY <1>2, <3>2 DEF EnqLoad, CarryOK, EnqLabels, Continuation
    <3> QED BY <1>4, <3>1, <3>2
  <2>2. (\A t : InHand(t)' <=> InHand(t)) /\ \A m : ~Parked(m) /\ ~Parked(m)'
    BY <2>1 DEF InHand, Parked
  <2>3. \A m : Waking(m)' <=> Waking(m) BY <2>1 DEF Waking, InHand
  <2> QED BY <1>1, <1>3, <2>1, <2>2, <2>3, LocalStutters
<1>5. CASE EnqRear
  <2>1. /\ cpu.pc = "enq_rear" /\ state' = state
        /\ cpu.op = "lock" =>
             cpu'.op = "lock" /\ cpu'.pc = "sched" /\ cpu'.arg = cpu.arg
        /\ cpu.op = "unlock" => cpu'.op = "unlock" /\ cpu'.pc = "release"
        /\ cpu.op = "create" => cpu'.pc \in {"arm", "user"} /\ cpu'.op \in {"create", "none"}
        /\ cpu.op \in {"lock", "unlock", "create"} /\ currentThread' = currentThread
        /\ cpu.irq = "none" /\ cpu'.irq = "none"
    BY <1>2, <1>5, StaysLocal DEF EnqRear, InHandler, AfterEnqueue, UserCode, EnqLabels, QueueCalls, Continuation
  <2>2. (\A t : ~InHand(t)' /\ ~InHand(t)) /\ \A m : Parked(m) <=> Parked(m)'
    BY <2>1 DEF InHand, Parked, CurrentIs, SchedAt, InHandler
  <2>3. \A m : ~Waking(m)' /\ ~Waking(m) BY <2>1 DEF Waking, InHand
  <2> QED BY <1>1, <1>3, <2>1, <2>2, <2>3, LocalStutters
<1>6. CASE DeqTest \/ DeqNull \/ Wake
  <2>1. /\ cpu.pc \in {"deq_test", "deq_null", "wake"} /\ cpu.op = "unlock"
        /\ cpu'.pc \in {"deq_null", "wake", "enq_test"}
        /\ cpu'.op = cpu.op /\ cpu'.thr = cpu.thr /\ cpu'.arg = cpu.arg
    BY <1>2, <1>6 DEF DeqTest, DeqNull, Wake, Goto, DeqLabels, Continuation
  <2>2. \A t \in Threads : state'[t] = "NONE" <=> state[t] = "NONE"
    <3>1. CASE Wake
      <4>1. state[cpu.thr] = "BLOCKED" BY <3>1, WokenThread
      <4>2. state' = [state EXCEPT ![cpu.thr] = "QUEUED"] BY <3>1 DEF Wake
      <4> QED BY <1>2, <4>1, <4>2
    <3>2. CASE DeqTest \/ DeqNull BY <3>2 DEF DeqTest, DeqNull
    <3> QED BY <1>6, <3>1, <3>2
  <2>3. (\A t : InHand(t)' <=> InHand(t)) /\ \A m : ~Parked(m) /\ ~Parked(m)'
    BY <2>1 DEF InHand, Parked
  <2>4. \A m : Waking(m)' <=> Waking(m) BY <2>1 DEF Waking, InHand
  <2> QED BY <1>1, <1>3, <2>1, <2>2, <2>3, <2>4, LocalStutters
<1> QED BY <1>4, <1>5, <1>6

\* A step that MLFQ does not see although it writes a list.
LEMMA ListStutters ==
  ASSUME NEW w, NEW p, Before(w, p), Calling \/ Returning,
         \A i \in Levels : Chain(i)' = Chain(i),
         \A m \in Mutexes : AbsWaiting(m)' = AbsWaiting(m),
         MapNew' = MapNew
  PROVE  UNCHANGED Feedback!vars
<1>1. AbsRunning' = AbsRunning /\ priority' = priority BY LocalMap
<1>2. MapReady' = MapReady /\ MapWaiting' = MapWaiting BY DEF MapReady, MapWaiting
<1> QED BY <1>1, <1>2 DEF Feedback!vars, MapReady, MapWaiting, MapNew

\* unlock() takes the first waiter in hand.
LEMMA AdvanceStutters ==
  ASSUME NEW w, NEW p, Before(w, p), Mapped, Mapped', DeqAdvance
  PROVE  UNCHANGED Feedback!vars
<1>1. Returning BY DEF Returning
<1>2. /\ cpu \in Continuation /\ IInv /\ cpu.pc = "deq_adv" /\ cpu.op = "unlock"
      /\ cpu.arg \in Mutexes /\ cpu.thr = front[cpu.arg] /\ front[cpu.arg] # NULL
      /\ front \in [Queues -> ThreadOrNull]
  <2>1. cpu.pc = "deq_adv" /\ cpu.pc \in DeqLabels BY DEF DeqAdvance, At, DeqLabels
  <2>2. cpu.op = "unlock" /\ cpu.arg \in Mutexes /\ cpu.thr = front[cpu.arg]
    BY <2>1 DEF Before, QueueInv, IInv, CallOK, CarryOK
  <2>3. cpu.me \in Threads /\ CodeOf(cpu.me) = cpu BY Typed DEF Before, CodeOf
  <2>4. front[cpu.arg] # NULL BY <2>1, <2>3 DEF Before, IInv, DequeueOK
  <2> QED BY <2>1, <2>2, <2>4, Typed DEF Before
<1>3. /\ cpu'.op = "unlock" /\ cpu'.arg = cpu.arg /\ cpu'.thr = cpu.thr
      /\ cpu'.pc = "deq_clear" /\ next' = next /\ state' = state
      /\ front' = [front EXCEPT ![cpu.arg] = next[front[cpu.arg]]]
  BY <1>2 DEF DeqAdvance, Goto, Continuation
<1>4. PICK n \in Mutexes : n = cpu.arg BY <1>2
<1>5. n \in Queues /\ n \notin Levels /\ Mutexes \subseteq Queues /\ Levels \subseteq Queues
  BY LevelAssumption DEF Queues
<1>6. front[n] # NULL /\ \A r \in Queues : front'[r] = IF r = n THEN next[front[n]] ELSE front[r]
  BY <1>2, <1>3, <1>4, <1>5
<1>7. \A r \in Queues :
        /\ Chain(n) # <<>> /\ Head(Chain(n)) = front[n]
        /\ Chain(r)' = IF r = n THEN Tail(Chain(n)) ELSE Chain(r)
  BY <1>3, <1>5, <1>6, ChainTail
<1>8. /\ \A m : ~Parked(m) /\ ~Parked(m)' /\ ~Waking(m) /\ (Waking(m)' <=> m = n)
      /\ \A t : ~(cpu.op = "create") /\ ~(cpu'.op = "create")
  BY <1>2, <1>3, <1>4 DEF Parked, Waking, InHand
<1>9. MapNew' = MapNew BY <1>3, <1>8, NewStays
<1>10. \A i \in Levels : Chain(i)' = Chain(i) BY <1>5, <1>7
<1>11. ASSUME NEW m \in Mutexes PROVE AbsWaiting(m)' = AbsWaiting(m)
  <2>1. CASE m # n BY <1>5, <1>7, <1>8, <2>1, WaitersStay
  <2>2. CASE m = n
    <3> DEFINE c == Chain(n)
    <3>1. c \in Seq(Threads) BY <1>5, Members
    <3>2. AbsWaiting(n) = <<>> \o c BY <1>8 DEF Mapped, WaitersOK, Waiters
    <3>3. AbsWaiting(n)' = <<cpu.thr>> \o Tail(c)
      <4>1. AbsWaiting(n)' = Waiters(n)' BY DEF Mapped, WaitersOK
      <4>2. Chain(n)' = Tail(c) BY <1>5, <1>7
      <4> QED BY <1>3, <1>8, <4>1, <4>2 DEF Waiters
    <3>4. c # <<>> /\ Head(c) = cpu.thr BY <1>2, <1>4, <1>5, <1>7
    <3> HIDE DEF c
    <3>5. <<Head(c)>> \o Tail(c) = c BY <3>1, <3>4
    <3>6. <<>> \o c = c BY <3>1
    <3> QED BY <2>2, <3>2, <3>3, <3>4, <3>5, <3>6
  <2> QED BY <2>1, <2>2
<1> QED BY <1>1, <1>9, <1>10, <1>11, ListStutters

\* It cuts the waiter's own link, which is in no list any more.
LEMMA ClearStutters ==
  ASSUME NEW w, NEW p, Before(w, p), Mapped, Mapped', DeqClear
  PROVE  UNCHANGED Feedback!vars
<1>1. Returning BY DEF Returning
<1>2. cpu.pc = "deq_clear" /\ cpu.pc \in DeqLabels BY DEF DeqClear, At, DeqLabels
<1>3. /\ cpu \in Continuation /\ IInv /\ cpu.op = "unlock" /\ cpu.thr \in Threads
      /\ CarryOK(w) /\ Placed(w) /\ next \in [Threads -> ThreadOrNull]
  BY <1>2, Typed DEF Before, QueueInv, IInv, CallOK
<1>4. w[cpu.thr] = NULL
  <2>1. state[cpu.thr] = "BLOCKED" BY <1>2, <1>3 DEF CarryOK
  <2>2. Carried(cpu.thr) BY <1>2 DEF Carried, CarryLabels
  <2> QED BY <1>3, <2>1, <2>2 DEF Placed
<1>5. /\ cpu'.op = "unlock" /\ cpu'.arg = cpu.arg /\ cpu'.thr = cpu.thr
      /\ cpu'.pc = "deq_test" /\ front' = front /\ state' = state
      /\ next' = [next EXCEPT ![cpu.thr] = NULL]
  BY <1>3 DEF DeqClear, Goto, Continuation
<1>6. ASSUME NEW q \in Queues PROVE Chain(q)' = Chain(q)
  <2>1. \A i \in 1 .. Len(Chain(q)) : Chain(q)[i] \in Threads /\ w[Chain(q)[i]] = q
    BY Members
  <2>2. ASSUME NEW i \in 1 .. Len(Chain(q)) PROVE next'[Chain(q)[i]] = next[Chain(q)[i]]
    <3>1. PICK u \in Threads : u = Chain(q)[i] /\ w[u] = q BY <2>1
    <3>2. u # cpu.thr BY <1>4, <3>1, ThreadAssumption
    <3>3. next'[u] = next[u] BY <1>3, <1>5, <3>2
    <3> QED BY <3>1, <3>3
  <2> QED BY <1>5, <2>2, ChainStays
<1>7. /\ \A m : ~Parked(m) /\ ~Parked(m)' /\ (Waking(m)' <=> Waking(m))
      /\ ~(cpu.op = "create") /\ ~(cpu'.op = "create")
  BY <1>2, <1>3, <1>5 DEF Parked, Waking, InHand
<1>8. MapNew' = MapNew BY <1>5, <1>7, NewStays
<1>9. AbsRunning' = AbsRunning /\ priority' = priority BY <1>1, LocalMap
<1> QED BY <1>5, <1>6, <1>7, <1>8, <1>9, Stutters

\* enqueue() writes the link to its thread.
LEMMA EnqAppends ==
  ASSUME NEW w, NEW p, Before(w, p), Mapped, Mapped', EnqFront \/ EnqLink,
         NEW q \in Queues, q = cpu.q, NEW t \in Threads, t = cpu.thr, NEW r \in Queues
  PROVE  Chain(r)' = IF r = q THEN Append(Chain(q), t) ELSE Chain(r)
<1> USE DEF At
<1>1. cpu.pc \in {"enq_front", "enq_link"} /\ cpu.pc \in EnqLabels
  BY DEF EnqFront, EnqLink, EnqLabels
<1>2. /\ IInv /\ CarryOK(w) /\ Lists(front, Ends, Links, w, p)
      /\ front \in [Queues -> ThreadOrNull] /\ next \in [Threads -> ThreadOrNull]
      /\ rear \in [Queues -> ThreadOrNull] /\ NULL \notin Threads
  BY ThreadAssumption DEF Before, QueueInv, IInv, TypeOK
<1>3. w[t] = NULL BY <1>1, <1>2 DEF CarryOK
<1>4. Ends[q] = rear[q] /\ Links[t] = next[t] BY <1>1 DEF Ends, Links
<1>5. next[t] = NULL BY <1>2, <1>3, <1>4 DEF Lists
<1>6. /\ rear[q] = IF Chain(q) = <<>> THEN NULL ELSE Last(Chain(q))
      /\ Chain(q) # <<>> => Last(Chain(q)) \in Threads
  <2>1. Chain(q) # <<>> => Len(Chain(q)) \in 1 .. Len(Chain(q)) BY Members
  <2> QED BY <1>4, <2>1, Members DEF Last
<1>7. CASE EnqFront
  <2>1. rear[q] = NULL /\ front' = [front EXCEPT ![q] = t] /\ next' = next
    BY <1>1, <1>2, <1>7 DEF CarryOK, EnqFront
  <2>2. Chain(q) = <<>> BY <1>2, <1>6, <2>1
  <2>3. \A x \in Queues : front'[x] = IF x = q /\ Chain(q) = <<>> THEN t ELSE front[x]
    BY <1>2, <2>1, <2>2
  <2>4. \A u \in Threads :
          next'[u] = IF Chain(q) # <<>> /\ u = Last(Chain(q)) THEN t ELSE next[u]
    BY <2>1, <2>2
  <2> HIDE <1>7
  <2> QED BY <1>3, <1>5, <2>3, <2>4, ChainAppends
<1>8. CASE EnqLink
  <2>1. /\ rear[q] # NULL /\ cpu.reg = rear[q]
        /\ front' = front /\ next' = [next EXCEPT ![cpu.reg] = t]
    BY <1>1, <1>2, <1>8 DEF CarryOK, EnqLink
  <2>2. Chain(q) # <<>> /\ cpu.reg = Last(Chain(q)) BY <1>6, <2>1
  <2>3. \A x \in Queues : front'[x] = IF x = q /\ Chain(q) = <<>> THEN t ELSE front[x]
    BY <2>1, <2>2
  <2>4. \A u \in Threads :
          next'[u] = IF Chain(q) # <<>> /\ u = Last(Chain(q)) THEN t ELSE next[u]
    BY <1>2, <2>1, <2>2
  <2> HIDE <1>8
  <2> QED BY <1>3, <1>5, <2>3, <2>4, ChainAppends
<1> QED BY <1>7, <1>8

\* That is the point at which create() and unlock() make their thread ready,
\* and lock() parks its own.
LEMMA EnqLinks ==
  ASSUME NEW w, NEW p, Before(w, p), Mapped, Mapped', EnqFront \/ EnqLink
  PROVE  \/ \E t \in Threads : Feedback!Create(t)
         \/ \E m \in Mutexes : Feedback!Wake(m)
         \/ UNCHANGED Feedback!vars
<1> USE DEF At
<1>1. Returning BY DEF Returning
<1>2. cpu.pc \in {"enq_front", "enq_link"} /\ cpu.pc \in EnqLabels
  BY DEF EnqFront, EnqLink, EnqLabels
<1>3. /\ cpu \in Continuation /\ IInv /\ CarryOK(w) /\ Placed(w)
      /\ cpu.op \in QueueCalls /\ cpu.thr \in Threads /\ cpu.q \in Queues
      /\ state \in [Threads -> {"NONE", "QUEUED", "YIELD", "EXITED", "JOINING",
                                "BLOCKED", "RUNNING"}]
      /\ priority \in [Threads -> Levels]
      /\ Mutexes \subseteq Queues /\ Levels \subseteq Queues
      /\ \A m \in Mutexes : m \notin Levels
  BY <1>2, Typed, BodyOps, LevelAssumption
     DEF Before, QueueInv, MaskOK, IInv, TypeOK, CallOK, Queues
<1>4. /\ cpu'.pc = "enq_rear" /\ cpu'.op = cpu.op /\ cpu'.arg = cpu.arg
      /\ cpu'.thr = cpu.thr /\ state' = state
  <2>1. CASE EnqFront BY <1>3, <2>1 DEF EnqFront, Goto, Continuation
  <2>2. CASE EnqLink BY <1>3, <2>2 DEF EnqLink, Continuation
  <2> QED BY <2>1, <2>2
<1>5. PICK t \in Threads : t = cpu.thr BY <1>3
<1>6. PICK q \in Queues : q = cpu.q BY <1>3
<1>7. \A r \in Queues : Chain(r)' = IF r = q THEN Append(Chain(q), t) ELSE Chain(r)
  BY <1>5, <1>6, EnqAppends
<1>8. AbsRunning' = AbsRunning /\ AbsRunning # NULL /\ priority' = priority
  BY <1>1, LocalMap
<1>9. /\ \A u : ~InHand(u)' /\ (InHand(u) <=> cpu.op \in {"create", "unlock"} /\ u = t)
      /\ \A m : ~Waking(m)' /\ (Waking(m) <=> cpu.op = "unlock" /\ m = cpu.arg)
      /\ \A m : ~Parked(m) /\ (Parked(m)' <=> cpu.op = "lock" /\ m = cpu.arg)
  <2>1. (\A u : ~InHand(u)' /\ (InHand(u) <=> cpu.op \in {"create", "unlock"} /\ u = t))
    BY <1>2, <1>4, <1>5 DEF InHand
  <2>2. \A m : ~Waking(m)' /\ (Waking(m) <=> cpu.op = "unlock" /\ m = cpu.arg)
    BY <1>4, <1>5, <2>1 DEF Waking
  <2>3. /\ currentThread' = currentThread /\ ~SchedAt("next")'
        /\ cpu.op = "lock" => CurrentIs("BLOCKED")
    BY <1>1, <1>2, <1>3, <1>4, StaysLocal
       DEF EnqFront, EnqLink, SchedAt, InHandler, CarryOK
  <2>4. \A m : ~Parked(m) /\ (Parked(m)' <=> cpu.op = "lock" /\ m = cpu.arg)
    BY <1>2, <1>4, <2>3 DEF Parked, CurrentIs
  <2> QED BY <2>1, <2>2, <2>4
<1>10. cpu.op # "lock" => state[t] = "QUEUED" /\ q = priority[t] /\ q \in Levels
  BY <1>2, <1>3, <1>5, <1>6 DEF CarryOK
<1>11. ASSUME cpu.op # "lock"
       PROVE  /\ MapReady' = [MapReady EXCEPT ![priority[t]] = Append(@, t)]
              /\ \A m \in Mutexes : Chain(m)' = Chain(m)
  BY <1>7, <1>10, <1>11, ReadyAppends
<1>12. CASE cpu.op = "create"
  <2>1. MapWaiting' = MapWaiting
    <3>1. \A m \in Mutexes : AbsWaiting(m)' = AbsWaiting(m)
      BY <1>3, <1>9, <1>11, <1>12, WaitersStay
    <3> QED BY <3>1 DEF MapWaiting
  <2>2. t \in MapNew
    <3>1. t # Main BY <1>2, <1>5, <1>12 DEF Mapped, CreatingOK
    <3> QED BY <1>9, <1>12, <3>1 DEF MapNew
  <2>3. MapNew' = MapNew \ {t} BY <1>4, <1>9, <1>10, <1>12 DEF MapNew
  <2>4. Feedback!Create(t)
    BY <1>8, <1>11, <1>12, <2>1, <2>2, <2>3
       DEF Feedback!Create, Feedback!MakeReady, MapReady, MapWaiting, MapNew
  <2> QED BY <2>4
<1>13. CASE cpu.op = "unlock"
  <2>1. PICK n \in Mutexes : n = cpu.arg BY <1>3, <1>13 DEF IInv, CallOK
  <2>2. \A m \in Mutexes : m # n => AbsWaiting(m)' = AbsWaiting(m)
    BY <1>3, <1>9, <1>11, <1>13, <2>1, WaitersStay
  <2> DEFINE c == Chain(n)
  <2>3. c \in Seq(Threads) BY <1>3, Members
  <2>4. AbsWaiting(n) = <<t>> \o c
    BY <1>5, <1>9, <1>13, <2>1 DEF Mapped, WaitersOK, Waiters
  <2>5. AbsWaiting(n)' = <<>> \o c
    <3>1. AbsWaiting(n)' = Waiters(n)' BY DEF Mapped, WaitersOK
    <3> QED BY <1>9, <1>11, <1>13, <3>1 DEF Waiters
  <2> HIDE DEF c
  <2>6. /\ <<t>> \o c # <<>> /\ Head(<<t>> \o c) = t /\ Tail(<<t>> \o c) = c
        /\ <<>> \o c = c
    BY <2>3
  <2>7. /\ MapWaiting[n] # <<>> /\ Head(MapWaiting[n]) = t
        /\ MapWaiting' = [MapWaiting EXCEPT ![n] = Tail(@)]
    BY <2>2, <2>4, <2>5, <2>6 DEF MapWaiting
  <2>8. MapNew' = MapNew BY <1>4, <1>13, NewStays
  <2>9. Feedback!Wake(n)
    BY <1>8, <1>11, <1>13, <2>7, <2>8
       DEF Feedback!Wake, Feedback!MakeReady, MapReady, MapWaiting, MapNew
  <2> QED BY <2>9
<1>14. CASE cpu.op = "lock"
  <2>1. q \in Mutexes /\ q = cpu.arg
    BY <1>2, <1>3, <1>6, <1>14 DEF IInv, CallOK, CarryOK
  <2>2. \A i \in Levels : Chain(i)' = Chain(i) BY <1>3, <1>7, <2>1
  <2>3. ASSUME NEW m \in Mutexes PROVE AbsWaiting(m)' = AbsWaiting(m)
    <3>1. CASE m # q
      <4>1. Chain(m)' = Chain(m) BY <1>3, <1>7, <3>1
      <4> QED BY <1>9, <1>14, <2>1, <3>1, <4>1, WaitersStay
    <3>2. CASE m = q
      <4> DEFINE c == Chain(q)
      <4>1. c \in Seq(Threads) BY Members
      <4>2. AbsWaiting(q) = <<>> \o c
        BY <1>9, <1>14, <2>1 DEF Mapped, WaitersOK, Waiters
      <4>3. AbsWaiting(q)' = <<>> \o SubSeq(Append(c, t), 1, Len(Append(c, t)) - 1)
        <5>1. AbsWaiting(q)' = Waiters(q)' BY <2>1 DEF Mapped, WaitersOK
        <5>2. Chain(q)' = Append(c, t) BY <1>7
        <5> QED BY <1>9, <1>14, <2>1, <5>1, <5>2 DEF Waiters
      <4> HIDE DEF c
      <4>4. SubSeq(Append(c, t), 1, Len(Append(c, t)) - 1) = c BY <4>1
      <4> QED BY <3>2, <4>2, <4>3, <4>4
    <3> QED BY <3>1, <3>2
  <2>4. MapNew' = MapNew BY <1>4, <1>14, NewStays
  <2> QED BY <1>1, <2>2, <2>3, <2>4, ListStutters
<1> QED BY <1>3, <1>12, <1>13, <1>14 DEF QueueCalls

----------------------------------------------------------------------------
(* All of them.                                                            *)

MapInv == TInv /\ ListInv /\ Mapped

\* Every step of the program is one of MLFQ or is not seen by it.
LEMMA StepIs ==
  ASSUME ~SlowTail, MapInv, MapInv', [Next]_vars
  PROVE  [Feedback!Next]_Feedback!vars
<1>1. Mapped /\ Mapped' BY DEF MapInv
<1>2. PICK w, p : QueueInv(w, p) BY DEF MapInv, ListInv
<1>3. Before(w, p) BY <1>2 DEF Before, MapInv, Mapped
<1>4. CASE Calling BY <1>1, <1>3, <1>4, CallSteps
<1>5. CASE Returning
  <2>1. CASE \/ Arm \/ ExitValue \/ JoinTest \/ JoinDone
             \/ TestAndSet \/ LockBlock \/ UnlockTest \/ Release
    BY <1>1, <1>3, <2>1, PlainSteps
  <2>2. CASE EnqTest \/ EnqLoad \/ EnqRear \/ DeqTest \/ DeqNull \/ Wake
    BY <1>1, <1>3, <2>2, ListSteps
  <2>3. CASE EnqFront \/ EnqLink
    <3>1. \/ \E t \in Threads : Feedback!Create(t)
          \/ \E m \in Mutexes : Feedback!Wake(m)
          \/ UNCHANGED Feedback!vars
      BY <1>1, <1>3, <2>3, EnqLinks
    <3> QED BY <3>1 DEF Feedback!Next
  <2>4. CASE DeqAdvance BY <1>1, <1>3, <2>4, AdvanceStutters
  <2>5. CASE DeqClear BY <1>1, <1>3, <2>5, ClearStutters
  <2> QED BY <1>5, <2>1, <2>2, <2>3, <2>4, <2>5 DEF Returning
<1>6. CASE Scheduling
  <2>1. CASE SchedEnter \/ MaintSkip \/ MaintNextLevel \/ KeepAlone \/ KeepRunning \/ SwapTail
    BY <1>1, <1>3, <2>1, QuietSteps
  <2>2. CASE AllFinished \/ Keep \/ Swap BY <1>1, <1>3, <2>2, ReturnSteps
  <2>3. CASE MaintPromote
    <3>1. \E i \in Levels : \E k \in DOMAIN MapReady[i] : Feedback!Boost(i, k)
      BY <1>1, <1>3, <2>3, PromoteBoosts
    <3> QED BY <3>1 DEF Feedback!Next, Feedback!Levels, Levels, MapReady
  <2>4. CASE Requeue
    <3>1. Feedback!Yield BY <1>1, <1>3, <2>4, RequeueYields
    <3> QED BY <3>1 DEF Feedback!Next
  <2>5. CASE Demote
    <3>1. Feedback!Expire BY <1>1, <1>3, <2>5, DemoteExpires
    <3> QED BY <3>1 DEF Feedback!Next
  <2>6. CASE Reap
    <3>1. Feedback!Exit BY <1>1, <1>3, <2>6, ReapExits
    <3> QED BY <3>1 DEF Feedback!Next
  <2>7. CASE Block
    <3>1. \E m \in Mutexes : Feedback!Wait(m) BY <1>1, <1>3, <2>7, BlockWaits
    <3> QED BY <3>1 DEF Feedback!Next
  <2>8. CASE Dispatch
    <3>1. PICK i \in Levels : DispatchFrom(i) BY <2>8 DEF Dispatch
    <3>2. Feedback!Dispatch(i) BY <1>1, <1>3, <3>1, DispatchTakes
    <3> QED BY <3>2 DEF Feedback!Next, Feedback!Levels, Levels
  <2> QED BY <1>6, <2>1, <2>2, <2>3, <2>4, <2>5, <2>6, <2>7, <2>8 DEF Scheduling
<1>7. CASE Signal BY <1>1, <1>3, <1>7, SignalStutters
<1>8. CASE Halted \/ UNCHANGED vars BY <1>1, <1>8, HaltedStutters
<1> QED BY <1>4, <1>5, <1>6, <1>7, <1>8 DEF Next

\* At first main() runs and every queue is empty.
LEMMA InitIs ==
  ASSUME Init
  PROVE  Feedback!Init /\ TailOK /\ CreatingOK
<1>1. /\ \A q \in Queues : front[q] = NULL
      /\ \A t \in Threads : state[t] = "NONE"
      /\ priority = [t \in Threads |-> 0] /\ currentThread = NULL
      /\ cpu.op = "none"
  BY DEF Init, UserCode
<1>2. Pathed BY InitInv, InitQueues, PathedIs
<1>3. \A q \in Queues : Chain(q) = <<>> BY <1>1, <1>2 DEF Pathed, IsPath
<1>4. \A m \in Mutexes : AbsWaiting(m) = <<>>
  <2>1. \A m \in Mutexes : Chain(m) = <<>> BY <1>3 DEF Queues
  <2>2. \A m : AbsWaiting(m) =
          <<>> \o (IF Chain(m) # <<>> /\ Chain(m)[Len(Chain(m))] = AbsRunning
                   THEN SubSeq(Chain(m), 1, Len(Chain(m)) - 1) ELSE Chain(m))
    BY <1>1 DEF AbsWaiting
  <2> QED BY <2>1, <2>2
<1>5. MapReady = [i \in Levels |-> <<>>] BY <1>3 DEF MapReady, Queues
<1>6. MapWaiting = [m \in Mutexes |-> <<>>] BY <1>4 DEF MapWaiting
<1>7. MapNew = Threads \ {Main} BY <1>1 DEF MapNew
<1>8. AbsRunning = Main BY <1>1 DEF AbsRunning
<1>9. Feedback!Init
  BY <1>1, <1>5, <1>6, <1>7, <1>8
     DEF Feedback!Init, Feedback!Levels, Levels, MapReady, MapWaiting, MapNew
<1> QED BY <1>1, <1>9 DEF TailOK, CreatingOK, Parked

\* The library is a multilevel feedback queue: whatever the client does and
\* wherever the tick falls, up to the first that tears an update, threads
\* change queue, level and processor only as MLFQ allows: my_pthread.c:186-443.
THEOREM MLFQImplemented == ASSUME ~SlowTail PROVE HSpec => ImplementsMLFQ
<1> DEFINE Lists1 == IInv /\ TInv /\ (Intact => ListInv)
           Calls1 == Intact => TailOK /\ CreatingOK
<1>1. HSpec => []Lists1 BY Queueing
<1>2. HInit => Calls1 /\ Feedback!Init BY InitIs DEF HInit
<1>3. ASSUME [HNext]_hvars, Intact' PROVE Intact /\ [Next]_vars
  <2>1. CASE HNext BY <1>3, <2>1 DEF HNext, Intact
  <2>2. CASE UNCHANGED hvars BY <1>3, <2>2 DEF hvars, Intact
  <2> QED BY <1>3, <2>1, <2>2
<1>4. Lists1 /\ Lists1' /\ Calls1 /\ [HNext]_hvars => Calls1'
  <2>1. SUFFICES ASSUME Lists1, Lists1', Calls1, [HNext]_hvars, Intact'
                 PROVE  TailOK' /\ CreatingOK'
    OBVIOUS
  <2>2. Intact /\ [Next]_vars BY <1>3, <2>1
  <2>3. PICK w, p : QueueInv(w, p) BY <2>1, <2>2 DEF ListInv
  <2>4. Before(w, p) BY <2>1, <2>3 DEF Before
  <2>5. CurrentOK' BY <2>1 DEF ListInv, QueueInv
  <2> QED BY <2>1, <2>2, <2>4, <2>5, TailNext, CreatingNext
<1>5. Lists1 /\ Calls1 /\ Intact => MapInv
  <2>1. SUFFICES ASSUME Lists1, Calls1, Intact PROVE MapInv OBVIOUS
  <2>2. PICK w, p : QueueInv(w, p) BY <2>1 DEF ListInv
  <2>3. Before(w, p) BY <2>1, <2>2 DEF Before
  <2>4. Pathed /\ CurrentOK BY <2>1, <2>2, PathedIs DEF QueueInv
  <2>5. WaitersOK BY <2>1, <2>3, WaitersAre DEF WaitersOK
  <2> QED BY <2>1, <2>4, <2>5 DEF MapInv, Mapped
<1>6. Lists1 /\ Lists1' /\ Calls1 /\ Calls1' /\ [HNext]_hvars =>
        [Intact' => Feedback!Next \/ UNCHANGED Feedback!vars]_hvars
  <2>1. SUFFICES ASSUME Lists1, Lists1', Calls1, Calls1', [HNext]_hvars, Intact'
                 PROVE  Feedback!Next \/ UNCHANGED Feedback!vars
    OBVIOUS
  <2>2. Intact /\ [Next]_vars BY <1>3, <2>1
  <2>3. MapInv BY <1>5, <2>1, <2>2
  <2>4. MapInv'
    <3>1. Lists1' /\ Calls1' /\ Intact' => MapInv' BY <1>5, PTL
    <3> QED BY <2>1, <3>1
  <2> QED BY <2>2, <2>3, <2>4, StepIs
<1> HIDE DEF Lists1, Calls1
<1> QED BY <1>1, <1>2, <1>4, <1>6, PTL DEF HSpec, ImplementsMLFQ

=============================================================================
