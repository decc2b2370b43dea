------------------------- MODULE MyPthreadListProofs -------------------------
(***************************************************************************)
(* What enqueue(), dequeue() and the removal of maintenance() do to the    *)
(* lists of MyPthread, and what the order of Lists says of the paths of    *)
(* pointers that Chain follows.                                            *)
(***************************************************************************)
EXTENDS MyPthreadQueues, FiniteSetTheorems, TLAPS

\* Pointers and their order.
Typing(f, r, n, w, p) ==
  /\ f \in [Queues -> ThreadOrNull] /\ r \in [Queues -> ThreadOrNull]
  /\ n \in [Threads -> ThreadOrNull]
  /\ w \in [Threads -> Queues \cup {NULL}] /\ p \in [Threads -> Nat]

\* f2, r2, n2 and w2 are f, r, n and w once t has been made the last of q.
Appended(f, r, n, w, q, t, f2, r2, n2, w2) ==
  /\ \A x \in Queues : f2[x] = IF x = q /\ r[q] = NULL THEN t ELSE f[x]
  /\ \A x \in Queues : r2[x] = IF x = q THEN t ELSE r[x]
  /\ \A u \in Threads : n2[u] = IF u = r[q] THEN t ELSE n[u]
  /\ \A u \in Threads : w2[u] = IF u = t THEN q ELSE w[u]

\* They are so once t, after b if it is not the first, has been unlinked from q.
Unlinked(f, r, n, w, q, t, b, f2, r2, n2, w2) ==
  /\ t # f[q] => b \in Threads /\ w[b] = q /\ n[b] = t
  /\ \A x \in Queues : f2[x] = IF x = q /\ t = f[q] THEN n[t] ELSE f[x]
  /\ \A x \in Queues :
       r2[x] = IF x = q /\ n[t] = NULL THEN IF t = f[q] THEN NULL ELSE b ELSE r[x]
  /\ \A u \in Threads :
       n2[u] = IF u = t THEN NULL ELSE IF u = b /\ t # f[q] THEN n[t] ELSE n[u]
  /\ \A u \in Threads : w2[u] = IF u = t THEN NULL ELSE w[u]

\* enqueue()
LEMMA ListAppend ==
  ASSUME NEW f, NEW r, NEW n, NEW w, NEW p, Typing(f, r, n, w, p),
         Lists(f, r, n, w, p), NEW q \in Queues, NEW t \in Threads, w[t] = NULL,
         NEW f2, NEW r2, NEW n2, NEW w2,
         Appended(f, r, n, w, q, t, f2, r2, n2, w2)
  PROVE  \E p2 \in [Threads -> Nat] : Lists(f2, r2, n2, w2, p2)
<1>1. q # NULL /\ t # NULL /\ n[t] = NULL
  <2>1. q # NULL /\ t # NULL BY ThreadAssumption
  <2>2. n[t] = NULL BY DEF Lists
  <2> QED BY <2>1, <2>2
<1>2. CASE r[q] = NULL
  <2>1. /\ \A u \in Threads : u # NULL
        /\ \A x \in Queues : f2[x] = IF x = q THEN t ELSE f[x]
        /\ \A x \in Queues : r2[x] = IF x = q THEN t ELSE r[x]
        /\ \A u \in Threads : w2[u] = IF u = t THEN q ELSE w[u]
    BY <1>2, ThreadAssumption DEF Appended
  <2>2. \A u \in Threads : n2[u] = n[u] BY <1>2, <2>1 DEF Appended
  <2>3. \A u \in Threads : w[u] # q BY <1>1, <1>2 DEF Lists
  <2>4. \A x \in Queues :
          /\ f2[x] # NULL => w2[f2[x]] = x
          /\ r2[x] = NULL <=> f2[x] = NULL
          /\ r2[x] # NULL => w2[r2[x]] = x /\ n2[r2[x]] = NULL
    <3>1. ASSUME NEW x \in Queues
          PROVE  /\ f[x] # NULL => f[x] \in Threads /\ w[f[x]] = x /\ f[x] # t
                 /\ r[x] = NULL <=> f[x] = NULL
                 /\ r[x] # NULL => /\ r[x] \in Threads /\ w[r[x]] = x
                                   /\ n[r[x]] = NULL /\ r[x] # t
      BY <1>1, ThreadAssumption DEF Lists, Typing, ThreadOrNull
    <3> QED BY <1>1, <2>1, <2>2, <3>1
  <2>5. \A u \in Threads : w2[u] = NULL => n2[u] = NULL
    BY <1>1, <2>1, <2>2 DEF Lists
  <2>6. \A u \in Threads : w2[u] # NULL =>
          /\ f2[w2[u]] # NULL /\ p[f2[w2[u]]] <= p[u]
          /\ n2[u] # NULL => w2[n2[u]] = w2[u] /\ p[u] < p[n2[u]]
    BY <1>1, <2>1, <2>2, <2>3 DEF Lists, Typing, ThreadOrNull
  <2>7. \A u, v \in Threads : w2[u] # NULL /\ w2[v] = w2[u] =>
          /\ p[u] = p[v] => u = v
          /\ p[u] < p[v] => n2[u] # NULL /\ p[n2[u]] <= p[v]
    BY <1>1, <2>1, <2>2, <2>3 DEF Lists, Typing
  <2> QED BY <2>4, <2>5, <2>6, <2>7 DEF Lists, Typing
<1>3. CASE r[q] # NULL
  <2>1. PICK l \in Threads : l = r[q] /\ w[l] = q /\ n[l] = NULL /\ l # t
    BY <1>1, <1>3 DEF Typing, Lists, ThreadOrNull
  <2>2. /\ \A x \in Queues : f2[x] = f[x]
        /\ \A x \in Queues : r2[x] = IF x = q THEN t ELSE r[x]
        /\ \A u \in Threads : n2[u] = IF u = l THEN t ELSE n[u]
        /\ \A u \in Threads : w2[u] = IF u = t THEN q ELSE w[u]
    BY <1>3, <2>1 DEF Appended
  <2>3. PICK p2 \in [Threads -> Nat] :
          \A u \in Threads : p2[u] = IF u = t THEN p[l] + 1 ELSE p[u]
    <3>1. [p EXCEPT ![t] = p[l] + 1] \in [Threads -> Nat] BY <2>1 DEF Typing
    <3> QED BY <3>1 DEF Typing
  <2>4. \A u \in Threads : w[u] = q => p[u] <= p[l]
    BY <1>1, <2>1 DEF Lists, Typing
  <2>5. \A u \in Threads : p[u] \in Nat BY DEF Typing
  <2>6. \A x \in Queues :
          /\ f2[x] # NULL => w2[f2[x]] = x
          /\ r2[x] = NULL <=> f2[x] = NULL
          /\ r2[x] # NULL => w2[r2[x]] = x /\ n2[r2[x]] = NULL
    <3>1. ASSUME NEW x \in Queues
          PROVE  /\ f[x] # NULL => f[x] \in Threads /\ w[f[x]] = x /\ f[x] # t
                 /\ r[x] = NULL <=> f[x] = NULL
                 /\ r[x] # NULL => /\ r[x] \in Threads /\ w[r[x]] = x
                                   /\ n[r[x]] = NULL /\ r[x] # t
      BY <1>1, ThreadAssumption DEF Lists, Typing, ThreadOrNull
    <3> QED BY <1>1, <1>3, <2>1, <2>2, <3>1
  <2>7. \A u \in Threads : w2[u] = NULL => n2[u] = NULL
    BY <1>1, <2>1, <2>2 DEF Lists
  <2>8. \A u \in Threads : w2[u] # NULL =>
          /\ f2[w2[u]] # NULL /\ p2[f2[w2[u]]] <= p2[u]
          /\ n2[u] # NULL => w2[n2[u]] = w2[u] /\ p2[u] < p2[n2[u]]
    BY <1>1, <1>3, <2>1, <2>2, <2>3, <2>4 DEF Lists, Typing, ThreadOrNull
  <2>9. \A u, v \in Threads : w2[u] # NULL /\ w2[v] = w2[u] =>
          /\ p2[u] = p2[v] => u = v
          /\ p2[u] < p2[v] => n2[u] # NULL /\ p2[n2[u]] <= p2[v]
    <3> SUFFICES ASSUME NEW u \in Threads, NEW v \in Threads, w2[u] # NULL,
                        w2[v] = w2[u]
                 PROVE  /\ p2[u] = p2[v] => u = v
                        /\ p2[u] < p2[v] => n2[u] # NULL /\ p2[n2[u]] <= p2[v]
      OBVIOUS
    <3>1. CASE u = t BY <2>2, <2>3, <2>4, <2>5, <3>1
    <3>2. CASE u # t /\ v = t
      <4>1. w[u] = q /\ p[u] <= p[l] BY <2>2, <2>4, <3>2
      <4>2. u # l => p[u] < p[l] BY <1>1, <2>1, <2>5, <4>1 DEF Lists
      <4>3. u # l => n[u] # NULL /\ p[n[u]] <= p[l] /\ n[u] \in Threads
                     /\ n[u] # t
        BY <1>1, <2>1, <4>1, <4>2 DEF Lists, Typing, ThreadOrNull
      <4> QED BY <1>1, <2>1, <2>2, <2>3, <2>5, <3>2, <4>1, <4>3
    <3>3. CASE u # t /\ v # t
      <4>1. w[v] = w[u] /\ w[u] # NULL BY <2>2, <3>3
      <4>2. u = l => p[v] <= p[u] BY <2>1, <2>4, <4>1
      <4>3. /\ p[u] = p[v] => u = v
            /\ p[u] < p[v] => n[u] # NULL /\ p[n[u]] <= p[v]
            /\ n[u] # NULL => n[u] \in Threads /\ w[n[u]] = w[u]
        BY <4>1 DEF Lists, Typing, ThreadOrNull
      <4> QED BY <1>1, <2>2, <2>3, <2>5, <3>3, <4>1, <4>2, <4>3
    <3> QED BY <3>1, <3>2, <3>3
  <2> QED BY <2>3, <2>6, <2>7, <2>8, <2>9 DEF Lists
<1> QED BY <1>2, <1>3

\* maintenance(), and dequeue() for the first of a queue.
LEMMA ListUnlink ==
  ASSUME NEW f, NEW r, NEW n, NEW w, NEW p, Typing(f, r, n, w, p),
         Lists(f, r, n, w, p), NEW q \in Queues, NEW t \in Threads, w[t] = q,
         NEW b, NEW f2, NEW r2, NEW n2, NEW w2,
         Unlinked(f, r, n, w, q, t, b, f2, r2, n2, w2)
  PROVE  Lists(f2, r2, n2, w2, p)
<1>1. /\ q # NULL /\ t # NULL
      /\ n[t] # NULL => n[t] \in Threads /\ w[n[t]] = q /\ n[t] # t
      /\ \A u \in Threads : p[u] \in Nat
  BY ThreadAssumption DEF Typing, Lists, ThreadOrNull
<1>2. CASE t = f[q]
  <2>1. /\ \A x \in Queues : f2[x] = IF x = q THEN n[t] ELSE f[x]
        /\ \A x \in Queues : r2[x] = IF x = q /\ n[t] = NULL THEN NULL ELSE r[x]
        /\ \A u \in Threads : n2[u] = IF u = t THEN NULL ELSE n[u]
        /\ \A u \in Threads : w2[u] = IF u = t THEN NULL ELSE w[u]
    BY <1>2 DEF Unlinked
  <2>2. ASSUME NEW u \in Threads, w[u] = q, u # t
        PROVE  p[t] < p[u] /\ n[t] # NULL /\ p[n[t]] <= p[u] /\ n[u] # t
    <3>1. p[t] <= p[u] /\ p[t] # p[u] /\ p[t] \in Nat /\ p[u] \in Nat
      BY <1>1, <1>2, <2>2 DEF Lists
    <3>2. n[t] # NULL /\ p[n[t]] <= p[u] BY <1>1, <2>2, <3>1 DEF Lists
    <3>3. n[u] # NULL => p[u] < p[n[u]] BY <1>1, <2>2 DEF Lists
    <3> QED BY <1>1, <3>1, <3>2, <3>3
  <2>4. \A x \in Queues :
          /\ f2[x] # NULL => w2[f2[x]] = x
          /\ r2[x] = NULL <=> f2[x] = NULL
          /\ r2[x] # NULL => w2[r2[x]] = x /\ n2[r2[x]] = NULL
    BY <1>1, <1>2, <2>1, <2>2 DEF Lists, Typing, ThreadOrNull
  <2>5. \A u \in Threads : w2[u] = NULL => n2[u] = NULL BY <2>1 DEF Lists
  <2>6. \A u \in Threads : w2[u] # NULL =>
          /\ f2[w2[u]] # NULL /\ p[f2[w2[u]]] <= p[u]
          /\ n2[u] # NULL => w2[n2[u]] = w2[u] /\ p[u] < p[n2[u]]
    BY <1>1, <2>1, <2>2 DEF Lists, Typing, ThreadOrNull
  <2>7. \A u, v \in Threads : w2[u] # NULL /\ w2[v] = w2[u] =>
          /\ p[u] = p[v] => u = v
          /\ p[u] < p[v] => n2[u] # NULL /\ p[n2[u]] <= p[v]
    BY <1>1, <2>1 DEF Lists
  <2> QED BY <2>4, <2>5, <2>6, <2>7 DEF Lists
<1>3. CASE t # f[q]
  <2>1. b \in Threads /\ w[b] = q /\ n[b] = t BY <1>3 DEF Unlinked
  <2>2. /\ \A x \in Queues : f2[x] = f[x]
        /\ \A x \in Queues : r2[x] = IF x = q /\ n[t] = NULL THEN b ELSE r[x]
        /\ \A u \in Threads :
             n2[u] = IF u = t THEN NULL ELSE IF u = b THEN n[t] ELSE n[u]
        /\ \A u \in Threads : w2[u] = IF u = t THEN NULL ELSE w[u]
    BY <1>3 DEF Unlinked
  <2>3. b # t /\ p[b] < p[t] BY <1>1, <2>1 DEF Lists
  <2>9. n[t] # NULL => p[t] < p[n[t]] BY <1>1 DEF Lists
  <2>4. \A u \in Threads : w[u] = q /\ n[u] = t => u = b
    <3> SUFFICES ASSUME NEW u \in Threads, w[u] = q, n[u] = t, u # b PROVE FALSE
      OBVIOUS
    <3>1. p[u] < p[t] BY <1>1 DEF Lists
    <3>2. p[u] # p[b] BY <1>1, <2>1 DEF Lists
    <3>3. p[u] < p[b] => p[t] <= p[b] BY <1>1, <2>1 DEF Lists
    <3>4. p[b] < p[u] => p[t] <= p[u] BY <1>1, <2>1 DEF Lists
    <3> QED BY <1>1, <2>1, <2>3, <3>1, <3>2, <3>3, <3>4
  <2>5. \A u \in Threads : w[u] # NULL /\ n[u] = t => u = b
    BY <1>1, <2>4 DEF Lists
  <2>6. r[q] = t <=> n[t] = NULL
    <3>1. r[q] \in Threads /\ w[r[q]] = q /\ n[r[q]] = NULL
      BY <1>1 DEF Lists, Typing, ThreadOrNull
    <3>2. n[t] = NULL /\ r[q] # t => FALSE
      <4>1. p[t] < p[r[q]] => n[t] # NULL BY <1>1, <3>1 DEF Lists
      <4>2. p[r[q]] < p[t] => n[r[q]] # NULL BY <1>1, <3>1 DEF Lists
      <4>3. p[r[q]] = p[t] => r[q] = t BY <1>1, <3>1 DEF Lists
      <4> QED BY <1>1, <3>1, <4>1, <4>2, <4>3
    <3> QED BY <3>1, <3>2
  <2>7. \A x \in Queues :
          /\ f2[x] # NULL => w2[f2[x]] = x
          /\ r2[x] = NULL <=> f2[x] = NULL
          /\ r2[x] # NULL => w2[r2[x]] = x /\ n2[r2[x]] = NULL
    <3> SUFFICES ASSUME NEW x \in Queues
                 PROVE  /\ f2[x] # NULL => w2[f2[x]] = x
                        /\ r2[x] = NULL <=> f2[x] = NULL
                        /\ r2[x] # NULL => w2[r2[x]] = x /\ n2[r2[x]] = NULL
      OBVIOUS
    <3>1. /\ f[x] # NULL => f[x] \in Threads /\ w[f[x]] = x /\ f[x] # t
          /\ r[x] = NULL <=> f[x] = NULL
          /\ r[x] # NULL => r[x] \in Threads /\ w[r[x]] = x /\ n[r[x]] = NULL
      BY <1>1, <1>3 DEF Lists, Typing, ThreadOrNull
    <3>2. f[q] # NULL /\ b # NULL BY <1>1, <2>1, ThreadAssumption DEF Lists
    <3> QED BY <1>1, <2>1, <2>2, <2>3, <2>6, <3>1, <3>2
  <2>8. \A u \in Threads : w2[u] = NULL => n2[u] = NULL
    BY <1>1, <2>1, <2>2 DEF Lists
  <2>10. \A u \in Threads : w2[u] # NULL =>
          /\ f2[w2[u]] # NULL /\ p[f2[w2[u]]] <= p[u]
          /\ n2[u] # NULL => w2[n2[u]] = w2[u] /\ p[u] < p[n2[u]]
    <3> SUFFICES ASSUME NEW u \in Threads, w2[u] # NULL
                 PROVE  /\ f2[w2[u]] # NULL /\ p[f2[w2[u]]] <= p[u]
                        /\ n2[u] # NULL => w2[n2[u]] = w2[u] /\ p[u] < p[n2[u]]
      OBVIOUS
    <3>1. u # t /\ w2[u] = w[u] /\ w[u] # NULL /\ w[u] \in Queues
      BY <2>2 DEF Typing
    <3>2. /\ f[w[u]] # NULL /\ p[f[w[u]]] <= p[u]
          /\ n[u] # NULL =>
               n[u] \in Threads /\ w[n[u]] = w[u] /\ p[u] < p[n[u]]
      BY <3>1 DEF Lists, Typing, ThreadOrNull
    <3> QED BY <1>1, <2>1, <2>2, <2>3, <2>5, <2>9, <3>1, <3>2
  <2>11. \A u, v \in Threads : w2[u] # NULL /\ w2[v] = w2[u] =>
          /\ p[u] = p[v] => u = v
          /\ p[u] < p[v] => n2[u] # NULL /\ p[n2[u]] <= p[v]
    <3> SUFFICES ASSUME NEW u \in Threads, NEW v \in Threads, w2[u] # NULL,
                        w2[v] = w2[u]
                 PROVE  /\ p[u] = p[v] => u = v
                        /\ p[u] < p[v] => n2[u] # NULL /\ p[n2[u]] <= p[v]
      OBVIOUS
    <3>1. u # t /\ v # t /\ w[v] = w[u] /\ w[u] # NULL BY <2>2
    <3>2. /\ p[u] = p[v] => u = v
          /\ p[u] < p[v] => n[u] # NULL /\ p[n[u]] <= p[v]
      BY <3>1 DEF Lists
    <3>3. ASSUME u = b, p[u] < p[v] PROVE n[t] # NULL /\ p[n[t]] <= p[v]
      <4>1. p[t] <= p[v] /\ p[t] # p[v]
        BY <1>1, <2>1, <3>1, <3>2, <3>3 DEF Lists
      <4> QED BY <1>1, <2>1, <3>1, <3>3, <4>1 DEF Lists
    <3> QED BY <2>2, <3>1, <3>2, <3>3
  <2> QED BY <2>7, <2>8, <2>10, <2>11 DEF Lists
<1> QED BY <1>2, <1>3

----------------------------------------------------------------------------
(* The path of pointers from the front of a queue.                         *)

\* Every non-empty set of natural numbers has a least one.
LEMMA LeastNatural ==
  ASSUME NEW S, S \subseteq Nat, S # {}
  PROVE  \E m \in S : \A k \in S : m <= k
<1> DEFINE less == OpToRel(<, Nat)
<1>1. IsWellFoundedOn(less, Nat) BY NatLessThanWellFounded
<1>2. \A i, j \in Nat : <<i, j>> \in less <=> i < j BY DEF OpToRel
<1> HIDE DEF less
<1>3. PICK m \in S : \A k \in S : ~ (<<k, m>> \in less)
  <2>1. S \subseteq Nat /\ S # {} OBVIOUS
  <2> QED BY <1>1, <2>1, WFMin
<1>4. \A k \in S : ~ (k < m)
  <2>1. \A k \in S : k \in Nat OBVIOUS
  <2>2. m \in Nat OBVIOUS
  <2> QED BY <1>2, <1>3, <2>1, <2>2, Zenon
<1>5. \A k \in S : k \in Nat OBVIOUS
<1> QED BY <1>4, <1>5

\* Induction over a set, which needs no operator.
LEMMA SetInduction ==
  ASSUME NEW S, 0 \in S, \A n \in Nat : n \in S => n + 1 \in S
  PROVE  \A n \in Nat : n \in S
<1> DEFINE out == Nat \ S
<1> SUFFICES ASSUME out # {} PROVE FALSE OBVIOUS
<1>1. PICK m \in out : \A k \in out : m <= k BY LeastNatural, Zenon
<1>2. m \in Nat /\ m # 0 /\ m - 1 \in Nat /\ m - 1 + 1 = m OBVIOUS
<1> QED BY <1>1, <1>2

\* A sequence of elements of T follows s from a.
Iterates(T, a, s) ==
  \E f \in [Nat -> T] : f[0] = a /\ \A k \in Nat : f[k + 1] = s[f[k]]

LEMMA Recursion ==
  ASSUME NEW T, NEW a, NEW s, a \in T, s \in [T -> T]
  PROVE  Iterates(T, a, s)
<1> DEFINE Upto(g, n) == g[0] = a /\ \A k \in Nat : k < n => g[k + 1] = s[g[k]]
<1> DEFINE S == {n \in Nat : \E g \in [Nat -> T] : Upto(g, n)}
<1>1. \A n \in Nat : n \in S
  <2>1. 0 \in S
    <3>1. [k \in Nat |-> a] \in [Nat -> T] /\ Upto([k \in Nat |-> a], 0) OBVIOUS
    <3> QED BY <3>1
  <2>2. ASSUME NEW n \in Nat, n \in S PROVE n + 1 \in S
    <3>1. PICK g \in [Nat -> T] : Upto(g, n) BY <2>2
    <3> DEFINE g2 == [g EXCEPT ![n + 1] = s[g[n]]]
    <3>2. g2 \in [Nat -> T] OBVIOUS
    <3>3. g2[0] = a BY <3>1
    <3>4. \A k \in Nat : k < n + 1 => g2[k + 1] = s[g2[k]] BY <3>1
    <3> HIDE DEF g2
    <3>5. Upto(g2, n + 1) BY <3>3, <3>4
    <3> HIDE DEF Upto
    <3> QED BY <3>2, <3>5
  <2> HIDE DEF S
  <2> QED BY <2>1, <2>2, SetInduction
<1>2. \A n, m \in Nat, g, h \in [Nat -> T] :
        Upto(g, n) /\ Upto(h, m) /\ n <= m => g[n] = h[n]
  <2> TAKE n, m \in Nat, g, h \in [Nat -> T]
  <2> HAVE Upto(g, n) /\ Upto(h, m) /\ n <= m
  <2> DEFINE E == {k \in Nat : k <= n => g[k] = h[k]}
  <2>1. 0 \in E OBVIOUS
  <2>2. ASSUME NEW k \in Nat, k \in E PROVE k + 1 \in E BY <2>2
  <2> HIDE DEF E
  <2>3. \A k \in Nat : k \in E BY <2>1, <2>2, SetInduction
  <2> QED BY <2>3 DEF E
<1> DEFINE G(n) == CHOOSE g \in [Nat -> T] : Upto(g, n)
<1>3. \A n \in Nat : G(n) \in [Nat -> T] /\ Upto(G(n), n) BY <1>1
<1> DEFINE f == [n \in Nat |-> G(n)[n]]
<1> HIDE DEF G
<1>4. f \in [Nat -> T] BY <1>3
<1>5. f[0] = a BY <1>3
<1>6. \A k \in Nat : f[k + 1] = s[f[k]]
  <2> SUFFICES ASSUME NEW k \in Nat PROVE f[k + 1] = s[f[k]] OBVIOUS
  <2>1. G(k + 1)[k + 1] = s[G(k + 1)[k]]
    <3>1. Upto(G(k + 1), k + 1) BY <1>3
    <3> QED BY <3>1
  <2>2. G(k)[k] = G(k + 1)[k]
    <3>1. /\ G(k) \in [Nat -> T] /\ Upto(G(k), k)
          /\ G(k + 1) \in [Nat -> T] /\ Upto(G(k + 1), k + 1)
      BY <1>3
    <3> HIDE DEF Upto
    <3> QED BY <1>2, <3>1
  <2> QED BY <2>1, <2>2
<1> QED BY <1>4, <1>5, <1>6 DEF Iterates

\* P[k][t] has the first k threads from t on, following nx.
PathsOf(P, nx) ==
  /\ \A k \in Nat : P[k] \in [ThreadOrNull -> Seq(Threads)]
  /\ \A t \in ThreadOrNull : P[0][t] = <<>>
  /\ \A k \in Nat, t \in ThreadOrNull :
       P[k + 1][t] = IF t = NULL THEN <<>> ELSE <<t>> \o P[k][nx[t]]

\* P satisfies the recursive equation of Path.
Unrolls(P, nx) ==
  P = [k \in Nat |-> [t \in ThreadOrNull |->
         IF k = 0 \/ t = NULL THEN <<>> ELSE <<t>> \o P[k - 1][nx[t]]]]

\* The paths that are one thread longer than those of g.
Longer(g, nx) ==
  [t \in ThreadOrNull |-> IF t = NULL THEN <<>> ELSE <<t>> \o g[nx[t]]]

LEMMA LongerType ==
  ASSUME NEW nx \in [Threads -> ThreadOrNull], NEW g \in [ThreadOrNull -> Seq(Threads)]
  PROVE  Longer(g, nx) \in [ThreadOrNull -> Seq(Threads)]
<1> SUFFICES ASSUME NEW t \in ThreadOrNull, t # NULL
             PROVE  <<t>> \o g[nx[t]] \in Seq(Threads)
  BY DEF Longer
<1>1. t \in Threads /\ nx[t] \in ThreadOrNull BY DEF ThreadOrNull
<1>2. <<t>> \in Seq(Threads) /\ g[nx[t]] \in Seq(Threads) BY <1>1
<1> QED BY <1>2

LEMMA UnrolledExists ==
  ASSUME NEW nx \in [Threads -> ThreadOrNull]
  PROVE  \E f : Unrolls(f, nx)
<1> DEFINE T == [ThreadOrNull -> Seq(Threads)]
<1> DEFINE a == [t \in ThreadOrNull |-> <<>>]
<1> DEFINE s == [g \in T |-> Longer(g, nx)]
<1>1. a \in T OBVIOUS
<1>2. \A g \in T : Longer(g, nx) \in T BY LongerType
<1>3. s \in [T -> T] BY <1>2
<1> HIDE DEF T, s, a
<1>4. PICK f \in [Nat -> T] : f[0] = a /\ \A k \in Nat : f[k + 1] = s[f[k]]
  <2>1. Iterates(T, a, s) BY <1>1, <1>3, Recursion
  <2> QED BY <2>1 DEF Iterates
<1>5. \A k \in Nat : f[k] \in T /\ f[k + 1] = Longer(f[k], nx) BY <1>4 DEF s
<1> DEFINE B(k) == [t \in ThreadOrNull |-> IF k = 0 \/ t = NULL THEN <<>>
                                           ELSE <<t>> \o f[k - 1][nx[t]]]
<1>6. \A k \in Nat : f[k] = B(k)
  <2> SUFFICES ASSUME NEW k \in Nat PROVE f[k] = B(k) OBVIOUS
  <2>1. CASE k = 0 BY <1>4, <2>1 DEF a
  <2>2. CASE k # 0
    <3>1. k - 1 \in Nat /\ k - 1 + 1 = k BY <2>2
    <3>2. f[k] = Longer(f[k - 1], nx) BY <1>5, <3>1
    <3> QED BY <2>2, <3>2 DEF Longer
  <2> QED BY <2>1, <2>2
<1>7. f = [k \in Nat |-> B(k)]
  <2> HIDE DEF B
  <2> QED BY <1>4, <1>6
<1>8. Unrolls(f, nx) BY <1>7 DEF Unrolls
<1> QED BY <1>8

LEMMA UnrolledPaths ==
  ASSUME NEW nx \in [Threads -> ThreadOrNull], NEW P, Unrolls(P, nx)
  PROVE  PathsOf(P, nx)
<1> DEFINE T == [ThreadOrNull -> Seq(Threads)]
<1> DEFINE B(k) == [t \in ThreadOrNull |-> IF k = 0 \/ t = NULL THEN <<>>
                                           ELSE <<t>> \o P[k - 1][nx[t]]]
<1>1. P = [k \in Nat |-> B(k)] BY DEF Unrolls
<1>2. \A k \in Nat : P[k] = B(k)
  <2> HIDE DEF B
  <2> QED BY <1>1
<1>3. P[0] = [t \in ThreadOrNull |-> <<>>]
  <2>1. P[0] = B(0) BY <1>2
  <2> QED BY <2>1
<1>4. \A k \in Nat : P[k + 1] = Longer(P[k], nx)
  <2> SUFFICES ASSUME NEW k \in Nat PROVE P[k + 1] = Longer(P[k], nx) OBVIOUS
  <2> DEFINE m == k + 1
  <2>1. m \in Nat /\ m # 0 /\ m - 1 = k OBVIOUS
  <2> HIDE DEF m
  <2>2. B(m) = Longer(P[m - 1], nx) BY <2>1 DEF Longer
  <2>3. P[m] = Longer(P[k], nx) BY <1>2, <2>1, <2>2
  <2> QED BY <2>3 DEF m
<1> HIDE DEF B
<1>5. \A k \in Nat : P[k] \in T
  <2> DEFINE E == {k \in Nat : P[k] \in T}
  <2>1. 0 \in E
    <3>1. P[0] \in T BY <1>3
    <3> HIDE DEF T
    <3> QED BY <3>1
  <2>2. ASSUME NEW k \in Nat, k \in E PROVE k + 1 \in E
    <3>1. P[k + 1] = Longer(P[k], nx) /\ P[k] \in T BY <1>4, <2>2
    <3> HIDE DEF T
    <3>2. P[k + 1] \in T BY <3>1, LongerType DEF T
    <3> QED BY <3>2
  <2> HIDE DEF E
  <2>3. \A k \in Nat : k \in E BY <2>1, <2>2, SetInduction
  <2> QED BY <2>3 DEF E
<1>6. \A t \in ThreadOrNull : P[0][t] = <<>> BY <1>3
<1>7. \A k \in Nat, t \in ThreadOrNull :
        P[k + 1][t] = IF t = NULL THEN <<>> ELSE <<t>> \o P[k][nx[t]]
  <2> SUFFICES ASSUME NEW k \in Nat, NEW t \in ThreadOrNull
               PROVE  P[k + 1][t] = IF t = NULL THEN <<>> ELSE <<t>> \o P[k][nx[t]]
    OBVIOUS
  <2>1. P[k + 1] = Longer(P[k], nx) BY <1>4
  <2>2. Longer(P[k], nx)[t] = IF t = NULL THEN <<>> ELSE <<t>> \o P[k][nx[t]]
    BY DEF Longer
  <2> QED BY <2>1, <2>2
<1> QED BY <1>5, <1>6, <1>7 DEF PathsOf

\* Path as its defining equations give it, in a state and in the next one.
LEMMA PathIs ==
  ASSUME next \in [Threads -> ThreadOrNull]
  PROVE  PathsOf(Path, next)
<1>1. Path = CHOOSE h : Unrolls(h, next) BY DEF Path, Unrolls
<1>2. Unrolls(Path, next) BY <1>1, UnrolledExists
<1> QED BY <1>2, UnrolledPaths

LEMMA PathNext ==
  ASSUME next' \in [Threads -> ThreadOrNull]
  PROVE  PathsOf(Path', next')
<1>1. Path' = CHOOSE h : Unrolls(h, next') BY DEF Path, Unrolls
<1>2. Unrolls(Path', next') BY <1>1, UnrolledExists
<1> QED BY <1>2, UnrolledPaths

\* c has the threads from t to the end, following nx.
IsPath(c, t, nx) ==
  /\ c \in Seq(Threads) /\ (c = <<>> <=> t = NULL) /\ (c # <<>> => c[1] = t)
  /\ \A i \in 1 .. Len(c) : nx[c[i]] = IF i = Len(c) THEN NULL ELSE c[i + 1]

LEMMA OnePath ==
  ASSUME NEW nx \in [Threads -> ThreadOrNull], NEW P, PathsOf(P, nx),
         NEW t \in ThreadOrNull, NEW c, IsPath(c, t, nx), NEW k \in Nat, Len(c) <= k
  PROVE  P[k][t] = c
<1> DEFINE E == {j \in Nat : \A x \in ThreadOrNull, d \in Seq(Threads) :
                   IsPath(d, x, nx) /\ Len(d) <= j => P[j][x] = d}
<1>1. 0 \in E BY DEF PathsOf
<1>2. ASSUME NEW j \in Nat, j \in E PROVE j + 1 \in E
  <2> SUFFICES ASSUME NEW x \in ThreadOrNull, NEW d \in Seq(Threads),
                      IsPath(d, x, nx), Len(d) <= j + 1
               PROVE  P[j + 1][x] = d
    OBVIOUS
  <2>1. CASE x = NULL BY <2>1 DEF IsPath, PathsOf
  <2>2. CASE x # NULL
    <3>1. d # <<>> /\ d[1] = x /\ Len(d) \in Nat /\ Len(d) >= 1 BY <2>2 DEF IsPath
    <3> DEFINE e == Tail(d)
    <3>2. /\ e \in Seq(Threads) /\ Len(e) = Len(d) - 1
          /\ \A i \in 1 .. Len(e) : e[i] = d[i + 1]
      BY <3>1
    <3>3. d = <<x>> \o e BY <3>1
    <3>4. nx[x] = IF Len(d) = 1 THEN NULL ELSE d[2]
      <4>1. 1 \in 1 .. Len(d) /\ 1 + 1 = 2 BY <3>1
      <4>2. nx[d[1]] = IF 1 = Len(d) THEN NULL ELSE d[1 + 1] BY <4>1 DEF IsPath
      <4> QED BY <3>1, <4>1, <4>2
    <3>5. x \in Threads /\ nx[x] \in ThreadOrNull BY <2>2 DEF ThreadOrNull
    <3>6. \A i \in 1 .. Len(e) : nx[e[i]] = IF i = Len(e) THEN NULL ELSE e[i + 1]
      <4> SUFFICES ASSUME NEW i \in 1 .. Len(e)
                   PROVE  nx[e[i]] = IF i = Len(e) THEN NULL ELSE e[i + 1]
        OBVIOUS
      <4>1. i + 1 \in 1 .. Len(d) /\ e[i] = d[i + 1] BY <3>1, <3>2
      <4>2. nx[d[i + 1]] = IF i + 1 = Len(d) THEN NULL ELSE d[i + 2] BY <4>1 DEF IsPath
      <4>3. i # Len(e) => i + 1 \in 1 .. Len(e) /\ i + 2 = i + 1 + 1
                          /\ e[i + 1] = d[i + 1 + 1]
        <5> HIDE DEF e
        <5> QED BY <3>1, <3>2
      <4> HIDE DEF e
      <4> QED BY <3>1, <3>2, <4>1, <4>2, <4>3
    <3> HIDE DEF e
    <3>7. e = <<>> <=> nx[x] = NULL
      <4>0. \A m \in Nat : m >= 1 /\ m # 1 => 2 \in 1 .. m OBVIOUS
      <4>1. Len(d) # 1 => 2 \in 1 .. Len(d) BY <3>1, <4>0
      <4>2. \A i \in 1 .. Len(d) : d[i] \in Threads OBVIOUS
      <4>3. Len(d) # 1 => d[2] \in Threads /\ d[2] # NULL BY <4>1, <4>2, ThreadAssumption
      <4>4. e = <<>> <=> Len(e) = 0 BY <3>2
      <4> QED BY <3>1, <3>2, <3>4, <4>3, <4>4
    <3>8. e # <<>> => e[1] = nx[x] BY <3>1, <3>2, <3>4
    <3>9. IsPath(e, nx[x], nx) BY <3>2, <3>6, <3>7, <3>8 DEF IsPath
    <3>10. P[j][nx[x]] = e BY <1>2, <3>1, <3>2, <3>5, <3>9
    <3> QED BY <2>2, <3>3, <3>10 DEF PathsOf
  <2> QED BY <2>1, <2>2
<1> HIDE DEF E
<1>3. \A j \in Nat : j \in E BY <1>1, <1>2, SetInduction
<1> QED BY <1>3 DEF E, IsPath

\* The lists of f, r and n are those of the pointers front and next.
Follows(f, r, n, w, p) ==
  /\ Typing(f, r, n, w, p) /\ Lists(f, r, n, w, p) /\ f = front
  /\ next \in [Threads -> ThreadOrNull]
  /\ \A t \in Threads : w[t] # NULL => next[t] = n[t]

\* What Chain follows is the list: the threads whose queue is q, in order.
LEMMA ChainIs ==
  ASSUME NEW f, NEW r, NEW n, NEW w, NEW p, Follows(f, r, n, w, p),
         NEW q \in Queues
  PROVE  /\ Chain(q) \in Seq(Threads) /\ Len(Chain(q)) <= Cardinality(Threads)
         /\ IsPath(Chain(q), f[q], next)
         /\ \A i, j \in 1 .. Len(Chain(q)) : i < j => p[Chain(q)[i]] < p[Chain(q)[j]]
         /\ r[q] = IF Chain(q) = <<>> THEN NULL ELSE Chain(q)[Len(Chain(q))]
         /\ \A t \in Threads : In(t, q) <=> w[t] = q
<1> DEFINE N == Cardinality(Threads)
<1>1. N \in Nat BY FiniteThreads, FS_CardinalityType
<1> DEFINE s == [t \in ThreadOrNull |-> IF t = NULL THEN NULL ELSE next[t]]
<1>0. s \in [ThreadOrNull -> ThreadOrNull] /\ f[q] \in ThreadOrNull
  BY DEF Follows, Typing, ThreadOrNull
<1>3. \A t \in ThreadOrNull : s[t] = IF t = NULL THEN NULL ELSE next[t] OBVIOUS
<1> HIDE DEF s
<1>2. PICK l \in [Nat -> ThreadOrNull] :
        /\ l[0] = f[q]
        /\ \A k \in Nat : l[k + 1] = IF l[k] = NULL THEN NULL ELSE next[l[k]]
  <2>1. Iterates(ThreadOrNull, f[q], s) BY <1>0, Recursion
  <2> QED BY <1>3, <2>1 DEF Iterates
<1> HIDE DEF N
<1>4. /\ Typing(f, r, n, w, p) /\ Lists(f, r, n, w, p)
      /\ \A t \in Threads : w[t] # NULL => next[t] = n[t]
      /\ q # NULL /\ NULL \notin Threads
  BY ThreadAssumption DEF Follows
<1>5. \A k \in Nat : l[k] # NULL => l[k] \in Threads /\ w[l[k]] = q
  <2> DEFINE E == {k \in Nat : l[k] # NULL => l[k] \in Threads /\ w[l[k]] = q}
  <2>1. 0 \in E BY <1>2, <1>4 DEF Lists, Typing, ThreadOrNull
  <2>2. ASSUME NEW k \in Nat, k \in E PROVE k + 1 \in E
    <3>1. CASE l[k] = NULL BY <1>2, <3>1
    <3>2. CASE l[k] # NULL
      <4>1. l[k] \in Threads /\ w[l[k]] = q BY <2>2, <3>2
      <4>2. l[k + 1] = n[l[k]] BY <1>2, <1>4, <3>2, <4>1
      <4>3. n[l[k]] # NULL => n[l[k]] \in Threads /\ w[n[l[k]]] = q
        BY <1>4, <4>1 DEF Lists, Typing, ThreadOrNull
      <4> QED BY <4>2, <4>3
    <3> QED BY <3>1, <3>2
  <2> HIDE DEF E
  <2>3. \A k \in Nat : k \in E BY <2>1, <2>2, SetInduction
  <2> QED BY <2>3 DEF E
<1>6. \A k \in Nat : l[k] # NULL => l[k + 1] = n[l[k]] BY <1>2, <1>4, <1>5
<1>7. \A j \in Nat : l[j] # NULL =>
        \A i \in Nat : i < j => l[i] # NULL /\ p[l[i]] < p[l[j]]
  <2> DEFINE E == {j \in Nat : l[j] # NULL =>
                     \A i \in Nat : i < j => l[i] # NULL /\ p[l[i]] < p[l[j]]}
  <2>1. 0 \in E OBVIOUS
  <2>2. ASSUME NEW j \in Nat, j \in E PROVE j + 1 \in E
    <3> SUFFICES ASSUME l[j + 1] # NULL, NEW i \in Nat, i < j + 1
                 PROVE  l[i] # NULL /\ p[l[i]] < p[l[j + 1]]
      OBVIOUS
    <3>1. l[j] # NULL BY <1>2
    <3>2. p[l[j]] < p[l[j + 1]] BY <1>4, <1>5, <1>6, <3>1 DEF Lists
    <3>3. i # j => l[i] # NULL /\ p[l[i]] < p[l[j]] BY <2>2, <3>1
    <3>4. i # j => p[l[i]] \in Nat BY <1>4, <1>5, <3>3 DEF Typing
    <3>5. p[l[j]] \in Nat /\ p[l[j + 1]] \in Nat BY <1>4, <1>5, <3>1 DEF Typing
    <3> QED BY <3>1, <3>2, <3>3, <3>4, <3>5
  <2> HIDE DEF E
  <2>3. \A k \in Nat : k \in E BY <2>1, <2>2, SetInduction
  <2> QED BY <2>3 DEF E
<1>8. PICK k0 \in Nat : /\ k0 <= N /\ l[k0] = NULL
                        /\ \A k \in Nat : k < k0 => l[k] # NULL
  <2> DEFINE Z == {k \in 0 .. N : l[k] = NULL}
  <2>1. Z # {}
    <3> SUFFICES ASSUME Z = {} PROVE FALSE OBVIOUS
    <3> DEFINE g == [k \in 0 .. N |-> l[k]]
    <3>1. \A k \in 0 .. N : l[k] \in Threads BY <1>1, <1>5
    <3>2. \A i, j \in 0 .. N : l[i] = l[j] => i = j
      <4> SUFFICES ASSUME NEW i \in 0 .. N, NEW j \in 0 .. N, i < j
                   PROVE  l[i] # l[j]
        BY <1>1
      <4>1. i \in Nat /\ j \in Nat /\ l[j] # NULL /\ l[i] \in Threads
        BY <1>1, <3>1
      <4>2. p[l[i]] < p[l[j]] /\ p[l[i]] \in Nat BY <1>4, <1>7, <4>1 DEF Typing
      <4> QED BY <4>2
    <3>3. g \in Injection(0 .. N, Threads)
      BY <3>1, <3>2 DEF Injection, IsInjective
    <3>4. Cardinality(0 .. N) <= N
      BY <3>3, FiniteThreads, FS_Injection DEF N
    <3>5. Cardinality(0 .. N) = N + 1 BY <1>1, FS_Interval
    <3> QED BY <1>1, <3>4, <3>5
  <2>2. Z \subseteq Nat BY <1>1
  <2>3. PICK k0 \in Z : \A k \in Z : k0 <= k BY <2>1, <2>2, LeastNatural
  <2>4. \A k \in Nat : k < k0 => l[k] # NULL BY <1>1, <2>3
  <2> QED BY <1>1, <2>4
<1>9. N + 1 \in Nat /\ N + 1 = TooMany BY <1>1 DEF N, TooMany
<1> DEFINE c == [i \in 1 .. k0 |-> l[i - 1]]
<1>10. c \in Seq(Threads) /\ Len(c) = k0
  <2>1. \A i \in 1 .. k0 : l[i - 1] \in Threads BY <1>5, <1>8
  <2> QED BY <2>1
<1>11. IsPath(c, f[q], next)
  <2>1. c = <<>> <=> f[q] = NULL
    <3>1. k0 = 0 <=> l[0] = NULL BY <1>8
    <3>2. c = <<>> <=> k0 = 0
      <4> HIDE DEF c
      <4> QED BY <1>10
    <3> QED BY <1>2, <3>1, <3>2
  <2>2. c # <<>> => c[1] = f[q] BY <1>2, <1>8, <1>10
  <2>3. \A i \in 1 .. Len(c) : next[c[i]] = IF i = Len(c) THEN NULL ELSE c[i + 1]
    <3> SUFFICES ASSUME NEW i \in 1 .. k0
                 PROVE  next[c[i]] = IF i = k0 THEN NULL ELSE c[i + 1]
      BY <1>10
    <3>1. i - 1 \in Nat /\ i - 1 + 1 = i /\ i - 1 < k0 BY <1>8
    <3>2. l[i] = next[l[i - 1]] BY <1>2, <1>8, <3>1
    <3>3. c[i] = l[i - 1] OBVIOUS
    <3>4. i # k0 => i + 1 \in 1 .. k0 /\ i + 1 - 1 = i BY <1>8
    <3>5. i # k0 => c[i + 1] = l[i] BY <3>4
    <3> QED BY <1>8, <3>2, <3>3, <3>5
  <2> HIDE DEF c
  <2> QED BY <1>10, <2>1, <2>2, <2>3 DEF IsPath
<1>12. Chain(q) = c
  <2>1. PathsOf(Path, next) BY PathIs DEF Follows
  <2>2. next \in [Threads -> ThreadOrNull] /\ f = front BY DEF Follows
  <2> HIDE DEF c
  <2>3. Path[TooMany][f[q]] = c BY <1>0, <1>1, <1>8, <1>9, <1>10, <1>11, <2>1, <2>2, OnePath
  <2> QED BY <2>2, <2>3 DEF Chain
<1>13. \A t \in Threads : w[t] = q => \E k \in 0 .. k0 - 1 : l[k] = t
  <2> SUFFICES ASSUME NEW t \in Threads, w[t] = q,
                      \A k \in Nat : k < k0 => l[k] # t
               PROVE  FALSE
    BY <1>8
  <2> DEFINE E == {k \in Nat : k <= k0 => l[k] # NULL /\ p[l[k]] <= p[t]}
  <2>1. 0 \in E BY <1>2, <1>4 DEF Lists
  <2>2. ASSUME NEW k \in Nat, k \in E PROVE k + 1 \in E
    <3> SUFFICES ASSUME k + 1 <= k0 PROVE l[k + 1] # NULL /\ p[l[k + 1]] <= p[t]
      OBVIOUS
    <3>1. /\ l[k] # NULL /\ p[l[k]] <= p[t] /\ l[k] # t
          /\ l[k] \in Threads /\ w[l[k]] = q
      BY <1>5, <1>8, <2>2
    <3>2. p[l[k]] \in Nat /\ p[t] \in Nat /\ p[l[k]] # p[t]
      BY <1>4, <3>1 DEF Lists, Typing
    <3>3. n[l[k]] # NULL /\ p[n[l[k]]] <= p[t] BY <1>4, <3>1, <3>2 DEF Lists
    <3> QED BY <1>6, <3>1, <3>3
  <2> HIDE DEF E
  <2>3. \A k \in Nat : k \in E BY <2>1, <2>2, SetInduction
  <2>4. k0 \in E BY <1>8, <2>3
  <2> QED BY <1>8, <2>4 DEF E
<1>14. \A t \in Threads : In(t, q) <=> w[t] = q
  <2> SUFFICES ASSUME NEW t \in Threads PROVE In(t, q) <=> w[t] = q OBVIOUS
  <2>1. In(t, q) <=> \E i \in 1 .. k0 : l[i - 1] = t BY <1>8, <1>10, <1>12 DEF In
  <2>2. In(t, q) => w[t] = q BY <1>4, <1>5, <1>8, <2>1
  <2>3. ASSUME w[t] = q PROVE In(t, q)
    <3>1. PICK k \in 0 .. k0 - 1 : l[k] = t BY <1>13, <2>3
    <3>2. k + 1 \in 1 .. k0 /\ k + 1 - 1 = k BY <1>8
    <3> QED BY <2>1, <3>1, <3>2
  <2> QED BY <2>2, <2>3
<1>15. r[q] = IF Chain(q) = <<>> THEN NULL ELSE Chain(q)[Len(Chain(q))]
  <2>1. CASE k0 = 0
    <3>1. Chain(q) = <<>> BY <1>10, <1>12, <2>1
    <3>2. r[q] = NULL BY <1>2, <1>4, <1>8, <2>1 DEF Lists
    <3> QED BY <3>1, <3>2
  <2>2. CASE k0 # 0
    <3>1. Chain(q) # <<>> BY <1>10, <1>12, <2>2
    <3>2. f[q] # NULL BY <1>2, <1>8, <2>2
    <3>3. r[q] \in Threads /\ w[r[q]] = q /\ n[r[q]] = NULL
      BY <1>4, <3>2 DEF Lists, Typing, ThreadOrNull
    <3>4. PICK k \in 0 .. k0 - 1 : l[k] = r[q] BY <1>13, <3>3
    <3>5. k \in Nat /\ k + 1 \in Nat /\ l[k] # NULL BY <1>8, <3>4
    <3>6. l[k + 1] = NULL BY <1>6, <3>3, <3>4, <3>5
    <3>7. k + 1 = k0 BY <1>8, <3>4, <3>5, <3>6
    <3>8. Chain(q)[Len(Chain(q))] = l[k0 - 1] BY <1>8, <1>10, <1>12, <2>2
    <3> QED BY <1>8, <3>1, <3>4, <3>5, <3>7, <3>8
  <2> QED BY <2>1, <2>2
<1>16. \A i, j \in 1 .. Len(Chain(q)) : i < j => p[Chain(q)[i]] < p[Chain(q)[j]]
  <2> SUFFICES ASSUME NEW i \in 1 .. k0, NEW j \in 1 .. k0, i < j
               PROVE  p[c[i]] < p[c[j]]
    BY <1>10, <1>12
  <2>1. i - 1 \in Nat /\ j - 1 \in Nat /\ i - 1 < j - 1 /\ j - 1 < k0 BY <1>8
  <2> QED BY <1>7, <1>8, <2>1
<1> HIDE DEF c
<1> QED BY <1>8, <1>10, <1>11, <1>12, <1>14, <1>15, <1>16 DEF N
=============================================================================
