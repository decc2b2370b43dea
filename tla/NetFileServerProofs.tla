------------------------ MODULE NetFileServerProofs ------------------------
(* The invariants of NetFileServerProps, for any number of connections, any   *)
(* requests and tables of any size.                                           *)
EXTENDS NetFileServerProps, TLAPS

\* Connections are no free mutex.
LEMMA ConnIsNotNoOwner ==
  /\ NoOwner \notin Conns /\ NoOwner # 0 /\ NoOwner \notin Requests
  /\ 0 \notin Conns
BY SizesAssumption, NoOwnerAssumption DEF Conns

\* A worker moves alone.
LEMMA Moves ==
  ASSUME Inv, NEW w \in Conns, NEW l \in Labels, Goto(w, l)
  PROVE  /\ pc' \in [Conns -> Labels]
         /\ pc'[w] = l
         /\ \A v \in Conns : v # w => pc'[v] = pc[v]
BY DEF Goto, Inv, TypeOK

LEMMA FreeExcludes ==
  ASSUME NEW r
  PROVE  /\ Excludes(FreeEntry, r) <=> r.fMode = "TRANSACTION"
         /\ FreeEntry.filePath = ""
BY DEF Excludes, FreeEntry, Writing

\* The fields of a free entry, and of one of which only the descriptor is stored.
LEMMA FreeFields ==
  /\ FreeEntry.localFD = 0 /\ FreeEntry.netFD = 0 /\ FreeEntry.fMode = "INVALID_FILE"
  /\ FreeEntry.fileFlags = "O_RDONLY" /\ FreeEntry.filePath = ""
  /\ ~Writing(FreeEntry.fileFlags) /\ FreeEntry \in Entries
<1>1. /\ FreeEntry.localFD = 0 /\ FreeEntry.netFD = 0 /\ FreeEntry.fMode = "INVALID_FILE"
      /\ FreeEntry.fileFlags = "O_RDONLY" /\ FreeEntry.filePath = ""
  BY DEF FreeEntry
<1>2. ~Writing(FreeEntry.fileFlags)
  BY <1>1 DEF Writing
<1>3. FreeEntry \in Entries
  <2> DEFINE N == Garbage \cup {0} \cup {NetFD(i) : i \in Slots}
             F == [localFD : Conns \cup {0}, netFD : N, fMode : OpenModes \cup {"INVALID_FILE"},
                   fileFlags : Flags, filePath : Paths]
  <2>1. 0 \in N
    OBVIOUS
  <2> HIDE DEF N
  <2>2. 0 \in Conns \cup {0} /\ "INVALID_FILE" \in OpenModes \cup {"INVALID_FILE"}
        /\ "O_RDONLY" \in Flags /\ "" \in Paths
    BY DEF Flags, Paths
  <2>3. FreeEntry \in F
    BY <2>1, <2>2 DEF FreeEntry
  <2>4. QED
    BY <2>3 DEF N, Entries
<1>4. QED
  BY <1>1, <1>2, <1>3

LEMMA FirstStore ==
  ASSUME NEW w \in Conns
  PROVE  [FreeEntry EXCEPT !.localFD = w] \in Entries
BY FreeFields DEF Entries

LEMMA MutexTypes ==
  ASSUME Inv
  PROVE  tableMutex \in Conns \cup {NoOwner} /\ queueMutex \in Conns \cup {NoOwner}
BY DEF Inv, TypeOK

\* Whoever has the table, and not filled an entry of it yet, finds it empty.
LEMMA TableFree ==
  ASSUME Inv, NEW w \in Conns, pc[w] \in HoldsTable \ {"fill"}
  PROVE  \A i \in Slots : FD_Table[i] = FreeEntry
BY DEF Inv, MutexesHeld, TableOK, UsedEntry, HoldsTable

\* And only an open without a name has to wait.
LEMMA OpensUnlessNoName ==
  ASSUME Inv, NEW w \in Conns, pc[w] \in HoldsTable \ {"fill"}, NEW r
  PROVE  canOpen(r) <=> ~NoName(r)
<1>1. \A i \in Slots : FD_Table[i] = FreeEntry
  BY TableFree
<1>2. 0 \in Slots
  BY SizesAssumption DEF Slots
<1>3. QED
  BY <1>1, <1>2, FreeExcludes DEF canOpen, NoName

LEMMA EmptyIn == ASSUME NEW S PROVE <<>> \in Seq(S)
OBVIOUS

LEMMA AppendIn ==
  ASSUME NEW S, NEW s \in Seq(S), NEW e \in S
  PROVE  Append(s, e) \in Seq(S)
OBVIOUS

LEMMA CallReadStep ==
  ASSUME Inv, NEW w \in Conns, CallRead(w)
  PROVE  Inv'
<1> USE ConnIsNotNoOwner DEF Inv, CallRead, At, sockets, locals, mutexes, tables
<1> DEFINE l == "read"
<1>0. l \in Labels /\ Goto(w, l)
  BY DEF Labels
<1>1. /\ pc' \in [Conns -> Labels]
      /\ pc'[w] = l
      /\ \A v \in Conns : v # w => pc'[v] = pc[v]
  BY <1>0, Moves
<1>2. TypeOK'
  BY <1>1 DEF TypeOK
<1>3. LocalsOK'
  BY <1>1 DEF LocalsOK, Opening, TypeOK
<1>4. MutexesHeld'
  BY <1>1, MutexTypes DEF MutexesHeld, QueueHolderRuns, HoldsTable, HoldsQueue
<1>5. TableOK'
  BY <1>1 DEF TableOK, UsedEntry, NoName, MutexesHeld, HoldsTable
<1>6. QueuesOK'
  BY <1>1 DEF QueuesOK, NoName, Waits, MonitorNeverStarts
<1>7. TransfersOK'
  BY <1>1 DEF TransfersOK
<1>8. QED
  BY <1>2, <1>3, <1>4, <1>5, <1>6, <1>7

LEMMA ReplyStep ==
  ASSUME Inv, NEW w \in Conns, Reply(w)
  PROVE  Inv'
<1> USE ConnIsNotNoOwner DEF Inv, Reply, At, sockets, locals, mutexes, tables
<1> DEFINE l == "done"
<1>0. l \in Labels /\ Goto(w, l)
  BY DEF Labels
<1>1. /\ pc' \in [Conns -> Labels]
      /\ pc'[w] = l
      /\ \A v \in Conns : v # w => pc'[v] = pc[v]
  BY <1>0, Moves
<1>2. TypeOK'
  <2>1. newsockfd \in Conns
    BY DEF LocalsOK
  <2>2. QED
    BY <1>1, <2>1 DEF TypeOK
<1>3. LocalsOK'
  BY <1>1 DEF LocalsOK, Opening
<1>4. MutexesHeld'
  BY <1>1, MutexTypes DEF MutexesHeld, QueueHolderRuns, HoldsTable, HoldsQueue
<1>5. TableOK'
  BY <1>1 DEF TableOK, UsedEntry, NoName, MutexesHeld, HoldsTable
<1>6. QueuesOK'
  BY <1>1 DEF QueuesOK, NoName, Waits, MonitorNeverStarts
<1>7. TransfersOK'
  BY <1>1 DEF TransfersOK
<1>8. QED
  BY <1>2, <1>3, <1>4, <1>5, <1>6, <1>7

LEMMA LockTableStep ==
  ASSUME Inv, NEW w \in Conns, LockTable(w)
  PROVE  Inv'
<1> USE ConnIsNotNoOwner DEF Inv, LockTable, At, sockets, locals, mutexes, tables
<1> DEFINE l == "check"
<1>0. l \in Labels /\ Goto(w, l)
  BY DEF Labels
<1>1. /\ pc' \in [Conns -> Labels]
      /\ pc'[w] = l
      /\ \A v \in Conns : v # w => pc'[v] = pc[v]
  BY <1>0, Moves
<1>2. TypeOK'
  BY <1>1 DEF TypeOK
<1>3. LocalsOK'
  BY <1>1 DEF LocalsOK, Opening
<1>4. MutexesHeld'
  BY <1>1, MutexTypes DEF MutexesHeld, QueueHolderRuns, HoldsTable, HoldsQueue
<1>5. TableOK'
  BY <1>1 DEF TableOK, UsedEntry, NoName, MutexesHeld, HoldsTable
<1>6. QueuesOK'
  BY <1>1 DEF QueuesOK, NoName, Waits, MonitorNeverStarts
<1>7. TransfersOK'
  BY <1>1 DEF TransfersOK
<1>8. QED
  BY <1>2, <1>3, <1>4, <1>5, <1>6, <1>7

LEMMA LockQueueStep ==
  ASSUME Inv, NEW w \in Conns, LockQueue(w)
  PROVE  Inv'
<1> USE ConnIsNotNoOwner DEF Inv, LockQueue, At, sockets, locals, mutexes, tables
<1> DEFINE l == "enqueue"
<1>0. l \in Labels /\ Goto(w, l)
  BY DEF Labels
<1>1. /\ pc' \in [Conns -> Labels]
      /\ pc'[w] = l
      /\ \A v \in Conns : v # w => pc'[v] = pc[v]
  BY <1>0, Moves
<1>2. TypeOK'
  BY <1>1 DEF TypeOK
<1>3. LocalsOK'
  BY <1>1 DEF LocalsOK, Opening
<1>4. MutexesHeld'
  BY <1>1, MutexTypes DEF MutexesHeld, QueueHolderRuns, HoldsTable, HoldsQueue
<1>5. TableOK'
  BY <1>1 DEF TableOK, UsedEntry, NoName, MutexesHeld, HoldsTable
<1>6. QueuesOK'
  BY <1>1 DEF QueuesOK, NoName, Waits, MonitorNeverStarts
<1>7. TransfersOK'
  BY <1>1 DEF TransfersOK
<1>8. QED
  BY <1>2, <1>3, <1>4, <1>5, <1>6, <1>7

LEMMA PollLocksStep ==
  ASSUME Inv, NEW w \in Conns, PollLocks(w)
  PROVE  Inv'
<1> USE ConnIsNotNoOwner DEF Inv, PollLocks, At, sockets, locals, mutexes, tables
<1> DEFINE l == IF pc[w] = "sleep" THEN "pollqueue" ELSE "poll"
<1>0. l \in Labels /\ Goto(w, l)
  BY DEF Labels
<1>1. /\ pc' \in [Conns -> Labels]
      /\ pc'[w] = l
      /\ \A v \in Conns : v # w => pc'[v] = pc[v]
  BY <1>0, Moves
<1>2. TypeOK'
  BY <1>1 DEF TypeOK
<1>3. LocalsOK'
  BY <1>1 DEF LocalsOK, Opening
<1>4. MutexesHeld'
  BY <1>1, MutexTypes DEF MutexesHeld, QueueHolderRuns, HoldsTable, HoldsQueue
<1>5. TableOK'
  BY <1>1 DEF TableOK, UsedEntry, NoName, MutexesHeld, HoldsTable
<1>6. QueuesOK'
  BY <1>1 DEF QueuesOK, NoName, Waits, MonitorNeverStarts
<1>7. TransfersOK'
  BY <1>1 DEF TransfersOK
<1>8. QED
  BY <1>2, <1>3, <1>4, <1>5, <1>6, <1>7

LEMMA StoreTimeStep ==
  ASSUME Inv, NEW w \in Conns, StoreTime(w)
  PROVE  Inv'
<1> USE ConnIsNotNoOwner DEF Inv, StoreTime, At, sockets, locals, mutexes, tables
<1> DEFINE l == "sleep"
<1>0. l \in Labels /\ Goto(w, l)
  BY DEF Labels
<1>1. /\ pc' \in [Conns -> Labels]
      /\ pc'[w] = l
      /\ \A v \in Conns : v # w => pc'[v] = pc[v]
  BY <1>0, Moves
<1>2. TypeOK'
  BY <1>1 DEF TypeOK
<1>3. LocalsOK'
  BY <1>1 DEF LocalsOK, Opening
<1>4. MutexesHeld'
  BY <1>1, MutexTypes DEF MutexesHeld, QueueHolderRuns, HoldsTable, HoldsQueue
<1>5. TableOK'
  BY <1>1 DEF TableOK, UsedEntry, NoName, MutexesHeld, HoldsTable
<1>6. QueuesOK'
  BY <1>1 DEF QueuesOK, NoName, Waits, MonitorNeverStarts
<1>7. TransfersOK'
  BY <1>1 DEF TransfersOK
<1>8. QED
  BY <1>2, <1>3, <1>4, <1>5, <1>6, <1>7

LEMMA LockToCloseStep ==
  ASSUME Inv, NEW w \in Conns, LockToClose(w)
  PROVE  Inv'
<1> USE ConnIsNotNoOwner DEF Inv, LockToClose, At, sockets, locals, mutexes, tables
<1> DEFINE l == IF pc[w] = "close" THEN "delete" ELSE "reply"
<1>0. l \in Labels /\ Goto(w, l)
  BY DEF Labels
<1>1. /\ pc' \in [Conns -> Labels]
      /\ pc'[w] = l
      /\ \A v \in Conns : v # w => pc'[v] = pc[v]
  BY <1>0, Moves
<1>2. TypeOK'
  BY <1>1 DEF TypeOK
<1>3. LocalsOK'
  BY <1>1 DEF LocalsOK, Opening
<1>4. MutexesHeld'
  BY <1>1, MutexTypes DEF MutexesHeld, QueueHolderRuns, HoldsTable, HoldsQueue
<1>5. TableOK'
  BY <1>1 DEF TableOK, UsedEntry, NoName, MutexesHeld, HoldsTable
<1>6. QueuesOK'
  BY <1>1 DEF QueuesOK, NoName, Waits, MonitorNeverStarts
<1>7. TransfersOK'
  BY <1>1 DEF TransfersOK
<1>8. QED
  BY <1>2, <1>3, <1>4, <1>5, <1>6, <1>7

LEMMA CheckFlagsStep ==
  ASSUME Inv, NEW w \in Conns, CheckFlags(w)
  PROVE  Inv'
<1> USE ConnIsNotNoOwner DEF Inv, CheckFlags, At, sockets, locals, mutexes, tables
<1> DEFINE l == IF Refused(w) THEN "reply" ELSE "transfer"
<1>0. l \in Labels /\ Goto(w, l)
  BY DEF Labels
<1>1. /\ pc' \in [Conns -> Labels]
      /\ pc'[w] = l
      /\ \A v \in Conns : v # w => pc'[v] = pc[v]
  BY <1>0, Moves
<1>2. TypeOK'
  BY <1>1 DEF TypeOK
<1>3. LocalsOK'
  BY <1>1 DEF LocalsOK, Opening
<1>4. MutexesHeld'
  BY <1>1, MutexTypes DEF MutexesHeld, QueueHolderRuns, HoldsTable, HoldsQueue
<1>5. TableOK'
  BY <1>1 DEF TableOK, UsedEntry, NoName, MutexesHeld, HoldsTable
<1>6. QueuesOK'
  BY <1>1 DEF QueuesOK, NoName, Waits, MonitorNeverStarts
<1>7. TransfersOK'
  <2>1. \A i \in Slots : FD_Table[i].fileFlags \in Flags
    BY DEF TypeOK, Entries
  <2>2. ~Refused(w) =>
          /\ Index(req[w].fd) \in Slots
          /\ req[w].func = "NET_WRITE" => Writing(FD_Table[Index(req[w].fd)].fileFlags)
    BY <2>1 DEF Refused, Writing, Flags
  <2>3. QED
    BY <1>1, <2>2 DEF TransfersOK
<1>8. QED
  BY <1>2, <1>3, <1>4, <1>5, <1>6, <1>7

LEMMA CheckCanOpenStep ==
  ASSUME Inv, NEW w \in Conns, CheckCanOpen(w)
  PROVE  Inv'
<1> USE ConnIsNotNoOwner DEF Inv, CheckCanOpen, At, sockets, locals, mutexes, tables
<1> DEFINE l == IF canOpen(newFd[w]) THEN "openfile" ELSE "queue"
<1>0. l \in Labels /\ Goto(w, l)
  BY DEF Labels
<1>1. /\ pc' \in [Conns -> Labels]
      /\ pc'[w] = l
      /\ \A v \in Conns : v # w => pc'[v] = pc[v]
  BY <1>0, Moves
<1>2. TypeOK'
  BY <1>1 DEF TypeOK
<1>3. LocalsOK'
  BY <1>1 DEF LocalsOK, Opening
<1>4. MutexesHeld'
  BY <1>1, MutexTypes DEF MutexesHeld, QueueHolderRuns, HoldsTable, HoldsQueue
<1>5. TableOK'
  BY <1>1 DEF TableOK, UsedEntry, NoName, MutexesHeld, HoldsTable
<1>6. QueuesOK'
  <2>1. canOpen(newFd[w]) <=> ~NoName(newFd[w])
    BY OpensUnlessNoName DEF HoldsTable
  <2>2. QED
    BY <1>1, <2>1 DEF QueuesOK, NoName, Waits, MonitorNeverStarts
<1>7. TransfersOK'
  BY <1>1 DEF TransfersOK
<1>8. QED
  BY <1>2, <1>3, <1>4, <1>5, <1>6, <1>7

LEMMA StopStep ==
  ASSUME Inv, Stop
  PROVE  Inv'
<1> USE DEF Inv, Stop, sockets, locals, mutexes, tables
<1>1. TypeOK'
  BY DEF TypeOK
<1>2. LocalsOK' /\ MutexesHeld'
  BY DEF LocalsOK, MutexesHeld, QueueHolderRuns
<1>3. TableOK' /\ QueuesOK'
  BY DEF TableOK, UsedEntry, NoName, QueuesOK, MonitorNeverStarts
<1>4. TransfersOK'
  BY DEF TransfersOK
<1>5. QED
  BY <1>1, <1>2, <1>3, <1>4

LEMMA AcceptStep ==
  ASSUME Inv, Accept
  PROVE  Inv'
<1> USE ConnIsNotNoOwner DEF Inv, Accept, sockets, locals, mutexes, tables
<1> DEFINE w == accepted + 1
<1>0. w \in Conns /\ pc[w] = "none"
  BY SizesAssumption DEF Conns, TypeOK, LocalsOK
<1>1. /\ pc' \in [Conns -> Labels]
      /\ pc'[w] = "start"
      /\ \A v \in Conns : v # w => pc'[v] = pc[v]
  BY <1>0, Moves DEF Labels
<1> HIDE DEF w
<1>2. TypeOK'
  <2>1. accepted' \in 0 .. MAX_CONNS
    BY SizesAssumption DEF TypeOK
  <2>2. inbox' \in [Conns -> Requests \cup {NoOwner}]
    BY DEF TypeOK
  <2>3. newsockfd' \in Conns
    BY <1>0 DEF w
  <2>4. QED
    BY <1>1, <2>1, <2>2, <2>3 DEF TypeOK
<1>3. LocalsOK'
  <2>1. \A v \in Conns : v > accepted' => v > accepted /\ v # w
    BY DEF w, Conns, TypeOK
  <2>2. QED
    BY <1>0, <1>1, <2>1 DEF LocalsOK, Opening, w
<1>4. MutexesHeld'
  BY <1>0, <1>1, MutexTypes DEF MutexesHeld, QueueHolderRuns, HoldsTable, HoldsQueue
<1>5. TableOK'
  BY <1>0, <1>1 DEF TableOK, UsedEntry, NoName, MutexesHeld, HoldsTable
<1>6. QueuesOK'
  BY <1>1 DEF QueuesOK, NoName, Waits, MonitorNeverStarts
<1>7. TransfersOK'
  BY <1>0, <1>1 DEF TransfersOK
<1>8. QED
  BY <1>2, <1>3, <1>4, <1>5, <1>6, <1>7

LEMMA OpenFileStep ==
  ASSUME Inv, NEW w \in Conns, OpenFile(w)
  PROVE  Inv'
<1> USE ConnIsNotNoOwner DEF Inv, At, sockets, locals, mutexes, tables
<1> USE DEF OpenFile
<1>0. /\ newFd' \in [Conns -> Entries \cup {NoOwner}]
      /\ \A v \in Conns : v # w => newFd'[v] = newFd[v]
      /\ newFd'[w] \in Entries /\ newFd'[w].netFD \in Garbage
      /\ NoName(newFd'[w]) <=> NoName(newFd[w])
  <2>a. newFd \in [Conns -> Entries \cup {NoOwner}]
    BY DEF TypeOK
  <2>b. newFd[w] \in Entries /\ newFd[w].netFD \in Garbage
    BY DEF LocalsOK, Opening
  <2>1. CASE newFd' = newFd
    BY <2>a, <2>b, <2>1
  <2>2. CASE newFd' = [newFd EXCEPT ![w].localFD = w]
    <3>1. newFd'[w] = [newFd[w] EXCEPT !.localFD = w]
      BY <2>a, <2>2
    <3>2. newFd'[w] \in Entries /\ newFd'[w].netFD = newFd[w].netFD
      BY <2>b, <3>1 DEF Entries
    <3>3. NoName(newFd'[w]) <=> NoName(newFd[w])
      BY <2>b, <3>1 DEF Entries, NoName
    <3>4. QED
      BY <2>a, <2>b, <2>2, <3>2, <3>3
  <2>3. QED
    BY <2>1, <2>2
<1>1. /\ pc' \in [Conns -> Labels]
      /\ \/ pc'[w] = "reply"
         \/ pc'[w] = "create" /\ newFd'[w].localFD = w
      /\ \A v \in Conns : v # w => pc'[v] = pc[v]
  <2>1. CASE newFd' = newFd /\ Goto(w, "reply")
    <3>1. "reply" \in Labels /\ Goto(w, "reply")
      BY <2>1 DEF Labels
    <3>2. /\ pc' \in [Conns -> Labels]
          /\ pc'[w] = "reply"
          /\ \A v \in Conns : v # w => pc'[v] = pc[v]
      BY <3>1, Moves
    <3>3. QED
      BY <3>2
  <2>2. CASE newFd' = [newFd EXCEPT ![w].localFD = w] /\ Goto(w, "create")
    <3>1. newFd'[w].localFD = w
      BY <2>2 DEF TypeOK, LocalsOK, Opening, Entries
    <3>2. QED
      BY <2>2, <3>1, Moves DEF Labels
  <2>3. QED
    BY <2>1, <2>2
<1>2. TypeOK'
  BY <1>0, <1>1 DEF TypeOK
<1>3. LocalsOK'
  BY <1>0, <1>1 DEF LocalsOK, Opening
<1>4. MutexesHeld'
  BY <1>1, MutexTypes DEF MutexesHeld, QueueHolderRuns, HoldsTable, HoldsQueue
<1>5. TableOK'
  BY <1>0, <1>1 DEF TableOK, UsedEntry, NoName, MutexesHeld, HoldsTable
<1>6. QueuesOK'
  BY <1>0, <1>1 DEF QueuesOK, Waits, MonitorNeverStarts
<1>7. TransfersOK'
  BY <1>0, <1>1 DEF TransfersOK
<1>8. QED
  BY <1>2, <1>3, <1>4, <1>5, <1>6, <1>7

LEMMA CreateFDStep ==
  ASSUME Inv, NEW w \in Conns, CreateFD(w)
  PROVE  Inv'
<1> USE ConnIsNotNoOwner DEF Inv, At, sockets, locals, mutexes, tables
<1> USE DEF CreateFD
<1>a. \A j \in Slots : FD_Table[j] = FreeEntry
  BY TableFree DEF HoldsTable
<1>b. PICK i \in Slots :
        /\ slot' = [slot EXCEPT ![w] = i] /\ StoreFirst(w, i) /\ Goto(w, "fill")
  <2>0. 0 \in Slots /\ \A j \in Slots : 0 <= j
    BY SizesAssumption DEF Slots
  <2>1. 0 \in FreeSlots /\ \A j \in FreeSlots : 0 <= j
    BY <1>a, <2>0, FreeFields DEF FreeSlots
  <2>2. QED
    BY <2>1 DEF FreeSlots
<1>1. /\ pc' \in [Conns -> Labels]
      /\ pc'[w] = "fill"
      /\ \A v \in Conns : v # w => pc'[v] = pc[v]
  BY <1>b, Moves DEF Labels
<1>c. /\ \A j \in Slots : j # i => FD_Table'[j] = FreeEntry
      /\ FD_Table'[i] = [FreeEntry EXCEPT !.localFD = w]
  BY <1>a, <1>b DEF StoreFirst, TypeOK, LocalsOK
<1>2. TypeOK'
  <2>1. slot' \in [Conns -> Slots \cup {FAIL}]
    BY <1>b DEF TypeOK
  <2>2. FD_Table' \in [Slots -> Entries]
    <3>1. [FreeEntry EXCEPT !.localFD = w] \in Entries /\ FreeEntry \in Entries
      BY FirstStore, FreeFields
    <3>2. FD_Table' = [j \in Slots |-> FD_Table'[j]]
      BY <1>b DEF StoreFirst, TypeOK
    <3>3. QED
      BY <1>c, <3>1, <3>2
  <2>3. QED
    BY <1>1, <2>1, <2>2 DEF TypeOK
<1>3. LocalsOK'
  BY <1>1 DEF LocalsOK, Opening
<1>4. MutexesHeld'
  BY <1>1, MutexTypes DEF MutexesHeld, QueueHolderRuns, HoldsTable, HoldsQueue
<1>5. TableOK'
  <2>1. tableMutex' = w /\ slot'[w] = i
    BY <1>b DEF MutexesHeld, HoldsTable, TypeOK
  <2>2. FD_Table'[i].localFD = w
    BY <1>c, FirstStore DEF Entries
  <2>3. UsedEntry(i, w)'
    BY <1>1, <1>c, <2>1, <2>2 DEF UsedEntry
  <2>4. QED
    BY <1>c, <2>1, <2>3 DEF TableOK
<1>6. QueuesOK'
  BY <1>1 DEF QueuesOK, NoName, Waits, MonitorNeverStarts
<1>7. TransfersOK'
  <2>1. \A j \in Slots : ~Writing(FD_Table[j].fileFlags)
    BY <1>a, FreeFields
  <2>2. QED
    BY <1>1, <2>1 DEF TransfersOK
<1>8. QED
  BY <1>2, <1>3, <1>4, <1>5, <1>6, <1>7

LEMMA ReadRequestStep ==
  ASSUME Inv, NEW w \in Conns, ReadRequest(w)
  PROVE  Inv'
<1> USE ConnIsNotNoOwner DEF Inv, At, sockets, locals, mutexes, tables
<1> USE DEF ReadRequest
<1> DEFINE r == inbox[from[w]]
           l == ServedAt(r.func)
<1>a. from[w] \in Conns /\ r \in Requests
  BY DEF LocalsOK, TypeOK
<1>b. /\ l \in {"open", "io", "close", "reply"}
      /\ l = "open" <=> r.func = "NET_OPEN"
  <2>1. r.func \in {"NET_SERVERINIT", "INVALID", "NET_READ", "NET_WRITE", "NET_CLOSE", "NET_OPEN"}
    BY <1>a, RequestsAssumption
  <2>2. QED
    BY <2>1 DEF ServedAt
<1>c. /\ req' = [req EXCEPT ![w] = r]
      /\ inbox' = [inbox EXCEPT ![from[w]] = NoOwner]
      /\ req' \in [Conns -> Requests \cup {NoOwner}]
      /\ inbox' \in [Conns -> Requests \cup {NoOwner}]
      /\ req'[w] = r
  BY <1>a DEF TypeOK
<1> HIDE DEF r, l
<1>d. l \in Labels /\ Goto(w, l)
  BY <1>b, <1>c DEF Labels, r, l
<1>1. /\ pc' \in [Conns -> Labels]
      /\ pc'[w] = l
      /\ \A v \in Conns : v # w => pc'[v] = pc[v]
  BY <1>d, Moves
<1>e. /\ newFd' \in [Conns -> Entries \cup {NoOwner}]
      /\ \A v \in Conns : v # w => newFd'[v] = newFd[v]
      /\ l = "open" => newFd'[w] \in Entries /\ newFd'[w].netFD \in Garbage
  <2>1. CASE r.func = "NET_OPEN"
    <3>1. PICK g \in Garbage : newFd' = [newFd EXCEPT ![w] = Opened(r, g)]
      BY <1>c, <2>1
    <3>2. Opened(r, g).netFD \in Garbage /\ Opened(r, g) \in Entries
      <4>1. r.filePath \in Paths /\ r.fMode \in OpenModes /\ r.fileFlags \in Flags
        BY <1>a, <2>1, RequestsAssumption DEF Paths
      <4>2. QED
        BY <4>1 DEF Opened, Entries
    <3>3. QED
      BY <3>1, <3>2 DEF TypeOK
  <2>2. CASE r.func # "NET_OPEN"
    BY <1>b, <1>c, <2>2 DEF TypeOK
  <2>3. QED
    BY <2>1, <2>2
<1>2. TypeOK'
  BY <1>1, <1>c, <1>e DEF TypeOK
<1>3. LocalsOK'
  BY <1>1, <1>b, <1>e DEF LocalsOK, Opening
<1>4. MutexesHeld'
  BY <1>1, <1>b, MutexTypes DEF MutexesHeld, QueueHolderRuns, HoldsTable, HoldsQueue
<1>5. TableOK'
  <2>1. \A i \in Slots, o \in Conns : UsedEntry(i, o) => UsedEntry(i, o)'
    BY <1>1, <1>e DEF UsedEntry, NoName
  <2>2. QED
    BY <2>1 DEF TableOK, UsedEntry
<1>6. QueuesOK'
  BY <1>1, <1>b, <1>e DEF QueuesOK, Waits, MonitorNeverStarts
<1>7. TransfersOK'
  BY <1>1, <1>b, <1>c, <1>e DEF TransfersOK
<1>8. QED
  BY <1>2, <1>3, <1>4, <1>5, <1>6, <1>7

LEMMA AddToQueueTableStep ==
  ASSUME Inv, NEW w \in Conns, AddToQueueTable(w)
  PROVE  Inv'
<1> USE ConnIsNotNoOwner DEF Inv, At, sockets, locals, mutexes, tables
<1> DEFINE path == newFd[w].filePath
           i == QueueFor(path)
<1>a. path = "" /\ newFd[w].netFD \in Garbage
  BY DEF AddToQueueTable, QueuesOK, Waits, NoName, LocalsOK, Opening
<1>b. i \in Queues /\ ~IsNewQueue(path)
  <2>1. 0 \in Queues /\ \A j \in Queues : 0 <= j
    BY SizesAssumption DEF Queues
  <2>2. {j \in Queues : queueTable[j].filePath = path} = Queues
    BY <1>a DEF QueuesOK
  <2>3. i = CHOOSE k \in Queues : \A j \in Queues : k <= j
    BY <2>1, <2>2 DEF QueueFor
  <2>4. QED
    BY <1>a, <2>1, <2>3 DEF IsNewQueue, QueuesOK
<1>n. i # FAIL
  BY <1>b DEF Queues, FAIL
<1>c. CASE queueTable[i].wild
  BY <1>b, <1>c, StopStep DEF AddToQueueTable
<1>d. CASE ~queueTable[i].wild
  <2> USE <1>d DEF AddToQueueTable
  <2>0. PICK wild \in BOOLEAN :
          queueTable' = [queueTable EXCEPT ![i] =
            [filePath |-> path, wild |-> wild, nodes |-> Append(@.nodes, newFd[w].netFD)]]
    BY <1>b, <1>n, Zenon
  <2>i. /\ fileQueue' = [fileQueue EXCEPT ![w] = i] /\ monitors' = monitors
        /\ tableMutex' = NoOwner /\ queueMutex' = NoOwner /\ Goto(w, "sleep")
        /\ UNCHANGED <<up, sockets, req, newFd, used, slot, FD_Table>>
    BY <1>b, <1>n
  <2> HIDE DEF i, path, AddToQueueTable
  <2> DEFINE l == "sleep"
  <2>1. /\ pc' \in [Conns -> Labels]
        /\ pc'[w] = l
        /\ \A v \in Conns : v # w => pc'[v] = pc[v]
    BY <2>i, Moves DEF Labels
  <2>p. pc[w] = "enqueue"
    BY DEF AddToQueueTable
  <2>q. /\ queueTable' \in [Queues -> [filePath : Paths, nodes : Seq(Garbage), wild : BOOLEAN]]
        /\ \A q \in Queues : queueTable'[q].filePath = ""
    <3>1. queueTable[i].nodes \in Seq(Garbage)
      BY <1>b DEF TypeOK
    <3>2. Append(queueTable[i].nodes, newFd[w].netFD) \in Seq(Garbage)
      BY <1>a, <3>1, AppendIn
    <3>3. path \in Paths
      BY <1>a DEF Paths
    <3>4. QED
      BY <1>a, <1>b, <2>0, <3>2, <3>3 DEF TypeOK, QueuesOK
  <2>2. TypeOK'
    BY <1>b, <2>i, <2>1, <2>q DEF TypeOK
  <2>3. LocalsOK'
    BY <2>i, <2>1, <2>p DEF LocalsOK, Opening
  <2>4. MutexesHeld'
    BY <2>i, <2>1, <2>p DEF MutexesHeld, QueueHolderRuns, HoldsTable, HoldsQueue
  <2>f. \A j \in Slots : FD_Table[j] = FreeEntry
    BY <2>p, TableFree DEF HoldsTable
  <2>5. TableOK'
    BY <2>i, <2>f DEF TableOK
  <2>6. QueuesOK'
    BY <2>i, <2>1, <2>p, <2>q DEF QueuesOK, NoName, Waits, MonitorNeverStarts
  <2>7. TransfersOK'
    BY <2>i, <2>1, <2>p DEF TransfersOK
  <2>8. QED
    BY <2>2, <2>3, <2>4, <2>5, <2>6, <2>7
<1>e. QED
  BY <1>c, <1>d

LEMMA PollStep ==
  ASSUME Inv, NEW w \in Conns, Poll(w)
  PROVE  Inv'
<1> USE ConnIsNotNoOwner DEF Inv, At, sockets, locals, mutexes, tables
<1>a. ~canOpen(newFd[w])
  BY OpensUnlessNoName DEF Poll, HoldsTable, QueuesOK, Waits
<1>b. CASE Stop
  BY <1>b, StopStep
<1>c. CASE ~Stop
  <2> USE <1>a, <1>c DEF Poll
  <2> DEFINE l == "store"
  <2>i. /\ tableMutex' = NoOwner /\ Goto(w, l) /\ UNCHANGED <<queueTable, queueMutex>>
        /\ UNCHANGED <<up, sockets, locals, FD_Table, monitors>>
    OBVIOUS
  <2>1. /\ pc' \in [Conns -> Labels]
        /\ pc'[w] = l
        /\ \A v \in Conns : v # w => pc'[v] = pc[v]
    BY <2>i, Moves DEF Labels
  <2>p. pc[w] = "poll"
    OBVIOUS
  <2> HIDE DEF Poll
  <2>2. TypeOK'
    BY <2>i, <2>1 DEF TypeOK
  <2>3. LocalsOK'
    BY <2>i, <2>1, <2>p DEF LocalsOK, Opening
  <2>4. MutexesHeld'
    BY <2>i, <2>1, <2>p DEF MutexesHeld, QueueHolderRuns, HoldsTable, HoldsQueue
  <2>f. \A j \in Slots : FD_Table[j] = FreeEntry
    BY <2>p, TableFree DEF HoldsTable
  <2>5. TableOK'
    BY <2>i, <2>f DEF TableOK
  <2>6. QueuesOK'
    BY <2>i, <2>1, <2>p DEF QueuesOK, NoName, Waits, MonitorNeverStarts
  <2>7. TransfersOK'
    BY <2>i, <2>1, <2>p DEF TransfersOK
  <2>8. QED
    BY <2>2, <2>3, <2>4, <2>5, <2>6, <2>7
<1>d. QED
  BY <1>b, <1>c

LEMMA FillFDStep ==
  ASSUME Inv, NEW w \in Conns, FillFD(w)
  PROVE  Inv'
<1> USE ConnIsNotNoOwner DEF Inv, At, sockets, locals, mutexes, tables
<1> USE DEF FillFD
<1> DEFINE l == "reply"
           e == [newFd[w] EXCEPT !.netFD = NetFD(slot[w])]
<1>0. l \in Labels /\ Goto(w, l)
  BY DEF Labels
<1>1. /\ pc' \in [Conns -> Labels]
      /\ pc'[w] = l
      /\ \A v \in Conns : v # w => pc'[v] = pc[v]
  BY <1>0, Moves
<1>a. tableMutex = w /\ newFd[w] \in Entries /\ newFd[w].localFD = w /\ ~NoName(newFd[w])
  BY DEF MutexesHeld, HoldsTable, LocalsOK, Opening, QueuesOK
<1>b. \A j \in Slots : /\ j # slot[w] => FD_Table[j] = FreeEntry
                     /\ ~Writing(FD_Table[j].fileFlags)
  <2>1. ~Writing([FreeEntry EXCEPT !.localFD = w].fileFlags)
    BY FreeFields, FirstStore DEF Entries
  <2>2. QED
    BY <1>a, <2>1, FreeFields DEF TableOK, UsedEntry
<1>c. /\ slot[w] \in Slots => e \in Entries
      /\ e.localFD = w /\ ~NoName(e) /\ e.fileFlags = newFd[w].fileFlags
  BY <1>a DEF Entries, NoName
<1>d. /\ \A j \in Slots : j # slot[w] => FD_Table'[j] = FreeEntry
      /\ slot[w] \in Slots => FD_Table'[slot[w]] = e
  BY <1>b DEF TypeOK
<1> HIDE DEF e
<1>2. TypeOK'
  <2>1. FD_Table' \in [Slots -> Entries]
    BY <1>c DEF TypeOK, e
  <2>2. QED
    BY <1>1, <2>1 DEF TypeOK
<1>3. LocalsOK'
  BY <1>1 DEF LocalsOK, Opening
<1>4. MutexesHeld'
  BY <1>1, MutexTypes DEF MutexesHeld, QueueHolderRuns, HoldsTable, HoldsQueue
<1>5. TableOK'
  <2>1. slot[w] \in Slots => UsedEntry(slot[w], w)'
    BY <1>1, <1>c, <1>d DEF UsedEntry
  <2>2. QED
    BY <1>a, <1>d, <2>1 DEF TableOK
<1>6. QueuesOK'
  BY <1>1 DEF QueuesOK, NoName, Waits, MonitorNeverStarts
<1>7. TransfersOK'
  BY <1>1, <1>b DEF TransfersOK
<1>8. QED
  BY <1>2, <1>3, <1>4, <1>5, <1>6, <1>7

LEMMA DeleteFDStep ==
  ASSUME Inv, NEW w \in Conns, DeleteFD(w)
  PROVE  Inv'
<1> USE ConnIsNotNoOwner DEF Inv, At, sockets, locals, mutexes, tables
<1> USE DEF DeleteFD
<1> DEFINE l == "closed"
<1>0. l \in Labels /\ Goto(w, l)
  BY DEF Labels
<1>1. /\ pc' \in [Conns -> Labels]
      /\ pc'[w] = l
      /\ \A v \in Conns : v # w => pc'[v] = pc[v]
  BY <1>0, Moves
<1>a. FD_Table' = FD_Table
  <2>1. \A j \in Slots : FD_Table[j] = FreeEntry
    BY TableFree DEF HoldsTable
  <2>2. QED
    BY <2>1 DEF TypeOK
<1> HIDE DEF DeleteFD
<1>b. pc[w] = "delete" /\ UNCHANGED <<up, sockets, req, newFd, used, slot, fileQueue, mutexes, queueTable, monitors>>
  BY DEF DeleteFD
<1>2. TypeOK'
  BY <1>1, <1>a, <1>b DEF TypeOK
<1>3. LocalsOK'
  BY <1>1, <1>b DEF LocalsOK, Opening
<1>4. MutexesHeld'
  BY <1>1, <1>b, MutexTypes DEF MutexesHeld, QueueHolderRuns, HoldsTable, HoldsQueue
<1>5. TableOK'
  BY <1>1, <1>a, <1>b DEF TableOK, UsedEntry, NoName, MutexesHeld, HoldsTable
<1>6. QueuesOK'
  BY <1>1, <1>b DEF QueuesOK, NoName, Waits, MonitorNeverStarts
<1>7. TransfersOK'
  BY <1>1, <1>a, <1>b DEF TransfersOK
<1>8. QED
  BY <1>2, <1>3, <1>4, <1>5, <1>6, <1>7

LEMMA TransferStep ==
  ASSUME Inv, NEW w \in Conns, Transfer(w)
  PROVE  Inv'
<1> USE ConnIsNotNoOwner DEF Inv, At, sockets, locals, mutexes, tables
<1> USE DEF Transfer
<1> DEFINE l == "reply"
           e == FD_Table[Index(req[w].fd)]
<1>0. l \in Labels /\ Goto(w, l)
  BY DEF Labels, AfterTransfer
<1>1. /\ pc' \in [Conns -> Labels]
      /\ pc'[w] = l
      /\ \A v \in Conns : v # w => pc'[v] = pc[v]
  BY <1>0, Moves
<1>a. Index(req[w].fd) \in Slots /\ e.localFD \in Conns \cup {0}
  BY DEF TransfersOK, TypeOK, Entries
<1>b. req[w].func = "NET_WRITE" =>
        /\ e.localFD \in Conns /\ pc[e.localFD] \in {"reply", "done"}
        /\ Writing(newFd[e.localFD].fileFlags)
  <2> SUFFICES ASSUME req[w].func = "NET_WRITE"
               PROVE  /\ e.localFD \in Conns /\ pc[e.localFD] \in {"reply", "done"}
                      /\ Writing(newFd[e.localFD].fileFlags)
    OBVIOUS
  <2>1. Writing(e.fileFlags)
    BY DEF TransfersOK
  <2>2. UsedEntry(Index(req[w].fd), tableMutex)
    BY <1>a, <2>1, FreeFields DEF TableOK
  <2>3. ~Writing([FreeEntry EXCEPT !.localFD = tableMutex].fileFlags)
    BY <2>2, FreeFields, FirstStore DEF UsedEntry, Entries
  <2>4. QED
    BY <2>1, <2>2, <2>3 DEF UsedEntry
<1>c. used' = [used EXCEPT ![w] = e.localFD]
  OBVIOUS
<1> HIDE DEF e
<1>2. TypeOK'
  BY <1>1, <1>a, <1>c, ZenonT(40) DEF TypeOK
<1>3. LocalsOK'
  BY <1>1 DEF LocalsOK, Opening
<1>4. MutexesHeld'
  BY <1>1, MutexTypes DEF MutexesHeld, QueueHolderRuns, HoldsTable, HoldsQueue
<1>5. TableOK'
  BY <1>1 DEF TableOK, UsedEntry, NoName, MutexesHeld, HoldsTable
<1>6. QueuesOK'
  BY <1>1 DEF QueuesOK, NoName, Waits, MonitorNeverStarts
<1>7. TransfersOK'
  BY <1>1, <1>b, <1>c DEF TransfersOK, TypeOK
<1>8. QED
  BY <1>2, <1>3, <1>4, <1>5, <1>6, <1>7

LEMMA InitInv == Init => Inv
<1> SUFFICES ASSUME Init PROVE Inv
  OBVIOUS
<1> USE ConnIsNotNoOwner, FreeFields DEF Init, Inv
<1>1. TypeOK
  <2>0. accepted = 0 /\ MAX_CONNS \in Nat
    BY SizesAssumption
  <2>1. accepted \in 0 .. MAX_CONNS
    BY ONLY <2>0
  <2>2. FD_Table \in [Slots -> Entries]
    BY FreeFields
  <2>3. queueTable \in [Queues -> [filePath : Paths, nodes : Seq(Garbage), wild : BOOLEAN]]
    <3>0. "" \in Paths
      BY DEF Paths
    <3>1. <<>> \in Seq(Garbage)
      BY EmptyIn
    <3>2. EmptyQueue \in [filePath : Paths, nodes : Seq(Garbage), wild : BOOLEAN]
      BY <3>0, <3>1 DEF EmptyQueue
    <3>3. QED
      BY <3>2
  <2>4. pc \in [Conns -> Labels]
    BY DEF Labels
  <2>5. QED
    BY <2>1, <2>2, <2>3, <2>4 DEF TypeOK
<1>2. LocalsOK /\ MutexesHeld
  BY DEF LocalsOK, Opening, MutexesHeld, QueueHolderRuns, HoldsTable, HoldsQueue
<1>3. TableOK
  BY DEF TableOK
<1>4. QueuesOK /\ TransfersOK
  BY DEF QueuesOK, TransfersOK, Waits, MonitorNeverStarts, EmptyQueue
<1>5. QED
  BY <1>1, <1>2, <1>3, <1>4

LEMMA NextInv == Inv /\ [Next]_vars => Inv'
<1> SUFFICES ASSUME Inv, [Next]_vars PROVE Inv'
  OBVIOUS
<1>1. ASSUME NEW w \in Conns, Worker(w) PROVE Inv'
  <2>1. CASE Open(w)
    BY <2>1, LockTableStep, CheckCanOpenStep, LockQueueStep, AddToQueueTableStep,
       PollLocksStep, PollStep, StoreTimeStep, OpenFileStep, CreateFDStep, FillFDStep DEF Open
  <2>2. QED
    BY <1>1, <2>1, CallReadStep, ReadRequestStep, ReplyStep, LockToCloseStep,
       DeleteFDStep, CheckFlagsStep, TransferStep DEF Worker
<1>2. CASE UNCHANGED vars
  <2> USE <1>2 DEF vars, sockets, locals, mutexes, tables
  <2>1. TypeOK' /\ LocalsOK'
    BY DEF Inv, TypeOK, LocalsOK
  <2>2. MutexesHeld' /\ TableOK'
    BY DEF Inv, MutexesHeld, QueueHolderRuns, TableOK, UsedEntry
  <2>3. QueuesOK' /\ TransfersOK'
    BY DEF Inv, QueuesOK, MonitorNeverStarts, TransfersOK
  <2>4. QED
    BY <2>1, <2>2, <2>3 DEF Inv
<1>3. QED
  BY <1>1, <1>2, AcceptStep, StopStep DEF Next, AcceptFails

\* The inductive invariant holds of every state of the server.
THEOREM Invariance == Spec => []Inv
<1>1. QED
  BY InitInv, NextInv, PTL DEF Spec

\* The server's variables keep their types, whatever is asked of it.
THEOREM TypeCorrect == Spec => []TypeOK
<1>1. Inv => TypeOK
  BY DEF Inv
<1>2. QED
  BY <1>1, Invariance, PTL

\* What canOpen() has checked still holds when createFD() has filled the entry:
\* no two entries of FD_Table exclude each other.
THEOREM ModesExclusive == Spec => []ModesExclude
<1>1. Inv => ModesExclude
  <2> SUFFICES ASSUME Inv, NEW i \in Slots, NEW j \in Slots, i # j, FD_Table[i].localFD # 0
               PROVE  ~Excludes(FD_Table[i], FD_Table[j]) \/ FD_Table[i].filePath # FD_Table[j].filePath
    BY DEF ModesExclude
  <2>1. UsedEntry(i, tableMutex) /\ slot[tableMutex] = i
    BY FreeFields DEF Inv, TableOK, UsedEntry
  <2>2. FD_Table[j] = FreeEntry
    BY <2>1 DEF Inv, TableOK, UsedEntry
  <2>3. ~NoName(FD_Table[i])
    <3>1. [FreeEntry EXCEPT !.localFD = tableMutex].fMode = "INVALID_FILE"
      BY <2>1, FreeFields, FirstStore DEF UsedEntry, Entries
    <3>2. QED
      BY <2>1, <3>1 DEF UsedEntry, NoName
  <2>4. QED
    BY <2>2, <2>3, FreeFields DEF Excludes, NoName
<1>2. QED
  BY <1>1, Invariance, PTL

\* Nobody waits for a mutex with queueMutex in his hands: the two locks of the
\* polling loop and those of ex_netopen() are in one order.
THEOREM QueueHolderNeverWaits == Spec => []QueueHolderRuns
<1>1. Inv => QueueHolderRuns
  BY DEF Inv, MutexesHeld
<1>2. QED
  BY <1>1, Invariance, PTL

\* No monitorThread is ever started.
THEOREM MonitorsNeverStart == Spec => []MonitorNeverStarts
<1>1. Inv => MonitorNeverStarts
  BY DEF Inv, QueuesOK
<1>2. QED
  BY <1>1, Invariance, PTL

\* ex_netwrite() writes to what was opened for writing, without a lock.
THEOREM WritesReach == Spec => []WritesReachOpenedFile
<1>1. Inv => WritesReachOpenedFile
  BY DEF Inv, TransfersOK, WritesReachOpenedFile
<1>2. QED
  BY <1>1, Invariance, PTL
=============================================================================
