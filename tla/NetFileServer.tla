--------------------------- MODULE NetFileServer ---------------------------
(* src/netfileserver.c: main accepts connections and starts one worker per *)
(* connection; workers share the socket variable of main, FD_Table,         *)
(* queueTable and the two mutexes.  A worker is named by the connection it  *)
(* was started for; what it reads and writes is the connection newsockfd    *)
(* names at that moment.  One action is a statement, or the statements      *)
(* between two accesses to what the workers share.                          *)
EXTENDS Integers, Sequences, FiniteSets

CONSTANTS
  MAX_CONNS,         \* connections clients make, each with one request
  Requests,          \* what they may ask for, a set of records
  FD_TABLE_SIZE,     \* slots of FD_Table (100)
  QUEUE_TABLE_SIZE,  \* slots of queueTable (100)
  Garbage,           \* what malloc may leave in a netFD nobody writes
  NoOwner            \* a free mutex, an empty inbox, no socket

\* A connection is named by the number of its accept().
Conns == 1 .. MAX_CONNS
Slots == 0 .. FD_TABLE_SIZE - 1
Queues == 0 .. QUEUE_TABLE_SIZE - 1

OpenModes == {"UNRESTRICTED", "EXCLUSIVE", "TRANSACTION"}
Flags == {"O_RDONLY", "O_WRONLY", "O_RDWR"}
FAIL == -1

NetFD(i) == -5 * (i + 1)
\* (fd / -5) - 1 in C, for the descriptors -5, -10, ... and for 0.
Index(fd) == (-fd) \div 5 - 1

ASSUME SizesAssumption ==
  /\ MAX_CONNS \in Nat
  /\ FD_TABLE_SIZE \in Nat \ {0} /\ QUEUE_TABLE_SIZE \in Nat \ {0}
ASSUME NoOwnerAssumption == NoOwner \notin Int \cup Requests
ASSUME GarbageAssumption == Garbage # {} /\ Garbage \subseteq Int
ASSUME RequestsAssumption ==
  \A r \in Requests :
    \/ r.func \in {"NET_SERVERINIT", "INVALID"}
    \/ r.func \in {"NET_READ", "NET_WRITE", "NET_CLOSE"} /\ r.fd \in Int
    \/ /\ r.func = "NET_OPEN" /\ r.filePath \in STRING
       /\ r.fMode \in OpenModes /\ r.fileFlags \in Flags

VARIABLES
  up,          \* the process runs
  newsockfd,   \* the variable of main that every worker points to
  accepted,    \* how many connections accept() has returned
  inbox,       \* a request that is sent and not read yet, by connection
  pc,          \* the statement a worker is at
  from,        \* the connection a worker's read() was called for
  req,         \* the request it read
  newFd,       \* the descriptor struct it fills for NET_OPEN
  used,        \* the local descriptor its NET_READ or NET_WRITE used
  slot,        \* the slot of FD_Table it found in createFD()
  fileQueue,   \* fileQueueIndex of ex_netopen()
  FD_Table, queueTable, tableMutex, queueMutex,
  monitors,    \* slots of queueTable for which a monitorThread was started
  replies      \* what the workers have written, and to whom

sockets == <<newsockfd, accepted, inbox, from, replies>>
locals == <<req, newFd, used, slot, fileQueue>>
mutexes == <<tableMutex, queueMutex>>
tables == <<FD_Table, queueTable, monitors>>
vars == <<up, pc, sockets, locals, mutexes, tables>>

-----------------------------------------------------------------------------
(* The tables. *)

\* Mutant: free entries are marked by -1, which is not what createFD() looks for.
FreeByMinusOne ==
  [localFD |-> -1, netFD |-> 0, fMode |-> "INVALID_FILE",
   fileFlags |-> "O_RDONLY", filePath |-> ""]

FreeEntry ==
  [localFD |-> 0, netFD |-> 0, fMode |-> "INVALID_FILE",
   fileFlags |-> "O_RDONLY", filePath |-> ""]

\* No node and, in the first memory malloc() hands out, no name; the next
\* pointer of the last node, which insertWorkNode() never writes, is NULL or
\* wild.
EmptyQueue == [filePath |-> "", nodes |-> <<>>, wild |-> FALSE]

Writing(fileFlags) == fileFlags \in {"O_WRONLY", "O_RDWR"}

Excludes(e, r) ==
  \/ e.fMode = "TRANSACTION" \/ r.fMode = "TRANSACTION"
  \/ /\ Writing(e.fileFlags) /\ Writing(r.fileFlags)
     /\ <<e.fMode, r.fMode>> \in {<<"UNRESTRICTED", "EXCLUSIVE">>,
                                  <<"EXCLUSIVE", "UNRESTRICTED">>,
                                  <<"EXCLUSIVE", "EXCLUSIVE">>}

canOpen(r) ==
  \A i \in Slots : FD_Table[i].filePath = r.filePath => ~Excludes(FD_Table[i], r)

\* The first queue of that path, else the last one without nodes.
QueueFor(path) ==
  LET named == {i \in Queues : queueTable[i].filePath = path}
      free  == {i \in Queues : queueTable[i].nodes = <<>>}
  IN  IF named # {} THEN CHOOSE i \in named : \A j \in named : i <= j
      ELSE IF free # {} THEN CHOOSE i \in free : \A j \in free : i >= j
      ELSE FAIL

IsNewQueue(path) == \A i \in Queues : queueTable[i].filePath # path

Front(w) == queueTable[fileQueue[w]].nodes[1]

-----------------------------------------------------------------------------
Init ==
  /\ up = TRUE
  /\ newsockfd = NoOwner
  /\ accepted = 0
  /\ inbox = [c \in Conns |-> NoOwner]
  /\ pc = [w \in Conns |-> "none"]
  /\ from = [w \in Conns |-> NoOwner]
  /\ req = [w \in Conns |-> NoOwner]
  /\ newFd = [w \in Conns |-> NoOwner]
  /\ used = [w \in Conns |-> NoOwner]
  /\ slot = [w \in Conns |-> FAIL]
  /\ fileQueue = [w \in Conns |-> FAIL]
  /\ FD_Table = [i \in Slots |-> FreeEntry]
  /\ queueTable = [i \in Queues |-> EmptyQueue]
  /\ tableMutex = NoOwner /\ queueMutex = NoOwner
  /\ monitors = {}
  /\ replies = {}

At(w, l) == up /\ pc[w] = l
Goto(w, l) == pc' = [pc EXCEPT ![w] = l]

\* A wild or NULL pointer is followed, or main returns: all threads end.
Stop ==
  /\ up' = FALSE
  /\ UNCHANGED <<pc, sockets, locals, mutexes, tables>>

-----------------------------------------------------------------------------
(* main: the accept loop. *)

Accept ==
  /\ up /\ accepted < MAX_CONNS
  /\ accepted' = accepted + 1
  /\ newsockfd' = accepted + 1
  /\ \E r \in Requests : inbox' = [inbox EXCEPT ![accepted + 1] = r]
  /\ Goto(accepted + 1, "start")
  /\ UNCHANGED <<up, from, replies, locals, mutexes, tables>>

\* accept() fails: main leaves the loop or exits, the process ends.
AcceptFails == up /\ accepted < MAX_CONNS /\ Stop

-----------------------------------------------------------------------------
(* workerThread: read, decode, serve, write. *)

\* read(*sockfd, ...) is called: the pointer is followed now.
CallRead(w) ==
  /\ At(w, "start")
  /\ from' = [from EXCEPT ![w] = newsockfd]
  /\ Goto(w, "read")
  /\ UNCHANGED <<up, newsockfd, accepted, inbox, replies, locals, mutexes, tables>>

ServedAt(func) ==
  CASE func = "NET_OPEN" -> "open"
    [] func \in {"NET_READ", "NET_WRITE"} -> "io"
    [] func = "NET_CLOSE" -> "close"
    [] OTHER -> "reply"

Opened(r, garbage) ==
  [localFD |-> 0, netFD |-> garbage, fMode |-> r.fMode,
   fileFlags |-> r.fileFlags, filePath |-> r.filePath]

ReadRequest(w) ==
  /\ At(w, "read") /\ inbox[from[w]] # NoOwner
  /\ req' = [req EXCEPT ![w] = inbox[from[w]]]
  /\ inbox' = [inbox EXCEPT ![from[w]] = NoOwner]
  /\ IF req'[w].func = "NET_OPEN"
     THEN \E g \in Garbage : newFd' = [newFd EXCEPT ![w] = Opened(req'[w], g)]
     ELSE newFd' = newFd
  /\ Goto(w, ServedAt(req'[w].func))
  /\ UNCHANGED <<up, newsockfd, accepted, from, replies, used, slot, fileQueue,
                 mutexes, tables>>

\* write(*sockfd, ...): the pointer is followed again.
Reply(w) ==
  /\ At(w, "reply")
  /\ replies' = replies \cup {[worker |-> w, to |-> newsockfd]}
  /\ Goto(w, "done")
  /\ UNCHANGED <<up, newsockfd, accepted, inbox, from, locals, mutexes, tables>>

-----------------------------------------------------------------------------
(* ex_netopen *)

LockTable(w) ==
  /\ At(w, "open") /\ tableMutex = NoOwner
  /\ tableMutex' = w
  /\ Goto(w, "check")
  /\ UNCHANGED <<up, sockets, locals, queueMutex, tables>>

\* Mutant: the table is unlocked as soon as canOpen() has answered.
CheckThenUnlock(w) ==
  /\ At(w, "check")
  /\ Goto(w, IF canOpen(newFd[w]) THEN "openfile" ELSE "queue")
  /\ tableMutex' = IF canOpen(newFd[w]) THEN NoOwner ELSE tableMutex
  /\ UNCHANGED <<up, sockets, locals, queueMutex, tables>>

CheckCanOpen(w) ==
  /\ At(w, "check")
  /\ Goto(w, IF canOpen(newFd[w]) THEN "openfile" ELSE "queue")
  /\ UNCHANGED <<up, sockets, locals, mutexes, tables>>

LockQueue(w) ==
  /\ At(w, "queue") /\ queueMutex = NoOwner
  /\ queueMutex' = w
  /\ Goto(w, "enqueue")
  /\ UNCHANGED <<up, sockets, locals, tableMutex, tables>>

\* addToQueueTable() and both unlocks.  A second node is linked to the next
\* pointer of the last one, wherever that points.
AddToQueueTable(w) ==
  /\ At(w, "enqueue")
  /\ LET path == newFd[w].filePath
         i == QueueFor(path)
     IN  IF i \in Queues /\ queueTable[i].wild THEN Stop ELSE
         /\ fileQueue' = [fileQueue EXCEPT ![w] = i]
         /\ IF i = FAIL THEN UNCHANGED queueTable ELSE
            \E wild \in BOOLEAN :
              queueTable' = [queueTable EXCEPT ![i] =
                [filePath |-> path, wild |-> wild,
                 nodes |-> Append(@.nodes, newFd[w].netFD)]]
         /\ monitors' = IF i # FAIL /\ IsNewQueue(path) THEN monitors \cup {i}
                                                        ELSE monitors
         /\ tableMutex' = NoOwner /\ queueMutex' = NoOwner
         /\ Goto(w, "sleep")
         /\ UNCHANGED <<up, sockets, req, newFd, used, slot, FD_Table>>

\* Mutant: the two mutexes of the polling loop in the other order.
PollLocksQueueFirst(w) ==
  /\ \/ /\ At(w, "sleep") /\ queueMutex = NoOwner
        /\ queueMutex' = w /\ tableMutex' = tableMutex
        /\ Goto(w, "pollqueue")
     \/ /\ At(w, "pollqueue") /\ tableMutex = NoOwner
        /\ tableMutex' = w /\ queueMutex' = queueMutex
        /\ Goto(w, "poll")
  /\ UNCHANGED <<up, sockets, locals, tables>>

\* sleep(2), then lock tableMutex, then queueMutex.
PollLocks(w) ==
  /\ \/ /\ At(w, "sleep") /\ tableMutex = NoOwner
        /\ tableMutex' = w /\ queueMutex' = queueMutex
        /\ Goto(w, "pollqueue")
     \/ /\ At(w, "pollqueue") /\ queueMutex = NoOwner
        /\ queueMutex' = w /\ tableMutex' = tableMutex
        /\ Goto(w, "poll")
  /\ UNCHANGED <<up, sockets, locals, tables>>

\* First in its queue and allowed to open: removeJob(), both unlocks, break.
\* Otherwise the table is unlocked, the queue not yet.
Poll(w) ==
  /\ At(w, "poll")
  /\ IF fileQueue[w] = FAIL \/ queueTable[fileQueue[w]].nodes = <<>> THEN Stop ELSE
     /\ tableMutex' = NoOwner
     /\ IF Front(w) = newFd[w].netFD /\ canOpen(newFd[w])
        THEN /\ queueTable' = [queueTable EXCEPT ![fileQueue[w]].nodes = Tail(@)]
             /\ queueMutex' = NoOwner
             /\ Goto(w, "openfile")
        ELSE /\ Goto(w, "store")
             /\ UNCHANGED <<queueTable, queueMutex>>
     /\ UNCHANGED <<up, sockets, locals, FD_Table, monitors>>

\* nodeToStore() looks at the front node only: if it is another worker's, the
\* loop never ends.
StoreTime(w) ==
  /\ At(w, "store") /\ Front(w) = newFd[w].netFD
  /\ queueMutex' = NoOwner
  /\ Goto(w, "sleep")
  /\ UNCHANGED <<up, sockets, locals, tableMutex, tables>>

\* open() of the operating system: fails, or gives a descriptor, here named
\* after the worker.  No return of ex_netopen() unlocks tableMutex.
OpenFile(w) ==
  /\ At(w, "openfile")
  /\ \/ newFd' = newFd /\ Goto(w, "reply")
     \/ newFd' = [newFd EXCEPT ![w].localFD = w] /\ Goto(w, "create")
  /\ UNCHANGED <<up, sockets, req, used, slot, fileQueue, mutexes, tables>>

FreeSlots == {i \in Slots : FD_Table[i].localFD = 0}

\* Mutant: the flags are stored before the descriptor.
StoreFlagsFirst(w, i) ==
  FD_Table' = [FD_Table EXCEPT ![i].fileFlags = newFd[w].fileFlags]

StoreFirst(w, i) == FD_Table' = [FD_Table EXCEPT ![i].localFD = newFd[w].localFD]

\* createFD: the first free entry, and the first of its stores.
CreateFD(w) ==
  /\ At(w, "create")
  /\ IF FreeSlots = {}
     THEN Goto(w, "reply") /\ UNCHANGED <<slot, FD_Table>>
     ELSE LET i == CHOOSE i \in FreeSlots : \A j \in FreeSlots : i <= j
          IN  /\ slot' = [slot EXCEPT ![w] = i]
              /\ StoreFirst(w, i)
              /\ Goto(w, "fill")
  /\ UNCHANGED <<up, sockets, req, newFd, used, fileQueue, mutexes, queueTable, monitors>>

\* createFD: the other stores, and the return of netFD.
FillFD(w) ==
  /\ At(w, "fill")
  /\ FD_Table' = [FD_Table EXCEPT ![slot[w]] =
                    [newFd[w] EXCEPT !.netFD = NetFD(slot[w])]]
  /\ Goto(w, "reply")
  /\ UNCHANGED <<up, sockets, req, newFd, used, slot, fileQueue, mutexes, queueTable, monitors>>

-----------------------------------------------------------------------------
(* NET_CLOSE *)

\* The second pthread_mutex_lock() of the case is a lock as well.
LockToClose(w) ==
  /\ At(w, "close") \/ At(w, "closed")
  /\ tableMutex = NoOwner
  /\ tableMutex' = w
  /\ Goto(w, IF pc[w] = "close" THEN "delete" ELSE "reply")
  /\ UNCHANGED <<up, sockets, locals, queueMutex, tables>>

\* deleteFD: close() of whatever localFD the entry holds (of a word outside
\* the table if there is no such entry) may fail; then the entry is freed.
DeleteFD(w) ==
  /\ At(w, "delete")
  /\ LET i == Index(req[w].fd)
     IN  \/ UNCHANGED FD_Table
         \/ i \in Slots /\ FD_Table' = [FD_Table EXCEPT ![i] = FreeEntry]
  /\ Goto(w, "closed")
  /\ UNCHANGED <<up, sockets, req, newFd, used, slot, fileQueue, mutexes, queueTable, monitors>>

-----------------------------------------------------------------------------
(* ex_netread and ex_netwrite: no mutex. *)

Refused(w) ==
  \/ Index(req[w].fd) \notin Slots
  \/ FD_Table[Index(req[w].fd)].fileFlags =
       IF req[w].func = "NET_READ" THEN "O_WRONLY" ELSE "O_RDONLY"

CheckFlags(w) ==
  /\ At(w, "io")
  /\ Goto(w, IF Refused(w) THEN "reply" ELSE "transfer")
  /\ UNCHANGED <<up, sockets, locals, mutexes, tables>>

\* Mutant: NET_READ and NET_WRITE have no break and run into NET_CLOSE.
FallThrough == "close"
AfterTransfer == "reply"

\* read() or write() on the local descriptor the entry holds now.
Transfer(w) ==
  /\ At(w, "transfer")
  /\ used' = [used EXCEPT ![w] = FD_Table[Index(req[w].fd)].localFD]
  /\ Goto(w, AfterTransfer)
  /\ UNCHANGED <<up, sockets, req, newFd, slot, fileQueue, mutexes, tables>>

-----------------------------------------------------------------------------
Open(w) ==
  \/ LockTable(w) \/ CheckCanOpen(w) \/ LockQueue(w) \/ AddToQueueTable(w)
  \/ PollLocks(w) \/ Poll(w) \/ StoreTime(w)
  \/ OpenFile(w) \/ CreateFD(w) \/ FillFD(w)

Worker(w) ==
  \/ CallRead(w) \/ ReadRequest(w) \/ Reply(w)
  \/ Open(w) \/ LockToClose(w) \/ DeleteFD(w) \/ CheckFlags(w) \/ Transfer(w)

Next == Accept \/ AcceptFails \/ \E w \in Conns : Worker(w)

Spec == Init /\ [][Next]_vars
============================================================================
