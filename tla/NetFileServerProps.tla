------------------------- MODULE NetFileServerProps -------------------------
(* What is checked of netfileserver.c.                                      *)
EXTENDS NetFileServer

Labels ==
  {"none", "start", "read", "reply", "done", "io", "transfer",
   "open", "check", "queue", "enqueue", "sleep", "pollqueue", "poll", "store",
   "openfile", "create", "fill", "close", "delete", "closed"}

Paths == {""} \cup {r.filePath : r \in {q \in Requests : q.func = "NET_OPEN"}}

Entries ==
  [localFD : Conns \cup {0}, netFD : Garbage \cup {0} \cup {NetFD(i) : i \in Slots},
   fMode : OpenModes \cup {"INVALID_FILE"}, fileFlags : Flags, filePath : Paths]

\* The variables are what the code declares; slots and queues exist.
TypeOK ==
  /\ up \in BOOLEAN
  /\ newsockfd \in Conns \cup {NoOwner}
  /\ accepted \in 0 .. MAX_CONNS
  /\ inbox \in [Conns -> Requests \cup {NoOwner}]
  /\ pc \in [Conns -> Labels]
  /\ from \in [Conns -> Conns \cup {NoOwner}]
  /\ req \in [Conns -> Requests \cup {NoOwner}]
  /\ newFd \in [Conns -> Entries \cup {NoOwner}]
  /\ used \in [Conns -> Conns \cup {0, NoOwner}]
  /\ slot \in [Conns -> Slots \cup {FAIL}]
  /\ fileQueue \in [Conns -> Queues \cup {FAIL}]
  /\ FD_Table \in [Slots -> Entries]
  /\ queueTable \in [Queues -> [filePath : Paths, nodes : Seq(Garbage), wild : BOOLEAN]]
  /\ tableMutex \in Conns \cup {NoOwner} /\ queueMutex \in Conns \cup {NoOwner}
  /\ monitors \subseteq Queues
  /\ replies \subseteq [worker : Conns, to : Conns]

\* Files open at the same time under one path do not exclude each other: the
\* check of canOpen() still holds when createFD() fills the entry (402, 433).
ModesExclude ==
  \A i, j \in Slots :
    i # j /\ FD_Table[i].localFD # 0 /\ FD_Table[i].filePath = FD_Table[j].filePath
      => ~Excludes(FD_Table[i], FD_Table[j])

\* Whoever holds queueMutex waits for no mutex, so that the two mutexes are
\* never waited for in a circle (401-427).
QueueHolderRuns ==
  queueMutex # NoOwner => pc[queueMutex] \in {"enqueue", "poll", "store"}

\* monitorThread (572), which frees nodes without a lock, never runs: a queue
\* for a new path needs a second open of a path, which stops at tableMutex.
MonitorNeverStarts == monitors = {}

\* ex_netwrite() writes to no file but one that an open for writing has stored,
\* although it reads the flags and the descriptor of an entry one after the
\* other, without a lock, while createFD() stores them one after the other.
WritesReachOpenedFile ==
  \A w \in Conns :
    used[w] # NoOwner /\ req[w].func = "NET_WRITE"
      => used[w] \in Conns /\ Writing(newFd[used[w]].fileFlags)

-----------------------------------------------------------------------------
(* The inductive invariant.                                                  *)
Opening == {"open", "check", "queue", "enqueue", "sleep", "pollqueue", "poll",
            "store", "openfile", "create", "fill"}
HoldsTable == {"check", "queue", "enqueue", "pollqueue", "poll", "openfile",
               "create", "fill", "delete", "closed"}
HoldsQueue == {"enqueue", "poll", "store"}
Waits == {"queue", "enqueue", "sleep", "pollqueue", "poll", "store"}

NoName(fd) == fd.fMode = "TRANSACTION" /\ fd.filePath = ""

\* What the statements find in their locals.
LocalsOK ==
  \A w \in Conns :
    /\ w > accepted => pc[w] = "none"
    /\ pc[w] # "none" => newsockfd \in Conns
    /\ pc[w] = "read" => from[w] \in Conns
    /\ pc[w] \in Opening => newFd[w] \in Entries /\ newFd[w].netFD \in Garbage
    /\ pc[w] \in {"create", "fill"} => newFd[w].localFD = w

\* The mutexes are held by those who have locked and not unlocked them.
MutexesHeld ==
  /\ \A w \in Conns : pc[w] \in HoldsTable => tableMutex = w
  /\ \A w \in Conns : pc[w] \in HoldsQueue => queueMutex = w
  /\ QueueHolderRuns

\* A used entry is the one of the worker that has the table, for good.
UsedEntry(i, o) ==
  /\ o \in Conns /\ slot[o] = i /\ FD_Table[i].localFD = o
  /\ \/ pc[o] = "fill" /\ FD_Table[i] = [FreeEntry EXCEPT !.localFD = o]
     \/ /\ pc[o] \in {"reply", "done"} /\ ~NoName(FD_Table[i])
        /\ FD_Table[i].fileFlags = newFd[o].fileFlags

TableOK == \A i \in Slots : FD_Table[i] = FreeEntry \/ UsedEntry(i, tableMutex)

\* So canOpen() refuses nothing but an open in mode TRANSACTION without a name,
\* which every free entry has too; it waits in a queue that is there.
QueuesOK ==
  /\ \A w \in Conns : pc[w] \in Waits => NoName(newFd[w])
  /\ \A w \in Conns : pc[w] \in {"openfile", "create", "fill"} => ~NoName(newFd[w])
  /\ \A q \in Queues : queueTable[q].filePath = ""
  /\ MonitorNeverStarts

\* What a worker has checked of the entry it transfers to is not undone.
TransfersOK ==
  \A w \in Conns :
    /\ pc[w] = "transfer" =>
         /\ Index(req[w].fd) \in Slots
         /\ req[w].func = "NET_WRITE" => Writing(FD_Table[Index(req[w].fd)].fileFlags)
    /\ used[w] # NoOwner => pc[w] \in {"reply", "done"}
    /\ used[w] # NoOwner /\ req[w].func = "NET_WRITE" =>
         /\ used[w] \in Conns /\ pc[used[w]] \in {"reply", "done"}
         /\ Writing(newFd[used[w]].fileFlags)

Inv == TypeOK /\ LocalsOK /\ MutexesHeld /\ TableOK /\ QueuesOK /\ TransfersOK

-----------------------------------------------------------------------------
(* Fairness: the kernel schedules every thread (WF), and gives a mutex that *)
(* is free again and again to each thread that waits for it (SF).            *)
Fairness == \A w \in Conns : WF_vars(Worker(w))
LockFairness == \A w \in Conns : SF_vars(LockTable(w) \/ LockQueue(w) \/ PollLocks(w))

FairSpec == Spec /\ Fairness
LockFairSpec == FairSpec /\ LockFairness

LockFree(w) ==
  req[w] # NoOwner /\ req[w].func \in {"NET_SERVERINIT", "INVALID", "NET_READ", "NET_WRITE"}

\* Requests that take no mutex are answered, whatever the mutexes are stuck in.
LockFreeAnswered == \A w \in Conns : LockFree(w) ~> (pc[w] = "done" \/ ~up)

\* "Send Server response back to client" (387): the connection a reply is
\* written to is the one its request came from.
ReplyToSender == \A r \in replies : r.to = from[r.worker]

\* Each open "Returns to Client a file descriptor or -1" (278).
OpenAnswered ==
  \A w \in Conns : (req[w] # NoOwner /\ req[w].func = "NET_OPEN") ~> (pc[w] = "done" \/ ~up)
============================================================================
