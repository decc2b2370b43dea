# Verification of the OS scheduler project

The repository is a user-level thread library (`src/my_pthread.c`,
`src/my_pthread_t.h`), three copies of an earlier version of it beside their
benchmarks, a file server written with pthreads (`src/netfileserver.c`) and
drafts of a memory allocator. This directory holds TLA+ models of that code, the
TLC configurations that check them, and proofs about the thread library, the
file server and the two benchmarks.

## Inventory

| Component | State | Operations | What makes it correct |
| --- | --- | --- | --- |
| Threads (`my_pthread.c` 3-122) | the `my_pthread_t` structs: context, state, priority, next, retval, times | create, yield, exit, join | each thread's code resumes where it left off; join returns after exit, with the exit value |
| Scheduler (124-445) | five run queues, `currentThread`, `inScheduler`, `maintenanceCycle`, the one-shot `ITIMER_REAL` | `timer_handler`, `schedule`, `enqueue`, `dequeue`, `getNextThread`, `checkNextThread`, `maintenance`, `scheduler_init` | no thread lost or queued twice; best level first, first come first served; a tick is always to come; nobody starves |
| Mutexes (447-501) | `flag`, `waitQueue` | init, lock, unlock, destroy | one holder; no lost wakeup |
| Earlier library (`matrix`, `msort`, `mySimpleExample`) | three FIFO levels, a list of mutex nodes | the same calls; lock spins and re-enqueues itself | the same; the comments of `matrix/my_pthread_t.h` 94-139 state the contract |
| `netfileserver.c`, connections | `newsockfd` of `main`, a socket per client | accept loop, one worker thread per connection: read, decode, serve, write | a reply goes to the client that asked |
| `netfileserver.c`, open files | `FD_Table[100]`, `tableMutex` | open, read, write, close | modes exclude each other (`canOpen`), every path unlocks what it locked, a write reaches what was opened for writing |
| `netfileserver.c`, queues | `queueTable[100]`, lists of `workNode`, `queueMutex` | `insertWorkNode`, `removeJob`, `addToQueueTable`, `nodeToStore`, `monitorThread` | a queued open is served; the two mutexes are taken in one order; nodes are freed once |
| `mymalloc*.c` | a list of blocks, a page table draft | `mymalloc`, `myfree`, `myallocate` | blocks tile the heap, no two overlap, free merges |
| `mmatrix.c` | the matrices, one struct per worker | create n workers, join them, check the product | a join that returns has waited for its worker |
| `mtsort.c` | the list, a mutex per element, `quitting` | a sorter per pair of neighbours, a checker, main | the list is sorted when it says so; everyone ends; mutexes outlive their users |
| Other clients and tests (`msimple.c`, `mallocTest.c`, `memgrind.c`, `testSizeof.c`) | - | call the libraries | they are the callers |

How they interact: the benchmarks call the thread library; the library is
entered a second time by SIGALRM, in the middle of whatever the process executes;
all of it runs on one kernel thread and shares `myScheduler`, the threads and the
mutexes. The file server uses real pthreads, a lock per table, and `sleep` loops
that poll the tables. The allocator is not linked to any of them.

Hard behaviours of the libraries: the signal handler that runs the scheduler on top of an
unfinished library call; the order of stores in calls that are not protected
against it; a list that is changed while it is walked; a flag that makes the
handler drop ticks; and a one-shot timer. Of the file server: workers that share
a variable of `main`, two mutexes, tables that are read without one, and paths
that lock and do not unlock. Of mtsort: what a thread has compared must still
hold when it acts on it. `PROJECT.json` lists each hazard at its
line.

## Modules

* `MyPthread` is the library. One processor, `cpu`, executes the code of one
  thread; `ctx[t]` is the context saved in `t`'s struct. Such a *continuation*
  is a record: whose code it is (`me`), the mutexes that code has locked
  (`held`), the statement of the library it is at (`pc`) with the locals of that
  call (`op`, `arg`, `thr`, `q`, `reg`, `from`), and the handler's `schedule()` on
  top of it (`irq`, `ifrom`). `swapcontext()` exchanges whole continuations
  (`Swap`), and a woken thread goes on inside the call it was in.
  * One action is one statement of `create`, `yield`, `exit`, `join`, `lock`,
    `unlock`, `enqueue` and `dequeue`; between any two of them `Signal` may put the
    handler on top. `q->rear->next = thread` is two actions, a load and a store.
  * `schedule()` runs with `inScheduler = 1`, where the handler returns at once,
    so it is cut only at its loop (`MaintSkip`, `MaintPromote`,
    `MaintNextLevel`) and where control divides: `SchedEnter` (294-305), one
    action for each outcome of 311-395 (`AllFinished`, `KeepAlone`,
    `KeepRunning`, `Requeue`, `Demote`, `Reap`, `Block`), `Dispatch`
    (`getNextThread` and the timer, 419-435), `Keep` and `SwapTail`
    (`inScheduler = 0`), `Swap` (441).
  * Time is counted in quanta of 50 ms. `schedule()` called by the handler
    charges at least one quantum, called by the thread itself it charges any number from 0
    (`Elapsed`); `timeRun` stops counting at the length of the slice, beyond
    which no code looks. A thread may be past `LIFETIME_THRESHOLD` at any visit
    of `maintenance()`, and stays so (`old`).
  * The client makes any call of `ClientCalls` in any order. It does not call the
    library before the first create (except lock and unlock, which work), does
    not relock a mutex it holds or unlock one it does not, does not exit with a
    mutex, and creates each struct once. Every thread ends by `my_pthread_exit`
    with a value of its own. `Nesting` says which mutexes it locks inside which.
* `MyPthreadProps` reads the queues as lists (`Chain`), states what the calls and
  comments promise, and the fairness.
* `MyPthreadTicks` adds the history variable `torn` and states what the queues and
  states promise, with the refinement mapping to `MLFQ`. The code masks no signal
  outside `schedule()`, and its queues do not survive every tick: one that
  falls between the stores of `enqueue()` or `dequeue()`, or between a test of `lock()`
  or `unlock()` and the store that relies on it (`Critical`), lets `schedule()`
  loose on a half-done update (`TearingTick`). `torn` remembers that this has
  happened, or that `schedule()` has returned into the `lock()` of a thread that
  waits, which then enqueues itself twice (`Recalled`). Nothing is masked, ticks fall
  there as anywhere, and the properties say what holds until one does (`Intact`).
  No action of `MyPthread` reads `torn`; `HSpec` is `Spec` with it.
* `MLFQ` is what the client is promised, without statements, contexts or
  signals: sequences of ready threads by level and of waiters by mutex.
* `MyPthreadInv` holds the inductive invariants of the contexts (`IInv`) and of
  the timer (`TInv`), `MyPthreadQueues` those of the queues (`ListInv`) and of
  the exit values (`JInv`). `MyPthreadProofs`, `MyPthreadTimerProofs`,
  `MyPthreadQueueProofs` and `MyPthreadRefinement` are the proofs, on top of one
  another; `MyPthreadListProofs` has the lemmas about linked lists they use.
* `MCMyPthread` and `MCMyPthreadTicks` instantiate them for TLC, without and with
  the history.

The file server:

* `NetFileServer` has a worker per connection, with a program counter (`pc`), and
  what they share as variables: `newsockfd`, `FD_Table`, `queueTable`, the two
  mutexes. An action is what the code does between two accesses to shared state.
  A mutex is taken when it is free, and only then (`LockTable`, `LockQueue`,
  `PollLocks`, `LockToClose`: the second lock of `NET_CLOSE` is a lock). The
  socket pointer is followed when `read` and `write` are called (`CallRead`,
  `Reply`). `createFD` is cut after its first store, because readers take no
  lock. A pointer that is NULL or wild ends the process (`Stop`), as does a
  failed `accept` (`AcceptFails`). `netFD` of a queued request was never
  written; it is any value of `Garbage`. What `open`, `close`, `read`, `write` return is
  an outcome.
* `NetFileServerProps` has the properties, the inductive invariant and the
  fairness, `NetFileServerProofs` the proofs, `MCNetFileServer` the requests
  TLC tries.

The sorting benchmark:

* `MtSort` is `mtsort.c` with every access to the list, to `quitting` and to a
  mutex a step of its own, as `make system` builds it: with
  `mypthread-system-override.h`, which turns the calls into those of pthread. Mutexes,
  threads and joins are therefore the system's. `make basic` links `src/msort/my_pthread.c`
  instead, and that copy excludes nobody: its `my_pthread_mutex_init` puts only the first
  mutex on its list (186-190), and `my_pthread_mutex_lock` of any other returns -1
  (204-207). What the runs and proofs say of `mtsort.c` is said of its own
  locking, over mutexes that exclude.
* `NeighbourSort` is what it implements: exchanges of neighbours that are out of
  order, until the list is sorted. `MtSortProps` maps the half stored pair to
  the exchanged one (`Settled`), and holds properties and invariant;
  `MtSortProofs` the proofs.

The earlier library with the matrix benchmark:

* `ThreeLevel` is `src/matrix/my_pthread.c` without its mutexes, statement by
  statement: `enqueue` and `dequeue` as written, `yield` as the scheduler, and a
  tick that is a `yield` on top of whatever it interrupts, calls of the library
  included (the code masks nothing; SIGALRM is blocked only while its handler is on
  the stack, `InHandler`). A thread's code is a stack of frames (`stack[t]`), each
  with the line it is at and its locals; `yield` calls `dequeue`, line 105 calls
  `exit`, `exit` calls `yield`. `running` is whose stack the processor is on,
  `current_thread` whom the library takes it to be, `ctx` which stack each struct refers
  to. The three come apart, which is what the runs are about. A context whose
  stack has run on since it was saved refers to frames that may have been overwritten:
  to resume it ends the process as "undefined" (`YieldSwapStale`).
* `MMatrix` EXTENDS it by `mmatrix.c`, `MMatrixProps` by the properties;
  `MMatrixProofs` has the proof.

In `MyPthread` a tick may fall between any two statements, with one exception named
`SlowTail`. TRUE lets a tick fall between the `setitimer()` of `schedule()` and the
`swapcontext()` or return after it, which takes a process that does not run for 50 ms;
FALSE is the usual case, and the only one the runs and proofs are about: with
TRUE `ContextOwner` fails (below). A thread's handler
leaves SIGALRM blocked until it returns, in a thread that is resumed inside it
as well: `Deliverable` demands `~InHandler`. In `ThreeLevel` there is no exception.

## Runs

| Run | Instance | Asks |
| --- | --- | --- |
| `PreemptedPair` | two threads, all calls | `IInv`, `TInv`, `TypeOK`, `ContextOwner`, `MutualExclusion`, `PreemptionArmed` |
| `QueuesAndLocks` | three threads, two levels; create, exit, lock, unlock | up to a tick that tears: `QueueIntegrity`, `Accounted`, `NoLostWakeup`, `FreedStackUnused`, `ExitedForGood`, and that the library implements `MLFQ` |
| `CircularWaits` | three threads, two mutexes in any order; create, exit, lock | up to a tick that tears: `AllFinishedIsTrue`, `SomebodyIsReady` |
| `Joins` | two threads, three levels; create, yield, exit, join | `JoinValue`; the polling loop of `join` ends (`JoinReturns`); a thread that yields at the best level starves nobody (`Scheduled`) |
| `LostBlocked` | two threads | **violated**: `BLOCKED` means "in waiting queue" (`my_pthread_t.h:20`) |
| `SkippedPromotion` | three threads that create | **violated**: maintenance serves each old thread (`my_pthread.c:239`, `251`) |
| `FileServer` | three connections, any of five requests each | `Inv`, `TypeOK`, `ModesExclude`, `QueueHolderRuns`, `MonitorNeverStarts`, `WritesReachOpenedFile`, `LockFreeAnswered` |
| `WrongConnection` | two connections | **violated**: the response goes back to the client (`netfileserver.c:387`) |
| `OpenNeverReturns` | two connections, fair mutexes | **violated**: an open returns a descriptor or -1 (`netfileserver.c:278`) |
| `Matrix` | n from 1 to 20 workers | `TypeOK`, `JoinWaits` |
| `NeverHappens` | n from 1 to 20 workers | **violated**: nothing of a worker runs after its exit (`mmatrix.c:50`) |
| `MtSort` | four elements | `Inv` (with `TypeOK`), `QuitSorted`, `AfterIsSorted`, `NothingLost`, `MutexesAlive`, `NoDeadlock`, `ExchangesEnd`, `QuitEnds`, and that it implements `NeighbourSort` |

In the runs of `MyPthread` a tick may fall between any two statements but the last
of `schedule()`, those after `setitimer()` (`SlowTail` is FALSE).
`QueuesAndLocks` and `CircularWaits` stop where a tick has torn
an update (`CONSTRAINT Intact`). That is sound: `torn` never becomes FALSE again, and
every property of these runs is premised by `Intact` (in the next state for those about steps), so that it
says nothing of what lies behind. What does lie behind it `LostBlocked` shows.

What the library promises is less than its messages say: in a circular wait
`schedule()` announces that all threads have finished when they wait for each other,
and gives the processor back to the thread that waits. `AllFinishedIsTrue` and
`SomebodyIsReady` say that nothing else brings either about.

The violations. In the library the calls outside `schedule()` are not protected
against the handler (`LostBlocked`). The same holds of the two stores of
`my_pthread_exit` (99-102): a tick between them switches away from an EXITED thread
for good, and join hands back NULL. `JoinValue` says that this
is the only way to lose a value. `SkippedPromotion` is a
sequential slip, `ptr` being advanced twice after a promotion. In the file
server `main` hands every worker the address of one variable
(`WrongConnection`), and no return of `ex_netopen` unlocks `tableMutex`
(`OpenNeverReturns`): one successful open is the last one, and a close locks the
table for ever. That is also why so much of the rest holds: at most one
entry of `FD_Table` is ever in use, `canOpen` refuses nothing but an open in
mode TRANSACTION without a name (the free entries have that name), and
`monitorThread`, which would free nodes without a lock, is never started. The
properties say what a repair of the unlocking must not lose: `ModesExclude`
breaks, and monitors start, if the table is unlocked between the check and the
store (the mutant `CheckThenUnlock`). In the earlier library the test that should keep a
finished thread out of the queues looks at the wrong thread. So a worker that a
tick interrupts in its exit is queued although it is DONE, and whoever meets it resumes
it without becoming it: it may return into its function (`NeverHappens`), and when control comes back,
line 105 ends whoever is current, main for one, although that thread has not called exit. main itself is
ACTIVE until its first join; a tick before that queues it, and the yield that finds it
ends the process ("should not happen", line 96). `JoinWaits` is what survives all of this: the
state a join polls is that of the struct it was passed, and a worker's struct becomes DONE only
after its own code has called exit: line 105 may end main, never a worker with rows to compute. "success" is reached with one and two workers, and with three
or more the process always ends otherwise or polls for ever, because `enqueue`
does not advance `tail`.

Bounds. `MyPthread`: two or three threads, one mutex or two, two levels (three where
waiting on a level matters) and maintenance at every call of `schedule()` (every second one in
`CircularWaits`). Two
threads suffice for each race found here, because one race is between a thread
and the handler; three are needed for a list in which a thread is neither front
nor rear (the middle removal of `maintenance`, a waiter behind a waiter), and for a thread that
is ready while two others wait. With
`MAINTENANCE_THRESHOLD = 1` each call walks the levels, which includes
what fewer passes do: a visited thread may always be too young. The calls are
divided between the runs, since all of them with three threads and ticks everywhere are
more than minutes allow: `PreemptedPair` has all calls with two threads, `QueuesAndLocks`
those that move threads between run and wait queues (ticks move them between levels),
`CircularWaits` (where no mutex is given back) those that bring about a circle; the proofs have
all of them at once. `Joins` has two
threads, one that yields or joins and one that waits below it; with three the
liveness check has millions of states and does not end within minutes. In `SkippedPromotion` the client only creates, to keep the
counterexample short.

`NetFileServer`: three connections (`MAX_CONNS`), so that a worker can hold the
table, another wait, and a third act without a lock; two slots and two queues,
one more than any run of the code uses; two garbage values, so that two queued
requests may or may not have the same one. The requests are an open that
excludes itself, an open without a name, and read, write and close of a slot.
`MMatrix`: the bound `MAX_THREAD = 20` is the program's own; `MAX_FRAMES = 8` is the
number of frames on a stack up to which line 105 calls `exit` again: a worker that is
DONE may be resumed and come back for ever, each time one call deeper. `MtSort`: four
elements, which gives sorters that share no mutex, and one that shares both.
Every invariant and action property of the passing runs but `JoinWaits` is also
proved (below), for all values of the constants, the refinements of `MLFQ` and
`NeighbourSort` included. No other state is cut off: nothing else in
the models counts without bound.

Deadlock is checked in the passing runs of `MyPthread` and `MtSort`: after the
last exit or a NULL store `Halted` stutters, after main's last line `Ended` does, and
everywhere else some step is possible. In `MyPthread`
`Dispatch` has no action for empty run queues, where the C code would
store through NULL at line 423; `SomebodyIsReady` says that the case does not
occur. In `MtSort` `NoDeadlock` says that the order in which sorters and checker take
mutexes leaves nobody waiting for ever. The file server really stops, with every
worker waiting for `tableMutex`, and the process of `MMatrix` ends: their runs
say `CHECK_DEADLOCK FALSE`.

Fairness of `MyPthread` (`Fairness` in `MyPthreadProps`). `schedule()` goes on
until it returns (WF of `Scheduling`). A thread that has the processor takes its
own steps although ticks interrupt it: 50 ms is time for many statements (SF of
`OwnStep(t)`). An armed timer fires (SF of `Signal`). Time passes: a thread that
keeps running exhausts its slice (SF of `Demote`), and a thread that
`maintenance()` visits again and again is old enough at some visit (SF of
`MaintPromote` for that thread). Nothing is assumed of the client: it may stop
calling or call forever. Of the file server: the kernel schedules each worker
(WF); `OpenNeverReturns` grants even fair mutexes (SF), so that what it shows is
not a lack of fairness. Of `MtSort`: threads that can go on do (WF). A thread that waits
for a mutex is not promised to get it before others do, so nothing says that the list is ever sorted;
`QuitEnds` says that once it is and `quitting` is set, main ends.

## Proofs

`MyPthreadProofs` proves, for any sets of threads and mutexes, any number of
levels from 2 and any maintenance threshold, wherever ticks fall if `~SlowTail`:

* `Invariance`: `Spec => []IInv`
* `TypeCorrect`: `Spec => []TypeOK`
* `ContextsOwned`: `Spec => []ContextOwner`
* `MutexSafe`: `Spec => []MutualExclusion`

The assumptions are those of `MyPthread`: `Main` is a thread, `NULL` is neither a
thread nor a queue, a level is not a mutex, `RUN_QUEUES >= 2`. `~SlowTail` is
needed: with `SlowTail = TRUE` in `PreemptedPair.cfg` TLC finds `ContextOwner`
violated, by a handler that saves one thread's code in the next one's struct.

Neither `ContextOwner` nor `MutualExclusion` is inductive. The invariant `IInv`
adds what the code relies on without saying so:

* `CallOK`: at each statement the locals of the call are what the statement
  takes them for (`lock` runs for a mutex the thread does not hold, `unlock` for one it
  holds). It is stated for the running and for all saved contexts, because a
  tick may turn the one into the other at any statement.
* `SavedOK`: a saved context is never inside `schedule()` or the handler.
* `ScheduleOK`: the handler is never on top of `schedule()` once that has set
  `inScheduler`; this is the point of the flag.
* `BeforeTimer`: until the first `create` has armed the timer only `main` runs, so
  `currentThread` may be NULL without being read.
* `DequeueOK`: between `unlock`'s test of the wait queue and `dequeue`'s read the front
  does not become NULL. It needs `MutualExclusion`: only the holder dequeues.

The mutual exclusion argument: `TestAndSet` takes a mutex only if its flag is 0, which by
the invariant says that no context holds it; `Release` clears the flag and gives up
the only holding; every other step moves continuations around without changing
what they hold. Lock and unlock may lose threads to a tick, never the exclusion.

The proof has a lemma per action. Lemmas on what a step leaves alone
(`LocalFrame`, `HeldFrame`, `DequeueFrame`, `ScheduleKeeps`, `SwapOutKeeps`,
`ReturnKeeps`) carry the conjuncts an action does not disturb.

### The timer

`MyPthreadTimerProofs` proves `Preemption` (`Spec => []PreemptionArmed`), under
the same assumptions. `TInv` adds to the property why it holds: `inScheduler`
is set only between the entry of `schedule()` and its `inScheduler = 0`, and
from the label `keep` or `tail` on the timer has been started (`TimerOK`);
and a thread that is EXITED is in `my_pthread_exit`, at a statement that does not
return to the client (`ExitOK`). So outside `schedule()` nothing needs to be
shown of a statement but that it leaves the timer alone, and a tick that
the handler drops falls where `schedule()` has yet to start the timer.
`Timers` is the invariant itself (`Spec => []TInv`).

### The queues

`MyPthreadQueueProofs` proves, for any sets of threads (finite), mutexes and
levels, any client and any ticks, if `~SlowTail`:

* `Queueing`: `HSpec => [](IInv /\ TInv /\ (Intact => ListInv))`
* `QueuesIntact`, `AllAccounted`, `WakeupsKept`, `FinishedTrue`, `ReadyToRun`,
  `StacksFreed`, `ExitsAreFinal`: the properties of the runs `QueuesAndLocks` and
  `CircularWaits` (`QueueIntegrity`, `Accounted`, `NoLostWakeup`, `AllFinishedIsTrue`,
  `SomebodyIsReady`, `FreedStackUnused`, `ExitedForGood`)
* `JoinsReturnValue`: `Spec => []JoinValue`

Nothing is assumed of where ticks fall and of the order in which mutexes are locked. What
the first group says ends with the first tick that tears an update, and that is where the
queues end in the code (`LostBlocked`): ticks at every other statement, those inside create, exit,
join, yield, lock and unlock included, are part of the theorems. The other end of `Intact` is the circular
wait. Let two threads hold a mutex each and wait for the other's.
Then `schedule()` finds nobody ready and returns to the BLOCKED thread that
called it (line 321), and `lock()` enqueues it a second time, behind itself. `ReadyToRun`
says that this takes a circular wait. `JoinsReturnValue` has no such end: torn queues may
keep a join from returning, not make it return another value. Its invariant is `JInv`: an EXITED thread
has its value stored or stands before the store.

The properties speak of `Chain(q)`, what one sees following the pointers from the front; an
invariant about paths would take induction at every step. `QueueInv(where,
place)` speaks of two functions instead: the queue each thread's list
is in, and a number that orders the threads of a queue. `Lists` says that the
front is the first, the successor the next one and the rear the last in that
order. Each store of `enqueue`, `dequeue`, `maintenance` and `getNextThread`
changes `where` and `place` at one thread (lemmas `ListAppend` and `ListUnlink` in
`MyPthreadListProofs`), and an order with one thread more at its end or one
less is an order. That `Chain` follows it is shown last (`ChainsAre`), by the
numbers growing along the links: the threads met from the front are different
ones, hence at most as many as there are threads, and `Path` has them all
(`OnePath`, an induction over their number). `ListInv` says that such functions exist.

Between the stores the lists are broken, so that `Lists` is about `Ends` and
`Links`: `rear` and `next` as they will be once the call in progress has made
the stores it is about to make. The rest of `QueueInv` ties the lists to everything else:
`Placed` (the queue of each state, except for the thread in the hand of a call),
`CarryOK` (what that hand is), `MaskOK` (no thread is suspended at a critical
statement), `CurrentOK` (states of the current thread by label of `schedule()`),
`WalkOK` (`maintenance` walks a list of its level, with its predecessor in
`prev`), `HolderOK`, `WakeOK` and `FreedOK`.

Three arguments are worth reading. `NoLostWakeup`: `unlock` moves one waiter
before it clears the flag, that waiter is on its way to the test-and-set, and
whoever takes the mutex before it will unlock again. `NoneReady`, behind
`AllFinishedIsTrue`: suppose nobody is ready, the current thread cannot go on, and somebody
is BLOCKED. Take the mutexes that are waited for. If the flag of one is not set, a waiter is
awake, and would be ready. So each has a holder, who has not exited and is not ready, hence is BLOCKED,
and waits for a mutex of the same set: a `CircularWait`. `SomebodyIsReady` is about the two
places where `schedule()` relies on somebody being there: at its switch on a BLOCKED thread
`NoneReady` says so, or `lock()` would get the thread back; and at
`getNextThread()` somebody is ready, because what `checkNextThread()` saw is still queued or
the current thread has just been enqueued (`ToNext`, `EnqueueReady`).

### The feedback queue

`MyPthreadRefinement` proves `MLFQImplemented`: `HSpec => ImplementsMLFQ`, for the
same constants, clients and ticks, on top of `Queueing`: every step up to the first
tick that tears is a step of `MLFQ` or a stutter. `MLFQ` has
sequences, the library pointers, so the proof is about what a store does to
`Chain(q)` as a sequence: `ChainAppends` (a thread is linked behind the last),
`ChainTail` (the front is taken) and `ChainPromotes` (one in the middle is cut
out and goes to the end of level 0) say which queue changes and how; every other queue
keeps its `Chain` because its threads are in no other (`Members`, from
`ListInv`). Two paths from one front are the same (`SamePath`), so it is enough to exhibit a
path after the step.

The mapping has two points that are not a matter of pointers. A waiter that `unlock`
has taken off its list waits in `MLFQ` until `enqueue` links it to a run
queue (`Waking`); and a thread that `lock` has put into the list of a mutex runs in `MLFQ`
until `schedule` takes the processor from it (`Parked`). `AbsWaiting` recognizes the
second by the thread at the end of the list being the current one; that this
happens in `lock` only, from its store of `rear` to the switch, is `WaitersOK`
(it needs `TailOK`: `rear` stays at that thread until then). Then each action has its step:

| Code | `MLFQ` |
|---|---|
| `EnqFront` or `EnqLink` of create, of unlock | `Create`, `Wake` |
| `Requeue`, `Demote`, `Reap`, `Block` | `Yield`, `Expire`, `Exit`, `Wait` |
| `MaintPromote` | `Boost` |
| `DispatchFrom(i)` | `Dispatch(i)` |
| everything else, `EnqFront` and `EnqLink` of lock included | stutters |

### The file server

`NetFileServerProofs` proves, for any number of connections, any set of
requests, tables of any size and any garbage: `Invariance` (`[]Inv`),
`TypeCorrect`, `ModesExclusive` (`ModesExclude`), `QueueHolderNeverWaits`
(`QueueHolderRuns`), `MonitorsNeverStart` (`MonitorNeverStarts`) and `WritesReach`
(`WritesReachOpenedFile`). The assumptions are those of `NetFileServer`.

None of the four properties is inductive. `Inv` says who holds the mutexes at
each statement (`MutexesHeld`); that a used entry of `FD_Table` is the one of the
worker that has the table, and that it keeps it (`TableOK`, `UsedEntry`); hence
that whoever has the table and has not stored yet finds it empty (lemma
`TableFree`), so `canOpen` refuses exactly the opens in mode TRANSACTION without a name (lemma
`OpensUnlessNoName`), and these meet a queue that has their empty name already
(`QueuesOK`); and that what `ex_netwrite` has tested of an entry is not undone
before it uses it (`TransfersOK`). There is a lemma per action, and in it a step
per conjunct.

### mtsort

`MtSortProofs` proves for lists of any length: `Invariance` (`[]Inv`),
`TypeCorrect`, `SortedOnceQuitting` (`QuitSorted`), `SortedAfter`
(`AfterIsSorted`), `ElementsKept` (`NothingLost`), `ExchangesFewer`
(`ExchangesEnd`), `MutexesOutliveThreads` (`MutexesAlive`), `NobodyStuck`
(`NoDeadlock`) and `Refinement` (`Spec => ImplementsSort`). `Inv` says who holds
which mutex (`Held`) and that nobody else does (`Owned`), that what a
sorter or the checker has compared still holds when it acts on it (`SwapOK`,
`CheckOK`), and which threads and mutexes there are, by what main does
(`LifeOK`, `StartedOK`). In the refinement the first store of a pair is the exchange, all
other steps stutter, and setting `quitting` is `Finish`.

The rest follows from that. Between two stores the list has an element twice;
`Settled` is the list as if both stores were done, and every step leaves it alone or
exchanges two neighbours that are out of order (`StepExchanges`). So it stays a
bijection onto 1 to N (`ExchangePermutes`); and since only one of these is
sorted (`SortedPermutation`), `AfterIsSorted` can say which list main has at the end.
That exchanges end: with the two positions mirrored, each inversion of the new list is one of
the old, and the exchanged pair is hit by none (`ExchangeInverts`). `NobodyStuck`: of the
mutexes somebody waits for take the last. Its holder, if it waits, waits
for a later one; hence it does not wait.

### The matrix benchmark

`MMatrixProofs` proves for any `MAX_THREAD`, wherever ticks fall: `TypeCorrect`
(`[]TypeOK`). The library underneath loses threads, and two `yield`s may run on one queue or one
struct at once; what stays is that every index into `MLQ_Running` is a level (two
yields may raise one priority at the same time, each of them writes a capped value), that a
context which is resumed is that of a thread that has been created (`CreatedOK`), and that
each frame's locals are what its statement takes them for (`FrameOK`), which for a stack of
frames includes that `dequeue` returns to line 96 and nowhere else (`StackOK`).

### Only model-checked

* Liveness: `JoinReturns`, `Scheduled`, `LockFreeAnswered`, `QuitEnds`
  (out of reach of the provers).
* `JoinWaits`, for 1 to 20 workers and stacks of up to eight frames.
* That a model can always take a step, which is
  ENABLED of its next-state relation (what could stop it is `SomebodyIsReady` and
  `NoDeadlock`, both proved).

Neither checked nor proved: `SlowTail = TRUE`.

## Not modelled, and the plan

Within the library: failures of `malloc` and `getcontext`, the 4096-byte stack,
`uc_link = NULL` (a thread function that returns ends the process), reuse of a
struct, `my_pthread_mutex_destroy` (changes nothing), a second `init` of a mutex.

Of the file server: reads that fail or return in pieces, clients that reset a
connection, the values returned by `read` and `write`, reuse of descriptors by the
operating system, the body of `monitorThread` (it never starts). `deleteFD` frees an
entry in one step; readers could see it half freed, if it were ever a used one:
a close that gets the table finds it empty (lemma `TableFree`).
Of the earlier library: its mutexes, what a stale context does when it is resumed, and
what the copy in `src/msort` does otherwise.

Not modelled at all: `mymalloc.c` and `mymalloc.old.c` are drafts that do not
compile, so they have no behaviour to be faithful to; `memgrind.c`,
`mallocTest.c` and `testSizeof.c` are straight-line callers of them, `msimple.c` is the
one-thread case of `MMatrix`.

Next: the mutexes of the earlier library (a list of nodes, a lock that re-enqueues
its caller), composed with `MtSort` in place of the header's promise.
