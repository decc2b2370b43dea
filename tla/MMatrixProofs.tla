---------------------------- MODULE MMatrixProofs ----------------------------
(* Type correctness of the earlier library under mmatrix.c, wherever ticks    *)
(* fall: every index into MLQ_Running is a level, and what the library        *)
(* follows or loads is a thread.                                              *)
EXTENDS MMatrixProps, SequenceTheorems, TLAPS

EnqueueLabels == {"327", "328", "334", "336", "337"}
DequeueLabels == {"342", "343", "344", "345", "348", "349", "350"}

\* What the locals of a frame are at its statement.
FrameOK(f) ==
  /\ f.at \in EnqueueLabels => f.level \in Levels /\ f.node \in Threads
  /\ f.at \in DequeueLabels \cup {"96", "99"} => f.level \in Levels
  /\ f.at \in {"79", "80", "83", "84", "87", "89", "93", "96", "99", "102",
               "104", "105", "112", "113"} => f.curr \in Threads
  /\ f.at \in {"99", "102", "104", "105", "112", "113"} => f.node \in Threads
  /\ f.at \in {"170", "171", "172"} => f.node \in Workers

Sound == {f \in Frames : FrameOK(f)}

\* Only yield() calls dequeue(), at line 95.
StackOK(s) ==
  /\ s \in Seq(Sound)
  /\ \A k \in 1 .. Len(s) : s[k].at \in DequeueLabels =>
       k + 1 \in 1 .. Len(s) /\ s[k + 1].at = "96"

\* Nothing runs, and nothing can be resumed, that has not been created.
CreatedOK ==
  /\ running \in 0 .. created
  /\ ctx \in [Threads -> (0 .. created) \cup {NULL}]

ClientOK ==
  /\ pc \in [Threads -> {"create", "join", "joining", "check", "mm", "exit", "exited"}]
  /\ pc[Main] = "create" => created < n /\ joined = 0
  /\ pc[Main] \in {"join", "joining"} => joined < n
  /\ \A w \in Workers : pc[w] \in {"mm", "exit", "exited"}

QueueSet == [head : Pointers, tail : Pointers, size : Int]

\* The rest of TypeOK.
LibraryOK ==
  /\ MLQ_Running \in [Levels -> QueueSet]
  /\ next \in [Threads -> Pointers]
  /\ status \in [Threads -> {"ACTIVE", "RUNNING", "PAUSED", "BLOCKED", "DONE"}]
  /\ priority \in [Threads -> Levels]
  /\ parent \in [Threads -> Pointers]
  /\ current_thread \in Threads
  /\ armed \in BOOLEAN
  /\ outcome \in {"runs", "crash", "exit(1)", "undefined",
                  "success", "errors", "worker returned"}

CountsOK ==
  /\ n \in Workers /\ created \in 0 .. n /\ joined \in 0 .. n
  /\ computed \subseteq 1 .. n

StacksOK ==
  /\ stack \in [Threads -> Seq(Frames)]
  /\ \A t \in Threads : StackOK(stack[t])

Inv == LibraryOK /\ CountsOK /\ StacksOK /\ CreatedOK /\ ClientOK

-----------------------------------------------------------------------------
(* Stacks. *)

LEMMA TailOK ==
  ASSUME NEW s, StackOK(s), s # <<>>
  PROVE  Head(s) \in Sound /\ StackOK(Tail(s))
<1>1. /\ Head(s) \in Sound /\ Tail(s) \in Seq(Sound)
      /\ Len(s) \in Nat /\ Len(Tail(s)) = Len(s) - 1
      /\ \A i \in 1 .. Len(Tail(s)) : Tail(s)[i] = s[i + 1]
  BY HeadTailProperties, LenProperties DEF StackOK
<1>2. \A k \in 1 .. Len(Tail(s)) : Tail(s)[k].at \in DequeueLabels =>
         k + 1 \in 1 .. Len(Tail(s)) /\ Tail(s)[k + 1].at = "96"
  <2> SUFFICES ASSUME NEW k \in 1 .. Len(Tail(s)), Tail(s)[k].at \in DequeueLabels
               PROVE  k + 1 \in 1 .. Len(Tail(s)) /\ Tail(s)[k + 1].at = "96"
    OBVIOUS
  <2>1. k + 1 \in 1 .. Len(s) /\ s[k + 1].at \in DequeueLabels
    BY <1>1
  <2>2. k + 2 \in 1 .. Len(s) /\ s[k + 2].at = "96"
    BY <1>1, <2>1 DEF StackOK
  <2> QED BY <1>1, <2>2
<1> QED BY <1>1, <1>2 DEF StackOK

LEMMA PushOK ==
  ASSUME NEW s, StackOK(s), NEW f \in Sound,
         f.at \in DequeueLabels => s # <<>> /\ Head(s).at = "96"
  PROVE  StackOK(<<f>> \o s)
<1> DEFINE p == <<f>> \o s
<1>1. /\ <<f>> \in Seq(Sound) /\ Len(<<f>>) = 1 /\ <<f>>[1] = f
      /\ s \in Seq(Sound) /\ Len(s) \in Nat
  BY LenProperties DEF StackOK
<1>2. /\ p \in Seq(Sound) /\ Len(p) = 1 + Len(s)
      /\ p[1] = f /\ \A k \in 2 .. Len(p) : p[k] = s[k - 1]
  BY <1>1, ConcatProperties
<1> HIDE DEF p
<1>3. ASSUME NEW k \in 1 .. Len(p), p[k].at \in DequeueLabels
      PROVE  k + 1 \in 1 .. Len(p) /\ p[k + 1].at = "96"
  <2>1. CASE k = 1
    <3>1. s # <<>> /\ Head(s).at = "96"
      BY <1>2, <1>3, <2>1
    <3>2. Len(s) >= 1 /\ Head(s) = s[1]
      BY <1>1, <3>1, EmptySeq, HeadTailProperties
    <3> QED BY <1>1, <1>2, <2>1, <3>1, <3>2
  <2>2. CASE k # 1
    <3>1. k - 1 \in 1 .. Len(s) /\ s[k - 1].at \in DequeueLabels
      BY <1>1, <1>2, <1>3, <2>2
    <3>2. k \in 1 .. Len(s) /\ s[k].at = "96"
      BY <1>1, <3>1 DEF StackOK
    <3> QED BY <1>1, <1>2, <2>2, <3>2
  <2> QED BY <2>1, <2>2
<1> QED BY <1>2, <1>3 DEF StackOK, p

LEMMA PushedIsHead ==
  ASSUME NEW s, StackOK(s), NEW f \in Sound
  PROVE  <<f>> \o s # <<>> /\ Head(<<f>> \o s) = f
<1>1. <<f>> \in Seq(Sound) /\ s \in Seq(Sound) /\ Len(<<f>>) = 1 /\ <<f>>[1] = f /\ Len(s) \in Nat
  BY LenProperties DEF StackOK
<1>2. Len(<<f>> \o s) = 1 + Len(s) /\ (<<f>> \o s)[1] = f /\ <<f>> \o s \in Seq(Sound)
  BY <1>1, ConcatProperties
<1>3. <<f>> \o s # <<>>
  BY <1>1, <1>2, EmptySeq
<1> QED BY <1>2, <1>3, HeadTailProperties

LEMMA CallOK ==
  ASSUME NEW s, StackOK(s), NEW f \in Sound, NEW g \in Sound,
         g.at \notin DequeueLabels, f.at \in DequeueLabels => g.at = "96"
  PROVE  StackOK(<<f, g>> \o s)
<1> DEFINE p == <<f, g>> \o s
<1>1. /\ <<f, g>> \in Seq(Sound) /\ Len(<<f, g>>) = 2 /\ <<f, g>>[1] = f /\ <<f, g>>[2] = g
      /\ s \in Seq(Sound) /\ Len(s) \in Nat
  BY LenProperties DEF StackOK
<1>2. /\ p \in Seq(Sound) /\ Len(p) = 2 + Len(s)
      /\ p[1] = f /\ p[2] = g /\ \A k \in 3 .. Len(p) : p[k] = s[k - 2]
  BY <1>1, ConcatProperties
<1> HIDE DEF p
<1>3. ASSUME NEW k \in 1 .. Len(p), p[k].at \in DequeueLabels
      PROVE  k + 1 \in 1 .. Len(p) /\ p[k + 1].at = "96"
  <2>1. CASE k \in {1, 2}
    BY <1>1, <1>2, <1>3, <2>1
  <2>2. CASE k \notin {1, 2}
    <3>1. k - 2 \in 1 .. Len(s) /\ s[k - 2].at \in DequeueLabels
      BY <1>1, <1>2, <1>3, <2>2
    <3>2. k - 1 \in 1 .. Len(s) /\ s[k - 1].at = "96"
      BY <1>1, <3>1 DEF StackOK
    <3> QED BY <1>1, <1>2, <2>2, <3>2
  <2> QED BY <2>1, <2>2
<1> QED BY <1>2, <1>3 DEF StackOK, p

-----------------------------------------------------------------------------
(* What a step does to the stack it is on. *)

LEMMA Arithmetic ==
  ASSUME Inv
  PROVE  /\ MAX_THREAD \in Nat /\ running \in Threads
         /\ \A t \in 0 .. created : t \in Threads
         /\ ctx \in [Threads -> Pointers]
BY ThreadAssumption DEF Inv, CountsOK, CreatedOK, Threads, Workers, Main, Pointers, NULL

LEMMA NewStack ==
  ASSUME StacksOK, running \in Threads, NEW s, StackOK(s), Stack(s)
  PROVE  StacksOK'
<1>1. s \in Seq(Frames)
  BY SeqMonotonic DEF StackOK, Sound
<1> QED BY <1>1 DEF StacksOK, Stack

LEMMA NotEmpty ==
  ASSUME NEW S, NEW q \in Seq(S), 1 \in 1 .. Len(q)
  PROVE  q # <<>> /\ Head(q) = q[1]
<1>1. Len(q) \in Nat /\ Len(q) # 0
  BY LenProperties
<1>2. Len(<<>>) = 0
  BY EmptySeq
<1>3. q # <<>>
  BY <1>1, <1>2
<1> QED BY <1>3, HeadTailProperties

LEMMA TopOK ==
  ASSUME StacksOK, running \in Threads, stack[running] # <<>>
  PROVE  /\ Top \in Sound /\ StackOK(Below)
         /\ Top.at \in DequeueLabels => Below # <<>> /\ Head(Below).at = "96"
<1>1. StackOK(stack[running])
  BY DEF StacksOK
<1>2. Top \in Sound /\ StackOK(Below)
  BY <1>1, TailOK DEF Top, Below
<1>3. ASSUME Top.at \in DequeueLabels
      PROVE  Below # <<>> /\ Head(Below).at = "96"
  <2> DEFINE s == stack[running]
  <2>1. /\ s \in Seq(Sound) /\ Len(s) \in Nat \ {0} /\ Head(s) = s[1]
        /\ Tail(s) \in Seq(Sound) /\ Len(Tail(s)) = Len(s) - 1
        /\ \A i \in 1 .. Len(Tail(s)) : Tail(s)[i] = s[i + 1]
    BY <1>1, HeadTailProperties, EmptySeq, LenProperties DEF StackOK
  <2>2. 2 \in 1 .. Len(s) /\ s[2].at = "96"
    BY <1>1, <1>3, <2>1 DEF StackOK, Top
  <2>3. 1 \in 1 .. Len(Tail(s)) /\ Tail(s)[1] = s[2]
    BY <2>1, <2>2
  <2>4. Tail(s) # <<>> /\ Head(Tail(s)) = Tail(s)[1]
    BY <2>1, <2>3, NotEmpty
  <2> QED BY <2>2, <2>3, <2>4 DEF Below
<1> QED BY <1>2, <1>3

LEMMA BecomeOK ==
  ASSUME StacksOK, running \in Threads, stack[running] # <<>>,
         NEW f \in Sound, Become(f),
         f.at \in DequeueLabels => Top.at \in DequeueLabels
  PROVE  StacksOK'
<1>1. StackOK(<<f>> \o Below)
  BY TopOK, PushOK
<1> QED BY <1>1, NewStack DEF Become

LEMMA ReturnOK ==
  ASSUME StacksOK, running \in Threads, stack[running] # <<>>, Return
  PROVE  StacksOK'
BY TopOK, NewStack DEF Return

LEMMA CallStackOK ==
  ASSUME StacksOK, running \in Threads, stack[running] # <<>>,
         NEW f \in Sound, NEW l, Call(f, l), [Top EXCEPT !.at = l] \in Sound,
         l \notin DequeueLabels, f.at \in DequeueLabels => l = "96"
  PROVE  StacksOK'
<1>1. Top \in Frames
  BY TopOK DEF Sound
<1>2. [Top EXCEPT !.at = l].at = l
  BY <1>1 DEF Frames
<1>3. StackOK(<<f, [Top EXCEPT !.at = l]>> \o Below)
  BY <1>2, TopOK, CallOK
<1> QED BY <1>3, NewStack DEF Call

LEMMA ReturnsOK ==
  ASSUME StacksOK, running \in Threads, stack[running] # <<>>,
         Top.at \in DequeueLabels, NEW t \in Pointers, Returns(t)
  PROVE  StacksOK'
<1>1. StackOK(Below) /\ Below # <<>> /\ Head(Below).at = "96"
  BY TopOK
<1>2. Head(Below) \in Sound /\ StackOK(Tail(Below))
  BY <1>1, TailOK
<1>3. Below[1] = Head(Below)
  BY <1>1 DEF Head
<1>4. [Below[1] EXCEPT !.node = t] \in Sound /\ [Below[1] EXCEPT !.node = t].at = "96"
  BY <1>1, <1>2, <1>3 DEF Sound, Frames, FrameOK, EnqueueLabels, DequeueLabels
<1>5. StackOK(<<[Below[1] EXCEPT !.node = t]>> \o Tail(Below))
  BY <1>2, <1>4, PushOK DEF DequeueLabels
<1> QED BY <1>5, NewStack DEF Returns

-----------------------------------------------------------------------------
(* enqueue() and dequeue().  LibraryStep is what a step of the library keeps   *)
(* while it leaves main and the workers alone.                                *)

LEMMA Labelled ==
  ASSUME Inv, NEW l, At(l)
  PROVE  /\ running \in Threads /\ stack[running] # <<>> /\ StacksOK
         /\ Top \in Frames /\ FrameOK(Top) /\ Top.at = l
BY Arithmetic, TopOK DEF Inv, At, Sound

LEMMA LabelOK ==
  ASSUME Inv, NEW l, At(l), NEW m \in Labels, Goto(m),
         FrameOK([Top EXCEPT !.at = m]),
         m \in DequeueLabels => l \in DequeueLabels
  PROVE  StacksOK'
<1>1. [Top EXCEPT !.at = m] \in Sound /\ [Top EXCEPT !.at = m].at = m
  BY Labelled DEF Sound, Frames
<1> QED BY <1>1, Labelled, BecomeOK DEF Goto

LEMMA EnqueueStep ==
  ASSUME Inv, EnqueueTest \/ EnqueueFirst \/ EnqueueLink \/ EnqueueLast
  PROVE  StacksOK'
<1> USE Labelled DEF FrameOK, Frames, EnqueueLabels, DequeueLabels, Labels
<1>1. CASE EnqueueTest
  <2>1. CASE Queue.size = 0
    BY <1>1, <2>1, LabelOK DEF EnqueueTest
  <2>2. CASE Queue.size # 0
    BY <1>1, <2>2, LabelOK DEF EnqueueTest
  <2> QED BY <2>1, <2>2
<1>2. CASE EnqueueFirst
  BY <1>2, LabelOK DEF EnqueueFirst
<1>3. CASE EnqueueLink
  BY <1>3, LabelOK DEF EnqueueLink
<1>4. CASE EnqueueLast
  BY <1>4, LabelOK DEF EnqueueLast
<1> QED BY <1>1, <1>2, <1>3, <1>4

LEMMA EnqueueCountStep ==
  ASSUME Inv, EnqueueCount
  PROVE  StacksOK'
BY Labelled, ReturnOK DEF EnqueueCount

LEMMA DequeueStep ==
  ASSUME Inv,
         \/ DequeueFront \/ DequeueTest \/ DequeueCountLast \/ DequeueClear
         \/ DequeueAdvance \/ DequeueUnlink \/ DequeueCount
  PROVE  StacksOK'
<1> USE Labelled DEF FrameOK, Frames, EnqueueLabels, DequeueLabels, Labels
<1>1. CASE DequeueFront
  <2>1. Queue.head \in Pointers
    BY <1>1 DEF DequeueFront, Inv, LibraryOK, Queue, QueueSet
  <2>2. [Top EXCEPT !.at = "343", !.node = Queue.head] \in Sound
    BY <1>1, <2>1 DEF DequeueFront, Sound
  <2> QED BY <1>1, <2>2, BecomeOK DEF DequeueFront
<1>2. CASE DequeueTest
  <2>1. CASE Queue.size = 1
    BY <1>2, <2>1, LabelOK DEF DequeueTest
  <2>2. CASE Queue.size # 1
    BY <1>2, <2>2, LabelOK DEF DequeueTest
  <2> QED BY <2>1, <2>2
<1>3. CASE DequeueCountLast
  BY <1>3, LabelOK DEF DequeueCountLast
<1>4. CASE DequeueClear
  <2>1. Top.node \in Pointers
    BY <1>4 DEF DequeueClear
  <2> QED BY <1>4, <2>1, ReturnsOK DEF DequeueClear
<1>5. CASE DequeueAdvance
  BY <1>5, LabelOK DEF DequeueAdvance
<1>6. CASE DequeueUnlink
  BY <1>6, LabelOK DEF DequeueUnlink
<1>7. CASE DequeueCount
  <2>1. Top.node \in Pointers
    BY <1>7 DEF DequeueCount
  <2> QED BY <1>7, <2>1, ReturnsOK DEF DequeueCount
<1> QED BY <1>1, <1>2, <1>3, <1>4, <1>5, <1>6, <1>7

LEMMA YieldLabels ==
  ASSUME Inv,
         \/ YieldTestRunning \/ YieldPause \/ YieldTestDone \/ YieldParent
         \/ YieldLower \/ YieldTestActive \/ YieldAssign
  PROVE  StacksOK'
<1> USE Labelled DEF FrameOK, Frames, EnqueueLabels, DequeueLabels, Labels
<1>1. CASE YieldTestRunning
  <2>1. CASE status[Top.curr] = "RUNNING"
    BY <1>1, <2>1, LabelOK DEF YieldTestRunning
  <2>2. CASE status[Top.curr] # "RUNNING"
    BY <1>1, <2>2, LabelOK DEF YieldTestRunning
  <2> QED BY <2>1, <2>2
<1>2. CASE YieldPause
  BY <1>2, LabelOK DEF YieldPause
<1>3. CASE YieldTestDone
  <2>1. CASE status[Top.curr] = "DONE"
    BY <1>3, <2>1, LabelOK DEF YieldTestDone
  <2>2. CASE status[Top.curr] # "DONE"
    BY <1>3, <2>2, LabelOK DEF YieldTestDone
  <2> QED BY <2>1, <2>2
<1>4. CASE YieldParent
  BY <1>4, LabelOK DEF YieldParent
<1>5. CASE YieldLower
  BY <1>5, LabelOK DEF YieldLower
<1>6. CASE YieldTestActive
  <2>1. Top.node \in Threads
    BY <1>6 DEF YieldTestActive, Pointers
  <2> QED BY <1>6, <2>1, LabelOK DEF YieldTestActive
<1>7. CASE YieldAssign
  BY <1>7, LabelOK DEF YieldAssign
<1> QED BY <1>1, <1>2, <1>3, <1>4, <1>5, <1>6, <1>7

LEMMA YieldFrames ==
  ASSUME Inv,
         \/ YieldCurrent \/ YieldPriority \/ YieldScan \/ YieldTestBlocked
         \/ YieldEnqueue \/ YieldExits \/ YieldTimer
  PROVE  StacksOK'
<1> USE Labelled, Arithmetic DEF FrameOK, Frames, EnqueueLabels, DequeueLabels, Labels
<1>1. CASE YieldCurrent
  <2>1. [Top EXCEPT !.at = "79", !.curr = current_thread] \in Sound
    BY <1>1 DEF YieldCurrent, Sound, Inv, LibraryOK, Pointers
  <2> QED BY <1>1, <2>1, BecomeOK DEF YieldCurrent
<1>2. CASE YieldPriority
  <2>1. Capped(priority[Top.curr] + 1) \in Levels
    <3>1. priority[Top.curr] \in 0 .. 2
      BY <1>2 DEF YieldPriority, Inv, LibraryOK, Levels
    <3> QED BY <3>1 DEF Levels, Capped
  <2>2. [Top EXCEPT !.at = "89", !.new_priority = Capped(priority[Top.curr] + 1)] \in Sound
    BY <1>2, <2>1 DEF YieldPriority, Sound
  <2> QED BY <1>2, <2>2, BecomeOK DEF YieldPriority
<1>3. CASE YieldScan
  <2>1. CASE Top.level \notin Levels
    BY <1>3, <2>1, LabelOK DEF YieldScan
  <2>2. CASE Top.level \in Levels /\ MLQ_Running[Top.level].size = 0
    <3>1. [Top EXCEPT !.level = @ + 1] \in Sound
      BY <1>3, <2>2 DEF YieldScan, Sound, Levels
    <3> QED BY <1>3, <2>2, <3>1, BecomeOK DEF YieldScan
  <2>3. CASE Top.level \in Levels /\ MLQ_Running[Top.level].size # 0
    <3>1. dequeue(Top.level) \in Sound /\ dequeue(Top.level).at = "342"
      BY <2>3 DEF dequeue, Frame, Sound, Pointers, Levels
    <3>2. [Top EXCEPT !.at = "96"] \in Sound
      BY <1>3, <2>3 DEF YieldScan, Sound
    <3>3. Call(dequeue(Top.level), "96")
      BY <1>3, <2>3 DEF YieldScan
    <3> QED BY <1>3, <3>1, <3>2, <3>3, CallStackOK DEF YieldScan
  <2> QED BY <2>1, <2>2, <2>3
<1>4. CASE YieldTestBlocked
  <2>1. CASE status[Top.node] = "BLOCKED"
    <3>1. Top.level + 1 \in Levels \cup {3} /\ Top.curr \in Threads
      BY <1>4 DEF YieldTestBlocked, Levels
    <3>2. [Top EXCEPT !.at = "93", !.level = @ + 1] \in Sound
      BY <1>4, <3>1 DEF YieldTestBlocked, Sound
    <3> QED BY <1>4, <2>1, <3>2, BecomeOK DEF YieldTestBlocked
  <2>2. CASE status[Top.node] # "BLOCKED"
    BY <1>4, <2>2, LabelOK DEF YieldTestBlocked
  <2> QED BY <2>1, <2>2
<1>5. CASE YieldEnqueue
  <2>1. enqueue(Top.new_priority, Top.curr) \in Sound
        /\ enqueue(Top.new_priority, Top.curr).at = "327"
    BY <1>5 DEF YieldEnqueue, enqueue, Frame, Sound, Pointers, Levels
  <2>2. [Top EXCEPT !.at = "104"] \in Sound /\ [Top EXCEPT !.at = "112"] \in Sound
    BY <1>5 DEF YieldEnqueue, Sound
  <2>3. PICK l \in {"104", "112"} : Call(enqueue(Top.new_priority, Top.curr), l)
    BY <1>5 DEF YieldEnqueue
  <2> QED BY <1>5, <2>1, <2>2, <2>3, CallStackOK DEF YieldEnqueue
<1>6. CASE YieldExits
  <2>1. exit \in Sound /\ exit.at = "158"
    BY DEF exit, Frame, Sound, Pointers, Levels
  <2>2. [Top EXCEPT !.at = "119"] \in Sound
    BY <1>6 DEF YieldExits, Sound
  <2> QED BY <1>6, <2>1, <2>2, CallStackOK DEF YieldExits
<1>7. CASE YieldTimer
  BY <1>7, ReturnOK DEF YieldTimer
<1> QED BY <1>1, <1>2, <1>3, <1>4, <1>5, <1>6, <1>7

LEMMA SwapLabel ==
  ASSUME Inv, YieldSwap
  PROVE  StacksOK'
<1> USE Labelled DEF FrameOK, Frames, EnqueueLabels, DequeueLabels, Labels
<1>1. CASE At("104") /\ Swap("105")
  BY <1>1, LabelOK DEF Swap
<1>2. CASE At("113") /\ Swap("119")
  BY <1>2, LabelOK DEF Swap
<1> QED BY <1>1, <1>2 DEF YieldSwap

LEMMA CallSteps ==
  ASSUME Inv, Calls
  PROVE  StacksOK'
<1> USE Labelled DEF FrameOK, Frames, EnqueueLabels, DequeueLabels, Labels
<1>1. CASE CreateTimer
  BY <1>1, ReturnOK DEF CreateTimer
<1>2. CASE ExitDone
  BY <1>2, LabelOK DEF ExitDone
<1>3. yield \in Sound /\ yield.at = "77"
  BY DEF yield, Frame, Sound, Pointers, Levels
<1>4. CASE ExitYields
  <2>1. [Top EXCEPT !.at = "161"] \in Sound
    BY <1>4 DEF ExitYields, Sound
  <2> QED BY <1>3, <1>4, <2>1, CallStackOK DEF ExitYields
<1>5. CASE ExitReturns
  BY <1>5, ReturnOK DEF ExitReturns
<1>6. CASE JoinParent
  BY <1>6, LabelOK DEF JoinParent
<1>7. CASE JoinBlock
  BY <1>7, LabelOK DEF JoinBlock
<1>8. CASE JoinWhile
  <2>1. CASE ChildDone(Top.node)
    BY <1>8, <2>1, ReturnOK DEF JoinWhile
  <2>2. CASE ~ChildDone(Top.node)
    <3>1. [Top EXCEPT !.at = "172"] \in Sound
      BY <1>8 DEF JoinWhile, Sound
    <3> QED BY <1>3, <1>8, <2>2, <3>1, CallStackOK DEF JoinWhile
  <2> QED BY <2>1, <2>2
<1> QED BY <1>1, <1>2, <1>4, <1>5, <1>6, <1>7, <1>8 DEF Calls

LEMMA TickStack ==
  ASSUME Inv, Tick
  PROVE  StacksOK'
<1>1. handler \in Sound /\ handler.at = "77"
  <2>1. yield \in Frames /\ yield.at = "77"
    BY DEF yield, Frame, Frames, Pointers, Levels, Labels
  <2>2. handler \in Frames /\ handler.at = "77"
    BY <2>1 DEF handler, Frames
  <2> QED BY <2>2 DEF Sound, FrameOK, EnqueueLabels, DequeueLabels
<1>2. running \in Threads /\ StacksOK /\ StackOK(stack[running])
  BY Arithmetic DEF Inv, StacksOK
<1>3. StackOK(<<handler>> \o stack[running])
  BY <1>1, <1>2, PushOK DEF DequeueLabels
<1> QED BY <1>2, <1>3, NewStack DEF Tick

-----------------------------------------------------------------------------
(* What a step of the library does to everything else. *)

LEMMA QueueStored ==
  ASSUME Inv, NEW l \in Levels, NEW q \in QueueSet,
         MLQ_Running' = [MLQ_Running EXCEPT ![l] = q]
  PROVE  MLQ_Running' \in [Levels -> QueueSet]
BY DEF Inv, LibraryOK

LEMMA SizeStored ==
  ASSUME Inv, Top.level \in Levels, NEW k \in Int, Size(k)
  PROVE  MLQ_Running' \in [Levels -> QueueSet]
<1>1. Queue \in QueueSet
  BY DEF Inv, LibraryOK, Queue
<1>2. [Queue EXCEPT !.size = @ + k] \in QueueSet
  BY <1>1 DEF QueueSet
<1>3. MLQ_Running' = [MLQ_Running EXCEPT ![Top.level] = [Queue EXCEPT !.size = @ + k]]
  BY DEF Size, Queue
<1> QED BY <1>2, <1>3, QueueStored

LEMMA QueueStores ==
  ASSUME Inv, Lists
  PROVE  LibraryOK' /\ UNCHANGED <<running, ctx>>
<1> USE Labelled DEF FrameOK, Frames, EnqueueLabels, DequeueLabels, Pointers,
                     queues, structs, switch, signal
<1>1. CASE EnqueueTest \/ DequeueFront \/ DequeueTest
  BY <1>1 DEF EnqueueTest, DequeueFront, DequeueTest, Local, Inv, LibraryOK
<1>2. CASE EnqueueFirst \/ DequeueClear
  <2>1. PICK p \in Pointers :
          MLQ_Running' = [MLQ_Running EXCEPT ![Top.level].head = p, ![Top.level].tail = p]
    BY <1>2 DEF EnqueueFirst, DequeueClear
  <2>2. Top.level \in Levels /\ Queue \in QueueSet
    BY <1>2 DEF EnqueueFirst, DequeueClear, Inv, LibraryOK, Queue
  <2>3. [Queue EXCEPT !.head = p, !.tail = p] \in QueueSet
    BY <2>2 DEF QueueSet
  <2>4. MLQ_Running' = [MLQ_Running EXCEPT ![Top.level] = [Queue EXCEPT !.head = p, !.tail = p]]
    BY <2>1, <2>2 DEF Queue, Inv, LibraryOK
  <2>5. MLQ_Running' \in [Levels -> QueueSet]
    BY <2>2, <2>3, <2>4, QueueStored
  <2> QED BY <1>2, <2>5 DEF EnqueueFirst, DequeueClear, Inv, LibraryOK
<1>3. CASE EnqueueLink \/ EnqueueLast \/ DequeueUnlink
  BY <1>3 DEF EnqueueLink, EnqueueLast, DequeueUnlink, Inv, LibraryOK
<1>4. CASE EnqueueCount \/ DequeueCountLast \/ DequeueCount
  <2>1. Top.level \in Levels /\ (Size(1) \/ Size(-1))
    BY <1>4 DEF EnqueueCount, DequeueCountLast, DequeueCount
  <2>2. MLQ_Running' \in [Levels -> QueueSet]
    BY <2>1, SizeStored
  <2> QED BY <1>4, <2>2 DEF EnqueueCount, DequeueCountLast, DequeueCount, Inv, LibraryOK
<1>5. CASE DequeueAdvance
  <2>1. Top.level \in Levels /\ next[Top.node] \in Pointers
    BY <1>5 DEF DequeueAdvance, Inv, LibraryOK
  <2>2. MLQ_Running' \in [Levels -> QueueSet]
    <3>1. Queue \in QueueSet
      BY <2>1 DEF Inv, LibraryOK, Queue
    <3>2. [Queue EXCEPT !.head = next[Top.node]] \in QueueSet
      BY <2>1, <3>1 DEF QueueSet
    <3>3. MLQ_Running' = [MLQ_Running EXCEPT ![Top.level] = [Queue EXCEPT !.head = next[Top.node]]]
      BY <1>5 DEF DequeueAdvance, Queue
    <3> QED BY <2>1, <3>2, <3>3, QueueStored
  <2> QED BY <1>5, <2>2 DEF DequeueAdvance, Inv, LibraryOK
<1>6. CASE FollowNull
  BY <1>6 DEF FollowNull, End, Inv, LibraryOK
<1> QED BY <1>1, <1>2, <1>3, <1>4, <1>5, <1>6 DEF Lists

LEMMA YieldStores ==
  ASSUME Inv, Yield, ~YieldSwap
  PROVE  LibraryOK' /\ UNCHANGED <<running, ctx>>
<1> USE Labelled DEF FrameOK, Frames, queues, structs, switch, signal
<1>1. CASE YieldCurrent \/ YieldTestRunning \/ YieldTestDone \/ YieldPriority
  BY <1>1 DEF YieldCurrent, YieldTestRunning, YieldTestDone, YieldPriority, Local, Inv, LibraryOK
<1>2. CASE YieldScan \/ YieldTestActive \/ YieldTestBlocked \/ YieldEnqueue \/ YieldExits
  BY <1>2 DEF YieldScan, YieldTestActive, YieldTestBlocked, YieldEnqueue, YieldExits,
              Local, Inv, LibraryOK
<1>3. CASE YieldPause \/ YieldParent
  BY <1>3 DEF YieldPause, YieldParent, Inv, LibraryOK
<1>4. CASE YieldLower
  BY <1>4 DEF YieldLower, Inv, LibraryOK
<1>5. CASE YieldAssign
  BY <1>5 DEF YieldAssign, Inv, LibraryOK
<1>6. CASE YieldTimer
  BY <1>6 DEF YieldTimer, Inv, LibraryOK
<1>7. CASE YieldFindsActive \/ YieldSwapStale
  BY <1>7 DEF YieldFindsActive, YieldSwapStale, End, Inv, LibraryOK
<1> QED BY <1>1, <1>2, <1>3, <1>4, <1>5, <1>6, <1>7 DEF Yield

LEMMA SwapStores ==
  ASSUME Inv, YieldSwap, UNCHANGED created
  PROVE  LibraryOK' /\ CreatedOK'
<1>1. (At("104") \/ At("113")) /\ (Swap("105") \/ Swap("119"))
  BY DEF YieldSwap
<1>2. Top.node \in Threads /\ Top.curr \in Threads /\ running \in Threads
  BY <1>1, Labelled DEF FrameOK
<1>3. CASE Top.node = Top.curr
  BY <1>1, <1>2, <1>3 DEF Swap, Inv, LibraryOK, CreatedOK, queues, structs, signal
<1>4. CASE Top.node # Top.curr
  BY <1>1, <1>2, <1>4 DEF Swap, Inv, LibraryOK, CreatedOK, queues, structs, signal
<1> QED BY <1>3, <1>4

LEMMA CallStores ==
  ASSUME Inv, Calls \/ Tick
  PROVE  LibraryOK' /\ UNCHANGED <<running, ctx>>
<1> USE DEF queues, structs, switch, signal
<1>1. CASE CreateTimer \/ Tick
  BY <1>1 DEF CreateTimer, Tick, Inv, LibraryOK
<1>2. CASE ExitDone \/ JoinBlock
  BY <1>2 DEF ExitDone, JoinBlock, Inv, LibraryOK
<1>3. CASE ExitYields \/ ExitReturns \/ JoinWhile
  BY <1>3 DEF ExitYields, ExitReturns, JoinWhile, Local, Inv, LibraryOK
<1>4. CASE JoinParent
  BY <1>4 DEF JoinParent, Inv, LibraryOK, Pointers
<1> QED BY <1>1, <1>2, <1>3, <1>4 DEF Calls

\* Steps that end the process leave the stacks alone.
LEMMA EndStack ==
  ASSUME Inv, NEW how, End(how)
  PROVE  StacksOK'
BY DEF End, Inv, StacksOK, StackOK

LEMMA LibraryStep ==
  ASSUME Inv, Library \/ Tick, UNCHANGED client
  PROVE  Inv'
<1>1. CountsOK' /\ ClientOK'
  BY DEF Inv, CountsOK, ClientOK, client
<1>2. LibraryOK' /\ CreatedOK'
  <2>1. CASE YieldSwap
    BY <2>1, SwapStores DEF client
  <2>2. CASE ~YieldSwap
    BY <2>2, QueueStores, YieldStores, CallStores DEF Library, Inv, CreatedOK, client
  <2> QED BY <2>1, <2>2
<1>3. StacksOK'
  <2>1. CASE Lists
    <3>1. CASE FollowNull
      BY <3>1, EndStack DEF FollowNull
    <3> QED BY <2>1, <3>1, EnqueueStep, EnqueueCountStep, DequeueStep DEF Lists
  <2>2. CASE Yield
    <3>1. CASE YieldFindsActive \/ YieldSwapStale
      BY <3>1, EndStack DEF YieldFindsActive, YieldSwapStale
    <3> QED BY <2>2, <3>1, YieldLabels, YieldFrames, SwapLabel DEF Yield
  <2> QED BY <2>1, <2>2, CallSteps, TickStack DEF Library
<1> QED BY <1>1, <1>2, <1>3 DEF Inv

-----------------------------------------------------------------------------
(* mmatrix.c *)

LEMMA EmptyStack ==
  ASSUME Inv, InClient
  PROVE  /\ running \in Threads /\ StacksOK /\ StackOK(<<>>)
         /\ stack[running] = <<>>
<1>1. StackOK(<<>>)
  BY EmptySeq DEF StackOK
<1> QED BY <1>1, Arithmetic DEF Inv, InClient

LEMMA SingleFrame ==
  ASSUME NEW f \in Sound, f.at \notin DequeueLabels
  PROVE  StackOK(<<f>>)
<1>1. <<f>> \in Seq(Sound) /\ Len(<<f>>) = 1 /\ <<f>>[1] = f
  OBVIOUS
<1> QED BY <1>1 DEF StackOK

LEMMA TwoFrames ==
  ASSUME NEW f \in Sound, NEW g \in Sound,
         f.at \notin DequeueLabels, g.at \notin DequeueLabels
  PROVE  StackOK(<<f, g>>)
<1>1. <<f, g>> \in Seq(Sound) /\ Len(<<f, g>>) = 2 /\ <<f, g>>[1] = f /\ <<f, g>>[2] = g
  OBVIOUS
<1> QED BY <1>1 DEF StackOK

LEMMA CreateStep ==
  ASSUME Inv, Create
  PROVE  Inv'
<1> DEFINE t == created + 1
<1>1. /\ InClient /\ running = Main /\ pc[Main] = "create"
      /\ my_pthread_create(t) /\ created' = t
      /\ UNCHANGED <<n, joined, computed>>
  BY DEF Create, Executes
<1>2. created < n /\ t \in Workers /\ t \in Threads /\ t \in 0 .. t /\ MAX_THREAD \in Nat
  BY <1>1, Arithmetic DEF Inv, CountsOK, ClientOK, Workers, Threads
<1>3. StacksOK'
  <2>1. enqueue(0, t) \in Sound /\ createTail \in Sound
    BY <1>2 DEF enqueue, createTail, Frame, Sound, Frames, FrameOK, Pointers, Levels,
                Labels, EnqueueLabels, DequeueLabels
  <2>2. enqueue(0, t).at = "327" /\ createTail.at = "44"
    BY DEF enqueue, createTail, Frame
  <2>3. StackOK(<<enqueue(0, t), createTail>>)
    BY <2>1, <2>2, TwoFrames DEF DequeueLabels
  <2> QED BY <1>1, <2>3, EmptyStack, NewStack DEF my_pthread_create
<1>4. LibraryOK'
  <2>1. 0 \in Levels
    BY DEF Levels
  <2> QED BY <1>1, <1>2, <2>1 DEF my_pthread_create, Inv, LibraryOK, queues, signal
<1>5. CountsOK'
  BY <1>1, <1>2 DEF Inv, CountsOK, Workers
<1>6. CreatedOK'
  BY <1>1, <1>2 DEF my_pthread_create, Inv, CountsOK, CreatedOK, Workers
<1>7. ClientOK'
  <2>1. /\ created + 1 = n => pc' = [pc EXCEPT ![Main] = "join"]
        /\ created + 1 # n => pc' = [pc EXCEPT ![Main] = "create"]
    BY <1>1 DEF Create, Continue
  <2>2. Main \in Threads /\ Main \notin Workers
    BY <1>2 DEF Main, Threads, Workers
  <2>3. joined = 0 /\ 0 < n
    <3>1. n \in Int /\ created \in 0 .. n
      BY <1>2 DEF Inv, CountsOK, Workers
    <3> QED BY <1>1, <1>2, <3>1 DEF Inv, ClientOK
  <2>4. PICK l \in {"join", "create"} :
          pc' = [pc EXCEPT ![Main] = l] /\ (l = "create" <=> created + 1 # n)
    BY <2>1
  <2>5. pc \in [Threads -> {"create", "join", "joining", "check", "mm", "exit", "exited"}]
        /\ \A w \in Workers : pc[w] \in {"mm", "exit", "exited"}
    BY DEF Inv, ClientOK
  <2>6. pc' \in [Threads -> {"create", "join", "joining", "check", "mm", "exit", "exited"}]
        /\ \A w \in Workers : pc'[w] \in {"mm", "exit", "exited"}
    BY <2>2, <2>4, <2>5
  <2>7. pc'[Main] = l
    BY <2>2, <2>4, <2>5
  <2>8. created + 1 # n => created + 1 < n
    BY <1>2 DEF Inv, CountsOK, Workers
  <2> QED BY <1>1, <2>3, <2>4, <2>6, <2>7, <2>8 DEF ClientOK
<1> QED BY <1>3, <1>4, <1>5, <1>6, <1>7 DEF Inv

LEMMA JoinStep ==
  ASSUME Inv, Join
  PROVE  Inv'
<1>1. /\ InClient /\ running = Main /\ pc[Main] = "join"
      /\ Stack(<<join(joined + 1)>>) /\ Local
      /\ Continue(Main, "joining")
      /\ UNCHANGED <<n, created, joined, computed>>
  BY DEF Join, Executes
<1>2. joined < n /\ joined + 1 \in Workers /\ MAX_THREAD \in Nat
  BY <1>1, Arithmetic DEF Inv, CountsOK, ClientOK, Workers
<1>3. StacksOK'
  <2>1. join(joined + 1) \in Sound /\ join(joined + 1).at = "170"
    BY <1>2 DEF join, Frame, Sound, Frames, FrameOK, Pointers, Threads, Levels,
                Labels, EnqueueLabels, DequeueLabels
  <2>2. StackOK(<<join(joined + 1)>>)
    BY <2>1, SingleFrame DEF DequeueLabels
  <2> QED BY <1>1, <2>2, EmptyStack, NewStack
<1>4. LibraryOK' /\ CountsOK' /\ CreatedOK'
  BY <1>1 DEF Local, Inv, LibraryOK, CountsOK, CreatedOK, queues, structs, switch, signal
<1>5. ClientOK'
  BY <1>1, <1>2 DEF Continue, Inv, ClientOK, Workers, Main, Threads
<1> QED BY <1>3, <1>4, <1>5 DEF Inv

LEMMA JoinedStep ==
  ASSUME Inv, Joined
  PROVE  Inv'
<1>1. /\ pc[Main] = "joining" /\ joined' = joined + 1
      /\ UNCHANGED <<libvars, n, created, computed>>
  BY DEF Joined, Executes
<1>2. joined < n /\ MAX_THREAD \in Nat
  BY <1>1, Arithmetic DEF Inv, ClientOK
<1>3. LibraryOK' /\ StacksOK' /\ CreatedOK'
  BY <1>1 DEF Inv, LibraryOK, StacksOK, StackOK, CreatedOK, libvars,
              queues, structs, switch, signal
<1>4. CountsOK'
  BY <1>1, <1>2 DEF Inv, CountsOK, Workers
<1>5. ClientOK'
  BY <1>1, <1>2 DEF Joined, Continue, Inv, CountsOK, ClientOK, Workers, Main, Threads
<1> QED BY <1>3, <1>4, <1>5 DEF Inv

LEMMA WorkerStep ==
  ASSUME Inv, NEW w \in Workers, Multiply(w) \/ Exit(w)
  PROVE  Inv'
<1>1. InClient /\ running = w /\ w \in Threads /\ w # Main /\ MAX_THREAD \in Nat
  BY Arithmetic DEF Multiply, Exit, Executes, Threads, Workers, Main
<1>2. CASE Multiply(w)
  <2>1. LibraryOK' /\ StacksOK' /\ CreatedOK'
    BY <1>2 DEF Multiply, Inv, LibraryOK, StacksOK, StackOK, CreatedOK, libvars,
                queues, structs, switch, signal
  <2>2. w \in 1 .. n
    BY <1>1 DEF Inv, CreatedOK, CountsOK, Workers
  <2>3. CountsOK' /\ ClientOK'
    BY <1>1, <1>2, <2>2 DEF Multiply, Continue, Inv, CountsOK, ClientOK
  <2> QED BY <2>1, <2>3 DEF Inv
<1>3. CASE Exit(w)
  <2>1. exit \in Sound /\ exit.at = "158"
    BY DEF exit, Frame, Sound, Frames, FrameOK, Pointers, Levels, Labels,
           EnqueueLabels, DequeueLabels
  <2>2. StackOK(<<exit>>)
    BY <2>1, SingleFrame DEF DequeueLabels
  <2>3. StacksOK'
    BY <1>1, <1>3, <2>2, EmptyStack, NewStack DEF Exit
  <2>4. LibraryOK' /\ CountsOK' /\ CreatedOK'
    BY <1>3 DEF Exit, Local, Inv, LibraryOK, CountsOK, CreatedOK, queues, structs, switch, signal
  <2>5. ClientOK'
    BY <1>1, <1>3 DEF Exit, Continue, Inv, ClientOK
  <2> QED BY <2>3, <2>4, <2>5 DEF Inv
<1> QED BY <1>2, <1>3

LEMMA EndStep ==
  ASSUME Inv, UNCHANGED client,
         End("success") \/ End("errors") \/ End("worker returned")
  PROVE  Inv'
<1>1. StacksOK'
  BY EndStack
<1>2. CountsOK' /\ ClientOK' /\ CreatedOK'
  BY DEF End, Inv, CountsOK, ClientOK, CreatedOK, client, switch
<1>3. LibraryOK'
  BY DEF End, Inv, LibraryOK, queues, structs, switch
<1> QED BY <1>1, <1>2, <1>3 DEF Inv

-----------------------------------------------------------------------------
LEMMA Initially == Init => Inv
<1> SUFFICES ASSUME Init PROVE Inv
  OBVIOUS
<1>0. MAX_THREAD \in Nat
  BY ThreadAssumption
<1>1. LibraryOK
  <2>1. [head |-> NULL, tail |-> NULL, size |-> 0] \in QueueSet
    BY DEF QueueSet, Pointers
  <2>2. NULL \in Pointers /\ Main \in Threads /\ 0 \in Levels
    BY DEF Pointers, Threads, Levels
  <2> QED BY <2>1, <2>2 DEF Init, LibInit, LibraryOK
<1>2. CountsOK
  BY <1>0 DEF Init, CountsOK, Workers
<1>3. StacksOK
  <2>1. <<>> \in Seq(Frames) /\ <<>> \in Seq(Sound) /\ Len(<<>>) = 0
    BY EmptySeq
  <2> QED BY <2>1 DEF Init, LibInit, StacksOK, StackOK
<1>4. CreatedOK
  BY DEF Init, LibInit, CreatedOK, Main
<1>5. ClientOK
  <2>1. Main \in Threads /\ Main \notin Workers /\ Workers \subseteq Threads /\ 0 < n
    BY <1>0 DEF Init, Main, Threads, Workers
  <2> QED BY <2>1 DEF Init, ClientOK
<1> QED BY <1>1, <1>2, <1>3, <1>4, <1>5 DEF Inv

LEMMA Stuttering == Inv /\ UNCHANGED vars => Inv'
<1> SUFFICES ASSUME Inv, UNCHANGED vars PROVE Inv'
  OBVIOUS
<1> USE DEF vars, libvars, client, queues, structs, switch, signal
<1>1. LibraryOK' /\ CountsOK'
  BY DEF Inv, LibraryOK, CountsOK
<1>2. StacksOK'
  BY DEF Inv, StacksOK, StackOK
<1>3. CreatedOK' /\ ClientOK'
  BY DEF Inv, CreatedOK, ClientOK
<1> QED BY <1>1, <1>2, <1>3 DEF Inv

\* The variables are what the code declares, for any number of workers and
\* wherever ticks fall: in particular the priority that picks one of the three
\* queues is 0 to 2, and every thread resumed is one that has been created
\* (my_pthread.c 87-131, 325-352).
THEOREM TypeCorrect == Spec => []TypeOK
<1>1. Inv /\ [Next]_vars => Inv'
  <2> SUFFICES ASSUME Inv, [Next]_vars PROVE Inv'
    OBVIOUS
  <2>1. CASE Create
    BY <2>1, CreateStep
  <2>2. CASE Join
    BY <2>2, JoinStep
  <2>3. CASE Joined
    BY <2>3, JoinedStep
  <2>4. CASE Check
    BY <2>4, EndStep DEF Check
  <2>5. ASSUME NEW w \in Workers, Worker(w)
        PROVE  Inv'
    BY <2>5, WorkerStep, EndStep DEF Worker, NeverHappens
  <2>6. CASE (Library \/ Tick) /\ UNCHANGED client
    BY <2>6, LibraryStep
  <2>7. CASE UNCHANGED vars
    BY <2>7, Stuttering
  <2> QED BY <2>1, <2>2, <2>3, <2>4, <2>5, <2>6, <2>7 DEF Next
<1>2. Inv => TypeOK
  BY Arithmetic DEF Inv, TypeOK, LibraryOK, QueueSet, CountsOK, StacksOK
<1> QED BY <1>1, <1>2, Initially, PTL DEF Spec
=============================================================================
