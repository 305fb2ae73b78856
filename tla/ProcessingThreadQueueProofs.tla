-------------------- MODULE ProcessingThreadQueueProofs --------------------
(***************************************************************************)
(* The way of a task through the queue, a batch and a stack: no task runs  *)
(* twice, no cleanup task is lost, a future is a barrier and nothing is    *)
(* left behind when the thread has closed.                                 *)
(***************************************************************************)
EXTENDS ProcessingThreadProofs

\* In the pushes p task a is before task b; t is among p; t is among the runs r.
Before(p, a, b) == \E i, j \in DOMAIN p : i < j /\ p[i] = a /\ p[j] = b
Has(p, t) == \E i \in DOMAIN p : p[i] = t
Ran(r, t) == \E i \in DOMAIN r : r[i].task = t

\* What a queued task is, by its kind.
EntryOK(q) ==
    /\ q.kind = "Cleanup" <=> q.task \in Cleanups
    /\ q.kind = "Refused" => q.task \in Promises

KindInv ==
    /\ \A i \in DOMAIN tasks : EntryOK(tasks[i])
    /\ \A i \in DOMAIN batch : EntryOK(batch[i])

\* A task is pushed once; what is queued, taken or running was pushed.
PushedInv ==
    /\ \A i, j \in DOMAIN pushed : pushed[i] = pushed[j] => i = j
    /\ \A i \in DOMAIN tasks : Has(pushed, tasks[i].task)
    /\ \A i \in DOMAIN batch : Has(pushed, batch[i].task)
    /\ \A th \in Threads : \A i \in DOMAIN stack[th] : Has(pushed, stack[th][i].task)
    /\ \A i \in DOMAIN ran : Has(pushed, ran[i].task)
    /\ \A f \in Futures : future[f] # "none" => Has(pushed, f)

\* The queue keeps the order of the pushes, and the batch is ahead of it.
OrderInv ==
    /\ \A i, j \in DOMAIN tasks : i < j => Before(pushed, tasks[i].task, tasks[j].task)
    /\ \A i, j \in DOMAIN batch : i < j => Before(pushed, batch[i].task, batch[j].task)
    /\ \A i \in DOMAIN batch, j \in DOMAIN tasks : Before(pushed, batch[i].task, tasks[j].task)
    /\ \A i \in DOMAIN stack[Ctl], j \in DOMAIN tasks :
          Before(pushed, stack[Ctl][i].task, tasks[j].task)

\* What has run is neither queued nor ahead in the batch.
RanInv ==
    /\ \A i, j \in DOMAIN ran : ran[i].task = ran[j].task => i = j
    /\ \A i \in DOMAIN tasks : ~Ran(ran, tasks[i].task)
    /\ \A i \in DOMAIN batch : i >= position => ~Ran(ran, batch[i].task)

\* The frames: only cleanup tasks act; the loop runs one task of its batch, and
\* stop() one of the queue, with nothing but acting tasks above it.
FrameInv ==
    /\ \A th \in Threads : \A i \in DOMAIN stack[th] :
          stack[th][i].how = "acting" => stack[th][i].task \in Cleanups
    /\ \A c \in Callers : \A i \in DOMAIN stack[c] : stack[c][i].how = "acting"
    /\ \A i \in DOMAIN stack[Loop] : i # 1 => stack[Loop][i].how = "acting"
    /\ stack[Loop] # << >> =>
          /\ position # 1 /\ stack[Loop][1].task = batch[position - 1].task
          /\ stack[Loop][1].how = "taken"
          /\ pc = "pending" => stack[Loop][1].task \in Cleanups
    /\ \A i \in DOMAIN stack[Ctl] : i = 1

ClosedInv == intake = "Closed" => tasks = << >>

\* A future that is not ready belongs to a task that is queued, in the batch
\* (also behind the position: it threw) or on a stack.
PendingInv ==
    \A f \in Futures : future[f] = "pending" =>
        \/ \E i \in DOMAIN tasks : tasks[i].task = f
        \/ \E i \in DOMAIN batch : batch[i].task = f
        \/ \E th \in Threads : \E i \in DOMAIN stack[th] : stack[th][i].task = f

\* The task may still run, or runs.
Live(t) ==
    \/ \E i \in DOMAIN tasks : tasks[i].task = t
    \/ pc # "pending" /\ \E i \in DOMAIN batch : i >= position /\ batch[i].task = t
    \/ \E th \in Threads : \E i \in DOMAIN stack[th] : stack[th][i].task = t

Ready(p) == future[p] \in {"value", "unfinished"}

BarrierInv ==
    \A p \in Promises, q \in Regulars \cup Promises :
        Before(pushed, q, p) /\ Ready(p) => ~Live(q)

KeptInv ==
    \A t \in Cleanups : Has(pushed, t) =>
        \/ Ran(ran, t)
        \/ \E i \in DOMAIN tasks : tasks[i].task = t
        \/ \E i \in DOMAIN batch : i >= position /\ batch[i].task = t

QueueInv ==
    /\ KindInv /\ PushedInv /\ OrderInv /\ RanInv /\ FrameInv
    /\ ClosedInv /\ PendingInv /\ BarrierInv /\ KeptInv
-----------------------------------------------------------------------------
USE DEF runVars, wakeVars, socketVars, queueVars, permVars, cycleVars,
        batchVars, execVars, ctlVars, removalVars

\* A longer sequence.
LEMMA AppendFacts ==
    ASSUME NEW S, NEW q \in Seq(S), NEW x \in S
    PROVE  /\ Append(q, x) \in Seq(S)
           /\ DOMAIN Append(q, x) = DOMAIN q \cup {Len(q) + 1}
           /\ \A i \in DOMAIN q : Append(q, x)[i] = q[i] /\ i \in Nat /\ i < Len(q) + 1
           /\ Append(q, x)[Len(q) + 1] = x /\ Len(q) + 1 \notin DOMAIN q
OBVIOUS

\* The queue without its front.
LEMMA DrainFacts ==
    ASSUME NEW S, NEW q \in Seq(S), q # << >>,
           NEW d, d = SubSeq(q, 1, DrainIndex - 1) \o SubSeq(q, DrainIndex + 1, Len(q))
    PROVE  /\ 1 \in DOMAIN q /\ q[DrainIndex] = q[1]
           /\ \A i \in DOMAIN d : i \in Nat /\ i + 1 \in DOMAIN q /\ i + 1 # 1 /\ d[i] = q[i + 1]
           /\ \A i \in DOMAIN q : i # 1 => \E k \in DOMAIN d : d[k] = q[i]
<1>1. 1 \in DOMAIN q /\ q[DrainIndex] = q[1] /\ Len(q) \in Nat \ {0}
      BY DEF DrainIndex
<1>2. SubSeq(q, 1, DrainIndex - 1) = << >>
      BY DEF DrainIndex
<1>3. /\ SubSeq(q, DrainIndex + 1, Len(q)) \in Seq(S)
      /\ Len(SubSeq(q, DrainIndex + 1, Len(q))) = Len(q) - 1
      /\ \A i \in 1..(Len(q) - 1) : SubSeq(q, DrainIndex + 1, Len(q))[i] = q[i + 1]
      BY <1>1 DEF DrainIndex
<1> DEFINE r == SubSeq(q, DrainIndex + 1, Len(q))
<1> HIDE DEF r
<1>4. d = r
      <2>1. d = << >> \o r
            BY <1>2 DEF r
      <2>2. r \in Seq(S)
            BY <1>3 DEF r
      <2>3. << >> \o r = r
            BY <2>2
      <2>4. QED
            BY <2>1, <2>3
<1>5. DOMAIN d = 1..(Len(q) - 1) /\ \A i \in 1..(Len(q) - 1) : d[i] = q[i + 1]
      <2>1. r \in Seq(S) /\ Len(r) = Len(q) - 1 /\ \A i \in 1..(Len(q) - 1) : r[i] = q[i + 1]
            BY <1>3 DEF r
      <2>2. DOMAIN r = 1..(Len(q) - 1)
            BY <2>1
      <2>3. QED
            BY <1>4, <2>1, <2>2
<1>6. ASSUME NEW i \in DOMAIN q, i # 1 PROVE \E k \in DOMAIN d : d[k] = q[i]
      <2>1. i \in Nat /\ i - 1 \in 1..(Len(q) - 1) /\ (i - 1) + 1 = i
            BY <1>6
      <2>2. QED
            BY <1>5, <2>1
<1>7. ASSUME NEW i \in DOMAIN d PROVE i \in Nat /\ i + 1 \in DOMAIN q /\ i + 1 # 1 /\ d[i] = q[i + 1]
      <2>0. DOMAIN q = 1..Len(q)
            OBVIOUS
      <2>1. i \in 1..(Len(q) - 1) /\ d[i] = q[i + 1]
            BY <1>5, <1>7, Zenon
      <2>a. Len(q) \in Nat
            OBVIOUS
      <2>b. i \in 1..(Len(q) - 1)
            BY <2>1
      <2>2. i \in Nat /\ i + 1 \in 1..Len(q) /\ i + 1 # 1
            BY <2>a, <2>b
      <2>3. QED
            BY <2>0, <2>1, <2>2
<1>8. QED
      BY <1>1, <1>6, <1>7

\* The order of the pushes stays, a new one is the last.
LEMMA BeforeFacts ==
    ASSUME NEW p \in Seq(Tasks), NEW t \in Tasks
    PROVE  /\ \A a, b : Before(p, a, b) => Before(Append(p, t), a, b)
           /\ \A a : Has(p, a) => Before(Append(p, t), a, t) /\ Has(Append(p, t), a)
           /\ \A a, b : Before(Append(p, t), a, b) => Before(p, a, b) \/ (b = t /\ Has(p, a))
           /\ \A a : Has(Append(p, t), a) => Has(p, a) \/ a = t
           /\ Has(Append(p, t), t)
BY AppendFacts DEF Before, Has

LEMMA BeforeIsOrder ==
    ASSUME NEW p \in Seq(Tasks), \A i, j \in DOMAIN p : p[i] = p[j] => i = j,
           NEW a, NEW b, Before(p, a, b)
    PROVE  a # b /\ ~Before(p, b, a) /\ Has(p, a) /\ Has(p, b)
BY DEF Before, Has
-----------------------------------------------------------------------------
(***************************************************************************)
(* The steps, by what they do to the tasks.                                *)
(***************************************************************************)
taskVars == <<tasks, pushed, batch, position, stack, ran, future>>

\* Nothing moves; intake_ may close only when the queue is empty.
QuietStep ==
    /\ UNCHANGED taskVars
    /\ pc' = "pending" <=> pc = "pending"
    /\ intake' = "Closed" => tasks = << >>

\* A task is queued.
AppendStep ==
    \E q \in Queued :
        /\ EntryOK(q) /\ ~Has(pushed, q.task) /\ intake # "Closed"
        /\ tasks' = Append(tasks, q) /\ pushed' = Append(pushed, q.task)
        /\ \/ future' = future /\ q.task \notin Futures
           \/ q.task \in Futures /\ future' = [future EXCEPT ![q.task] = "pending"]
        /\ UNCHANGED <<batch, position, stack, ran, pc, intake>>

\* A promise is broken at once: the thread has closed.
DropStep ==
    \E t \in Promises :
        /\ ~Has(pushed, t) /\ intake = "Closed"
        /\ pushed' = Append(pushed, t) /\ future' = [future EXCEPT ![t] = "unfinished"]
        /\ UNCHANGED <<tasks, batch, position, stack, ran, pc, intake>>

ActStep == \E th \in Threads, t \in Cleanups : PushCleanupActs(th, t)
EndStep == \E th \in Threads, throws \in BOOLEAN : TaskEnds(th, throws)

\* The loop destroys its batch.
DestroyStep ==
    /\ pc \in {"batch", "pending"} /\ pc' # "pending"
    /\ stack[Loop] = << >> /\ position > Len(batch)
    /\ future' = Unfinished(TasksOf(batch))
    /\ batch' = << >> /\ position' = 1
    /\ UNCHANGED <<tasks, pushed, stack, ran, intake>>

\* The exception handler takes the whole queue.
CatchStep ==
    /\ pc = "catch" /\ pc' = "pending" /\ intake' = "Closed"
    /\ batch' = tasks /\ tasks' = << >>
    /\ UNCHANGED <<pushed, position, stack, ran, future>>

LEMMA QueueSteps ==
    ASSUME TypeOK, ExecInv, QueueInv, Next
    PROVE  \/ QuietStep \/ AppendStep \/ DropStep \/ ActStep \/ EndStep \/ StopDrains
           \/ LoopTakesBatch \/ LoopRunsTask \/ DestroyStep \/ CatchStep
<1> USE DEF QuietStep, taskVars
<1>1. ASSUME NEW th \in Threads, NEW t \in Regulars, PushTask(th, t) PROVE AppendStep
      <2> DEFINE q == [task |-> t, kind |-> "Regular"]
      <2>1. q \in Queued /\ EntryOK(q) /\ q.task = t /\ t \notin Futures
            BY TasksAssumption DEF Queued, Kinds, Tasks, EntryOK, Futures
      <2>2. ~Has(pushed, t) /\ intake # "Closed"
            BY <1>1 DEF PushTask, Range, Has
      <2>3. tasks' = Append(tasks, q) /\ pushed' = Append(pushed, t) /\ future' = future
            BY <1>1 DEF PushTask
      <2>4. UNCHANGED <<batch, position, stack, ran, pc, intake>>
            BY <1>1 DEF PushTask
      <2> HIDE DEF q
      <2>5. QED
            BY <2>1, <2>2, <2>3, <2>4 DEF AppendStep
<1>2. ASSUME NEW th \in Threads, NEW t \in Promises, QueuePromiseTask(th, t)
      PROVE  AppendStep \/ DropStep
      <2>1. /\ ~Has(pushed, t) /\ pushed' = Append(pushed, t)
            /\ UNCHANGED <<batch, position, stack, ran, pc, intake>>
            BY <1>2 DEF QueuePromiseTask, Range, Has
      <2>2. CASE intake = "Closed"
            BY <1>2, <2>1, <2>2 DEF QueuePromiseTask, DropStep, RefusesPromise
      <2>3. CASE intake # "Closed"
            <3>1. PICK kind \in {"Regular", "Refused"} :
                     tasks' = Append(tasks, [task |-> t, kind |-> kind])
                  BY <1>2, <2>3 DEF QueuePromiseTask, DropsPromise
            <3> DEFINE q == [task |-> t, kind |-> kind]
            <3>2. q \in Queued /\ EntryOK(q) /\ q.task = t /\ t \in Futures
                  BY TasksAssumption DEF Queued, Kinds, Tasks, EntryOK, Futures
            <3>3. future' = [future EXCEPT ![t] = "pending"]
                  BY <1>2, <2>3 DEF QueuePromiseTask, DropsPromise
            <3>4. tasks' = Append(tasks, q)
                  BY <3>1
            <3> HIDE DEF q
            <3>5. QED
                  BY <2>1, <2>3, <3>2, <3>3, <3>4 DEF AppendStep
      <2>4. QED
            BY <2>2, <2>3
<1>3. ASSUME NEW th \in Threads, NEW t \in Cleanups, PushCleanupQueued(th, t) PROVE AppendStep
      <2> DEFINE q == [task |-> t, kind |-> "Cleanup"]
      <2>1. q \in Queued /\ EntryOK(q) /\ q.task = t /\ t \in Futures
            BY TasksAssumption DEF Queued, Kinds, Tasks, EntryOK, Futures
      <2>2. ~Has(pushed, t) /\ intake # "Closed"
            BY <1>3 DEF PushCleanupQueued, Range, Has
      <2>3. /\ tasks' = Append(tasks, q) /\ pushed' = Append(pushed, t)
            /\ future' = [future EXCEPT ![t] = "pending"]
            BY <1>3 DEF PushCleanupQueued
      <2>4. UNCHANGED <<batch, position, stack, ran, pc, intake>>
            BY <1>3 DEF PushCleanupQueued
      <2> HIDE DEF q
      <2>5. QED
            BY <2>1, <2>2, <2>3, <2>4 DEF AppendStep
<1>4. ASSUME NEW th \in Threads, Call(th) PROVE QuietStep \/ AppendStep \/ DropStep \/ ActStep
      <2>1. CASE Wake(th) \/ WatchSocket(th) \/ PushPermanentTask(th) \/ ClearPermanentTasks(th)
                   \/ \E id \in Ids : RemovePermanentTask(th, id)
            BY <2>1 DEF Wake, WatchSocket, PushPermanentTask, ClearPermanentTasks,
                   RemovePermanentTask, QueueInv, ClosedInv
      <2>2. QED
            BY <1>1, <1>2, <1>3, <1>4, <2>1 DEF Call, PushCleanupTask, ActStep
<1>5. CASE Start \/ Stop \/ StopJoined \/ StopReturns
      BY <1>5, ThreadsAssumption
      DEF Start, Stop, StopJoined, StopReturns, QueueInv, ClosedInv, ExecInv, IntakeInv, StackInv
<1>6. CASE UserCodeEnds
      BY <1>6 DEF UserCodeEnds, EndStep, PermanentEnds, QueueInv, ClosedInv
<1>7. CASE LoopEndsBatch \/ LoopDropsPending
      BY <1>7 DEF LoopEndsBatch, LoopDropsPending, LoopGoto, DestroyStep
<1>8. CASE LoopCatches
      BY <1>8 DEF LoopCatches, CatchStep, QueueInv, ClosedInv
<1>9. CASE LoopStarts \/ LoopReads \/ LoopBeginsCycle \/ LoopMovesPermanents
             \/ LoopRunsPermanent \/ LoopMergesPermanents \/ LoopWaits
             \/ LoopWaitEnds \/ SocketWoken \/ LoopLeavesSocket \/ LoopWakesByItself
      BY <1>9 DEF LoopStarts, LoopReads, LoopBeginsCycle, LoopMovesPermanents, LoopGoto,
             LoopRunsPermanent, LoopMergesPermanents, LoopWaits, LoopWaitEnds,
             SocketWoken, LoopLeavesSocket, LoopWakesByItself, QueueInv, ClosedInv
<1>10. ASSUME NEW th \in Callers \cup {Ctl}, NotifyWake(th) PROVE QuietStep
      BY <1>10 DEF NotifyWake, QueueInv, ClosedInv
<1>11. ASSUME NEW c \in Callers, RemovalConfirmed(c) \/ RemovalTimesOut(c) PROVE QuietStep
      BY <1>11 DEF RemovalConfirmed, RemovalTimesOut, QueueInv, ClosedInv
<1>12. QED
      BY <1>4, <1>5, <1>6, <1>7, <1>8, <1>9, <1>10, <1>11 DEF Next, StopStep, LoopStep

\* The parts of TypeOK the proofs below use.
LEMMA TaskTypes ==
    ASSUME TypeOK
    PROVE  /\ tasks \in Seq(Queued) /\ batch \in Seq(Queued) /\ pushed \in Seq(Tasks)
           /\ ran \in Seq([task : Tasks, how : Hows])
           /\ position \in 1..(Len(batch) + 1) /\ position \in Nat
           /\ stack \in [Threads -> Seq(Frames)]
           /\ BatchSize(Len(tasks)) \in 0..Len(tasks)
BY BoundsAssumption DEF TypeOK, TypeQueue, TypeBatch, TypeThreads, BatchSize

\* What taking a batch does to the queue.
LEMMA TakeFacts ==
    ASSUME TypeOK, LoopTakesBatch
    PROVE  /\ \A i \in DOMAIN batch' : i \in DOMAIN tasks /\ i \in 1..BatchSize(Len(tasks))
                                        /\ batch'[i] = tasks[i]
           /\ \A i \in DOMAIN tasks' : /\ BatchSize(Len(tasks)) + i \in DOMAIN tasks
                                        /\ i \in Nat \ {0}
                                        /\ tasks'[i] = tasks[BatchSize(Len(tasks)) + i]
           /\ \A i \in DOMAIN tasks : \/ \E k \in DOMAIN batch' : batch'[k] = tasks[i]
                                      \/ \E k \in DOMAIN tasks' : tasks'[k] = tasks[i]
           /\ position' = 1 /\ batch = << >> /\ BatchSize(Len(tasks)) \in Nat
           /\ pc = "take" /\ pc' = "batch"
           /\ UNCHANGED <<pushed, stack, ran, future, intake, ctl>>
<1>1. /\ batch' = SubSeq(tasks, 1, BatchSize(Len(tasks)))
      /\ tasks' = SubSeq(tasks, BatchSize(Len(tasks)) + 1, Len(tasks))
      BY DEF LoopTakesBatch, Remaining
<1>2. BatchSize(Len(tasks)) \in 0..Len(tasks) /\ tasks \in Seq(Queued)
      BY TaskTypes
<1>3. /\ \A i \in DOMAIN batch' : i \in DOMAIN tasks /\ i \in 1..BatchSize(Len(tasks))
                                   /\ batch'[i] = tasks[i]
      /\ \A i \in DOMAIN tasks' : /\ BatchSize(Len(tasks)) + i \in DOMAIN tasks
                                   /\ i \in Nat \ {0}
                                   /\ tasks'[i] = tasks[BatchSize(Len(tasks)) + i]
      /\ \A i \in DOMAIN tasks : \/ \E k \in DOMAIN batch' : batch'[k] = tasks[i]
                                 \/ \E k \in DOMAIN tasks' : tasks'[k] = tasks[i]
      <2> DEFINE n == BatchSize(Len(tasks))
      <2>1. /\ n \in 0..Len(tasks) /\ batch' = SubSeq(tasks, 1, n)
            /\ tasks' = SubSeq(tasks, n + 1, Len(tasks))
            BY <1>1, <1>2
      <2> HIDE DEF n
      <2>2. DOMAIN batch' = 1..n /\ \A i \in 1..n : batch'[i] = tasks[i]
            BY <1>2, <2>1
      <2>3. /\ DOMAIN tasks' = 1..(Len(tasks) - n)
            /\ \A i \in 1..(Len(tasks) - n) : tasks'[i] = tasks[n + i]
            BY <1>2, <2>1
      <2>4. DOMAIN tasks = 1..Len(tasks) /\ Len(tasks) \in Nat
            BY <1>2
      <2>5. ASSUME NEW i \in DOMAIN tasks
            PROVE  \/ \E k \in DOMAIN batch' : batch'[k] = tasks[i]
                   \/ \E k \in DOMAIN tasks' : tasks'[k] = tasks[i]
            <3>1. CASE i <= n
                  BY <2>1, <2>2, <2>4, <3>1
            <3>2. CASE i > n
                  <4>1. i - n \in 1..(Len(tasks) - n) /\ n + (i - n) = i
                        BY <2>1, <2>4, <3>2
                  <4>2. QED
                        BY <2>3, <4>1
            <3>3. QED
                  BY <2>1, <2>4, <3>1, <3>2
      <2>6. ASSUME NEW i \in DOMAIN tasks'
            PROVE  n + i \in DOMAIN tasks /\ i \in Nat \ {0} /\ tasks'[i] = tasks[n + i]
            <3>1. i \in 1..(Len(tasks) - n) /\ tasks'[i] = tasks[n + i]
                  BY <2>3, <2>6, Zenon
            <3>2. n + i \in 1..Len(tasks) /\ i \in Nat \ {0}
                  BY <2>1, <2>4, <3>1
            <3>3. QED
                  BY <2>4, <3>1, <3>2
      <2>7. ASSUME NEW i \in DOMAIN batch'
            PROVE  i \in DOMAIN tasks /\ i \in 1..n /\ batch'[i] = tasks[i]
            <3>1. i \in 1..n /\ batch'[i] = tasks[i]
                  BY <2>2, <2>7, Zenon
            <3>2. QED
                  BY <2>1, <2>4, <3>1
      <2>8. QED
            BY <2>5, <2>6, <2>7, Zenon DEF n
<1>4. /\ position' = 1 /\ pc = "take" /\ pc' = "batch"
      /\ UNCHANGED <<pushed, stack, ran, future, intake, ctl>>
      BY DEF LoopTakesBatch, LoopGoto
<1>5. batch = << >>
      BY <1>4 DEF TypeOK, TypeBatch
<1>6. BatchSize(Len(tasks)) \in Nat
      BY <1>2
<1>7. QED
      BY <1>3, <1>4, <1>5, <1>6, Zenon

\* What a round of the drain does to the queue.
LEMMA DrainStepFacts ==
    ASSUME TypeOK, ExecInv, StopDrains
    PROVE  /\ 1 \in DOMAIN tasks /\ tasks[DrainIndex] = tasks[1]
           /\ \A i \in DOMAIN tasks' : /\ i \in Nat /\ i + 1 \in DOMAIN tasks /\ i + 1 # 1
                                        /\ tasks'[i] = tasks[i + 1]
           /\ \A i \in DOMAIN tasks : i # 1 => \E k \in DOMAIN tasks' : tasks'[k] = tasks[i]
           /\ pc = "none" /\ batch = << >> /\ intake # "Closed" /\ stack[Ctl] = << >>
           /\ UNCHANGED <<batch, position, pushed, pc, intake>>
<1>1. /\ tasks # << >> /\ tasks \in Seq(Queued)
      /\ tasks' = SubSeq(tasks, 1, DrainIndex - 1) \o SubSeq(tasks, DrainIndex + 1, Len(tasks))
      BY TaskTypes DEF StopDrains
<1>2. /\ 1 \in DOMAIN tasks /\ tasks[DrainIndex] = tasks[1]
      /\ \A i \in DOMAIN tasks' : /\ i \in Nat /\ i + 1 \in DOMAIN tasks /\ i + 1 # 1
                                   /\ tasks'[i] = tasks[i + 1]
      /\ \A i \in DOMAIN tasks : i # 1 => \E k \in DOMAIN tasks' : tasks'[k] = tasks[i]
      <2>1. \A d : d = SubSeq(tasks, 1, DrainIndex - 1) \o SubSeq(tasks, DrainIndex + 1, Len(tasks)) =>
               /\ 1 \in DOMAIN tasks /\ tasks[DrainIndex] = tasks[1]
               /\ \A i \in DOMAIN d : i \in Nat /\ i + 1 \in DOMAIN tasks /\ i + 1 # 1 /\ d[i] = tasks[i + 1]
               /\ \A i \in DOMAIN tasks : i # 1 => \E k \in DOMAIN d : d[k] = tasks[i]
            BY <1>1, DrainFacts, Zenon
      <2>2. QED
            BY <1>1, <2>1, Zenon
<1>3. pc = "none" /\ batch = << >> /\ intake # "Closed" /\ stack[Ctl] = << >>
      BY DEF StopDrains, ExecInv, IntakeInv, TypeOK, TypeBatch, TypeQueue
<1>4. QED
      BY <1>2, <1>3 DEF StopDrains

\* Neither moves the queue or the batch.
LEMMA StackSteps ==
    ASSUME TypeOK, ExecInv, ActStep \/ EndStep \/ LoopRunsTask
    PROVE  UNCHANGED <<tasks, batch, intake, pc>>
BY DEF ActStep, EndStep, LoopRunsTask, PushCleanupActs, TaskEnds

\* A task that a caller, or the exception handler, runs at once.
LEMMA ActFacts ==
    ASSUME TypeOK, ExecInv, NEW th \in Threads, NEW t \in Cleanups, PushCleanupActs(th, t)
    PROVE  /\ ~Has(pushed, t) /\ pushed' = Append(pushed, t)
           /\ t \in Futures /\ future' = [future EXCEPT ![t] = "pending"]
           /\ th \in Callers \/ (th = Loop /\ pc = "pending" /\ stack[Loop] # << >>)
           /\ \A x \in Threads \ {th} : stack'[x] = stack[x]
           /\ DOMAIN stack'[th] = DOMAIN stack[th] \cup {Len(stack[th]) + 1}
           /\ \A i \in DOMAIN stack[th] : stack'[th][i] = stack[th][i]
           /\ stack'[th][Len(stack[th]) + 1].task = t
           /\ stack'[th][Len(stack[th]) + 1].how = "acting"
           /\ stack[th] # << >> => Len(stack[th]) + 1 # 1
           /\ ran' = Append(ran, [task |-> t, how |-> "acting"])
           /\ UNCHANGED <<tasks, batch, position, pc, intake>>
<1>1. /\ ~Has(pushed, t) /\ pushed' = Append(pushed, t) /\ t \in Futures
      /\ future' = [future EXCEPT ![t] = "pending"]
      /\ UNCHANGED <<tasks, batch, position, pc, intake>>
      BY DEF PushCleanupActs, Has, Range, Futures
<1>2. th \in Callers \/ (th = Loop /\ pc = "pending" /\ stack[Loop] # << >>)
      BY WhoActs, ThreadsAssumption DEF PushCleanupActs, Calling, Executing, ExecInv, StackInv
<1> DEFINE f == Frame(t, "acting")
<1>3. f \in Frames /\ f.task = t /\ f.how = "acting"
      BY DEF Frame, Frames, Hows, Tasks, TypeOK, TypeThreads
<1>4. /\ stack' = [stack EXCEPT ![th] = Append(stack[th], f)]
      /\ ran' = Append(ran, [task |-> f.task, how |-> f.how])
      BY DEF PushCleanupActs, Enters
<1> HIDE DEF f
<1>5. stack[th] \in Seq(Frames) /\ stack \in [Threads -> Seq(Frames)]
      BY TaskTypes
<1>6. /\ stack'[th] = Append(stack[th], f) /\ \A x \in Threads \ {th} : stack'[x] = stack[x]
      BY <1>4, <1>5
<1>7. stack[th] # << >> => Len(stack[th]) + 1 # 1
      BY <1>5
<1>8. QED
      BY <1>1, <1>2, <1>3, <1>4, <1>5, <1>6, <1>7, AppendFacts

\* The loop goes on to the next task of its batch.
LEMMA RunFacts ==
    ASSUME TypeOK, LoopRunsTask
    PROVE  /\ position \in DOMAIN batch /\ position \in Nat /\ position' = position + 1
           /\ pc \in {"batch", "pending"} /\ stack[Loop] = << >>
           /\ UNCHANGED <<tasks, pushed, future, batch, pc, intake>>
           /\ ~Runs(batch[position].kind) => UNCHANGED <<stack, ran>>
           /\ Runs(batch[position].kind) =>
                 /\ \A x \in Threads \ {Loop} : stack'[x] = stack[x]
                 /\ DOMAIN stack'[Loop] = {1} /\ stack'[Loop] # << >>
                 /\ stack'[Loop][1].task = batch[position].task
                 /\ stack'[Loop][1].how = "taken"
                 /\ ran' = Append(ran, [task |-> batch[position].task, how |-> "taken"])
<1>1. position \in DOMAIN batch /\ position \in Nat /\ stack \in [Threads -> Seq(Frames)]
      BY TaskTypes DEF LoopRunsTask
<1> DEFINE f == Frame(batch[position].task, "taken")
<1>2. f.task = batch[position].task /\ f.how = "taken"
      BY DEF Frame
<1>3. Runs(batch[position].kind) =>
         /\ stack' = [stack EXCEPT ![Loop] = Append(stack[Loop], f)]
         /\ ran' = Append(ran, [task |-> f.task, how |-> f.how])
      BY DEF LoopRunsTask, Enters
<1> HIDE DEF f
<1>4. Append(<< >>, f) = << f >> /\ DOMAIN << f >> = {1} /\ << f >>[1] = f /\ << f >> # << >>
      OBVIOUS
<1>5. ASSUME Runs(batch[position].kind)
      PROVE  stack'[Loop] = << f >> /\ \A x \in Threads \ {Loop} : stack'[x] = stack[x]
      BY <1>1, <1>3, <1>4, <1>5 DEF LoopRunsTask, Threads
<1>6. /\ position' = position + 1 /\ pc \in {"batch", "pending"} /\ stack[Loop] = << >>
      /\ UNCHANGED <<tasks, pushed, future, batch, pc, intake>>
      /\ ~Runs(batch[position].kind) => UNCHANGED <<stack, ran>>
      BY DEF LoopRunsTask
<1>7. QED
      BY <1>1, <1>2, <1>3, <1>4, <1>5, <1>6

\* stop() destroys the refused task at the front of the queue, or runs it.
LEMMA FrontFacts ==
    ASSUME TypeOK, ExecInv, StopDrains
    PROVE  /\ tasks[1].kind = "Refused" =>
                 UNCHANGED <<stack, ran>> /\ future' = Unfinished({tasks[1].task})
           /\ tasks[1].kind # "Refused" =>
                 /\ \A x \in Threads \ {Ctl} : stack'[x] = stack[x]
                 /\ DOMAIN stack'[Ctl] = {1}
                 /\ stack'[Ctl][1].task = tasks[1].task
                 /\ stack'[Ctl][1].how = "taken"
                 /\ ran' = Append(ran, [task |-> tasks[1].task, how |-> "taken"])
                 /\ future' = future
<1> DEFINE f == Frame(tasks[1].task, "taken")
<1>1. f.task = tasks[1].task /\ f.how = "taken" /\ stack \in [Threads -> Seq(Frames)]
      BY TaskTypes DEF Frame
<1>2. tasks[1].kind # "Refused" =>
         /\ stack' = [stack EXCEPT ![Ctl] = Append(stack[Ctl], f)]
         /\ ran' = Append(ran, [task |-> f.task, how |-> f.how]) /\ future' = future
      BY DEF StopDrains, Enters, DrainIndex
<1>3. tasks[1].kind = "Refused" =>
         UNCHANGED <<stack, ran>> /\ future' = Unfinished({tasks[1].task})
      BY DEF StopDrains, DrainIndex
<1> HIDE DEF f
<1>4. Append(<< >>, f) = << f >> /\ DOMAIN << f >> = {1} /\ << f >>[1] = f
      OBVIOUS
<1>5. stack[Ctl] = << >>
      BY DEF StopDrains
<1>6. ASSUME tasks[1].kind # "Refused"
      PROVE  stack'[Ctl] = << f >> /\ \A x \in Threads \ {Ctl} : stack'[x] = stack[x]
      BY <1>1, <1>2, <1>4, <1>5, <1>6 DEF Threads
<1>7. QED
      BY <1>1, <1>2, <1>3, <1>4, <1>6

\* A task ends: its frame is gone, and only its own future changes.  It stays
\* pending only when the task threw in the loop.
LEMMA EndFacts ==
    ASSUME TypeOK, NEW th \in Threads, NEW throws \in BOOLEAN, TaskEnds(th, throws),
           NEW top, top = Len(stack[th])
    PROVE  /\ top \in DOMAIN stack[th] /\ top \in Nat
           /\ \A x \in Threads \ {th} : stack'[x] = stack[x]
           /\ \A i \in DOMAIN stack'[th] : /\ i \in DOMAIN stack[th] /\ i # top
                                            /\ stack'[th][i] = stack[th][i]
           /\ \A i \in DOMAIN stack[th] : i # top => i \in DOMAIN stack'[th]
           /\ \A x \in Futures : x # stack[th][top].task => future'[x] = future[x]
           /\ \A x \in Futures : x = stack[th][top].task /\ future'[x] = "pending" =>
                                     th = Loop /\ stack[th][top].how = "taken"
           /\ UNCHANGED <<tasks, pushed, batch, position, pc, ran, intake>>
<1>1. stack[th] # << >> /\ stack[th] \in Seq(Frames) /\ stack \in [Threads -> Seq(Frames)]
      BY TaskTypes DEF TaskEnds
<1>2. stack' = [stack EXCEPT ![th] = SubSeq(stack[th], 1, Len(stack[th]) - 1)]
      BY DEF TaskEnds
<1>3. /\ stack'[th] = SubSeq(stack[th], 1, Len(stack[th]) - 1)
      /\ \A x \in Threads \ {th} : stack'[x] = stack[x]
      BY <1>1, <1>2
<1> DEFINE s == stack[th]
<1> DEFINE r == SubSeq(s, 1, Len(s) - 1)
<1>4. Len(s) \in Nat \ {0} /\ DOMAIN s = 1..Len(s) /\ Len(r) = Len(s) - 1
      /\ \A i \in 1..(Len(s) - 1) : r[i] = s[i]
      BY <1>1, FrontOfSeq
<1>5. DOMAIN r = 1..(Len(s) - 1)
      BY <1>1, <1>4
<1>6. top \in DOMAIN s /\ top \in Nat
      BY <1>4
<1>7. /\ \A i \in DOMAIN r : i \in DOMAIN s /\ i # top /\ r[i] = s[i]
      /\ \A i \in DOMAIN s : i # top => i \in DOMAIN r
      <2> HIDE DEF r, s
      <2>1. top = Len(s)
            BY DEF s
      <2>2. QED
            BY <1>4, <1>5, <2>1
<1>8. /\ \A x \in Futures : x # s[top].task => future'[x] = future[x]
      /\ \A x \in Futures : x = s[top].task /\ future'[x] = "pending" =>
                                     th = Loop /\ s[top].how = "taken"
      BY DEF TaskEnds, Unfinished, TypeOK, TypeQueue
<1>9. UNCHANGED <<tasks, pushed, batch, position, pc, ran, intake>>
      BY DEF TaskEnds
<1>10. QED
      BY <1>3, <1>6, <1>7, <1>8, <1>9

LEMMA EndStepFacts ==
    ASSUME TypeOK, EndStep
    PROVE  /\ UNCHANGED <<tasks, pushed, batch, position, pc, ran, intake>>
           /\ \E th \in Threads : \E top \in DOMAIN stack[th] :
                /\ \A x \in Threads \ {th} : stack'[x] = stack[x]
                /\ \A i \in DOMAIN stack'[th] : /\ i \in DOMAIN stack[th] /\ i # top
                                                 /\ stack'[th][i] = stack[th][i]
                /\ \A i \in DOMAIN stack[th] : i # top => i \in DOMAIN stack'[th]
                /\ \A x \in Futures : x # stack[th][top].task => future'[x] = future[x]
                /\ \A x \in Futures : x = stack[th][top].task /\ future'[x] = "pending" =>
                                          th = Loop /\ stack[th][top].how = "taken"
<1>1. PICK th \in Threads, throws \in BOOLEAN : TaskEnds(th, throws)
      BY DEF EndStep
<1> DEFINE top == Len(stack[th])
<1>2. /\ top \in DOMAIN stack[th] /\ top \in Nat
      /\ \A x \in Threads \ {th} : stack'[x] = stack[x]
      /\ \A i \in DOMAIN stack'[th] : /\ i \in DOMAIN stack[th] /\ i # top
                                       /\ stack'[th][i] = stack[th][i]
      /\ \A i \in DOMAIN stack[th] : i # top => i \in DOMAIN stack'[th]
      /\ \A x \in Futures : x # stack[th][top].task => future'[x] = future[x]
      /\ \A x \in Futures : x = stack[th][top].task /\ future'[x] = "pending" =>
                                th = Loop /\ stack[th][top].how = "taken"
      /\ UNCHANGED <<tasks, pushed, batch, position, pc, ran, intake>>
      BY <1>1, EndFacts
<1> HIDE DEF top
<1>3. QED
      BY <1>2, Zenon

LEMMA StepKind ==
    ASSUME TypeOK, ExecInv, QueueInv, Next
    PROVE  KindInv'
<1> USE DEF QueueInv, KindInv
<1>1. CASE AppendStep
      <2>1. PICK q \in Queued : EntryOK(q) /\ tasks' = Append(tasks, q) /\ UNCHANGED batch
            BY <1>1 DEF AppendStep
      <2>2. QED
            BY <2>1, AppendFacts, TaskTypes
<1>2. CASE StopDrains
      BY <1>2, DrainStepFacts
<1>3. CASE LoopTakesBatch
      BY <1>3, TakeFacts
<1>4. CASE DestroyStep \/ CatchStep
      BY <1>4 DEF DestroyStep, CatchStep
<1>5. CASE UNCHANGED <<tasks, batch>>
      BY <1>5
<1>6. QED
      BY <1>1, <1>2, <1>3, <1>4, <1>5, QueueSteps, StackSteps DEF QuietStep, taskVars, DropStep

LEMMA StepClosed ==
    ASSUME TypeOK, ExecInv, QueueInv, Next
    PROVE  ClosedInv'
<1> USE DEF QueueInv, ClosedInv
<1>1. CASE LoopTakesBatch
      BY <1>1, TakeFacts DEF ExecInv, IntakeInv
<1>2. CASE StopDrains
      BY <1>2, DrainStepFacts
<1>3. QED
      BY <1>1, <1>2, QueueSteps, StackSteps
      DEF QuietStep, taskVars, AppendStep, DropStep, DestroyStep, CatchStep

\* A task enters the history of the pushes once.
LEMMA PushedGrows ==
    ASSUME NEW p \in Seq(Tasks), NEW t \in Tasks, ~Has(p, t),
           \A i, j \in DOMAIN p : p[i] = p[j] => i = j
    PROVE  \A i, j \in DOMAIN Append(p, t) : Append(p, t)[i] = Append(p, t)[j] => i = j
BY AppendFacts DEF Has

LEMMA StepPushed ==
    ASSUME TypeOK, ExecInv, QueueInv, Next
    PROVE  PushedInv'
<1> USE DEF QueueInv, PushedInv
<1>0. pushed \in Seq(Tasks) /\ tasks \in Seq(Queued) /\ ran \in Seq([task : Tasks, how : Hows])
      BY TaskTypes
<1>1. CASE AppendStep
      <2>1. PICK q \in Queued :
               /\ ~Has(pushed, q.task) /\ tasks' = Append(tasks, q)
               /\ pushed' = Append(pushed, q.task)
               /\ \/ future' = future
                  \/ q.task \in Futures /\ future' = [future EXCEPT ![q.task] = "pending"]
               /\ UNCHANGED <<batch, stack, ran>>
            BY <1>1 DEF AppendStep
      <2>2. q.task \in Tasks
            BY DEF Queued
      <2>3. \A i, j \in DOMAIN pushed' : pushed'[i] = pushed'[j] => i = j
            BY <1>0, <2>1, <2>2, PushedGrows
      <2>4. Has(pushed', q.task) /\ \A a : Has(pushed, a) => Has(pushed', a)
            BY <1>0, <2>1, <2>2, BeforeFacts
      <2>5. \A i \in DOMAIN tasks' : Has(pushed', tasks'[i].task)
            BY <1>0, <2>1, <2>4, AppendFacts
      <2>6. \A f \in Futures : future'[f] # "none" => Has(pushed', f)
            BY <2>1, <2>4 DEF TypeOK, TypeQueue
      <2>7. QED
            BY <2>1, <2>3, <2>4, <2>5, <2>6
<1>2. CASE DropStep
      <2>1. PICK t \in Promises :
               /\ ~Has(pushed, t) /\ pushed' = Append(pushed, t)
               /\ future' = [future EXCEPT ![t] = "unfinished"]
               /\ UNCHANGED <<tasks, batch, stack, ran>>
            BY <1>2 DEF DropStep
      <2>2. t \in Tasks
            BY DEF Tasks
      <2>3. \A i, j \in DOMAIN pushed' : pushed'[i] = pushed'[j] => i = j
            BY <1>0, <2>1, <2>2, PushedGrows
      <2>4. Has(pushed', t) /\ \A a : Has(pushed, a) => Has(pushed', a)
            BY <1>0, <2>1, <2>2, BeforeFacts
      <2>5. \A f \in Futures : future'[f] # "none" => Has(pushed', f)
            BY <2>1, <2>4 DEF TypeOK, TypeQueue
      <2>6. QED
            BY <2>1, <2>3, <2>4, <2>5
<1>3. CASE ActStep
      <2>1. PICK th \in Threads, t \in Cleanups : PushCleanupActs(th, t)
            BY <1>3 DEF ActStep
      <2>2. /\ ~Has(pushed, t) /\ pushed' = Append(pushed, t)
            /\ future' = [future EXCEPT ![t] = "pending"]
            /\ ran' = Append(ran, [task |-> t, how |-> "acting"])
            /\ UNCHANGED <<tasks, batch>>
            /\ \A x \in Threads \ {th} : stack'[x] = stack[x]
            /\ DOMAIN stack'[th] = DOMAIN stack[th] \cup {Len(stack[th]) + 1}
            /\ \A i \in DOMAIN stack[th] : stack'[th][i] = stack[th][i]
            /\ stack'[th][Len(stack[th]) + 1].task = t
            BY <2>1, ActFacts
      <2>3. t \in Tasks /\ [task |-> t, how |-> "acting"] \in [task : Tasks, how : Hows]
            BY DEF Tasks, Hows
      <2>4. \A i, j \in DOMAIN pushed' : pushed'[i] = pushed'[j] => i = j
            <3>1. \A i, j \in DOMAIN pushed : pushed[i] = pushed[j] => i = j
                  OBVIOUS
            <3> HIDE DEF QueueInv, PushedInv
            <3>2. QED
                  BY <1>0, <2>2, <2>3, <3>1, PushedGrows
      <2>5. Has(pushed', t) /\ \A a : Has(pushed, a) => Has(pushed', a)
            BY <1>0, <2>2, <2>3, BeforeFacts
      <2>6. \A f \in Futures : future'[f] # "none" => Has(pushed', f)
            BY <2>2, <2>5 DEF TypeOK, TypeQueue
      <2>7. \A i \in DOMAIN ran' : Has(pushed', ran'[i].task)
            BY <1>0, <2>2, <2>3, <2>5, AppendFacts
      <2>8. \A x \in Threads : \A i \in DOMAIN stack'[x] : Has(pushed', stack'[x][i].task)
            BY <2>2, <2>5
      <2>9. QED
            BY <2>2, <2>4, <2>5, <2>6, <2>7, <2>8
<1>4. CASE EndStep
      <2>1. UNCHANGED <<tasks, pushed, batch, ran>>
            BY <1>4, EndStepFacts
      <2>2. PICK th \in Threads : \E top \in DOMAIN stack[th] :
                /\ \A x \in Threads \ {th} : stack'[x] = stack[x]
                /\ \A i \in DOMAIN stack'[th] : /\ i \in DOMAIN stack[th] /\ i # top
                                                 /\ stack'[th][i] = stack[th][i]
                /\ \A x \in Futures : x # stack[th][top].task => future'[x] = future[x]
            BY <1>4, EndStepFacts
      <2>3. QED
            BY <2>1, <2>2
<1>5. CASE StopDrains
      <2>0. tasks[1] \in Queued
            BY <1>0, <1>5, DrainStepFacts
      <2>1. [task |-> tasks[1].task, how |-> "taken"] \in [task : Tasks, how : Hows]
            BY <2>0 DEF Queued, Hows
      <2>2. \A i \in DOMAIN ran' : Has(pushed, ran'[i].task)
            <3>1. Has(pushed, tasks[1].task)
                  BY <1>5, DrainStepFacts
            <3>2. CASE tasks[1].kind # "Refused"
                  <4>1. ran' = Append(ran, [task |-> tasks[1].task, how |-> "taken"])
                        BY <1>5, <3>2, FrontFacts
                  <4>2. QED
                        BY <1>0, <2>1, <3>1, <4>1, AppendFacts
            <3>3. QED
                  BY <1>5, <3>2, FrontFacts
      <2>3. \A x \in Threads : \A i \in DOMAIN stack'[x] : Has(pushed, stack'[x][i].task)
            BY <1>5, FrontFacts, DrainStepFacts
      <2>4. \A f \in Futures : future'[f] # "none" => future[f] # "none"
            BY <1>5, FrontFacts DEF Unfinished
      <2>5. QED
            BY <1>5, <2>2, <2>3, <2>4, DrainStepFacts
<1>6. CASE LoopTakesBatch
      BY <1>6, TakeFacts
<1>7. CASE LoopRunsTask
      <2>0. batch[position] \in Queued
            BY <1>7, RunFacts, TaskTypes
      <2>1. batch[position].task \in Tasks
            BY <2>0 DEF Queued
      <2>2. \A i \in DOMAIN ran' : Has(pushed, ran'[i].task)
            <3>1. CASE Runs(batch[position].kind)
                  <4>1. ran' = Append(ran, [task |-> batch[position].task, how |-> "taken"])
                        BY <1>7, <3>1, RunFacts
                  <4>2. [task |-> batch[position].task, how |-> "taken"] \in [task : Tasks, how : Hows]
                        BY <2>1 DEF Hows
                  <4>3. Has(pushed, batch[position].task)
                        BY <1>7, RunFacts
                  <4>4. QED
                        BY <1>0, <4>1, <4>2, <4>3, AppendFacts
            <3>2. QED
                  BY <1>7, <3>1, RunFacts
      <2>3. \A x \in Threads : \A i \in DOMAIN stack'[x] : Has(pushed, stack'[x][i].task)
            <3>1. Has(pushed, batch[position].task)
                  BY <1>7, RunFacts
            <3>2. QED
                  BY <1>7, <3>1, RunFacts
      <2>4. QED
            BY <1>7, <2>2, <2>3, RunFacts
<1>8. CASE DestroyStep
      BY <1>8 DEF DestroyStep, Unfinished
<1>9. CASE QuietStep \/ CatchStep
      BY <1>9 DEF QuietStep, taskVars, CatchStep
<1>10. QED
      BY <1>1, <1>2, <1>3, <1>4, <1>5, <1>6, <1>7, <1>8, <1>9, QueueSteps

LEMMA StepOrder ==
    ASSUME TypeOK, ExecInv, QueueInv, Next
    PROVE  OrderInv'
<1> USE DEF OrderInv
<1>0. /\ OrderInv /\ PushedInv /\ Ctl \in Threads
      /\ pushed \in Seq(Tasks) /\ tasks \in Seq(Queued) /\ batch \in Seq(Queued)
      BY TaskTypes DEF QueueInv, Threads
<1>1. CASE AppendStep
      <2>1. PICK q \in Queued :
               /\ tasks' = Append(tasks, q) /\ pushed' = Append(pushed, q.task)
               /\ UNCHANGED <<batch, stack>>
            BY <1>1 DEF AppendStep
      <2>2. q.task \in Tasks
            BY DEF Queued
      <2>3. /\ \A a, b : Before(pushed, a, b) => Before(pushed', a, b)
            /\ \A a : Has(pushed, a) => Before(pushed', a, q.task)
            BY <1>0, <2>1, <2>2, BeforeFacts
      <2>4. /\ DOMAIN tasks' = DOMAIN tasks \cup {Len(tasks) + 1}
            /\ \A i \in DOMAIN tasks : tasks'[i] = tasks[i] /\ i \in Nat /\ i < Len(tasks) + 1
            /\ tasks'[Len(tasks) + 1] = q /\ Len(tasks) + 1 \notin DOMAIN tasks
            BY <1>0, <2>1, AppendFacts
      <2>5. \A i, j \in DOMAIN tasks' : i < j => Before(pushed', tasks'[i].task, tasks'[j].task)
            <3>1. Len(tasks) \in Nat
                  BY <1>0
            <3>2. \A i \in DOMAIN tasks' : i < Len(tasks) + 1 => i \in DOMAIN tasks
                  BY <2>4, <3>1
            <3>3. \A i, j \in DOMAIN tasks' : i < j => i \in DOMAIN tasks
                  BY <2>4, <3>1
            <3>4. QED
                  BY <1>0, <2>3, <2>4, <3>3 DEF PushedInv
      <2>6. \A i \in DOMAIN batch', j \in DOMAIN tasks' : Before(pushed', batch'[i].task, tasks'[j].task)
            BY <1>0, <2>1, <2>3, <2>4 DEF PushedInv
      <2>7. \A i \in DOMAIN stack'[Ctl], j \in DOMAIN tasks' :
               Before(pushed', stack'[Ctl][i].task, tasks'[j].task)
            BY <1>0, <2>1, <2>3, <2>4 DEF PushedInv
      <2>8. QED
            BY <1>0, <2>1, <2>3, <2>5, <2>6, <2>7
<1>2. CASE DropStep
      <2>1. PICK t \in Promises : pushed' = Append(pushed, t) /\ UNCHANGED <<tasks, batch, stack>>
            BY <1>2 DEF DropStep
      <2>2. \A a, b : Before(pushed, a, b) => Before(pushed', a, b)
            BY <1>0, <2>1, BeforeFacts DEF Tasks
      <2>3. QED
            BY <1>0, <2>1, <2>2
<1>3. CASE ActStep
      <2>1. PICK th \in Threads, t \in Cleanups : PushCleanupActs(th, t)
            BY <1>3 DEF ActStep
      <2>2. pushed' = Append(pushed, t) /\ UNCHANGED <<tasks, batch>> /\ stack'[Ctl] = stack[Ctl]
            BY <1>0, <2>1, ActFacts, ThreadsAssumption
      <2>3. \A a, b : Before(pushed, a, b) => Before(pushed', a, b)
            BY <1>0, <2>2, BeforeFacts DEF Tasks
      <2>4. QED
            BY <1>0, <2>2, <2>3
<1>4. CASE EndStep
      <2>1. UNCHANGED <<tasks, pushed, batch>>
            BY <1>4, EndStepFacts
      <2>2. \A i \in DOMAIN stack'[Ctl] : i \in DOMAIN stack[Ctl] /\ stack'[Ctl][i] = stack[Ctl][i]
            BY <1>0, <1>4, EndStepFacts
      <2>3. QED
            BY <1>0, <2>1, <2>2
<1>5. CASE StopDrains
      <2>1. /\ UNCHANGED <<pushed, batch>> /\ batch = << >>
            /\ \A i \in DOMAIN tasks' : /\ i \in Nat /\ i + 1 \in DOMAIN tasks
                                         /\ tasks'[i] = tasks[i + 1] /\ i + 1 > 1
            /\ 1 \in DOMAIN tasks
            BY <1>0, <1>5, DrainStepFacts
      <2>2. \A i, j \in DOMAIN tasks' : i < j => Before(pushed, tasks'[i].task, tasks'[j].task)
            <3>1. \A i, j \in DOMAIN tasks' : i < j => i + 1 < j + 1
                  BY <2>1
            <3>2. QED
                  BY <1>0, <2>1, <3>1
      <2>3. \A j \in DOMAIN tasks' : Before(pushed, tasks[1].task, tasks'[j].task)
            BY <1>0, <2>1
      <2>4. \A i \in DOMAIN stack'[Ctl] : stack'[Ctl][i].task = tasks[1].task
            BY <1>5, FrontFacts, DrainStepFacts
      <2>5. QED
            BY <2>1, <2>2, <2>3, <2>4
<1>6. CASE LoopTakesBatch
      <2> DEFINE n == BatchSize(Len(tasks))
      <2>1. /\ \A i \in DOMAIN batch' : i \in DOMAIN tasks /\ i \in 1..n /\ batch'[i] = tasks[i]
            /\ \A i \in DOMAIN tasks' : /\ n + i \in DOMAIN tasks /\ i \in Nat \ {0}
                                         /\ tasks'[i] = tasks[n + i]
            /\ n \in Nat /\ UNCHANGED <<pushed, stack>>
            BY <1>6, TakeFacts
      <2> HIDE DEF n
      <2>2. \A i, j \in DOMAIN tasks' : i < j => n + i < n + j
            BY <2>1
      <2>3. \A i \in DOMAIN batch', j \in DOMAIN tasks' : i < n + j
            BY <2>1
      <2>4. QED
            BY <1>0, <2>1, <2>2, <2>3
<1>7. CASE LoopRunsTask
      <2>1. UNCHANGED <<pushed, tasks, batch>> /\ stack'[Ctl] = stack[Ctl]
            BY <1>0, <1>7, RunFacts, ThreadsAssumption
      <2>2. QED
            BY <1>0, <2>1
<1>8. CASE DestroyStep
      BY <1>0, <1>8 DEF DestroyStep
<1>9. CASE QuietStep
      BY <1>0, <1>9 DEF QuietStep, taskVars
<1>10. CASE CatchStep
      BY <1>0, <1>10 DEF CatchStep
<1>11. QED
      BY <1>1, <1>2, <1>3, <1>4, <1>5, <1>6, <1>7, <1>8, <1>9, <1>10, QueueSteps

\* A run is added to the history.
LEMMA RanGrows ==
    ASSUME NEW r \in Seq([task : Tasks, how : Hows]), NEW t \in Tasks, NEW how \in Hows
    PROVE  /\ \A x : Ran(Append(r, [task |-> t, how |-> how]), x) <=> Ran(r, x) \/ x = t
           /\ (\A i, j \in DOMAIN r : r[i].task = r[j].task => i = j) /\ ~Ran(r, t) =>
                 \A i, j \in DOMAIN Append(r, [task |-> t, how |-> how]) :
                    Append(r, [task |-> t, how |-> how])[i].task
                        = Append(r, [task |-> t, how |-> how])[j].task => i = j
<1> DEFINE e == [task |-> t, how |-> how]
<1> DEFINE s == Append(r, e)
<1>1. e \in [task : Tasks, how : Hows] /\ e.task = t
      OBVIOUS
<1> HIDE DEF e
<1>2. /\ DOMAIN s = DOMAIN r \cup {Len(r) + 1}
      /\ \A i \in DOMAIN r : s[i] = r[i]
      /\ s[Len(r) + 1] = e
      BY <1>1, AppendFacts
<1> HIDE DEF s
<1>3. /\ \A x : Ran(s, x) <=> Ran(r, x) \/ x = t
      /\ (\A i, j \in DOMAIN r : r[i].task = r[j].task => i = j) /\ ~Ran(r, t) =>
            \A i, j \in DOMAIN s : s[i].task = s[j].task => i = j
      BY <1>1, <1>2 DEF Ran
<1>4. QED
      BY <1>3 DEF s, e

LEMMA RanStaysUnique ==
    ASSUME NEW r \in Seq([task : Tasks, how : Hows]), NEW t \in Tasks, NEW how \in Hows,
           \A i, j \in DOMAIN r : r[i].task = r[j].task => i = j, ~Ran(r, t)
    PROVE  \A i, j \in DOMAIN Append(r, [task |-> t, how |-> how]) :
              Append(r, [task |-> t, how |-> how])[i].task
                  = Append(r, [task |-> t, how |-> how])[j].task => i = j
BY RanGrows

LEMMA StepRan ==
    ASSUME TypeOK, ExecInv, QueueInv, Next
    PROVE  RanInv'
<1> USE DEF RanInv
<1>0. /\ RanInv /\ PushedInv /\ OrderInv /\ pushed \in Seq(Tasks)
      /\ tasks \in Seq(Queued) /\ batch \in Seq(Queued) /\ position \in Nat
      /\ ran \in Seq([task : Tasks, how : Hows])
      BY TaskTypes DEF QueueInv
<1>a. \A a, b : Before(pushed, a, b) => a # b
      BY <1>0, BeforeIsOrder DEF PushedInv
<1>b. \A x : Ran(ran, x) => Has(pushed, x)
      BY <1>0 DEF PushedInv, Ran
<1>1. CASE AppendStep
      <2>1. PICK q \in Queued :
               /\ ~Has(pushed, q.task) /\ tasks' = Append(tasks, q)
               /\ UNCHANGED <<batch, position, ran>>
            BY <1>1 DEF AppendStep
      <2>2. \A i \in DOMAIN tasks' : ~Ran(ran, tasks'[i].task)
            BY <1>0, <1>b, <2>1, AppendFacts
      <2>3. QED
            BY <1>0, <2>1, <2>2
<1>2. CASE ActStep
      <2>1. PICK th \in Threads, t \in Cleanups : PushCleanupActs(th, t)
            BY <1>2 DEF ActStep
      <2>2. /\ ~Has(pushed, t) /\ ran' = Append(ran, [task |-> t, how |-> "acting"])
            /\ UNCHANGED <<tasks, batch, position>>
            BY <2>1, ActFacts
      <2>3. t \in Tasks /\ "acting" \in Hows
            BY DEF Tasks, Hows
      <2>4. /\ \A x : Ran(ran', x) <=> Ran(ran, x) \/ x = t
            /\ \A i, j \in DOMAIN ran' : ran'[i].task = ran'[j].task => i = j
            <3>1. ~Ran(ran, t) /\ \A i, j \in DOMAIN ran : ran[i].task = ran[j].task => i = j
                  BY <1>0, <1>b, <2>2
            <3> HIDE DEF RanInv
            <3>2. \A x : Ran(ran', x) <=> Ran(ran, x) \/ x = t
                  BY <1>0, <2>2, <2>3, RanGrows
            <3>3. \A i, j \in DOMAIN ran' : ran'[i].task = ran'[j].task => i = j
                  BY <1>0, <2>2, <2>3, <3>1, RanStaysUnique
            <3>4. QED
                  BY <3>2, <3>3
      <2>5. QED
            BY <1>0, <2>2, <2>4 DEF PushedInv
<1>3. CASE StopDrains
      <2>1. /\ 1 \in DOMAIN tasks /\ UNCHANGED batch /\ batch = << >>
            /\ \A i \in DOMAIN tasks' : /\ i \in Nat /\ i + 1 \in DOMAIN tasks
                                         /\ tasks'[i] = tasks[i + 1] /\ i + 1 > 1
            BY <1>0, <1>3, DrainStepFacts
      <2>2. \A i \in DOMAIN tasks' : tasks'[i].task # tasks[1].task
            BY <1>0, <1>a, <2>1 DEF OrderInv
      <2>3. CASE tasks[1].kind = "Refused"
            <3>1. ran' = ran
                  BY <1>3, <2>3, FrontFacts
            <3>2. QED
                  BY <1>0, <2>1, <3>1
      <2>4. CASE tasks[1].kind # "Refused"
            <3>1. ran' = Append(ran, [task |-> tasks[1].task, how |-> "taken"])
                  BY <1>3, <2>4, FrontFacts
            <3>2. tasks[1] \in Queued
                  BY <1>0, <2>1
            <3>3. tasks[1].task \in Tasks /\ "taken" \in Hows
                  BY <3>2 DEF Queued, Hows
            <3>4. ~Ran(ran, tasks[1].task)
                  BY <1>0, <2>1
            <3>5. /\ \A x : Ran(ran', x) <=> Ran(ran, x) \/ x = tasks[1].task
                  /\ \A i, j \in DOMAIN ran' : ran'[i].task = ran'[j].task => i = j
                  <4> DEFINE t == tasks[1].task
                  <4>1. /\ t \in Tasks /\ ~Ran(ran, t) /\ ran' = Append(ran, [task |-> t, how |-> "taken"])
                        /\ \A i, j \in DOMAIN ran : ran[i].task = ran[j].task => i = j
                        BY <1>0, <3>1, <3>3, <3>4
                  <4> HIDE DEF t, RanInv
                  <4>2. \A x : Ran(ran', x) <=> Ran(ran, x) \/ x = t
                        BY <1>0, <3>3, <4>1, RanGrows
                  <4>3. \A i, j \in DOMAIN ran' : ran'[i].task = ran'[j].task => i = j
                        BY <1>0, <3>3, <4>1, RanStaysUnique
                  <4>4. QED
                        BY <4>2, <4>3 DEF t
            <3>6. QED
                  BY <1>0, <2>1, <2>2, <3>5
      <2>5. QED
            BY <2>3, <2>4
<1>4. CASE LoopTakesBatch
      <2>1. /\ \A i \in DOMAIN batch' : \E k \in DOMAIN tasks : batch'[i] = tasks[k]
            /\ \A i \in DOMAIN tasks' : \E k \in DOMAIN tasks : tasks'[i] = tasks[k]
            /\ UNCHANGED ran
            BY <1>4, TakeFacts
      <2>2. QED
            BY <1>0, <2>1
<1>5. CASE LoopRunsTask
      <2>1. /\ position \in DOMAIN batch /\ position' = position + 1 /\ UNCHANGED <<tasks, batch>>
            BY <1>5, RunFacts
      <2>2. \A i \in DOMAIN batch : i >= position' => i >= position /\ position < i
            BY <1>0, <2>1
      <2>3. CASE ~Runs(batch[position].kind)
            <3>1. ran' = ran
                  BY <1>5, <2>3, RunFacts
            <3>2. QED
                  BY <1>0, <2>1, <2>2, <3>1
      <2>4. CASE Runs(batch[position].kind)
            <3>1. ran' = Append(ran, [task |-> batch[position].task, how |-> "taken"])
                  BY <1>5, <2>4, RunFacts
            <3>2. batch[position] \in Queued
                  BY <1>0, <2>1
            <3>3. batch[position].task \in Tasks /\ "taken" \in Hows
                  BY <3>2 DEF Queued, Hows
            <3>4. ~Ran(ran, batch[position].task)
                  BY <1>0, <2>1
            <3>5. /\ \A x : Ran(ran', x) <=> Ran(ran, x) \/ x = batch[position].task
                  /\ \A i, j \in DOMAIN ran' : ran'[i].task = ran'[j].task => i = j
                  <4> DEFINE t == batch[position].task
                  <4>1. /\ t \in Tasks /\ ~Ran(ran, t) /\ ran' = Append(ran, [task |-> t, how |-> "taken"])
                        /\ \A i, j \in DOMAIN ran : ran[i].task = ran[j].task => i = j
                        BY <1>0, <3>1, <3>3, <3>4
                  <4> HIDE DEF t, RanInv
                  <4>2. \A x : Ran(ran', x) <=> Ran(ran, x) \/ x = t
                        BY <1>0, <3>3, <4>1, RanGrows
                  <4>3. \A i, j \in DOMAIN ran' : ran'[i].task = ran'[j].task => i = j
                        BY <1>0, <3>3, <4>1, RanStaysUnique
                  <4>4. QED
                        BY <4>2, <4>3 DEF t
            <3>6. \A i \in DOMAIN batch : i >= position' => batch[position].task # batch[i].task
                  BY <1>0, <1>a, <2>1, <2>2 DEF OrderInv
            <3>7. \A i \in DOMAIN tasks : batch[position].task # tasks[i].task
                  BY <1>0, <1>a, <2>1 DEF OrderInv
            <3>8. QED
                  BY <1>0, <2>1, <2>2, <3>5, <3>6, <3>7
      <2>5. QED
            BY <2>3, <2>4
<1>6. CASE CatchStep
      BY <1>0, <1>6 DEF CatchStep
<1>7. CASE DestroyStep
      BY <1>0, <1>7 DEF DestroyStep
<1>8. CASE UNCHANGED <<tasks, batch, position, ran>>
      BY <1>0, <1>8
<1>9. CASE EndStep
      BY <1>8, <1>9, EndStepFacts
<1>10. QED
      BY <1>1, <1>2, <1>3, <1>4, <1>5, <1>6, <1>7, <1>8, <1>9, QueueSteps
      DEF QuietStep, taskVars, DropStep

LEMMA StepFrame ==
    ASSUME TypeOK, ExecInv, QueueInv, Next
    PROVE  FrameInv'
<1> USE DEF FrameInv
<1>0. /\ FrameInv /\ KindInv /\ Ctl \in Threads /\ Loop \in Threads /\ Callers \subseteq Threads
      /\ Ctl # Loop /\ Ctl \notin Callers /\ Loop \notin Callers /\ position \in Nat
      BY TaskTypes, ThreadsAssumption DEF QueueInv, Threads
<1>a. stack[Loop] # << >> => pc \in {"batch", "pending"}
      BY DEF ExecInv, StackInv
<1>1. CASE UNCHANGED <<stack, batch, position>> /\ (pc' = "pending" <=> pc = "pending")
      BY <1>0, <1>1
<1>2. CASE ActStep
      <2>1. PICK th \in Threads, t \in Cleanups : PushCleanupActs(th, t)
            BY <1>2 DEF ActStep
      <2> DEFINE n == Len(stack[th]) + 1
      <2>2. /\ th \in Callers \/ (th = Loop /\ pc = "pending" /\ stack[Loop] # << >>)
            /\ \A x \in Threads \ {th} : stack'[x] = stack[x]
            /\ DOMAIN stack'[th] = DOMAIN stack[th] \cup {n}
            /\ \A i \in DOMAIN stack[th] : stack'[th][i] = stack[th][i]
            /\ stack'[th][n].task = t /\ stack'[th][n].how = "acting"
            /\ stack[th] # << >> => n # 1
            /\ UNCHANGED <<batch, position, pc>>
            BY <2>1, ActFacts
      <2> HIDE DEF n
      <2>3. \A x \in Threads : \A i \in DOMAIN stack'[x] :
               stack'[x][i].how = "acting" => stack'[x][i].task \in Cleanups
            BY <1>0, <2>2
      <2>4. \A c \in Callers : \A i \in DOMAIN stack'[c] : stack'[c][i].how = "acting"
            BY <1>0, <2>2
      <2>5. \A i \in DOMAIN stack'[Loop] : i # 1 => stack'[Loop][i].how = "acting"
            BY <1>0, <2>2
      <2>6. stack'[Ctl] = stack[Ctl]
            BY <1>0, <2>2
      <2>7. stack'[Loop] # << >> => stack[Loop] # << >> /\ stack'[Loop][1] = stack[Loop][1]
            <3>1. CASE th = Loop
                  <4>1. stack[Loop] \in Seq(Frames)
                        BY <1>0, TaskTypes
                  <4>2. 1 \in DOMAIN stack[Loop]
                        BY <1>0, <2>2, <3>1, <4>1
                  <4>3. QED
                        BY <1>0, <2>2, <3>1, <4>2
            <3>2. QED
                  BY <1>0, <2>2, <3>1
      <2>8. QED
            BY <1>0, <2>2, <2>3, <2>4, <2>5, <2>6, <2>7
<1>3. CASE EndStep
      <2>1. UNCHANGED <<batch, position, pc>>
            BY <1>3, EndStepFacts
      <2>2. \A x \in Threads : \A i \in DOMAIN stack'[x] :
               i \in DOMAIN stack[x] /\ stack'[x][i] = stack[x][i]
            BY <1>3, EndStepFacts
      <2>3. stack'[Loop] # << >> => stack[Loop] # << >> /\ stack'[Loop][1] = stack[Loop][1]
            <3>1. stack'[Loop] \in Seq(Frames) /\ stack[Loop] \in Seq(Frames)
                  BY <1>0, TaskTypes, StepType DEF TypeOK, TypeThreads
            <3>2. stack'[Loop] # << >> => 1 \in DOMAIN stack'[Loop]
                  BY <3>1
            <3>3. 1 \in DOMAIN stack[Loop] => stack[Loop] # << >>
                  BY <3>1
            <3>4. QED
                  BY <1>0, <2>2, <3>2, <3>3
      <2>4. QED
            BY <1>0, <2>1, <2>2, <2>3
<1>4. CASE StopDrains
      <2>1. UNCHANGED <<batch, position, pc>>
            BY <1>4, DrainStepFacts
      <2>2. CASE tasks[1].kind = "Refused"
            BY <1>1, <1>4, <2>1, <2>2, FrontFacts
      <2>3. CASE tasks[1].kind # "Refused"
            BY <1>0, <1>4, <2>1, <2>3, FrontFacts
      <2>4. QED
            BY <2>2, <2>3
<1>5. CASE LoopTakesBatch
      <2>1. UNCHANGED stack /\ stack[Loop] = << >>
            BY <1>5, <1>a, TakeFacts
      <2>2. QED
            BY <1>0, <2>1
<1>6. CASE LoopRunsTask
      <2>1. /\ position' = position + 1 /\ UNCHANGED <<batch, pc>> /\ position \in DOMAIN batch
            /\ stack[Loop] = << >> /\ pc \in {"batch", "pending"}
            BY <1>6, RunFacts
      <2>2. CASE ~Runs(batch[position].kind)
            <3>1. UNCHANGED stack
                  BY <1>6, <2>2, RunFacts
            <3>2. QED
                  BY <1>0, <2>1, <3>1
      <2>3. CASE Runs(batch[position].kind)
            <3>1. /\ \A x \in Threads \ {Loop} : stack'[x] = stack[x]
                  /\ DOMAIN stack'[Loop] = {1} /\ stack'[Loop] # << >>
                  /\ stack'[Loop][1].task = batch[position].task
                  /\ stack'[Loop][1].how = "taken"
                  BY <1>6, <2>3, RunFacts
            <3>2. pc = "pending" => batch[position].task \in Cleanups
                  BY <1>0, <2>1, <2>3 DEF Runs, KindInv, EntryOK
            <3>3. position' # 1 /\ position' - 1 = position
                  BY <1>0, <2>1, TaskTypes
            <3>4. QED
                  BY <1>0, <2>1, <3>1, <3>2, <3>3
      <2>4. QED
            BY <2>2, <2>3
<1>7. CASE DestroyStep \/ CatchStep
      <2>1. UNCHANGED stack /\ stack[Loop] = << >>
            BY <1>7, <1>a DEF DestroyStep, CatchStep
      <2>2. QED
            BY <1>0, <2>1
<1>8. QED
      BY <1>1, <1>2, <1>3, <1>4, <1>5, <1>6, <1>7, QueueSteps
      DEF QuietStep, taskVars, AppendStep, DropStep

LEMMA StepPending ==
    ASSUME TypeOK, ExecInv, QueueInv, Next
    PROVE  PendingInv'
<1> USE DEF PendingInv
<1>0. /\ PendingInv /\ FrameInv /\ Loop \in Threads /\ Ctl \in Threads
      /\ tasks \in Seq(Queued) /\ batch \in Seq(Queued)
      /\ future \in [Futures -> {"none", "pending", "value", "unfinished"}]
      BY TaskTypes DEF QueueInv, Threads, TypeOK, TypeQueue
<1>1. CASE AppendStep
      <2>1. PICK q \in Queued :
               /\ tasks' = Append(tasks, q) /\ UNCHANGED <<batch, stack>>
               /\ \/ future' = future
                  \/ q.task \in Futures /\ future' = [future EXCEPT ![q.task] = "pending"]
            BY <1>1 DEF AppendStep
      <2>2. /\ \A i \in DOMAIN tasks : i \in DOMAIN tasks' /\ tasks'[i] = tasks[i]
            /\ \E i \in DOMAIN tasks' : tasks'[i] = q
            BY <1>0, <2>1, AppendFacts
      <2>3. \A f \in Futures : future'[f] = "pending" => future[f] = "pending" \/ f = q.task
            BY <1>0, <2>1
      <2>4. QED
            BY <1>0, <2>1, <2>2, <2>3
<1>2. CASE DropStep
      BY <1>0, <1>2 DEF DropStep, Futures
<1>3. CASE ActStep
      <2>1. PICK th \in Threads, t \in Cleanups : PushCleanupActs(th, t)
            BY <1>3 DEF ActStep
      <2>2. /\ \A x \in Threads : \A i \in DOMAIN stack[x] :
                  i \in DOMAIN stack'[x] /\ stack'[x][i] = stack[x][i]
            /\ \E i \in DOMAIN stack'[th] : stack'[th][i].task = t
            /\ UNCHANGED <<tasks, batch>>
            <3>1. /\ \A x \in Threads \ {th} : stack'[x] = stack[x]
                  /\ DOMAIN stack'[th] = DOMAIN stack[th] \cup {Len(stack[th]) + 1}
                  /\ \A i \in DOMAIN stack[th] : stack'[th][i] = stack[th][i]
                  /\ stack'[th][Len(stack[th]) + 1].task = t
                  /\ UNCHANGED <<tasks, batch>>
                  BY <2>1, ActFacts
            <3>2. QED
                  BY <3>1
      <2>3. \A f \in Futures : future'[f] = "pending" => future[f] = "pending" \/ f = t
            <3>1. future' = [future EXCEPT ![t] = "pending"]
                  BY <2>1, ActFacts
            <3>2. QED
                  BY <1>0, <3>1
      <2>4. QED
            BY <1>0, <2>2, <2>3
<1>4. CASE EndStep
      <2>1. UNCHANGED <<tasks, batch, position>>
            BY <1>4, EndStepFacts
      <2>2. PICK th \in Threads : \E top \in DOMAIN stack[th] :
                /\ \A x \in Threads \ {th} : stack'[x] = stack[x]
                /\ \A i \in DOMAIN stack'[th] : /\ i \in DOMAIN stack[th] /\ i # top
                                                 /\ stack'[th][i] = stack[th][i]
                /\ \A i \in DOMAIN stack[th] : i # top => i \in DOMAIN stack'[th]
                /\ \A x \in Futures : x # stack[th][top].task => future'[x] = future[x]
                /\ \A x \in Futures : x = stack[th][top].task /\ future'[x] = "pending" =>
                                          th = Loop /\ stack[th][top].how = "taken"
            BY <1>4, EndStepFacts
      <2>3. PICK top \in DOMAIN stack[th] :
                /\ \A x \in Threads \ {th} : stack'[x] = stack[x]
                /\ \A i \in DOMAIN stack'[th] : /\ i \in DOMAIN stack[th] /\ i # top
                                                 /\ stack'[th][i] = stack[th][i]
                /\ \A i \in DOMAIN stack[th] : i # top => i \in DOMAIN stack'[th]
                /\ \A x \in Futures : x # stack[th][top].task => future'[x] = future[x]
                /\ \A x \in Futures : x = stack[th][top].task /\ future'[x] = "pending" =>
                                          th = Loop /\ stack[th][top].how = "taken"
            BY <2>2
      <2>4. SUFFICES ASSUME NEW f \in Futures, future'[f] = "pending"
                     PROVE  \/ \E i \in DOMAIN tasks' : tasks'[i].task = f
                            \/ \E i \in DOMAIN batch' : batch'[i].task = f
                            \/ \E x \in Threads : \E i \in DOMAIN stack'[x] : stack'[x][i].task = f
            BY DEF PendingInv
      <2>5. CASE f = stack[th][top].task
            <3>1. th = Loop /\ stack[Loop][top].how = "taken"
                  BY <2>3, <2>4, <2>5
            <3>2. top = 1
                  BY <1>0, <2>3, <3>1 DEF FrameInv, Hows
            <3>3. stack[Loop] \in Seq(Frames) /\ position \in 1..(Len(batch) + 1) /\ position \in Nat
                  BY <1>0, TaskTypes
            <3>4. stack[Loop] # << >>
                  BY <2>3, <3>1, <3>3
            <3>5. position # 1 /\ f = batch[position - 1].task
                  BY <1>0, <2>5, <3>1, <3>2, <3>4 DEF FrameInv
            <3>6. position - 1 \in DOMAIN batch
                  BY <1>0, <3>3, <3>5
            <3>7. QED
                  BY <2>1, <3>5, <3>6
      <2>6. CASE f # stack[th][top].task
            <3>1. future[f] = "pending"
                  BY <2>3, <2>4, <2>6
            <3>2. QED
                  BY <1>0, <2>1, <2>3, <2>6, <3>1
      <2>7. QED
            BY <2>5, <2>6
<1>5. CASE StopDrains
      <2>1. /\ 1 \in DOMAIN tasks /\ UNCHANGED batch /\ stack[Ctl] = << >>
            /\ \A i \in DOMAIN tasks : i # 1 => \E k \in DOMAIN tasks' : tasks'[k] = tasks[i]
            BY <1>5, DrainStepFacts
      <2>2. CASE tasks[1].kind = "Refused"
            <3>1. UNCHANGED stack /\ future' = Unfinished({tasks[1].task})
                  BY <1>5, <2>2, FrontFacts
            <3>2. \A f \in Futures : future'[f] = "pending" =>
                     future[f] = "pending" /\ f # tasks[1].task
                  BY <1>0, <3>1 DEF Unfinished
            <3>3. \A f \in Futures : f # tasks[1].task =>
                     ((\E i \in DOMAIN tasks : tasks[i].task = f)
                         => \E i \in DOMAIN tasks' : tasks'[i].task = f)
                  BY <2>1
            <3>4. \A f \in Futures : future'[f] = "pending" =>
                     \/ \E i \in DOMAIN tasks' : tasks'[i].task = f
                     \/ \E i \in DOMAIN batch : batch[i].task = f
                     \/ \E th \in Threads : \E i \in DOMAIN stack[th] : stack[th][i].task = f
                  BY <1>0, <3>2, <3>3, Zenon
            <3>5. QED
                  BY <2>1, <3>1, <3>4
      <2>3. CASE tasks[1].kind # "Refused"
            <3>1. /\ future' = future /\ \A x \in Threads \ {Ctl} : stack'[x] = stack[x]
                  /\ DOMAIN stack'[Ctl] = {1} /\ stack'[Ctl][1].task = tasks[1].task
                  BY <1>5, <2>3, FrontFacts
            <3>2. QED
                  BY <1>0, <2>1, <3>1
      <2>4. QED
            BY <2>2, <2>3
<1>6. CASE LoopTakesBatch
      <2>1. /\ \A i \in DOMAIN tasks : \/ \E k \in DOMAIN batch' : batch'[k] = tasks[i]
                                       \/ \E k \in DOMAIN tasks' : tasks'[k] = tasks[i]
            /\ batch = << >> /\ UNCHANGED <<stack, future>>
            BY <1>6, TakeFacts
      <2>2. QED
            BY <1>0, <2>1
<1>7. CASE LoopRunsTask
      <2>1. UNCHANGED <<tasks, batch, future>> /\ stack[Loop] = << >>
            BY <1>7, RunFacts
      <2>2. \A x \in Threads \ {Loop} : stack'[x] = stack[x]
            BY <1>7, RunFacts
      <2>3. QED
            BY <1>0, <2>1, <2>2
<1>8. CASE DestroyStep
      <2>1. /\ future' = Unfinished(TasksOf(batch)) /\ UNCHANGED <<tasks, stack>>
            BY <1>8 DEF DestroyStep
      <2>2. \A i \in DOMAIN batch : batch[i].task \in TasksOf(batch)
            BY DEF TasksOf, Range
      <2>3. \A f \in Futures : future'[f] = "pending" =>
               future[f] = "pending" /\ \A i \in DOMAIN batch : batch[i].task # f
            BY <1>0, <2>1, <2>2 DEF Unfinished
      <2>4. QED
            BY <1>0, <2>1, <2>3
<1>9. CASE CatchStep
      <2>1. batch = << >>
            BY <1>9 DEF CatchStep, TypeOK, TypeBatch
      <2>2. QED
            BY <1>0, <1>9, <2>1 DEF CatchStep
<1>10. CASE QuietStep
      BY <1>0, <1>10 DEF QuietStep, taskVars
<1>11. QED
      BY <1>1, <1>2, <1>3, <1>4, <1>5, <1>6, <1>7, <1>8, <1>9, <1>10, QueueSteps

\* Once intake_ is closed only cleanup tasks are left to run.
LEMMA NothingLiveWhenClosed ==
    ASSUME TypeOK, ExecInv, FrameInv, ClosedInv, intake = "Closed",
           NEW q \in Regulars \cup Promises
    PROVE  ~Live(q)
<1>1. q \notin Cleanups
      BY TasksAssumption
<1>2. tasks = << >>
      BY DEF ClosedInv
<1>3. pc # "pending" => batch = << >>
      BY DEF ExecInv, IntakeInv, TypeOK, TypeBatch
<1>4. stack[Ctl] = << >> /\ (stack[Loop] # << >> => pc = "pending")
      BY DEF ExecInv, IntakeInv, StackInv
<1>5. ASSUME NEW th \in Threads, NEW i \in DOMAIN stack[th] PROVE stack[th][i].task # q
      <2>1. CASE th \in Callers
            BY <1>1, <1>5, <2>1 DEF FrameInv
      <2>2. CASE th = Ctl
            BY <1>4, <1>5, <2>2
      <2>3. CASE th = Loop
            <3>1. stack[Loop] # << >>
                  BY <1>5, <2>3
            <3>2. CASE i = 1
                  BY <1>1, <1>4, <2>3, <3>1, <3>2 DEF FrameInv
            <3>3. CASE i # 1
                  BY <1>1, <1>5, <2>3, <3>3 DEF FrameInv
            <3>4. QED
                  BY <3>2, <3>3
      <2>4. QED
            BY <2>1, <2>2, <2>3 DEF Threads
<1>6. QED
      BY <1>2, <1>3, <1>5 DEF Live

LEMMA StepBarrier ==
    ASSUME TypeOK, ExecInv, QueueInv, Next
    PROVE  BarrierInv'
<1> SUFFICES ASSUME NEW p \in Promises, NEW q \in Regulars \cup Promises,
                    Before(pushed', q, p), Ready(p)', Live(q)'
             PROVE  FALSE
    BY DEF BarrierInv
<1>0. /\ KindInv /\ PushedInv /\ OrderInv /\ FrameInv /\ ClosedInv /\ BarrierInv
      /\ pushed \in Seq(Tasks) /\ tasks \in Seq(Queued) /\ batch \in Seq(Queued)
      /\ position \in Nat /\ Ctl \in Threads /\ Loop \in Threads
      /\ future \in [Futures -> {"none", "pending", "value", "unfinished"}]
      BY TaskTypes DEF QueueInv, Threads, TypeOK, TypeQueue
<1>a. q \notin Cleanups /\ p \notin Cleanups /\ p \in Futures /\ p \in Tasks
      BY TasksAssumption DEF Futures, Tasks
<1>b. \A a, b : Before(pushed, a, b) => a # b /\ ~Before(pushed, b, a) /\ Has(pushed, a) /\ Has(pushed, b)
      BY <1>0, BeforeIsOrder DEF PushedInv
<1>c. Before(pushed, q, p) /\ Ready(p) => ~Live(q)
      BY <1>0 DEF BarrierInv
<1>d. \A c \in Callers : \A i \in DOMAIN stack[c] : stack[c][i].task \in Cleanups
      BY <1>0 DEF FrameInv, Threads
<1>1. CASE QuietStep
      BY <1>1, <1>c DEF QuietStep, taskVars, Live, Ready
<1>2. CASE AppendStep
      <2>1. PICK e \in Queued :
               /\ ~Has(pushed, e.task) /\ tasks' = Append(tasks, e) /\ pushed' = Append(pushed, e.task)
               /\ \/ future' = future /\ e.task \notin Futures
                  \/ e.task \in Futures /\ future' = [future EXCEPT ![e.task] = "pending"]
               /\ UNCHANGED <<batch, position, stack, pc>>
            BY <1>2 DEF AppendStep
      <2>2. e.task \in Tasks
            BY DEF Queued
      <2>3. Before(pushed, q, p) \/ p = e.task
            BY <1>0, <2>1, <2>2, BeforeFacts
      <2>4. p # e.task
            BY <1>0, <1>a, <2>1 DEF Ready
      <2>5. Ready(p)
            BY <1>0, <1>a, <2>1, <2>4 DEF Ready
      <2>6. Live(q) \/ q = e.task
            <3>1. \A i \in DOMAIN tasks' : tasks'[i] = e \/ \E k \in DOMAIN tasks : tasks[k] = tasks'[i]
                  BY <1>0, <2>1, AppendFacts
            <3>2. QED
                  BY <2>1, <3>1 DEF Live
      <2>7. QED
            BY <1>b, <1>c, <2>1, <2>3, <2>4, <2>5, <2>6
<1>3. CASE DropStep
      <2>1. intake = "Closed" /\ UNCHANGED <<tasks, batch, position, stack, pc>>
            BY <1>3 DEF DropStep
      <2>2. ~Live(q)
            BY <1>0, <2>1, NothingLiveWhenClosed
      <2>3. QED
            BY <2>1, <2>2 DEF Live
<1>4. CASE ActStep
      <2>1. PICK th \in Threads, t \in Cleanups : PushCleanupActs(th, t)
            BY <1>4 DEF ActStep
      <2>2. /\ pushed' = Append(pushed, t) /\ future' = [future EXCEPT ![t] = "pending"]
            /\ UNCHANGED <<tasks, batch, position, pc>>
            /\ \A x \in Threads : \A i \in DOMAIN stack'[x] :
                  stack'[x][i].task = t \/ (i \in DOMAIN stack[x] /\ stack'[x][i] = stack[x][i])
            <3>1. /\ \A x \in Threads \ {th} : stack'[x] = stack[x]
                  /\ DOMAIN stack'[th] = DOMAIN stack[th] \cup {Len(stack[th]) + 1}
                  /\ \A i \in DOMAIN stack[th] : stack'[th][i] = stack[th][i]
                  /\ stack'[th][Len(stack[th]) + 1].task = t
                  BY <2>1, ActFacts
            <3>2. /\ pushed' = Append(pushed, t) /\ future' = [future EXCEPT ![t] = "pending"]
                  /\ UNCHANGED <<tasks, batch, position, pc>>
                  BY <2>1, ActFacts
            <3>3. QED
                  BY <3>1, <3>2
      <2>3. Before(pushed, q, p)
            BY <1>0, <1>a, <2>2, BeforeFacts DEF Tasks
      <2>4. Ready(p)
            BY <1>0, <1>a, <2>2 DEF Ready
      <2>5. Live(q)
            BY <1>a, <2>2 DEF Live
      <2>6. QED
            BY <1>c, <2>3, <2>4, <2>5
<1>5. CASE EndStep
      <2>1. UNCHANGED <<tasks, pushed, batch, position, pc>>
            BY <1>5, EndStepFacts
      <2>2. PICK th \in Threads : \E top \in DOMAIN stack[th] :
                /\ \A x \in Threads \ {th} : stack'[x] = stack[x]
                /\ \A i \in DOMAIN stack'[th] : /\ i \in DOMAIN stack[th] /\ i # top
                                                 /\ stack'[th][i] = stack[th][i]
                /\ \A x \in Futures : x # stack[th][top].task => future'[x] = future[x]
            BY <1>5, EndStepFacts
      <2>3. PICK top \in DOMAIN stack[th] :
                /\ \A x \in Threads \ {th} : stack'[x] = stack[x]
                /\ \A i \in DOMAIN stack'[th] : /\ i \in DOMAIN stack[th] /\ i # top
                                                 /\ stack'[th][i] = stack[th][i]
                /\ \A x \in Futures : x # stack[th][top].task => future'[x] = future[x]
            BY <2>2
      <2>4. Live(q)
            BY <2>1, <2>3 DEF Live
      <2>5. ~Ready(p) /\ Before(pushed, q, p)
            BY <1>c, <2>1, <2>4
      <2>6. p = stack[th][top].task
            BY <1>a, <2>3, <2>5 DEF Ready
      <2>7. th \in {Loop, Ctl}
            BY <1>a, <1>d, <2>6 DEF Threads
      <2>8. CASE th = Loop
            <3>1. top = 1 /\ stack[Loop] # << >>
                  BY <1>0, <1>a, <2>6, <2>8 DEF FrameInv
            <3>2. /\ pc = "batch" /\ stack[Ctl] = << >>
                  /\ position # 1 /\ p = batch[position - 1].task
                  BY <1>0, <1>a, <2>6, <2>8, <3>1 DEF FrameInv, ExecInv, StackInv, IntakeInv
            <3>3. position - 1 \in DOMAIN batch /\ \A i \in DOMAIN batch : i >= position => position - 1 < i
                  <4>1. /\ position \in 1..(Len(batch) + 1) /\ Len(batch) \in Nat
                        /\ DOMAIN batch = 1..Len(batch)
                        BY TaskTypes
                  <4>2. position # 1
                        BY <3>2
                  <4>3. QED
                        BY <4>1, <4>2
            <3>4. \A i \in DOMAIN tasks : tasks[i].task # q
                  BY <1>0, <1>b, <2>5, <3>2, <3>3 DEF OrderInv
            <3>5. \A i \in DOMAIN batch : i >= position => batch[i].task # q
                  BY <1>0, <1>b, <2>5, <3>2, <3>3 DEF OrderInv
            <3>6. \A i \in DOMAIN stack'[Loop] : stack'[Loop][i].task # q
                  BY <1>0, <1>a, <2>3, <2>8, <3>1 DEF FrameInv
            <3>7. \A x \in Threads : \A i \in DOMAIN stack'[x] : stack'[x][i].task # q
                  BY <1>a, <1>d, <2>3, <2>8, <3>2, <3>6 DEF Threads
            <3>8. QED
                  BY <2>1, <3>4, <3>5, <3>7 DEF Live
      <2>9. CASE th = Ctl
            <3>1. pc = "none" /\ stack[Loop] = << >> /\ batch = << >>
                  BY <2>3, <2>9 DEF ExecInv, StackInv, IntakeInv, TypeOK, TypeBatch
            <3>2. top = 1 /\ \A i \in DOMAIN stack'[Ctl] : FALSE
                  BY <1>0, <2>3, <2>9 DEF FrameInv
            <3>3. \A i \in DOMAIN tasks : tasks[i].task # q
                  BY <1>0, <1>b, <2>5, <2>6, <2>9 DEF OrderInv
            <3>4. \A x \in Threads : \A i \in DOMAIN stack'[x] : stack'[x][i].task # q
                  BY <1>a, <1>d, <2>3, <2>9, <3>1, <3>2 DEF Threads
            <3>5. QED
                  BY <2>1, <3>1, <3>3, <3>4 DEF Live
      <2>10. QED
            BY <2>7, <2>8, <2>9
<1>6. CASE StopDrains
      <2>1. /\ 1 \in DOMAIN tasks
            /\ \A i \in DOMAIN tasks' : /\ i \in Nat /\ i + 1 \in DOMAIN tasks /\ i + 1 > 1
                                         /\ tasks'[i] = tasks[i + 1]
            /\ pc = "none" /\ batch = << >> /\ stack[Ctl] = << >>
            /\ UNCHANGED <<batch, position, pushed, pc>>
            BY <1>6, DrainStepFacts
      <2>2. CASE tasks[1].kind = "Refused"
            <3>1. UNCHANGED stack /\ future' = Unfinished({tasks[1].task})
                  BY <1>6, <2>2, FrontFacts
            <3>2. Live(q) /\ \E i \in DOMAIN tasks' : tasks'[i].task = q
                  <4>1. stack[Loop] = << >>
                        BY <2>1 DEF ExecInv, StackInv
                  <4>2. \A x \in Threads : \A i \in DOMAIN stack[x] : stack[x][i].task # q
                        BY <1>a, <1>d, <2>1, <4>1 DEF Threads
                  <4>3. QED
                        BY <2>1, <3>1, <4>2 DEF Live
            <3>3. p = tasks[1].task
                  BY <1>c, <1>a, <2>1, <3>1, <3>2 DEF Ready, Unfinished
            <3>4. Before(pushed, p, q)
                  BY <1>0, <2>1, <3>2, <3>3 DEF OrderInv
            <3>5. QED
                  BY <1>b, <2>1, <3>4
      <2>3. CASE tasks[1].kind # "Refused"
            <3>1. /\ future' = future /\ \A x \in Threads \ {Ctl} : stack'[x] = stack[x]
                  /\ DOMAIN stack'[Ctl] = {1} /\ stack'[Ctl][1].task = tasks[1].task
                  BY <1>6, <2>3, FrontFacts
            <3>2. Live(q)
                  BY <2>1, <3>1 DEF Live
            <3>3. QED
                  BY <1>c, <2>1, <3>1, <3>2 DEF Ready
      <2>4. QED
            BY <2>2, <2>3
<1>7. CASE LoopTakesBatch
      <2>1. /\ \A i \in DOMAIN batch' : \E k \in DOMAIN tasks : batch'[i] = tasks[k]
            /\ \A i \in DOMAIN tasks' : \E k \in DOMAIN tasks : tasks'[i] = tasks[k]
            /\ UNCHANGED <<pushed, future, stack>>
            BY <1>7, TakeFacts
      <2>2. Live(q)
            BY <2>1 DEF Live
      <2>3. QED
            BY <1>c, <2>1, <2>2 DEF Ready
<1>8. CASE LoopRunsTask
      <2>1. /\ position \in DOMAIN batch /\ position' = position + 1
            /\ pc \in {"batch", "pending"}
            /\ UNCHANGED <<tasks, pushed, future, batch, pc>>
            /\ ~Runs(batch[position].kind) => UNCHANGED stack
            /\ Runs(batch[position].kind) =>
                  /\ \A x \in Threads \ {Loop} : stack'[x] = stack[x]
                  /\ DOMAIN stack'[Loop] = {1}
                  /\ stack'[Loop][1].task = batch[position].task
            BY <1>8, RunFacts
      <2>2. \A i \in DOMAIN batch : i >= position' => i >= position
            BY <1>0, <2>1
      <2>3. pc = "pending" /\ Runs(batch[position].kind) => batch[position].task # q
            BY <1>0, <1>a, <2>1 DEF Runs, KindInv, EntryOK
      <2>4. position >= position
            BY <1>0
      <2>5. Live(q)
            BY <2>1, <2>2, <2>3, <2>4 DEF Live
      <2>6. QED
            BY <1>c, <2>1, <2>5 DEF Ready
<1>9. CASE DestroyStep
      <2>1. /\ pc \in {"batch", "pending"} /\ stack[Loop] = << >>
            /\ future' = Unfinished(TasksOf(batch)) /\ batch' = << >>
            /\ UNCHANGED <<tasks, pushed, stack>>
            BY <1>9 DEF DestroyStep
      <2>2. stack[Ctl] = << >>
            BY <2>1 DEF ExecInv, StackInv, IntakeInv
      <2>3. \A x \in Threads : \A i \in DOMAIN stack[x] : stack[x][i].task # q
            BY <1>a, <1>d, <2>1, <2>2 DEF Threads
      <2>4. Live(q) /\ \E i \in DOMAIN tasks : tasks[i].task = q
            BY <2>1, <2>3 DEF Live
      <2>5. p \in TasksOf(batch)
            BY <1>a, <1>c, <2>1, <2>4 DEF Ready, Unfinished
      <2>6. \E i \in DOMAIN batch : batch[i].task = p
            BY <2>5 DEF TasksOf, Range
      <2>7. Before(pushed, p, q)
            BY <1>0, <2>4, <2>6 DEF OrderInv
      <2>8. QED
            BY <1>b, <2>1, <2>7
<1>10. CASE CatchStep
      <2>1. pc' = "pending" /\ tasks' = << >> /\ UNCHANGED <<pushed, stack, future>>
            BY <1>10 DEF CatchStep
      <2>2. Live(q)
            BY <2>1 DEF Live
      <2>3. QED
            BY <1>c, <2>1, <2>2 DEF Ready
<1>11. QED
      BY <1>1, <1>2, <1>3, <1>4, <1>5, <1>6, <1>7, <1>8, <1>9, <1>10, QueueSteps

LEMMA StepKept ==
    ASSUME TypeOK, ExecInv, QueueInv, Next
    PROVE  KeptInv'
<1> SUFFICES ASSUME NEW t \in Cleanups, Has(pushed', t)
             PROVE  \/ Ran(ran', t)
                    \/ \E i \in DOMAIN tasks' : tasks'[i].task = t
                    \/ \E i \in DOMAIN batch' : i >= position' /\ batch'[i].task = t
    BY DEF KeptInv
<1>0. /\ KindInv /\ pushed \in Seq(Tasks) /\ tasks \in Seq(Queued) /\ batch \in Seq(Queued)
      /\ position \in Nat /\ ran \in Seq([task : Tasks, how : Hows])
      BY TaskTypes DEF QueueInv
<1>a. t \in Tasks /\ t \notin Promises
      BY TasksAssumption DEF Tasks
<1>b. Has(pushed, t) => \/ Ran(ran, t)
                        \/ \E i \in DOMAIN tasks : tasks[i].task = t
                        \/ \E i \in DOMAIN batch : i >= position /\ batch[i].task = t
      BY DEF QueueInv, KeptInv
<1>1. CASE QuietStep
      BY <1>1, <1>b DEF QuietStep, taskVars
<1>2. CASE AppendStep
      <2>1. PICK e \in Queued :
               /\ tasks' = Append(tasks, e) /\ pushed' = Append(pushed, e.task)
               /\ UNCHANGED <<batch, position, ran>>
            BY <1>2 DEF AppendStep
      <2>2. e.task \in Tasks
            BY DEF Queued
      <2>3. Has(pushed, t) \/ t = e.task
            BY <1>0, <2>1, <2>2, BeforeFacts
      <2>4. /\ \A i \in DOMAIN tasks : i \in DOMAIN tasks' /\ tasks'[i] = tasks[i]
            /\ \E i \in DOMAIN tasks' : tasks'[i] = e
            BY <1>0, <2>1, AppendFacts
      <2>5. QED
            BY <1>b, <2>1, <2>3, <2>4
<1>3. CASE DropStep
      <2>1. PICK p \in Promises : pushed' = Append(pushed, p) /\ UNCHANGED <<tasks, batch, position, ran>>
            BY <1>3 DEF DropStep
      <2>2. Has(pushed, t)
            BY <1>0, <1>a, <2>1, BeforeFacts DEF Tasks
      <2>3. QED
            BY <1>b, <2>1, <2>2
<1>4. CASE ActStep
      <2>1. PICK th \in Threads, u \in Cleanups : PushCleanupActs(th, u)
            BY <1>4 DEF ActStep
      <2>2. /\ pushed' = Append(pushed, u) /\ ran' = Append(ran, [task |-> u, how |-> "acting"])
            /\ UNCHANGED <<tasks, batch, position>>
            BY <2>1, ActFacts
      <2>3. u \in Tasks /\ "acting" \in Hows
            BY DEF Tasks, Hows
      <2>4. \A x : Ran(ran', x) <=> Ran(ran, x) \/ x = u
            BY <1>0, <2>2, <2>3, RanGrows
      <2>5. Has(pushed, t) \/ t = u
            BY <1>0, <2>2, <2>3, BeforeFacts
      <2>6. QED
            BY <1>b, <2>2, <2>4, <2>5
<1>5. CASE EndStep
      BY <1>5, <1>b, EndStepFacts
<1>6. CASE StopDrains
      <2>1. /\ 1 \in DOMAIN tasks /\ UNCHANGED pushed /\ batch = << >>
            /\ \A i \in DOMAIN tasks : i # 1 => \E k \in DOMAIN tasks' : tasks'[k] = tasks[i]
            BY <1>6, DrainStepFacts
      <2>2. CASE tasks[1].kind = "Refused"
            <3>1. tasks[1].task # t
                  BY <1>0, <1>a, <2>1, <2>2 DEF KindInv, EntryOK
            <3>2. ran' = ran
                  BY <1>6, <2>2, FrontFacts
            <3>3. QED
                  BY <1>b, <2>1, <3>1, <3>2
      <2>3. CASE tasks[1].kind # "Refused"
            <3> DEFINE u == tasks[1].task
            <3>1. tasks[1] \in Queued
                  BY <1>0, <2>1
            <3>2. u \in Tasks /\ "taken" \in Hows
                  BY <3>1 DEF Queued, Hows
            <3>3. ran' = Append(ran, [task |-> u, how |-> "taken"])
                  BY <1>6, <2>3, FrontFacts
            <3> HIDE DEF u
            <3>4. \A x : Ran(ran', x) <=> Ran(ran, x) \/ x = u
                  BY <1>0, <3>2, <3>3, RanGrows
            <3>5. QED
                  BY <1>b, <2>1, <3>4 DEF u
      <2>4. QED
            BY <2>2, <2>3
<1>7. CASE LoopTakesBatch
      <2>1. /\ \A i \in DOMAIN tasks : \/ \E k \in DOMAIN batch' : batch'[k] = tasks[i]
                                       \/ \E k \in DOMAIN tasks' : tasks'[k] = tasks[i]
            /\ \A k \in DOMAIN batch' : k >= position'
            /\ batch = << >> /\ UNCHANGED <<pushed, ran>>
            BY <1>7, TakeFacts
      <2>2. QED
            BY <1>b, <2>1
<1>8. CASE LoopRunsTask
      <2>1. /\ position \in DOMAIN batch /\ position' = position + 1
            /\ pc \in {"batch", "pending"} /\ UNCHANGED <<tasks, pushed, batch>>
            BY <1>8, RunFacts
      <2>2. \A i \in DOMAIN batch : i >= position => i >= position' \/ i = position
            BY <1>0, <2>1
      <2>3. CASE ~Runs(batch[position].kind)
            <3>1. ran' = ran
                  BY <1>8, <2>3, RunFacts
            <3>2. batch[position].task # t
                  BY <1>0, <1>a, <2>1, <2>3 DEF KindInv, EntryOK, Runs
            <3>3. QED
                  BY <1>b, <2>1, <2>2, <3>1, <3>2
      <2>4. CASE Runs(batch[position].kind)
            <3> DEFINE u == batch[position].task
            <3>1. batch[position] \in Queued
                  BY <1>0, <2>1
            <3>2. u \in Tasks /\ "taken" \in Hows
                  BY <3>1 DEF Queued, Hows
            <3>3. ran' = Append(ran, [task |-> u, how |-> "taken"])
                  BY <1>8, <2>4, RunFacts
            <3> HIDE DEF u
            <3>4. \A x : Ran(ran', x) <=> Ran(ran, x) \/ x = u
                  BY <1>0, <3>2, <3>3, RanGrows
            <3>5. QED
                  BY <1>b, <2>1, <2>2, <3>4 DEF u
      <2>5. QED
            BY <2>3, <2>4
<1>9. CASE DestroyStep
      <2>1. position > Len(batch) /\ UNCHANGED <<tasks, pushed, ran>>
            BY <1>9 DEF DestroyStep
      <2>2. \A i \in DOMAIN batch : ~(i >= position)
            BY <1>0, <2>1
      <2>3. QED
            BY <1>b, <2>1, <2>2
<1>10. CASE CatchStep
      <2>1. batch = << >> /\ position = 1
            BY <1>0, <1>10, TaskTypes DEF CatchStep, TypeOK, TypeBatch
      <2>2. \A i \in DOMAIN tasks : i >= 1
            BY <1>0
      <2>3. QED
            BY <1>10, <1>b, <2>1, <2>2 DEF CatchStep
<1>11. QED
      BY <1>1, <1>2, <1>3, <1>4, <1>5, <1>6, <1>7, <1>8, <1>9, <1>10, QueueSteps
-----------------------------------------------------------------------------
LEMMA InitQueue == Init => QueueInv
<1> SUFFICES ASSUME Init PROVE QueueInv
    OBVIOUS
<1>1. /\ tasks = << >> /\ batch = << >> /\ pushed = << >> /\ ran = << >>
      /\ \A th \in Threads : stack[th] = << >>
      /\ \A f \in Futures : future[f] = "none"
      BY DEF Init
<1>2. KindInv /\ PushedInv /\ ClosedInv /\ PendingInv
      BY <1>1 DEF KindInv, PushedInv, ClosedInv, PendingInv
<1>3. OrderInv /\ RanInv /\ KeptInv
      BY <1>1 DEF OrderInv, RanInv, KeptInv, Has, Threads
<1>4. FrameInv
      BY <1>1 DEF FrameInv, Threads
<1>5. BarrierInv
      BY <1>1 DEF BarrierInv, Before
<1>6. QED
      BY <1>2, <1>3, <1>4, <1>5 DEF QueueInv

LEMMA StepQueue == TypeOK /\ ExecInv /\ QueueInv /\ [Next]_vars => QueueInv'
<1> SUFFICES ASSUME TypeOK, ExecInv, QueueInv, [Next]_vars PROVE QueueInv'
    OBVIOUS
<1>1. CASE Next
      BY <1>1, StepKind, StepPushed, StepOrder, StepRan, StepFrame, StepClosed,
         StepPending, StepBarrier, StepKept DEF QueueInv
<1>2. CASE UNCHANGED vars
      BY <1>2 DEF vars, QueueInv, KindInv, PushedInv, OrderInv, RanInv, FrameInv,
         ClosedInv, PendingInv, BarrierInv, KeptInv, Live, Ready
<1>3. QED
      BY <1>1, <1>2

LEMMA QueueCorrect == Spec => []QueueInv
BY InitType, StepType, InitExec, StepExec, InitQueue, StepQueue, PTL DEF Spec

\* A task runs at most once, in whatever way it comes to run: in a batch of the
\* loop, in the exception handler, in the drain of stop() or on its caller.
THEOREM RunOnce == Spec => []TasksRunOnce
<1>1. QueueInv => TasksRunOnce
      BY DEF QueueInv, RanInv, TasksRunOnce
<1>2. QED
      BY <1>1, QueueCorrect, PTL

\* The tasks of the rest of a batch.
LEMMA RestOfBatch ==
    ASSUME NEW S, NEW q \in Seq(S), NEW n \in 1..(Len(q) + 1), NEW t
    PROVE  t \in TasksOf(SubSeq(q, n, Len(q))) <=> \E i \in DOMAIN q : i >= n /\ q[i].task = t
<1> DEFINE r == SubSeq(q, n, Len(q))
<1>1. Len(q) \in Nat /\ DOMAIN q = 1..Len(q) /\ n \in Nat
      OBVIOUS
<1>2. DOMAIN r = 1..(Len(q) - n + 1)
      OBVIOUS
<1>3. \A k \in 1..(Len(q) - n + 1) : r[k] = q[n + k - 1]
      OBVIOUS
<1> HIDE DEF r
<1>4. ASSUME NEW k \in DOMAIN r PROVE \E i \in DOMAIN q : i >= n /\ q[i] = r[k]
      <2>0. k \in 1..(Len(q) - n + 1)
            BY <1>2, <1>4, Zenon
      <2>1. n + k - 1 \in DOMAIN q /\ n + k - 1 >= n
            BY <1>1, <2>0
      <2>3. r[k] = q[n + k - 1]
            BY <1>3, <2>0, Zenon
      <2>4. QED
            BY <2>1, <2>3
<1>5. ASSUME NEW i \in DOMAIN q, i >= n PROVE \E k \in DOMAIN r : q[i] = r[k]
      <2>1. i - n + 1 \in 1..(Len(q) - n + 1) /\ n + (i - n + 1) - 1 = i
            BY <1>1, <1>5
      <2>2. QED
            BY <1>2, <1>3, <2>1
<1>6. t \in TasksOf(r) <=> \E k \in DOMAIN r : r[k].task = t
      BY DEF TasksOf, Range
<1>7. (\E k \in DOMAIN r : r[k].task = t) <=> \E i \in DOMAIN q : i >= n /\ q[i].task = t
      BY <1>4, <1>5
<1>8. QED
      BY <1>6, <1>7 DEF r

\* A cleanup task that was pushed has run or is still queued: neither an
\* exception in a task nor stop() gives it up.
THEOREM NoCleanupLost == Spec => []CleanupTasksNotLost
<1>1. ASSUME TypeOK, QueueInv PROVE CleanupTasksNotLost
      <2>1. SUFFICES ASSUME NEW t \in Cleanups, t \in Range(pushed)
                     PROVE  t \in TasksOf(ran) \cup NotYetRun
            BY DEF CleanupTasksNotLost
      <2>2. Has(pushed, t)
            BY <2>1 DEF Has, Range
      <2>3. \/ Ran(ran, t)
            \/ \E i \in DOMAIN tasks : tasks[i].task = t
            \/ \E i \in DOMAIN batch : i >= position /\ batch[i].task = t
            BY <1>1, <2>2 DEF QueueInv, KeptInv
      <2>4. Ran(ran, t) => t \in TasksOf(ran)
            BY DEF Ran, TasksOf, Range
      <2>5. (\E i \in DOMAIN tasks : tasks[i].task = t) => t \in TasksOf(tasks)
            BY DEF TasksOf, Range
      <2>6. (\E i \in DOMAIN batch : i >= position /\ batch[i].task = t)
               => t \in TasksOf(SubSeq(batch, position, Len(batch)))
            BY <1>1, TaskTypes, RestOfBatch
      <2>7. QED
            BY <2>3, <2>4, <2>5, <2>6 DEF NotYetRun
<1>2. QED
      BY <1>1, TypeCorrect, QueueCorrect, PTL

\* When intake_ is closed and the loop is gone, the queue and the batch are
\* empty and only a cleanup task that its caller runs is still pending.
THEOREM NoneStranded == Spec => []NothingStranded
<1>1. ASSUME TypeOK, ExecInv, QueueInv PROVE NothingStranded
      <2>1. SUFFICES ASSUME intake = "Closed", pc \in {"none", "ended"}
                     PROVE  /\ tasks = << >> /\ batch = << >>
                            /\ \A f \in Futures : future[f] = "pending" =>
                                  \E c \in Callers : \E i \in DOMAIN stack[c] : stack[c][i].task = f
            BY DEF NothingStranded
      <2>2. tasks = << >> /\ batch = << >>
            BY <1>1, <2>1 DEF QueueInv, ClosedInv, TypeOK, TypeBatch
      <2>3. stack[Loop] = << >> /\ stack[Ctl] = << >>
            BY <1>1, <2>1 DEF ExecInv, StackInv, IntakeInv
      <2>4. QED
            BY <1>1, <2>2, <2>3 DEF QueueInv, PendingInv, Threads
<1>2. QED
      BY <1>1, TypeCorrect, ExecCorrect, QueueCorrect, PTL

\* What is in flight is live.
LEMMA InFlightIsLive ==
    ASSUME TypeOK, NEW t \in InFlight
    PROVE  Live(t)
<1>1. CASE t \in {q.task : q \in {e \in Range(tasks) : e.kind # "Refused"}}
      BY <1>1 DEF Range, Live
<1>2. CASE pc # "pending" /\ t \in TasksOf(SubSeq(batch, position, Len(batch)))
      <2>1. \E i \in DOMAIN batch : i >= position /\ batch[i].task = t
            BY <1>2, TaskTypes, RestOfBatch
      <2>2. QED
            BY <1>2, <2>1 DEF Live
<1>3. CASE t \in UNION {{f.task : f \in Range(stack[th])} : th \in Threads}
      BY <1>3 DEF Range, Live
<1>4. QED
      BY <1>1, <1>2, <1>3 DEF InFlight

\* A future of pushPromiseTask is a barrier in every interleaving of pushes,
\* exceptions and stop(): when it is ready, by value or because the task was
\* destroyed, no task pushed before it (but cleanup tasks) runs or will run.
THEOREM BarrierHolds == Spec => []PromiseIsBarrier
<1>1. ASSUME TypeOK, QueueInv PROVE PromiseIsBarrier
      <2>1. SUFFICES ASSUME NEW i \in DOMAIN pushed, NEW j \in DOMAIN pushed,
                            i < j, pushed[j] \in Promises, pushed[i] \notin Cleanups,
                            future[pushed[j]] \in {"value", "unfinished"}
                     PROVE  pushed[i] \notin InFlight
            BY DEF PromiseIsBarrier
      <2>2. pushed[i] \in Regulars \cup Promises
            <3>1. pushed[i] \in Tasks
                  BY <1>1, TaskTypes
            <3>2. QED
                  BY <2>1, <3>1 DEF Tasks
      <2>3. Before(pushed, pushed[i], pushed[j]) /\ Ready(pushed[j])
            BY <2>1 DEF Before, Ready
      <2>4. ~Live(pushed[i])
            BY <1>1, <2>1, <2>2, <2>3 DEF QueueInv, BarrierInv
      <2>5. QED
            BY <1>1, <2>4, InFlightIsLive
<1>2. QED
      BY <1>1, TypeCorrect, QueueCorrect, PTL
=============================================================================
