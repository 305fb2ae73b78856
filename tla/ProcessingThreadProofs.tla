----------------------- MODULE ProcessingThreadProofs -----------------------
(***************************************************************************)
(* Proofs about ProcessingThread for any number of callers, tasks,         *)
(* permanent tasks, starts and any batch limit.                            *)
(***************************************************************************)
EXTENDS ProcessingThread, TLAPS

USE DEF runVars, wakeVars, socketVars, queueVars, permVars, cycleVars,
        batchVars, execVars, ctlVars, removalVars

LEMMA InitType == Init => TypeOK
<1> SUFFICES ASSUME Init PROVE TypeOK
    OBVIOUS
<1>1. TypeFlags
      BY DEF Init, TypeFlags
<1>2. TypeQueue
      BY DEF Init, TypeQueue
<1>3. TypeBatch
      BY BoundsAssumption DEF Init, TypeBatch
<1>4. TypePermanents
      BY BoundsAssumption DEF Init, TypePermanents, NoNeeds, Statuses
<1>5. TypeThreads
      BY BoundsAssumption DEF Init, TypeThreads, PCs
<1>6. QED
      BY <1>1, <1>2, <1>3, <1>4, <1>5 DEF TypeOK

\* The queue, the history and the futures.
LEMMA StepTypeQueue == TypeOK /\ Next => TypeQueue'
<1> SUFFICES ASSUME TypeOK, Next PROVE TypeQueue'
    OBVIOUS
<1> USE DEF TypeOK, TypeQueue
<1>1. CASE Start \/ Stop \/ StopReturns
      BY <1>1 DEF Start, Stop, StopReturns
<1>2. CASE StopDrains
      <2>1. tasks' \in Seq(Queued) /\ tasks[1] \in Queued
            BY <1>2 DEF StopDrains, DrainIndex
      <2>2. ran' \in Seq([task : Tasks, how : Hows])
            <3>1. [task |-> tasks[1].task, how |-> "taken"] \in [task : Tasks, how : Hows]
                  BY <2>1 DEF Queued, Hows
            <3>2. \/ ran' = ran
                  \/ ran' = Append(ran, [task |-> tasks[1].task, how |-> "taken"])
                  BY <1>2 DEF StopDrains, DrainIndex, Enters, Frame
            <3>3. CASE ran' = ran
                  BY <3>3
            <3>4. CASE ran' = Append(ran, [task |-> tasks[1].task, how |-> "taken"])
                  BY <3>1, <3>4
            <3>5. QED
                  BY <3>2, <3>3, <3>4
      <2>3. QED
            BY <1>2, <2>1, <2>2 DEF StopDrains, DrainIndex, Unfinished
<1>3. ASSUME NEW th \in Threads, Call(th) PROVE TypeQueue'
      <2>1. ASSUME NEW t \in Regulars, PushTask(th, t) PROVE TypeQueue'
            BY <2>1 DEF PushTask, Queued, Kinds, Tasks
      <2>2. ASSUME NEW t \in Promises, QueuePromiseTask(th, t) PROVE TypeQueue'
            <3>1. /\ [task |-> t, kind |-> "Refused"] \in Queued
                  /\ [task |-> t, kind |-> "Regular"] \in Queued
                  /\ t \in Tasks /\ t \in Futures
                  BY DEF Queued, Kinds, Tasks, Futures
            <3>2. tasks' \in Seq(Queued) /\ pushed' \in Seq(Tasks)
                  <4>1. pushed' = Append(pushed, t)
                        BY <2>2 DEF QueuePromiseTask
                  <4>2. CASE tasks' = tasks
                        BY <3>1, <4>1, <4>2
                  <4>3. CASE tasks' = Append(tasks, [task |-> t, kind |-> "Refused"])
                        BY <3>1, <4>1, <4>3
                  <4>4. CASE tasks' = Append(tasks, [task |-> t, kind |-> "Regular"])
                        BY <3>1, <4>1, <4>4
                  <4>5. QED
                        BY <2>2, <4>2, <4>3, <4>4 DEF QueuePromiseTask
            <3>3. QED
                  BY <2>2, <3>1, <3>2 DEF QueuePromiseTask
      <2>3. ASSUME NEW t \in Cleanups, PushCleanupQueued(th, t) PROVE TypeQueue'
            BY <2>3 DEF PushCleanupQueued, Queued, Kinds, Tasks, Futures
      <2>4. ASSUME NEW t \in Cleanups, PushCleanupActs(th, t) PROVE TypeQueue'
            BY <2>4 DEF PushCleanupActs, Enters, Frame, Hows, Tasks, Futures
      <2>5. QED
            BY <1>3, <2>1, <2>2, <2>3, <2>4
            DEF Call, PushCleanupTask, Wake, WatchSocket, PushPermanentTask,
                ClearPermanentTasks, RemovePermanentTask
<1>4. ASSUME NEW th \in Threads, NEW throws \in BOOLEAN, TaskEnds(th, throws)
      PROVE  TypeQueue'
      BY <1>4 DEF TaskEnds, Unfinished
<1>5. CASE LoopTakesBatch
      BY <1>5, BoundsAssumption DEF LoopTakesBatch, Remaining, BatchSize
<1>6. CASE LoopRunsTask
      <2>1. CASE Runs(batch[position].kind)
            <3>1. batch[position] \in Queued
                  BY <1>6 DEF LoopRunsTask, TypeBatch
            <3>2. ran' = Append(ran, [task |-> batch[position].task, how |-> "taken"])
                  BY <1>6, <2>1 DEF LoopRunsTask, Enters, Frame
            <3>3. [task |-> batch[position].task, how |-> "taken"] \in [task : Tasks, how : Hows]
                  BY <3>1 DEF Queued, Hows
            <3>4. QED
                  BY <1>6, <3>2, <3>3 DEF LoopRunsTask
      <2>2. QED
            BY <1>6, <2>1 DEF LoopRunsTask
<1>7. CASE LoopEndsBatch \/ LoopDropsPending
      BY <1>7 DEF LoopEndsBatch, LoopDropsPending, Unfinished
<1>8. CASE LoopCatches
      <2>1. tasks' \in Seq(Queued) /\ intake' \in {"Open", "Draining", "Closed"}
            <3>1. tasks' = tasks \/ tasks' = << >>
                  BY <1>8 DEF LoopCatches
            <3>2. intake' = intake \/ intake' = "Closed"
                  BY <1>8 DEF LoopCatches
            <3>3. CASE tasks' = tasks
                  BY <3>2, <3>3
            <3>4. CASE tasks' = << >>
                  BY <3>2, <3>4
            <3>5. QED
                  BY <3>1, <3>3, <3>4
      <2>2. QED
            BY <1>8, <2>1 DEF LoopCatches
<1>9. QED
      BY <1>1, <1>2, <1>3, <1>4, <1>5, <1>6, <1>7, <1>8
      DEF Next, StopStep, StopJoined, NotifyWake, RemovalConfirmed,
          RemovalTimesOut, UserCodeEnds, PermanentEnds, LoopStep, LoopStarts,
          LoopReads, LoopBeginsCycle, LoopMovesPermanents, LoopRunsPermanent,
          LoopMergesPermanents, LoopWaits, LoopWaitEnds, SocketWoken,
          LoopLeavesSocket, LoopWakesByItself

\* The Boolean variables.
LEMMA StepTypeFlags == TypeOK /\ Next => TypeFlags'
<1> SUFFICES ASSUME TypeOK, Next PROVE TypeFlags'
    OBVIOUS
<1> USE DEF TypeOK, TypeFlags
<1>1. CASE Start \/ Stop \/ StopStep
      BY <1>1 DEF Start, Stop, StopStep, StopJoined, StopDrains, StopReturns
<1>2. ASSUME NEW th \in Threads, Call(th) PROVE TypeFlags'
      BY <1>2 DEF Call, PushTask, QueuePromiseTask, PushCleanupTask,
                  PushCleanupQueued, PushCleanupActs, Wake, WatchSocket,
                  PushPermanentTask, ClearPermanentTasks, RemovePermanentTask,
                  RequestWake
<1>3. ASSUME NEW th \in Callers \cup {Ctl}, NotifyWake(th) PROVE TypeFlags'
      BY <1>3 DEF NotifyWake
<1>4. ASSUME NEW c \in Callers, RemovalConfirmed(c) \/ RemovalTimesOut(c)
      PROVE  TypeFlags'
      BY <1>4 DEF RemovalConfirmed, RemovalTimesOut
<1>5. CASE UserCodeEnds
      <2>1. /\ pendingException' \in BOOLEAN
            /\ UNCHANGED <<running, wakeRequested, waitingOnSocket, watchedSocket, pipe,
                           permanentTasksAvailable, processingPermanents>>
            BY <1>5, Zenon DEF UserCodeEnds, TaskEnds, PermanentEnds
      <2>2. QED
            BY <2>1
<1>6. CASE LoopStep \/ LoopWakesByItself
      BY <1>6 DEF LoopStep, LoopStarts, LoopReads, LoopBeginsCycle,
          LoopMovesPermanents, LoopRunsPermanent, LoopMergesPermanents, Available,
          LoopTakesBatch, LoopRunsTask, LoopEndsBatch, LoopCatches,
          LoopDropsPending, LoopWaits, LoopWaitEnds, SocketWoken,
          LoopLeavesSocket, LoopWakesByItself
<1>7. QED
      BY <1>1, <1>2, <1>3, <1>4, <1>5, <1>6 DEF Next

\* The tasks the loop has taken.
LEMMA StepTypeBatch == TypeOK /\ Next => TypeBatch'
<1> SUFFICES ASSUME TypeOK, Next PROVE TypeBatch'
    OBVIOUS
<1> USE BoundsAssumption DEF TypeOK, TypeBatch
<1>1. CASE LoopTakesBatch
      <2>1. tasks \in Seq(Queued)
            BY DEF TypeQueue
      <2>2. /\ BatchSize(Len(tasks)) \in 0..Len(tasks)
            /\ BatchSize(Len(tasks)) <= BatchLimit
            BY <2>1 DEF BatchSize
      <2>3. /\ batch' \in Seq(Queued)
            /\ Len(batch') = BatchSize(Len(tasks))
            BY <1>1, <2>1, <2>2 DEF LoopTakesBatch
      <2>4. QED
            BY <1>1, <2>2, <2>3 DEF LoopTakesBatch, LoopGoto
<1>2. CASE LoopRunsTask
      BY <1>2 DEF LoopRunsTask
<1>3. CASE LoopEndsBatch \/ LoopDropsPending
      <2>1. batch' = << >> /\ position' = 1
            BY <1>3 DEF LoopEndsBatch, LoopDropsPending
      <2>2. QED
            BY <2>1
<1>4. CASE LoopCatches
      <2>1. batch = << >> /\ position = 1 /\ position' = 1 /\ pc' # "batch"
            BY <1>4 DEF LoopCatches
      <2>2. CASE intake = "Draining"
            BY <1>4, <2>1, <2>2 DEF LoopCatches
      <2>3. CASE intake # "Draining"
            <3>1. batch' = tasks /\ pc' = "pending"
                  BY <1>4, <2>3 DEF LoopCatches
            <3>2. QED
                  BY <2>1, <3>1 DEF TypeQueue
      <2>4. QED
            BY <2>2, <2>3
<1>5. CASE /\ UNCHANGED <<batch, position>>
           /\ \/ pc' = pc
              \/ pc \notin {"batch", "pending"} /\ pc' \notin {"batch", "pending"}
      BY <1>5
<1> HIDE DEF TypeOK, TypeBatch
<1>6. ASSUME NEW th \in Threads, Call(th) PROVE  TypeBatch'
      BY <1>6, <1>1, <1>2, <1>3, <1>4, <1>5
      DEF Call, PushTask, QueuePromiseTask, PushCleanupTask, PushCleanupQueued,
          PushCleanupActs, Wake, WatchSocket, PushPermanentTask, ClearPermanentTasks,
          RemovePermanentTask
<1>7. ASSUME NEW th \in Callers \cup {Ctl}, NotifyWake(th) PROVE  TypeBatch'
      BY <1>7, <1>1, <1>2, <1>3, <1>4, <1>5
      DEF NotifyWake
<1>8. ASSUME NEW c \in Callers, RemovalConfirmed(c) \/ RemovalTimesOut(c) PROVE  TypeBatch'
      BY <1>8, <1>1, <1>2, <1>3, <1>4, <1>5
      DEF RemovalConfirmed, RemovalTimesOut
<1>9. CASE UserCodeEnds
      BY <1>9, <1>1, <1>2, <1>3, <1>4, <1>5
      DEF UserCodeEnds, TaskEnds, PermanentEnds
<1>10. CASE Start \/ Stop \/ StopStep
      BY <1>10, <1>1, <1>2, <1>3, <1>4, <1>5
      DEF Start, Stop, StopStep, StopJoined, StopDrains, StopReturns
<1>11. CASE LoopStep \/ LoopWakesByItself
      BY <1>11, <1>1, <1>2, <1>3, <1>4, <1>5
      DEF LoopStep, LoopStarts, LoopReads, LoopBeginsCycle, LoopMovesPermanents,
          LoopRunsPermanent, LoopMergesPermanents, LoopWaits, LoopWaitEnds, SocketWoken,
          LoopLeavesSocket, LoopWakesByItself, LoopGoto
<1>12. QED
      BY <1>1, <1>2, <1>3, <1>4, <1>5, <1>6, <1>7, <1>8, <1>9, <1>10, <1>11 DEF Next

\* The permanent tasks and their removal.
LEMMA StepTypePermanents == TypeOK /\ Next => TypePermanents'
<1> SUFFICES ASSUME TypeOK, Next PROVE TypePermanents'
    OBVIOUS
<1> USE BoundsAssumption DEF TypeOK, TypePermanents
<1>1. ASSUME NEW th \in Threads, PushPermanentTask(th) PROVE TypePermanents'
      BY <1>1 DEF PushPermanentTask, Ids
<1>2. ASSUME NEW th \in Threads, ClearPermanentTasks(th) PROVE TypePermanents'
      <2>1. deferredTaskModification' \in Seq([op : {"clear", "erase"}, id : Ids \cup {0}])
            <3>1. [op |-> "clear", id |-> 0] \in [op : {"clear", "erase"}, id : Ids \cup {0}]
                  OBVIOUS
            <3>2. CASE processingPermanents
                  <4>1. deferredTaskModification' =
                           Append(deferredTaskModification, [op |-> "clear", id |-> 0])
                        BY <1>2, <3>2 DEF ClearPermanentTasks, Defer
                  <4>2. QED
                        BY <3>1, <4>1
            <3>3. CASE ~processingPermanents
                  BY <1>2, <3>3 DEF ClearPermanentTasks
            <3>4. QED
                  BY <3>2, <3>3
      <2>2. permanentTasks' \subseteq Ids
            BY <1>2 DEF ClearPermanentTasks
      <2>3. UNCHANGED <<permanentTaskIdCounter, moved, todo, current, needs, removal, gone>>
            BY <1>2 DEF ClearPermanentTasks
      <2>4. QED
            BY <2>1, <2>2, <2>3
<1>3. ASSUME NEW th \in Threads, NEW id \in Ids, RemovePermanentTask(th, id)
      PROVE  TypePermanents'
      <2>1. CASE processingPermanents
            <3>1. [op |-> "erase", id |-> id] \in [op : {"clear", "erase"}, id : Ids \cup {0}]
                  OBVIOUS
            <3>2. deferredTaskModification' \in Seq([op : {"clear", "erase"}, id : Ids \cup {0}])
                  <4>1. deferredTaskModification' =
                           Append(deferredTaskModification, [op |-> "erase", id |-> id])
                        BY <1>3, <2>1 DEF RemovePermanentTask, Defer
                  <4>2. QED
                        BY <3>1, <4>1
            <3>3. UNCHANGED <<permanentTasks, permanentTaskIdCounter, moved, todo,
                              current, needs, gone>>
                  BY <1>3, <2>1 DEF RemovePermanentTask
            <3>4. CASE UNCHANGED removal
                  BY <3>2, <3>3, <3>4
            <3>5. CASE /\ th \in Callers
                       /\ removal' = [removal EXCEPT ![th] = [state |-> "waiting", id |-> id]]
                  BY <3>2, <3>3, <3>5
            <3>6. QED
                  BY <1>3, <2>1, <3>4, <3>5 DEF RemovePermanentTask
      <2>2. CASE ~processingPermanents
            BY <1>3, <2>2 DEF RemovePermanentTask
      <2>3. QED
            BY <2>1, <2>2
<1>4. ASSUME NEW c \in Callers, RemovalConfirmed(c) PROVE TypePermanents'
      BY <1>4 DEF RemovalConfirmed
<1>5. ASSUME NEW c \in Callers, RemovalTimesOut(c) PROVE TypePermanents'
      BY <1>5 DEF RemovalTimesOut
<1>6. ASSUME NEW status, PermanentEnds(status) PROVE TypePermanents'
      <2>1. needs' \in [mostUrgent : Statuses, awaitsInput : BOOLEAN]
            <3>1. CASE status \in Statuses
                  <4>1. needs' = NeedsAfter(status)
                        BY <1>6, <3>1 DEF PermanentEnds
                  <4>2. NeedsAfter(status) \in [mostUrgent : Statuses, awaitsInput : BOOLEAN]
                        <5>1. (IF Urgency(status) < Urgency(needs.mostUrgent)
                               THEN status ELSE needs.mostUrgent) \in Statuses
                              BY <3>1
                        <5>2. (needs.awaitsInput \/ status = "AwaitInput") \in BOOLEAN
                              OBVIOUS
                        <5>3. QED
                              BY <5>1, <5>2, Zenon DEF NeedsAfter
                  <4>3. QED
                        BY <4>1, <4>2
            <3>2. CASE status \notin Statuses
                  BY <1>6, <3>2 DEF PermanentEnds
            <3>3. QED
                  BY <3>1, <3>2
      <2>2. moved' \subseteq Ids /\ todo' \subseteq Ids /\ current' = 0
            BY <1>6 DEF PermanentEnds
      <2>3. UNCHANGED <<permanentTasks, permanentTaskIdCounter,
                        deferredTaskModification, removal, gone>>
            BY <1>6 DEF PermanentEnds
      <2>4. QED
            BY <2>1, <2>2, <2>3
<1>7. CASE LoopBeginsCycle
      BY <1>7 DEF LoopBeginsCycle, NoNeeds, Statuses
<1>8. CASE LoopMovesPermanents \/ LoopRunsPermanent
      BY <1>8 DEF LoopMovesPermanents, LoopRunsPermanent
<1>9. CASE LoopMergesPermanents
      BY <1>9 DEF LoopMergesPermanents, ApplyDeferred, Answer
<1>10. CASE UNCHANGED <<permanentTasks, permanentTaskIdCounter,
                        deferredTaskModification, moved, todo, current, needs,
                        removalVars>>
      BY <1>10
<1> HIDE DEF TypeOK, TypePermanents
<1>11. ASSUME NEW th \in Threads, Call(th) PROVE  TypePermanents'
      BY <1>11, <1>1, <1>2, <1>3, <1>4, <1>5, <1>6, <1>7, <1>8, <1>9, <1>10
      DEF Call, PushTask, QueuePromiseTask, PushCleanupTask, PushCleanupQueued,
          PushCleanupActs, Wake, WatchSocket
<1>12. ASSUME NEW th \in Callers \cup {Ctl}, NotifyWake(th) PROVE  TypePermanents'
      BY <1>12, <1>1, <1>2, <1>3, <1>4, <1>5, <1>6, <1>7, <1>8, <1>9, <1>10
      DEF NotifyWake
<1>13. CASE UserCodeEnds
      BY <1>13, <1>1, <1>2, <1>3, <1>4, <1>5, <1>6, <1>7, <1>8, <1>9, <1>10
      DEF UserCodeEnds, TaskEnds
<1>14. CASE Start \/ Stop \/ StopStep
      BY <1>14, <1>1, <1>2, <1>3, <1>4, <1>5, <1>6, <1>7, <1>8, <1>9, <1>10
      DEF Start, Stop, StopStep, StopJoined, StopDrains, StopReturns
<1>15. CASE LoopStep \/ LoopWakesByItself
      BY <1>15, <1>1, <1>2, <1>3, <1>4, <1>5, <1>6, <1>7, <1>8, <1>9, <1>10
      DEF LoopStep, LoopStarts, LoopReads, LoopTakesBatch, LoopRunsTask, LoopEndsBatch,
          LoopCatches, LoopDropsPending, LoopWaits, LoopWaitEnds, SocketWoken,
          LoopLeavesSocket, LoopWakesByItself
<1>16. QED
      BY <1>1, <1>2, <1>3, <1>4, <1>5, <1>6, <1>7, <1>8, <1>9, <1>10, <1>11, <1>12,
         <1>13, <1>14, <1>15 DEF Next

\* Program counters, stacks, notifications and the two thread ids.
LEMMA StepTypeThreads == TypeOK /\ Next => TypeThreads'
<1> SUFFICES ASSUME TypeOK, Next PROVE TypeThreads'
    OBVIOUS
<1> USE BoundsAssumption DEF TypeOK, TypeThreads
<1>1. CASE Start \/ Stop \/ StopJoined \/ StopReturns
      BY <1>1 DEF Start, Stop, StopJoined, StopReturns, PCs, Threads
<1>2. CASE StopDrains
      <2>1. tasks[1] \in Queued
            BY <1>2 DEF StopDrains, TypeQueue
      <2>2. Frame(tasks[1].task, "taken") \in Frames
            BY <2>1 DEF Frame, Frames, Hows, Queued
      <2>3. CASE tasks[1].kind = "Refused"
            BY <1>2, <2>3 DEF StopDrains, DrainIndex
      <2>4. CASE tasks[1].kind # "Refused"
            <3>1. stack' = [stack EXCEPT ![Ctl] = Append(@, Frame(tasks[1].task, "taken"))]
                  BY <1>2, <2>4 DEF StopDrains, DrainIndex, Enters
            <3>2. stack' \in [Threads -> Seq(Frames)]
                  BY <2>2, <3>1 DEF Threads
            <3>3. QED
                  BY <1>2, <3>2 DEF StopDrains
      <2>5. QED
            BY <2>3, <2>4
<1>3. ASSUME NEW th \in Threads, NEW t \in Cleanups, PushCleanupActs(th, t)
      PROVE  TypeThreads'
      <2>1. Frame(t, "acting") \in Frames
            BY DEF Frame, Frames, Hows, Tasks
      <2>2. stack' \in [Threads -> Seq(Frames)]
            BY <1>3, <2>1 DEF PushCleanupActs, Enters
      <2>3. QED
            BY <1>3, <2>2 DEF PushCleanupActs
<1>4. ASSUME NEW th \in Threads, Call(th),
             UNCHANGED <<pc, stack, processingThreadId, ctlVars>>
      PROVE  TypeThreads'
      BY <1>4 DEF Call, PushTask, QueuePromiseTask, PushCleanupTask,
                  PushCleanupQueued, PushCleanupActs, Wake, WatchSocket,
                  PushPermanentTask, ClearPermanentTasks, RemovePermanentTask,
                  RequestWake
<1>5. ASSUME NEW th \in Threads, Call(th) PROVE TypeThreads'
      BY <1>3, <1>4, <1>5
      DEF Call, PushTask, QueuePromiseTask, PushCleanupTask, PushCleanupQueued,
          Wake, WatchSocket, PushPermanentTask, ClearPermanentTasks,
          RemovePermanentTask
<1>6. ASSUME NEW th \in Callers \cup {Ctl}, NotifyWake(th) PROVE TypeThreads'
      BY <1>6 DEF NotifyWake, PCs
<1>7. ASSUME NEW th \in Threads, NEW throws \in BOOLEAN, TaskEnds(th, throws)
      PROVE  TypeThreads'
      <2>1. stack[th] \in Seq(Frames) /\ Len(stack[th]) \in 1..Len(stack[th])
            BY <1>7 DEF TaskEnds
      <2>2. /\ stack[th][Len(stack[th])] \in Frames
            /\ SubSeq(stack[th], 1, Len(stack[th]) - 1) \in Seq(Frames)
            BY <2>1
      <2>3. stack' \in [Threads -> Seq(Frames)]
            BY <1>7, <2>2 DEF TaskEnds
      <2>4. processingThreadId' \in Threads \cup {None}
            BY <1>7, <2>2 DEF TaskEnds, Frames
      <2>5. cleanupMutex' \in Threads \cup {None}
            BY <1>7 DEF TaskEnds
      <2>6. QED
            BY <1>7, <2>3, <2>4, <2>5 DEF TaskEnds
<1>8. CASE LoopRunsTask
      <2>1. batch[position] \in Queued
            BY <1>8 DEF LoopRunsTask, TypeBatch
      <2>2. Frame(batch[position].task, "taken") \in Frames
            BY <2>1 DEF Frame, Frames, Hows, Queued
      <2>3. stack' \in [Threads -> Seq(Frames)]
            <3>1. \/ stack' = stack
                  \/ stack' = [stack EXCEPT ![Loop] =
                                  Append(@, Frame(batch[position].task, "taken"))]
                  BY <1>8 DEF LoopRunsTask, Enters
            <3>2. CASE stack' = stack
                  BY <3>2
            <3>3. CASE stack' = [stack EXCEPT ![Loop] =
                                    Append(@, Frame(batch[position].task, "taken"))]
                  BY <2>2, <3>3 DEF Threads
            <3>4. QED
                  BY <3>1, <3>2, <3>3
      <2>4. QED
            BY <1>8, <2>3 DEF LoopRunsTask
<1>9. CASE LoopCatches
      BY <1>9 DEF LoopCatches, PCs, Threads
<1>10. CASE LoopStarts \/ LoopDropsPending
      BY <1>10 DEF LoopStarts, LoopDropsPending, LoopGoto, PCs, Threads
<1>11. CASE /\ pc' \in PCs
            /\ UNCHANGED <<ctlVars, notify, stack, processingThreadId, cleanupMutex>>
      BY <1>11
<1>12. CASE LoopStep \/ LoopWakesByItself
      <2>1. CASE pc' = pc /\ UNCHANGED <<ctlVars, notify, stack, processingThreadId, cleanupMutex>>
            BY <2>1
      <2> HIDE DEF TypeOK, TypeThreads
      <2>2. QED
            BY <1>8, <1>9, <1>10, <1>11, <1>12, <2>1
            DEF LoopStep, LoopGoto, PCs, LoopReads, LoopBeginsCycle,
                LoopMovesPermanents, LoopRunsPermanent, LoopMergesPermanents,
                LoopTakesBatch, LoopEndsBatch, LoopWaits, LoopWaitEnds, SocketWoken,
                LoopLeavesSocket, LoopWakesByItself
<1>13. QED
      BY <1>1, <1>2, <1>5, <1>6, <1>7, <1>11, <1>12
      DEF Next, StopStep, RemovalConfirmed, RemovalTimesOut, UserCodeEnds, PermanentEnds

LEMMA StepType == TypeOK /\ [Next]_vars => TypeOK'
<1> SUFFICES ASSUME TypeOK, [Next]_vars PROVE TypeOK'
    OBVIOUS
<1>1. CASE Next
      BY <1>1, StepTypeFlags, StepTypeQueue, StepTypeBatch, StepTypePermanents,
         StepTypeThreads DEF TypeOK
<1>2. CASE UNCHANGED vars
      BY <1>2 DEF vars, TypeOK, TypeFlags, TypeQueue, TypeBatch, TypePermanents,
                  TypeThreads
<1>3. QED
      BY <1>1, <1>2

\* Every variable keeps its type; a batch never exceeds the limit and the loop
\* holds tasks only where it runs them.
THEOREM TypeCorrect == Spec => []TypeOK
BY InitType, StepType, PTL DEF Spec
-----------------------------------------------------------------------------
(***************************************************************************)
(* Mutual exclusion.  It does not follow from the mutexes alone: who may   *)
(* run tasks is decided by intake_, the loop's and stop()'s position and,  *)
(* between callers and the exception handler, by cleanupMutex_.            *)
(***************************************************************************)
\* What intake_ says about stop() and the loop.
IntakeInv ==
    /\ ctl = "idle" <=> intake # "Draining"
    /\ ctl = "drain" => pc = "none"
    /\ intake = "Closed" => pc \in {"none", "pending", "ended"}
    /\ pc = "pending" => intake = "Closed"

\* The handler and the callers that act hold cleanupMutex_ and see intake_
\* closed; the others run tasks only where their program counter says so.
StackInv ==
    /\ pc = "pending" <=> cleanupMutex = Loop
    /\ cleanupMutex # Ctl
    /\ \A c \in Callers : stack[c] # << >> => cleanupMutex = c /\ intake = "Closed"
    /\ stack[Ctl] # << >> => ctl = "drain"
    /\ stack[Loop] # << >> => pc \in {"batch", "pending"}
    /\ current # 0 => pc = "perm"

\* Whoever runs tasks is the processing thread, and what an acting frame
\* restores is the thread that runs the frame below.
IdInv ==
    /\ pc \notin {"none", "spawned", "ended"} => processingThreadId = Loop
    /\ ctl = "drain" => processingThreadId = Ctl
    /\ \A c \in Callers : stack[c] # << >> => processingThreadId = c
    /\ \A c \in Callers : \A i \in 2..Len(stack[c]) : stack[c][i].previous = c
    /\ \A i \in 1..Len(stack[Ctl]) : stack[Ctl][i].how = "taken"
    /\ \A i \in 1..Len(stack[Loop]) :
          stack[Loop][i].how = "acting" => stack[Loop][i].previous = Loop

ExecInv == IntakeInv /\ StackInv /\ IdInv

LEMMA InitExec == Init => ExecInv
<1> SUFFICES ASSUME Init PROVE ExecInv
    OBVIOUS
<1>1. IntakeInv
      BY DEF Init, IntakeInv
<1>2. StackInv
      BY ThreadsAssumption DEF Init, StackInv, Threads
<1>3. IdInv
      BY DEF Init, IdInv, Threads
<1>4. QED
      BY <1>1, <1>2, <1>3 DEF ExecInv

\* Only stop() and the exception handler move intake_ and the loop together.
LEMMA StepIntake == TypeOK /\ ExecInv /\ Next => IntakeInv'
<1> SUFFICES ASSUME TypeOK, ExecInv, Next PROVE IntakeInv'
    OBVIOUS
<1> USE DEF TypeOK, TypeQueue, TypeThreads, ExecInv, IntakeInv
<1>1. CASE Start \/ Stop \/ StopJoined \/ StopReturns
      <2>1. CASE Start
            BY <2>1 DEF Start
      <2>2. CASE Stop
            <3>1. pc # "pending"
                  BY <2>2, ThreadsAssumption DEF Stop, StackInv
            <3>2. intake' = "Draining" /\ ctl' = "join" /\ pc' = pc
                  BY <2>2 DEF Stop
            <3>3. QED
                  BY <3>1, <3>2
      <2>3. CASE StopJoined
            BY <2>3 DEF StopJoined
      <2>4. CASE StopReturns
            BY <2>4 DEF StopReturns
      <2>5. QED
            BY <1>1, <2>1, <2>2, <2>3, <2>4
<1>2. CASE LoopCatches
      BY <1>2 DEF LoopCatches
<1>3. CASE LoopDropsPending
      BY <1>3 DEF LoopDropsPending, LoopGoto
<1>4. CASE /\ UNCHANGED <<intake, ctl>>
           /\ \/ pc' = pc
              \/ pc \notin {"none", "pending", "ended"} /\ pc' \notin {"none", "pending"}
      BY <1>4
<1> HIDE DEF TypeOK, TypeQueue, TypeThreads, ExecInv, IntakeInv
<1>5. ASSUME NEW th \in Threads, Call(th) PROVE  IntakeInv'
      BY <1>5, <1>1, <1>2, <1>3, <1>4
      DEF Call, PushTask, QueuePromiseTask, PushCleanupTask, PushCleanupQueued,
          PushCleanupActs, Wake, WatchSocket, PushPermanentTask, ClearPermanentTasks,
          RemovePermanentTask
<1>6. ASSUME NEW th \in Callers \cup {Ctl}, NotifyWake(th) PROVE  IntakeInv'
      BY <1>6, <1>1, <1>2, <1>3, <1>4
      DEF NotifyWake
<1>7. ASSUME NEW c \in Callers, RemovalConfirmed(c) \/ RemovalTimesOut(c) PROVE  IntakeInv'
      BY <1>7, <1>1, <1>2, <1>3, <1>4
      DEF RemovalConfirmed, RemovalTimesOut
<1>8. CASE UserCodeEnds
      BY <1>8, <1>1, <1>2, <1>3, <1>4
      DEF UserCodeEnds, TaskEnds, PermanentEnds
<1>9. CASE Start \/ Stop \/ StopStep
      BY <1>9, <1>1, <1>2, <1>3, <1>4
      DEF StopStep, StopDrains
<1>10. CASE LoopStep \/ LoopWakesByItself
      BY <1>10, <1>1, <1>2, <1>3, <1>4
      DEF LoopStep, LoopStarts, LoopReads, LoopBeginsCycle, LoopMovesPermanents,
          LoopRunsPermanent, LoopMergesPermanents, LoopTakesBatch, LoopRunsTask,
          LoopEndsBatch, LoopWaits, LoopWaitEnds, SocketWoken, LoopLeavesSocket,
          LoopWakesByItself, LoopGoto
<1>11. QED
      BY <1>1, <1>2, <1>3, <1>4, <1>5, <1>6, <1>7, <1>8, <1>9, <1>10 DEF Next

\* A thread that acts: a caller, or the loop inside its exception handler.
LEMMA WhoActs ==
    ASSUME TypeOK, ExecInv, NEW th \in Threads, NEW t \in Cleanups,
           PushCleanupActs(th, t)
    PROVE  th \in Callers \/ (th = Loop /\ pc = "pending" /\ processingThreadId = Loop)
BY ThreadsAssumption
DEF PushCleanupActs, Calling, Executing, Threads, ExecInv, IntakeInv, StackInv,
    IdInv

LEMMA StepStack == TypeOK /\ ExecInv /\ Next => StackInv'
<1> SUFFICES ASSUME TypeOK, ExecInv, Next PROVE StackInv'
    OBVIOUS
<1> USE ThreadsAssumption DEF TypeOK, TypeThreads, ExecInv, IntakeInv, StackInv
<1>1. CASE Start \/ Stop \/ StopJoined \/ StopReturns
      BY <1>1 DEF Start, Stop, StopJoined, StopReturns
<1>2. CASE StopDrains
      BY <1>2 DEF StopDrains, Enters, Threads
<1>3. ASSUME NEW th \in Threads, NEW t \in Cleanups, PushCleanupQueued(th, t)
      PROVE  StackInv'
      BY <1>3 DEF PushCleanupQueued, LocksCleanup, Threads
<1>4. ASSUME NEW th \in Threads, NEW t \in Cleanups, PushCleanupActs(th, t)
      PROVE  StackInv'
      <2>1. th \in Callers \/ (th = Loop /\ pc = "pending")
            BY <1>4, WhoActs
      <2>2. \A x \in Threads \ {th} : stack'[x] = stack[x]
            BY <1>4 DEF PushCleanupActs, Enters
      <2>3. QED
            BY <1>4, <2>1, <2>2 DEF PushCleanupActs, LocksCleanup, Threads
<1>5. ASSUME NEW th \in Callers \cup {Ctl}, NotifyWake(th) PROVE StackInv'
      BY <1>5 DEF NotifyWake, Threads
<1>6. ASSUME NEW th \in Threads, NEW throws \in BOOLEAN, TaskEnds(th, throws)
      PROVE  StackInv'
      <2>1. stack[th] # << >> /\ \A x \in Threads \ {th} : stack'[x] = stack[x]
            BY <1>6 DEF TaskEnds
      <2>2. cleanupMutex' = IF th \in Callers /\ stack'[th] = << >>
                            THEN None ELSE cleanupMutex
            BY <1>6 DEF TaskEnds
      <2>3. UNCHANGED <<pc, intake, ctl, current>>
            BY <1>6 DEF TaskEnds
      <2>4. QED
            BY <2>1, <2>2, <2>3 DEF Threads
<1>7. CASE LoopRunsTask
      <2>1. pc \in {"batch", "pending"} /\ \A x \in Threads \ {Loop} : stack'[x] = stack[x]
            BY <1>7 DEF LoopRunsTask, Enters
      <2>2. UNCHANGED <<pc, intake, ctl, current, cleanupMutex>>
            BY <1>7 DEF LoopRunsTask
      <2>3. QED
            BY <2>1, <2>2 DEF Threads
<1>8. CASE LoopCatches
      BY <1>8 DEF LoopCatches, Threads
<1>9. CASE LoopEndsBatch \/ LoopDropsPending
      BY <1>9 DEF LoopEndsBatch, LoopDropsPending, LoopGoto, Threads
<1>10. CASE LoopRunsPermanent \/ LoopMergesPermanents
      BY <1>10 DEF LoopRunsPermanent, LoopMergesPermanents, LoopGoto
<1>11. ASSUME NEW status, PermanentEnds(status) PROVE StackInv'
      BY <1>11 DEF PermanentEnds
<1>12. CASE /\ UNCHANGED <<stack, cleanupMutex, intake, ctl, current>>
            /\ \/ pc' = pc
               \/ /\ pc \notin {"batch", "pending", "perm"}
                  /\ pc' # "pending"
      BY <1>12
<1>13. QED
      BY <1>1, <1>2, <1>3, <1>4, <1>5, <1>6, <1>7, <1>8, <1>9, <1>10, <1>11, <1>12
      DEF Next, StopStep, Call, PushTask, QueuePromiseTask, PushCleanupTask,
          Wake, WatchSocket, PushPermanentTask, ClearPermanentTasks,
          RemovePermanentTask, RemovalConfirmed, RemovalTimesOut, UserCodeEnds,
          LoopStep, LoopGoto, LoopStarts, LoopReads, LoopBeginsCycle,
          LoopMovesPermanents, LoopTakesBatch, LoopWaits, LoopWaitEnds,
          SocketWoken, LoopLeavesSocket, LoopWakesByItself

\* A task taken from the queue is alone on its stack.
LEMMA OneFrame ==
    ASSUME NEW t
    PROVE  /\ Len(Append(<< >>, Frame(t, "taken"))) = 1
           /\ Append(<< >>, Frame(t, "taken"))[1].how = "taken"
<1> DEFINE f == Frame(t, "taken")
<1>1. f.how = "taken"
      BY DEF Frame
<1> HIDE DEF f
<1>2. Append(<< >>, f) = << f >>
      OBVIOUS
<1>3. Len(<< f >>) = 1 /\ << f >>[1] = f
      OBVIOUS
<1>4. QED
      BY <1>1, <1>2, <1>3 DEF f

\* The last element of a sequence is taken off.
LEMMA FrontOfSeq ==
    ASSUME NEW S, NEW s \in Seq(S), s # << >>
    PROVE  /\ Len(s) \in Nat \ {0}
           /\ Len(SubSeq(s, 1, Len(s) - 1)) = Len(s) - 1
           /\ \A i \in 1..(Len(s) - 1) : SubSeq(s, 1, Len(s) - 1)[i] = s[i]
<1>1. Len(s) \in Nat \ {0}
      OBVIOUS
<1>2. Len(SubSeq(s, 1, Len(s) - 1)) = Len(s) - 1
      <2>1. CASE Len(s) = 1
            BY <2>1
      <2>2. CASE Len(s) > 1
            BY <1>1, <2>2
      <2>3. QED
            BY <1>1, <2>1, <2>2
<1>3. \A i \in 1..(Len(s) - 1) : SubSeq(s, 1, Len(s) - 1)[i] = s[i]
      BY <1>1
<1>4. QED
      BY <1>1, <1>2, <1>3

\* The frames keep the thread identity: a nested acting frame of a thread
\* restores that thread, the outermost one is the last to leave.
LEMMA StepId == TypeOK /\ ExecInv /\ Next => IdInv'
<1> SUFFICES ASSUME TypeOK, ExecInv, Next PROVE IdInv'
    OBVIOUS
<1> USE ThreadsAssumption DEF TypeOK, TypeThreads, ExecInv, IntakeInv, StackInv, IdInv
<1>1. CASE Start \/ Stop \/ StopJoined \/ StopReturns
      BY <1>1 DEF Start, Stop, StopJoined, StopReturns
<1>2. CASE StopDrains
      <2>1. UNCHANGED <<pc, ctl, processingThreadId>>
            BY <1>2 DEF StopDrains
      <2>2. /\ stack[Ctl] = << >>
            /\ \A x \in Threads \ {Ctl} : stack'[x] = stack[x]
            BY <1>2 DEF StopDrains, Enters
      <2>3. CASE tasks[DrainIndex].kind = "Refused"
            BY <1>2, <2>1, <2>2, <2>3 DEF StopDrains
      <2>4. CASE tasks[DrainIndex].kind # "Refused"
            <3>1. stack'[Ctl] = Append(<< >>, Frame(tasks[DrainIndex].task, "taken"))
                  <4>1. stack' = [stack EXCEPT ![Ctl] =
                                     Append(@, Frame(tasks[DrainIndex].task, "taken"))]
                        BY <1>2, <2>4, Zenon DEF StopDrains, Enters
                  <4>2. QED
                        BY <4>1, <2>2 DEF Threads
            <3>2. Len(stack'[Ctl]) = 1 /\ stack'[Ctl][1].how = "taken"
                  BY <3>1, OneFrame
            <3>3. \A i \in 1..Len(stack'[Ctl]) : stack'[Ctl][i].how = "taken"
                  BY <3>2
            <3>4. QED
                  BY <2>1, <2>2, <3>3 DEF Threads
      <2>5. QED
            BY <2>3, <2>4
<1>3. ASSUME NEW th \in Threads, NEW t \in Cleanups, PushCleanupActs(th, t)
      PROVE  IdInv'
      <2>1. th \in Callers \/ (th = Loop /\ pc = "pending" /\ processingThreadId = Loop)
            BY <1>3, WhoActs
      <2>2. /\ \A x \in Threads \ {th} : stack'[x] = stack[x]
            /\ stack'[th] = Append(stack[th], Frame(t, "acting"))
            /\ stack[th] \in Seq(Frames)
            BY <1>3 DEF PushCleanupActs, Enters
      <2>3. UNCHANGED <<pc, ctl>> /\ processingThreadId' = th /\ cleanupMutex \in {None, th}
            BY <1>3 DEF PushCleanupActs, LocksCleanup
      <2>4. intake = "Closed"
            BY <1>3 DEF PushCleanupActs
      <2>5. /\ Frame(t, "acting").previous = processingThreadId
            /\ Frame(t, "acting").how = "acting"
            BY DEF Frame
      <2>6. CASE th \in Callers
            <3>1. \A i \in 2..Len(stack'[th]) : stack'[th][i].previous = th
                  <4> SUFFICES ASSUME NEW i \in 2..Len(stack'[th])
                               PROVE  stack'[th][i].previous = th
                      OBVIOUS
                  <4>1. CASE i <= Len(stack[th])
                        BY <4>1, <2>2, <2>6
                  <4>2. CASE i = Len(stack[th]) + 1
                        <5>1. stack[th] # << >>
                              BY <4>2, <2>2
                        <5>2. QED
                              BY <5>1, <4>2, <2>2, <2>5, <2>6
                  <4>3. QED
                        BY <4>1, <4>2, <2>2
            <3>2. \A c \in Callers \ {th} : stack[c] = << >>
                  BY <2>3
            <3>3. pc \in {"none", "spawned", "ended"} /\ ctl # "drain"
                  BY <2>3, <2>4, <2>6
            <3>4. QED
                  BY <3>1, <3>2, <3>3, <2>2, <2>3, <2>6 DEF Threads
      <2>7. CASE th = Loop /\ pc = "pending" /\ processingThreadId = Loop
            <3>1. \A i \in 1..Len(stack'[Loop]) :
                     stack'[Loop][i].how = "acting" => stack'[Loop][i].previous = Loop
                  <4> SUFFICES ASSUME NEW i \in 1..Len(stack'[Loop])
                               PROVE  stack'[Loop][i].how = "acting"
                                         => stack'[Loop][i].previous = Loop
                      OBVIOUS
                  <4>1. CASE i <= Len(stack[Loop])
                        <5>1. i \in 1..Len(stack[Loop])
                              BY <4>1, <2>2, <2>7
                        <5>2. stack'[Loop][i] = stack[Loop][i]
                              BY <5>1, <2>2, <2>7
                        <5>3. stack[Loop][i].how = "acting" => stack[Loop][i].previous = Loop
                              BY <5>1
                        <5>4. QED
                              BY <5>2, <5>3
                  <4>2. CASE i = Len(stack[Loop]) + 1
                        <5>1. stack'[Loop][i] = Frame(t, "acting")
                              BY <4>2, <2>2, <2>7
                        <5>2. QED
                              BY <5>1, <2>5, <2>7
                  <4>3. QED
                        BY <4>1, <4>2, <2>2, <2>7
            <3>2. QED
                  BY <3>1, <2>2, <2>3, <2>7 DEF Threads
      <2>8. QED
            BY <2>1, <2>6, <2>7
<1>4. ASSUME NEW th \in Threads, NEW throws \in BOOLEAN, TaskEnds(th, throws)
      PROVE  IdInv'
      <2> DEFINE n == Len(stack[th])
      <2>1. /\ stack[th] # << >> /\ stack[th] \in Seq(Frames)
            /\ \A x \in Threads \ {th} : stack'[x] = stack[x]
            /\ stack'[th] = SubSeq(stack[th], 1, n - 1)
            BY <1>4 DEF TaskEnds
      <2>2. /\ processingThreadId' = IF stack[th][n].how = "acting"
                                     THEN stack[th][n].previous ELSE processingThreadId
            /\ UNCHANGED <<pc, ctl>>
            BY <1>4 DEF TaskEnds
      <2>3. /\ n \in Nat \ {0} /\ Len(stack'[th]) = n - 1
            /\ \A i \in 1..(n - 1) : stack'[th][i] = stack[th][i]
            BY <2>1, FrontOfSeq
      <2> HIDE DEF n
      <2>4. CASE th \in Callers
            <3>1. \A i \in 2..Len(stack'[th]) : stack'[th][i].previous = th
                  <4> SUFFICES ASSUME NEW i \in 2..Len(stack'[th])
                               PROVE  stack'[th][i].previous = th
                      OBVIOUS
                  <4>1. i \in 1..(n - 1) /\ i \in 2..Len(stack[th])
                        BY <2>3 DEF n
                  <4>2. stack[th][i].previous = th
                        BY <4>1, <2>4
                  <4>3. QED
                        BY <4>1, <4>2, <2>3
            <3>2. \A c \in Callers \ {th} : stack[c] = << >>
                  BY <2>1, <2>4
            <3>3. pc \in {"none", "spawned", "ended"} /\ ctl # "drain"
                  BY <2>1, <2>4
            <3>4. stack'[th] # << >> => processingThreadId' = th
                  <4> SUFFICES ASSUME stack'[th] # << >> PROVE processingThreadId' = th
                      OBVIOUS
                  <4>1. n \in 2..Len(stack[th])
                        BY <2>1, <2>3 DEF n
                  <4>2. stack[th][n].previous = th /\ processingThreadId = th
                        BY <4>1, <2>1, <2>4
                  <4>3. QED
                        BY <4>2, <2>2
            <3>5. QED
                  BY <3>1, <3>2, <3>3, <3>4, <2>1, <2>2, <2>4 DEF Threads
      <2>5. CASE th = Ctl
            <3>1. stack[Ctl][n].how = "taken"
                  BY <2>3, <2>5 DEF n
            <3>2. UNCHANGED processingThreadId
                  BY <3>1, <2>2, <2>5
            <3>3. \A i \in 1..Len(stack'[Ctl]) : stack'[Ctl][i].how = "taken"
                  <4> SUFFICES ASSUME NEW i \in 1..Len(stack'[Ctl])
                               PROVE  stack'[Ctl][i].how = "taken"
                      OBVIOUS
                  <4>1. i \in 1..(n - 1) /\ i \in 1..Len(stack[Ctl])
                        BY <2>3, <2>5 DEF n
                  <4>2. stack[Ctl][i].how = "taken"
                        BY <4>1
                  <4>3. QED
                        BY <4>1, <4>2, <2>3, <2>5
            <3>4. /\ IdInv /\ stack'[Loop] = stack[Loop]
                  /\ \A c \in Callers : stack'[c] = stack[c]
                  BY <2>1, <2>5 DEF Threads
            <3> HIDE DEF TypeOK, TypeThreads, ExecInv, IntakeInv, StackInv
            <3>5. QED
                  BY <3>2, <3>3, <3>4, <2>2
      <2>6. CASE th = Loop
            <3>1. processingThreadId = Loop
                  BY <2>1, <2>6
            <3>2. stack[Loop][n].how = "acting" => stack[Loop][n].previous = Loop
                  BY <2>3, <2>6 DEF n
            <3>3. processingThreadId' = Loop
                  BY <3>1, <3>2, <2>2, <2>6
            <3>4. \A i \in 1..Len(stack'[Loop]) :
                     stack'[Loop][i].how = "acting" => stack'[Loop][i].previous = Loop
                  <4> SUFFICES ASSUME NEW i \in 1..Len(stack'[Loop])
                               PROVE  stack'[Loop][i].how = "acting"
                                         => stack'[Loop][i].previous = Loop
                      OBVIOUS
                  <4>1. i \in 1..(n - 1) /\ i \in 1..Len(stack[Loop])
                        BY <2>3, <2>6 DEF n
                  <4>2. stack[Loop][i].how = "acting" => stack[Loop][i].previous = Loop
                        BY <4>1
                  <4>3. QED
                        BY <4>1, <4>2, <2>3, <2>6
            <3>5. /\ IdInv /\ stack'[Ctl] = stack[Ctl]
                  /\ \A c \in Callers : stack'[c] = stack[c]
                  BY <2>1, <2>6 DEF Threads
            <3> HIDE DEF TypeOK, TypeThreads, ExecInv, IntakeInv, StackInv
            <3>6. QED
                  BY <3>1, <3>3, <3>4, <3>5, <2>2
      <2>7. QED
            BY <2>4, <2>5, <2>6 DEF Threads
<1>5. CASE LoopRunsTask
      <2>1. /\ pc \in {"batch", "pending"} /\ stack[Loop] = << >>
            /\ \A x \in Threads \ {Loop} : stack'[x] = stack[x]
            /\ UNCHANGED <<pc, ctl, processingThreadId>>
            BY <1>5 DEF LoopRunsTask, Enters
      <2>2. CASE ~Runs(batch[position].kind)
            BY <1>5, <2>1, <2>2 DEF LoopRunsTask
      <2>3. CASE Runs(batch[position].kind)
            <3>1. stack'[Loop] = Append(<< >>, Frame(batch[position].task, "taken"))
                  BY <1>5, <2>1, <2>3 DEF LoopRunsTask, Enters, Threads
            <3>2. Len(stack'[Loop]) = 1 /\ stack'[Loop][1].how = "taken"
                  BY <3>1, OneFrame
            <3>3. \A i \in 1..Len(stack'[Loop]) : stack'[Loop][i].how = "taken"
                  BY <3>2
            <3>4. QED
                  BY <2>1, <3>3 DEF Threads
      <2>4. QED
            BY <2>2, <2>3
<1>6. CASE LoopStarts
      BY <1>6 DEF LoopStarts, LoopGoto, Threads
<1>7. CASE LoopCatches
      BY <1>7 DEF LoopCatches
<1>8. CASE /\ UNCHANGED <<stack, processingThreadId, ctl>>
           /\ \/ pc' = pc
              \/ pc \notin {"none", "spawned", "ended"}
      BY <1>8
<1> HIDE DEF TypeOK, TypeThreads, ExecInv, IntakeInv, StackInv, IdInv
<1>9. ASSUME NEW th \in Threads, Call(th) PROVE  IdInv'
      BY <1>9, <1>1, <1>2, <1>3, <1>4, <1>5, <1>6, <1>7, <1>8
      DEF Call, PushTask, QueuePromiseTask, PushCleanupTask, PushCleanupQueued, Wake,
          WatchSocket, PushPermanentTask, ClearPermanentTasks, RemovePermanentTask
<1>10. ASSUME NEW th \in Callers \cup {Ctl}, NotifyWake(th) PROVE  IdInv'
      BY <1>10, <1>1, <1>2, <1>3, <1>4, <1>5, <1>6, <1>7, <1>8
      DEF NotifyWake
<1>11. ASSUME NEW c \in Callers, RemovalConfirmed(c) \/ RemovalTimesOut(c) PROVE  IdInv'
      BY <1>11, <1>1, <1>2, <1>3, <1>4, <1>5, <1>6, <1>7, <1>8
      DEF RemovalConfirmed, RemovalTimesOut
<1>12. CASE UserCodeEnds
      BY <1>12, <1>1, <1>2, <1>3, <1>4, <1>5, <1>6, <1>7, <1>8
      DEF UserCodeEnds, PermanentEnds
<1>13. CASE Start \/ Stop \/ StopStep
      BY <1>13, <1>1, <1>2, <1>3, <1>4, <1>5, <1>6, <1>7, <1>8
      DEF StopStep
<1>14. CASE LoopStep \/ LoopWakesByItself
      BY <1>14, <1>1, <1>2, <1>3, <1>4, <1>5, <1>6, <1>7, <1>8
      DEF LoopStep, LoopReads, LoopBeginsCycle, LoopMovesPermanents, LoopRunsPermanent,
          LoopMergesPermanents, LoopTakesBatch, LoopEndsBatch, LoopDropsPending,
          LoopWaits, LoopWaitEnds, SocketWoken, LoopLeavesSocket, LoopWakesByItself,
          LoopGoto
<1>15. QED
      BY <1>1, <1>2, <1>3, <1>4, <1>5, <1>6, <1>7, <1>8, <1>9, <1>10, <1>11, <1>12,
         <1>13, <1>14 DEF Next

LEMMA StepExec == TypeOK /\ ExecInv /\ [Next]_vars => ExecInv'
<1> SUFFICES ASSUME TypeOK, ExecInv, [Next]_vars PROVE ExecInv'
    OBVIOUS
<1>1. CASE Next
      BY <1>1, StepIntake, StepStack, StepId DEF ExecInv
<1>2. CASE UNCHANGED vars
      BY <1>2 DEF vars, ExecInv, IntakeInv, StackInv, IdInv
<1>3. QED
      BY <1>1, <1>2

LEMMA ExecCorrect == Spec => []ExecInv
BY InitType, StepType, InitExec, StepExec, PTL DEF Spec

\* Whoever executes a task or a permanent task is the processing thread.
LEMMA ExecutorIsProcessing == TypeOK /\ ExecInv => TasksRunWithinProcessingThread
BY ThreadsAssumption
DEF TypeOK, TypeThreads, ExecInv, StackInv, IdInv, TasksRunWithinProcessingThread,
    Executing, withinProcessingThread, Threads

\* For any number of callers and tasks, and any interleaving of start(), stop(),
\* an exception in a task and cleanup tasks that run on their callers: the
\* thread that runs a task is the one processingThreadId_ names.
THEOREM WithinProcessingThread == Spec => []TasksRunWithinProcessingThread
BY TypeCorrect, ExecCorrect, ExecutorIsProcessing, PTL

\* Hence no two threads run tasks at the same time: the loop, the drain in
\* stop() and callers of pushCleanupTask exclude each other.
THEOREM MutualExclusion == Spec => []OneExecutor
<1>1. TasksRunWithinProcessingThread => OneExecutor
      BY DEF TasksRunWithinProcessingThread, OneExecutor, withinProcessingThread
<1>2. QED
      BY <1>1, WithinProcessingThread, PTL
-----------------------------------------------------------------------------
(***************************************************************************)
(* Permanent tasks: a removal that was confirmed is final, although the    *)
(* loop holds the tasks outside of the lock while they have their turns    *)
(* and applies what others asked for in the meantime afterwards.           *)
(***************************************************************************)

\* The loop has tasks of its own only during the turns, and they are issued.
TurnsInv ==
    /\ processingPermanents <=> pc = "perm"
    /\ pc # "perm" => moved = {} /\ todo = {} /\ current = 0
                        /\ deferredTaskModification = << >>
    /\ todo \subseteq moved /\ current \notin todo /\ (current # 0 => current \in moved)
    /\ permanentTasks \cup moved \subseteq 1..permanentTaskIdCounter
    /\ permanentTasks \cap moved = {}

\* A thread that waits has its erase among the deferred ones; once answered,
\* and once the removal is confirmed, the task is nowhere and never will be.
RemovalInv ==
    /\ \A c \in Callers :
          /\ removal[c].state # "idle" => removal[c].id \in 1..permanentTaskIdCounter
          /\ removal[c].state = "waiting" =>
                /\ processingPermanents
                /\ \E i \in DOMAIN deferredTaskModification :
                      deferredTaskModification[i].id = removal[c].id
          /\ removal[c].state = "done" => removal[c].id \notin permanentTasks \cup moved
    /\ gone \subseteq 1..permanentTaskIdCounter
    /\ gone \cap (permanentTasks \cup moved) = {}

PermInv == TurnsInv /\ RemovalInv

LEMMA InitPerm == Init => PermInv
BY DEF Init, PermInv, TurnsInv, RemovalInv

\* The loop moves the tasks to itself and back.
LEMMA StepTurns == TypeOK /\ ExecInv /\ PermInv /\ Next => TurnsInv'
<1> SUFFICES ASSUME TypeOK, ExecInv, PermInv, Next PROVE TurnsInv'
    OBVIOUS
<1> USE DEF TypeOK, TypePermanents, PermInv, TurnsInv, Ids
<1>1. CASE Start \/ StopJoined
      <2>1. /\ UNCHANGED <<permVars, cycleVars>> /\ pc # "perm" /\ pc' # "perm"
            BY <1>1 DEF Start, StopJoined
      <2>2. QED
            BY <2>1
<1>2. ASSUME NEW th \in Threads, PushPermanentTask(th) PROVE TurnsInv'
      BY <1>2 DEF PushPermanentTask
<1>3. ASSUME NEW th \in Threads, ClearPermanentTasks(th) PROVE TurnsInv'
      BY <1>3 DEF ClearPermanentTasks, Defer
<1>4. ASSUME NEW th \in Threads, NEW id \in Ids, RemovePermanentTask(th, id) PROVE TurnsInv'
      BY <1>4 DEF RemovePermanentTask, Defer
<1>5. ASSUME NEW status, PermanentEnds(status) PROVE TurnsInv'
      <2>1. pc = "perm" /\ current \in moved
            BY <1>5 DEF PermanentEnds, ExecInv, StackInv
      <2>2. /\ moved' \in {moved, moved \ {current}} /\ todo' \in {todo, {}} /\ current' = 0
            /\ UNCHANGED <<pc, processingPermanents, permVars>>
            BY <1>5 DEF PermanentEnds
      <2>3. current \notin todo
            BY <2>1
      <2>4. QED
            BY <2>1, <2>2, <2>3
<1>6. CASE LoopMovesPermanents
      BY <1>6 DEF LoopMovesPermanents, LoopGoto
<1>7. CASE LoopRunsPermanent
      BY <1>7 DEF LoopRunsPermanent
<1>8. CASE LoopMergesPermanents
      BY <1>8 DEF LoopMergesPermanents, LoopGoto, ApplyDeferred
<1>9. CASE /\ UNCHANGED <<processingPermanents, moved, todo, current, permanentTasks,
                          permanentTaskIdCounter, deferredTaskModification>>
           /\ pc' = pc \/ (pc # "perm" /\ pc' # "perm")
      BY <1>9
<1> HIDE DEF TypeOK, TypePermanents, PermInv, TurnsInv, Ids
<1>10. ASSUME NEW th \in Threads, Call(th) PROVE  TurnsInv'
      BY <1>10, <1>1, <1>2, <1>3, <1>4, <1>5, <1>6, <1>7, <1>8, <1>9
      DEF Call, PushTask, QueuePromiseTask, PushCleanupTask, PushCleanupQueued,
          PushCleanupActs, Wake, WatchSocket
<1>11. ASSUME NEW th \in Callers \cup {Ctl}, NotifyWake(th) PROVE  TurnsInv'
      BY <1>11, <1>1, <1>2, <1>3, <1>4, <1>5, <1>6, <1>7, <1>8, <1>9
      DEF NotifyWake
<1>12. ASSUME NEW c \in Callers, RemovalConfirmed(c) \/ RemovalTimesOut(c) PROVE  TurnsInv'
      BY <1>12, <1>1, <1>2, <1>3, <1>4, <1>5, <1>6, <1>7, <1>8, <1>9
      DEF RemovalConfirmed, RemovalTimesOut
<1>13. CASE UserCodeEnds
      BY <1>13, <1>1, <1>2, <1>3, <1>4, <1>5, <1>6, <1>7, <1>8, <1>9
      DEF UserCodeEnds, TaskEnds
<1>14. CASE Start \/ Stop \/ StopStep
      BY <1>14, <1>1, <1>2, <1>3, <1>4, <1>5, <1>6, <1>7, <1>8, <1>9
      DEF Stop, StopStep, StopDrains, StopReturns
<1>15. CASE LoopStep \/ LoopWakesByItself
      BY <1>15, <1>1, <1>2, <1>3, <1>4, <1>5, <1>6, <1>7, <1>8, <1>9
      DEF LoopStep, LoopStarts, LoopReads, LoopBeginsCycle, LoopTakesBatch,
          LoopRunsTask, LoopEndsBatch, LoopCatches, LoopDropsPending, LoopWaits,
          LoopWaitEnds, SocketWoken, LoopLeavesSocket, LoopWakesByItself, LoopGoto
<1>16. QED
      BY <1>1, <1>2, <1>3, <1>4, <1>5, <1>6, <1>7, <1>8, <1>9, <1>10, <1>11, <1>12,
         <1>13, <1>14, <1>15 DEF Next

\* What the merge leaves of the tasks is without the deferred erases.
LEMMA ApplyDeferredErases ==
    ASSUME NEW S, NEW i \in DOMAIN deferredTaskModification
    PROVE  /\ deferredTaskModification[i].id \notin ApplyDeferred(S)
           /\ ApplyDeferred(S) \subseteq S
BY DEF ApplyDeferred, Range

LEMMA MergeShrinks == ASSUME NEW S PROVE ApplyDeferred(S) \subseteq S
BY DEF ApplyDeferred

\* A removal goes from waiting, over the merge that erases the task, to done.
LEMMA StepRemoval == TypeOK /\ ExecInv /\ PermInv /\ Next => RemovalInv'
<1> SUFFICES ASSUME TypeOK, ExecInv, PermInv, Next PROVE RemovalInv'
    OBVIOUS
<1> USE DEF TypeOK, TypePermanents, PermInv, RemovalInv, Ids
<1>1. ASSUME NEW th \in Threads, PushPermanentTask(th) PROVE RemovalInv'
      <2> DEFINE n == permanentTaskIdCounter
      <2>1. /\ n \in Nat /\ n' = n + 1 /\ permanentTasks' = permanentTasks \cup {n + 1}
            /\ UNCHANGED <<processingPermanents, moved, removal, gone, deferredTaskModification>>
            BY <1>1 DEF PushPermanentTask
      <2>2. 1..n \subseteq 1..n' /\ n + 1 \notin 1..n
            BY <2>1
      <2> HIDE DEF n
      <2>3. RemovalInv /\ gone \subseteq 1..n
                       /\ \A c \in Callers : removal[c].state # "idle" => removal[c].id \in 1..n
            BY DEF n
      <2>4. gone' \subseteq 1..n' /\ gone' \cap (permanentTasks' \cup moved') = {}
            BY <2>1, <2>2, <2>3
      <2>5. QED
            BY <2>1, <2>2, <2>3, <2>4 DEF n
<1>2. ASSUME NEW th \in Threads, ClearPermanentTasks(th) PROVE RemovalInv'
      <2>1. CASE processingPermanents
            <3>1. UNCHANGED <<processingPermanents, permanentTasks, moved, removal, gone,
                              permanentTaskIdCounter>>
                  BY <1>2, <2>1 DEF ClearPermanentTasks
            <3>2. \A i \in DOMAIN deferredTaskModification :
                     /\ i \in DOMAIN deferredTaskModification'
                     /\ deferredTaskModification'[i] = deferredTaskModification[i]
                  BY <1>2, <2>1 DEF ClearPermanentTasks, Defer
            <3>3. QED
                  BY <3>1, <3>2
      <2>2. CASE ~processingPermanents
            BY <1>2, <2>2 DEF ClearPermanentTasks
      <2>3. QED
            BY <2>1, <2>2
<1>3. ASSUME NEW th \in Threads, NEW id \in Ids, RemovePermanentTask(th, id) PROVE RemovalInv'
      <2>1. id \in 1..permanentTaskIdCounter
            BY <1>3 DEF RemovePermanentTask
      <2>2. CASE processingPermanents
            <3>1. /\ UNCHANGED <<processingPermanents, permanentTasks, moved, gone,
                                 permanentTaskIdCounter>>
                  /\ \/ removal' = removal
                     \/ removal' = [removal EXCEPT ![th] = [state |-> "waiting", id |-> id]]
                  BY <1>3, <2>2 DEF RemovePermanentTask
            <3>2. deferredTaskModification' =
                     Append(deferredTaskModification, [op |-> "erase", id |-> id])
                  BY <1>3, <2>2 DEF RemovePermanentTask, Defer
            <3>3. /\ \A i \in DOMAIN deferredTaskModification :
                        /\ i \in DOMAIN deferredTaskModification'
                        /\ deferredTaskModification'[i] = deferredTaskModification[i]
                  /\ \E i \in DOMAIN deferredTaskModification' :
                        deferredTaskModification'[i].id = id
                  BY <3>2
            <3>4. \A c \in Callers :
                     removal'[c] = removal[c] \/ (removal'[c].state = "waiting" /\ removal'[c].id = id)
                  BY <3>1
            <3>5. QED
                  BY <2>1, <2>2, <3>1, <3>3, <3>4
      <2>3. CASE ~processingPermanents
            <3>1. permanentTasks' = permanentTasks \ {id} /\ gone' = gone \cup {id}
                  BY <1>3, <2>3 DEF RemovePermanentTask
            <3>2. UNCHANGED <<removal, deferredTaskModification, processingPermanents, moved,
                              permanentTaskIdCounter>>
                  BY <1>3, <2>3 DEF RemovePermanentTask
            <3>3. moved = {}
                  BY <2>3 DEF TurnsInv
            <3>4. QED
                  BY <2>1, <2>3, <3>1, <3>2, <3>3
      <2>4. QED
            BY <2>2, <2>3
<1>4. ASSUME NEW c \in Callers, RemovalConfirmed(c) \/ RemovalTimesOut(c) PROVE RemovalInv'
      <2>1. /\ removal' = [removal EXCEPT ![c] = [state |-> "idle", id |-> 0]]
            /\ UNCHANGED <<permVars, cycleVars>>
            /\ gone' = gone \/ (removal[c].state = "done" /\ gone' = gone \cup {removal[c].id})
            BY <1>4 DEF RemovalConfirmed, RemovalTimesOut
      <2>2. \A x \in Callers : removal'[x] = removal[x] \/ removal'[x].state = "idle"
            BY <2>1
      <2>3. removal[c].state = "done" =>
               /\ removal[c].id \notin permanentTasks \cup moved
               /\ removal[c].id \in 1..permanentTaskIdCounter
            OBVIOUS
      <2>4. /\ gone' \subseteq 1..permanentTaskIdCounter
            /\ gone' \cap (permanentTasks \cup moved) = {}
            <3>1. CASE gone' = gone
                  BY <3>1
            <3>2. CASE removal[c].state = "done" /\ gone' = gone \cup {removal[c].id}
                  <4>1. /\ gone \subseteq 1..permanentTaskIdCounter
                        /\ gone \cap (permanentTasks \cup moved) = {}
                        OBVIOUS
                  <4>2. /\ removal[c].id \notin permanentTasks \cup moved
                        /\ removal[c].id \in 1..permanentTaskIdCounter
                        BY <2>3, <3>2
                  <4>3. gone' = gone \cup {removal[c].id}
                        BY <3>2
                  <4> HIDE DEF PermInv, RemovalInv, TypeOK, TypePermanents
                  <4>4. QED
                        BY <4>1, <4>2, <4>3
            <3>3. QED
                  BY <2>1, <3>1, <3>2
      <2>5. UNCHANGED <<permanentTasks, moved, permanentTaskIdCounter, processingPermanents,
                        deferredTaskModification>>
            BY <2>1
      <2>6. QED
            BY <2>2, <2>4, <2>5
<1>5. ASSUME NEW status, PermanentEnds(status) PROVE RemovalInv'
      BY <1>5 DEF PermanentEnds
<1>6. CASE LoopMovesPermanents
      BY <1>6 DEF LoopMovesPermanents, LoopGoto, TurnsInv
<1>7. CASE LoopMergesPermanents
      BY <1>7, ApplyDeferredErases, MergeShrinks DEF LoopMergesPermanents, LoopGoto, Answer
<1>8. CASE UNCHANGED <<processingPermanents, moved, permanentTasks, permanentTaskIdCounter,
                       deferredTaskModification, removal, gone>>
      BY <1>8
<1> HIDE DEF TypeOK, TypePermanents, PermInv, RemovalInv, Ids
<1>9. ASSUME NEW th \in Threads, Call(th) PROVE  RemovalInv'
      BY <1>9, <1>1, <1>2, <1>3, <1>4, <1>5, <1>6, <1>7, <1>8
      DEF Call, PushTask, QueuePromiseTask, PushCleanupTask, PushCleanupQueued,
          PushCleanupActs, Wake, WatchSocket
<1>10. ASSUME NEW th \in Callers \cup {Ctl}, NotifyWake(th) PROVE  RemovalInv'
      BY <1>10, <1>1, <1>2, <1>3, <1>4, <1>5, <1>6, <1>7, <1>8
      DEF NotifyWake
<1>11. CASE UserCodeEnds
      BY <1>11, <1>1, <1>2, <1>3, <1>4, <1>5, <1>6, <1>7, <1>8
      DEF UserCodeEnds, TaskEnds
<1>12. CASE Start \/ Stop \/ StopStep
      BY <1>12, <1>1, <1>2, <1>3, <1>4, <1>5, <1>6, <1>7, <1>8
      DEF Start, Stop, StopStep, StopJoined, StopDrains, StopReturns
<1>13. CASE LoopStep \/ LoopWakesByItself
      BY <1>13, <1>1, <1>2, <1>3, <1>4, <1>5, <1>6, <1>7, <1>8
      DEF LoopStep, LoopStarts, LoopReads, LoopBeginsCycle, LoopRunsPermanent,
          LoopTakesBatch, LoopRunsTask, LoopEndsBatch, LoopCatches, LoopDropsPending,
          LoopWaits, LoopWaitEnds, SocketWoken, LoopLeavesSocket, LoopWakesByItself,
          LoopGoto
<1>14. QED
      BY <1>1, <1>2, <1>3, <1>4, <1>5, <1>6, <1>7, <1>8, <1>9, <1>10, <1>11, <1>12,
         <1>13 DEF Next

LEMMA PermCorrect == Spec => []PermInv
<1>1. TypeOK /\ ExecInv /\ PermInv /\ [Next]_vars => PermInv'
      <2>1. CASE UNCHANGED vars
            BY <2>1 DEF vars, PermInv, TurnsInv, RemovalInv
      <2>2. QED
            BY <2>1, StepTurns, StepRemoval DEF PermInv
<1>2. QED
      BY InitPerm, <1>1, TypeCorrect, ExecCorrect, PTL DEF Spec

\* A permanent task whose removal was confirmed is registered nowhere: not in
\* permanentTasks_, not among those the loop took for its turns, and it does
\* not run.  Deferred erases are applied before they are confirmed, and ids are
\* never given twice.
THEOREM RemovalIsFinal == Spec => []RemovedTasksStayRemoved
<1>1. ASSUME TypeOK, PermInv PROVE RemovedTasksStayRemoved
      <2>1. /\ gone \cap (permanentTasks \cup moved) = {} /\ todo \subseteq moved
            /\ current # 0 => current \in moved
            BY <1>1 DEF PermInv, TurnsInv, RemovalInv
      <2>2. 0 \notin gone
            BY <1>1 DEF TypeOK, TypePermanents, Ids
      <2>3. QED
            BY <2>1, <2>2 DEF RemovedTasksStayRemoved
<1>2. QED
      BY TypeCorrect, PermCorrect, <1>1, PTL
=============================================================================
