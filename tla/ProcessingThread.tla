-------------------------- MODULE ProcessingThread --------------------------
(***************************************************************************)
(* The task loop of src/ssh: one thread that owns a libssh session and     *)
(* runs everything that touches it.  Three kinds of actors take part:      *)
(*                                                                         *)
(*   Loop     the thread start() spawns, executing run();                  *)
(*   Ctl      the thread that calls start() and stop() (the owner of the   *)
(*            session; it drains the queue on its own stack in stop());    *)
(*   Callers  any other thread that pushes tasks.                          *)
(*                                                                         *)
(* A critical section under taskMutex_ is one action.  cleanupMutex_ is    *)
(* held across several steps, so its owner is a variable.  What a task     *)
(* does is abstract: while it runs, its thread may call any operation of   *)
(* the class, and it ends normally or by throwing.  Time is abstract: a    *)
(* wait with a deadline may end at any moment.                             *)
(*                                                                         *)
(* A refused pushTask or pushPermanentTask returns false and changes       *)
(* nothing, so it has no action.  awaitCycle() is QueuePromiseTask with a  *)
(* bounded wait for the future.                                            *)
(***************************************************************************)
EXTENDS Integers, Sequences, FiniteSets

CONSTANTS
    Callers,        \* threads that push tasks
    Ctl, Loop,      \* the thread that starts and stops, and the spawned one
    None,           \* no thread: std::thread::id{}
    Regulars,       \* tasks given to pushTask
    Promises,       \* tasks given to pushPromiseTask
    Cleanups,       \* tasks given to pushCleanupPromiseTask
    BatchLimit,     \* maximumTasksProcessableAtOnce
    MaxPermanents,  \* bound: calls of pushPermanentTask
    MaxDeferred,    \* bound: modifications deferred in one cycle
    MaxStarts       \* bound: calls of start()

ASSUME ThreadsAssumption ==
    /\ Ctl # Loop
    /\ Ctl \notin Callers
    /\ Loop \notin Callers
    /\ None \notin Callers \cup {Ctl, Loop}

ASSUME TasksAssumption ==
    /\ Regulars \cap Promises = {}
    /\ Regulars \cap Cleanups = {}
    /\ Promises \cap Cleanups = {}

ASSUME BoundsAssumption ==
    /\ BatchLimit \in Nat \ {0}
    /\ MaxPermanents \in Nat
    /\ MaxDeferred \in Nat
    /\ MaxStarts \in Nat

Threads == Callers \cup {Ctl, Loop}
Tasks   == Regulars \cup Promises \cup Cleanups
Futures == Promises \cup Cleanups   \* the tasks whose result is a future
Ids     == 1..MaxPermanents

VARIABLES
    \* under taskMutex_, or atomic
    running, intake, wakeRequested, waitingOnSocket, watchedSocket, pipe,
    processingThreadId, tasks,
    permanentTasks, permanentTasksAvailable, permanentTaskIdCounter,
    processingPermanents, deferredTaskModification,
    cleanupMutex,   \* the owner of cleanupMutex_, or None
    \* locals of run()
    pc, moved, todo, current, needs, batch, position, pendingException,
    \* where stop() is, how often start() was called
    ctl, starts,
    \* per thread: the tasks on its stack, a notifyWake it owes, a
    \* removePermanentTask that waits for the loop
    stack, notify, removal,
    \* the future of each promise task; history: pushes in order, runs in
    \* order, permanent tasks whose removal was confirmed
    future, pushed, ran, gone

runVars     == <<running, intake>>
wakeVars    == <<wakeRequested, notify>>
socketVars  == <<waitingOnSocket, watchedSocket, pipe>>
queueVars   == <<tasks, pushed, future>>
permVars    == <<permanentTasks, permanentTasksAvailable, permanentTaskIdCounter,
                 deferredTaskModification>>
cycleVars   == <<processingPermanents, moved, todo, current, needs>>
batchVars   == <<batch, position, pendingException>>
execVars    == <<stack, processingThreadId, cleanupMutex, ran>>
ctlVars     == <<ctl, starts>>
removalVars == <<removal, gone>>
vars == <<runVars, wakeVars, socketVars, queueVars, permVars, cycleVars, batchVars,
          pc, execVars, ctlVars, removalVars>>

Kinds    == {"Regular", "Cleanup", "Refused"}
Statuses == {"Busy", "Poll", "AwaitInput", "Idle"}  \* what a task that stays returns
Queued   == [task : Tasks, kind : Kinds]
Hows     == {"taken", "acting"}     \* taken from the queue, or run by an ActingProcessingThread
Frames   == [task : Tasks, previous : Threads \cup {None}, how : Hows]
PCs      == {"none", "spawned", "check", "clear", "perms", "move", "perm",
             "take", "batch", "wait", "cv", "cvWoken", "socket", "socketDone",
             "socketFailed", "catch", "pending", "ended"}

NoNeeds == [mostUrgent |-> "Idle", awaitsInput |-> FALSE]

Range(s) == {s[i] : i \in DOMAIN s}

(***************************************************************************)
(* User code runs on thread th: it may call into the class.                *)
(***************************************************************************)
Executing(th) == stack[th] # << >> \/ (th = Loop /\ current # 0)

Free(c) == notify[c] = "none" /\ removal[c].state = "idle"

Calling(th) == IF th \in Callers THEN Free(th) ELSE Executing(th)

withinProcessingThread(th) == processingThreadId = th

\* wakeRequested_ is set together with a snapshot of waitingOnSocket_; the
\* notifyWake that follows is a step of its own.  On the loop's own thread,
\* and on the draining one, no thread waits and it does nothing.
RequestWake(th) ==
    /\ wakeRequested' = TRUE
    /\ notify' = IF th \in Callers
                 THEN [notify EXCEPT ![th] =
                          IF waitingOnSocket THEN "socket" ELSE "cv"]
                 ELSE notify

\* The promises of the destroyed tasks that did not finish complete.
Unfinished(gonetasks) ==
    [f \in Futures |-> IF f \in gonetasks /\ future[f] = "pending"
                       THEN "unfinished" ELSE future[f]]

Frame_ForgetsPrevious(t, how) ==
    [task |-> t, previous |-> None, how |-> how]

\* A task on a stack; an acting one restores the previous processing thread.
Frame(t, how) ==
    [task |-> t, previous |-> processingThreadId, how |-> how]

\* The task starts on thread th, above what runs there.
Enters(th, frame) ==
    /\ stack' = [stack EXCEPT ![th] = Append(@, frame)]
    /\ ran' = Append(ran, [task |-> frame.task, how |-> frame.how])

TasksOf(queue) == {q.task : q \in Range(queue)}

-----------------------------------------------------------------------------
Init ==
    /\ running = FALSE /\ intake = "Open"
    /\ wakeRequested = FALSE /\ notify = [th \in Callers \cup {Ctl} |-> "none"]
    /\ waitingOnSocket = FALSE /\ watchedSocket = FALSE /\ pipe = FALSE
    /\ tasks = << >> /\ pushed = << >> /\ future = [f \in Futures |-> "none"]
    /\ permanentTasks = {} /\ permanentTasksAvailable = FALSE
    /\ permanentTaskIdCounter = 0 /\ deferredTaskModification = << >>
    /\ processingPermanents = FALSE
    /\ moved = {} /\ todo = {} /\ current = 0 /\ needs = NoNeeds
    /\ batch = << >> /\ position = 1 /\ pendingException = FALSE
    /\ pc = "none"
    /\ stack = [th \in Threads |-> << >>] /\ ran = << >>
    /\ processingThreadId = None /\ cleanupMutex = None
    /\ ctl = "idle" /\ starts = 0
    /\ removal = [c \in Callers |-> [state |-> "idle", id |-> 0]] /\ gone = {}
-----------------------------------------------------------------------------
(***************************************************************************)
(* start() and stop().  thread_.joinable() is pc # "none".                 *)
(***************************************************************************)
Start ==
    /\ ctl = "idle" /\ pc = "none" /\ starts < MaxStarts
    /\ cleanupMutex = None
    /\ running' = TRUE
    /\ intake' = "Open"
    /\ pc' = "spawned"
    /\ starts' = starts + 1
    /\ UNCHANGED <<wakeVars, socketVars, queueVars, permVars, cycleVars,
                   batchVars, execVars, ctl, removalVars>>

Stop ==
    /\ ctl = "idle"
    /\ cleanupMutex = None
    /\ intake' = "Draining"
    /\ running' = FALSE
    /\ wakeRequested' = TRUE
    /\ notify' = [notify EXCEPT ![Ctl] = IF waitingOnSocket THEN "socket" ELSE "cv"]
    /\ ctl' = "join"
    /\ UNCHANGED <<socketVars, queueVars, permVars, cycleVars, batchVars,
                   pc, execVars, starts, removalVars>>

StopJoined ==
    /\ ctl = "join" /\ notify[Ctl] = "none"
    /\ pc \in {"none", "ended"}
    /\ pc' = "none"
    /\ processingThreadId' = Ctl
    /\ ctl' = "drain"
    /\ UNCHANGED <<runVars, wakeVars, socketVars, queueVars, permVars,
                   cycleVars, batchVars, stack, cleanupMutex, ran,
                   starts, removalVars>>

DrainIndex == 1     \* tasks_.front()

\* One round of the drain: a task leaves the queue under the lock and runs
\* outside of it; a refused one is destroyed instead.
StopDrains ==
    /\ ctl = "drain" /\ stack[Ctl] = << >> /\ tasks # << >>
    /\ tasks' = SubSeq(tasks, 1, DrainIndex - 1)
                   \o SubSeq(tasks, DrainIndex + 1, Len(tasks))
    /\ IF tasks[DrainIndex].kind = "Refused"
       THEN /\ future' = Unfinished({tasks[DrainIndex].task})
            /\ UNCHANGED <<stack, ran>>
       ELSE /\ Enters(Ctl, Frame(tasks[DrainIndex].task, "taken"))
            /\ UNCHANGED future
    /\ UNCHANGED <<runVars, wakeVars, socketVars, pushed, permVars, cycleVars,
                   batchVars, pc, processingThreadId, cleanupMutex,
                   ctlVars, removalVars>>

StopReturns ==
    /\ ctl = "drain" /\ stack[Ctl] = << >> /\ tasks = << >>
    /\ processingThreadId' = None
    /\ intake' = "Closed"
    /\ ctl' = "idle"
    /\ UNCHANGED <<running, wakeVars, socketVars, queueVars, permVars,
                   cycleVars, batchVars, pc, stack, cleanupMutex, ran,
                   starts, removalVars>>
-----------------------------------------------------------------------------
(***************************************************************************)
(* Pushing.                                                                *)
(***************************************************************************)
PushTask(th, t) ==
    /\ Calling(th) /\ t \notin Range(pushed)
    /\ intake = "Open"
    /\ tasks' = Append(tasks, [task |-> t, kind |-> "Regular"])
    /\ pushed' = Append(pushed, t)
    /\ RequestWake(th)
    /\ UNCHANGED <<runVars, socketVars, future, permVars, cycleVars, batchVars,
                   pc, execVars, ctlVars, removalVars>>

DropsPromise_AlsoWhileDraining == intake # "Open"
DropsPromise == intake = "Closed"

RefusesPromise_AlsoWhenClosed == intake # "Open"
RefusesPromise == intake = "Draining"

QueuePromiseTask(th, t) ==
    /\ Calling(th) /\ t \notin Range(pushed)
    /\ pushed' = Append(pushed, t)
    /\ \/ /\ DropsPromise
          /\ future' = [future EXCEPT ![t] = "unfinished"]
          /\ UNCHANGED <<tasks, wakeRequested, notify>>
       \/ /\ RefusesPromise
          /\ tasks' = Append(tasks, [task |-> t, kind |-> "Refused"])
          /\ future' = [future EXCEPT ![t] = "pending"]
          /\ UNCHANGED <<wakeRequested, notify>>
       \/ /\ intake = "Open"
          /\ tasks' = Append(tasks, [task |-> t, kind |-> "Regular"])
          /\ future' = [future EXCEPT ![t] = "pending"]
          /\ RequestWake(th)
    /\ UNCHANGED <<runVars, socketVars, permVars, cycleVars, batchVars,
                   pc, execVars, ctlVars, removalVars>>

\* cleanupMutex_ is recursive: its owner may be running a cleanup task already.
LocksCleanup_Never(th) == TRUE
LocksCleanup(th) == cleanupMutex \in {None, th}

\* A caller keeps cleanupMutex_ until it has notified the loop.
PushCleanupQueued(th, t) ==
    /\ Calling(th) /\ t \notin Range(pushed)
    /\ LocksCleanup(th)
    /\ intake # "Closed"
    /\ tasks' = Append(tasks, [task |-> t, kind |-> "Cleanup"])
    /\ cleanupMutex' = IF th \in Callers THEN th ELSE cleanupMutex
    /\ pushed' = Append(pushed, t)
    /\ future' = [future EXCEPT ![t] = "pending"]
    /\ RequestWake(th)
    /\ UNCHANGED <<runVars, socketVars, permVars, cycleVars, batchVars,
                   pc, stack, processingThreadId, ran, ctlVars,
                   removalVars>>

\* ActingProcessingThread: the caller runs the task at once, holding the mutex.
PushCleanupActs(th, t) ==
    /\ Calling(th) /\ t \notin Range(pushed)
    /\ LocksCleanup(th)
    /\ intake = "Closed"
    /\ cleanupMutex' = th
    /\ Enters(th, Frame(t, "acting"))
    /\ processingThreadId' = th
    /\ pushed' = Append(pushed, t)
    /\ future' = [future EXCEPT ![t] = "pending"]
    /\ UNCHANGED <<runVars, wakeVars, socketVars, tasks, permVars, cycleVars,
                   batchVars, pc, ctlVars, removalVars>>

PushCleanupTask(th, t) == PushCleanupQueued(th, t) \/ PushCleanupActs(th, t)

Wake(th) ==
    /\ Calling(th)
    /\ RequestWake(th)
    /\ UNCHANGED <<runVars, socketVars, queueVars, permVars, cycleVars,
                   batchVars, pc, execVars, ctlVars, removalVars>>

WakesSocket_Never(th) == FALSE
WakesSocket(th) == notify[th] = "socket"

\* wakeUp_.notify_all(), and the wake handle if the snapshot says so.
NotifyWake(th) ==
    /\ notify[th] # "none"
    /\ notify' = [notify EXCEPT ![th] = "none"]
    /\ pc' = IF pc = "cv" THEN "cvWoken" ELSE pc
    /\ pipe' = (pipe \/ WakesSocket(th))
    /\ cleanupMutex' = IF cleanupMutex = th /\ stack[th] = << >>
                       THEN None ELSE cleanupMutex
    /\ UNCHANGED <<runVars, wakeRequested, waitingOnSocket, watchedSocket,
                   queueVars, permVars, cycleVars, batchVars, stack,
                   processingThreadId, ran, ctlVars, removalVars>>

WatchSocket(th) ==
    /\ Calling(th)
    /\ watchedSocket' = TRUE
    /\ UNCHANGED <<runVars, wakeVars, waitingOnSocket, pipe, queueVars,
                   permVars, cycleVars, batchVars, pc, execVars, ctlVars,
                   removalVars>>
-----------------------------------------------------------------------------
(***************************************************************************)
(* Permanent tasks.                                                        *)
(***************************************************************************)
PushPermanentTask(th) ==
    /\ Calling(th) /\ permanentTaskIdCounter < MaxPermanents
    /\ intake = "Open"
    /\ permanentTaskIdCounter' = permanentTaskIdCounter + 1
    /\ permanentTasks' = permanentTasks \cup {permanentTaskIdCounter + 1}
    /\ permanentTasksAvailable' = TRUE
    /\ RequestWake(th)
    /\ UNCHANGED <<runVars, socketVars, queueVars, deferredTaskModification,
                   cycleVars, batchVars, pc, execVars, ctlVars,
                   removalVars>>

Defer(op, id) ==
    /\ Len(deferredTaskModification) < MaxDeferred
    /\ deferredTaskModification' =
          Append(deferredTaskModification, [op |-> op, id |-> id])

ClearPermanentTasks(th) ==
    /\ Calling(th)
    /\ IF processingPermanents
       THEN /\ Defer("clear", 0)
            /\ UNCHANGED <<permanentTasks, permanentTasksAvailable>>
       ELSE /\ permanentTasks' = {}
            /\ permanentTasksAvailable' = FALSE
            /\ UNCHANGED deferredTaskModification
    /\ UNCHANGED <<runVars, wakeVars, socketVars, queueVars,
                   permanentTaskIdCounter, cycleVars, batchVars, pc,
                   execVars, ctlVars, removalVars>>

\* While the loop has the tasks, the erase is deferred to it; its own thread
\* does not wait for that, any other does.
RemovePermanentTask(th, id) ==
    /\ Calling(th) /\ id \in 1..permanentTaskIdCounter
    /\ \/ /\ ~processingPermanents
          /\ permanentTasks' = permanentTasks \ {id}
          /\ permanentTasksAvailable' = (permanentTasks \ {id} # {})
          /\ gone' = gone \cup {id}
          /\ UNCHANGED <<deferredTaskModification, removal>>
       \/ /\ processingPermanents /\ withinProcessingThread(th)
          /\ Defer("erase", id)
          /\ UNCHANGED <<permanentTasks, permanentTasksAvailable, gone, removal>>
       \/ /\ processingPermanents /\ ~withinProcessingThread(th)
          /\ th \in Callers
          /\ Defer("erase", id)
          /\ removal' = [removal EXCEPT ![th] = [state |-> "waiting", id |-> id]]
          /\ UNCHANGED <<permanentTasks, permanentTasksAvailable, gone>>
    /\ UNCHANGED <<runVars, wakeVars, socketVars, queueVars,
                   permanentTaskIdCounter, cycleVars, batchVars, pc,
                   execVars, ctlVars>>

\* The loop applied the erase before the five seconds passed.
RemovalConfirmed(c) ==
    /\ removal[c].state = "done"
    /\ gone' = gone \cup {removal[c].id}
    /\ removal' = [removal EXCEPT ![c] = [state |-> "idle", id |-> 0]]
    /\ UNCHANGED <<runVars, wakeVars, socketVars, queueVars, permVars,
                   cycleVars, batchVars, pc, execVars, ctlVars>>

\* It did not: false is returned, the deferred erase stays.
RemovalTimesOut(c) ==
    /\ removal[c].state = "waiting"
    /\ removal' = [removal EXCEPT ![c] = [state |-> "idle", id |-> 0]]
    /\ UNCHANGED <<runVars, wakeVars, socketVars, queueVars, permVars, cycleVars,
                   batchVars, pc, execVars, ctlVars, gone>>
-----------------------------------------------------------------------------
(***************************************************************************)
(* The end of a task, wherever it runs.                                    *)
(***************************************************************************)
TaskEnds(th, throws) ==
    /\ stack[th] # << >>
    /\ th \in Callers => Free(th)
    /\ LET frame == stack[th][Len(stack[th])]
           rest  == SubSeq(stack[th], 1, Len(stack[th]) - 1)
           inLoop == th = Loop /\ frame.how = "taken"
       IN /\ stack' = [stack EXCEPT ![th] = rest]
          /\ future' =
                IF frame.task \in Futures /\ ~throws
                THEN [future EXCEPT ![frame.task] = "value"]
                ELSE IF inLoop THEN future ELSE Unfinished({frame.task})
          /\ pendingException' =
                (pendingException \/ (throws /\ inLoop /\ pc = "batch"))
          /\ processingThreadId' =
                IF frame.how = "acting" THEN frame.previous ELSE processingThreadId
          /\ cleanupMutex' = IF th \in Callers /\ rest = << >>
                             THEN None ELSE cleanupMutex
    /\ UNCHANGED <<runVars, wakeVars, socketVars, tasks, pushed, permVars,
                   cycleVars, batch, position, pc, ran, ctlVars,
                   removalVars>>
-----------------------------------------------------------------------------
(***************************************************************************)
(* run()                                                                   *)
(***************************************************************************)
LoopGoto(from, to) == pc = from /\ pc' = to

\* Reads of the two atomics that only decide where the loop goes on.
LoopReads ==
    /\ \/ LoopGoto("check", IF running THEN "clear" ELSE "ended")
       \/ LoopGoto("perms", IF permanentTasksAvailable THEN "move" ELSE "take")
    /\ UNCHANGED <<runVars, wakeVars, socketVars, queueVars, permVars, cycleVars,
                   batchVars, execVars, ctlVars, removalVars>>

LoopStarts ==
    /\ LoopGoto("spawned", "check")
    /\ processingThreadId' = Loop
    /\ pendingException' = FALSE
    /\ UNCHANGED <<runVars, wakeVars, socketVars, queueVars, permVars,
                   cycleVars, batch, position, stack, cleanupMutex, ran,
                   ctlVars, removalVars>>

LoopBeginsCycle ==
    /\ LoopGoto("clear", "perms")
    /\ wakeRequested' = FALSE
    /\ needs' = NoNeeds
    /\ UNCHANGED <<runVars, notify, socketVars, queueVars, permVars,
                   processingPermanents, moved, todo,
                   current, batchVars, execVars, ctlVars,
                   removalVars>>

LoopMovesPermanents ==
    /\ LoopGoto("move", "perm")
    /\ moved' = permanentTasks
    /\ todo' = permanentTasks
    /\ permanentTasks' = {}
    /\ processingPermanents' = TRUE
    /\ UNCHANGED <<runVars, wakeVars, socketVars, queueVars,
                   permanentTasksAvailable, permanentTaskIdCounter,
                   deferredTaskModification, current, needs,
                   batchVars, execVars, ctlVars, removalVars>>

\* The order of the turns within a cycle rotates in the code, any order is allowed here.
LoopRunsPermanent ==
    /\ pc = "perm" /\ current = 0 /\ todo # {}
    /\ current' \in todo
    /\ todo' = todo \ {current'}
    /\ UNCHANGED <<runVars, wakeVars, socketVars, queueVars, permVars,
                   processingPermanents, moved, 
                   needs, batchVars, pc, execVars, ctlVars, removalVars>>

Urgency(status) == CASE status = "Busy" -> 1
                     [] status = "Poll" -> 2
                     [] status = "AwaitInput" -> 3
                     [] status = "Idle" -> 4

NeedsAfter(status) ==
    [mostUrgent  |-> IF Urgency(status) < Urgency(needs.mostUrgent)
                     THEN status ELSE needs.mostUrgent,
     awaitsInput |-> needs.awaitsInput \/ status = "AwaitInput"]

\* A task that is done or throws is removed; once running_ is false the
\* others do not run in this cycle.
PermanentEnds(status) ==
    /\ current # 0 /\ stack[Loop] = << >>
    /\ IF status \in Statuses
       THEN needs' = NeedsAfter(status) /\ UNCHANGED moved
       ELSE moved' = moved \ {current} /\ UNCHANGED needs
    /\ pendingException' = (pendingException \/ status = "throws")
    /\ todo' = IF running THEN todo ELSE {}
    /\ current' = 0
    /\ UNCHANGED <<runVars, wakeVars, socketVars, queueVars, permVars, pc,
                   processingPermanents, batch, position, execVars, ctlVars,
                   removalVars>>

ApplyDeferred_Never(S) == S

\* What the deferred modifications leave of a set of permanent tasks.
ApplyDeferred(S) ==
    IF \E m \in Range(deferredTaskModification) : m.op = "clear"
    THEN {} ELSE S \ {m.id : m \in Range(deferredTaskModification)}

Available(S) == ApplyDeferred(S) # {}

Answer_Never(r) == r
Answer(r) == IF r.state = "waiting" THEN [r EXCEPT !.state = "done"] ELSE r

LoopMergesPermanents ==
    /\ LoopGoto("perm", "take") /\ current = 0 /\ todo = {}
    /\ processingPermanents' = FALSE
    /\ permanentTasks' = ApplyDeferred(permanentTasks \cup moved)
    /\ permanentTasksAvailable' = Available(permanentTasks \cup moved)
    /\ deferredTaskModification' = << >>
    /\ removal' = [c \in Callers |-> Answer(removal[c])]
    /\ moved' = {}
    /\ UNCHANGED <<runVars, wakeVars, socketVars, queueVars,
                   permanentTaskIdCounter, todo, current, needs, batchVars,
                   execVars, ctlVars, gone>>

BatchSize_Unlimited(n) == n
BatchSize(n) == IF n < BatchLimit THEN n ELSE BatchLimit

Remaining_OneTooMany(n) == SubSeq(tasks, IF n = 0 THEN 1 ELSE n, Len(tasks))
Remaining(n) == SubSeq(tasks, n + 1, Len(tasks))

LoopTakesBatch ==
    /\ LoopGoto("take", "batch")
    /\ batch' = SubSeq(tasks, 1, BatchSize(Len(tasks)))
    /\ tasks' = Remaining(BatchSize(Len(tasks)))
    /\ position' = 1
    /\ UNCHANGED <<runVars, wakeVars, socketVars, pushed, future, permVars,
                   cycleVars, pendingException, execVars, ctlVars,
                   removalVars>>

Runs_NothingAfterException(kind) == pc = "batch" /\ kind # "Refused"

\* The tasks of a batch that run: in the loop all but the refused ones, after
\* an exception only the cleanup tasks.
Runs(kind) == IF pc = "batch" THEN kind # "Refused" ELSE kind = "Cleanup"

LoopRunsTask ==
    /\ pc \in {"batch", "pending"} /\ stack[Loop] = << >>
    /\ position <= Len(batch)
    /\ position' = position + 1
    /\ IF Runs(batch[position].kind)
       THEN Enters(Loop, Frame(batch[position].task, "taken"))
       ELSE UNCHANGED <<stack, ran>>
    /\ UNCHANGED <<runVars, wakeVars, socketVars, queueVars, permVars,
                   cycleVars, batch, pendingException, pc,
                   processingThreadId, cleanupMutex, ctlVars, removalVars>>

\* The batch is destroyed, then a captured exception is rethrown.
LoopEndsBatch ==
    /\ LoopGoto("batch", IF pendingException THEN "catch" ELSE "wait")
    /\ stack[Loop] = << >> /\ position > Len(batch)
    /\ future' = Unfinished(TasksOf(batch))
    /\ batch' = << >>
    /\ position' = 1
    /\ UNCHANGED <<runVars, wakeVars, socketVars, tasks, pushed, permVars,
                   cycleVars, pendingException, execVars, ctlVars,
                   removalVars>>

LoopCatches ==
    /\ pc = "catch" /\ cleanupMutex = None
    /\ running' = FALSE
    /\ IF intake = "Draining"
       THEN /\ pc' = "ended"
            /\ UNCHANGED <<intake, batch, tasks, cleanupMutex>>
       ELSE /\ pc' = "pending"
            /\ intake' = "Closed"
            /\ batch' = tasks
            /\ tasks' = << >>
            /\ cleanupMutex' = Loop
    /\ UNCHANGED <<wakeVars, socketVars, pushed, future, permVars, cycleVars,
                   position, pendingException, stack,
                   processingThreadId, ran, ctlVars, removalVars>>

LoopDropsPending ==
    /\ LoopGoto("pending", "ended")
    /\ stack[Loop] = << >> /\ position > Len(batch)
    /\ future' = Unfinished(TasksOf(batch))
    /\ batch' = << >>
    /\ position' = 1
    /\ cleanupMutex' = None
    /\ UNCHANGED <<runVars, wakeVars, socketVars, tasks, pushed, permVars,
                   cycleVars, pendingException, stack,
                   processingThreadId, ran, ctlVars, removalVars>>
-----------------------------------------------------------------------------
(***************************************************************************)
(* waitForWork().  watchedSocket_() may answer an invalid socket at any    *)
(* time.                                                                   *)
(***************************************************************************)
WorkArrived_IgnoresStop == wakeRequested \/ tasks # << >>
WorkArrived_IgnoresWake == ~running \/ tasks # << >>
WorkArrived == ~running \/ wakeRequested \/ tasks # << >>

CvTimed     == needs.mostUrgent = "Poll" \/ needs.awaitsInput
SocketTimed == needs.mostUrgent = "Poll"

LoopWaits ==
    /\ \/ /\ needs.mostUrgent = "Busy" \/ WorkArrived
          /\ LoopGoto("wait", "check")
          /\ UNCHANGED waitingOnSocket
       \/ /\ needs.mostUrgent # "Busy" /\ ~WorkArrived
          /\ needs.awaitsInput /\ watchedSocket
          /\ LoopGoto("wait", "socket")
          /\ waitingOnSocket' = TRUE
       \/ /\ needs.mostUrgent # "Busy" /\ ~WorkArrived
          /\ LoopGoto("wait", "cv")
          /\ UNCHANGED waitingOnSocket
    /\ UNCHANGED <<runVars, wakeVars, watchedSocket, pipe, queueVars, permVars,
                   cycleVars, batchVars, execVars, ctlVars, removalVars>>

\* The deadline passes, or a notified wait looks at its predicate again.
LoopWaitEnds ==
    /\ \/ CvTimed /\ LoopGoto("cv", "check")
       \/ SocketTimed /\ LoopGoto("socket", "socketDone")
       \/ LoopGoto("cvWoken", IF WorkArrived THEN "check" ELSE "cv")
    /\ UNCHANGED <<runVars, wakeVars, socketVars, queueVars, permVars, cycleVars,
                   batchVars, execVars, ctlVars, removalVars>>

\* A spurious wake-up, socket data, a signal, a failing poll().
LoopWakesByItself ==
    /\ \/ LoopGoto("cv", "cvWoken")
       \/ LoopGoto("socket", "socketDone")
       \/ LoopGoto("socket", "socketFailed")
    /\ UNCHANGED <<runVars, wakeVars, socketVars, queueVars, permVars, cycleVars,
                   batchVars, execVars, ctlVars, removalVars>>

\* poll() saw the wake handle and drained it.
SocketWoken ==
    /\ LoopGoto("socket", "socketDone")
    /\ pipe /\ pipe' = FALSE
    /\ UNCHANGED <<runVars, wakeVars, waitingOnSocket, watchedSocket,
                   queueVars, permVars, cycleVars, batchVars, execVars,
                   ctlVars, removalVars>>

\* After a failing poll() the wait goes on, with a deadline, on the condition.
LoopLeavesSocket ==
    /\ \/ LoopGoto("socketDone", "check")
       \/ LoopGoto("socketFailed", IF WorkArrived THEN "check" ELSE "cv")
    /\ waitingOnSocket' = FALSE
    /\ UNCHANGED <<runVars, wakeVars, watchedSocket, pipe, queueVars, permVars,
                   cycleVars, batchVars, execVars, ctlVars, removalVars>>
-----------------------------------------------------------------------------
\* Steps run() takes by itself, in no case waiting for ever.
LoopStep ==
    \/ LoopStarts \/ LoopReads \/ LoopBeginsCycle \/ LoopMovesPermanents
    \/ LoopRunsPermanent \/ LoopMergesPermanents \/ LoopTakesBatch \/ LoopRunsTask
    \/ LoopEndsBatch \/ LoopCatches \/ LoopDropsPending \/ LoopWaits
    \/ LoopWaitEnds \/ SocketWoken \/ LoopLeavesSocket

StopStep == StopJoined \/ StopDrains \/ StopReturns

UserCodeEnds ==
    \/ \E th \in Threads, throws \in BOOLEAN : TaskEnds(th, throws)
    \/ \E status \in Statuses \cup {"Done", "throws"} : PermanentEnds(status)

Call(th) ==
    \/ \E t \in Regulars : PushTask(th, t)
    \/ \E t \in Promises : QueuePromiseTask(th, t)
    \/ \E t \in Cleanups : PushCleanupTask(th, t)
    \/ Wake(th)
    \/ WatchSocket(th)
    \/ PushPermanentTask(th)
    \/ ClearPermanentTasks(th)
    \/ \E id \in Ids : RemovePermanentTask(th, id)

Next ==
    \/ Start \/ Stop \/ StopStep
    \/ \E th \in Threads : Call(th)
    \/ \E th \in Callers \cup {Ctl} : NotifyWake(th)
    \/ \E c \in Callers : RemovalConfirmed(c) \/ RemovalTimesOut(c)
    \/ UserCodeEnds
    \/ LoopStep \/ LoopWakesByItself

Spec == Init /\ [][Next]_vars

\* Every thread that has something to do gets the processor, every task ends
\* (it makes finitely many calls), a stop() that began goes on.  Nobody has to
\* push, start or stop, and no wait has to end without a cause.
Fairness ==
    /\ WF_vars(LoopStep)
    /\ WF_vars(StopStep)
    /\ \A th \in Threads : SF_vars(\E throws \in BOOLEAN : TaskEnds(th, throws))
    /\ WF_vars(\E status \in Statuses \cup {"Done", "throws"} : PermanentEnds(status))
    /\ \A th \in Callers \cup {Ctl} : WF_vars(NotifyWake(th))

FairSpec == Spec /\ Fairness
-----------------------------------------------------------------------------
TypeFlags ==
    {running, wakeRequested, waitingOnSocket, watchedSocket, pipe,
     permanentTasksAvailable, processingPermanents, pendingException} \subseteq BOOLEAN

TypeQueue ==
    /\ intake \in {"Open", "Draining", "Closed"}
    /\ tasks \in Seq(Queued) /\ pushed \in Seq(Tasks)
    /\ ran \in Seq([task : Tasks, how : Hows])
    /\ future \in [Futures -> {"none", "pending", "value", "unfinished"}]

TypeBatch ==
    /\ batch \in Seq(Queued) /\ position \in 1..(Len(batch) + 1)
    /\ pc = "batch" => Len(batch) <= BatchLimit
    /\ pc \notin {"batch", "pending"} => batch = << >>

TypePermanents ==
    /\ permanentTasks \subseteq Ids /\ permanentTaskIdCounter \in 0..MaxPermanents
    /\ deferredTaskModification \in Seq([op : {"clear", "erase"}, id : Ids \cup {0}])
    /\ moved \subseteq Ids /\ todo \subseteq Ids /\ current \in Ids \cup {0}
    /\ needs \in [mostUrgent : Statuses, awaitsInput : BOOLEAN]
    /\ removal \in [Callers -> [state : {"idle", "waiting", "done"}, id : Ids \cup {0}]]
    /\ \A c \in Callers : removal[c].state # "idle" => removal[c].id \in Ids
    /\ gone \subseteq Ids

TypeThreads ==
    /\ pc \in PCs /\ ctl \in {"idle", "join", "drain"} /\ starts \in 0..MaxStarts
    /\ notify \in [Callers \cup {Ctl} -> {"none", "cv", "socket"}]
    /\ stack \in [Threads -> Seq(Frames)]
    /\ processingThreadId \in Threads \cup {None}
    /\ cleanupMutex \in Threads \cup {None}

\* The values the variables take: a cycle never runs more than its limit, and
\* the loop holds tasks only where it runs them.
TypeOK == TypeFlags /\ TypeQueue /\ TypeBatch /\ TypePermanents /\ TypeThreads

\* Tasks run one at a time, whichever of the loop, a draining stop() and the
\* callers of pushCleanupTask runs them ("the drain must not run alongside
\* them", "cleanup tasks run one at a time and never alongside a restarted
\* thread"): libssh is never entered by two threads.
OneExecutor ==
    \A a, b \in Threads : Executing(a) /\ Executing(b) => a = b

\* A task always sees itself within the processing thread, so the calls it
\* makes never wait for the thread it runs on.
TasksRunWithinProcessingThread ==
    \A th \in Threads : Executing(th) => withinProcessingThread(th)

NotYetRun == TasksOf(tasks) \cup TasksOf(SubSeq(batch, position, Len(batch)))

\* A cleanup task is never given up, whatever the thread goes through: it has
\* run or it is still queued (the final task of a strand frees its resources).
CleanupTasksNotLost ==
    \A t \in Cleanups \cap Range(pushed) : t \in TasksOf(ran) \cup NotYetRun

\* No task runs twice, not even across an exception and the drain after it.
TasksRunOnce ==
    \A i, j \in DOMAIN ran : ran[i].task = ran[j].task => i = j

\* processing_thread.cpp:475: "Cleanup tasks pushed from now on run on their
\* caller, after the queued ones ran here."
ActingTasksRunAfterQueuedOnes ==
    \A i, j \in DOMAIN pushed : \A l \in DOMAIN ran :
        /\ i < j /\ {pushed[i], pushed[j]} \subseteq Cleanups
        /\ pushed[j] = ran[l].task /\ ran[l].how = "acting"
        => \E k \in 1..l : ran[k].task = pushed[i]

\* The tasks that may still run or are running.
InFlight ==
    {q.task : q \in {e \in Range(tasks) : e.kind # "Refused"}}
        \cup (IF pc = "pending" THEN {} ELSE TasksOf(SubSeq(batch, position, Len(batch))))
        \cup UNION {{f.task : f \in Range(stack[th])} : th \in Threads}

\* A future of pushPromiseTask is a barrier, also when the push is refused
\* while stop() drains: once it is ready, no task pushed before it runs or will
\* run.  Cleanup tasks are excepted: a caller may run one whenever it gets to it.
PromiseIsBarrier ==
    \A i, j \in DOMAIN pushed :
        /\ i < j /\ pushed[j] \in Promises /\ pushed[i] \notin Cleanups
        /\ future[pushed[j]] \in {"value", "unfinished"}
        => pushed[i] \notin InFlight

\* Once intake is closed and the loop is gone nothing is left behind: the
\* queue is empty and every future is ready, but for a cleanup task that its
\* caller runs right now.
NothingStranded ==
    intake = "Closed" /\ pc \in {"none", "ended"} =>
        /\ tasks = << >> /\ batch = << >>
        /\ \A f \in Futures : future[f] = "pending" =>
              \E c \in Callers : \E i \in DOMAIN stack[c] : stack[c][i].task = f

\* Once removePermanentTask returned on another thread than the loop's (and
\* did not time out), the task does not run and never will again.
RemovedTasksStayRemoved ==
    gone \cap (permanentTasks \cup moved \cup todo \cup {current}) = {}

\* stop() returns: no wake-up is lost and the drain ends.
StopEnds == ctl # "idle" ~> ctl = "idle"

\* Every future becomes ready once the thread runs, stops or has stopped.
FuturesComplete ==
    \A f \in Futures :
        (future[f] = "pending" /\ (running \/ intake # "Open"))
            ~> future[f] \in {"value", "unfinished"}

\* After a wake every registered permanent task gets a turn, unless it is
\* removed or the thread stops.
WakeReachesPermanents ==
    \A id \in Ids :
        (wakeRequested /\ running /\ id \in permanentTasks \cup moved)
            ~> (current = id \/ id \notin permanentTasks \cup moved \/ ~running)

\* A thread that removes a permanent task gets its answer without needing the
\* five second timeout, provided the permanent tasks of the cycle end.
RemovalAnswered ==
    \A c \in Callers : removal[c].state = "waiting" ~> removal[c].state # "waiting"
=============================================================================
