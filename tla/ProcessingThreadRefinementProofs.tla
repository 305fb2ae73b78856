----------------- MODULE ProcessingThreadRefinementProofs -----------------
(***************************************************************************)
(* ProcessingThread implements TaskThread: every step of a thread is one   *)
(* step of the abstract queue, or none.                                    *)
(***************************************************************************)
EXTENDS ProcessingThreadRefinement, ProcessingThreadQueueProofs

ST == INSTANCE SequenceTheorems

USE DEF runVars, wakeVars, socketVars, queueVars, permVars, cycleVars,
        batchVars, execVars, ctlVars, removalVars

\* What the mapping rests on.
MapInv == TypeOK /\ ExecInv /\ QueueInv /\ PermInv

\* The stack of the one thread that has one, for any stacks s.
Names(t) == [i \in DOMAIN t |-> t[i].task]
BusyIn(s) == {th \in Threads : s[th] # << >>}
NestedIn(s) == IF BusyIn(s) = {} THEN << >> ELSE Names(s[CHOOSE th \in BusyIn(s) : TRUE])
-----------------------------------------------------------------------------
(***************************************************************************)
(* Sequences.                                                              *)
(***************************************************************************)
LEMMA PushedBack ==
    ASSUME NEW S, NEW a \in Seq(S), NEW b \in Seq(S), NEW e \in S
    PROVE  a \o Append(b, e) = Append(a \o b, e)
OBVIOUS

LEMMA Rejoined ==
    ASSUME NEW S, NEW a \in Seq(S), NEW n \in 0..Len(a)
    PROVE  SubSeq(a, 1, n) \o SubSeq(a, n + 1, Len(a)) = a
<1>1. Len(a) \in Nat /\ 1 \in 1..(Len(a) + 1) /\ n \in (1 - 1)..Len(a) /\ Len(a) \in n..Len(a)
      OBVIOUS
<1>2. SubSeq(a, 1, n) \o SubSeq(a, n + 1, Len(a)) = SubSeq(a, 1, Len(a))
      BY <1>1, ST!ConcatAdjacentSubSeq
<1>3. QED
      BY <1>2, ST!SubSeqFull

\* The front of the rest of a batch.
LEMMA RestFront ==
    ASSUME NEW S, NEW a \in Seq(S), NEW b \in Seq(S), NEW n \in 1..Len(a)
    PROVE  /\ SubSeq(a, n, Len(a)) \o b # << >>
           /\ Head(SubSeq(a, n, Len(a)) \o b) = a[n]
           /\ Tail(SubSeq(a, n, Len(a)) \o b) = SubSeq(a, n + 1, Len(a)) \o b
<1> DEFINE r == SubSeq(a, n, Len(a))
<1>1. r \in Seq(S) /\ r # << >> /\ Head(r) = a[n] /\ Tail(r) = SubSeq(a, n + 1, Len(a))
      OBVIOUS
<1> HIDE DEF r
<1>2. Tail(r \o b) = Tail(r) \o b /\ Head(r \o b) = Head(r) /\ r \o b # << >>
      BY <1>1
<1>3. QED
      BY <1>1, <1>2 DEF r

LEMMA RestEmpty ==
    ASSUME NEW S, NEW a \in Seq(S), NEW b \in Seq(S), NEW n \in Nat, n > Len(a)
    PROVE  SubSeq(a, n, Len(a)) \o b = b
<1>1. SubSeq(a, n, Len(a)) = << >>
      BY ST!SubSeqEmpty
<1>2. QED
      BY <1>1

LEMMA RangeAppend ==
    ASSUME NEW S, NEW s \in Seq(S), NEW e \in S
    PROVE  Range(Append(s, e)) = Range(s) \cup {e}
BY AppendFacts DEF Range

\* The names on a stack.
LEMMA NamesType ==
    ASSUME NEW t \in Seq(Frames)
    PROVE  Names(t) \in Seq(Tasks) /\ Len(Names(t)) = Len(t) /\ (Names(t) = << >> <=> t = << >>)
<1>1. \A i \in 1..Len(t) : t[i] \in Frames
      OBVIOUS
<1>2. \A i \in 1..Len(t) : t[i].task \in Tasks
      BY <1>1 DEF Frames
<1>3. DOMAIN t = 1..Len(t) /\ Len(t) \in Nat
      OBVIOUS
<1>4. Names(t) = [i \in 1..Len(t) |-> t[i].task]
      BY <1>3 DEF Names
<1>5. QED
      BY <1>2, <1>3, <1>4

LEMMA NamesOfNone == Names(<< >>) = << >>
<1>1. << >> \in Seq(Frames)
      OBVIOUS
<1>2. QED
      BY <1>1, NamesType

LEMMA NamesAppend ==
    ASSUME NEW t \in Seq(Frames), NEW f \in Frames
    PROVE  Names(Append(t, f)) = Append(Names(t), f.task)
<1> DEFINE u == Append(t, f)
<1>1. f.task \in Tasks
      BY DEF Frames
<1>2. u \in Seq(Frames) /\ Len(u) = Len(t) + 1 /\ (\A i \in 1..Len(t) : u[i] = t[i])
      /\ u[Len(t) + 1] = f /\ DOMAIN u = 1..(Len(t) + 1) /\ DOMAIN t = 1..Len(t) /\ Len(t) \in Nat
      OBVIOUS
<1>3. Names(u) \in Seq(Tasks) /\ Len(Names(u)) = Len(t) + 1
      BY <1>2, NamesType
<1> HIDE DEF u
<1>4. /\ \A i \in 1..(Len(t) + 1) : Names(u)[i] = u[i].task
      /\ \A i \in 1..Len(t) : Names(t)[i] = t[i].task
      BY <1>2 DEF Names
<1> DEFINE v == Append(Names(t), f.task)
<1>5. v \in Seq(Tasks) /\ Len(v) = Len(t) + 1 /\ v[Len(t) + 1] = f.task
      /\ \A i \in 1..Len(t) : v[i] = Names(t)[i]
      BY <1>1, NamesType
<1> HIDE DEF v
<1>6. \A i \in 1..(Len(t) + 1) : Names(u)[i] = v[i]
      <2>1. TAKE i \in 1..(Len(t) + 1)
      <2>2. CASE i = Len(t) + 1
            BY <1>2, <1>4, <1>5, <2>2
      <2>3. CASE i \in 1..Len(t)
            BY <1>2, <1>4, <1>5, <2>3
      <2>4. QED
            BY <1>2, <2>2, <2>3
<1>7. Names(u) = v
      BY <1>3, <1>5, <1>6, ST!SeqEqual
<1>8. QED
      BY <1>7 DEF u, v

LEMMA NamesFront ==
    ASSUME NEW t \in Seq(Frames), t # << >>
    PROVE  Names(SubSeq(t, 1, Len(t) - 1)) = SubSeq(Names(t), 1, Len(Names(t)) - 1)
<1> DEFINE u == SubSeq(t, 1, Len(t) - 1)
<1>1. /\ Len(t) \in Nat \ {0} /\ u \in Seq(Frames) /\ Len(u) = Len(t) - 1
      /\ \A i \in 1..(Len(t) - 1) : u[i] = t[i]
      BY FrontOfSeq
<1> HIDE DEF u
<1>2. Names(u) \in Seq(Tasks) /\ Len(Names(u)) = Len(t) - 1
      BY <1>1, NamesType
<1>3. /\ \A i \in 1..(Len(t) - 1) : Names(u)[i] = u[i].task
      /\ \A i \in 1..Len(t) : Names(t)[i] = t[i].task
      BY <1>1 DEF Names
<1> DEFINE n == Names(t)
<1>4. n \in Seq(Tasks) /\ Len(n) = Len(t) /\ n # << >>
      BY NamesType
<1> HIDE DEF n
<1> DEFINE v == SubSeq(n, 1, Len(n) - 1)
<1>5. v \in Seq(Tasks) /\ Len(v) = Len(t) - 1 /\ \A i \in 1..(Len(t) - 1) : v[i] = n[i]
      BY <1>4, FrontOfSeq
<1> HIDE DEF v
<1>6. \A i \in 1..(Len(t) - 1) : Names(u)[i] = v[i]
      BY <1>1, <1>3, <1>5 DEF n
<1>7. Names(u) = v
      BY <1>2, <1>5, <1>6, ST!SeqEqual
<1>8. QED
      BY <1>7 DEF u, v, n

LEMMA NestedOne ==
    ASSUME NEW s, NEW th \in Threads, s[th] # << >>,
           \A x \in Threads : s[x] # << >> => x = th
    PROVE  NestedIn(s) = Names(s[th])
<1>1. BusyIn(s) = {th}
      BY DEF BusyIn
<1>2. (CHOOSE x \in BusyIn(s) : TRUE) = th
      BY <1>1
<1>3. QED
      BY <1>1, <1>2 DEF NestedIn

LEMMA NestedNone ==
    ASSUME NEW s, \A x \in Threads : s[x] = << >>
    PROVE  NestedIn(s) = << >>
BY DEF NestedIn, BusyIn

LEMMA NestedIs == Nested = NestedIn(stack) /\ Nested' = NestedIn(stack')
BY DEF Nested, NestedIn, Names, Busy, BusyIn
-----------------------------------------------------------------------------
(***************************************************************************)
(* The abstract state.                                                     *)
(***************************************************************************)
\* Nobody else runs tasks.
Alone(th) == \A x \in Threads : stack[x] # << >> => x = th

LEMMA OneBusy ==
    ASSUME TypeOK, ExecInv, NEW th \in Threads, stack[th] # << >>
    PROVE  Alone(th)
BY ExecutorIsProcessing DEF TasksRunWithinProcessingThread, Executing, withinProcessingThread, Alone

LEMMA NestedNow ==
    ASSUME TypeOK, ExecInv
    PROVE  /\ \A th \in Threads : stack[th] # << >> => Nested = Names(stack[th])
           /\ (\A th \in Threads : stack[th] = << >>) => Nested = << >>
BY OneBusy, NestedOne, NestedNone, NestedIs DEF Alone

LEMMA TurnsSame ==
    ASSUME UNCHANGED <<processingPermanents, todo, current, permanentTaskIdCounter,
                       permanentTasks, moved, deferredTaskModification>>
    PROVE  UNCHANGED Contract!turnVars
BY DEF Contract!turnVars, Erasing

LEMMA TasksSame ==
    ASSUME UNCHANGED <<tasks, batch, position, stack>>, intake' = "Closed" <=> intake = "Closed"
    PROVE  UNCHANGED Contract!taskVars
BY DEF Contract!taskVars, Waiting, Nested, Busy

LEMMA WaitingType ==
    ASSUME TypeOK
    PROVE  /\ Waiting \in Seq(Queued)
           /\ batch = << >> => Waiting = tasks
<1>1. tasks \in Seq(Queued) /\ batch \in Seq(Queued) /\ position \in 1..(Len(batch) + 1) /\ position \in Nat
      BY TaskTypes
<1>2. SubSeq(batch, position, Len(batch)) \in Seq(Queued)
      BY <1>1
<1>3. batch = << >> => position > Len(batch)
      BY <1>1
<1>4. QED
      BY <1>1, <1>2, <1>3, RestEmpty DEF Waiting
-----------------------------------------------------------------------------
(***************************************************************************)
(* Tasks.                                                                  *)
(***************************************************************************)
\* A task is queued.
LEMMA MapsPush ==
    ASSUME MapInv, NEW t \in Tasks, NEW kind \in Kinds, intake # "Closed",
           tasks' = Append(tasks, [task |-> t, kind |-> kind]),
           UNCHANGED <<batch, position, stack, intake>>, UNCHANGED Contract!turnVars
    PROVE  Contract!Push(t, kind)
<1> DEFINE e == [task |-> t, kind |-> kind]
<1>1. e \in Queued
      BY DEF Queued
<1>2. tasks' = Append(tasks, e)
      OBVIOUS
<1> HIDE DEF e
<1>3. SubSeq(batch, position, Len(batch)) \in Seq(Queued) /\ tasks \in Seq(Queued)
      BY TaskTypes DEF MapInv
<1>4. Waiting' = Append(Waiting, e)
      <2> DEFINE r == SubSeq(batch, position, Len(batch))
      <2>1. Waiting = r \o tasks /\ Waiting' = r \o Append(tasks, e)
            BY <1>2 DEF Waiting
      <2>2. r \in Seq(Queued)
            BY <1>3
      <2> HIDE DEF r
      <2>3. QED
            BY <1>1, <1>3, <2>1, <2>2, PushedBack
<1>5. UNCHANGED Nested
      BY DEF Nested, Busy
<1>6. QED
      BY <1>4, <1>5 DEF Contract!Push, e

LEMMA MapsCalls ==
    ASSUME MapInv, NEW th \in Threads
    PROVE  /\ \A t \in Regulars : PushTask(th, t) => Contract!Push(t, "Regular")
           /\ \A t \in Promises : QueuePromiseTask(th, t) =>
                 \/ Contract!Push(t, "Refused") \/ Contract!Push(t, "Regular")
                 \/ UNCHANGED Contract!threadVars
           /\ \A t \in Cleanups : PushCleanupQueued(th, t) => Contract!Push(t, "Cleanup")
<1>1. ASSUME NEW t \in Regulars, PushTask(th, t) PROVE Contract!Push(t, "Regular")
      BY <1>1, MapsPush, TurnsSame DEF PushTask, Tasks, Kinds
<1>2. ASSUME NEW t \in Cleanups, PushCleanupQueued(th, t) PROVE Contract!Push(t, "Cleanup")
      BY <1>2, MapsPush, TurnsSame DEF PushCleanupQueued, Tasks, Kinds
<1>3. ASSUME NEW t \in Promises, QueuePromiseTask(th, t)
      PROVE  \/ Contract!Push(t, "Refused") \/ Contract!Push(t, "Regular")
             \/ UNCHANGED Contract!threadVars
      <2>1. UNCHANGED Contract!turnVars /\ UNCHANGED <<batch, position, stack, intake>> /\ t \in Tasks
            BY <1>3, TurnsSame DEF QueuePromiseTask, Tasks
      <2>2. CASE intake = "Closed"
            <3>1. UNCHANGED tasks
                  BY <1>3, <2>2 DEF QueuePromiseTask, RefusesPromise
            <3>2. UNCHANGED Contract!taskVars
                  BY <2>1, <3>1, TasksSame
            <3>3. QED
                  BY <2>1, <3>2 DEF Contract!threadVars
      <2>3. CASE intake # "Closed"
            <3>1. \/ tasks' = Append(tasks, [task |-> t, kind |-> "Refused"])
                  \/ tasks' = Append(tasks, [task |-> t, kind |-> "Regular"])
                  BY <1>3, <2>3 DEF QueuePromiseTask, DropsPromise
            <3>2. QED
                  BY <2>1, <2>3, <3>1, MapsPush DEF Kinds
      <2>4. QED
            BY <2>2, <2>3
<1>4. QED
      BY <1>1, <1>2, <1>3

\* A cleanup task starts on its caller, or nested in the handler.
LEMMA MapsActs ==
    ASSUME MapInv, NEW th \in Threads, NEW t \in Cleanups, PushCleanupActs(th, t)
    PROVE  Contract!Act(t)
<1> USE DEF MapInv
<1>1. th \in Callers \/ (th = Loop /\ pc = "pending" /\ stack[Loop] # << >>)
      BY ActFacts
<1>2. intake = "Closed" /\ cleanupMutex \in {None, th}
      BY DEF PushCleanupActs, LocksCleanup
<1>3. Alone(th)
      <2>1. CASE th = Loop
            BY <1>1, <2>1, OneBusy, ThreadsAssumption
      <2>2. CASE th \in Callers
            BY <1>2, <2>2, ThreadsAssumption DEF Alone, Threads, ExecInv, IntakeInv, StackInv
      <2>3. QED
            BY <1>1, <2>1, <2>2
<1>4. ~processingPermanents
      BY <1>2 DEF ExecInv, IntakeInv, PermInv, TurnsInv
<1>5. stack[th] = << >> => Waiting = << >>
      <2>1. SUFFICES ASSUME stack[th] = << >> PROVE Waiting = << >>
            OBVIOUS
      <2>2. th \in Callers /\ pc # "pending"
            BY <1>1, <1>2, <2>1, ThreadsAssumption DEF ExecInv, StackInv
      <2>3. batch = << >> /\ tasks = << >>
            BY <1>2, <2>2 DEF ExecInv, IntakeInv, TypeOK, TypeBatch, QueueInv, ClosedInv
      <2>4. QED
            BY <2>3, WaitingType
<1> DEFINE f == Frame(t, "acting")
<1>6. f \in Frames /\ f.task = t
      BY DEF Frame, Frames, Hows, Tasks, TypeOK, TypeThreads
<1>7. stack' = [stack EXCEPT ![th] = Append(stack[th], f)]
      BY DEF PushCleanupActs, Enters
<1> HIDE DEF f
<1>8. stack \in [Threads -> Seq(Frames)] /\ stack[th] \in Seq(Frames)
      BY TaskTypes
<1>9. /\ stack'[th] = Append(stack[th], f) /\ stack'[th] # << >>
      /\ \A x \in Threads : stack'[x] # << >> => x = th
      BY <1>3, <1>6, <1>7, <1>8 DEF Alone
<1>10. Nested' = Append(Names(stack[th]), t)
      <2>1. Nested' = Names(stack'[th])
            BY <1>9, NestedOne, NestedIs
      <2>2. QED
            BY <1>6, <1>8, <1>9, <2>1, NamesAppend
<1>11. Nested = Names(stack[th])
      <2>1. CASE stack[th] = << >>
            <3>1. Nested = << >>
                  BY <1>3, <2>1, NestedNow DEF Alone
            <3>2. QED
                  BY <2>1, <3>1, NamesOfNone
      <2>2. CASE stack[th] # << >>
            BY <2>2, NestedNow
      <2>3. QED
            BY <2>1, <2>2
<1>12. Nested = << >> => stack[th] = << >>
      BY <1>8, <1>11, NamesType
<1>13. UNCHANGED Contract!turnVars
      BY TurnsSame DEF PushCleanupActs
<1>14. UNCHANGED <<Waiting, intake>>
      BY DEF PushCleanupActs, Waiting
<1>15. QED
      BY <1>2, <1>4, <1>5, <1>10, <1>11, <1>12, <1>13, <1>14 DEF Contract!Act

LEMMA MapsEnd ==
    ASSUME MapInv, NEW th \in Threads, NEW throws \in BOOLEAN, TaskEnds(th, throws)
    PROVE  Contract!End
<1> USE DEF MapInv
<1>1. /\ stack[th] # << >> /\ stack \in [Threads -> Seq(Frames)] /\ stack[th] \in Seq(Frames)
      BY TaskTypes DEF TaskEnds
<1>2. stack' = [stack EXCEPT ![th] = SubSeq(stack[th], 1, Len(stack[th]) - 1)]
      BY DEF TaskEnds
<1>3. Alone(th)
      BY <1>1, OneBusy
<1>4. /\ stack'[th] = SubSeq(stack[th], 1, Len(stack[th]) - 1)
      /\ \A x \in Threads : stack'[x] # << >> => x = th
      BY <1>1, <1>2, <1>3 DEF Alone
<1>5. Nested = Names(stack[th])
      BY <1>1, NestedNow
<1>6. Nested' = Names(stack'[th])
      <2>1. CASE stack'[th] = << >>
            <3>1. Nested' = << >>
                  BY <1>4, <2>1, NestedNone, NestedIs
            <3>2. QED
                  BY <2>1, <3>1, NamesOfNone
      <2>2. CASE stack'[th] # << >>
            BY <1>4, <2>2, NestedOne, NestedIs
      <2>3. QED
            BY <2>1, <2>2
<1>7. Nested' = SubSeq(Nested, 1, Len(Nested) - 1)
      BY <1>1, <1>4, <1>5, <1>6, NamesFront
<1>8. Nested # << >>
      BY <1>1, <1>5, NamesType
<1>9. UNCHANGED Contract!turnVars
      BY TurnsSame DEF TaskEnds
<1>10. UNCHANGED <<Waiting, intake>>
      BY DEF TaskEnds, Waiting
<1>11. QED
      BY <1>7, <1>8, <1>9, <1>10 DEF Contract!End

\* One task is taken from the queue, to run on a thread that stood still.
LEMMA NestedStarts ==
    ASSUME MapInv, NEW th \in Threads, NEW f, \A x \in Threads : stack[x] = << >>,
           stack' = [stack EXCEPT ![th] = Append(stack[th], f)]
    PROVE  Nested = << >> /\ Nested' = << f.task >>
<1>1. stack \in [Threads -> Seq(Frames)]
      BY TaskTypes DEF MapInv
<1>2. Append(<< >>, f) = << f >> /\ << f >> # << >> /\ DOMAIN << f >> = 1..1 /\ << f >>[1] = f
      OBVIOUS
<1>3. stack'[th] = << f >> /\ \A x \in Threads : stack'[x] # << >> => x = th
      BY <1>1, <1>2
<1>4. Nested' = Names(<< f >>)
      BY <1>2, <1>3, NestedOne, NestedIs
<1>5. Names(<< f >>) = [i \in 1..1 |-> << f >>[i].task]
      BY <1>2 DEF Names
<1>6. [i \in 1..1 |-> << f >>[i].task] = << f.task >>
      BY <1>2
<1>7. QED
      BY <1>4, <1>5, <1>6, NestedNow DEF MapInv

LEMMA MapsDrain ==
    ASSUME MapInv, StopDrains
    PROVE  Contract!Begin \/ Contract!GiveUp
<1> USE DEF MapInv
<1>1. pc = "none" /\ batch = << >> /\ intake # "Closed" /\ stack[Ctl] = << >>
      BY DrainStepFacts
<1>2. \A x \in Threads : stack[x] = << >>
      BY <1>1 DEF ExecInv, StackInv, Threads
<1>3. tasks \in Seq(Queued) /\ tasks # << >>
      BY TaskTypes DEF StopDrains
<1>4. tasks' = Tail(tasks) /\ Head(tasks) = tasks[1] /\ tasks[1] \in Queued
      <2>1. tasks' = SubSeq(tasks, 1, DrainIndex - 1) \o SubSeq(tasks, DrainIndex + 1, Len(tasks))
            BY DEF StopDrains
      <2>2. SubSeq(tasks, 1, DrainIndex - 1) = << >>
            BY DEF DrainIndex
      <2>3. SubSeq(tasks, DrainIndex + 1, Len(tasks)) = Tail(tasks)
            BY <1>3, ST!TailIsSubSeq DEF DrainIndex
      <2>4. Tail(tasks) \in Seq(Queued) /\ Head(tasks) = tasks[1] /\ tasks[1] \in Queued
            BY <1>3
      <2> DEFINE r == Tail(tasks)
      <2>5. tasks' = << >> \o r /\ r \in Seq(Queued)
            BY <2>1, <2>2, <2>3, <2>4
      <2> HIDE DEF r
      <2>6. << >> \o r = r
            BY <2>5
      <2>7. tasks' = Tail(tasks)
            BY <2>5, <2>6 DEF r
      <2>8. QED
            BY <2>4, <2>7
<1>5. Waiting = tasks /\ Waiting' = tasks'
      <2>1. Waiting = tasks
            BY <1>1, WaitingType
      <2>2. UNCHANGED <<batch, position>>
            BY DEF StopDrains
      <2>3. position > Len(batch) /\ position \in Nat /\ << >> \in Seq(Queued)
            BY <1>1, TaskTypes
      <2>4. Tail(tasks) \in Seq(Queued)
            BY <1>3
      <2>5. Waiting' = SubSeq(batch, position, Len(batch)) \o tasks'
            BY <2>2 DEF Waiting
      <2>6. batch \in Seq(Queued)
            BY TaskTypes
      <2>7. QED
            BY <1>4, <2>1, <2>3, <2>4, <2>5, <2>6, RestEmpty
<1>6. UNCHANGED intake /\ UNCHANGED Contract!turnVars /\ ~processingPermanents
      BY <1>1, TurnsSame DEF StopDrains, PermInv, TurnsInv
<1>7. CASE tasks[1].kind = "Refused"
      <2>1. UNCHANGED stack
            BY <1>7 DEF StopDrains, DrainIndex
      <2>2. Nested = << >> /\ UNCHANGED Nested
            BY <1>2, <2>1, NestedNow DEF Nested, Busy
      <2>3. Contract!GiveUp
            BY <1>1, <1>3, <1>4, <1>5, <1>6, <1>7, <2>2 DEF Contract!GiveUp, Contract!Still
      <2>4. QED
            BY <2>3
<1>8. CASE tasks[1].kind # "Refused"
      <2> DEFINE f == Frame(tasks[1].task, "taken")
      <2>1. stack' = [stack EXCEPT ![Ctl] = Append(stack[Ctl], f)] /\ f.task = tasks[1].task
            BY <1>8 DEF StopDrains, DrainIndex, Enters, Frame
      <2> HIDE DEF f
      <2>2. Nested = << >> /\ Nested' = << tasks[1].task >>
            BY <1>2, <2>1, NestedStarts DEF Threads
      <2>3. tasks[1].kind \in {"Regular", "Cleanup"}
            BY <1>4, <1>8 DEF Queued, Kinds
      <2>4. Contract!Begin
            BY <1>1, <1>3, <1>4, <1>5, <1>6, <2>2, <2>3 DEF Contract!Begin, Contract!Still
      <2>5. QED
            BY <2>4
<1>9. QED
      BY <1>7, <1>8

LEMMA MapsLoopRuns ==
    ASSUME MapInv, LoopRunsTask
    PROVE  Contract!Begin \/ Contract!GiveUp
<1> USE DEF MapInv
<1>1. /\ position \in DOMAIN batch /\ position' = position + 1 /\ UNCHANGED <<tasks, batch, intake>>
      /\ pc \in {"batch", "pending"} /\ stack[Loop] = << >>
      BY RunFacts
<1>2. \A x \in Threads : stack[x] = << >>
      BY <1>1, ThreadsAssumption DEF ExecInv, IntakeInv, StackInv, Threads
<1>3. batch \in Seq(Queued) /\ tasks \in Seq(Queued) /\ position \in 1..Len(batch)
      BY <1>1, TaskTypes
<1>4. /\ Waiting # << >> /\ Head(Waiting) = batch[position] /\ Waiting' = Tail(Waiting)
      /\ batch[position] \in Queued
      <2>1. Waiting' = SubSeq(batch, position + 1, Len(batch)) \o tasks
            BY <1>1 DEF Waiting
      <2>2. Waiting = SubSeq(batch, position, Len(batch)) \o tasks
            BY DEF Waiting
      <2>3. /\ SubSeq(batch, position, Len(batch)) \o tasks # << >>
            /\ Head(SubSeq(batch, position, Len(batch)) \o tasks) = batch[position]
            /\ Tail(SubSeq(batch, position, Len(batch)) \o tasks)
                  = SubSeq(batch, position + 1, Len(batch)) \o tasks
            BY <1>3, RestFront
      <2>4. batch[position] \in Queued
            BY <1>3
      <2>5. QED
            BY <2>1, <2>2, <2>3, <2>4
<1>5. UNCHANGED Contract!turnVars /\ ~processingPermanents
      BY <1>1, TurnsSame DEF LoopRunsTask, PermInv, TurnsInv
<1>6. (pc = "batch" => intake # "Closed") /\ (pc = "pending" => intake = "Closed")
      BY DEF ExecInv, IntakeInv
<1>7. batch[position].kind \in {"Regular", "Cleanup", "Refused"}
      BY <1>4 DEF Queued, Kinds
<1>8. CASE ~Runs(batch[position].kind)
      <2>1. UNCHANGED stack
            BY <1>8, RunFacts
      <2>2. Nested = << >> /\ UNCHANGED Nested
            BY <1>2, <2>1, NestedNow DEF Nested, Busy
      <2>3. Contract!GiveUp
            BY <1>1, <1>4, <1>5, <1>6, <1>7, <1>8, <2>2 DEF Contract!GiveUp, Contract!Still, Runs
      <2>4. QED
            BY <2>3
<1>9. CASE Runs(batch[position].kind)
      <2> DEFINE f == Frame(batch[position].task, "taken")
      <2>1. stack' = [stack EXCEPT ![Loop] = Append(stack[Loop], f)] /\ f.task = batch[position].task
            BY <1>9 DEF LoopRunsTask, Enters, Frame
      <2> HIDE DEF f
      <2>2. Nested = << >> /\ Nested' = << batch[position].task >>
            BY <1>2, <2>1, NestedStarts DEF Threads
      <2>3. Contract!Begin
            BY <1>1, <1>4, <1>5, <1>6, <1>7, <1>9, <2>2 DEF Contract!Begin, Contract!Still, Runs
      <2>4. QED
            BY <2>3
<1>10. QED
      BY <1>8, <1>9

\* The loop takes a batch, and destroys one that it has worked: the users see nothing.
LEMMA MapsBatch ==
    ASSUME MapInv, LoopTakesBatch \/ LoopEndsBatch \/ LoopDropsPending
    PROVE  UNCHANGED Contract!threadVars
<1> USE DEF MapInv
<1>1. UNCHANGED <<stack, intake>> /\ UNCHANGED Contract!turnVars
      BY TurnsSame DEF LoopTakesBatch, LoopEndsBatch, LoopDropsPending
<1>2. UNCHANGED Nested
      BY <1>1 DEF Nested, Busy
<1>3. tasks \in Seq(Queued) /\ batch \in Seq(Queued) /\ position \in Nat
      BY TaskTypes
<1>4. CASE LoopTakesBatch
      <2> DEFINE n == BatchSize(Len(tasks))
      <2>1. /\ batch = << >> /\ n \in 0..Len(tasks) /\ batch' = SubSeq(tasks, 1, n)
            /\ tasks' = SubSeq(tasks, n + 1, Len(tasks)) /\ position' = 1
            BY <1>4, TaskTypes DEF LoopTakesBatch, LoopGoto, Remaining, TypeOK, TypeBatch
      <2> HIDE DEF n
      <2>2. batch' \in Seq(Queued)
            BY <1>3, <2>1
      <2>3. SubSeq(batch', 1, Len(batch')) = batch'
            BY <2>2, ST!SubSeqFull
      <2>4. Waiting' = batch' \o tasks'
            BY <2>1, <2>3 DEF Waiting
      <2>5. Waiting' = tasks
            BY <1>3, <2>1, <2>4, Rejoined
      <2>6. Waiting = tasks
            BY <2>1, WaitingType
      <2>7. QED
            BY <1>1, <1>2, <2>5, <2>6 DEF Contract!threadVars, Contract!taskVars
<1>5. CASE LoopEndsBatch \/ LoopDropsPending
      <2>1. /\ position > Len(batch) /\ batch' = << >> /\ position' = 1 /\ UNCHANGED tasks
            BY <1>5 DEF LoopEndsBatch, LoopDropsPending
      <2>2. Waiting = tasks
            BY <1>3, <2>1, RestEmpty DEF Waiting
      <2>3. Waiting' = SubSeq(<< >>, 1, 0) \o tasks
            BY <2>1 DEF Waiting
      <2>4. << >> \in Seq(Queued) /\ 1 \in Nat /\ 1 > Len(<< >>) /\ Len(<< >>) = 0
            OBVIOUS
      <2>5. Waiting' = tasks
            BY <1>3, <2>3, <2>4, RestEmpty
      <2>6. QED
            BY <1>1, <1>2, <2>2, <2>5 DEF Contract!threadVars, Contract!taskVars
<1>6. QED
      BY <1>4, <1>5

\* start() and a stop() after an exception accept tasks again, the end of
\* stop() and the exception handler accept no more.
LEMMA MapsOpen ==
    ASSUME MapInv, Start \/ Stop
    PROVE  Contract!Reopen \/ UNCHANGED Contract!threadVars
<1> USE DEF MapInv
<1>1. /\ intake' # "Closed" /\ UNCHANGED <<tasks, batch, position, stack>> /\ UNCHANGED Contract!turnVars
      /\ ctl = "idle" /\ cleanupMutex = None /\ (Start => pc = "none")
      BY TurnsSame DEF Start, Stop
<1>2. UNCHANGED <<Waiting, Nested>>
      BY <1>1 DEF Waiting, Nested, Busy
<1>3. CASE intake # "Closed"
      BY <1>1, <1>2, <1>3 DEF Contract!threadVars, Contract!taskVars
<1>4. CASE intake = "Closed"
      <2>1. pc \in {"none", "ended"}
            BY <1>1, <1>4, ThreadsAssumption DEF ExecInv, IntakeInv, StackInv
      <2>2. \A x \in Threads : stack[x] = << >>
            BY <1>1, <2>1, ThreadsAssumption DEF ExecInv, StackInv, Threads
      <2>3. batch = << >> /\ tasks = << >>
            BY <1>4, <2>1 DEF TypeOK, TypeBatch, QueueInv, ClosedInv
      <2>4. Nested = << >> /\ Waiting = << >> /\ ~processingPermanents
            BY <2>1, <2>2, <2>3, NestedNow, WaitingType DEF PermInv, TurnsInv
      <2>5. Contract!Reopen
            BY <1>1, <1>2, <1>4, <2>4 DEF Contract!Reopen, Contract!Still
      <2>6. QED
            BY <2>5
<1>5. QED
      BY <1>3, <1>4

LEMMA MapsClose ==
    ASSUME MapInv, StopReturns \/ LoopCatches
    PROVE  Contract!Close \/ UNCHANGED Contract!threadVars
<1> USE DEF MapInv
<1>1. UNCHANGED stack /\ UNCHANGED Contract!turnVars
      BY TurnsSame DEF StopReturns, LoopCatches
<1>2. UNCHANGED Nested
      BY <1>1 DEF Nested, Busy
<1>3. intake # "Closed" /\ pc # "perm" /\ batch = << >>
      BY DEF StopReturns, LoopCatches, ExecInv, IntakeInv, TypeOK, TypeBatch, TypeQueue
<1>4. \A x \in Threads : stack[x] = << >>
      BY ThreadsAssumption DEF StopReturns, LoopCatches, ExecInv, IntakeInv, StackInv, Threads
<1>5. tasks \in Seq(Queued) /\ position = 1 /\ Waiting = tasks
      BY <1>3, TaskTypes, WaitingType
<1>6. UNCHANGED Waiting
      <2>1. CASE UNCHANGED <<tasks, batch, position>>
            BY <2>1 DEF Waiting
      <2>2. CASE batch' = tasks /\ tasks' = << >> /\ position' = position
            <3>1. Waiting' = SubSeq(tasks, 1, Len(tasks)) \o << >>
                  BY <1>5, <2>2 DEF Waiting
            <3>2. SubSeq(tasks, 1, Len(tasks)) = tasks
                  BY <1>5, ST!SubSeqFull
            <3>3. QED
                  BY <1>5, <3>1, <3>2
      <2>3. QED
            BY <2>1, <2>2 DEF StopReturns, LoopCatches
<1>7. Nested = << >> /\ ~processingPermanents
      BY <1>3, <1>4, NestedNow DEF PermInv, TurnsInv
<1>8. CASE intake' = "Closed"
      <2>1. Contract!Close
            BY <1>1, <1>2, <1>3, <1>6, <1>7, <1>8 DEF Contract!Close, Contract!Still
      <2>2. QED
            BY <2>1
<1>9. CASE intake' # "Closed"
      BY <1>1, <1>2, <1>3, <1>6, <1>9 DEF Contract!threadVars, Contract!taskVars
<1>10. QED
      BY <1>8, <1>9
-----------------------------------------------------------------------------
(***************************************************************************)
(* Permanent tasks.                                                        *)
(***************************************************************************)
LEMMA MapsPermanentCalls ==
    ASSUME MapInv, NEW th \in Threads
    PROVE  /\ PushPermanentTask(th) => \E id \in Ids : Contract!Register(id)
           /\ ClearPermanentTasks(th) => Contract!ClearAll \/ UNCHANGED Contract!threadVars
           /\ \A id \in Ids : RemovePermanentTask(th, id) => Contract!Erase(id)
<1> USE DEF MapInv
<1>1. permanentTaskIdCounter \in Nat
      BY BoundsAssumption DEF TypeOK, TypePermanents
<1>2. deferredTaskModification \in Seq([op : {"clear", "erase"}, id : Ids \cup {0}])
      BY DEF TypeOK, TypePermanents
<1>3. ASSUME PushPermanentTask(th) PROVE \E id \in Ids : Contract!Register(id)
      <2> DEFINE n == permanentTaskIdCounter
      <2>1. UNCHANGED Contract!taskVars
            BY <1>3, TasksSame DEF PushPermanentTask
      <2>2. /\ n < MaxPermanents /\ n' = n + 1 /\ permanentTasks' = permanentTasks \cup {n + 1}
            /\ UNCHANGED <<processingPermanents, moved, todo, current, deferredTaskModification>>
            BY <1>3 DEF PushPermanentTask
      <2>3. n + 1 \in Ids /\ n + 1 \notin 1..n /\ 1..n' = 1..n \cup {n + 1}
            BY <1>1, <2>2, BoundsAssumption DEF Ids
      <2>4. permanentTasks' \cup moved' = (permanentTasks \cup moved) \cup {n + 1}
            BY <2>2
      <2>5. UNCHANGED Erasing
            BY <2>2 DEF Erasing
      <2>6. Contract!Register(n + 1)
            BY <2>1, <2>2, <2>3, <2>4, <2>5 DEF Contract!Register
      <2>7. QED
            BY <2>3, <2>6
<1>4. ASSUME ClearPermanentTasks(th)
      PROVE  Contract!ClearAll \/ UNCHANGED Contract!threadVars
      <2>1. UNCHANGED Contract!taskVars
            BY <1>4, TasksSame DEF ClearPermanentTasks
      <2>2. UNCHANGED <<processingPermanents, moved, todo, current, permanentTaskIdCounter>>
            BY <1>4 DEF ClearPermanentTasks
      <2>3. CASE processingPermanents
            <3> DEFINE m == [op |-> "clear", id |-> 0]
            <3>1. /\ deferredTaskModification' = Append(deferredTaskModification, m)
                  /\ UNCHANGED permanentTasks
                  BY <1>4, <2>3 DEF ClearPermanentTasks, Defer
            <3>2. m \in [op : {"clear", "erase"}, id : Ids \cup {0}] /\ m.op = "clear"
                  OBVIOUS
            <3> HIDE DEF m
            <3>3. Range(deferredTaskModification') = Range(deferredTaskModification) \cup {m}
                  <4> DEFINE M == [op : {"clear", "erase"}, id : Ids \cup {0}]
                  <4>1. deferredTaskModification \in Seq(M) /\ m \in M
                        BY <1>2, <3>2
                  <4> HIDE DEF M
                  <4>2. Range(Append(deferredTaskModification, m))
                           = Range(deferredTaskModification) \cup {m}
                        BY <4>1, RangeAppend
                  <4>3. QED
                        BY <3>1, <4>2
            <3>4. UNCHANGED Erasing
                  BY <3>2, <3>3 DEF Erasing
            <3>5. QED
                  BY <2>1, <2>2, <3>1, <3>4 DEF Contract!threadVars, Contract!turnVars
      <2>4. CASE ~processingPermanents
            <3>1. permanentTasks' = {} /\ moved' = {} /\ UNCHANGED deferredTaskModification
                  BY <1>4, <2>2, <2>4 DEF ClearPermanentTasks, PermInv, TurnsInv
            <3>2. QED
                  BY <2>1, <2>2, <2>4, <3>1 DEF Contract!ClearAll, Erasing
      <2>5. QED
            BY <2>3, <2>4
<1>5. ASSUME NEW id \in Ids, RemovePermanentTask(th, id) PROVE Contract!Erase(id)
      <2>1. UNCHANGED Contract!taskVars
            BY <1>5, TasksSame DEF RemovePermanentTask
      <2>2. UNCHANGED <<processingPermanents, moved, todo, current, permanentTaskIdCounter>>
            BY <1>5 DEF RemovePermanentTask
      <2>3. CASE processingPermanents
            <3> DEFINE m == [op |-> "erase", id |-> id]
            <3>1. /\ deferredTaskModification' = Append(deferredTaskModification, m)
                  /\ UNCHANGED permanentTasks
                  BY <1>5, <2>3 DEF RemovePermanentTask, Defer
            <3>2. m \in [op : {"clear", "erase"}, id : Ids \cup {0}] /\ m.op = "erase" /\ m.id = id
                  OBVIOUS
            <3> HIDE DEF m
            <3>3. Range(deferredTaskModification') = Range(deferredTaskModification) \cup {m}
                  <4> DEFINE M == [op : {"clear", "erase"}, id : Ids \cup {0}]
                  <4>1. deferredTaskModification \in Seq(M) /\ m \in M
                        BY <1>2, <3>2
                  <4> HIDE DEF M
                  <4>2. Range(Append(deferredTaskModification, m))
                           = Range(deferredTaskModification) \cup {m}
                        BY <4>1, RangeAppend
                  <4>3. QED
                        BY <3>1, <4>2
            <3>4. Erasing' = Erasing \cup {id}
                  BY <3>2, <3>3 DEF Erasing
            <3>5. QED
                  BY <2>1, <2>2, <2>3, <3>1, <3>4 DEF Contract!Erase
      <2>4. CASE ~processingPermanents
            <3>1. /\ permanentTasks' = permanentTasks \ {id} /\ moved = {}
                  /\ UNCHANGED deferredTaskModification
                  BY <1>5, <2>4 DEF RemovePermanentTask, PermInv, TurnsInv
            <3>2. UNCHANGED Erasing
                  BY <3>1 DEF Erasing
            <3>3. permanentTasks' \cup moved' = (permanentTasks \cup moved) \ {id}
                  BY <2>2, <3>1
            <3>4. QED
                  BY <2>1, <2>2, <2>4, <3>2, <3>3 DEF Contract!Erase
      <2>5. QED
            BY <2>3, <2>4
<1>6. QED
      BY <1>3, <1>4, <1>5

\* The turns begin when the loop takes the tasks out of the lock, and end when
\* it merges what is left of them with what came in the meantime.
LEMMA MapsTurns ==
    ASSUME MapInv
    PROVE  /\ LoopMovesPermanents => Contract!TurnsBegin
           /\ LoopRunsPermanent => \E id \in Ids : Contract!Turn(id)
           /\ \A status : PermanentEnds(status) => Contract!TurnEnds
           /\ LoopMergesPermanents => Contract!TurnsEnd
<1> USE DEF MapInv
<1>1. ASSUME LoopMovesPermanents PROVE Contract!TurnsBegin
      <2>1. UNCHANGED Contract!taskVars
            BY <1>1, TasksSame DEF LoopMovesPermanents
      <2>2. /\ pc = "move" /\ moved' = permanentTasks /\ todo' = permanentTasks
            /\ permanentTasks' = {} /\ processingPermanents' = TRUE
            /\ UNCHANGED <<permanentTaskIdCounter, current, deferredTaskModification>>
            BY <1>1 DEF LoopMovesPermanents, LoopGoto
      <2>3. intake # "Closed" /\ moved = {} /\ ~processingPermanents
            BY <2>2 DEF ExecInv, IntakeInv, PermInv, TurnsInv
      <2>4. \A x \in Threads : stack[x] = << >>
            BY <2>2, <2>3 DEF ExecInv, IntakeInv, StackInv, Threads
      <2>5. Nested = << >>
            BY <2>4, NestedNow
      <2>6. UNCHANGED Erasing
            BY <2>2 DEF Erasing
      <2>7. QED
            BY <2>1, <2>2, <2>3, <2>5, <2>6 DEF Contract!TurnsBegin, Contract!Still
<1>2. ASSUME LoopRunsPermanent PROVE \E id \in Ids : Contract!Turn(id)
      <2>1. UNCHANGED Contract!taskVars
            BY <1>2, TasksSame DEF LoopRunsPermanent
      <2>2. /\ current = 0 /\ current' \in todo /\ todo' = todo \ {current'}
            /\ UNCHANGED <<processingPermanents, moved, permanentTaskIdCounter, permanentTasks,
                           deferredTaskModification>>
            BY <1>2 DEF LoopRunsPermanent
      <2>3. current' \in Ids
            BY <2>2 DEF TypeOK, TypePermanents
      <2>4. UNCHANGED Erasing
            BY <2>2 DEF Erasing
      <2>5. Contract!Turn(current')
            BY <2>1, <2>2, <2>4 DEF Contract!Turn
      <2>6. QED
            BY <2>3, <2>5
<1>3. ASSUME NEW status, PermanentEnds(status) PROVE Contract!TurnEnds
      <2>1. UNCHANGED Contract!taskVars
            BY <1>3, TasksSame DEF PermanentEnds
      <2>2. /\ current # 0 /\ current' = 0 /\ todo' \in {todo, {}} /\ moved' \in {moved, moved \ {current}}
            /\ UNCHANGED <<processingPermanents, permanentTaskIdCounter, permanentTasks,
                           deferredTaskModification>>
            BY <1>3 DEF PermanentEnds
      <2>3. current \notin permanentTasks
            BY <2>2 DEF PermInv, TurnsInv
      <2>4. permanentTasks' \cup moved' \in {permanentTasks \cup moved,
                                             (permanentTasks \cup moved) \ {current}}
            BY <2>2, <2>3
      <2>5. UNCHANGED Erasing
            BY <2>2 DEF Erasing
      <2>6. QED
            BY <2>1, <2>2, <2>4, <2>5 DEF Contract!TurnEnds
<1>4. ASSUME LoopMergesPermanents PROVE Contract!TurnsEnd
      <2>1. UNCHANGED Contract!taskVars
            BY <1>4, TasksSame DEF LoopMergesPermanents
      <2> DEFINE S == permanentTasks \cup moved
      <2>2. /\ pc = "perm" /\ current = 0 /\ todo = {} /\ processingPermanents' = FALSE
            /\ permanentTasks' = ApplyDeferred(S) /\ moved' = {} /\ deferredTaskModification' = << >>
            /\ UNCHANGED <<permanentTaskIdCounter, todo, current>>
            BY <1>4 DEF LoopMergesPermanents, LoopGoto
      <2>3. processingPermanents
            BY <2>2 DEF PermInv, TurnsInv
      <2>4. Erasing' = {}
            BY <2>2 DEF Erasing, Range
      <2> HIDE DEF S
      <2>5. ApplyDeferred(S) \in {S \ Erasing, {}}
            <3>1. CASE \E m \in Range(deferredTaskModification) : m.op = "clear"
                  BY <3>1 DEF ApplyDeferred
            <3>2. CASE ~\E m \in Range(deferredTaskModification) : m.op = "clear"
                  <4>1. \A m \in Range(deferredTaskModification) : m.op \in {"clear", "erase"}
                        <5> DEFINE M == [op : {"clear", "erase"}, id : Ids \cup {0}]
                        <5>1. deferredTaskModification \in Seq(M)
                              BY DEF TypeOK, TypePermanents
                        <5>2. \A m \in M : m.op \in {"clear", "erase"}
                              OBVIOUS
                        <5> HIDE DEF M
                        <5>3. \A i \in DOMAIN deferredTaskModification :
                                 deferredTaskModification[i] \in M
                              BY <5>1
                        <5>4. QED
                              BY <5>2, <5>3 DEF Range
                  <4>2. {m.id : m \in Range(deferredTaskModification)} = Erasing
                        BY <3>2, <4>1 DEF Erasing
                  <4>3. QED
                        BY <3>2, <4>2 DEF ApplyDeferred
            <3>3. QED
                  BY <3>1, <3>2
      <2>6. permanentTasks' \cup moved' \in {S \ Erasing, {}}
            BY <2>2, <2>5
      <2>7. QED
            BY <2>1, <2>2, <2>3, <2>4, <2>6 DEF Contract!TurnsEnd, S
<1>5. QED
      BY <1>1, <1>2, <1>3, <1>4
-----------------------------------------------------------------------------
(***************************************************************************)
(* The other steps, and all together.                                      *)
(***************************************************************************)
\* Wake-ups, waits, reads and the bookkeeping of removals do not show.
MapQuietStep ==
    \/ StopJoined
    \/ \E th \in Threads : Wake(th) \/ WatchSocket(th)
    \/ \E th \in Callers \cup {Ctl} : NotifyWake(th)
    \/ \E c \in Callers : RemovalConfirmed(c) \/ RemovalTimesOut(c)
    \/ LoopStarts \/ LoopReads \/ LoopBeginsCycle \/ LoopWaits \/ LoopWaitEnds
    \/ SocketWoken \/ LoopLeavesSocket \/ LoopWakesByItself

LEMMA MapsQuiet ==
    ASSUME MapQuietStep \/ UNCHANGED vars
    PROVE  UNCHANGED Contract!threadVars
<1>1. /\ UNCHANGED <<tasks, batch, position, stack, intake>>
      /\ UNCHANGED <<processingPermanents, todo, current, permanentTaskIdCounter,
                     permanentTasks, moved, deferredTaskModification>>
      BY DEF MapQuietStep, vars, StopJoined, Wake, WatchSocket, NotifyWake, RemovalConfirmed,
             RemovalTimesOut, LoopStarts, LoopReads, LoopBeginsCycle, LoopWaits,
             LoopWaitEnds, SocketWoken, LoopLeavesSocket, LoopWakesByItself
<1>2. QED
      BY <1>1, TasksSame, TurnsSame DEF Contract!threadVars

LEMMA MapsInit == Init => Contract!ThreadInit
<1> SUFFICES ASSUME Init PROVE Contract!ThreadInit
    OBVIOUS
<1>1. \A x \in Threads : stack[x] = << >>
      BY DEF Init
<1>2. Nested = << >>
      BY <1>1, NestedNone, NestedIs
<1>3. batch = << >> /\ position = 1 /\ tasks = << >>
      BY DEF Init
<1>4. << >> \in Seq(Queued) /\ 1 \in Nat /\ 1 > Len(<< >>)
      OBVIOUS
<1>5. Waiting = << >>
      BY <1>3, <1>4, RestEmpty DEF Waiting
<1>6. Erasing = {}
      BY DEF Init, Erasing, Range
<1>7. QED
      BY <1>2, <1>5, <1>6 DEF Init, Contract!ThreadInit

LEMMA MapsNext ==
    ASSUME MapInv, [Next]_vars
    PROVE  [Contract!ThreadNext]_(Contract!threadVars)
<1> USE DEF Contract!ThreadNext, Contract!ThreadStep
<1>1. CASE Start \/ Stop
      BY <1>1, MapsOpen
<1>2. CASE StopReturns \/ LoopCatches
      BY <1>2, MapsClose
<1>3. CASE StopDrains \/ LoopRunsTask
      BY <1>3, MapsDrain, MapsLoopRuns
<1>4. ASSUME NEW th \in Threads, NEW t \in Regulars, PushTask(th, t)
      PROVE  [Contract!ThreadNext]_(Contract!threadVars)
      BY <1>4, MapsCalls DEF Tasks, Contract!QueueKinds
<1>5. ASSUME NEW th \in Threads, NEW t \in Promises, QueuePromiseTask(th, t)
      PROVE  [Contract!ThreadNext]_(Contract!threadVars)
      BY <1>5, MapsCalls DEF Tasks, Contract!QueueKinds
<1>6. ASSUME NEW th \in Threads, NEW t \in Cleanups, PushCleanupTask(th, t)
      PROVE  [Contract!ThreadNext]_(Contract!threadVars)
      BY <1>6, MapsCalls, MapsActs DEF PushCleanupTask, Tasks, Contract!QueueKinds
<1>7. ASSUME NEW th \in Threads, NEW throws \in BOOLEAN, TaskEnds(th, throws)
      PROVE  [Contract!ThreadNext]_(Contract!threadVars)
      BY <1>7, MapsEnd
<1>8. CASE LoopTakesBatch \/ LoopEndsBatch \/ LoopDropsPending
      BY <1>8, MapsBatch
<1>9. ASSUME NEW th \in Threads, PushPermanentTask(th)
      PROVE  [Contract!ThreadNext]_(Contract!threadVars)
      BY <1>9, MapsPermanentCalls
<1>10. ASSUME NEW th \in Threads, ClearPermanentTasks(th)
      PROVE  [Contract!ThreadNext]_(Contract!threadVars)
      BY <1>10, MapsPermanentCalls
<1>11. ASSUME NEW th \in Threads, NEW id \in Ids, RemovePermanentTask(th, id)
      PROVE  [Contract!ThreadNext]_(Contract!threadVars)
      BY <1>11, MapsPermanentCalls
<1>12. CASE LoopMovesPermanents \/ LoopRunsPermanent \/ LoopMergesPermanents
      BY <1>12, MapsTurns
<1>13. ASSUME NEW status, PermanentEnds(status)
      PROVE  [Contract!ThreadNext]_(Contract!threadVars)
      BY <1>13, MapsTurns
<1>14. CASE MapQuietStep \/ UNCHANGED vars
      BY <1>14, MapsQuiet
<1> HIDE DEF Contract!ThreadNext, Contract!ThreadStep
<1>15. QED
      BY <1>1, <1>2, <1>3, <1>4, <1>5, <1>6, <1>7, <1>8, <1>9, <1>10, <1>11, <1>12, <1>13, <1>14
      DEF Next, StopStep, Call, UserCodeEnds, LoopStep, MapQuietStep

\* ProcessingThread implements the queue its users rely on, for every number of
\* threads and tasks: tasks start in the order they were pushed and one at a
\* time, only a cleanup task starts once the thread is closed, none is given
\* up, and an erased permanent task is gone before the next task starts.
THEOREM ThreadImplementsContract == Spec => ImplementsContract
<1>1. TypeOK /\ ExecInv /\ QueueInv /\ PermInv <=> MapInv
      BY DEF MapInv
<1>2. Spec => []MapInv
      BY <1>1, TypeCorrect, ExecCorrect, QueueCorrect, PermCorrect, PTL
<1>3. QED
      BY <1>2, MapsInit, MapsNext, PTL DEF Spec, ImplementsContract, Contract!ThreadSpec
=============================================================================
