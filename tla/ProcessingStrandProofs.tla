----------------------- MODULE ProcessingStrandProofs -----------------------
(***************************************************************************)
(* Proofs about ProcessingStrand for any number of strands, tasks,         *)
(* permanent tasks and calling threads.                                    *)
(*                                                                         *)
(* The inductive invariant follows a strand to its final task: one thread  *)
(* finalizes it (under the mutex, then past it), the final task waits in   *)
(* the queue, the final task has begun.  A strand is at one of these       *)
(* places at most, once (OnceInv); at each of them the permanent tasks of  *)
(* the strand are gone or will be gone when the turns end (ErasedInv), and *)
(* the work pushed through it is ahead of the final task (OrderInv).       *)
(***************************************************************************)
EXTENDS ProcessingStrand, FiniteSetTheorems, TLAPS

\* A task in the queue.
Entry == [task : Tasks, kind : QueueKinds]

\* The values of the thread's variables, and what the turns leave behind.
ThreadTypeOK ==
    /\ open \in BOOLEAN
    /\ waiting \in Seq(Entry)
    /\ executing \in Seq(Tasks)
    /\ cycle \in {"none", "turns"}
    /\ due \subseteq Ids /\ issued \subseteq Ids
    /\ permanents \subseteq Ids /\ erasing \subseteq Ids
    /\ turn \in Ids \cup {NoTurn}

TurnsInv ==
    /\ permanents \subseteq issued
    /\ \A s \in Strands : permanentTasks[s] \subseteq issued
    /\ cycle = "none" => due = {} /\ turn = NoTurn

\* A thread outside of a call is idle; inside, the place fits the operation.
CallOK(c) ==
    \/ c = Idle
    \/ /\ c.op \in Ops /\ c.strand \in Strands
       /\ c.at \in {"lock", "held", "wait", "push", "pushed"}
       /\ c.op \in {"pushTask", "pushPermanentTask"} => c.ids = {} /\ c.at \in {"lock", "held"}
       /\ c.op = "removePermanentTask" => c.at \in {"lock", "held", "wait"}

CallInv == \A th \in Threads : CallOK(call[th])

Holds(th, s) == call[th].strand = s /\ call[th].at \in {"held", "wait"}

MutexInv ==
    \A th \in Threads, s \in Strands : Holds(th, s) <=> mutex[s] = th

\* The final task of a strand is pushed by one thread, waits, or has begun.
Finalizing(th, s) ==
    /\ call[th].op = "finalize" /\ call[th].strand = s
    /\ call[th].at \in {"held", "wait", "push"}
Queued(s) == \E i \in DOMAIN waiting : waiting[i].task = s

OnceInv ==
    \A s \in Strands :
        /\ \A th \in Threads : Finalizing(th, s) => finalized[s] /\ ~Queued(s) /\ s \notin begun
        /\ \A t1, t2 \in Threads : Finalizing(t1, s) /\ Finalizing(t2, s) => t1 = t2
        /\ Queued(s) => finalized[s] /\ s \notin begun
        /\ \A i, j \in DOMAIN waiting : waiting[i].task = s /\ waiting[j].task = s => i = j
        /\ s \in begun => finalized[s]
        /\ \A i \in DOMAIN executing : executing[i] = s => s \in begun
        /\ \A i, j \in DOMAIN executing : executing[i] = s /\ executing[j] = s => i = j

\* A strand that a thread pushes to under its mutex is not finalized.
PushingInv ==
    \A th \in Threads :
        call[th].op \in {"pushTask", "pushPermanentTask"} /\ call[th].at = "held"
            => ~finalized[call[th].strand]

\* The permanent task is not registered, or is erased when the turns end.
Gone(id) == id \notin permanents \/ (cycle = "turns" /\ id \in erasing)

ErasedInv ==
    \A s \in Strands :
        /\ \A th \in Threads : Finalizing(th, s) =>
              \A id \in permanentTasks[s] :
                  Gone(id) \/ (call[th].at # "push" /\ id \in call[th].ids)
        /\ Queued(s) => \A id \in permanentTasks[s] : Gone(id)
        /\ s \in begun => /\ permanentTasks[s] \cap (permanents \cup due) = {}
                          /\ turn \notin permanentTasks[s]

\* What waits is work pushed through a strand, or a final task.
QueueInv ==
    /\ \A i \in DOMAIN waiting :
          /\ waiting[i].task \in Strands <=> waiting[i].kind = "Cleanup"
          /\ waiting[i].task \in Work => owner[waiting[i].task] # None
    /\ \A i \in DOMAIN executing : executing[i] \in Work => owner[executing[i]] # None
    /\ ~open => \A i \in DOMAIN executing : executing[i] \in Strands

\* Work of a strand is ahead of the strand's final task.
OrderInv ==
    \A s \in Strands :
        /\ \A i, j \in DOMAIN waiting :
              waiting[i].task = s /\ waiting[j].task \in Work /\ owner[waiting[j].task] = s => j < i
        /\ s \in begun =>
              /\ \A i \in DOMAIN executing : executing[i] \in Work => owner[executing[i]] # s
              /\ open => \A i \in DOMAIN waiting :
                            waiting[i].task \in Work => owner[waiting[i].task] # s

IInv ==
    /\ ThreadTypeOK /\ TypeOK /\ TurnsInv /\ CallInv /\ MutexInv
    /\ OnceInv /\ PushingInv /\ ErasedInv /\ QueueInv /\ OrderInv
-----------------------------------------------------------------------------
USE DEF taskVars, turnVars, threadVars, strandVars

\* What an element of a longer or a shorter queue is.
LEMMA AppendFacts ==
    ASSUME NEW S, NEW q \in Seq(S), NEW x \in S
    PROVE  /\ Append(q, x) \in Seq(S)
           /\ DOMAIN Append(q, x) = DOMAIN q \cup {Len(q) + 1}
           /\ \A i \in DOMAIN q : Append(q, x)[i] = q[i] /\ i < Len(q) + 1
           /\ Append(q, x)[Len(q) + 1] = x /\ Len(q) + 1 \notin DOMAIN q
OBVIOUS

LEMMA TailFacts ==
    ASSUME NEW S, NEW q \in Seq(S), q # << >>
    PROVE  /\ Tail(q) \in Seq(S)
           /\ Head(q) = q[1] /\ q[1] \in S /\ 1 \in DOMAIN q
           /\ \A i \in DOMAIN Tail(q) :
                 i \in Nat /\ i + 1 \in DOMAIN q /\ i + 1 # 1 /\ Tail(q)[i] = q[i + 1]
OBVIOUS

\* A thread that goes on inside of its call keeps the operation and the strand.
LEMMA CallGoesOn ==
    ASSUME NEW c \in [Threads -> CallRecords], NEW th \in Threads,
           NEW a \in Places, NEW I \in SUBSET Ids
    PROVE  /\ [c EXCEPT ![th].at = a, ![th].ids = I] \in [Threads -> CallRecords]
           /\ [c EXCEPT ![th].at = a, ![th].ids = I][th]
                  = [op |-> c[th].op, strand |-> c[th].strand, at |-> a, ids |-> I]
           /\ \A o \in Threads \ {th} : [c EXCEPT ![th].at = a, ![th].ids = I][o] = c[o]
<1> DEFINE d == [c EXCEPT ![th].at = a]
           e == [d EXCEPT ![th].ids = I]
<1>1. /\ d \in [Threads -> CallRecords]
      /\ d[th] = [op |-> c[th].op, strand |-> c[th].strand, at |-> a, ids |-> c[th].ids]
      /\ \A o \in Threads \ {th} : d[o] = c[o]
      BY DEF CallRecords
<1> HIDE DEF d
<1>2. /\ e \in [Threads -> CallRecords]
      /\ e[th] = [op |-> c[th].op, strand |-> c[th].strand, at |-> a, ids |-> I]
      /\ \A o \in Threads \ {th} : e[o] = c[o]
      BY <1>1 DEF CallRecords
<1>3. QED
      BY <1>2 DEF d

LEMMA InitIInv == Init => IInv
<1> SUFFICES ASSUME Init PROVE IInv
    OBVIOUS
<1> USE StrandAssumption, NoTurnAssumption DEF Init, ThreadInit, Idle, Threads
<1>1. ThreadTypeOK /\ TypeOK
      BY DEF ThreadTypeOK, TypeOK, CallRecords, Places
<1>2. TurnsInv /\ CallInv /\ MutexInv /\ PushingInv
      BY DEF TurnsInv, CallInv, CallOK, MutexInv, PushingInv, Holds
<1>3. OnceInv /\ ErasedInv /\ QueueInv /\ OrderInv
      BY DEF OnceInv, ErasedInv, QueueInv, OrderInv, Finalizing, Queued
<1>4. QED
      BY <1>1, <1>2, <1>3 DEF IInv

\* The values of the thread's variables.
LEMMA StepThreadType == IInv /\ Next => ThreadTypeOK'
<1> SUFFICES ASSUME IInv, Next PROVE ThreadTypeOK'
    OBVIOUS
<1> USE StrandAssumption, NoTurnAssumption DEF IInv, ThreadTypeOK
<1>1. ASSUME NEW th \in Threads, PushTask(th) PROVE ThreadTypeOK'
      <2>1. CASE waiting' = waiting
            BY <1>1, <2>1 DEF PushTask, Push
      <2>2. ASSUME NEW t \in Work, NEW kind \in {"Regular", "Refused"}, Push(t, kind)
            PROVE  ThreadTypeOK'
            <3>1. [task |-> t, kind |-> kind] \in Entry
                  BY DEF Entry, QueueKinds
            <3>2. waiting' \in Seq(Entry)
                  BY <2>2, <3>1, AppendFacts DEF Push
            <3>3. QED
                  BY <2>2, <3>2 DEF Push
      <2>3. QED
            BY <1>1, <2>1, <2>2 DEF PushTask
<1>2. ASSUME NEW th \in Threads, PushPermanentTask(th) PROVE ThreadTypeOK'
      BY <1>2 DEF PushPermanentTask, Register
<1>3. ASSUME NEW th \in Threads, RemoveNext(th) PROVE ThreadTypeOK'
      BY <1>3 DEF RemoveNext, Erase, TypeOK, CallRecords
<1>4. ASSUME NEW th \in Threads, PushFinalTask(th) PROVE ThreadTypeOK'
      <2>1. call[th].strand \in Strands
            BY <1>4 DEF PushFinalTask, At, CallInv, CallOK, Idle
      <2>2. CASE Push(call[th].strand, FinalKind)
            <3>1. [task |-> call[th].strand, kind |-> FinalKind] \in Entry
                  BY <2>1 DEF Entry, QueueKinds, FinalKind
            <3>2. waiting' \in Seq(Entry)
                  BY <2>2, <3>1, AppendFacts DEF Push
            <3>3. QED
                  BY <2>2, <3>2 DEF Push
      <2>3. CASE Act(call[th].strand)
            BY <2>1, <2>3, AppendFacts DEF Act
      <2>4. QED
            BY <1>4, <2>2, <2>3 DEF PushFinalTask
<1>5. CASE ThreadTakes
      <2>1. waiting # << >> /\ waiting' = Tail(waiting)
            BY <1>5 DEF ThreadTakes, Begin, GiveUp
      <2>2. Tail(waiting) \in Seq(Entry) /\ Head(waiting) \in Entry
            BY <2>1, TailFacts
      <2>3. executing' \in Seq(Tasks)
            <3>1. Head(waiting).task \in Tasks
                  BY <2>2 DEF Entry
            <3>2. << Head(waiting).task >> \in Seq(Tasks)
                  BY <3>1
            <3>3. QED
                  BY <1>5, <3>2 DEF ThreadTakes, Begin, GiveUp
      <2>4. QED
            BY <1>5, <2>1, <2>2, <2>3 DEF ThreadTakes, Begin, GiveUp
<1>6. CASE ThreadTurns
      BY <1>6 DEF ThreadTurns, TurnsBegin, TurnsEnd, Turn
<1>7. CASE UserCodeEnds
      BY <1>7 DEF UserCodeEnds, End, TurnEnds
<1>8. CASE ThreadClosesOrReopens
      BY <1>8 DEF ThreadClosesOrReopens, Close, Reopen
<1>9. QED
      BY <1>1, <1>2, <1>3, <1>4, <1>5, <1>6, <1>7, <1>8
      DEF Next, StrandStep, Enter, Refused, Acquire, RemoveReturns,
          RemovePermanentTaskReturns, FinalizeReturns, FinalTaskPushed

\* The values of the strands' variables.
LEMMA StepType == IInv /\ Next => TypeOK'
<1> SUFFICES ASSUME IInv, Next PROVE TypeOK'
    OBVIOUS
<1> USE StrandAssumption DEF IInv, TypeOK
<1>0. /\ "held" \in Places /\ call \in [Threads -> CallRecords]
      /\ \A th \in Threads : /\ call[th].op \in Ops \cup {"none"} /\ call[th].ids \subseteq Ids
                              /\ call[th].strand \in Strands \cup {None}
      BY DEF Places, CallRecords
<1>1. ASSUME NEW th \in Threads, NEW op \in Ops, NEW s \in Strands, Enter(th, op, s)
      PROVE  TypeOK'
      BY <1>1 DEF Enter, CallRecords, Places
<1>2. ASSUME NEW th \in Threads, Acquire(th) PROVE TypeOK'
      <2>1. call[th].strand \in Strands
            BY <1>2 DEF Acquire, CallInv, CallOK, Idle
      <2>2. mutex' \in [Strands -> Threads \cup {None}] /\ UNCHANGED <<owner, begun>>
            BY <1>2, <2>1 DEF Acquire
      <2>3. CASE call[th].op = "removePermanentTask"
            <3>1. PICK id \in permanentTasks[call[th].strand] :
                      /\ permanentTasks' = [permanentTasks EXCEPT ![call[th].strand] = @ \ {id}]
                      /\ call' = [call EXCEPT ![th].at = "held", ![th].ids = {id}]
                  BY <1>2, <2>3 DEF Acquire
            <3>2. permanentTasks' \in [Strands -> SUBSET Ids] /\ {id} \in SUBSET Ids
                  BY <2>1, <3>1
            <3>3. finalized' = finalized
                  BY <1>2, <2>3 DEF Acquire
            <3>4. call' \in [Threads -> CallRecords]
                  BY <1>0, <3>1, <3>2, CallGoesOn, Zenon
            <3>5. QED
                  BY <2>2, <3>2, <3>3, <3>4
      <2>4. CASE call[th].op = "finalize"
            <3>1. call' \in [Threads -> CallRecords]
                  <4>1. call' = [call EXCEPT ![th].at = "held",
                                             ![th].ids = permanentTasks[call[th].strand]]
                        BY <1>2, <2>4 DEF Acquire
                  <4>2. permanentTasks[call[th].strand] \in SUBSET Ids
                        BY <2>1
                  <4>3. call \in [Threads -> CallRecords] /\ "held" \in Places
                        BY <1>0
                  <4>4. QED
                        BY <4>1, <4>2, <4>3, CallGoesOn, Zenon
            <3>2. QED
                  BY <1>2, <2>1, <2>2, <2>4, <3>1 DEF Acquire
      <2>5. CASE call[th].op \in {"pushTask", "pushPermanentTask"}
            BY <1>2, <2>2, <2>5 DEF Acquire, CallRecords, Places
      <2>6. QED
            BY <1>2, <2>3, <2>4, <2>5 DEF Acquire
<1>3. ASSUME NEW th \in Threads, PushTask(th) PROVE TypeOK'
      <2>1. call[th].strand \in Strands
            BY <1>3 DEF PushTask, At, CallInv, CallOK, Idle
      <2>2. QED
            BY <1>3, <2>1 DEF PushTask, Return, Idle, CallRecords, Places
<1>4. ASSUME NEW th \in Threads, PushPermanentTask(th) PROVE TypeOK'
      <2>1. permanentTasks' \in [Strands -> SUBSET Ids]
            BY <1>4 DEF PushPermanentTask
      <2>2. QED
            BY <1>4, <2>1 DEF PushPermanentTask, Return, Idle, CallRecords, Places
<1>5. ASSUME NEW th \in Threads,
             \/ Refused(th) \/ RemoveReturns(th) \/ RemovePermanentTaskReturns(th)
             \/ FinalizeReturns(th) \/ FinalTaskPushed(th)
      PROVE  TypeOK'
      BY <1>5 DEF Refused, RemoveReturns, RemovePermanentTaskReturns, Return,
                  FinalizeReturns, AfterRemoval, FinalTaskPushed, Idle,
                  CallRecords, Places
<1>6. ASSUME NEW th \in Threads, RemoveNext(th) PROVE TypeOK'
      BY <1>6 DEF RemoveNext, CallRecords, Places
<1>7. ASSUME NEW th \in Threads, PushFinalTask(th) PROVE TypeOK'
      <2>1. call[th].strand \in Strands
            BY <1>7 DEF PushFinalTask, At, CallInv, CallOK, Idle
      <2>2. QED
            BY <1>7, <2>1 DEF PushFinalTask, Idle, CallRecords, Places
<1>8. CASE ThreadTakes \/ ThreadTurns \/ UserCodeEnds \/ ThreadClosesOrReopens
      BY <1>8 DEF ThreadTakes, ThreadTurns, UserCodeEnds, ThreadClosesOrReopens
<1>9. QED
      BY <1>1, <1>2, <1>3, <1>4, <1>5, <1>6, <1>7, <1>8 DEF Next, StrandStep

\* Only issued ids are registered; nothing has its turn outside of a cycle.
LEMMA StepTurns == IInv /\ Next => TurnsInv'
<1> SUFFICES ASSUME IInv, Next PROVE TurnsInv'
    OBVIOUS
<1> USE DEF IInv, TurnsInv
<1>1. ASSUME NEW th \in Threads, Acquire(th) PROVE TurnsInv'
      BY <1>1 DEF Acquire, TypeOK
<1>2. ASSUME NEW th \in Threads, PushPermanentTask(th) PROVE TurnsInv'
      BY <1>2 DEF PushPermanentTask, Register, TypeOK
<1>3. ASSUME NEW th \in Threads, RemoveNext(th) PROVE TurnsInv'
      BY <1>3 DEF RemoveNext, Erase
<1>4. CASE ThreadTurns
      BY <1>4 DEF ThreadTurns, TurnsBegin, TurnsEnd, Turn, Still
<1>5. CASE UserCodeEnds
      BY <1>5 DEF UserCodeEnds, End, TurnEnds
<1>6. CASE UNCHANGED <<permanents, issued, permanentTasks, cycle, due, turn>>
      BY <1>6
<1>7. QED
      BY <1>1, <1>2, <1>3, <1>4, <1>5, <1>6
      DEF Next, StrandStep, Enter, Refused, PushTask, Push, RemoveReturns,
          RemovePermanentTaskReturns, FinalizeReturns, PushFinalTask, Act,
          FinalTaskPushed, ThreadTakes, Begin, GiveUp, ThreadClosesOrReopens,
          Close, Reopen

\* Every place is one of its operation.
LEMMA StepCall == IInv /\ Next => CallInv'
<1> SUFFICES ASSUME IInv, Next PROVE CallInv'
    OBVIOUS
<1> USE DEF IInv, CallInv, TypeOK, CallRecords, Places
<1>0. ASSUME NEW th \in Threads, \A o \in Threads \ {th} : call'[o] = call[o], CallOK(call'[th])
      PROVE  CallInv'
      BY <1>0
<1>1. ASSUME NEW th \in Threads, NEW op \in Ops, NEW s \in Strands, Enter(th, op, s)
      PROVE  CallInv'
      BY <1>0, <1>1 DEF Enter, CallOK
<1>2. ASSUME NEW th \in Threads, Acquire(th) PROVE CallInv'
      <2>1. /\ call[th].at = "lock" /\ call'[th].at = "held"
            /\ call'[th].op = call[th].op /\ call'[th].strand = call[th].strand
            /\ \A o \in Threads \ {th} : call'[o] = call[o]
            BY <1>2 DEF Acquire
      <2>2. call[th].op \in {"pushTask", "pushPermanentTask"} => call'[th].ids = call[th].ids
            BY <1>2 DEF Acquire
      <2>3. CallOK(call'[th])
            BY <2>1, <2>2 DEF CallOK, Idle
      <2>4. QED
            BY <1>0, <2>1, <2>3
<1>3. ASSUME NEW th \in Threads, RemoveNext(th) PROVE CallInv'
      BY <1>3 DEF RemoveNext, CallOK, Idle
<1>4. ASSUME NEW th \in Threads,
             RemoveReturns(th) \/ FinalizeReturns(th) \/ PushFinalTask(th)
      PROVE  CallInv'
      <2>1. CallOK(call[th]) /\ CallOK(Idle)
            BY DEF CallOK
      <2>2. CASE RemoveReturns(th)
            <3>1. CallOK(call'[th])
                  BY <2>1, <2>2 DEF RemoveReturns, CallOK, Idle
            <3>2. QED
                  BY <1>0, <2>2, <3>1 DEF RemoveReturns
      <2>3. CASE FinalizeReturns(th)
            <3>1. CallOK(call'[th])
                  BY <2>1, <2>3 DEF FinalizeReturns, CallOK, Idle, At
            <3>2. QED
                  BY <1>0, <2>3, <3>1 DEF FinalizeReturns
      <2>4. CASE PushFinalTask(th)
            <3>1. CallOK(call'[th])
                  <4>1. CASE call' = [call EXCEPT ![th] = Idle]
                        BY <2>1, <4>1
                  <4>2. CASE call' = [call EXCEPT ![th].at = "pushed"]
                        BY <2>1, <2>4, <4>2 DEF PushFinalTask, CallOK, Idle, At
                  <4>3. QED
                        BY <2>4, <4>1, <4>2 DEF PushFinalTask
            <3>2. QED
                  BY <1>0, <2>4, <3>1 DEF PushFinalTask
      <2>5. QED
            BY <1>4, <2>2, <2>3, <2>4
<1>5. ASSUME NEW th \in Threads, call' = [call EXCEPT ![th] = Idle] PROVE CallInv'
      BY <1>5 DEF CallOK
<1>6. CASE UNCHANGED call
      BY <1>6
<1>7. QED
      BY <1>1, <1>2, <1>3, <1>4, <1>5, <1>6
      DEF Next, StrandStep, Refused, PushTask, PushPermanentTask, Return,
          RemovePermanentTaskReturns, FinalTaskPushed, ThreadTakes, ThreadTurns,
          UserCodeEnds, ThreadClosesOrReopens

\* The mutex of a strand is owned by the thread inside of it.
LEMMA StepMutex == IInv /\ Next => MutexInv'
<1> SUFFICES ASSUME IInv, Next PROVE MutexInv'
    OBVIOUS
<1> USE StrandAssumption DEF IInv, MutexInv, Holds, TypeOK, CallRecords, Places, Threads
<1>1. ASSUME NEW th \in Threads, NEW op \in Ops, NEW s \in Strands, Enter(th, op, s)
      PROVE  MutexInv'
      BY <1>1 DEF Enter, Idle
<1>2. ASSUME NEW th \in Threads, Acquire(th) PROVE MutexInv'
      BY <1>2 DEF Acquire, Locks, Idle, CallInv, CallOK
<1>3. ASSUME NEW th \in Threads, RemoveNext(th) \/ RemoveReturns(th) PROVE MutexInv'
      BY <1>3 DEF RemoveNext, RemoveReturns
<1>4. ASSUME NEW th \in Threads, FinalizeReturns(th) PROVE MutexInv'
      BY <1>4 DEF FinalizeReturns, AfterRemoval, At
<1>5. ASSUME NEW th \in Threads, call[th].at = "held", Return(th) PROVE MutexInv'
      BY <1>5 DEF Return, Idle
<1>6. ASSUME NEW th \in Threads, call[th].at \notin {"held", "wait"},
             call'[th].at \notin {"held", "wait"},
             \A o \in Threads \ {th} : call'[o] = call[o], UNCHANGED mutex
      PROVE  MutexInv'
      BY <1>6
<1>7. ASSUME NEW th \in Threads, Refused(th) \/ PushFinalTask(th) \/ FinalTaskPushed(th)
      PROVE  MutexInv'
      BY <1>6, <1>7 DEF Refused, PushFinalTask, FinalTaskPushed, At, Idle
<1>8. CASE UNCHANGED <<call, mutex>>
      BY <1>8
<1>9. QED
      BY <1>1, <1>2, <1>3, <1>4, <1>5, <1>7, <1>8
      DEF Next, StrandStep, PushTask, PushPermanentTask, At,
          RemovePermanentTaskReturns, ThreadTakes, ThreadTurns,
          UserCodeEnds, ThreadClosesOrReopens

\* Nobody pushes to a finalized strand.
LEMMA StepPushing == IInv /\ Next => PushingInv'
<1> SUFFICES ASSUME IInv, Next PROVE PushingInv'
    OBVIOUS
<1> USE StrandAssumption DEF IInv, PushingInv, TypeOK, CallRecords, Places, Threads
<1>1. ASSUME NEW th \in Threads, NEW op \in Ops, NEW s \in Strands, Enter(th, op, s)
      PROVE  PushingInv'
      BY <1>1 DEF Enter
<1>2. ASSUME NEW th \in Threads, Acquire(th) PROVE PushingInv'
      <2>1. /\ call[th].strand \in Strands /\ mutex[call[th].strand] \in {None, th}
            /\ call[th].at = "lock"
            BY <1>2 DEF Acquire, Locks, CallInv, CallOK, Idle
      <2>2. \A o \in Threads : Holds(o, call[th].strand) => o = th
            BY <2>1 DEF MutexInv
      <2>3. CASE call[th].op = "finalize"
            <3>1. /\ finalized' = [finalized EXCEPT ![call[th].strand] = TRUE]
                  /\ call'[th].op = "finalize"
                  /\ \A o \in Threads \ {th} : call'[o] = call[o]
                  BY <1>2, <2>3 DEF Acquire
            <3>2. QED
                  BY <2>1, <2>2, <3>1 DEF Holds, CallInv, CallOK, Idle
      <2>4. CASE call[th].op # "finalize"
            <3>1. /\ finalized' = finalized /\ call'[th].op = call[th].op
                  /\ call'[th].strand = call[th].strand
                  /\ \A o \in Threads \ {th} : call'[o] = call[o]
                  /\ call[th].op = "removePermanentTask" \/ ~finalized[call[th].strand]
                  BY <1>2, <2>4 DEF Acquire, Refuses
            <3>2. QED
                  BY <3>1
      <2>5. QED
            BY <2>3, <2>4
<1>3. ASSUME NEW th \in Threads, RemoveNext(th) PROVE PushingInv'
      BY <1>3 DEF RemoveNext
<1>4. ASSUME NEW th \in Threads, RemoveReturns(th) PROVE PushingInv'
      BY <1>4 DEF RemoveReturns, CallInv, CallOK, Idle
<1>5. ASSUME NEW th \in Threads, FinalizeReturns(th) \/ PushFinalTask(th)
      PROVE  PushingInv'
      BY <1>5 DEF FinalizeReturns, PushFinalTask, At, Idle
<1>6. ASSUME NEW th \in Threads, call' = [call EXCEPT ![th] = Idle], UNCHANGED finalized
      PROVE  PushingInv'
      BY <1>6 DEF Idle
<1>7. CASE UNCHANGED <<call, finalized>>
      BY <1>7
<1>8. QED
      BY <1>1, <1>2, <1>3, <1>4, <1>5, <1>6, <1>7
      DEF Next, StrandStep, Refused, PushTask, PushPermanentTask, Return,
          RemovePermanentTaskReturns, FinalTaskPushed, ThreadTakes, ThreadTurns,
          UserCodeEnds, ThreadClosesOrReopens

\* What a step does to the queue.
LEMMA QueueMoves ==
    ASSUME IInv, Next
    PROVE  \/ waiting' = waiting
           \/ \E th \in Threads, t \in Work, kind \in {"Regular", "Refused"} :
                 /\ PushTask(th) /\ owner[t] = None
                 /\ owner' = [owner EXCEPT ![t] = call[th].strand]
                 /\ waiting' = Append(waiting, [task |-> t, kind |-> kind])
           \/ \E th \in Threads :
                 /\ PushFinalTask(th) /\ open
                 /\ waiting' = Append(waiting, [task |-> call[th].strand, kind |-> "Cleanup"])
           \/ ThreadTakes /\ waiting # << >> /\ waiting' = Tail(waiting)
<1>1. CASE \E th \in Threads : PushTask(th)
      BY <1>1 DEF PushTask, Push
<1>2. CASE \E th \in Threads : PushFinalTask(th)
      BY <1>2 DEF PushFinalTask, Push, Act, FinalKind
<1>3. CASE ThreadTakes
      BY <1>3 DEF ThreadTakes, Begin, GiveUp
<1>4. CASE waiting' = waiting
      BY <1>4
<1>5. QED
      BY <1>1, <1>2, <1>3, <1>4
      DEF Next, StrandStep, Enter, Refused, Acquire, PushPermanentTask, Register,
          RemoveNext, Erase, RemoveReturns, RemovePermanentTaskReturns,
          FinalizeReturns, FinalTaskPushed, ThreadTurns, TurnsBegin, TurnsEnd,
          Turn, UserCodeEnds, End, TurnEnds, ThreadClosesOrReopens, Close, Reopen

\* What a step does to the tasks that run.
LEMMA ExecutingMoves ==
    ASSUME IInv, Next
    PROVE  \/ executing' = executing
           \/ /\ ThreadTakes /\ Still /\ waiting # << >> /\ waiting' = Tail(waiting)
              /\ executing' = << waiting[1].task >>
              /\ begun' = begun \cup {s \in Strands : executing' = <<s>>}
              /\ open \/ waiting[1].kind = "Cleanup"
           \/ \E th \in Threads :
                 /\ PushFinalTask(th) /\ ~open /\ cycle = "none"
                 /\ executing' = Append(executing, call[th].strand)
                 /\ begun' = begun \cup {call[th].strand}
           \/ /\ UserCodeEnds /\ executing # << >>
              /\ executing' = SubSeq(executing, 1, Len(executing) - 1)
<1>1. CASE \E th \in Threads : PushFinalTask(th)
      BY <1>1 DEF PushFinalTask, Push, Act
<1>2. CASE ThreadTakes
      <2>1. waiting # << >> => Head(waiting) = waiting[1]
            BY TailFacts DEF IInv, ThreadTypeOK
      <2>2. QED
            BY <1>2, <2>1 DEF ThreadTakes, Begin, GiveUp
<1>3. CASE UserCodeEnds
      BY <1>3 DEF UserCodeEnds, End, TurnEnds
<1>4. CASE executing' = executing
      BY <1>4
<1>5. QED
      BY <1>1, <1>2, <1>3, <1>4
      DEF Next, StrandStep, Enter, Refused, Acquire, PushTask, Push,
          PushPermanentTask, Register, RemoveNext, Erase, RemoveReturns,
          RemovePermanentTaskReturns, FinalizeReturns, FinalTaskPushed,
          ThreadTurns, TurnsBegin, TurnsEnd, Turn, ThreadClosesOrReopens, Close,
          Reopen

\* How a strand gets to each of the places on the way to its final task.
LEMMA FinalizingMoves ==
    ASSUME IInv, Next, NEW th \in Threads, NEW s \in Strands, Finalizing(th, s)'
    PROVE  \/ Finalizing(th, s)
           \/ /\ Acquire(th) /\ call[th].op = "finalize" /\ call[th].strand = s
              /\ ~finalized[s] /\ finalized'[s]
              /\ UNCHANGED <<threadVars, permanentTasks, begun>>
              /\ call'[th].at = "held" /\ call'[th].ids = permanentTasks[s]
              /\ \A o \in Threads \ {th} : call'[o] = call[o]
<1> USE DEF IInv, TypeOK, CallRecords, Places, Finalizing
<1>1. CASE Acquire(th)
      <2>1. CASE call[th].op = "finalize"
            BY <1>1, <2>1 DEF Acquire, Refuses
      <2>2. CASE call[th].op # "finalize"
            BY <1>1, <2>2 DEF Acquire
      <2>3. QED
            BY <2>1, <2>2
<1>2. CASE RemoveNext(th) \/ RemoveReturns(th) \/ FinalizeReturns(th)
      BY <1>2 DEF RemoveNext, RemoveReturns, FinalizeReturns, At
<1>3. CASE PushFinalTask(th)
      BY <1>3 DEF PushFinalTask, At, Idle
<1>4. CASE call'[th] = call[th]
      BY <1>4
<1>5. CASE call'[th].at \notin {"held", "wait", "push"}
      BY <1>5
<1>6. ASSUME NEW o \in Threads, NEW op \in Ops, NEW x \in Strands, Enter(o, op, x)
      PROVE  call'[th] = call[th] \/ call'[th].at = "lock"
      BY <1>6 DEF Enter
<1>7. ASSUME NEW o \in Threads, o # th, StrandStep(o) PROVE call'[th] = call[th]
      <2>1. CASE Acquire(o)
            BY <1>7, <2>1 DEF Acquire
      <2>2. CASE RemoveNext(o)
            BY <1>7, <2>2 DEF RemoveNext
      <2>3. QED
            BY <1>7, <2>1, <2>2
            DEF StrandStep, Refused, PushTask, PushPermanentTask, Return,
                RemoveReturns, RemovePermanentTaskReturns, FinalizeReturns,
                PushFinalTask, FinalTaskPushed
<1>8. ASSUME Refused(th) \/ PushTask(th) \/ PushPermanentTask(th)
               \/ RemovePermanentTaskReturns(th) \/ FinalTaskPushed(th)
      PROVE  call'[th].at = "none"
      BY <1>8 DEF Refused, PushTask, PushPermanentTask, Return,
                  RemovePermanentTaskReturns, FinalTaskPushed, Idle
<1>9. CASE ThreadTakes \/ ThreadTurns \/ UserCodeEnds \/ ThreadClosesOrReopens
      BY <1>4, <1>9 DEF ThreadTakes, ThreadTurns, UserCodeEnds, ThreadClosesOrReopens
<1>10. QED
      BY <1>1, <1>2, <1>3, <1>4, <1>5, <1>6, <1>7, <1>8, <1>9 DEF Next, StrandStep

LEMMA PushFinalMoves ==
    ASSUME IInv, NEW th \in Threads, PushFinalTask(th)
    PROVE  /\ call[th].strand \in Strands /\ Finalizing(th, call[th].strand)
           /\ call[th].at = "push"
           /\ \A s \in Strands : ~Finalizing(th, s)'
           /\ \A o \in Threads \ {th} : call'[o] = call[o]
           /\ UNCHANGED <<finalized, permanentTasks, owner, turnVars>>
<1> USE DEF IInv, TypeOK, CallRecords, Places, Finalizing
<1>1. /\ call[th].strand \in Strands /\ Finalizing(th, call[th].strand)
      /\ call[th].at = "push"
      BY DEF PushFinalTask, At, CallInv, CallOK, Idle
<1>2. /\ \A s \in Strands : ~Finalizing(th, s)'
      /\ \A o \in Threads \ {th} : call'[o] = call[o]
      BY DEF PushFinalTask, Idle
<1>3. QED
      BY <1>1, <1>2 DEF PushFinalTask, Push, Act

LEMMA QueuedMoves ==
    ASSUME IInv, Next, NEW s \in Strands, Queued(s)'
    PROVE  \/ Queued(s)
           \/ \E th \in Threads :
                 /\ PushFinalTask(th) /\ call[th].strand = s /\ open
                 /\ waiting' = Append(waiting, [task |-> s, kind |-> "Cleanup"])
<1> USE StrandAssumption DEF IInv, ThreadTypeOK, Queued
<1>1. CASE waiting' = waiting
      BY <1>1
<1>2. ASSUME NEW t \in Work, NEW kind \in {"Regular", "Refused"},
             waiting' = Append(waiting, [task |-> t, kind |-> kind])
      PROVE  Queued(s)
      <2>1. [task |-> t, kind |-> kind] \in Entry /\ t # s
            BY DEF Entry, QueueKinds
      <2>2. QED
            BY <1>2, <2>1, AppendFacts
<1>3. ASSUME NEW th \in Threads, PushFinalTask(th), open,
             waiting' = Append(waiting, [task |-> call[th].strand, kind |-> "Cleanup"])
      PROVE  Queued(s) \/ call[th].strand = s
      <2>1. [task |-> call[th].strand, kind |-> "Cleanup"] \in Entry
            BY <1>3, PushFinalMoves DEF Entry, QueueKinds
      <2>2. QED
            BY <1>3, <2>1, AppendFacts
<1>4. CASE waiting # << >> /\ waiting' = Tail(waiting)
      BY <1>4, TailFacts
<1>5. QED
      BY <1>1, <1>2, <1>3, <1>4, QueueMoves

LEMMA BegunMoves ==
    ASSUME IInv, Next, NEW s \in Strands, s \in begun'
    PROVE  \/ s \in begun
           \/ /\ ThreadTakes /\ Still /\ waiting # << >> /\ waiting' = Tail(waiting)
              /\ waiting[1].task = s /\ Queued(s) /\ executing' = <<s>>
           \/ \E th \in Threads :
                 /\ PushFinalTask(th) /\ call[th].strand = s /\ ~open /\ cycle = "none"
                 /\ waiting' = waiting /\ executing' = Append(executing, s)
<1> USE DEF IInv, ThreadTypeOK
<1>1. ASSUME ThreadTakes, s \notin begun
      PROVE  /\ Still /\ waiting # << >> /\ waiting' = Tail(waiting)
             /\ waiting[1].task = s /\ Queued(s) /\ executing' = <<s>>
      <2>1. executing' = <<s>>
            BY <1>1 DEF ThreadTakes
      <2>2. Still /\ waiting # << >> /\ waiting' = Tail(waiting)
            BY <1>1 DEF ThreadTakes, Begin, GiveUp
      <2>3. executing' = << Head(waiting).task >>
            BY <1>1, <2>1, <2>2 DEF ThreadTakes, Begin, GiveUp, Still
      <2>4. QED
            BY <2>1, <2>2, <2>3, TailFacts DEF Queued
<1>2. CASE \E th \in Threads : PushFinalTask(th)
      BY <1>2 DEF PushFinalTask, Act
<1>3. CASE begun' = begun
      BY <1>3
<1>4. QED
      BY <1>1, <1>2, <1>3
      DEF Next, StrandStep, Enter, Refused, Acquire, PushTask,
          PushPermanentTask, RemoveNext, RemoveReturns,
          RemovePermanentTaskReturns, FinalizeReturns, FinalTaskPushed,
          ThreadTurns, UserCodeEnds, ThreadClosesOrReopens

\* A finalized strand stays finalized.
LEMMA FinalizedStays ==
    ASSUME IInv, Next, NEW s \in Strands, finalized[s]
    PROVE  finalized'[s]
<1>1. ASSUME NEW th \in Threads, Acquire(th) PROVE finalized'[s]
      BY <1>1 DEF Acquire, IInv, TypeOK
<1>2. QED
      BY <1>1
      DEF Next, StrandStep, Enter, Refused, PushTask, PushPermanentTask,
          RemoveNext, RemoveReturns, RemovePermanentTaskReturns,
          FinalizeReturns, PushFinalTask, FinalTaskPushed, ThreadTakes,
          ThreadTurns, UserCodeEnds, ThreadClosesOrReopens

\* A strand is at one place on the way to its final task, once.
LEMMA StepOnce == IInv /\ Next => OnceInv'
<1> SUFFICES ASSUME IInv, Next, NEW s \in Strands
    PROVE /\ \A th \in Threads : Finalizing(th, s)' => finalized'[s] /\ ~Queued(s)' /\ s \notin begun'
          /\ \A t1, t2 \in Threads : Finalizing(t1, s)' /\ Finalizing(t2, s)' => t1 = t2
          /\ Queued(s)' => finalized'[s] /\ s \notin begun'
          /\ \A i, j \in DOMAIN waiting' : waiting'[i].task = s /\ waiting'[j].task = s => i = j
          /\ s \in begun' => finalized'[s]
          /\ \A i \in DOMAIN executing' : executing'[i] = s => s \in begun'
          /\ \A i, j \in DOMAIN executing' : executing'[i] = s /\ executing'[j] = s => i = j
    BY DEF OnceInv
<1>0. OnceInv /\ ThreadTypeOK
      BY DEF IInv
<1>1. ASSUME NEW th \in Threads, Finalizing(th, s)'
      PROVE  finalized'[s] /\ ~Queued(s)' /\ s \notin begun'
      <2>1. CASE Finalizing(th, s)
            <3>1. /\ finalized'[s] /\ ~Queued(s) /\ s \notin begun
                  BY <1>0, <2>1, FinalizedStays DEF OnceInv
            <3>2. ASSUME NEW o \in Threads, PushFinalTask(o), call[o].strand = s PROVE FALSE
                  <4>1. Finalizing(o, s) /\ ~Finalizing(o, s)'
                        BY <3>2, PushFinalMoves
                  <4>2. o = th
                        BY <1>0, <2>1, <4>1 DEF OnceInv
                  <4>3. QED
                        BY <1>1, <4>1, <4>2
            <3>3. QED
                  BY <3>1, <3>2, QueuedMoves, BegunMoves
      <2>2. CASE ~Finalizing(th, s)
            <3>1. ~finalized[s] /\ finalized'[s] /\ waiting' = waiting /\ begun' = begun
                  BY <1>1, <2>2, FinalizingMoves
            <3>2. ~Queued(s) /\ s \notin begun
                  BY <1>0, <3>1 DEF OnceInv
            <3>3. QED
                  BY <3>1, <3>2 DEF Queued
      <2>3. QED
            BY <2>1, <2>2
<1>2. ASSUME NEW t1 \in Threads, NEW t2 \in Threads, Finalizing(t1, s)', Finalizing(t2, s)'
      PROVE  t1 = t2
      <2>1. CASE Finalizing(t1, s) /\ Finalizing(t2, s)
            BY <1>0, <2>1 DEF OnceInv
      <2>2. CASE ~Finalizing(t1, s)
            <3>1. ~finalized[s] /\ \A o \in Threads \ {t1} : call'[o] = call[o]
                  BY <1>2, <2>2, FinalizingMoves
            <3>2. ~Finalizing(t2, s)
                  BY <1>0, <3>1 DEF OnceInv
            <3>3. QED
                  BY <1>2, <3>1, <3>2 DEF Finalizing
      <2>3. CASE ~Finalizing(t2, s)
            <3>1. ~finalized[s] /\ \A o \in Threads \ {t2} : call'[o] = call[o]
                  BY <1>2, <2>3, FinalizingMoves
            <3>2. ~Finalizing(t1, s)
                  BY <1>0, <3>1 DEF OnceInv
            <3>3. QED
                  BY <1>2, <3>1, <3>2 DEF Finalizing
      <2>4. QED
            BY <2>1, <2>2, <2>3
<1>3. \A i, j \in DOMAIN waiting' : waiting'[i].task = s /\ waiting'[j].task = s => i = j
      <2>1. \A i, j \in DOMAIN waiting : waiting[i].task = s /\ waiting[j].task = s => i = j
            BY <1>0 DEF OnceInv
      <2>2. ASSUME NEW t \in Work, NEW kind \in {"Regular", "Refused"},
                   waiting' = Append(waiting, [task |-> t, kind |-> kind])
            PROVE  \A i, j \in DOMAIN waiting' : waiting'[i].task = s /\ waiting'[j].task = s => i = j
            <3>1. [task |-> t, kind |-> kind] \in Entry /\ t # s
                  BY StrandAssumption DEF Entry, QueueKinds
            <3>2. QED
                  BY <1>0, <2>1, <2>2, <3>1, AppendFacts DEF ThreadTypeOK
      <2>3. ASSUME NEW th \in Threads, PushFinalTask(th),
                   waiting' = Append(waiting, [task |-> call[th].strand, kind |-> "Cleanup"])
            PROVE  \A i, j \in DOMAIN waiting' : waiting'[i].task = s /\ waiting'[j].task = s => i = j
            <3>1. [task |-> call[th].strand, kind |-> "Cleanup"] \in Entry
                  BY <2>3, PushFinalMoves, StrandAssumption DEF Entry, QueueKinds
            <3>2. ~Queued(call[th].strand)
                  BY <1>0, <2>3, PushFinalMoves DEF OnceInv
            <3>3. QED
                  BY <1>0, <2>1, <2>3, <3>1, <3>2, AppendFacts DEF ThreadTypeOK, Queued
      <2>4. CASE waiting # << >> /\ waiting' = Tail(waiting)
            BY <1>0, <2>1, <2>4, TailFacts DEF ThreadTypeOK
      <2>5. QED
            BY <2>1, <2>2, <2>3, <2>4, QueueMoves
<1>4. Queued(s)' => finalized'[s] /\ s \notin begun'
      <2>1. SUFFICES ASSUME Queued(s)' PROVE finalized'[s] /\ s \notin begun'
            OBVIOUS
      <2>2. CASE Queued(s)
            <3>1. finalized'[s] /\ s \notin begun
                  BY <1>0, <2>2, FinalizedStays DEF OnceInv
            <3>2. ASSUME waiting # << >>, waiting' = Tail(waiting), waiting[1].task = s PROVE FALSE
                  <4>1. PICK i \in DOMAIN waiting' : waiting'[i].task = s
                        BY <2>1 DEF Queued
                  <4>2. /\ i + 1 \in DOMAIN waiting /\ waiting[i + 1].task = s /\ i + 1 # 1
                        /\ 1 \in DOMAIN waiting
                        BY <1>0, <3>2, <4>1, TailFacts DEF ThreadTypeOK
                  <4>3. QED
                        BY <1>0, <3>2, <4>2 DEF OnceInv
            <3>3. ASSUME NEW th \in Threads, PushFinalTask(th), call[th].strand = s PROVE FALSE
                  BY <1>0, <2>2, <3>3, PushFinalMoves DEF OnceInv
            <3>4. QED
                  BY <3>1, <3>2, <3>3, BegunMoves
      <2>3. ASSUME NEW th \in Threads, PushFinalTask(th), call[th].strand = s, open, ~Queued(s)
            PROVE  finalized'[s] /\ s \notin begun'
            <3>1. finalized'[s] /\ s \notin begun
                  BY <1>0, <2>3, PushFinalMoves, FinalizedStays DEF OnceInv
            <3>2. QED
                  BY <2>3, <3>1, BegunMoves
      <2>4. QED
            BY <2>1, <2>2, <2>3, QueuedMoves
<1>5. s \in begun' => finalized'[s]
      BY <1>0, BegunMoves, PushFinalMoves, FinalizedStays DEF OnceInv
<1>6. /\ \A i \in DOMAIN executing' : executing'[i] = s => s \in begun'
      /\ \A i, j \in DOMAIN executing' : executing'[i] = s /\ executing'[j] = s => i = j
      <2>1. /\ \A i \in DOMAIN executing : executing[i] = s => s \in begun
            /\ \A i, j \in DOMAIN executing : executing[i] = s /\ executing[j] = s => i = j
            BY <1>0 DEF OnceInv
      <2>2. begun \subseteq begun'
            BY DEF Next, StrandStep, Enter, Refused, Acquire, PushTask,
                PushPermanentTask, RemoveNext, RemoveReturns, PushFinalTask,
                RemovePermanentTaskReturns, FinalizeReturns, FinalTaskPushed,
                ThreadTakes, ThreadTurns, UserCodeEnds, ThreadClosesOrReopens
      <2>3. CASE executing' = executing
            BY <2>1, <2>2, <2>3
      <2>4. ASSUME NEW x, executing' = <<x>>,
                   begun' = begun \cup {y \in Strands : executing' = <<y>>}
            PROVE  /\ \A i \in DOMAIN executing' : executing'[i] = s => s \in begun'
                   /\ \A i, j \in DOMAIN executing' :
                         executing'[i] = s /\ executing'[j] = s => i = j
            BY <2>4
      <2>5. ASSUME NEW th \in Threads, PushFinalTask(th),
                   executing' = Append(executing, call[th].strand),
                   begun' = begun \cup {call[th].strand}
            PROVE  /\ \A i \in DOMAIN executing' : executing'[i] = s => s \in begun'
                   /\ \A i, j \in DOMAIN executing' :
                         executing'[i] = s /\ executing'[j] = s => i = j
            <3>1. call[th].strand \in Tasks /\ call[th].strand \notin begun
                  BY <1>0, <2>5, PushFinalMoves, StrandAssumption DEF OnceInv
            <3>2. QED
                  BY <1>0, <2>1, <2>5, <3>1, AppendFacts DEF ThreadTypeOK
      <2>6. CASE executing # << >> /\ executing' = SubSeq(executing, 1, Len(executing) - 1)
            BY <1>0, <2>1, <2>2, <2>6 DEF ThreadTypeOK
      <2>7. QED
            BY <2>3, <2>4, <2>5, <2>6, ExecutingMoves
<1>7. QED
      BY <1>1, <1>2, <1>3, <1>4, <1>5, <1>6

\* No step registers a permanent task again.
LEMMA PermanentMoves ==
    ASSUME IInv, Next, NEW id \in issued
    PROVE  /\ id \in permanents' => id \in permanents
           /\ id \in due' => id \in due \cup permanents
           /\ id = turn' => id = turn \/ id \in due
           /\ Gone(id) => Gone(id)'
<1> USE NoTurnAssumption DEF IInv, ThreadTypeOK, TurnsInv, Gone
<1>1. ASSUME NEW th \in Threads, PushPermanentTask(th) PROVE UNCHANGED threadVars \/ \E x \in Ids : Register(x)
      BY <1>1 DEF PushPermanentTask
<1>2. ASSUME NEW x \in Ids, Register(x)
      PROVE  /\ id \in permanents' => id \in permanents
             /\ UNCHANGED <<due, turn, cycle, erasing>>
      BY <1>2 DEF Register
<1>3. ASSUME NEW th \in Threads, RemoveNext(th)
      PROVE  /\ permanents' \subseteq permanents /\ erasing \subseteq erasing'
             /\ UNCHANGED <<due, turn, cycle>>
      BY <1>3 DEF RemoveNext, Erase
<1>4. CASE ThreadTurns
      BY <1>4 DEF ThreadTurns, TurnsBegin, TurnsEnd, Turn, Still
<1>5. CASE UserCodeEnds
      BY <1>5 DEF UserCodeEnds, End, TurnEnds
<1>6. CASE UNCHANGED <<permanents, cycle, due, turn, erasing>>
      BY <1>6
<1>7. QED
      BY <1>1, <1>2, <1>3, <1>4, <1>5, <1>6
      DEF Next, StrandStep, Enter, Refused, Acquire, PushTask, Push, RemoveReturns,
          RemovePermanentTaskReturns, FinalizeReturns, PushFinalTask, Act,
          FinalTaskPushed, ThreadTakes, Begin, GiveUp, ThreadClosesOrReopens,
          Close, Reopen

\* A finalized strand gets no permanent tasks.
LEMMA PermanentTasksShrink ==
    ASSUME IInv, Next, NEW s \in Strands, finalized[s]
    PROVE  permanentTasks'[s] \subseteq permanentTasks[s]
<1>1. ASSUME NEW th \in Threads, Acquire(th)
      PROVE  permanentTasks'[s] \subseteq permanentTasks[s]
      BY <1>1 DEF Acquire, IInv, TypeOK
<1>2. ASSUME NEW th \in Threads, PushPermanentTask(th)
      PROVE  permanentTasks'[s] \subseteq permanentTasks[s]
      <2>1. call[th].strand # s
            BY <1>2 DEF PushPermanentTask, At, IInv, PushingInv
      <2>2. QED
            BY <1>2, <2>1 DEF PushPermanentTask, IInv, TypeOK
<1>3. QED
      BY <1>1, <1>2
      DEF Next, StrandStep, Enter, Refused, PushTask, RemoveNext, RemoveReturns,
          RemovePermanentTaskReturns, FinalizeReturns, PushFinalTask,
          FinalTaskPushed, ThreadTakes, ThreadTurns, UserCodeEnds,
          ThreadClosesOrReopens

\* The steps of the thread that finalizes.
LEMMA FinalizingSteps ==
    ASSUME IInv, Next, NEW th \in Threads, NEW s \in Strands,
           Finalizing(th, s), Finalizing(th, s)'
    PROVE  \/ call'[th] = call[th]
           \/ RemoveNext(th) \/ RemoveReturns(th) \/ FinalizeReturns(th)
<1> USE DEF IInv, TypeOK, CallRecords, Places, Finalizing
<1>1. ASSUME NEW o \in Threads, o # th, StrandStep(o) PROVE call'[th] = call[th]
      <2>1. CASE Acquire(o)
            BY <1>1, <2>1 DEF Acquire
      <2>2. CASE RemoveNext(o)
            BY <1>1, <2>2 DEF RemoveNext
      <2>3. QED
            BY <1>1, <2>1, <2>2
            DEF StrandStep, Refused, PushTask, PushPermanentTask, Return,
                RemoveReturns, RemovePermanentTaskReturns, FinalizeReturns,
                PushFinalTask, FinalTaskPushed
<1>2. ASSUME Refused(th) \/ PushTask(th) \/ PushPermanentTask(th)
               \/ RemovePermanentTaskReturns(th) \/ FinalTaskPushed(th) \/ Acquire(th)
      PROVE  FALSE
      BY <1>2 DEF Refused, PushTask, PushPermanentTask, Return, Acquire,
                  RemovePermanentTaskReturns, FinalTaskPushed, Idle
<1>3. ~PushFinalTask(th)
      BY PushFinalMoves
<1>4. ASSUME NEW o \in Threads, NEW op \in Ops, NEW x \in Strands, Enter(o, op, x)
      PROVE  call'[th] = call[th]
      BY <1>4 DEF Enter, Idle
<1>5. QED
      BY <1>1, <1>2, <1>3, <1>4
      DEF Next, StrandStep, ThreadTakes, ThreadTurns, UserCodeEnds, ThreadClosesOrReopens

\* The permanent tasks of a strand go before its final task begins.
LEMMA StepErased == IInv /\ Next => ErasedInv'
<1> SUFFICES ASSUME IInv, Next, NEW s \in Strands
    PROVE /\ \A th \in Threads : Finalizing(th, s)' =>
                \A id \in permanentTasks'[s] :
                    Gone(id)' \/ (call'[th].at # "push" /\ id \in call'[th].ids)
          /\ Queued(s)' => \A id \in permanentTasks'[s] : Gone(id)'
          /\ s \in begun' => /\ permanentTasks'[s] \cap (permanents' \cup due') = {}
                             /\ turn' \notin permanentTasks'[s]
    BY DEF ErasedInv
<1>0. /\ ErasedInv /\ OnceInv /\ TurnsInv /\ TypeOK /\ permanentTasks[s] \subseteq issued
      /\ permanentTasks[s] \subseteq Ids
      BY DEF IInv, TurnsInv, TypeOK
<1>1. ASSUME NEW th \in Threads, Finalizing(th, s)', NEW id \in permanentTasks'[s]
      PROVE  Gone(id)' \/ (call'[th].at # "push" /\ id \in call'[th].ids)
      <2>1. CASE ~Finalizing(th, s)
            BY <1>1, <2>1, FinalizingMoves
      <2>2. CASE Finalizing(th, s)
            <3>1. id \in permanentTasks[s] /\ id \in issued
                  BY <1>0, <1>1, <2>2, PermanentTasksShrink DEF OnceInv
            <3>2. CASE Gone(id)
                  BY <3>1, <3>2, PermanentMoves
            <3>3. CASE ~Gone(id)
                  <4>1. call[th].at # "push" /\ id \in call[th].ids
                        BY <1>0, <2>2, <3>1, <3>3 DEF ErasedInv
                  <4>2. CASE RemoveNext(th)
                        <5>1. PICK x \in call[th].ids :
                                /\ Erase(x)
                                /\ call'[th].ids = call[th].ids \ {x}
                                /\ call'[th].at \in {"held", "wait"}
                              BY <1>0, <4>2 DEF RemoveNext, TypeOK, CallRecords
                        <5>2. CASE x = id
                              BY <5>1, <5>2 DEF Erase, Gone
                        <5>3. QED
                              BY <4>1, <5>1, <5>2
                  <4>3. CASE RemoveReturns(th)
                        BY <1>0, <4>1, <4>3 DEF RemoveReturns, TypeOK, CallRecords
                  <4>4. CASE FinalizeReturns(th)
                        BY <4>1, <4>4 DEF FinalizeReturns
                  <4>5. QED
                        BY <1>1, <2>2, <4>1, <4>2, <4>3, <4>4, FinalizingSteps
            <3>4. QED
                  BY <3>2, <3>3
      <2>3. QED
            BY <2>1, <2>2
<1>2. ASSUME Queued(s)', NEW id \in permanentTasks'[s] PROVE Gone(id)'
      <2>1. Queued(s) \/ \E th \in Threads : PushFinalTask(th) /\ call[th].strand = s
            BY <1>2, QueuedMoves
      <2>2. finalized[s]
            BY <1>0, <2>1, PushFinalMoves DEF OnceInv
      <2>3. id \in permanentTasks[s] /\ id \in issued
            BY <1>0, <1>2, <2>2, PermanentTasksShrink
      <2>4. Gone(id)
            BY <1>0, <2>1, <2>3, PushFinalMoves DEF ErasedInv
      <2>5. QED
            BY <2>3, <2>4, PermanentMoves
<1>3. ASSUME s \in begun', NEW id \in permanentTasks'[s]
      PROVE  id \notin permanents' \cup due' /\ id # turn'
      <2>1. CASE s \in begun
            <3>1. id \in permanentTasks[s] /\ id \in issued
                  BY <1>0, <1>3, <2>1, PermanentTasksShrink DEF OnceInv
            <3>2. id \notin permanents \cup due /\ id # turn
                  BY <1>0, <2>1, <3>1 DEF ErasedInv
            <3>3. QED
                  BY <3>1, <3>2, PermanentMoves
      <2>2. CASE s \notin begun
            <3>1. /\ cycle = "none"
                  /\ Queued(s) \/ \E th \in Threads : PushFinalTask(th) /\ call[th].strand = s
                  BY <1>3, <2>2, BegunMoves DEF Still
            <3>2. finalized[s]
                  BY <1>0, <3>1, PushFinalMoves DEF OnceInv
            <3>3. id \in permanentTasks[s] /\ id \in issued /\ id \in Ids
                  BY <1>0, <1>3, <3>2, PermanentTasksShrink
            <3>4. Gone(id)
                  BY <1>0, <3>1, <3>3, PushFinalMoves DEF ErasedInv
            <3>5. id \notin permanents \cup due /\ id # turn
                  BY <1>0, <3>1, <3>3, <3>4, NoTurnAssumption DEF Gone, TurnsInv
            <3>6. QED
                  BY <3>3, <3>5, PermanentMoves
      <2>3. QED
            BY <2>1, <2>2
<1>4. QED
      BY <1>1, <1>2, <1>3

\* A task is pushed through one strand only.
LEMMA OwnerStays ==
    ASSUME IInv, Next, NEW t \in Work, owner[t] # None
    PROVE  owner'[t] = owner[t]
<1>1. ASSUME NEW th \in Threads, PushTask(th) PROVE owner'[t] = owner[t]
      BY <1>1 DEF PushTask, IInv, TypeOK
<1>2. QED
      BY <1>1
      DEF Next, StrandStep, Enter, Refused, Acquire, PushPermanentTask,
          RemoveNext, RemoveReturns, RemovePermanentTaskReturns,
          FinalizeReturns, PushFinalTask, FinalTaskPushed, ThreadTakes,
          ThreadTurns, UserCodeEnds, ThreadClosesOrReopens

\* The thread closes when it is still, and reopens with an empty queue.
LEMMA OpenMoves ==
    ASSUME IInv, Next
    PROVE  \/ open' = open
           \/ /\ open /\ executing = << >>
              /\ UNCHANGED <<waiting, executing, begun, owner>>
           \/ /\ ~open /\ waiting = << >>
              /\ UNCHANGED <<waiting, executing, begun, owner>>
<1>1. CASE ThreadClosesOrReopens
      BY <1>1 DEF ThreadClosesOrReopens, Close, Reopen, Still
<1>2. CASE open' = open
      BY <1>2
<1>3. QED
      BY <1>1, <1>2
      DEF Next, StrandStep, Enter, Refused, Acquire, PushTask, Push,
          PushPermanentTask, Register, RemoveNext, Erase, RemoveReturns,
          RemovePermanentTaskReturns, FinalizeReturns, PushFinalTask, Act,
          FinalTaskPushed, ThreadTakes, Begin, GiveUp, ThreadTurns, TurnsBegin,
          TurnsEnd, Turn, UserCodeEnds, End, TurnEnds

\* A thread pushes a task to a strand that is not finalized.
LEMMA PushTaskMoves ==
    ASSUME IInv, NEW th \in Threads, PushTask(th), NEW t \in Work,
           owner' = [owner EXCEPT ![t] = call[th].strand]
    PROVE  /\ owner'[t] = call[th].strand /\ call[th].strand \in Strands
           /\ ~finalized[call[th].strand] /\ owner'[t] # None
<1>1. /\ call[th].strand \in Strands /\ ~finalized[call[th].strand]
      BY DEF PushTask, At, IInv, CallInv, CallOK, Idle, PushingInv
<1>2. owner'[t] = call[th].strand
      BY DEF IInv, TypeOK
<1>3. QED
      BY <1>1, <1>2, StrandAssumption

\* The queue holds work with an owner and final tasks, each of its kind.
LEMMA StepQueue == IInv /\ Next => QueueInv'
<1> SUFFICES ASSUME IInv, Next PROVE QueueInv'
    OBVIOUS
<1>0. QueueInv /\ ThreadTypeOK
      BY DEF IInv
<1>1. \A i \in DOMAIN waiting' :
          /\ waiting'[i].task \in Strands <=> waiting'[i].kind = "Cleanup"
          /\ waiting'[i].task \in Work => owner'[waiting'[i].task] # None
      <2>1. \A i \in DOMAIN waiting :
                /\ waiting[i].task \in Strands <=> waiting[i].kind = "Cleanup"
                /\ waiting[i].task \in Work => owner'[waiting[i].task] # None
            BY <1>0, OwnerStays DEF QueueInv
      <2>2. ASSUME NEW e \in Entry, waiting' = Append(waiting, e),
                   e.task \in Strands <=> e.kind = "Cleanup",
                   e.task \in Work => owner'[e.task] # None
            PROVE  \A i \in DOMAIN waiting' :
                      /\ waiting'[i].task \in Strands <=> waiting'[i].kind = "Cleanup"
                      /\ waiting'[i].task \in Work => owner'[waiting'[i].task] # None
            BY <1>0, <2>1, <2>2, AppendFacts DEF ThreadTypeOK
      <2>3. ASSUME NEW th \in Threads, NEW t \in Work, NEW kind \in {"Regular", "Refused"},
                   PushTask(th), owner' = [owner EXCEPT ![t] = call[th].strand],
                   waiting' = Append(waiting, [task |-> t, kind |-> kind])
            PROVE  \A i \in DOMAIN waiting' :
                      /\ waiting'[i].task \in Strands <=> waiting'[i].kind = "Cleanup"
                      /\ waiting'[i].task \in Work => owner'[waiting'[i].task] # None
            <3>1. [task |-> t, kind |-> kind] \in Entry /\ t \notin Strands /\ owner'[t] # None
                  BY <2>3, PushTaskMoves, StrandAssumption DEF Entry, QueueKinds
            <3>2. QED
                  BY <2>2, <2>3, <3>1
      <2>4. ASSUME NEW th \in Threads, PushFinalTask(th),
                   waiting' = Append(waiting, [task |-> call[th].strand, kind |-> "Cleanup"])
            PROVE  \A i \in DOMAIN waiting' :
                      /\ waiting'[i].task \in Strands <=> waiting'[i].kind = "Cleanup"
                      /\ waiting'[i].task \in Work => owner'[waiting'[i].task] # None
            <3>1. /\ [task |-> call[th].strand, kind |-> "Cleanup"] \in Entry
                  /\ call[th].strand \in Strands /\ call[th].strand \notin Work
                  BY <2>4, PushFinalMoves, StrandAssumption DEF Entry, QueueKinds
            <3>2. QED
                  BY <2>2, <2>4, <3>1
      <2>5. CASE waiting # << >> /\ waiting' = Tail(waiting)
            BY <1>0, <2>1, <2>5, TailFacts DEF ThreadTypeOK
      <2>6. QED
            BY <2>1, <2>3, <2>4, <2>5, QueueMoves
<1>2. /\ \A i \in DOMAIN executing' : executing'[i] \in Work => owner'[executing'[i]] # None
      /\ ~open => \A i \in DOMAIN executing' : executing'[i] \in Strands
      <2>1. /\ \A i \in DOMAIN executing : executing[i] \in Work => owner'[executing[i]] # None
            /\ ~open => \A i \in DOMAIN executing : executing[i] \in Strands
            BY <1>0, OwnerStays DEF QueueInv
      <2>2. CASE executing' = executing
            BY <2>1, <2>2
      <2>3. ASSUME waiting # << >>, executing' = << waiting[1].task >>,
                   open \/ waiting[1].kind = "Cleanup"
            PROVE  /\ \A i \in DOMAIN executing' :
                         executing'[i] \in Work => owner'[executing'[i]] # None
                   /\ ~open => \A i \in DOMAIN executing' : executing'[i] \in Strands
            <3>1. 1 \in DOMAIN waiting
                  BY <1>0, <2>3, TailFacts DEF ThreadTypeOK
            <3>2. /\ waiting[1].task \in Work => owner'[waiting[1].task] # None
                  /\ ~open => waiting[1].task \in Strands
                  BY <1>0, <2>3, <3>1, OwnerStays DEF QueueInv
            <3>3. QED
                  BY <2>3, <3>2
      <2>4. ASSUME NEW th \in Threads, PushFinalTask(th),
                   executing' = Append(executing, call[th].strand)
            PROVE  /\ \A i \in DOMAIN executing' :
                         executing'[i] \in Work => owner'[executing'[i]] # None
                   /\ ~open => \A i \in DOMAIN executing' : executing'[i] \in Strands
            <3>1. call[th].strand \in Strands /\ call[th].strand \in Tasks /\ call[th].strand \notin Work
                  BY <2>4, PushFinalMoves, StrandAssumption
            <3>2. QED
                  BY <1>0, <2>1, <2>4, <3>1, AppendFacts DEF ThreadTypeOK
      <2>5. CASE executing # << >> /\ executing' = SubSeq(executing, 1, Len(executing) - 1)
            BY <1>0, <2>1, <2>5 DEF ThreadTypeOK
      <2>6. QED
            BY <2>2, <2>3, <2>4, <2>5, ExecutingMoves
<1>3. ~open' => \A i \in DOMAIN executing' : executing'[i] \in Strands
      BY <1>2, OpenMoves
<1>4. QED
      BY <1>1, <1>2, <1>3 DEF QueueInv

\* Work of a strand stays ahead of its final task, and never runs after it.
LEMMA StepOrder == IInv /\ Next => OrderInv'
<1> SUFFICES ASSUME IInv, Next, NEW s \in Strands
    PROVE /\ \A i, j \in DOMAIN waiting' :
                waiting'[i].task = s /\ waiting'[j].task \in Work
                  /\ owner'[waiting'[j].task] = s => j < i
          /\ s \in begun' =>
                /\ \A i \in DOMAIN executing' : executing'[i] \in Work => owner'[executing'[i]] # s
                /\ open' => \A i \in DOMAIN waiting' :
                              waiting'[i].task \in Work => owner'[waiting'[i].task] # s
    BY DEF OrderInv
<1>0. /\ OrderInv /\ QueueInv /\ OnceInv /\ ThreadTypeOK
      /\ \A i \in DOMAIN waiting : waiting[i].task \in Work =>
            owner'[waiting[i].task] = owner[waiting[i].task]
      /\ \A i \in DOMAIN executing : executing[i] \in Work =>
            owner'[executing[i]] = owner[executing[i]]
      BY OwnerStays DEF IInv, QueueInv
<1>1. \A i, j \in DOMAIN waiting' :
          waiting'[i].task = s /\ waiting'[j].task \in Work
            /\ owner'[waiting'[j].task] = s => j < i
      <2>1. \A i, j \in DOMAIN waiting :
                waiting[i].task = s /\ waiting[j].task \in Work
                  /\ owner'[waiting[j].task] = s => j < i
            BY <1>0 DEF OrderInv
      <2>2. ASSUME NEW th \in Threads, NEW t \in Work, NEW kind \in {"Regular", "Refused"},
                   PushTask(th), owner' = [owner EXCEPT ![t] = call[th].strand],
                   waiting' = Append(waiting, [task |-> t, kind |-> kind])
            PROVE  \A i, j \in DOMAIN waiting' :
                      waiting'[i].task = s /\ waiting'[j].task \in Work
                        /\ owner'[waiting'[j].task] = s => j < i
            <3>1. [task |-> t, kind |-> kind] \in Entry /\ t \notin Strands
                  BY StrandAssumption DEF Entry, QueueKinds
            <3>2. Queued(s) => owner'[t] # s
                  <4>1. owner'[t] = call[th].strand /\ ~finalized[call[th].strand]
                        BY <1>0, <2>2, PushTaskMoves
                  <4>2. Queued(s) => finalized[s]
                        BY <1>0 DEF OnceInv
                  <4>3. QED
                        BY <4>1, <4>2
            <3>3. QED
                  BY <1>0, <2>1, <2>2, <3>1, <3>2, AppendFacts DEF ThreadTypeOK, Queued
      <2>3. ASSUME NEW th \in Threads, PushFinalTask(th),
                   waiting' = Append(waiting, [task |-> call[th].strand, kind |-> "Cleanup"])
            PROVE  \A i, j \in DOMAIN waiting' :
                      waiting'[i].task = s /\ waiting'[j].task \in Work
                        /\ owner'[waiting'[j].task] = s => j < i
            <3>1. /\ [task |-> call[th].strand, kind |-> "Cleanup"] \in Entry
                  /\ call[th].strand \notin Work
                  BY <2>3, PushFinalMoves, StrandAssumption DEF Entry, QueueKinds
            <3>2. QED
                  BY <1>0, <2>1, <2>3, <3>1, AppendFacts DEF ThreadTypeOK
      <2>4. CASE waiting # << >> /\ waiting' = Tail(waiting)
            <3>1. SUFFICES ASSUME NEW i \in DOMAIN waiting', NEW j \in DOMAIN waiting',
                                  waiting'[i].task = s, waiting'[j].task \in Work,
                                  owner'[waiting'[j].task] = s
                           PROVE  j < i
                  OBVIOUS
            <3>2. /\ i \in Nat /\ i + 1 \in DOMAIN waiting /\ waiting'[i] = waiting[i + 1]
                  /\ j \in Nat /\ j + 1 \in DOMAIN waiting /\ waiting'[j] = waiting[j + 1]
                  BY <1>0, <2>4, TailFacts DEF ThreadTypeOK
            <3>3. j + 1 < i + 1
                  BY <2>1, <3>1, <3>2
            <3>4. QED
                  BY <3>2, <3>3
      <2>5. QED
            BY <2>1, <2>2, <2>3, <2>4, QueueMoves
<1>2. ASSUME s \in begun'
      PROVE  \A i \in DOMAIN executing' : executing'[i] \in Work => owner'[executing'[i]] # s
      <2>1. CASE s \in begun
            <3>1. \A i \in DOMAIN executing : executing[i] \in Work => owner'[executing[i]] # s
                  BY <1>0, <2>1 DEF OrderInv
            <3>2. ASSUME waiting # << >>, executing' = << waiting[1].task >>,
                         open \/ waiting[1].kind = "Cleanup"
                  PROVE  \A i \in DOMAIN executing' :
                            executing'[i] \in Work => owner'[executing'[i]] # s
                  <4>1. 1 \in DOMAIN waiting
                        BY <1>0, <3>2, TailFacts DEF ThreadTypeOK
                  <4>2. waiting[1].task \in Work => owner'[waiting[1].task] # s
                        BY <1>0, <2>1, <3>2, <4>1, StrandAssumption DEF OrderInv, QueueInv
                  <4>3. QED
                        BY <3>2, <4>2
            <3>3. ASSUME NEW th \in Threads, PushFinalTask(th),
                         executing' = Append(executing, call[th].strand)
                  PROVE  \A i \in DOMAIN executing' :
                            executing'[i] \in Work => owner'[executing'[i]] # s
                  <4>1. call[th].strand \in Tasks /\ call[th].strand \notin Work
                        BY <3>3, PushFinalMoves, StrandAssumption
                  <4>2. QED
                        BY <1>0, <3>1, <3>3, <4>1, AppendFacts DEF ThreadTypeOK
            <3>4. CASE executing # << >> /\ executing' = SubSeq(executing, 1, Len(executing) - 1)
                  BY <1>0, <3>1, <3>4 DEF ThreadTypeOK
            <3>5. QED
                  BY <3>1, <3>2, <3>3, <3>4, ExecutingMoves
      <2>2. CASE executing' = <<s>>
            BY <2>2, StrandAssumption
      <2>3. CASE ~open /\ executing' = Append(executing, s)
            <3>1. \A i \in DOMAIN executing : executing[i] \notin Work
                  BY <1>0, <2>3, StrandAssumption DEF QueueInv
            <3>2. s \in Tasks /\ s \notin Work
                  BY StrandAssumption
            <3>3. QED
                  BY <1>0, <2>3, <3>1, <3>2, AppendFacts DEF ThreadTypeOK
      <2>4. QED
            BY <1>2, <2>1, <2>2, <2>3, BegunMoves
<1>3. ASSUME s \in begun', open'
      PROVE  \A i \in DOMAIN waiting' : waiting'[i].task \in Work => owner'[waiting'[i].task] # s
      <2>1. CASE open /\ s \in begun
            <3>1. \A i \in DOMAIN waiting : waiting[i].task \in Work => owner'[waiting[i].task] # s
                  BY <1>0, <2>1 DEF OrderInv
            <3>2. ASSUME NEW th \in Threads, NEW t \in Work, NEW kind \in {"Regular", "Refused"},
                         PushTask(th), owner' = [owner EXCEPT ![t] = call[th].strand],
                         waiting' = Append(waiting, [task |-> t, kind |-> kind])
                  PROVE  \A i \in DOMAIN waiting' :
                            waiting'[i].task \in Work => owner'[waiting'[i].task] # s
                  <4>1. [task |-> t, kind |-> kind] \in Entry
                        BY StrandAssumption DEF Entry, QueueKinds
                  <4>2. owner'[t] # s
                        <5>1. owner'[t] = call[th].strand /\ ~finalized[call[th].strand]
                              BY <1>0, <3>2, PushTaskMoves
                        <5>2. finalized[s]
                              BY <1>0, <2>1 DEF OnceInv
                        <5>3. QED
                              BY <5>1, <5>2
                  <4>3. QED
                        BY <1>0, <3>1, <3>2, <4>1, <4>2, AppendFacts DEF ThreadTypeOK
            <3>3. ASSUME NEW th \in Threads, PushFinalTask(th),
                         waiting' = Append(waiting, [task |-> call[th].strand, kind |-> "Cleanup"])
                  PROVE  \A i \in DOMAIN waiting' :
                            waiting'[i].task \in Work => owner'[waiting'[i].task] # s
                  <4>1. /\ [task |-> call[th].strand, kind |-> "Cleanup"] \in Entry
                        /\ call[th].strand \notin Work
                        BY <3>3, PushFinalMoves, StrandAssumption DEF Entry, QueueKinds
                  <4>2. QED
                        BY <1>0, <3>1, <3>3, <4>1, AppendFacts DEF ThreadTypeOK
            <3>4. CASE waiting # << >> /\ waiting' = Tail(waiting)
                  BY <1>0, <3>1, <3>4, TailFacts DEF ThreadTypeOK
            <3>5. QED
                  BY <3>1, <3>2, <3>3, <3>4, QueueMoves
      <2>2. CASE ~open
            <3>1. waiting' = << >>
                  BY <1>3, <2>2, OpenMoves
            <3>2. QED
                  BY <3>1
      <2>3. CASE open /\ s \notin begun
            <3>1. /\ waiting # << >> /\ waiting' = Tail(waiting) /\ waiting[1].task = s
                  BY <1>3, <2>3, BegunMoves
            <3>2. \A j \in DOMAIN waiting : waiting[j].task \in Work => owner'[waiting[j].task] # s
                  <4>1. 1 \in DOMAIN waiting /\ \A j \in DOMAIN waiting : ~(j < 1)
                        BY <1>0, <3>1, TailFacts DEF ThreadTypeOK
                  <4>2. QED
                        BY <1>0, <3>1, <4>1 DEF OrderInv
            <3>3. QED
                  BY <1>0, <3>1, <3>2, TailFacts DEF ThreadTypeOK
      <2>4. QED
            BY <2>1, <2>2, <2>3
<1>4. QED
      BY <1>1, <1>2, <1>3
-----------------------------------------------------------------------------
\* The inductive invariant holds in every reachable state, whatever calls are
\* made on the strands and from whichever threads.
THEOREM StrandsCorrect == Spec => []IInv
<1>1. IInv /\ [Next]_vars => IInv'
      <2>1. CASE Next
            BY <2>1, StepThreadType, StepType, StepTurns, StepCall, StepMutex,
               StepOnce, StepPushing, StepErased, StepQueue, StepOrder DEF IInv
      <2>2. CASE UNCHANGED vars
            BY <2>2
            DEF vars, IInv, ThreadTypeOK, TypeOK, TurnsInv, CallInv, MutexInv, Holds,
                OnceInv, Finalizing, Queued, PushingInv, ErasedInv, Gone, QueueInv, OrderInv
      <2>3. QED
            BY <2>1, <2>2
<1>2. QED
      BY InitIInv, <1>1, PTL DEF Spec

\* A strand's final task is the last thing of the strand that runs: the
\* permanent tasks are erased and the work is done or given up when it begins,
\* also when finalize() gave up waiting or the thread had closed.
THEOREM FinalTaskIsLastHolds == Spec => []FinalTaskIsLast
<1>1. IInv => FinalTaskIsLast
      BY DEF IInv, FinalTaskIsLast, ErasedInv, OrderInv, TypeOK
<1>2. QED
      BY StrandsCorrect, <1>1, PTL

\* The mutex of a strand, which its final task usually destroys, is not held
\* by the finalizing thread when that task begins.
THEOREM MutexLeftBeforeFinalTaskHolds == Spec => []MutexLeftBeforeFinalTask
<1>1. IInv => MutexLeftBeforeFinalTask
      <2> SUFFICES ASSUME IInv, NEW th \in Threads, call[th].op = "finalize",
                          call[th].strand \in begun, mutex[call[th].strand] = th
                   PROVE  FALSE
          BY DEF MutexLeftBeforeFinalTask
      <2>1. call[th].strand \in Strands
            BY DEF IInv, TypeOK
      <2>2. Finalizing(th, call[th].strand)
            BY <2>1 DEF IInv, MutexInv, Holds, Finalizing
      <2>3. QED
            BY <2>1, <2>2 DEF IInv, OnceInv
<1>2. QED
      BY StrandsCorrect, <1>1, PTL

LEMMA AtMostOne ==
    ASSUME NEW S, \A x, y \in S : x = y
    PROVE  Cardinality(S) \in {0, 1} /\ (S = {} => Cardinality(S) = 0)
<1>1. CASE S = {}
      BY <1>1, FS_EmptySet
<1>2. CASE S # {}
      <2>1. PICK x : x \in S
            BY <1>2
      <2>2. S = {x}
            BY <2>1
      <2>3. QED
            BY <1>2, <2>2, FS_Singleton
<1>3. QED
      BY <1>1, <1>2

\* However many threads finalize a strand, one of them pushes its final task,
\* and the task is queued, or runs, once.
THEOREM FinalTaskOnceHolds == Spec => []FinalTaskOnce
<1>1. IInv => FinalTaskOnce
      <2> SUFFICES ASSUME IInv, NEW s \in Strands
                   PROVE  Cardinality({i \in DOMAIN waiting : waiting[i].task = s})
                            + Cardinality({i \in DOMAIN executing : executing[i] = s})
                            + Cardinality({th \in Threads : call[th].op = "finalize" /\ call[th].strand = s
                                              /\ call[th].at \notin {"lock", "pushed"}}) <= 1
          BY DEF FinalTaskOnce
      <2> DEFINE W == {i \in DOMAIN waiting : waiting[i].task = s}
                 E == {i \in DOMAIN executing : executing[i] = s}
                 T == {th \in Threads : call[th].op = "finalize" /\ call[th].strand = s
                                              /\ call[th].at \notin {"lock", "pushed"}}
      <2>1. \A th \in T : Finalizing(th, s)
            BY DEF IInv, CallInv, CallOK, Idle, Finalizing
      <2>2. /\ \A x, y \in W : x = y
            /\ \A x, y \in E : x = y
            /\ \A x, y \in T : x = y
            BY <2>1 DEF IInv, OnceInv
      <2>3. /\ W = {} \/ T = {}
            /\ E = {} \/ (W = {} /\ T = {})
            BY <2>1 DEF IInv, OnceInv, Queued
      <2> HIDE DEF W, E, T
      <2>4. /\ Cardinality(W) \in {0, 1} /\ (W = {} => Cardinality(W) = 0)
            /\ Cardinality(E) \in {0, 1} /\ (E = {} => Cardinality(E) = 0)
            /\ Cardinality(T) \in {0, 1} /\ (T = {} => Cardinality(T) = 0)
            BY <2>2, AtMostOne
      <2>5. Cardinality(W) + Cardinality(E) + Cardinality(T) <= 1
            BY <2>3, <2>4
      <2>6. QED
            BY <2>5 DEF W, E, T
<1>2. QED
      BY StrandsCorrect, <1>1, PTL
=============================================================================
