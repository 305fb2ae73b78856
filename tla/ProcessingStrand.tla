-------------------------- MODULE ProcessingStrand --------------------------
(***************************************************************************)
(* Strands on one processing thread.  A strand refuses every push once it  *)
(* is finalized; its final task usually destroys the object that owns the  *)
(* strand, so nothing of the strand may run after it.                      *)
(*                                                                         *)
(* The thread below is the contract TaskThread.  mutex_ is held across     *)
(* steps: finalize() waits, under the mutex, for the thread to leave its   *)
(* turns, up to five seconds for each permanent task.  Time is abstract,   *)
(* so that wait may end at any moment.  The thread Loop makes calls while  *)
(* a task runs or a permanent task has its turn, and may block on mutex_.  *)
(* doFinalSync has no caller and is left out.                              *)
(***************************************************************************)
EXTENDS TaskThread, FiniteSets

CONSTANTS
    Strands,    \* a strand also stands for its final task
    Work,       \* tasks pushed through strands
    Callers,    \* threads that call the strands
    Loop, None

ASSUME StrandAssumption ==
    /\ Tasks = Work \cup Strands
    /\ Work \cap Strands = {}
    /\ Loop \notin Callers /\ None \notin Callers \cup {Loop} \cup Strands

VARIABLES
    finalized,      \* finalized_ of each strand
    mutex,          \* the owner of mutex_ of each strand, or None
    permanentTasks, \* permanentTasks_ of each strand
    call,           \* where each thread is in a call of a strand
    owner,          \* history: the strand each task was pushed through
    begun           \* history: strands whose final task began

strandVars == <<finalized, mutex, permanentTasks, call, owner, begun>>
vars == <<threadVars, strandVars>>

Threads == Callers \cup {Loop}
Ops == {"pushTask", "pushPermanentTask", "removePermanentTask", "finalize"}
Idle == [op |-> "none", strand |-> None, at |-> "none", ids |-> {}]

Init ==
    /\ ThreadInit
    /\ finalized = [s \in Strands |-> FALSE]
    /\ mutex = [s \in Strands |-> None]
    /\ permanentTasks = [s \in Strands |-> {}]
    /\ call = [th \in Threads |-> Idle]
    /\ owner = [t \in Work |-> None]
    /\ begun = {}

\* A thread stands at place p of operation op.
At(th, op, p) == call[th].op = op /\ call[th].at = p

RunsUserCode(th) == th = Loop => executing # << >> \/ turn # NoTurn

Enter(th, op, s) ==
    /\ call[th] = Idle /\ RunsUserCode(th)
    /\ call' = [call EXCEPT ![th] = [op |-> op, strand |-> s, at |-> "lock", ids |-> {}]]
    /\ UNCHANGED <<threadVars, finalized, mutex, permanentTasks, owner, begun>>

Locks_Never(th, s) == TRUE
Locks(th, s) == mutex[s] \in {None, th}

Refuses_OnlyPushes(th) == call[th].op # "finalize" /\ finalized[call[th].strand]
Refuses(th) == finalized[call[th].strand]

\* The strand is finalized; removePermanentTask returns for an unknown id only.
Refused(th) ==
    LET s == call[th].strand
    IN  /\ call[th].at = "lock" /\ Locks(th, s)
        /\ call[th].op = "removePermanentTask" \/ Refuses(th)
        /\ call' = [call EXCEPT ![th] = Idle]
        /\ UNCHANGED <<threadVars, finalized, mutex, permanentTasks, owner, begun>>

Acquire(th) ==
    LET s == call[th].strand
    IN  /\ call[th].at = "lock" /\ Locks(th, s)
        /\ call[th].op = "removePermanentTask" \/ ~Refuses(th)
        /\ mutex' = [mutex EXCEPT ![s] = th]
        /\ \/ /\ call[th].op \in {"pushTask", "pushPermanentTask"}
              /\ call' = [call EXCEPT ![th].at = "held"]
              /\ UNCHANGED <<finalized, permanentTasks>>
           \/ /\ call[th].op = "removePermanentTask"
              /\ \E id \in permanentTasks[s] :
                    /\ permanentTasks' = [permanentTasks EXCEPT ![s] = @ \ {id}]
                    /\ call' = [call EXCEPT ![th].at = "held", ![th].ids = {id}]
              /\ UNCHANGED finalized
           \/ /\ call[th].op = "finalize"
              /\ finalized' = [finalized EXCEPT ![s] = TRUE]
              /\ call' = [call EXCEPT ![th].at = "held", ![th].ids = permanentTasks[s]]
              /\ UNCHANGED permanentTasks
        /\ UNCHANGED <<threadVars, owner, begun>>

Return(th) ==
    /\ mutex' = [mutex EXCEPT ![call[th].strand] = None]
    /\ call' = [call EXCEPT ![th] = Idle]

\* pushTask and pushPromiseTask; the thread may refuse the task as well.
PushTask(th) ==
    /\ At(th, "pushTask", "held")
    /\ \/ \E t \in Work :
             /\ owner[t] = None
             /\ \E kind \in {"Regular", "Refused"} : Push(t, kind)
             /\ owner' = [owner EXCEPT ![t] = call[th].strand]
       \/ UNCHANGED <<threadVars, owner>>
    /\ Return(th)
    /\ UNCHANGED <<finalized, permanentTasks, begun>>

PushPermanentTask(th) ==
    /\ At(th, "pushPermanentTask", "held")
    /\ \/ /\ open
          /\ \E id \in Ids :
                /\ Register(id)
                /\ permanentTasks' = [permanentTasks EXCEPT ![call[th].strand] = @ \cup {id}]
       \/ UNCHANGED <<threadVars, permanentTasks>>
    /\ Return(th)
    /\ UNCHANGED <<finalized, owner, begun>>

\* ProcessingThread::removePermanentTask; only a foreign thread waits.
RemoveNext(th) ==
    /\ call[th].at = "held"
    /\ \E id \in call[th].ids :
          /\ Erase(id)
          /\ call' = [call EXCEPT ![th].at = IF cycle = "turns" /\ th # Loop
                                             THEN "wait" ELSE "held",
                                  ![th].ids = @ \ {id}]
    /\ UNCHANGED <<finalized, mutex, permanentTasks, owner, begun>>

\* The turns ended, or five seconds passed.
WaitEnds_OnlyWithTurns(th) == cycle # "turns"
WaitEnds(th) == TRUE

RemoveReturns(th) ==
    /\ call[th].at = "wait" /\ WaitEnds(th)
    /\ call' = [call EXCEPT ![th].at = "held"]
    /\ UNCHANGED <<threadVars, finalized, mutex, permanentTasks, owner, begun>>

RemovePermanentTaskReturns(th) ==
    /\ At(th, "removePermanentTask", "held") /\ call[th].ids = {}
    /\ Return(th)
    /\ UNCHANGED <<threadVars, finalized, permanentTasks, owner, begun>>

AfterRemoval_KeepsLock(th) == UNCHANGED mutex
AfterRemoval(th) == mutex' = [mutex EXCEPT ![call[th].strand] = None]

\* finalize() returns the thread: the mutex is free again.
FinalizeReturns(th) ==
    /\ At(th, "finalize", "held") /\ call[th].ids = {}
    /\ AfterRemoval(th)
    /\ call' = [call EXCEPT ![th].at = "push"]
    /\ UNCHANGED <<threadVars, finalized, permanentTasks, owner, begun>>

FinalKind_Regular == "Regular"
FinalKind == "Cleanup"

\* pushFinalTask and pushFinalPromiseTask: pushCleanupTask of the thread, which
\* queues the final task or, when it is closed, runs it right here.
PushFinalTask(th) ==
    LET s == call[th].strand
    IN  /\ At(th, "finalize", "push")
        /\ \/ Push(s, FinalKind) /\ call' = [call EXCEPT ![th].at = "pushed"] /\ UNCHANGED begun
           \/ /\ executing = << >> \/ th = Loop
              /\ Act(s) /\ begun' = begun \cup {s}
              /\ call' = [call EXCEPT ![th] = Idle]
        /\ UNCHANGED <<finalized, mutex, permanentTasks, owner>>

\* The thread may have run the final task, and destroyed the strand, by now.
FinalTaskPushed(th) ==
    /\ At(th, "finalize", "pushed")
    /\ call' = [call EXCEPT ![th] = Idle]
    /\ UNCHANGED <<threadVars, finalized, mutex, permanentTasks, owner, begun>>

\* The thread goes on; user code on it ends only outside of calls.
ThreadTakes ==
    /\ Begin \/ GiveUp
    /\ begun' = begun \cup {s \in Strands : executing' = <<s>>}
    /\ UNCHANGED <<finalized, mutex, permanentTasks, call, owner>>

ThreadTurns ==
    /\ TurnsBegin \/ TurnsEnd \/ \E id \in Ids : Turn(id)
    /\ UNCHANGED strandVars

UserCodeEnds ==
    /\ call[Loop] = Idle
    /\ End \/ TurnEnds
    /\ UNCHANGED strandVars

ThreadClosesOrReopens ==
    /\ Close \/ Reopen
    /\ UNCHANGED strandVars

StrandStep(th) ==
    \/ Refused(th) \/ Acquire(th)
    \/ PushTask(th) \/ PushPermanentTask(th)
    \/ RemoveNext(th) \/ RemoveReturns(th) \/ RemovePermanentTaskReturns(th)
    \/ FinalizeReturns(th) \/ PushFinalTask(th) \/ FinalTaskPushed(th)

Next ==
    \/ \E th \in Threads :
          \/ \E op \in Ops, s \in Strands : Enter(th, op, s)
          \/ StrandStep(th)
    \/ ThreadTakes \/ ThreadTurns \/ UserCodeEnds \/ ThreadClosesOrReopens

Spec == Init /\ [][Next]_vars

\* The thread gets the processor and takes tasks after every cycle of turns,
\* tasks make finitely many calls and end, a waiting mutex is granted in turn.
Fairness ==
    /\ SF_vars(ThreadTakes)
    /\ WF_vars(ThreadTurns)
    /\ SF_vars(UserCodeEnds)
    /\ \A th \in Threads : SF_vars(StrandStep(th))

FairSpec == Spec /\ Fairness
-----------------------------------------------------------------------------
Places == {"none", "lock", "held", "wait", "push", "pushed"}
CallRecords == [op : Ops \cup {"none"}, strand : Strands \cup {None},
                at : Places, ids : SUBSET Ids]

\* The values the variables take: where a thread may stand in a call.
TypeOK ==
    /\ finalized \in [Strands -> BOOLEAN]
    /\ mutex \in [Strands -> Threads \cup {None}]
    /\ permanentTasks \in [Strands -> SUBSET Ids]
    /\ call \in [Threads -> CallRecords]
    /\ owner \in [Work -> Strands \cup {None}]
    /\ begun \subseteq Strands

\* Nothing of a strand runs once its final task began: no task pushed through
\* it, no permanent task of it, whether or not finalize() had to give up
\* waiting for the turns to end and whether or not the thread had closed.
FinalTaskIsLast ==
    \A s \in begun :
        /\ turn \notin permanentTasks[s]
        /\ permanentTasks[s] \cap permanents = {}
        /\ \A i \in DOMAIN executing : executing[i] \in Work => owner[executing[i]] # s
        /\ open => \A i \in DOMAIN waiting : waiting[i].task \in Work => owner[waiting[i].task] # s

\* The thread that finalizes a strand has left its mutex when the final task,
\* which usually destroys the strand, begins ("it usually destroys the owner of
\* this strand, and with it the mutex").
MutexLeftBeforeFinalTask ==
    \A th \in Threads :
        call[th].op = "finalize" /\ call[th].strand \in begun
            => mutex[call[th].strand] # th

\* The final task of a strand is pushed once, however many threads finalize it.
FinalTaskOnce ==
    \A s \in Strands :
        Cardinality({i \in DOMAIN waiting : waiting[i].task = s})
          + Cardinality({i \in DOMAIN executing : executing[i] = s})
          + Cardinality({th \in Threads : call[th].op = "finalize" /\ call[th].strand = s
                                            /\ call[th].at \notin {"lock", "pushed"}}) <= 1

\* Every call of a strand returns, also when the thread it waits for is blocked
\* on the mutex the caller holds.
CallsReturn == \A th \in Threads : call[th] # Idle ~> call[th] = Idle

\* The final task of a finalized strand runs.
FinalTaskRuns == \A s \in Strands : finalized[s] ~> s \in begun
=============================================================================
