----------------------------- MODULE TaskThread -----------------------------
(***************************************************************************)
(* What the users of ProcessingThread rely on, without threads, mutexes    *)
(* and batches: one queue, one task running at a time (with the cleanup    *)
(* tasks nested in it), and cycles in which permanent tasks take turns.    *)
(*                                                                         *)
(*   - a task starts only when nothing runs, in the order of the queue;    *)
(*   - only tasks that are not cleanup tasks are ever given up;            *)
(*   - once closed, nothing but cleanup tasks runs, and those pushed from  *)
(*     then on run where they are pushed: alone after the queue is empty,  *)
(*     or nested in the cleanup task that pushes them;                     *)
(*   - an erase of a permanent task takes effect before the next task of   *)
(*     the queue starts, even if nobody waits for it.                      *)
(*                                                                         *)
(* ProcessingThreadRefinement shows that ProcessingThread implements this; *)
(* ProcessingStrand is built on it.                                        *)
(***************************************************************************)
EXTENDS Naturals, Sequences

CONSTANTS Tasks, Ids, NoTurn

ASSUME NoTurnAssumption == NoTurn \notin Ids

VARIABLES
    open,           \* tasks are accepted
    waiting,        \* the queue
    executing,      \* the running task, and the ones nested in it
    cycle,          \* whether permanent tasks take turns now
    due,            \* the permanent tasks that still get a turn in this cycle
    turn,           \* the permanent task that runs, or NoTurn
    issued,         \* the ids given to permanent tasks so far
    permanents,     \* the registered ones
    erasing         \* the ones erased when the turns end

taskVars == <<open, waiting, executing>>
turnVars == <<cycle, due, turn, issued, permanents, erasing>>
threadVars == <<taskVars, turnVars>>

\* A task that runs, one that must run, one whose promise is broken in turn.
QueueKinds == {"Regular", "Cleanup", "Refused"}

ThreadInit ==
    /\ open = TRUE /\ waiting = << >> /\ executing = << >>
    /\ cycle = "none" /\ due = {} /\ turn = NoTurn
    /\ issued = {} /\ permanents = {} /\ erasing = {}

Push(t, kind) ==
    /\ open
    /\ waiting' = Append(waiting, [task |-> t, kind |-> kind])
    /\ UNCHANGED <<open, executing, turnVars>>

\* No task runs and no permanent task has its turn.
Still == executing = << >> /\ cycle = "none"

Begin ==
    /\ Still /\ waiting # << >>
    /\ Head(waiting).kind \in (IF open THEN {"Regular", "Cleanup"} ELSE {"Cleanup"})
    /\ waiting' = Tail(waiting)
    /\ executing' = << Head(waiting).task >>
    /\ UNCHANGED <<open, turnVars>>

GiveUp ==
    /\ Still /\ waiting # << >>
    /\ Head(waiting).kind \in (IF open THEN {"Refused"} ELSE {"Regular", "Refused"})
    /\ waiting' = Tail(waiting)
    /\ UNCHANGED <<open, executing, turnVars>>

\* A cleanup task pushed after the thread closed.
Act(t) ==
    /\ ~open /\ cycle = "none"
    /\ executing = << >> => waiting = << >>
    /\ executing' = Append(executing, t)
    /\ UNCHANGED <<open, waiting, turnVars>>

End ==
    /\ executing # << >>
    /\ executing' = SubSeq(executing, 1, Len(executing) - 1)
    /\ UNCHANGED <<open, waiting, turnVars>>

Close ==
    /\ open /\ Still
    /\ open' = FALSE
    /\ UNCHANGED <<waiting, executing, turnVars>>

Reopen ==
    /\ ~open /\ Still /\ waiting = << >>
    /\ open' = TRUE
    /\ UNCHANGED <<waiting, executing, turnVars>>

Register(id) ==
    /\ id \notin issued
    /\ issued' = issued \cup {id}
    /\ permanents' = permanents \cup {id}
    /\ UNCHANGED <<taskVars, cycle, due, turn, erasing>>

Erase(id) ==
    /\ IF cycle = "turns"
       THEN erasing' = erasing \cup {id} /\ UNCHANGED permanents
       ELSE permanents' = permanents \ {id} /\ UNCHANGED erasing
    /\ UNCHANGED <<taskVars, cycle, due, turn, issued>>

TurnsBegin ==
    /\ open /\ Still
    /\ cycle' = "turns"
    /\ due' = permanents
    /\ UNCHANGED <<taskVars, turn, issued, permanents, erasing>>

Turn(id) ==
    /\ turn = NoTurn /\ id \in due
    /\ turn' = id
    /\ due' = due \ {id}
    /\ UNCHANGED <<taskVars, cycle, issued, permanents, erasing>>

\* A permanent task that is done leaves; a stopping thread ends the turns.
TurnEnds ==
    /\ turn # NoTurn
    /\ turn' = NoTurn
    /\ due' \in {due, {}}
    /\ permanents' \in {permanents, permanents \ {turn}}
    /\ UNCHANGED <<taskVars, cycle, issued, erasing>>

TurnsEnd ==
    /\ cycle = "turns" /\ turn = NoTurn /\ due = {}
    /\ cycle' = "none"
    /\ permanents' \in {permanents \ erasing, {}}
    /\ erasing' = {}
    /\ UNCHANGED <<taskVars, due, turn, issued>>

ClearAll ==
    /\ cycle = "none"
    /\ permanents' = {}
    /\ UNCHANGED <<taskVars, cycle, due, turn, issued, erasing>>

ThreadStep == Begin \/ GiveUp \/ End \/ TurnsBegin \/ TurnEnds \/ TurnsEnd
                 \/ \E id \in Ids : Turn(id)

ThreadNext ==
    \/ ThreadStep
    \/ \E t \in Tasks : Act(t) \/ \E kind \in QueueKinds : Push(t, kind)
    \/ Close \/ Reopen
    \/ \E id \in Ids : Register(id) \/ Erase(id)
    \/ ClearAll

ThreadSpec == ThreadInit /\ [][ThreadNext]_threadVars
=============================================================================
