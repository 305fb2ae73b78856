--------------------------- MODULE OperationQueue ---------------------------
(***************************************************************************)
(* The queue of file operations of one session and the part of Session     *)
(* that drives it: backend/sftp/operation_queue.cpp, parallel_budget.hpp,  *)
(* the two registries that outlive a session, and start(), stop(),         *)
(* adoptBulkResumes() and the wake protocol of session.cpp.                *)
(*                                                                         *)
(* Everything here runs on one asio strand.  What makes it hard is         *)
(* re-entrance: ending an operation or delivering its progress calls its   *)
(* owner, who calls back into the queue before the handler that ended it   *)
(* has returned.  A handler is therefore a stack of steps, agenda, and an  *)
(* owner's call puts its own steps on top of what is still to do.  posted  *)
(* holds the handlers the strand posted to itself, in order.  A request of *)
(* another thread (the frontend, a transfer that wakes the queue, a posted *)
(* cancel of the tracker) may have been posted at any earlier time, so it  *)
(* is taken whenever no handler runs.                                      *)
(***************************************************************************)
EXTENDS Naturals, Sequences, FiniteSets, SequencesExt

CONSTANTS
    Ops,             \* operation ids
    Kind,            \* what each of them is, see Kinds
    Owned,           \* the operations of an owner in the backend (file tracking)
    Sibling,         \* the other scan of the sync a scan belongs to
    parallelism,     \* transfer slots per cycle
    bulkConcurrency, \* slots a bulk may take
    Requests,        \* the requests this instance makes, see Request
    Reactions,       \* what owners do when they are called: "add", "cancel"
    MaxSessions      \* bound on the connections, the first one included

Kinds == {"transfer",   \* one file, up or down
          "tree",       \* a directory: scanned first, then transferred as a bulk
          "list",       \* the listed files of a bulk card
          "archive", "delete", "deletes", "rename",
          "scan"}       \* one of the two scans of a sync

Scans == {o \in Ops : Kind[o] = "scan"}

ASSUME KindAssumption == Ops # {} /\ IsFiniteSet(Ops) /\ Kind \in [Ops -> Kinds]
ASSUME OwnedAssumption == \A o \in Owned : o \in Ops /\ Kind[o] \in {"transfer", "list", "rename"}
ASSUME SiblingAssumption == /\ Sibling \in [Scans -> Scans]
                            /\ \A o \in Scans : Sibling[o] # o /\ Sibling[Sibling[o]] = o
\* The constructor of OperationQueue clamps both.
ASSUME ParallelismAssumption ==
    /\ parallelism \in Nat \ {0}
    /\ bulkConcurrency \in 1 .. (IF parallelism > 1 THEN parallelism - 1 ELSE 1)

VARIABLES
    priorityOperations, operations,  \* the two deques
    phase,            \* per operation: "new", then "scan" while its scan phase runs, else "run"
    inFlight,         \* operations that answered Waiting and did not wake the queue since
    paused,           \* paused_
    stash,            \* bulkResumeStash_
    observers,        \* progressObservers_
    callbacks,        \* completionCallbacks_
    scanCallbacks,    \* syncScanCallbacks_
    syncOpen,         \* scans whose sync session is still registered
    registry,         \* BulkResumeRegistry
    kept,             \* KeptTransferRegistry: "no", or how the kept transfer can continue
    session,          \* running_ is session = "started", operationQueue_ is set unless "stopped"
    channel,          \* the SFTP channel: "open", "closed", or "dead" when its thread ended
    scheduled,        \* operationQueueWorkScheduled_
    posted,           \* handlers the strand posted to itself
    wakePosted,       \* a transfer's wake waits for the strand
    agenda,           \* what the running handler still has to do
    sessions,         \* connections made so far
    open,             \* per operation: cards the frontend was told of minus ends it was told of
    told,             \* per scan, what the frontend heard of it: "nothing", "done" or "failed"
    late              \* operations the frontend heard progress of after their end

queueVars == <<priorityOperations, operations, phase, inFlight>>
ownerVars == <<stash, observers, callbacks>>
syncVars == <<scanCallbacks, syncOpen, told>>
sessionVars == <<session, channel, sessions, paused>>
vars == <<queueVars, ownerVars, syncVars, registry, kept, sessionVars,
          scheduled, posted, wakePosted, agenda, open, late>>

Init ==
    /\ priorityOperations = <<>> /\ operations = <<>>
    /\ phase = [o \in Ops |-> "new"]
    /\ inFlight = {}
    /\ paused = TRUE
    /\ stash = {} /\ observers = {} /\ callbacks = {}
    /\ scanCallbacks = {} /\ syncOpen = {}
    /\ registry = {}
    /\ kept = [o \in Ops |-> "no"]
    /\ session = "new" /\ channel = "open"
    /\ scheduled = FALSE /\ posted = <<>> /\ wakePosted = FALSE
    /\ agenda = <<>>
    /\ sessions = 1
    /\ open = [o \in Ops |-> 0]
    /\ told = [o \in Ops |-> "nothing"]
    /\ late = {}

-----------------------------------------------------------------------------
(* The steps of a handler, and the handlers the strand posts.              *)

Step(name, op) == [step |-> name, op |-> op, index |-> 0, queue |-> "none"]
TakeStep(index, queue, op) == [step |-> "take", op |-> op, index |-> index, queue |-> queue]
\* Session::scheduleOperationQueueWork, which every wake ends in.
WakeStep == Step("wake", CHOOSE o \in Ops : TRUE)
WorkHandler == [handler |-> "work", op |-> CHOOSE o \in Ops : TRUE]
CancelScanHandler(o) == [handler |-> "cancelScan", op |-> o]

Queued(o) == Contains(priorityOperations, o) \/ Contains(operations, o)
Ends == {"complete", "cancelledByUser"}
InHand(o) == \E i \in DOMAIN agenda : agenda[i].step \in Ends /\ agenda[i].op = o
If(condition, steps) == IF condition THEN steps ELSE <<>>

\* Operations whose request is backed up for a reconnect, and those that can leave partial files.
Resumable(o) == Kind[o] \in {"tree", "list", "deletes"}
Transfers(o) == Kind[o] \in {"transfer", "tree", "list"}

\* Operation::usesStrand, isBarrier and parallelWorkDoable.  A bulk's demand d depends on what is left of it.
UsesStrand(o) == phase[o] = "run" /\ Kind[o] \in {"transfer", "tree", "list", "archive"}
IsBarrier(o) == phase[o] = "scan"
ParallelWorkDoable(o, d) == IF phase[o] = "run" /\ Kind[o] \in {"tree", "list"} THEN d[o] ELSE 1

-----------------------------------------------------------------------------
(* Adding operations.                                                      *)

\* Appends os to the queue of mode; those in scanning scan first; backups are stored for a reconnect.
QueueUp(os, mode, scanning, backups) ==
    /\ priorityOperations' = priorityOperations \o If(mode = "priority", os)
    /\ operations' = operations \o If(mode = "regular", os)
    /\ phase' = [o \in Ops |-> IF o \notin ToSet(os) THEN phase[o] ELSE IF o \in scanning THEN "scan" ELSE "run"]
    /\ open' = [o \in Ops |-> open[o] + Cardinality({i \in DOMAIN os : os[i] = o})]
    /\ stash' = stash \cup backups

QueueNothing == UNCHANGED <<priorityOperations, operations, phase, open, stash>>

\* A file or, when what lies there is a directory, a tree.  A failed lstat refuses it.
AddDownloadOperation(o, mode) ==
    /\ Kind[o] \in {"transfer", "tree"}
    /\ \/ channel = "open" /\ QueueUp(<<o>>, mode, {p \in {o} : Kind[p] = "tree"}, {p \in {o} : Kind[p] = "tree"})
       \/ QueueNothing

\* Like a download, but what to upload is asked of the local file system.
AddUploadOperation(o, mode) ==
    /\ Kind[o] \in {"transfer", "tree"}
    /\ \/ QueueUp(<<o>>, mode, {p \in {o} : Kind[p] = "tree"}, {p \in {o} : Kind[p] = "tree"})
       \/ QueueNothing

\* Only the roots that are directories are scanned, an archive is never resumed.
AddArchiveDownloadOperation(o, mode) ==
    /\ Kind[o] = "archive"
    /\ \/ \E scanning \in SUBSET {o} : QueueUp(<<o>>, mode, scanning, {})
       \/ QueueNothing

AddArchiveUploadOperation(o, mode) == AddArchiveDownloadOperation(o, mode)

\* Every directory of the request that could be queued becomes a card of its own, the files become card o.  A
\* request of nothing but directories queues no card o.
SplitBulkRequest(o, directories, mode) ==
    /\ \A i \in DOMAIN directories : Kind[directories[i]] = "tree"
    /\ \/ QueueUp(Append(directories, o), mode, ToSet(directories), {o} \cup ToSet(directories))
       \/ QueueUp(directories, mode, ToSet(directories), ToSet(directories))

AddBulkDownloadOperation(o, directories, mode) ==
    /\ Kind[o] = "list"
    /\ channel = "open" \/ directories = <<>>
    /\ SplitBulkRequest(o, directories, mode)

AddBulkUploadOperation(o, directories, mode) == Kind[o] = "list" /\ SplitBulkRequest(o, directories, mode)

\* Refused by the guard or by a timeout; a recursive delete of a directory scans it first.
AddDeleteOperation(o, mode) ==
    /\ Kind[o] = "delete"
    /\ \/ \E scanning \in SUBSET {o} : QueueUp(<<o>>, mode, scanning, {})
       \/ QueueNothing

\* One operation for the whole request, refused when nothing of it may be deleted.
AddBulkDeleteOperation(o, mode) ==
    /\ Kind[o] = "deletes"
    /\ \/ \E scanning \in SUBSET {o} : QueueUp(<<o>>, mode, scanning, {o})
       \/ QueueNothing

AddRenameOperation(o, mode) == Kind[o] = "rename" /\ QueueUp(<<o>>, mode, {}, {})

\* What a frontend request adds: a new id each.
Add(o, mode) ==
    /\ phase[o] = "new" /\ o \notin Owned
    /\ channel # "closed"
    /\ \/ AddDownloadOperation(o, mode) \/ AddUploadOperation(o, mode)
       \/ AddArchiveDownloadOperation(o, mode) \/ AddArchiveUploadOperation(o, mode)
       \/ \E D \in SUBSET {p \in Ops : Kind[p] = "tree" /\ phase[p] = "new"} :
             \/ AddBulkDownloadOperation(o, SetToSeq(D), mode)
             \/ AddBulkUploadOperation(o, SetToSeq(D), mode)
       \/ AddDeleteOperation(o, mode) \/ AddBulkDeleteOperation(o, mode)
       \/ AddRenameOperation(o, mode)
    /\ UNCHANGED <<inFlight, observers, callbacks, syncVars, registry, kept>>

\* An owner's operation: priority queue, no backup, told when it progresses and when it ended.
AddForOwner(o) ==
    /\ \/ /\ channel # "closed"
          /\ QueueUp(<<o>>, "priority", {}, {})
          /\ callbacks' = callbacks \cup {o}
          /\ observers' = observers \cup {p \in {o} : Transfers(p)}
       \/ QueueNothing /\ UNCHANGED <<callbacks, observers>>
    /\ UNCHANGED <<inFlight, syncVars, registry, kept>>

\* Both scans of a sync.
AddSyncScanOperation(remote, local) ==
    /\ channel # "closed"
    /\ phase[remote] = "new" /\ phase[local] = "new"
    /\ QueueUp(<<remote, local>>, "priority", {remote, local}, {})
    /\ scanCallbacks' = scanCallbacks \cup {remote, local}
    /\ syncOpen' = syncOpen \cup {remote, local}
    /\ UNCHANGED <<inFlight, observers, callbacks, told, registry, kept>>

-----------------------------------------------------------------------------
(* Cancelling, moving and pausing.  Each is the body of the strand task;   *)
(* rest is what the handler it runs in still has to do afterwards, and     *)
(* every one of them wakes the driver when it returns (WakeOnReturn).      *)

Then(steps, rest) == agenda' = steps \o <<WakeStep>> \o rest

TakeOperation(o) ==
    IF Contains(operations, o)
    THEN operations' = RemoveFirst(operations, o) /\ UNCHANGED priorityOperations
    ELSE priorityOperations' = RemoveFirst(priorityOperations, o) /\ UNCHANGED operations

\* What cancel() leaves to do once the operation is out of its queue.
CancelSteps_ForgetsTheSync(o) == If(Queued(o), <<Step("cancelledByUser", o)>>)
CancelSteps(o) == If(o \in Scans, <<Step("failScan", o)>>) \o If(Queued(o), <<Step("cancelledByUser", o)>>)

Cancel(o, rest) ==
    /\ TakeOperation(o)
    /\ Then(CancelSteps(o), rest)
    /\ UNCHANGED <<phase, inFlight, open, ownerVars, syncVars, registry, kept, posted>>

\* The tracker stops an upload: nothing is remembered of its partial file.
CancelUpload(o) ==
    /\ TakeOperation(o)
    /\ Then(If(Queued(o), <<Step("complete", o)>>), <<>>)
    /\ UNCHANGED <<phase, inFlight, open, ownerVars, syncVars, registry, kept, posted>>

\* The callback of a scan that will not deliver its tree: while the sync is open it forgets the callback of the other
\* scan, posts the cancel of that scan and tells the frontend.
FailCallbacks_LeaveTheOtherScan(failing) ==
    /\ UNCHANGED posted
    /\ told' = [o \in Ops |-> IF o \in failing \cap syncOpen THEN "failed" ELSE told[o]]
FailCallbacks(failing) ==
    LET heard == failing \cap syncOpen IN
    /\ posted' = posted \o SetToSeq({CancelScanHandler(Sibling[o]) : o \in heard})
    /\ told' = [o \in Ops |-> IF o \in heard THEN "failed" ELSE told[o]]
SiblingsOf_None(failing) == {}
SiblingsOf(failing) == {Sibling[o] : o \in failing \cap syncOpen}

\* Both queues are taken out before anyone hears of an end.
CancelAllSteps == [i \in DOMAIN (priorityOperations \o operations) |->
                      Step("cancelledByUser", (priorityOperations \o operations)[i])]
CancelAll(rest) ==
    /\ priorityOperations' = <<>> /\ operations' = <<>>
    /\ FailCallbacks(scanCallbacks)
    /\ scanCallbacks' = {}
    /\ Then(CancelAllSteps, rest)
    /\ UNCHANGED <<phase, inFlight, open, ownerVars, syncOpen, registry, kept>>

\* Only while paused, and not of a priority operation; the index is clamped.
MoveOperation(o, newIndex) ==
    /\ IF paused /\ ~Contains(priorityOperations, o) /\ Contains(operations, o)
       THEN LET others == RemoveFirst(operations, o)
                clamped == IF newIndex > Len(operations) THEN Len(operations) ELSE newIndex
            IN  operations' = InsertAt(others, clamped, o)
       ELSE UNCHANGED operations
    /\ Then(<<>>, <<>>)
    /\ UNCHANGED <<priorityOperations, phase, inFlight, open, ownerVars, syncVars, registry, kept, posted>>

CloseSyncSession(o) ==
    /\ o \in syncOpen
    /\ syncOpen' = syncOpen \ {o, Sibling[o]}
    /\ UNCHANGED <<queueVars, open, ownerVars, scanCallbacks, told, registry, kept, posted, agenda>>

-----------------------------------------------------------------------------
(* Transfers the user cancelled keeping their partial files, and backups   *)
(* of bulks whose session ended.                                           *)

\* A bulk comes back with its files listed or, when it had not been scanned, as the directory it was.
AdoptBulkResume(o) ==
    \/ \E mode \in {"priority", "regular"} : \E scanning \in SUBSET {p \in {o} : Kind[p] # "list"} :
          QueueUp(<<o>>, mode, scanning, {o})
    \/ Kind[o] # "list" /\ QueueNothing

\* continueKept stores the entry it took again when nothing was queued.
KeptAfterContinuing_Taken(o, queuedAgain) == [kept EXCEPT ![o] = "no"]
KeptAfterContinuing(o, queuedAgain) == IF queuedAgain THEN [kept EXCEPT ![o] = "no"] ELSE kept

\* Taken out, queued again, and put back when that failed or nothing can continue.
ContinueKept(o) ==
    /\ kept[o] # "no"
    /\ channel # "closed"
    /\ \/ /\ kept[o] = "bulk" /\ AdoptBulkResume(o)
       \/ /\ kept[o] = "single"
          /\ \/ QueueUp(<<o>>, "regular", {}, {})
             \/ QueueNothing
       \/ /\ kept[o] = "cannot" /\ QueueNothing
    /\ kept' = KeptAfterContinuing(o, open'[o] > open[o])
    /\ Then(<<>>, <<>>)
    /\ UNCHANGED <<inFlight, observers, callbacks, syncVars, registry, posted>>

DiscardKept(o) ==
    /\ kept[o] # "no"
    /\ channel # "closed"
    /\ kept' = [kept EXCEPT ![o] = "no"]
    /\ UNCHANGED <<queueVars, open, ownerVars, syncVars, registry, posted, agenda>>

\* A backup is taken out of the registry whether or not it can be queued.
AdoptBulkResumes(o) ==
    /\ o \in registry
    /\ channel # "closed"
    /\ registry' = registry \ {o}
    /\ AdoptBulkResume(o)
    /\ Then(<<>>, <<>>)
    /\ UNCHANGED <<inFlight, observers, callbacks, syncVars, kept, posted>>

\* The registry's time to live ended, or the frontend gave the card up.
Discard(o) ==
    /\ o \in registry
    /\ registry' = registry \ {o}
    /\ UNCHANGED <<queueVars, open, ownerVars, syncVars, kept, posted, agenda>>

-----------------------------------------------------------------------------
(* The steps of the running handler.                                       *)

Doing(name) == agenda # <<>> /\ Head(agenda).step = name
Op == Head(agenda).op

\* What an owner may do when it is called, on top of what the handler still has to do.
Reaction == {<<>>}
    \cup {<<Step("addForOwner", o)>> : o \in {p \in Owned : phase[p] = "new" /\ "add" \in Reactions}}
    \cup {<<Step("cancel", o)>> : o \in {p \in Ops : Queued(p) /\ "cancel" \in Reactions}}

\* takeFinished: by its index.
Takes ==
    /\ Doing("take")
    /\ LET index == Head(agenda).index IN
       IF Head(agenda).queue = "priority"
       THEN priorityOperations' = RemoveAt(priorityOperations, index) /\ UNCHANGED operations
       ELSE operations' = RemoveAt(operations, index) /\ UNCHANGED priorityOperations
    /\ agenda' = Tail(agenda)
    /\ UNCHANGED <<phase, inFlight, open, ownerVars, syncVars, registry, kept, scheduled, posted, late>>

\* Progress reaches the frontend, then the operation's observer.
DeliversProgress ==
    /\ Doing("progress")
    /\ late' = IF open[Op] = 0 THEN late \cup {Op} ELSE late
    /\ \E reaction \in IF Op \in observers THEN Reaction ELSE {<<>>} : agenda' = reaction \o Tail(agenda)
    /\ UNCHANGED <<queueVars, open, ownerVars, syncVars, registry, kept, scheduled, posted>>

FailSyncScan ==
    /\ Doing("failScan")
    /\ FailCallbacks({Op} \cap scanCallbacks)
    /\ scanCallbacks' = (scanCallbacks \ {Op}) \ SiblingsOf({Op} \cap scanCallbacks)
    /\ agenda' = Tail(agenda)
    /\ UNCHANGED <<queueVars, open, ownerVars, syncOpen, registry, kept, scheduled, late>>

DeliverSyncScan ==
    /\ Doing("deliverScan")
    /\ scanCallbacks' = scanCallbacks \ {Op}
    /\ told' = IF Op \in scanCallbacks \cap syncOpen THEN [told EXCEPT ![Op] = "done"] ELSE told
    /\ agenda' = Tail(agenda)
    /\ UNCHANGED <<queueVars, open, ownerVars, syncOpen, registry, kept, scheduled, posted, late>>

\* rememberKeptPartialFiles: a bulk continues from its backup, a single transfer anew.
Continuation(o) == IF o \in stash THEN "bulk" ELSE IF Kind[o] = "transfer" THEN "single" ELSE "cannot"

BackupsAfterEnd_All(o) == stash
BackupsAfterEnd(o) == stash \ {o}

\* completeOperation: the backup and the observer go, the frontend is told, then the owner.
CompleteOperation ==
    /\ Doing("complete") \/ Doing("cancelledByUser")
    /\ \E keeps \in IF Doing("cancelledByUser") /\ Transfers(Op) THEN BOOLEAN ELSE {FALSE} :
          kept' = IF keeps THEN [kept EXCEPT ![Op] = Continuation(Op)] ELSE kept
    /\ stash' = BackupsAfterEnd(Op)
    /\ observers' = observers \ {Op}
    /\ callbacks' = callbacks \ {Op}
    /\ inFlight' = inFlight \ {Op}
    /\ open' = [open EXCEPT ![Op] = @ - 1]
    /\ \E reaction \in IF Op \in callbacks THEN Reaction ELSE {<<>>} : agenda' = reaction \o Tail(agenda)
    /\ UNCHANGED <<priorityOperations, operations, phase, syncVars, registry, scheduled, posted, late>>

\* Calls an owner made.
OwnerAdds ==
    /\ Doing("addForOwner")
    /\ AddForOwner(Op)
    /\ Then(<<>>, Tail(agenda))
    /\ UNCHANGED <<scheduled, posted, late>>

OwnerCancels ==
    /\ Doing("cancel")
    /\ Cancel(Op, Tail(agenda))
    /\ UNCHANGED <<scheduled, late>>

ScheduleOperationQueueWork_Always ==
    /\ posted' = Append(posted, WorkHandler)
    /\ scheduled' = TRUE
ScheduleOperationQueueWork ==
    /\ posted' = IF scheduled THEN posted ELSE Append(posted, WorkHandler)
    /\ scheduled' = TRUE

Wakes ==
    /\ Doing("wake")
    /\ ScheduleOperationQueueWork
    /\ agenda' = Tail(agenda)
    /\ UNCHANGED <<queueVars, open, ownerVars, syncVars, registry, kept, late>>

-----------------------------------------------------------------------------
(* One cycle of work.                                                      *)

\* OperationQueue::work: priority operations always run, the others wait for them and while paused.
CurrentQueue == IF priorityOperations # <<>> THEN "priority"
                ELSE IF ~paused /\ operations # <<>> THEN "regular" ELSE "none"
Elements(name) == IF name = "priority" THEN priorityOperations ELSE operations

\* collectEligibleOperations: from the front while slots remain, no further than a barrier.  The slots taken before
\* i are counted as pairs of an operation and one of its slots.
SlotsBefore(queue, d, i) ==
    Cardinality({slot \in (1 .. i - 1) \X (1 .. bulkConcurrency) : slot[2] <= ParallelWorkDoable(queue[slot[1]], d)})
CollectEligibleOperations(queue, d) ==
    {i \in DOMAIN queue : /\ SlotsBefore(queue, d, i) < parallelism
                          /\ \A j \in 1 .. i - 1 : ~IsBarrier(queue[j])}
Demands(queue) == [{o \in ToSet(queue) : Kind[o] \in {"tree", "list"}} -> 1 .. bulkConcurrency]

\* The order the eligible operations work in: those on the SFTP strand in one batch, then the others.  Without a
\* strand all in queue order; when the strand's thread ended only the first that needs it is answered, with a failure.
RunsBefore(queue, i, j) ==
    IF channel # "closed" /\ UsesStrand(queue[i]) # UsesStrand(queue[j]) THEN UsesStrand(queue[i]) ELSE i < j
RunOrders(queue, eligible) ==
    LET onStrand == {i \in eligible : UsesStrand(queue[i])} IN
    IF channel = "dead" /\ onStrand # {}
    THEN {<<i>> : i \in {j \in onStrand : \A k \in onStrand : j <= k}}
    ELSE {order \in SetToSeqs(eligible) :
             \A a, b \in DOMAIN order : a < b => RunsBefore(queue, order[a], order[b])}
MustFail(o) == UsesStrand(o) /\ channel # "open"

\* What follows a batch that operation o, at index of the queue, ended: it leaves the queue before anyone hears of
\* progress or its end, and the driver goes on.
AfterEnd_TakesLast(index, name, o, ended, progress) ==
    progress \o <<TakeStep(index, name, o)>>
    \o If(o \in Scans, <<Step(IF ended = "failed" THEN "failScan" ELSE "deliverScan", o)>>)
    \o <<Step("complete", o), WakeStep>>
AfterEnd_Rests(index, name, o, ended, progress) ==
    <<TakeStep(index, name, o)>> \o progress
    \o If(o \in Scans, <<Step(IF ended = "failed" THEN "failScan" ELSE "deliverScan", o)>>)
    \o <<Step("complete", o)>>
AfterEnd_ProgressLast(index, name, o, ended, progress) ==
    <<TakeStep(index, name, o)>>
    \o If(o \in Scans, <<Step(IF ended = "failed" THEN "failScan" ELSE "deliverScan", o)>>)
    \o <<Step("complete", o)>> \o progress \o <<WakeStep>>
AfterEnd(index, name, o, ended, progress) ==
    <<TakeStep(index, name, o)>> \o progress
    \o If(o \in Scans, <<Step(IF ended = "failed" THEN "failScan" ELSE "deliverScan", o)>>)
    \o <<Step("complete", o), WakeStep>>

\* The progress of a batch is held back and handed on in the order it was made.
Ascending(S) == {s \in UNION {SetToSeqs(R) : R \in SUBSET S} : \A a, b \in DOMAIN s : a < b => s[a] < s[b]}

\* The first count of the batch work; unless ended is "no", the last of them ends and stops the batch.
WorkBatch(name, order, count, ended) ==
    LET queue == Elements(name)
        last == queue[order[count]]
        worked == {queue[order[i]] : i \in 1 .. count}
        going == IF ended = "no" THEN worked ELSE worked \ {last}
    IN  /\ ended = "no" => count = Len(order)
        /\ \A o \in going : ~MustFail(o)
        /\ ended = "completed" => ~MustFail(last)
        /\ \E waiting \in SUBSET {o \in going : UsesStrand(o)},
              scanned \in SUBSET {o \in going : phase[o] = "scan" /\ o \notin Scans},
              reporting \in Ascending(1 .. count) :
              LET progress == [i \in DOMAIN reporting |-> Step("progress", queue[order[reporting[i]]])] IN
              /\ inFlight' = (inFlight \ worked) \cup waiting
              /\ phase' = [o \in Ops |-> IF o \in scanned THEN "run" ELSE phase[o]]
              /\ agenda' = IF ended = "no"
                           THEN progress \o If(going # waiting, <<WakeStep>>)
                           ELSE AfterEnd(order[count], name, last, ended, progress)

WorkQueue(name) ==
    \E d \in Demands(Elements(name)) :
    \E order \in RunOrders(Elements(name), CollectEligibleOperations(Elements(name), d)) :
    \E count \in DOMAIN order, ended \in {"no", "completed", "failed"} : WorkBatch(name, order, count, ended)

DoOperationQueueWork ==
    /\ agenda = <<>> /\ posted # <<>> /\ Head(posted) = WorkHandler
    /\ scheduled' = FALSE
    /\ posted' = Tail(posted)
    /\ IF session = "started" /\ CurrentQueue # "none"
       THEN WorkQueue(CurrentQueue)
       ELSE UNCHANGED <<inFlight, phase, agenda>>
    /\ UNCHANGED <<priorityOperations, operations, ownerVars, syncVars, registry, kept, sessionVars, wakePosted,
                   open, late>>

\* The posted half of cancelSiblingScan.  erase_if finds the id at most once in each queue, see OneEndPerCard.
CancelsSiblingScan ==
    /\ agenda = <<>> /\ posted # <<>> /\ Head(posted).handler = "cancelScan"
    /\ LET o == Head(posted).op IN
       /\ priorityOperations' = RemoveFirst(priorityOperations, o)
       /\ operations' = RemoveFirst(operations, o)
       /\ Then(If(Queued(o), <<Step("complete", o)>>), <<>>)
    /\ posted' = Tail(posted)
    /\ UNCHANGED <<phase, inFlight, ownerVars, syncVars, registry, kept, sessionVars, scheduled, wakePosted, open, late>>

-----------------------------------------------------------------------------
(* The session.                                                            *)

Start ==
    /\ session = "new"
    /\ session' = "started"
    /\ ScheduleOperationQueueWork
    /\ UNCHANGED <<queueVars, ownerVars, syncVars, registry, kept, channel, sessions, paused, wakePosted, agenda,
                   open, late>>

\* stop() clears running_ on its caller's thread, whatever the strand does.
StopCalled ==
    /\ session = "started"
    /\ session' = "stopping"
    /\ UNCHANGED <<queueVars, ownerVars, syncVars, registry, kept, channel, sessions, paused, scheduled, posted,
                   wakePosted, agenda, open, late>>

\* dumpBulkResumes: every backup, wherever its operation is.
Dumped_OfTheRegularQueue == {o \in stash : Contains(operations, o)}
Dumped == stash

\* Its task on the strand: backs up the bulks (dumpBulkResumes), drops the queue (dropAll) and closes the channels.
\* Handlers still posted find their queue or session gone.
StopRuns ==
    /\ session = "stopping" /\ agenda = <<>>
    /\ registry' = registry \cup Dumped
    /\ stash' = {}
    /\ priorityOperations' = <<>> /\ operations' = <<>> /\ inFlight' = {}
    /\ observers' = {} /\ callbacks' = {}
    /\ told' = [o \in Ops |-> IF o \in scanCallbacks \cap syncOpen THEN "failed" ELSE told[o]]
    /\ scanCallbacks' = {} /\ syncOpen' = {}
    /\ open' = [o \in Ops |-> 0]
    /\ session' = "stopped" /\ channel' = "closed"
    /\ posted' = <<>> /\ scheduled' = FALSE /\ wakePosted' = FALSE
    /\ UNCHANGED <<phase, kept, sessions, paused, agenda, late>>

\* A new Session, with the same registries.
Reconnect ==
    /\ session = "stopped" /\ sessions < MaxSessions
    /\ session' = "new" /\ channel' = "open" /\ paused' = TRUE
    /\ sessions' = sessions + 1
    /\ UNCHANGED <<queueVars, ownerVars, syncVars, registry, kept, scheduled, posted, wakePosted, agenda, open, late>>

\* The frontend closes the SFTP channel, or the processing thread behind it ends.
ChannelEnds ==
    /\ "channel" \in Requests
    /\ session = "started" /\ channel = "open" /\ agenda = <<>>
    /\ channel' \in {"closed", "dead"}
    /\ UNCHANGED <<queueVars, ownerVars, syncVars, registry, kept, session, sessions, paused, scheduled, posted,
                   wakePosted, agenda, open, late>>

\* A transfer progressed or ended: its wake is posted from the processing thread.
TransferWakes(o) ==
    /\ o \in inFlight
    /\ inFlight' = inFlight \ {o}
    /\ wakePosted' = TRUE
    /\ UNCHANGED <<priorityOperations, operations, phase, ownerVars, syncVars, registry, kept, sessionVars, scheduled,
                   posted, agenda, open, late>>

WakeOperationQueue ==
    /\ wakePosted /\ agenda = <<>>
    /\ wakePosted' = FALSE
    /\ ScheduleOperationQueueWork
    /\ UNCHANGED <<queueVars, ownerVars, syncVars, registry, kept, sessionVars, agenda, open, late>>

Pause(pause) ==
    /\ paused' = pause
    /\ Then(<<>>, <<>>)
    /\ UNCHANGED <<queueVars, open, ownerVars, syncVars, registry, kept, posted>>

-----------------------------------------------------------------------------
\* A request of another thread, taken between handlers.
Request(o) ==
    /\ agenda = <<>> /\ session \in {"started", "stopping"}
    /\ \/ "add" \in Requests /\ UNCHANGED <<paused, posted>>
          /\ \E mode \in {"priority", "regular"} : Add(o, mode) /\ Then(<<>>, <<>>)
       \/ "own" \in Requests /\ UNCHANGED <<paused, posted>>
          /\ o \in Owned /\ phase[o] = "new" /\ AddForOwner(o) /\ Then(<<>>, <<>>)
       \/ "sync" \in Requests /\ UNCHANGED <<paused, posted>>
          /\ o \in Scans /\ AddSyncScanOperation(o, Sibling[o]) /\ Then(<<>>, <<>>)
       \/ "close" \in Requests /\ CloseSyncSession(o) /\ UNCHANGED paused
       \/ "cancel" \in Requests /\ phase[o] # "new" /\ Cancel(o, <<>>) /\ UNCHANGED paused
       \/ "cancelAll" \in Requests /\ CancelAll(<<>>) /\ UNCHANGED paused
       \/ "cancelUpload" \in Requests /\ o \in Owned /\ Queued(o) /\ CancelUpload(o) /\ UNCHANGED paused
       \/ "move" \in Requests /\ UNCHANGED paused
          /\ \E newIndex \in 1 .. Cardinality(Ops) : MoveOperation(o, newIndex)
       \/ "pause" \in Requests /\ \E pause \in BOOLEAN : Pause(pause)
       \/ "kept" \in Requests /\ (ContinueKept(o) \/ DiscardKept(o)) /\ UNCHANGED paused
       \/ "resume" \in Requests /\ AdoptBulkResumes(o) /\ UNCHANGED paused
    /\ UNCHANGED <<session, channel, sessions, scheduled, wakePosted, late>>

HandlerStep ==
    /\ \/ Takes \/ DeliversProgress \/ FailSyncScan \/ DeliverSyncScan \/ CompleteOperation
       \/ OwnerAdds \/ OwnerCancels \/ Wakes
    /\ UNCHANGED <<sessionVars, wakePosted>>

PostedHandler == DoOperationQueueWork \/ CancelsSiblingScan

Discards(o) ==
    /\ "resume" \in Requests /\ Discard(o)
    /\ UNCHANGED <<sessionVars, scheduled, wakePosted, late>>

Next ==
    \/ HandlerStep \/ PostedHandler \/ WakeOperationQueue
    \/ \E o \in Ops : Request(o) \/ TransferWakes(o) \/ Discards(o)
    \/ Start \/ ("stop" \in Requests /\ StopCalled) \/ StopRuns \/ Reconnect \/ ChannelEnds

Spec == Init /\ [][Next]_vars

\* The strand runs what is posted to it, in order: no later request overtakes a posted handler for ever.
FairSpec == Spec /\ WF_vars(HandlerStep) /\ SF_vars(PostedHandler)

-----------------------------------------------------------------------------
(* Properties.                                                             *)

StepNames == {"take", "progress", "failScan", "deliverScan", "complete", "cancelledByUser", "addForOwner", "cancel",
              "wake"}
Steps == [step : StepNames, op : Ops, index : Nat, queue : {"none", "priority", "regular"}]
Handlers == [handler : {"work", "cancelScan"}, op : Ops]

\* Type invariant: the queues hold ids, the handler's stack holds the steps above, and a cycle of work is posted
\* exactly when operationQueueWorkScheduled_ says so, once.
TypeOK ==
    /\ priorityOperations \in Seq(Ops) /\ operations \in Seq(Ops)
    /\ phase \in [Ops -> {"new", "scan", "run"}]
    /\ inFlight \subseteq Ops /\ stash \subseteq Ops /\ observers \subseteq Ops /\ callbacks \subseteq Ops
    /\ scanCallbacks \subseteq Scans /\ syncOpen \subseteq Scans /\ registry \subseteq Ops /\ late \subseteq Ops
    /\ kept \in [Ops -> {"no", "bulk", "single", "cannot"}]
    /\ session \in {"new", "started", "stopping", "stopped"} /\ channel \in {"open", "closed", "dead"}
    /\ wakePosted \in BOOLEAN /\ paused \in BOOLEAN
    /\ told \in [Ops -> {"nothing", "done", "failed"}]
    /\ agenda \in Seq(Steps) /\ posted \in Seq(Handlers)
    /\ scheduled = (Cardinality({i \in DOMAIN posted : posted[i] = WorkHandler}) = 1)
    /\ Cardinality({i \in DOMAIN posted : posted[i] = WorkHandler}) <= 1

Copies(o) ==
    Cardinality({i \in DOMAIN priorityOperations : priorityOperations[i] = o})
    + Cardinality({i \in DOMAIN operations : operations[i] = o})
    + Cardinality({i \in DOMAIN agenda : agenda[i].step \in Ends /\ agenda[i].op = o})
Taking(o) == Cardinality({i \in DOMAIN agenda : agenda[i].step = "take" /\ agenda[i].op = o})

\* Every operation the frontend was told of is in a queue, or out of it with its end about to be told, once: whatever
\* owners cancel or queue while they are told of progress and ends (completeOperation, cancelAll, workQueue), no
\* operation ends twice and none vanishes without an end.
OneEndPerCard ==
    session # "stopped" => \A o \in Ops : open[o] \in {0, 1} /\ Copies(o) = open[o] + Taking(o)

\* The frontend hears no progress of an operation after its end: the progress of a batch is held back and handed on
\* before the end of the operation that stopped the batch (HeldProgress, workQueue).
NoProgressAfterEnd == late = {}

\* The driver never sleeps on work (doOperationQueueWork, wakeOperationQueue, WakeOnReturn): when no handler runs and
\* a queue may work, a cycle is posted, a wake is under way, or every operation the cycle could advance waits for its
\* own transfer, which wakes the queue.
NoStall ==
    (session = "started" /\ agenda = <<>> /\ CurrentQueue # "none") =>
        \/ scheduled \/ wakePosted
        \/ LET queue == Elements(CurrentQueue)
               d == [o \in Ops |-> bulkConcurrency]
           IN  \A i \in CollectEligibleOperations(queue, d) : queue[i] \in inFlight

\* A sync that still waits for a scan has that scan in the queue, or its answer is about to be given: no path that
\* takes a scan out of the queue (its end, cancel, cancelAll, cancelSiblingScan) forgets the sync.
ScansAnswered ==
    \A o \in scanCallbacks : \/ Queued(o)
                             \/ \E i \in DOMAIN agenda : /\ agenda[i].step \in {"failScan", "deliverScan"}
                                                         /\ agenda[i].op = o

\* Once the frontend heard that one side of a sync failed, the other side is not announced as done any more, although
\* its scan is cancelled by a posted handler only and may complete before that runs (cancelSiblingScan).
FailedSyncStaysFailed ==
    [][\A o \in Scans : told[Sibling[o]] = "failed" /\ told'[o] = "done" => told[o] = "done"]_vars

\* A scan whose sibling failed leaves the queue.
SiblingLeaves == \A o \in Scans : told[o] = "failed" ~> ~Queued(Sibling[o])

\* An operation has one home: its card is open, or it is backed up for a reconnect, or its partial files are kept.
\* Cancels, continuations, stops and adoptions move it from one to the other; a bulk's backup lives with its card.
OneHome ==
    /\ \A o \in Ops : /\ ~(o \in registry /\ kept[o] # "no")
                      /\ o \in registry \/ kept[o] # "no" => open[o] = 0
    /\ \A o \in stash : open[o] = 1

\* When a session stops, every bulk card of the frontend that was still open is backed up, whatever it did before:
\* queued, running, continued from kept files, adopted from an earlier session (dumpBulkResumes before dropAll).
CardsSurviveStop ==
    [][session = "stopping" /\ session' = "stopped" =>
         \A o \in Ops : open[o] = 1 /\ Resumable(o) /\ o \notin Owned => o \in registry']_vars

\* Kept partial files are only forgotten when their transfer was queued again or the user discarded them: a failed
\* continuation leaves them for another try (continueKept).
KeptUntilTaken ==
    [][\A o \in Ops : kept[o] # "no" /\ kept'[o] = "no" => open'[o] = 1 \/ DiscardKept(o)]_vars
=============================================================================
