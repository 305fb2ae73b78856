# Verification of nui-sftp

nui-sftp is a desktop workbench for SSH and SFTP. A C++ backend talks to libssh, a frontend in an embedded
browser talks to the backend by remote procedure calls. This directory holds TLA+ models of the backend's
concurrent core and of its file tracking, the TLC configurations that check them on small instances, and
machine-checked proofs about them. `PROJECT.json` lists components, runs, mutants, the map from definitions to
source lines, findings, hazards and theorems.

Running the tools, in this directory:

    tlc -workers 2 -config ProcessingThreadTasks.cfg MCProcessingThread
    tlapm OperationQueueProofs.tla

## The system

### Layers

1. **libssh** (external). Not thread safe: one thread at a time may touch a session.
2. **`ssh/`**: `ProcessingThread` gives every SSH session one thread on which all libssh calls run.
   `ProcessingStrand` is a handle on that thread which can be closed for good. `Session` keeps lists of
   `Channel`s (terminals) and `SftpSession`s, an `SftpSession` keeps `FileStream`s; each of them owns a strand.
   `BufferProvider`, `AsyncTransferContext`, `RequestWindow` and `TransferChunkController` serve the
   asynchronous reads and writes of file streams.
3. **`backend/`**: `SessionManager` owns the `Session`s of the application. A `Session` owns an
   `ssh::Session`, an `OperationQueue` and a file `Tracker`, all on one asio strand. The queue owns
   `Operation`s (download, upload, bulks, archives, delete, rename, scans). Two registries outlive a session:
   `BulkResumeRegistry` (bulks to continue after a reconnect) and `KeptTransferRegistry` (cancelled transfers
   whose partial files were kept). `LocalOperationQueue` runs copies and deletes on this machine. `SyncSession`
   holds the two trees of a directory comparison. `process/` starts local shells through a pool of forks.
4. **`frontend/`, `nui-file-explorer/`**: the user interface, compiled to the browser.
5. **Libraries**: `shared_data` (records both sides exchange, the sync diff, ignore rules), `persistence`
   (settings), `paths`, `utility`, `tar-archive`, `command-store`, `log`, `ids`, `events`, `constants`.

### State, operations and interactions

| Component | State | Operations | Talks to |
|---|---|---|---|
| ProcessingThread | task queue, intake (open, draining, closed), permanent tasks and what is deferred during their turns, wake flag, socket wait, cleanup mutex | start, stop, pushTask, pushPromiseTask, pushCleanupTask, permanent tasks, wake, watchSocket, the loop | its tasks call back into it; stop() drains on the caller |
| ProcessingStrand | finalized flag, mutex, ids of its permanent tasks | the pushes, finalize, final task | the thread, while it holds its mutex |
| ssh Session, Channel, SftpSession | lists of channels, SFTP sessions and streams | create, close, shutdown | strands; objects remove themselves from their owner on the thread |
| File streams, contexts, buffers | requests in flight, outcome, pause and cancel flags, pools | read, write, cancel, pause, lease, release | the strand; wakes the operation queue |
| OperationQueue | two deques, pause, callbacks, observers, scan callbacks, sync sessions, bulk backups | add…, cancel, cancelAll, cancelUpload, move, pause, work, continue, adopt | operations, owners (file tracking), the frontend |
| Session (backend) | running, work scheduled, channels | start, stop, adoptBulkResumes, wake | the queue, the registries |
| Registries | maps by operation id | store, take, discard, expiry | sessions |
| LocalOperationQueue | queues and holds per session | add, hold, release | sessions |
| SyncSession and diff | two trees, a diff, a cancel token | setTree, compute, cancel | the queue's scans |
| File tracking | watched items; per item what the server is known to have, the uploads on their way with what was put off for them; the order of all server operations; conflicts, failures, options; copies in temporary directories | watch, stop, change, delete, move, missed changes, upload, remove, rename, answer, retry | the queue as its owner, the file system watcher, the user |
| Fork pool, process store | children, pipes | spawn, signal, reap | the operating system |

### What is hard here

* `ProcessingThread`: three kinds of threads may run tasks (the loop, a draining `stop()`, callers of cleanup
  tasks after the end), the loop may throw at any task, wake-ups travel over a flag, a condition variable and a
  socket, and permanent tasks change while they run.
* `ProcessingStrand`: the final task destroys the strand; `finalize()` waits for the thread under a mutex that
  tasks of the thread want.
* `OperationQueue`: re-entrance. Ending an operation calls its owner, who cancels and queues operations before
  the handler that ended it has returned; work, wakes and cancels are posted and overtake each other.
* File tracking: the user goes on editing while the uploads, deletes and renames decided earlier are on their way or
  wait for each other, reports arrive late, bundled or not at all, and each upload's end has to work off what was
  put off for it. The disk, what the tracker believes and the server are three versions of one tree.
* Connection loss: what was queued must survive it in a registry, once.
* Asynchronous transfers against cancel, pause, end of file and the loss of the connection.

## The modules

| Module | Models | Lines |
|---|---|---|
| `ProcessingThread` | `ssh/async/processing_thread.{hpp,cpp}`, `socket_wait.cpp` | one action per critical section |
| `TaskThread` | the contract users of the thread rely on | abstract |
| `ProcessingThreadRefinement` | the mapping from `ProcessingThread` to `TaskThread` | |
| `ProcessingStrand` | `ssh/async/processing_strand.hpp`, over `TaskThread` | |
| `OperationQueue` | `backend/sftp/operation_queue.cpp`, `parallel_budget.hpp`, the registries, and of `backend/session.cpp` start, stop, adoption and the wake protocol | one action per step of a handler |
| `TrackerState` | `backend/file_tracking/tracking_state.hpp`: known content, pending uploads, server order | operators on values |
| `FileTracker` | `backend/file_tracking/tracker.cpp`, `batching_remote.cpp`, `session_file_tracking.cpp`, and of `sftp/upload_operation.cpp`, `compared_state_check.cpp`, `bulk_transfer_operation.cpp`, `rename_operation.cpp` what it queues | one action per call of a handler and per step of an operation |
| `MC…` | constants for TLC | |
| `ProcessingThreadProofs` | types, one runner at a time, permanent tasks and their removal | proofs |
| `ProcessingThreadQueueProofs` | the way of a task from its push to its run | proofs |
| `ProcessingThreadRefinementProofs` | `ProcessingThread` implements `TaskThread` | proofs |
| `ProcessingStrandProofs` | the final task of a strand | proofs |
| `OperationQueueProofs` | cards, their ends and their homes; types | proofs |
| `OperationQueueScanProofs` | the scans of syncs | proofs |
| `OperationQueueDriverProofs` | the driver never sleeps on work; progress before ends | proofs |
| `FileTrackerProofs` | the order of the tracker's server operations | proofs |

**ProcessingThread.** The variables are the members of the class, the locals of `run()` (with `pc` as the place
in it), the place of `stop()` (`ctl`), the stack of tasks per thread, and histories (`pushed`, `ran`, `gone`). A
critical section under `taskMutex_` is one action; `cleanupMutex_` is held across tasks, so its owner is a
variable. A task is abstract: while it runs its thread may call any operation, then it ends or throws. Waits
with a deadline may end at any time. The rotation that decides which permanent task starts a cycle is any order.

**TaskThread.** One queue, one task at a time with nested cleanup tasks, turns of permanent tasks, deferred
erasure, closing and reopening. `ProcessingThreadRefinement` maps the batch and the queue to one queue and the
stacks of all threads to one stack.

**ProcessingStrand.** Extends `TaskThread`: every step of a strand's methods is a step or a stutter of the
thread's contract. `mutex` is held across steps; a task of the thread may block on it.

**OperationQueue.** `agenda` is the stack of what the running handler still has to do: an owner's call puts its
own steps on top. `posted` holds what the strand posted to itself, in order. Operations are reduced to their
kind, whether they scan or run, and whether they wait for a transfer; any of them may end, fail, wait or ask for
more work whenever it is asked. What the frontend was told is kept in `open` (cards minus ends), `told` (scans)
and `late` (progress after an end).

**TrackerState.** The three classes of the header as operators: `KnownServerContent` is a record of four maps and
sets, `PendingUploads` a function from the path an upload started with to what was put off for it,
`ServerOperationOrder` a sequence of operations with their tickets. Paths are sequences of numbers, so `IsWithin`
is a prefix and paths sort as their text does; content is a number, the version of a file. `StartPending` keeps
the quirk of `std::map::emplace`: an entry whose upload moved away is kept.

**FileTracker.** `disk` and `server` are the two trees, `events` the reports the tracker did not take yet,
`partials` the temporary files of uploads. A handler is a stack of calls (`agenda`): each action performs the call
on top and pushes what it calls, so the order of calls within a handler is that of the code, while edits, other
clients and the operations on their way happen between any two of them. The operations live in `order`; their
`phase` is where they are: `waiting` for their turn, `starting` (given their turn by `leave()`), `here` (the tracker
decides about them, or they wait for the user), `sent` (the remote gathers them), `running`, `checked`, `stat`,
`ended` (done, the tracker was not told yet). `dropped` ones wait when the connection is lost and never start. An
upload of a file checks its destination before it sends, checks it again and then replaces it, in separate
steps; the upload of a directory lists, makes its directories, and sends its files one by one in any order.
External: the local file system and its watch (a deleted tree reports its entries or, moved out, only itself;
lost reports become one that names the item's directory), and other clients of the server.

Six variables are histories, which nothing but the properties reads. `excused` collects remote paths where the
user was asked or told, or somebody else wrote; `unsent` and `passedBy` those where the code knowingly or
unknowingly does not mirror, each listed under Divergences; `leftovers` the partial files that failed uploads leave
on purpose; `foreign` and `told` the versions of other clients.

## The runs

| Run | Instance | Shows |
|---|---|---|
| `thread_tasks` | 2 callers, 1 task, 1 promise, 2 cleanup tasks, batches of 2, one start | tasks run one at a time, on what calls itself the processing thread, in order, once; cleanup tasks are never lost; a promise is a barrier; nothing is stranded; the contract holds. Deadlock is checked |
| `thread_permanents` | 2 callers, 2 permanent tasks, 2 deferred changes, 2 starts | a confirmed removal is final; the contract holds |
| `thread_wakeups` | 1 caller, a promise, a permanent task, 2 starts, fairness | stop() returns, futures become ready, a wake reaches the permanent tasks, removals are answered |
| `thread_nested_cleanup` | 1 caller, 1 task, 3 cleanup tasks | violation, see Findings |
| `strand` | 2 strands, a caller and the tasks of the thread, fairness | the final task is the last of its strand, runs once, begins after the mutex is left; calls return; the final task runs |
| `queue_ends` | an archive, a bulk, two operations of an owner, 3 slots; owners add and cancel inside callbacks | one end per card; the driver never sleeps on work |
| `queue_sync` | both scans of a sync, an owner's upload, a delete; fairness | the sync is answered on every path; a failed sync stays failed although the cancel of the other scan is posted; no progress after an end |
| `queue_resume` | a file, a directory, a bulk delete, 2 connections | a card has one home; no bulk card is lost by a stop; kept files stay until they are taken |
| `tracker_mirror` | a watched directory with two files, 2 edits, 1 move, 1 watch, every option on | operations on one path never meet on the server; nothing that waits is forgotten; when all is quiet the server is as the disk is, the tracker knows it, and no partial file is left |
| `tracker_trees` | a directory in the item, which may be renamed too, 1 edit, 1 move, 1 failed operation, fairness | the same for whole trees, a rename that timed out but happened included; the tracker comes to rest |
| `tracker_faults` | 1 edit, another client, a failed operation or lost connection, lost reports, an option switched or a failure retried, 2 watches | what another client wrote is not replaced unasked; nothing the tracker holds back is lost; what was put off is worked off |
| `tracker_safe_save` | as `tracker_mirror` | violation, see Findings |

Why the bounds are enough. Two callers and the owner of the thread are all the roles `ProcessingThread`
distinguishes, two cleanup tasks are what nesting needs, a batch limit of two and four tasks make a batch that
is cut. Two permanent tasks let one be removed during the turn of the other. In the queue the interactions are
pairwise (an owner and the operation it cancels, a scan and its sibling, a backup and the card of the same id), so
three or four operations of different kinds contain them; three slots with a bulk of up to two make a cycle that
leaves operations out. Two connections are what adoption needs. The tracker's hazards are an upload on its way, a change put off for it,
and what overtakes that change: two edits and a move of two files, or one of each in a tree with a subdirectory,
make all pairs of them at every point of the first upload. Each fault (an operation that fails, is refused or goes
unanswered) happens once, since an upload that failed and
one that fails again are the same to the tracker. Two watches are what an operation that outlives its watch needs.

Deadlock is checked in every run except `queue_sync`, `queue_resume`, where a stopped session is the end, and those of
the tracker, which rests once the bounds on edits are used up; `NothingStuck` and `ComesToRest` say that it rests with
nothing left to do.

Fairness. `ProcessingThread`: every thread that can go on gets the processor (weak fairness of the loop, of
`stop()` and of notifications), tasks end (strong, since a task that keeps calling is interrupted by its calls);
nobody is assumed to push, start or stop, and no wait is assumed to end by its timeout. `ProcessingStrand`: the
same, and a mutex is granted in turn; here the wait of `finalize()` does end by its five second timeout, which
is what the code relies on. `OperationQueue`: the strand is a FIFO of handlers, so a posted handler is not
overtaken for ever although the model lets requests of other threads in at any time (strong fairness), and a
handler that began goes on. `FileTracker` (`FairSpec`): the session's strand runs its handlers and the operations
that were sent go on (weak fairness of handlers and operations as one group: while either can go on, one of them
does, and a queue with slots gives no single operation more than that); nobody is assumed to edit, answer, retry
or stop.

Every property has a mutant: a variant of a mapped definition with a plausible bug, under which TLC finds the
property violated. The mutants stand next to the definition they replace (`Runs_NothingAfterException` and so on)
and are not used otherwise.

## The proofs

A theorem holds for every value of the constants that satisfies the `ASSUME`s: any number of callers, tasks,
permanent tasks, strands, operations, starts, connections and posted handlers, and of the tracker any tree of paths, any
number of edits, failures and watches. None of the invariants below but the types is inductive by itself. Each
strengthening was checked by TLC before it was proved, and its proof has one lemma per action or group of actions.

**Assumptions.** Of the thread: threads and kinds of tasks are distinct, the batch limit is positive. Of the strand:
the tasks of the thread are work and final tasks (a final task is named by its strand), no thread or strand is the
value `None`. Of the queue: the operations are finite in number (the batch of a cycle is a sequence of them), owned
operations have the kinds file tracking queues, scans come in pairs, and the slots are as the constructor clamps them.
Of the tracker: the tree of paths holds the directories above each of its paths, the
watched item is on the disk at first, and of the files there at first one is the latest (the clock starts with it).

### The thread

| Theorem | Property |
|---|---|
| `ProcessingThreadProofs!TypeCorrect` | `TypeOK` |
| `…!WithinProcessingThread` | whoever runs a task is the thread `processingThreadId_` names |
| `…!MutualExclusion` | the loop, the drain and acting callers never run tasks at the same time |
| `…!RemovalIsFinal` | `RemovedTasksStayRemoved` |
| `ProcessingThreadQueueProofs!RunOnce` | `TasksRunOnce` |
| `…!NoCleanupLost` | `CleanupTasksNotLost` |
| `…!NoneStranded` | `NothingStranded` |
| `…!BarrierHolds` | `PromiseIsBarrier` |
| `ProcessingThreadRefinementProofs!ThreadImplementsContract` | `ImplementsContract`, the refinement of `TaskThread` |

`ExecInv` ties `intake_`, the join, `cleanupMutex_` and the place of the loop together: `IntakeInv` (which states of
the loop and of `stop()` go with which intake), `StackInv` (a thread other than the loop has tasks on its stack only
while it drains or holds `cleanupMutex_` after the end, and nested frames are acting ones), `IdInv`
(`processingThreadId_` is the thread on top, and the frames below remember whom to restore).

`QueueInv` follows a task. `PushedInv`: pushed once, and whatever is queued, in the batch, on a stack, run or has a
future was pushed. `OrderInv`: queue and batch are in the order of the pushes, the batch ahead of the queue, and what
the drain runs ahead of both. `RanInv`: what ran is neither queued nor ahead in the batch. `FrameInv`: the loop runs
the task before its position, with nothing but nested cleanup tasks above it; this is what an exception needs, since
the handler goes on behind the task that threw. `KeptInv` (a cleanup task ran or is ahead) gives
`CleanupTasksNotLost`, `ClosedInv` and `PendingInv` (a closed queue is empty; a future that is not ready belongs to a
task that is somewhere) give `NothingStranded`, and `BarrierInv` gives `PromiseIsBarrier`. It says of a ready future
that nothing pushed before it is *live*, also not in the batch of a loop that threw and will only run cleanup tasks
of it: a refusal answers promises there while regular tasks are still listed.

`PermInv`: during the turns the loop's own tasks and the registered ones are disjoint and issued (`TurnsInv`); a
thread that waits for a removal has its erase among the deferred changes, and an answered or confirmed removal is
final (`RemovalInv`).

The refinement maps the rest of the batch and the queue to one queue and the stacks of all threads to one stack. It
rests on `MapInv`, all of the above: mutual exclusion makes the one stack well defined, `FrameInv` says that ending a
task pops it, `OrderInv` and `RanInv` that taking a batch is a stutter and that a task begins from the head of the
abstract queue, `TurnsInv` that the deferred changes are those of the turns in progress. Each action of the thread has
a lemma that names the abstract action it performs, or that it performs none.

### The strand

`FinalTaskIsLastHolds`, `MutexLeftBeforeFinalTaskHolds` and `FinalTaskOnceHolds` prove the run's three invariants over
the contract `TaskThread`, so for every thread that implements it. `IInv` follows a strand to its end: one thread
finalizes it, under the mutex and then past it; its final task waits; it has begun. `OnceInv` says that it is at one
of these places at most, once. `ErasedInv` says that the strand's permanent tasks are gone at each place, or will be
when the turns end (the erase may be deferred, and a wait for it may time out). `OrderInv` says that work pushed
through the strand is ahead of the final task, `MutexInv` and `PushingInv` that nobody pushes to a strand that another
thread finalizes.

### The queue

| Theorem | Property |
|---|---|
| `OperationQueueProofs!QueueTypeCorrect` | `TypeOK`: also, a cycle of work is posted exactly while it is marked as scheduled, once |
| `…!CardsEndOnce` | `OneEndPerCard` |
| `…!HomeIsOne` | `OneHome` |
| `…!StopBacksUp` | `CardsSurviveStop` (an action property) |
| `…!KeptIsKept` | `KeptUntilTaken` (an action property) |
| `OperationQueueScanProofs!ScansGetAnswers` | `ScansAnswered` |
| `…!FailureIsFinal` | `FailedSyncStaysFailed` (an action property) |
| `OperationQueueDriverProofs!DriverNeverStalls` | `NoStall` |
| `…!ProgressPrecedesEnd` | `NoProgressAfterEnd`, of owners that only add (`"cancel" \notin Reactions`) |

The difficulty is re-entrance: an owner's call puts its steps on top of the handler that called it. `CardInv` says
what may be on the agenda then. `AgendaInv`: an operation has at most one end ahead, and a *take*, which refers to an
operation by its index, and what an owner asked for are only ever the next step; so no index is used after an owner
was called. `FrontInv`: the operation a take names is at that index, and its end follows. `QueuesInv`: an operation is
queued once, in one queue. `CardsInv`: the open cards are exactly the operations that are queued or about to end, and
one that is both is taken next. `HomeInv`: backups live with cards, the registries hold operations without one, and an
open card of a resumable bulk has its backup; the last part is `CardsSurviveStop` before the stop. `TypeInv` adds the
posted handlers.

`ScanInv` adds the syncs. `WaitInv`: a scan a sync waits for is queued or about to be answered, and if the next step
takes it out its answer is ahead. `CancelInv`: nobody waits for a scan whose cancel is posted, and it is not queued
anew. `FailedInv`: nobody waits for the sibling of a scan that was reported as failed. So the completion of a scan that
overtakes its posted cancel finds no sync to announce it to.

`DriverInv` is `NoStall` in the middle of a handler. When no cycle is posted or marked and no wake is ahead on the
agenda, every operation a cycle would work on waits for a transfer. Whatever makes room is therefore followed by a
wake in the same handler (`Woken`: a take and an end have a wake behind them on the agenda, through every call of an
owner in between). A cycle that was not cut short has worked on all it was to work on, and each of those that asked
for nothing more waits for a transfer. The batch of the next cycle may be another one, since bulks that
finished scanning take up to `bulkConcurrency` slots where the last cycle counted what was asked of them then. That it
is no larger is `SlotsBefore` growing with the widths: it counts pairs of an operation and one of its slots, so that
wider bulks give a larger set and no induction over the queue is needed.

`ProgressInv` orders what the frontend hears: a cycle's held back progress is ahead of every end on the agenda
(`ProgressFirst`), of cards that are open (`ProgressOpen`), and what the owner adds in between has neither. The
hypothesis is needed. With an owner that cancels when told of the progress of one operation, another of the same
batch ends before its own progress is reported. The one owner there is, file tracking, only shows what its progress
observers hear (`onUploadProgress`).

### The tracker

| Theorem | Property |
|---|---|
| `FileTrackerProofs!TrackerNeverSideBySide` | `NeverSideBySide` |
| `…!TrackerNothingStuck` | `NothingStuck` |
| `…!TrackerForeignVersionsStay` | `ForeignVersionsStay` (an action property) |

The first two are properties of the server order, and what makes them hard is who is to give a ticket back. An operation that
got its turn is in the hands of one call on the agenda, of the user's answer, or of the operation queue; each handler
takes it from one hand and puts it into another, through calls that queue, cancel and rename other operations in
between. `TurnInv` says so in the middle of a handler, and has two cases. While the tracker works (`Works`) each turn is
in one hand: no two calls and no open question name the same ticket, and a call that decides about an upload names one
that is in the order and is not on its way (`Turns`); an operation that is in the tracker's hands is named by a call or
asked about (`Held`); and an upload with a record of what was put off keeps its place in the order until that record is
taken (`Recorded`), which is `NothingStuck`'s second half. After the connection was lost the tracker ebbs
(`Ebbs`): the agenda holds nothing but leaves, which may name one operation twice or one that has left, and nothing starts.
At rest the second case is an instance of the first. `OrderOK` is the order itself: tickets ascend, what has started
has nothing that overlaps before it, what waits has; `LeaveOrderOK` shows that `leave()` keeps it, since all that
waited only for the operation that left starts, and `EnterOrder` that a new operation keeps it.

`ForeignVersionsStay` is about what an upload compares with. The state it saw at its last check is the one it replaces
unless somebody writes in between, so it has to be shown that the state it saw is never a foreign one. That state comes
from far: from the local file at an earlier upload, through the record of known content, moved and restored with it,
into the comparison, an open question, the operation in the order, and back. `OwnInv` follows it. `Own` are the
versions up to the clock that no other client wrote, and those of another client that the tracker was told of when an
upload ended. What is on the disk, known, expected, read, sent, seen in the comparison, reported at the end of an upload
or carried by a call on the agenda is in `Own`. Only what is on the server need not be. An edit or a foreign write makes a
version that was not there before, so that what was own stays so (`WritesOwn`, `GrowOwn`). Being told of a version makes
it own (`CompletedOwn`). Each handler and each step of an operation has its lemma, and `NextOwn` needs `TurnInv`: the
operation that a call names has to be the one its answer is written to.

### What stays with TLC

* Liveness and fairness: `StopEnds`, `FuturesComplete`, `WakeReachesPermanents`, `RemovalAnswered`, `CallsReturn`,
  `FinalTaskRuns`, `SiblingLeaves`, `ComesToRest`; and what recursive definitions compute for all inputs.
* Of the tracker: what relates the trees (`Mirrors`, `KnowsTheServer`, `InStep`, `NoPartialLeft`, and the domains in
  `TypeOK`), which would need an invariant that says for each path which upload, record or report still accounts for it.

## Findings

* `thread_nested_cleanup`. The comment at `processing_thread.cpp:475` says that cleanup tasks pushed after the
  loop threw run "on their caller, after the queued ones ran here". A queued cleanup task that itself pushes one,
  on the loop's own thread, holds the recursive `cleanupMutex_` already and runs the new one at once, before the
  cleanup tasks queued earlier. `TaskThread` allows it (`Act` nests), and the other properties hold with it.
* `tracker_safe_save`. `tracking_state.hpp:552` says of the pending uploads that one path has at most one. `start()`
  looks at the paths uploads have now, then stores the new one under its path with `emplace` (line 614). An upload
  that began at `f` and whose file moved to `g` still has the key `f`: when `f` is written anew, as editors do that
  save by renaming, `emplace` keeps the old entry and `start()` answers that the upload is new. Two uploads share one
  record. The first to end takes it, with the rename to `g` put off in it, which then moves the wrong copy; what
  happens to the other meanwhile is put off for nobody.

### Divergences

`Mirrors` and `KnowsTheServer` hold except at the paths of these histories. Each was found as a counterexample, is the
behaviour of the code, and is excused because the code or its comments accept it, or because it is a limit of what the
tracker can see. They are the places to look at when a server copy differs:

1. A file below a directory whose upload is running and has sent it already is renamed over something the server
   has: its old copy stays (`onMoved`, the last branch, knows nothing at the old path yet).
2. An upload starts or ends while the rename of its source is not reported yet: the source counts as gone, the
   change is dropped, and the rename that follows has nothing to move. A file renamed so before its first upload
   is not uploaded until it changes again.
3. After the upload of a directory `rememberStates()` records the local states of now: a file that changed after it
   was sent counts as known in its new version until the change is worked off.
4. An upload that waits or is gathered to continue a kept partial file and is dropped before it takes it over leaves
   the partial file.
5. A directory renamed while its upload runs: entries the upload left out, or never listed, are remembered as known
   under the new name.
6. A directory that appeared after the listing of an upload counts as known, an empty one is not created; one that
   the upload made, and that left with nothing sent into it, stays on the server.
7. Lost reports while an upload runs: a deletion below it of what the server is not known to have yet is not mirrored.
8. An upload of a directory that fails as a whole forgets what it sent; later deletions of that are not mirrored.
9. Listed failures do not follow a move of their path; a retry then finds nothing there.
10. What an ended watch left on the server is not known to the next watch of the item; deleted before the next upload,
    it stays.
11. A tree moved out of the item in one step keeps its server copy, on purpose (`onDeleted` never deletes a directory
    with content).
12. A rename whose wait timed out is reported failed and happens all the same. The tracker forgets the copy and uploads
    to the new path; when that was deleted or left meanwhile, the copy the rename made stays there.
13. A file that moved along with its directory, or to its new name, while its upload ran is deleted before that upload
    ends, and the deletion is not reported yet. `finishMovedUpload()` finds nothing to remember, so the deletion that is
    reported later has nothing known to delete, and the copy that moved along stays.
14. A file whose upload is on its way is renamed and the directory it left is deleted. The delete of the directory is in
    the order before the rename, or before the upload that continues the partial file; it finds the directory not
    empty and fails, the rename then empties it, and the empty directory stays.
15. An upload whose `DestinationStates` went unanswered is not known. Deleted before its next upload it stays.
16. A removal of a partial file that is refused or fails leaves the partial file.

13 and 14 were found with the instance of `tracker_trees` and a retried failure besides (`MaxChoices = 1`), checked
for `InStep` alone: 935,000 states, in which it holds with these two excused. With `ComesToRest` that instance takes too
long, so that the run keeps `MaxChoices = 0`.

The destination of a rename that timed out (12) is excused by this, so what `tracker_trees` asks after it is that the
tracker comes to rest.

## Not modelled

* libssh, asio, the operating system: external. A task, an operation and a transfer may answer anything their
  interface allows.
* Of the queue: `executeSyncPlan`, which adds operations by the same functions; what a backup still lists after
  part of it finished; unsafe fast mode; toasts; the refusal of backups with several directories, which
  `splitBulkRequest` never makes.
* Of the backend's session: the channel table and the RPC handlers that answer at once.
* Of file tracking: downloaded copies with their temporary directories and orphans, several watches in one session
  (and the stop of a watch whose item moves onto another's server copy), the deletion of the item itself, symbolic
  links, paths that cannot be checked, Unicode spellings, the settling of raw file system events
  (`settled_changes.cpp`) and the watches of the platforms, the progress meter, the view.
* Error paths of file tracking: a local path that is not within the item has no remote path (`tracker.cpp:1432`, `:2845`), which
  the bounds do not reach. A full batch of uploads is taken out and posted, when a stop does not find them
  (`batching_remote.cpp:126`); the model's uploads are always gathered until they start. What fails between the check
  and the replacement is a failure of the running upload, since both leave the same. A file of a directory's upload is
  read and written in one step, that of a file upload in two.
* Everything under Plan that is not built yet. User interface, settings, string and byte formats are listed in
  `PROJECT.json` with the reason.

## Plan

In this order; a later module uses the contract of an earlier one where it can.

1. `ProcessingThread`, `TaskThread`, the refinement (built).
2. `ProcessingStrand` (built).
3. `OperationQueue` with the session's driver and the registries (built).
4. `TrackerState`, `FileTracker` (built): changes, moves and deletions against uploads on their way.
5. `SshSession`: the lists of the session, channels, SFTP sessions and streams over `TaskThread`. Properties: no
   task of an object runs after it removed itself, shutdown ends and empties the lists, creations that outlive
   their ten second wait.
6. `FileTransfer`: file stream loops with the request window, `AsyncTransferContext`, buffers of
   `BufferProvider`, driven by the download and upload operations. Properties: an outcome is set once, no
   request is in flight after the end, every wait has a waker, the local file is a prefix of the source through
   short answers and continued partial files, nothing of the operation is used after its end. Two questions to
   ask of it, from reading only: a kept partial file with reserved space has the full size, so the comparison of
   the tails (`resume_check.cpp:10`) takes it for complete when the source ends in zeros; and a local write
   that fails in the transfer's own turn (`commitBufferToFile`) leaves the operation failed before the queue asks
   it, which then hears `CannotWorkFailedOperation` instead of the cause.
7. `BulkTransfer`: slots, deferred entries, what is left for a resume, refined by an abstract set of entries.
8. `LocalOperationQueue`, `SyncSession` with the diff as a function checked against a reference definition.
9. The tracker's downloaded copies: instances, locks, orphans; the settling of raw events.
10. `ForkPool`.

Theorems to add: `NoPartialLeft` of the tracker, then `InStep`.
