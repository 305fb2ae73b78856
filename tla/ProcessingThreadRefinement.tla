--------------------- MODULE ProcessingThreadRefinement ---------------------
(* ProcessingThread implements TaskThread: the batch and the queue are one *)
(* queue, the stacks of all threads are one stack.                         *)
EXTENDS ProcessingThread

\* The queue as the users see it: the rest of the batch comes first.
Waiting == SubSeq(batch, position, Len(batch)) \o tasks

Busy == {th \in Threads : stack[th] # << >>}

\* The tasks on the stack of the one thread that has any.
Nested ==
    IF Busy = {} THEN << >>
    ELSE LET s == stack[CHOOSE th \in Busy : TRUE]
         IN  [i \in DOMAIN s |-> s[i].task]

\* What the deferred modifications will erase.
Erasing ==
    {m.id : m \in {d \in Range(deferredTaskModification) : d.op = "erase"}}

Contract == INSTANCE TaskThread WITH
    NoTurn     <- 0,
    open       <- intake # "Closed",
    waiting    <- Waiting,
    executing  <- Nested,
    cycle      <- IF processingPermanents THEN "turns" ELSE "none",
    due        <- todo,
    turn       <- current,
    issued     <- 1..permanentTaskIdCounter,
    permanents <- permanentTasks \cup moved,
    erasing    <- Erasing

\* Whatever the threads do, the users of the class see one queue that is
\* worked in order, one task at a time, with every cleanup task run.
ImplementsContract == Contract!ThreadSpec

=============================================================================
