\* Two callers, every kind of task, no permanent tasks.
CONSTANTS
    Callers = {c1, c2}
    Ctl = ctl
    Loop = loop
    None = none
    Regulars = {r1}
    Promises = {p1}
    Cleanups = {k1, k2}
    BatchLimit = 2
    MaxPermanents = 0
    MaxDeferred = 0
    MaxStarts = 1
SPECIFICATION Spec
SYMMETRY Symmetry
INVARIANTS
    TypeOK
    OneExecutor
    TasksRunWithinProcessingThread
    CleanupTasksNotLost
    TasksRunOnce
    PromiseIsBarrier
    NothingStranded
PROPERTY ImplementsContract
