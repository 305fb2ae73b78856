\* Permanent tasks added, removed and cleared from outside and from tasks.
CONSTANTS
    Callers = {c1, c2}
    Ctl = ctl
    Loop = loop
    None = none
    Regulars = {}
    Promises = {}
    Cleanups = {}
    BatchLimit = 1
    MaxPermanents = 2
    MaxDeferred = 2
    MaxStarts = 2
SPECIFICATION Spec
SYMMETRY Symmetry
INVARIANTS
    RemovedTasksStayRemoved
PROPERTY ImplementsContract
