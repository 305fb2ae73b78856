\* Cleanup tasks that push cleanup tasks after the loop threw.
CONSTANTS
    Callers = {c1}
    Ctl = ctl
    Loop = loop
    None = none
    Regulars = {r1}
    Promises = {}
    Cleanups = {k1, k2, k3}
    BatchLimit = 2
    MaxPermanents = 0
    MaxDeferred = 0
    MaxStarts = 1
SPECIFICATION Spec
SYMMETRY Symmetry
INVARIANT ActingTasksRunAfterQueuedOnes
