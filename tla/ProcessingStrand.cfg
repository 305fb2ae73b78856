\* Two strands, one caller and the tasks themselves use and finalize them.
CONSTANTS
    Strands = {s1, s2}
    Work = {w1}
    Tasks <- AllTasks
    Ids = {1}
    NoTurn = 0
    Callers = {c1}
    Loop = loop
    None = none
SPECIFICATION FairSpec
INVARIANTS
    FinalTaskIsLast
    MutexLeftBeforeFinalTask
    FinalTaskOnce
PROPERTIES
    CallsReturn
    FinalTaskRuns
