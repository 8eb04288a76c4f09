\* The promise of docs/api.md about shutdown, as it is written: it fails for a run
\* whose cancellation was requested before its process died.
SPECIFICATION Spec
CONSTANTS
    RunIds = {r1}
    Keys = {k1}
    Sessions = {s1}
    WorkerIds = {w1}
    WorkerId = w1
    LeaseIds = {l1, l2, l3}
    Answers = {a1}
    Processes = {p1, p2}
    NoRun = NoRun
    NoLease = NoLease
    NoItem = NoItem
    LastInstant = 4
    MaxLease = 2
    LeaseTerm = 2
    BlockedTerm = 1
    Visibility = 2
    Delay = 1
    MaxVersion = 5
    MaxGeneration = 1
INVARIANT EveryExecutionIsRecoverable
\* The clock of the model ends; with nothing left to do the behaviour stops there.
CHECK_DEADLOCK FALSE
