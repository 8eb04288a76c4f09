\* The promise of docs/threat-model.md about terminal writes, as it is written: a
\* process whose lease has passed to another one still ends a cancelled run.
SPECIFICATION Spec
CONSTANTS
    RunIds = {r1}
    Keys = {k1}
    Sessions = {s1}
    WorkerIds = {w1}
    WorkerId = w1
    LeaseIds = {l1, l2, l3}
    Answers = {a1}
    Processes = {p1, p2}
    NoRun = NoRun
    NoLease = NoLease
    NoItem = NoItem
    LastInstant = 4
    MaxLease = 2
    LeaseTerm = 2
    BlockedTerm = 1
    Visibility = 2
    Delay = 1
    MaxVersion = 5
    MaxGeneration = 1
PROPERTY EndedByTheHolder
\* The clock of the model ends; with nothing left to do the behaviour stops there.
CHECK_DEADLOCK FALSE
