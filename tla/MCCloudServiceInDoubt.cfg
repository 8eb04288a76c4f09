\* The same instance, with calls that fail after they took effect.
SPECIFICATION Spec
CONSTANTS
    RunIds = {r1}
    Sessions = {s1}
    TaskNames = {n1, n2}
    Procs = {p1, p2}
    Answers = {a1}
    NoRun = NoRun
    NoLease = NoLease
    NoItem = NoItem
    NoTask = NoTask
    BatchSize = 2
    MaxVersion = 3
    MaxGeneration = 2
    MaxRounds = 2
    InDoubt = TRUE
SYMMETRY Symmetry
INVARIANTS WorkIsDispatched
CHECK_DEADLOCK FALSE
