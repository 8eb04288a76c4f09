\* Two submissions, one key of a run that precedes quota accounting.
SPECIFICATION Spec
CONSTANTS
    RunIds = {r1, r2, r3}
    Keys = {k1, k2, k3}
    Sessions = {s1, s2}
    Clients = {c1, c2}
    NoAdmission = NoAdmission
    NoRecord = NoRecord
    Idle = Idle
    MaxQueued = 1
    DailyUnits = 3
    UnitsPerRun = 2
    PendingTime = 2
    DayLength = 2
    LastInstant = 3
    Delay = 1
    Legacy = {k2}
SYMMETRY Symmetry
INVARIANTS DailyBudget OwnersAreCharged BurstFitsQueue
\* The clock of the model ends; with nothing left to do the behaviour stops there.
CHECK_DEADLOCK FALSE
