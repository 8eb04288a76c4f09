\* A submission and its retry.
SPECIFICATION Spec
CONSTANTS
    RunIds = {r1, r2}
    Keys = {k1}
    Sessions = {s1, s2}
    Clients = {c1, c2}
    NoAdmission = NoAdmission
    NoRecord = NoRecord
    Idle = Idle
    MaxQueued = 1
    DailyUnits = 3
    UnitsPerRun = 2
    PendingTime = 2
    DayLength = 2
    LastInstant = 3
    Delay = 1
    Legacy = {}
SYMMETRY Symmetry
INVARIANT NewWorkIsCharged
\* The clock of the model ends; with nothing left to do the behaviour stops there.
CHECK_DEADLOCK FALSE
