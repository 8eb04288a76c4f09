\* Two replicas, two administrators, three keys; days of two instants.
SPECIFICATION MCSpec
CONSTANTS
    KeyIds = {k1, k2, k3}
    NoKey = NoKey
    Admins = {a1, a2}
    MaxTime = 4
    Lateness = 1
    Replicas = {p1, p2}
    RunIds = {r1}
    Permits = {n1, n2}
    NoPermit = NoPermit
    NoGrant = NoGrant
    Limit <- MCLimit
    Term = 2
    ReclaimBatch = 1
    IdempotencyKeys = {i1, i2}
    DayLength = 2
    Budget = 1
    MaxQueued = 2
    Window = 1
    Burst = 2
    Rate = 1
    Meddlings = 3
    Rounds = 2
SYMMETRY Symmetry
INVARIANTS SuccessionIsLinear PermitsAreExclusive StreamsFollowTheirKeys RequestsAreRationed LedgerIsTheSum OutputIsSafe
CHECK_DEADLOCK FALSE
