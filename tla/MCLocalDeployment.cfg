\* One run between two processes; a file of one tenant with two sessions, and releases of five,
\* seven and eight migrations; three sessions and two handlers.
SPECIFICATION MCSpec
CONSTANTS
    RunIds = {r1}
    Keys = {k1}
    Sessions = {s1}
    WorkerIds = {w1}
    WorkerId = w1
    LeaseIds = {l1, l2, l3}
    Answers = {a1}
    Processes = {p1, p2}
    NoRun = NoRun
    NoLease = NoLease
    NoItem = NoItem
    LastInstant = 4
    MaxLease = 2
    LeaseTerm = 2
    BlockedTerm = 1
    Visibility = 2
    Delay = 1
    MaxVersion = 5
    MaxGeneration = 1
    Tenants = {t1}
    TenantSessions = {s3, s4}
    NoSession = NoSession
    Releases = {5, 7, 8}
    LastNumber = 2
    SessionNames = {1, 2, 3}
    Creators = {h1, h2}
    PageSizes = {1}
    CreateAttempts = 2
    LastCreation = 1
SYMMETRY Symmetry
INVARIANTS ExecutionsAreRecoverable OneExecution  ListingIsComplete
PROPERTIES ResultsAreTheHolders WorkIsKept
\* The clock of the model ends; with nothing left to do the behaviour stops there.
CHECK_DEADLOCK FALSE
