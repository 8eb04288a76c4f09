\* The life of a run: two leases of up to two instants, a clock of four.  The tables: two
\* runs, keys and sessions, and three runs ever created, so that ids and keys come back.
SPECIFICATION MCSpec
CONSTANTS
    RunIds = {r1, r2}
    Keys = {k1, k2}
    Sessions = {s1, s2}
    WorkerIds = {w1}
    LeaseIds = {l1, l2}
    Answers = {a1}
    NoRun = NoRun
    NoLease = NoLease
    LastInstant = 3
    MaxLease = 2
    MaxVersion = 5
    MaxGeneration = 3
    LifeGenerations = 2
SYMMETRY Symmetry
INVARIANTS ValidLifecycle EventLogFaithful IdempotencyConsistent NothingOutlivesItsSession
PROPERTIES LeaseHandover PromiseKept
