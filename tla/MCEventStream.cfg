\* Two clients of one run, three events, batches of two.
SPECIFICATION FairSpec
CONSTANTS
    RunIds = {r1}
    Clients = {c1, c2}
    BatchSize = 2
    MaxEvents = 4
INVARIANTS ReceivedIsAPrefix EndedIsComplete
PROPERTIES StreamsEnd EventsArrive
