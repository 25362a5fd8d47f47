SPECIFICATION FairSpec
CONSTANTS
    p1 = p1
    p2 = p2
    Publishers <- MCPublishers
    Subscribers = {s1}
    Workers = {w1, w2}
    NoOne = NoOne
    MaxSize = 1
    MaxEvents <- MCMaxEvents
    MaxCloses = 2
INVARIANTS
    InOrder
    DropsAccounted
    DrainDelivers
    CloseStopsWorker
PROPERTIES
    CloseTerminates
CHECK_DEADLOCK FALSE
