SPECIFICATION Spec
CONSTANTS
    p1 = p1
    p2 = p2
    Publishers <- MCPublishers
    Subscribers = {s1}
    Workers = {w1}
    NoOne = NoOne
    MaxSize = 1
    MaxEvents <- MCMaxEvents
    MaxCloses = 1
INVARIANTS
    NoEventOutlivesClose
CHECK_DEADLOCK FALSE
