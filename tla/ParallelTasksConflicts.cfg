SPECIFICATION ParallelSpec
CONSTANTS
    N = 2
    Overlaps = {{1, 2}}
    Concurrency = 2
    MaxRuns = 1
    MaxMishaps = 0
CHECK_DEADLOCK FALSE
INVARIANTS
    ConflictsPreserved
