SPECIFICATION Spec
CONSTANTS
    Paths = {p1}
    c1 = c1
    d1 = d1
    l1 = l1
    Commands = {c1, d1, l1}
    Printed <- MCPrinted
    Destructive = {d1}
    Extends <- MCExtends
    Slots = {1, 2}
    NoCall = nocall
    MaxTurns = 2
    MaxSubmitted = 2
    Callers = {r1, r2}
    Boot = boot
    Room = 1
    MaxPings = 1
    N = 3
    Overlaps = {{1, 2}, {1, 3}}
    Concurrency = 2
    MaxRuns = 2
    MaxMishaps = 1
    Urls = {u1, u2}
    NoUrl = nourl
    MaxRows = 2
    MaxTop = 2
    MaxSearches = 2
    MaxPages = 2
    MaxAttempts = 3
    EditPaths = {f1, f2}
    Absent = absent
    NoText = notext
    WordsOf = {"a", "x"}
    Broken = "x"
    Indents = 1
    TextLength = 2
    BlockLength = 1
    MaxFaults = 2
    MaxOps = 2
    Shown = 1
    MaxWritten = 3
    MaxPolls = 3
CHECK_DEADLOCK FALSE
INVARIANTS
    TypeOK
    DestructiveNeedsConsent
    AppliedIsIntegrated
    SearchKeepsEvidence
    FailedEditsUndone
    TailIsReported
PROPERTIES
    ImplementsRpc
