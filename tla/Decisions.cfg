SPECIFICATION Spec
CONSTANTS
    Symbols = {a, b}
    MaxRetries = 1
    Obligations = {a}
    PlanAttempts = 2
    PlannerAttempts = 2
    MaxRepairs = 2
    Errors = {e1, e2}
    NoError = noerror
    RepairFiles = 1
    Paths <- MCPaths
    Roots <- MCRoots
    MaxFiles = 2
    MaxAsks = 1
    Words <- MCWords
    MaxWords = 2
    Decisions <- MCReplies
    Cells <- MCCells
    Shorts <- MCShorts
    Bodies = {"x", "y"}
    SizeOf <- MCSizes
    Number <- MCNumber
    Names <- MCNames
    Commands <- MCCommands
    Depth = 3
    MaxKeys = 5
    SourceFiles = {f1, f2}
    MaxPackages = 2
    RoundBudget = 2
    ActionBudget = 2
    MaxRounds = 3
CHECK_DEADLOCK FALSE
INVARIANTS
    TypeOK
    PastesArrive
    AnswerIsGrounded
    HeardAsSaid
    NoHalfFile
    SuccessIsTested
    ObligationsFollow
    ModelIsBound
