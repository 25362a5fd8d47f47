SPECIFICATION Spec
CONSTANTS
    Files = {f1}
    NoFile = nofile
    Texts = {1}
    BatchLimit = 2
    MaxCalls = 4
    MaxEdits = 2
    MaxLines = 5
    MaxTurns = 3
    MaxSteered = 3
    Symbols = {a, b}
    MaxMishaps = 1
    Load = 1
    Long = 4
    RecentSize = 2
    SummarySize = 3
    Budget = 14
    Recent = 2
    Listed = 2
    MaxMessages = 8
CHECK_DEADLOCK FALSE
INVARIANTS
    TypeOK
    FedInOrder
    SteersItsTurn
    CacheIsCurrent
    RepairIsKnown
    ResultAnnounced
    ConversationKept
    RequestsAreWhole
    AnswerIsHonest
PROPERTIES
    EditsReopenCalls
