SPECIFICATION Spec
CONSTANTS
    Tasks <- MCTasks
    MaxRounds = 4
    MaxMutationRequests = 1
    MaxArtifactRequests = 2
    MaxMalformed = 1
    MaxRepairRequests = 2
    MaxRepairAttempts = 1
    MaxPhaseBlocks = 1
    MaxCalls = 1
    BatchRounds = 1
INVARIANT
    FreshValidation
