SPECIFICATION Spec
CONSTANTS
    Files <- OneFile
    TestSuites <- OneTestOrNone
    DiffLengths = {1, 2}
    MaxFailures = 3
    MaxToolCalls = 1
INVARIANTS
    TurnTypeOK
    OwnCallsOnly
    ErrorWindowIsRecent
    FailingAgentStops
    StuckAgentStops
    LoopIsRepetition
CHECK_DEADLOCK FALSE
