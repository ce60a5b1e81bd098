SPECIFICATION Spec
CONSTANTS
    Files <- OneFile
    TestSuites <- OneTestOrNone
    DiffLengths = {1}
    MaxFailures = 1
    MaxToolCalls = 0
INVARIANTS
    FailingRunIsReported
CHECK_DEADLOCK FALSE
