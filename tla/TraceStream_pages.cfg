SPECIFICATION Spec
CONSTANTS
    Turns = 2
    QueueSize = 2
    MaxSockets = 2
CHECK_DEADLOCK FALSE
INVARIANTS
    TraceTypeOK
    NoGapInStream
    ShownOnce
    StoppedPageShowsDecisions
