SPECIFICATION Spec
CONSTANTS
    DiffHashes = {h1, h2}
    NoEdit = NoEdit
    CallCosts = {1}
    MaxCost = 7
    MaxRetries = 3
    BeforeWriteOps = TRUE
    AgentFaults <- FaultsHandled
    Decisions = {"approve"}
INVARIANTS
    FiredMeansAsked
PROPERTIES
    ImplementsGatedDelivery
    AnsweredTasksEnd
