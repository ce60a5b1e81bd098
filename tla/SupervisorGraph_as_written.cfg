SPECIFICATION Spec
CONSTANTS
    DiffHashes = {h1, h2}
    NoEdit = NoEdit
    CallCosts = {0, 1, 4}
    MaxCost = 9
    MaxRetries = 3
    BeforeWriteOps = TRUE
    AgentFaults <- FaultsAsWritten
    Decisions = {"approve", "reject"}
INVARIANTS
    TypeOK
    OneDelivery
    AwaitingIffPaused
    EscalationsReachAHuman
    PushedEditWasJudged
    RetryBudget
    CostIsComplete
    GraphInv
PROPERTIES
    NoAgentAfterOutcome
