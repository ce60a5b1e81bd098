SPECIFICATION Spec
CONSTANTS
    DiffHashes = {h1, h2}
    NoEdit = NoEdit
    CallCosts = {1}
    MaxCost = 9
    MaxRetries = 3
    BeforeWriteOps = FALSE
    AgentFaults <- FaultsAsWritten
    Decisions = {"approve", "reject"}
INVARIANTS
    SameFixTwiceEscalates
