SPECIFICATION HybridSpec
CONSTANTS
    DiffHashes = {h1, h2}
    NoEdit = NoEdit
    CallCosts = {0, 1, 4}
    MaxCost = 9
    MaxRetries = 3
    BeforeWriteOps = FALSE
    AgentFaults <- FaultsAsWritten
    Decisions = {"approve", "reject"}
INVARIANTS
    HybridTypeOK
    PushedEditWasJudged
    RetryBudget
    PeerCostIsComplete
    PeerCoderAnswersItsReview
    HandoffsFollowReviews
PROPERTIES
    AnsweredTasksEnd
