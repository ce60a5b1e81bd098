SPECIFICATION Spec
CONSTANTS
    Tasks = {t1, t2}
    Requests = {r1, r2, r3}
    PatientClients = TRUE
    BeforeWriteOps = FALSE
    MaxRestarts = 0
INVARIANTS
    RejectionIsFinal
    RejectionInv
    AwaitingCanBeDecided
PROPERTIES
    OpenedIsRecorded
CHECK_DEADLOCK FALSE
