SPECIFICATION Spec
CONSTANTS
    Tasks = {t1}
    Requests = {r1, r2}
    PatientClients = FALSE
    BeforeWriteOps = FALSE
    MaxRestarts = 0
INVARIANTS
    RejectionIsFinal
CHECK_DEADLOCK FALSE
