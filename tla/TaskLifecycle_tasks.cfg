SPECIFICATION Spec
CONSTANTS
    Tasks = {t1, t2}
    Requests = {r1, r2}
    PatientClients = FALSE
    BeforeWriteOps = TRUE
    MaxRestarts = 1
INVARIANTS
    TypeOK
    NothingWrittenUnapproved
    CompletedHasPr
CHECK_DEADLOCK FALSE
