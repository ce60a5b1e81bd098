SPECIFICATION Spec
CONSTANTS
    Tasks = {t1, t2}
    MaxFaults = 1
    MaxCrashes = 1
    MaxSweeps = 2
SYMMETRY Symmetry
CHECK_DEADLOCK FALSE
INVARIANTS
    SandboxTypeOK
    CleanTeardownLeavesNothing
    NoYoungSandboxLost
    SweepReclaims
