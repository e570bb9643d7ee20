SPECIFICATION CrocSpec
CONSTANTS
    Setups <- MCSetups
    Jobs = {j1, j2}
    MaxNumber = 2
    MaxCrashes = 1
    MaxReconciles = 1
INVARIANTS
    AttemptRunsOnce
    DeliveredStays
PROPERTIES
    RunningEnds
CHECK_DEADLOCK FALSE
