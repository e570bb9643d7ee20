\* The scanner, two requests at a time, and one cancel.
CONSTANTS
    DbSessions = {0, 1, 2}
    Ends = {"succeeded", "cancelled"}
    MaxCancels = 1
    Slow = TRUE
SPECIFICATION FairSpec
CHECK_DEADLOCK FALSE
INVARIANTS
    NotedOnce
    LogTellsTheLife
PROPERTIES
    OperationSettles
