\* Three streams in the session, whose operations end with a timeout.
CONSTANTS
    MaxRuns = 3
    MaxUsers = 2
    MaxDrops = 1
    Outcomes = {"timeout"}
SPECIFICATION FairSpec
CHECK_DEADLOCK FALSE
INVARIANTS
    MarkTellsTheTruth
    
    ReportedIsSettled
PROPERTIES
    WaitsEnd
