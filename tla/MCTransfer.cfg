\* One session: its first attempt and one resume.
CONSTANTS
    Intents <- Asked
    Probes <- Answers
    MaxAttempts = 2
    MaxPreflights = 2
SPECIFICATION FairSpec
CHECK_DEADLOCK FALSE
INVARIANTS
    EveryJobReachable
PROPERTIES
    OperationSettles
