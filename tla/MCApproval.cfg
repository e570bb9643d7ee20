\* Two handlers and a call on two nodes; or three turns, two at a time; or one run.
CONSTANTS
    r1 = r1
    r2 = r2
    c1 = c1
    n1 = n1
    n2 = n2
    n3 = n3
    Requests = {r1, r2}
    MaxRequests = 3
    Nodes = {n1, n2}
    Calls = {c1}
    Any = Any
    MaxReports = 2
    Streams = {1, 2}
    Sources = {n1, n2}
    Matches = {}
    Bindable <- ForArtifacts
    Makers = {n1}
    Effect <- Effects
    Batches <- SearchAndInvoke
    Search = Search
    Keep = 4
    Load = 6
    Recent = 3
    Limit = 2
    Remembered = 1
    MaxTurns = 3
    MaxSteps = 2
    Tools <- TwoTools
    Repairable = {"denied", "invalid_input"}
    Plain = {"broken"}
    CodeOf <- CodeOfErrors
    MaxToolCalls = 2
    MaxBatch = 2
    MaxIterations = 3
    MaxRaises = 1
SPECIFICATION SystemSpec
CHECK_DEADLOCK FALSE
INVARIANTS
    GatedJobsAreGranted
    PacketIsWhole
    FoundCanBeInvoked
    AnswerIsRepaired
    PendingIsOpen
