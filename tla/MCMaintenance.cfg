\* Two runs of a plan of at most three steps.
CONSTANTS
    available <- Listed
    tool <- Tools
    answers <- Proposals
    NoFunction = "none"
    N = 3
    Requested <- AskedFor
    MaxRuns = 2
SPECIFICATION FairSpec
CHECK_DEADLOCK FALSE
INVARIANTS
    SuccessIsWhole
PROPERTIES
    GatedIsApproved
    RunReturns
