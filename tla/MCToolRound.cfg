SPECIFICATION RoundSpec
CONSTANTS
    k = k
    Tools <- MCTools
    Plans <- MCPlans
    ExecutionMode = "auto"
    ApprovalBypass = FALSE
    MaxSteps = 2
    ConcurrencyMax = 2
INVARIANTS
    OneAnswerEach
    CallsApart
    NextStepAlone
PROPERTIES
    StreamReturns
CHECK_DEADLOCK FALSE
