\* One job, lost messages, crashes on both sides.
CONSTANTS
    j1 = j1
    j2 = j2
    n1 = n1
    k1 = k1
    NoJob = NoJob
    n = n1
    Jobs = {j1}
    Keys = {k1}
    KeysOf <- OneKeyOf
    MaxConcurrent = 1
    MaxRestarts = 1
    MaxCrashes = 1
    MaxLosses = 2
SPECIFICATION FairSpec
CHECK_DEADLOCK FALSE
INVARIANTS
    SuccessIsReal
    ForgottenIsSettled
PROPERTIES
    Reconnects
