\* What survives concurrent transactions, and that the scanners collect the rest.
CONSTANTS
    j1 = j1
    j2 = j2
    r1 = r1
    r2 = r2
    k1 = k1
    scanner = scanner
    Jobs = {j1, j2}
    Keys = {k1}
    KeysOf <- OneKeyOf
    Requests = {r1, r2}
    Scanner = scanner
    MaxRequests = 5
SPECIFICATION FairRaceSpec
CHECK_DEADLOCK FALSE
PROPERTIES
    InvocationWrittenOnce
    RacedJobSettles
