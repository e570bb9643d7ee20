\* Safety, refinement and settling of the job runtime.
CONSTANTS
    j1 = j1
    j2 = j2
    j3 = j3
    n1 = n1
    n2 = n2
    k1 = k1
    k2 = k2
    NoJob = NoJob
    Jobs = {j1, j2}
    Nodes = {n1}
    Keys = {k1, k2}
    NodeOf <- ContendNodeOf
    KeysOf <- ContendKeysOf
    MaxSlots = 2
    MaxRestarts = 1
SPECIFICATION FairSpec
CHECK_DEADLOCK FALSE
PROPERTIES
    ImplementsContract
    ExpiredJobSettles
