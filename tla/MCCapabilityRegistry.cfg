SPECIFICATION RegistrySpec
CONSTANTS
    n1 = n1
    n2 = n2
    Nodes = {n1, n2}
    c1 = c1
    c2 = c2
    Caps = {c1, c2}
    MaxHandlers = 2
    Searches = {q1}
    Manifests <- MCManifests
    Registered <- MCRegistered
    None = None
    TopK = 2
    BatchSize = 3
    MaxReports = 2
    MaxFailures = 1
CHECK_DEADLOCK FALSE
INVARIANTS
    SourcesFollowReport
    SnapshotIsCurrent
    AnswersRankCandidates
PROPERTIES
    CandidatesGetIndexed
    RegistrationEnds
