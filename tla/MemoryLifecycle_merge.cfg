\* Two memories that are merged while another pass writes one of them.
SPECIFICATION Spec
CONSTANTS
    w1 = w1
    w2 = w2
    Workers = {w1, w2}
    Memories = {1, 2}
    Origins <- MCOrigins
    Runs = {1, 4, 5}
    LateRuns = {}
    Principal <- MCPrincipal
    Cluster <- MCCluster
    Absent = 0
    Passes <- AllPasses
    QuarantineTtl = 1
    CandidateTtl = 1
    RevalidationAge = 1
    FloorAge = 1
    MaxConfirmations = 3
    MaxTime = 1
SYMMETRY WorkerSymmetry
PROPERTY
    MergeAllOrNothing
