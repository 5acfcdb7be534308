\* A memory between two workers that run every pass.
SPECIFICATION Spec
CONSTANTS
    w1 = w1
    w2 = w2
    Workers = {w1, w2}
    Memories = {1}
    Origins <- MCOrigins
    Runs = {1, 2, 3, 4, 5}
    LateRuns = {1}
    Principal <- MCPrincipal
    Cluster <- MCCluster
    Absent = 0
    Passes <- AllPasses
    QuarantineTtl = 1
    CandidateTtl = 1
    RevalidationAge = 1
    FloorAge = 1
    MaxConfirmations = 3
    MaxTime = 1
SYMMETRY WorkerSymmetry
INVARIANTS
    TypeOK
    ProposalNeverRetrievable
PROPERTIES
    
    EdgesLegal
    FencedRowsFrozen
    ArchivedOnlyAfterTtl
