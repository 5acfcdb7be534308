\* Two workers, two rows of two projects, one row per claim (the proofs are for every batch size).
SPECIFICATION FairSpec
CONSTANTS
    w1 = w1
    w2 = w2
    p1 = p1
    p2 = p2
    traceEvent = traceEvent
    NULL = NULL
    Workers = {w1, w2}
    Projects = {p1, p2}
    Topics = {traceEvent}
    MaxId = 2
    Entries <- MCEntries
    MaxAttempts = 1
    BatchSize = 1
    LeaseTime = 1
    MaxBackoff = 0
    MaxGlobalDepth = 2
    MaxTopicDepth = 2
    MaxProjectDepth = 1
INVARIANTS
    TypeOK
    LeaseExclusive
    LiveClaimHonoured
    DeliveriesExact
    CapacityRespected
PROPERTIES
    FencedRowsFrozen
    NoRowStarves
