\* Two executors, two runs, two stores: late runs, crashes, pauses, residues and refusals.
SPECIFICATION FairSpec
CONSTANTS
    e1 = e1
    e2 = e2
    r1 = r1
    r2 = r2
    trace = trace
    vector = vector
    Executors = {e1, e2}
    Runs = {r1, r2}
    Stores = {trace, vector}
    TraceStore = trace
    Manifests <- TwoManifests
    Scopes = {"subject", "project"}
    MaxRevision = 2
    MaxFaults = 2
    PROJECT = PROJECT
    NONE = NONE
CHECK_DEADLOCK FALSE
INVARIANTS
    TypeOK
    CompleteMeansErased
    VerifiedMeansAbsent
PROPERTIES
    KeysDestroyedFirst
    StopsOnlyUnclosed
