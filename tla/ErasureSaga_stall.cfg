\* No late run: a single fault between the last mark of a store and its close.
SPECIFICATION FairSpec
CONSTANTS
    e1 = e1
    e2 = e2
    r1 = r1
    r2 = r2
    trace = trace
    vector = vector
    Executors = {e1, e2}
    Runs = {r1, r2}
    Stores = {trace, vector}
    TraceStore = trace
    Manifests <- OneManifest
    Scopes = {"subject", "project"}
    MaxRevision = 1
    MaxFaults = 1
    PROJECT = PROJECT
    NONE = NONE
CHECK_DEADLOCK FALSE
PROPERTIES
    EventuallyComplete
