\* Two workers, two runs that teach the same contents, one subject, a lost gate.
SPECIFICATION FairSpec
CONSTANTS
    w1 = w1
    w2 = w2
    r1 = r1
    r2 = r2
    s1 = s1
    Workers = {w1, w2}
    Runs = {r1, r2}
    Subjects = {s1}
    Plan <- MCPlan
    HashText <- MCHashText
    Archives <- MCArchives
    MaxAttempts = 2
    MaxFaults = 1
    MaxDrops = 1
    MaxRetires = 1
    NONE = NONE
CHECK_DEADLOCK FALSE
INVARIANTS
    TypeOK
    NoDuplicateCandidate
    ResultIsAtomic
    ErasedRunsLeaveNothing
    HealthyNeverInvalid
    NoLockCycle
PROPERTIES
    FinishedIsFinal
    EventuallySettled
