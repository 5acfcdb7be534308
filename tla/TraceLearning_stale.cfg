\* A tag arrives between the claim of the last attempt and its snapshot.
SPECIFICATION Spec
CONSTANTS
    w1 = w1
    w2 = w2
    r1 = r1
    r2 = r2
    s1 = s1
    Workers = {w1, w2}
    Runs = {r1, r2}
    Subjects = {s1}
    Plan <- MCPlan
    HashText <- MCHashText
    Archives <- MCArchives
    MaxAttempts = 1
    MaxFaults = 2
    MaxDrops = 1
    MaxRetires = 0
    NONE = NONE
CHECK_DEADLOCK FALSE
INVARIANTS
    StalenessNeverDeadLetters
