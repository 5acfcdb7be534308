\* An end whose number an earlier event has taken.
SPECIFICATION Spec
CONSTANTS
    w1 = w1
    w2 = w2
    c1 = c1
    c2 = c2
    owner = owner
    other = other
    NONE = NONE
    Workers = {w1}
    MaxSeq = 1
    Statuses = {"ok", "error"}
    Contents = {c1, c2}
    Authors = {owner, other}
    Owner = owner
    Posts <- MCShadow
INVARIANT AckedEndLeavesSentinel
CHECK_DEADLOCK FALSE
