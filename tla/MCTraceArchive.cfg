\* Two writers, redelivery, crashes and the sweep on one run of at most three events.
SPECIFICATION Spec
CONSTANTS
    w1 = w1
    w2 = w2
    c1 = c1
    c2 = c2
    owner = owner
    other = other
    NONE = NONE
    Workers = {w1, w2}
    MaxSeq = 2
    Statuses = {"ok", "error"}
    Contents = {c1, c2}
    Authors = {owner, other}
    Owner = owner
    Posts <- MCPosts
SYMMETRY WorkerSymmetry
INVARIANTS
    TypeOK
    TerminalArchiveReadable
    OutcomeExact
    AckedIsArchived
PROPERTIES
    TerminalFrozen
    NothingWrittenBehindFence
CHECK_DEADLOCK FALSE
