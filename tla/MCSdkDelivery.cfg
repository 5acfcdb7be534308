\* Traces and feedback, an unencodable body, a flush() beside the background pass.
SPECIFICATION FairSpec
CONSTANTS
    r1 = r1
    r2 = r2
    a = a
    b = b
    p = p
    h1 = h1
    bg = bg
    NONE = NONE
    Runs = {r1, r2}
    Bodies = {a, b, p}
    Poison = {p}
    Inputs <- MCInputs
    Capacity = 2
    MaxBatch = 2
    Hosts = {h1}
    Background = bg
    MaxAppends = 3
    MaxFailures = 2
INVARIANTS
    TypeOK
    NothingUnaccounted
    OneBodyPerItem
    Fifo
PROPERTIES
    EventuallyDrained
