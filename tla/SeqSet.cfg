\* Every sequence of batches over seven sequence numbers.
SPECIFICATION Spec
CONSTANT MaxSeq = 6
INVARIANTS
    QueriesExact
    Canonical
