\* Two hashes, two operations with receipts, chunks of one row, one fault.
SPECIFICATION Spec
CONSTANTS
    Hashes = {h1, h2}
    MaxOps = 2
    PruneChunk = 1
    BatchSize = 2
    MaxFaults = 1
SYMMETRY HashSymmetry
CHECK_DEADLOCK FALSE
INVARIANTS
    TypeOK
    TotalsMatch
PROPERTY
    AtomicSpec
