\* One receipted operation on one hash, three faults, under fairness.
SPECIFICATION FairSpec
CONSTANTS
    Hashes = {h1}
    MaxOps = 1
    PruneChunk = 1
    BatchSize = 2
    MaxFaults = 3
CHECK_DEADLOCK FALSE
INVARIANT
    CountedExactlyOnce
PROPERTIES
    OperationEnds
    DrainEnds
