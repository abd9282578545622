\* Eight ids, two live nodes and two candidates per bucket, two candidates in all.
SPECIFICATION Spec
CONSTANTS
    Bits = 3
    OurId <- MCOurId
    Addrs = {a1, a2}
    K = 2
    MaxCandidates = 2
SYMMETRY AddrSymmetry
INVARIANTS
    TypeOK
    TableSound
PROPERTY
    LiveNodesStay
