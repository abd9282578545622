\* Two lookups over two nodes with two transaction ids; two hashes for one place
\* in the lookup queue.
SPECIFICATION Spec
CONSTANTS
    Nodes = {n1, n2}
    Bootstrap = {n1}
    Hashes = {h1, h2}
    TxCount = 2
    MaxPending = 2
    MaxQueue = 1
    RpcTimeout = 1
    LookupFanout = 2
    Continuations = 1
    Budget = 1
    MaxLookups = 2
INVARIANTS
    TypeOK
    LookupAccounting
    NoStaleAnswer
    QueueSound
