\* One lookup over two nodes, under fairness.
SPECIFICATION FairSpec
CONSTANTS
    Nodes = {n1, n2}
    Bootstrap = {n1}
    Hashes = {h1}
    TxCount = 2
    MaxPending = 2
    MaxQueue = 1
    RpcTimeout = 1
    LookupFanout = 2
    Continuations = 1
    Budget = 1
    MaxLookups = 1
PROPERTIES
    LookupCloses
    IdsAreRecycled
