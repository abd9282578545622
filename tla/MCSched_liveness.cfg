\* One slot for two hashes, with a panic, and an environment that may go on for
\* ever: once it stops, the loader brings back what was deferred and the slot is
\* freed.
SPECIFICATION FairSpec
CONSTANTS
    h1 = h1
    h2 = h2
    p1 = p1
    p2 = p2
    p3 = p3
    Hashes = {h1, h2}
    Peers = {p1}
    MaxConcurrent = 1
    MaxActive = 1
    MaxPeers = 2
    RoundLimit = 1
    RetryAfterHours = 24
    Content <- ContentInvalid
    MaxDiscoveries = 1
    MaxFaults = 1
    MaxPanics = 1
CHECK_DEADLOCK FALSE
PROPERTIES
    LiveJobIsTried
    SlotIsFreed
