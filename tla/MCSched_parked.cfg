\* One hash with two peers, one per round.
SPECIFICATION Spec
CONSTANTS
    h1 = h1
    h2 = h2
    p1 = p1
    p2 = p2
    p3 = p3
    Hashes = {h1}
    Peers = {p1, p2}
    MaxConcurrent = 1
    MaxActive = 1
    MaxPeers = 2
    RoundLimit = 1
    RetryAfterHours = 24
    Content <- ContentInvalid
    MaxDiscoveries = 2
    MaxFaults = 0
    MaxPanics = 0
CHECK_DEADLOCK FALSE
INVARIANT
    ParkedHasNoUsablePeer
