\* Two hashes with up to two of three peers compete for one worker; one panic
\* and two faults.
SPECIFICATION Spec
CONSTANTS
    h1 = h1
    h2 = h2
    p1 = p1
    p2 = p2
    p3 = p3
    Hashes = {h1, h2}
    Peers = {p1, p2, p3}
    MaxConcurrent = 1
    MaxActive = 2
    MaxPeers = 2
    RoundLimit = 1
    RetryAfterHours = 24
    Content <- ContentMixed
    MaxDiscoveries = 2
    MaxFaults = 2
    MaxPanics = 1
SYMMETRY PeerSymmetry
CHECK_DEADLOCK FALSE
INVARIANTS
    TypeOK
    NoStrandedJob
    OneWorkerPerHash
    PendingPeersSound
    LoaderNotStarved
    CompleteHasTerminalJob
PROPERTIES
    TerminalNeverReopened
    NoFetchDuringCooldown
    NoFetchOfRejectedMetadata
