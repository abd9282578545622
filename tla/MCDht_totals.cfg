\* The same instance: a resumed hash, and a snapshot.
SPECIFICATION Spec
CONSTANTS
    h1 = h1
    h2 = h2
    zero = zero
    me = me
    n1 = n1
    NotUtf8 = NotUtf8
    Ids <- MCIds
    Ips <- MCIps
    PublicIps <- MCPublicIps
    OurId = me
    Hashes = {h1, h2}
    Zero = zero
    Samplers = {n1}
    Sources <- MCSources
    HashArgs <- MCHashArgs
    AnnounceArgs <- MCAnnounceArgs
    PeerAnswers <- MCPeerAnswers
    SampleAnswers <- MCSampleAnswers
    PeerHashes = 1
    PeersPerHash = 2
    PeerTtl = 1
    TokenBucket = 2
    MinInterval = 2
    MaxInterval = 3
    MaxSamples = 2
    RequestsPerTick = 1
    ChanCap = 1
    StatsCap = 1
    MaxObservations = 1
CHECK_DEADLOCK FALSE
PROPERTY
    DiscoveredNeverDecreases
