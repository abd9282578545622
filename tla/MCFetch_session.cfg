\* Up to four pieces, a window of up to three, against any peer, under fair timers.
SPECIFICATION FairSpec
CONSTANTS
    Block = 2
    MaxMetadataSize = 7
    MaxDeclaredSize = 9
    MaxId = 2
    MaxReqq = 3
    ConnectTimeout = 1
    PeerTimeout = 2
    Absent = Absent
INVARIANTS TypeOK WindowSound AcceptedIffDelivered ReceiveBounded
CHECK_DEADLOCK FALSE
PROPERTY SessionEnds
