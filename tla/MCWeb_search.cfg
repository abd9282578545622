SPECIFICATION Spec
CONSTANTS
    N = 2
    NameBytes <- MCNameBytes
    PathBytes <- MCPathBytes
    Overhead = 1
    Limits = {3, 6}
    BatchTarget = 5
    PageLimits = {1, 2}
    Requests = {r1, r2}
    Routes = {"static", "search", "torrent", "files"}
INVARIANTS
    TypeOK
    IndexSound
    WindowsAccount
PROPERTY
    RequestsAndRebuildsEnd
