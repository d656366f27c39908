\* A heartbeat is current for two ticks and a document for two, so that a document
\* begun with a node a tick old is served when the node is two old.
SPECIFICATION MCSpec
CONSTANTS
    Node = {n1, n2}
    IP = {a}
    Port = {p1, p2}
    Private = {TRUE, FALSE}
    Expiry = {4}
    Handler = {h1}
    NoEntry = NoEntry
    MaxNodes = 0
    MaxPerIP = 0
    Stale = 1
    Probe = TRUE
    DiskFaults = FALSE
    MaxTime = 4
    Both = 2
    MaxEvents = 2
    Ttl = 2
SYMMETRY NodeSymmetry
INVARIANTS CacheCoherent BoundedAge
