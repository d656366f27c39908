SPECIFICATION FairSpec
CONSTANTS
    Node = {n1, n2}
    IP = {a}
    Port = {p1, p2}
    Private = {FALSE}
    Expiry = {1, 2}
    Handler = {h1}
    NoEntry = NoEntry
    MaxNodes = 0
    MaxPerIP = 0
    Stale = 0
    Probe = TRUE
    DiskFaults = FALSE
    MaxTime = 2
    MaxEvents = 3
PROPERTIES EventuallyWithdrawn EventuallyListed
