\* Three identities contend for three endpoints, with room for two; two handlers;
\* a save may fail and the process may restart.
SPECIFICATION Spec
CONSTANTS
    Node = {n1, n2, n3}
    IP = {a}
    Port = {p1, p2, p3}
    Private = {FALSE}
    Expiry = {2}
    Handler = {h1, h2}
    NoEntry = NoEntry
    MaxNodes = 2
    MaxPerIP = 2
    Stale = 0
    Probe = TRUE
    DiskFaults = TRUE
    MaxTime = 2
    MaxEvents = 3
SYMMETRY NodeSymmetry
INVARIANTS TypeOK EndpointUnique NodeLimit NoLostWakeup NeverOnItsWord
