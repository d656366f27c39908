\* Two directories, one of which may list anything, and two addresses.
SPECIFICATION FairSpec
CONSTANTS
    Directory = {d1, d2}
    Honest = {d1}
    Quorum = 2
    Address = {a1, a2}
    NoAddress = NoAddress
    Garbled = Garbled
    Self = "self"
    Descriptor <- MCDescriptors
    Grace = 1
    DiskFaults = TRUE
    MaxEvents = 1
INVARIANTS TypeOK StaysSettled PeersBacked GraceHolds
PROPERTY Settles
