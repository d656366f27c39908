\* Two directories, one of which lies, under the default quorum: a majority.
SPECIFICATION Spec
CONSTANTS
    Directory = {d1, d2}
    Honest = {d1}
    Quorums = {2}
    Doc <- MCDoc
    Offered <- SilentOffered
    MaxLog = 2
    MaxExpired = 1
    AllowNoLog = FALSE
    DiskFaults = FALSE
INVARIANT HidingTakesAQuorum
