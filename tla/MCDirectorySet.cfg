\* One honest directory and one that lies, under both quorums.
SPECIFICATION MCSpec
CONSTANTS
    Directory = {d1, d2}
    Honest = {d1}
    Quorums = {1, 2}
    Doc <- MCDoc
    Offered <- MCOffered
    MaxLog = 2
    MaxExpired = 1
    AllowNoLog = TRUE
    DiskFaults = FALSE
INVARIANTS HonestNeverForked Accountable EquivocatorDropped OnlyConfirmed NothingHidden
