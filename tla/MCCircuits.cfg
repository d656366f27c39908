\* Two slots, two circuits, two requests beside a rotation.
SPECIFICATION FairSpec
CONSTANTS
    p1 = p1
    p2 = p2
    r1 = r1
    r2 = r2
    Slot = {0, 1}
    Path = {p1, p2}
    Host = {"mail"}
    Request = {r1, r2}
    Rejecting <- MCRejecting
    Rank <- MCRank
    FailThreshold = 2
    MaxInstalls = 1
    NoPath = NoPath
INVARIANTS TypeOK ChainComplete ReadyIsInstalled PickIsBest NotTurnedAway
PROPERTY TriedAgain
