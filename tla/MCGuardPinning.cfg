\* One guard wanted, so two pinned at most, of three; four middles and seven exits.
SPECIFICATION FairSpec
CONSTANTS
    g1 = g1
    g2 = g2
    g3 = g3
    m1 = m1
    m2 = m2
    m3 = m3
    m4 = m4
    x1 = x1
    x2 = x2
    x3 = x3
    x4 = x4
    x5 = x5
    x6 = x6
    Relay = {g1, g2, g3, m1, m2, m3, m4, x1, x2, x3, x4, x5, x6}
    Node = {g1, g2, g3}
    Middle = {m1, m2, m3, m4}
    Exit = {g2, x1, x2, x3, x4, x5, x6}
    Bridge = {g3}
    Version <- MCVersion
    Host <- MCHost
    Family <- MCFamily
    File <- MCFile
    IgnoreNet = FALSE
    BWCap = 2
    Circuits = 2
    Claim = {0, 1, 2, 9}
    Guards = 1
    GuardDays = 2
    GuardRetireDays = 1
    NotPinned = NotPinned
INVARIANTS TypeOK PinnedBound GuardsStay ExposureBound PathsUnrelated WeightsCapped
PROPERTY NotStarvedForever
