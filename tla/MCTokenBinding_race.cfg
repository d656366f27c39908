\* The same, overlapping as they may.
SPECIFICATION Spec
CONSTANTS
    Token = {t1, t2}
    Identity = {i1, i2}
    Handler = {h1, h2}
    Minter = {m1}
    Inode = {f1, f2, f3, f4}
    Unbound = Unbound
    Missing = Missing
    Empty = Empty
    Torn = Torn
    Serial = FALSE
INVARIANT OneIdentityPerToken
