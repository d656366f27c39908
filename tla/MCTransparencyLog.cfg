\* Four sets of nodes, two documents and one consistency request at a time; every
\* tree of up to 8 leaves for the code's own proofs; every proof of up to 4 hashes
\* against every history of up to 5 leaves.
SPECIFICATION MCSpec
CONSTANTS
    Leaf = {l1, l2, l3, l4, l5, l6, l7, l8, x}
    l1 = l1
    l2 = l2
    l3 = l3
    l4 = l4
    l5 = l5
    l6 = l6
    l7 = l7
    l8 = l8
    Forged = x
    Served = {l1, l2, l3, l4}
    Caller = {c1, c2}
    Reader = {r1}
    DiskFaults = FALSE
    MaxSize = 8
    MaxChecked = 5
    MaxProof = 4
INVARIANTS ProofsVerify AnswersVerify HeadsStayProvable InclusionExact ConsistencyExact
PROPERTY OnlyGrows
