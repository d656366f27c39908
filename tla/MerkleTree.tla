---------------------------- MODULE MerkleTree ----------------------------
(***************************************************************************)
(* The RFC 6962 tree of src/translog.go: tree hash, proofs and verifiers.  *)
(*                                                                         *)
(* SHA-256 with the 0x00/0x01 prefixes is taken to be injective: a leaf    *)
(* hash is a member of Leaf, the hash of an inner node is the pair of its  *)
(* children, and the hash of the empty tree is the empty tuple.  Logs are  *)
(* sequences of leaf hashes, counted from 1; the code's indexes count from *)
(* 0 and are kept as they are.  The recursion and the loops of the code    *)
(* are written with recursive functions of one argument, which return a    *)
(* function of the remaining ones.                                         *)
(***************************************************************************)
EXTENDS Integers, Sequences, SequencesExt

CONSTANT Leaf    \* the leaf hashes

NodeHash(l, r) == <<l, r>>
EmptyHash == <<>>

First(s, n) == SubSeq(s, 1, n)
Rest(s, n) == SubSeq(s, n + 1, Len(s))

Pow2[i \in Nat] == IF i = 0 THEN 1 ELSE 2 * Pow2[i - 1]

\* Where a tree of n > 1 leaves splits: the largest power of two below n.
LargestPowerOfTwoBelow(n) ==
    CHOOSE k \in {Pow2[i] : i \in 0..n} : k < n /\ n <= 2 * k

TreeHash[s \in Seq(Leaf)] ==
    IF s = <<>> THEN EmptyHash
    ELSE IF Len(s) = 1 THEN s[1]
    ELSE LET k == LargestPowerOfTwoBelow(Len(s))
         IN NodeHash(TreeHash[First(s, k)], TreeHash[Rest(s, k)])

\* The audit paths of the leaves of s, by index.
AuditPath[s \in Seq(Leaf)] ==
    [i \in 0..Len(s) - 1 |->
        IF Len(s) <= 1 THEN <<>>
        ELSE LET k == LargestPowerOfTwoBelow(Len(s))
             IN IF i < k
                THEN Append(AuditPath[First(s, k)][i], TreeHash[Rest(s, k)])
                ELSE Append(AuditPath[Rest(s, k)][i - k], TreeHash[First(s, k)])]

InclusionPath(i, s) == AuditPath[s][i]

\* That the first m leaves of s are a tree; complete: s begins where the log begins.
SubProof[s \in Seq(Leaf)] ==
    [complete \in BOOLEAN |-> [m \in 1..Len(s) |->
        IF m = Len(s) THEN IF complete THEN <<>> ELSE <<TreeHash[s]>>
        ELSE LET k == LargestPowerOfTwoBelow(Len(s))
             IN IF m <= k
                THEN Append(SubProof[First(s, k)][complete][m], TreeHash[Rest(s, k)])
                ELSE Append(SubProof[Rest(s, k)][FALSE][m - k], TreeHash[First(s, k)])]]

\* That the first m leaves of s are a tree that s extends.
ConsistencyPath(m, s) == SubProof[s][TRUE][m]

----------------------------------------------------------------------------
\* The verifiers.  Both walk up from a position fn of a tree whose last
\* position is sn, one level per proof element.

\* "for fn != 0 && fn&1 == 0 { fn >>= 1; sn >>= 1 }"
SkipLevels[fn \in Nat] ==
    [sn \in Nat |-> IF fn # 0 /\ fn % 2 = 0 THEN SkipLevels[fn \div 2][sn \div 2]
                    ELSE <<fn, sn>>]

\* "for fn&1 == 1 { fn >>= 1; sn >>= 1 }"
SkipRight[fn \in Nat] ==
    [sn \in Nat |-> IF fn % 2 = 1 THEN SkipRight[fn \div 2][sn \div 2] ELSE <<fn, sn>>]

\* One iteration over the proof element p: fr and sr are the roots built so far;
\* a sibling on the left belongs to both trees, one on the right to the second
\* only.  An element left over at the top makes the proof invalid.
Climb(w, p) ==
    IF ~w.ok \/ w.sn = 0 THEN [w EXCEPT !.ok = FALSE]
    ELSE LET left == w.fn % 2 = 1 \/ w.fn = w.sn
             at == IF left THEN SkipLevels[w.fn][w.sn] ELSE <<w.fn, w.sn>>
         IN [ok |-> TRUE, fn |-> at[1] \div 2, sn |-> at[2] \div 2,
             fr |-> IF left THEN NodeHash(p, w.fr) ELSE w.fr,
             sr |-> IF left THEN NodeHash(p, w.sr) ELSE NodeHash(w.sr, p)]

\* "for _, p := range proof": the state after all of the proof.
Walk(start, proof) ==
    LET at[j \in 0..Len(proof)] == IF j = 0 THEN start ELSE Climb(at[j - 1], proof[j])
    IN at[Len(proof)]

\* The state before the loop of the inclusion verifier.
LeafStart(leaf, index, size) ==
    [ok |-> TRUE, fn |-> index, sn |-> size - 1, fr |-> leaf, sr |-> leaf]

\* The state before the loop of the consistency verifier, at the level at[1], at[2].
EdgeStart(at, proof, firstRoot) ==
    LET start == IF at[1] # 0 THEN proof[1] ELSE firstRoot
    IN [ok |-> TRUE, fn |-> at[1], sn |-> at[2], fr |-> start, sr |-> start]

\* What that loop goes over.
EdgeProof(at, proof) == IF at[1] # 0 THEN Tail(proof) ELSE proof

\* Faulty variant for InclusionExact: the walk may stop below the root.
InclusionUnfinished(leaf, index, size, proof, root) ==
    /\ 0 <= index /\ 0 < size /\ index < size
    /\ Walk(LeafStart(leaf, index, size), proof).sr = root

VerifyInclusion(leaf, index, size, proof, root) ==
    /\ 0 <= index /\ 0 < size /\ index < size
    /\ LET w == Walk(LeafStart(leaf, index, size), proof)
       IN w.ok /\ w.sn = 0 /\ w.sr = root

\* Faulty variant for ConsistencyExact: the rebuilt first root is not compared.
ConsistencyOneRoot(first, second, proof, firstRoot, secondRoot) ==
    \/ first = second /\ firstRoot = secondRoot
    \/ /\ 0 < first /\ first < second /\ proof # <<>>
       /\ LET at == SkipRight[first - 1][second - 1]
              w == Walk(EdgeStart(at, proof, firstRoot), EdgeProof(at, proof))
          IN w.ok /\ w.sn = 0 /\ w.sr = secondRoot

VerifyConsistency(first, second, proof, firstRoot, secondRoot) ==
    /\ 0 <= first /\ first <= second
    /\ \/ first = 0
       \/ /\ 0 < first /\ first = second
          /\ proof = <<>> /\ firstRoot = secondRoot
       \/ /\ 0 < first /\ first < second
          /\ proof # <<>>
          /\ LET at == SkipRight[first - 1][second - 1]
                 w == Walk(EdgeStart(at, proof, firstRoot), EdgeProof(at, proof))
             IN w.ok /\ w.sn = 0 /\ w.fr = firstRoot /\ w.sr = secondRoot
============================================================================
