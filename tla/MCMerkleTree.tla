--------------------------- MODULE MCMerkleTree ---------------------------
(***************************************************************************)
(* MerkleTree against its specification.  A verifier holds the root of the *)
(* log "ours" and the root of a log "theirs" it saw before, which is a     *)
(* prefix of ours or one with a single leaf forged; a prover offers it a   *)
(* proof, hash by hash, made of the hashes of either tree.                 *)
(***************************************************************************)
EXTENDS MerkleTree

CONSTANTS l1, l2, l3, l4, l5, l6, l7, l8,   \* the leaves of the genuine logs
          Forged,       \* a leaf of no genuine log
          MaxSize,      \* bound on the logs whose own proofs are checked
          MaxChecked,   \* bound on the logs against which proofs are offered
          MaxProof      \* bound on the length of an offered proof

ASSUME GenuineAssumption == {l1, l2, l3, l4, l5, l6, l7, l8, Forged} \subseteq Leaf
ASSUME SizeAssumption == MaxSize \in 0..8 /\ MaxChecked \in Nat

VARIABLES ours, theirs, proof

mvars == <<ours, theirs, proof>>

Genuine == <<l1, l2, l3, l4, l5, l6, l7, l8>>
Honest == {First(Genuine, n) : n \in 1..MaxSize}
Rewritten == UNION {{[First(Genuine, n) EXCEPT ![i] = Forged] : i \in 1..n} : n \in 1..MaxChecked}

\* Roots and hashes of the logs in use, as constants so that TLC computes them once.
Root == [s \in Honest \cup Rewritten \cup {<<>>} |-> TreeHash[s]]
Hashes[s \in Seq(Leaf)] ==
    IF s = <<>> THEN {}
    ELSE IF Len(s) = 1 THEN {s[1]}
    ELSE LET k == LargestPowerOfTwoBelow(Len(s))
         IN {TreeHash[s]} \cup Hashes[First(s, k)] \cup Hashes[Rest(s, k)]
Offers == [s \in Honest \cup Rewritten \cup {<<>>} |-> Hashes[s]]

VerifierInit == ours \in Honest /\ theirs = <<>> /\ proof = <<>>

\* The earlier log, honest or with one leaf rewritten.
Remember(m, i) ==
    /\ Len(ours) <= MaxChecked
    /\ theirs = <<>> /\ proof = <<>>
    /\ theirs' \in {First(ours, m), [First(ours, m) EXCEPT ![i] = Forged]}
    /\ UNCHANGED <<ours, proof>>

Offer(h) == /\ Len(ours) <= MaxChecked
            /\ Len(proof) < MaxProof
            /\ proof' = Append(proof, h)
            /\ UNCHANGED <<ours, theirs>>

\* The proof was judged; the verifier waits for another one.
Judge == theirs' = <<>> /\ proof' = <<>> /\ UNCHANGED ours

VerifierNext == \/ \E m \in 1..Len(ours) : \E i \in 1..m : Remember(m, i)
                \/ \E h \in Offers[ours] \cup Offers[theirs] : Offer(h)
                \/ Judge

----------------------------------------------------------------------------
\* inclusionPath/VerifyInclusion: the path of every leaf of every tree is
\* accepted, and no proof places a leaf where the log holds another one.
InclusionExact ==
    theirs = <<>> =>
        \A i \in 0..Len(ours) - 1 :
            /\ proof = <<>> =>
                 VerifyInclusion(ours[i + 1], i, Len(ours), InclusionPath(i, ours), Root[ours])
            /\ \A leaf \in Offers[ours] :
                 VerifyInclusion(leaf, i, Len(ours), proof, Root[ours]) => leaf = ours[i + 1]

\* consistencyPath/VerifyConsistency: the path from every earlier size is
\* accepted, and no proof links a rewritten history to the present tree.
ConsistencyExact ==
    /\ (theirs = <<>> /\ proof = <<>>) =>
         \A m \in 1..Len(ours) :
            VerifyConsistency(m, Len(ours), ConsistencyPath(m, ours),
                              TreeHash[First(ours, m)], Root[ours])
    /\ (/\ theirs # <<>>
        /\ VerifyConsistency(Len(theirs), Len(ours), proof, Root[theirs], Root[ours]))
         => IsPrefix(theirs, ours)
============================================================================
