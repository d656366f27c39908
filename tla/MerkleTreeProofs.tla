------------------------- MODULE MerkleTreeProofs -------------------------
(***************************************************************************)
(* What the tree hash, the proofs and the verifiers of src/translog.go     *)
(* compute, for logs of every size and any leaves.                         *)
(*                                                                         *)
(* The recursive functions of MerkleTree exist, which is shown first, by   *)
(* induction on the length of a log or on a position.  Then, level by      *)
(* level of the tree: the audit path of every leaf takes the loop of the   *)
(* verifier to the root (InclusionComplete); a loop that ends in the root  *)
(* can be run backwards, since a node hash determines its children, so no  *)
(* other proof and no other leaf get there (InclusionSound); the proof     *)
(* that a prefix is one takes the two roots of its loop to those of the    *)
(* prefix and of the log (ConsistencyComplete); and two logs of one length *)
(* with one root are equal, so no proof links a rewritten history          *)
(* (ConsistencySound).                                                     *)
(***************************************************************************)
EXTENDS MerkleTree, SequenceTheorems, WellFoundedInduction, TLAPS

----------------------------------------------------------------------------
\* Induction, without predicates as parameters: it is stated for sets.

\* The order on the natural numbers.
SmallerThan == {p \in Nat \X Nat : p[1] < p[2]}

\* Every non-empty set of natural numbers has a least member.
LEMMA LeastMember ==
    ASSUME NEW T, T \subseteq Nat, T # {}
    PROVE  \E x \in T : \A y \in T : x <= y
<1>1. IsWellFoundedOn(SmallerThan, Nat)
  BY NatLessThanWellFounded DEF OpToRel, SmallerThan
<1>2. PICK x \in T : \A y \in T : ~ (<<y, x>> \in SmallerThan)
  BY <1>1, WFMin
<1>3. ASSUME NEW y \in T PROVE x <= y
  <2>1. x \in Nat /\ y \in Nat
    OBVIOUS
  <2>2. <<y, x>> \notin SmallerThan
    BY <1>2
  <2> QED BY <2>1, <2>2 DEF SmallerThan
<1> QED BY <1>3

\* Course-of-values induction.
LEMMA Induction ==
    ASSUME NEW T, ASSUME NEW n \in Nat, \A k \in Nat : k < n => k \in T PROVE n \in T
    PROVE  Nat \subseteq T
<1> SUFFICES ASSUME Nat \ T # {} PROVE FALSE
  OBVIOUS
<1>1. PICK n \in Nat \ T : \A y \in Nat \ T : n <= y
  BY LeastMember, Nat \ T \subseteq Nat, Zenon
<1>2. \A k \in Nat : k < n => k \in T
  BY <1>1
<1> QED BY <1>2

----------------------------------------------------------------------------
\* Powers of two.

\* Pow2 satisfies its recursion: its solutions up to n, for every n, make up one.
LEMMA Pow2Def == \A i \in Nat : Pow2[i] = IF i = 0 THEN 1 ELSE 2 * Pow2[i - 1]
<1> DEFINE D(g, i) == IF i = 0 THEN 1 ELSE 2 * g[i - 1]
           Solves(g, n) == \A i \in Nat : i < n => g[i] = D(g, i)
           T == {n \in Nat : \E g : Solves(g, n)}
           G(n) == CHOOSE g : Solves(g, n)
           f == [i \in Nat |-> G(i + 1)[i]]
<1>1. Nat \subseteq T
  <2>1. ASSUME NEW n \in Nat, \A k \in Nat : k < n => k \in T PROVE n \in T
    <3>1. CASE n = 0
      BY <3>1
    <3>2. CASE n # 0
      <4>1. PICK g : Solves(g, n - 1)
        BY <2>1, <3>2
      <4> DEFINE h == [i \in Nat |-> D(g, i)]
      <4>2. Solves(h, n)
        BY <4>1
      <4> QED BY <4>2
    <3> QED BY <3>1, <3>2
  <2> QED BY <2>1, Induction
<1>2. \A n \in Nat : Solves(G(n), n)
  BY <1>1
<1>3. ASSUME NEW n \in Nat, NEW m \in Nat, NEW g, NEW h, Solves(g, n), Solves(h, m)
      PROVE  \A i \in Nat : i < n /\ i < m => g[i] = h[i]
  <2> DEFINE A == {i \in Nat : i < n /\ i < m => g[i] = h[i]}
  <2>1. ASSUME NEW i \in Nat, \A k \in Nat : k < i => k \in A PROVE i \in A
    BY <1>3, <2>1
  <2>2. Nat \subseteq A
    <3> HIDE DEF A
    <3> QED BY <2>1, Induction
  <2> QED BY <2>2
<1>4. f = [i \in Nat |-> D(f, i)]
  <2>1. ASSUME NEW i \in Nat PROVE f[i] = D(f, i)
    <3>1. Solves(G(i + 1), i + 1)
      BY <1>2
    <3>2. i # 0 => G(i + 1)[i - 1] = f[i - 1]
      <4>1. i # 0 => Solves(G(i), i)
        BY <1>2
      <4> HIDE DEF Solves, G
      <4>2. i # 0 => G(i + 1)[i - 1] = G(i)[i - 1]
        BY <3>1, <4>1, <1>3
      <4> QED BY <4>2
    <3> HIDE DEF G
    <3> QED BY <3>1, <3>2
  <2> QED BY <2>1
<1> HIDE DEF f
<1>5. Pow2 = [i \in Nat |-> D(Pow2, i)]
  BY <1>4 DEF Pow2
<1> QED BY <1>5

\* Powers of two are positive.
LEMMA Pow2Type == \A i \in Nat : Pow2[i] \in Nat \ {0}
<1> DEFINE T == {i \in Nat : Pow2[i] \in Nat \ {0}}
<1>1. ASSUME NEW i \in Nat, \A k \in Nat : k < i => k \in T PROVE i \in T
  <2>1. i # 0 => Pow2[i - 1] \in Nat \ {0}
    BY <1>1
  <2> QED BY <2>1, Pow2Def
<1>2. Nat \subseteq T
  <2> HIDE DEF T
  <2> QED BY <1>1, Induction
<1> QED BY <1>2

\* The recursion of Pow2, upwards.
LEMMA Pow2Step == Pow2[0] = 1 /\ \A i \in Nat : Pow2[i + 1] = 2 * Pow2[i]
BY Pow2Def

\* The split of a tree of n > 1 leaves: a complete left half that is at least as
\* large as the right one.
LEMMA SplitOf ==
    ASSUME NEW n \in Nat, n > 1
    PROVE  LET k == LargestPowerOfTwoBelow(n)
           IN /\ k \in 1..n - 1 /\ n <= 2 * k
              /\ \E d \in Nat : k = Pow2[d]
<1> DEFINE Good(m, k) == k < m /\ m <= 2 * k
           T == {m \in Nat : m > 1 => \E i \in 0..m : Good(m, Pow2[i])}
<1>1. ASSUME NEW m \in Nat, \A l \in Nat : l < m => l \in T PROVE m \in T
  <2> SUFFICES ASSUME m > 1 PROVE \E i \in 0..m : Good(m, Pow2[i])
    OBVIOUS
  <2>1. CASE m = 2
    BY <2>1, Pow2Step
  <2>2. CASE m > 2
    <3>1. PICK i \in 0..m - 1 : Good(m - 1, Pow2[i])
      BY <1>1, <2>2
    <3>2. Pow2[i] \in Nat /\ Pow2[i + 1] = 2 * Pow2[i]
      BY Pow2Type, Pow2Step
    <3>3. CASE m <= 2 * Pow2[i]
      BY <3>1, <3>2, <3>3
    <3>4. CASE m > 2 * Pow2[i]
      <4>1. Good(m, Pow2[i + 1]) /\ i + 1 \in 0..m
        BY <3>1, <3>2, <3>4, <2>2
      <4> QED BY <4>1
    <3> QED BY <3>2, <3>3, <3>4
  <2> QED BY <2>1, <2>2
<1>2. n \in T
  <2> HIDE DEF T
  <2> QED BY <1>1, Induction
<1>3. \E k \in {Pow2[i] : i \in 0..n} : Good(n, k)
  BY <1>2
<1>4. /\ LargestPowerOfTwoBelow(n) \in {Pow2[i] : i \in 0..n}
      /\ Good(n, LargestPowerOfTwoBelow(n))
  BY <1>3 DEF LargestPowerOfTwoBelow
<1>5. PICK d \in 0..n : LargestPowerOfTwoBelow(n) = Pow2[d]
  BY <1>4
<1> QED BY <1>4, <1>5, Pow2Type

----------------------------------------------------------------------------
\* Logs and their halves.

\* What the two parts of a log hold.
LEMMA Halves ==
    ASSUME NEW s \in Seq(Leaf), NEW k \in 1..Len(s)
    PROVE  /\ First(s, k) \in Seq(Leaf) /\ Len(First(s, k)) = k
           /\ \A i \in 1..k : First(s, k)[i] = s[i]
           /\ Rest(s, k) \in Seq(Leaf) /\ Len(Rest(s, k)) = Len(s) - k
           /\ \A i \in 1..Len(s) - k : Rest(s, k)[i] = s[k + i]
BY DEF First, Rest

\* What TreeHash[s] is, given the hashes g of the smaller trees.
HashBody(g, s) ==
    IF s = <<>> THEN EmptyHash
    ELSE IF Len(s) = 1 THEN s[1]
    ELSE LET k == LargestPowerOfTwoBelow(Len(s))
         IN NodeHash(g[First(s, k)], g[Rest(s, k)])

\* It depends on the hashes of the smaller trees only.
LEMMA HashBodyLocal ==
    ASSUME NEW s \in Seq(Leaf), NEW g, NEW h,
           \A t \in Seq(Leaf) : Len(t) < Len(s) => g[t] = h[t]
    PROVE  HashBody(g, s) = HashBody(h, s)
<1>1. CASE Len(s) <= 1
  <2>1. s = <<>> \/ Len(s) = 1
    <3>1. s # <<>> => Len(s) \in Nat \ {0}
      BY EmptySeq
    <3>2. PICK n \in Nat : n = Len(s)
      BY LenProperties
    <3>3. n = 0 \/ n = 1
      BY <1>1, <3>2
    <3> QED BY <3>1, <3>2, <3>3
  <2> QED BY <2>1 DEF HashBody
<1>2. CASE Len(s) > 1
  <2> DEFINE k == LargestPowerOfTwoBelow(Len(s))
  <2>1. k \in 1..Len(s) /\ k < Len(s)
    BY <1>2, SplitOf
  <2> HIDE DEF k
  <2>2. g[First(s, k)] = h[First(s, k)] /\ g[Rest(s, k)] = h[Rest(s, k)]
    BY <2>1, Halves
  <2> QED BY <2>2 DEF HashBody, k
<1> QED BY <1>1, <1>2

\* TreeHash exists: it is what its definition says.
LEMMA TreeHashDef == \A s \in Seq(Leaf) : TreeHash[s] = HashBody(TreeHash, s)
<1> DEFINE Solves(g, n) == \A s \in Seq(Leaf) : Len(s) < n => g[s] = HashBody(g, s)
           T == {n \in Nat : \E g : Solves(g, n)}
           G(n) == CHOOSE g : Solves(g, n)
           f == [s \in Seq(Leaf) |-> G(Len(s) + 1)[s]]
<1>1. Nat \subseteq T
  <2>1. ASSUME NEW n \in Nat, \A k \in Nat : k < n => k \in T PROVE n \in T
    <3>1. CASE n = 0
      BY <3>1
    <3>2. CASE n # 0
      <4>1. PICK g : Solves(g, n - 1)
        BY <2>1, <3>2
      <4> DEFINE h == [s \in Seq(Leaf) |-> HashBody(g, s)]
      <4>2. ASSUME NEW s \in Seq(Leaf), Len(s) < n PROVE h[s] = HashBody(h, s)
        <5>1. \A t \in Seq(Leaf) : Len(t) < Len(s) => g[t] = h[t]
          BY <4>1, <4>2
        <5> HIDE DEF h
        <5>2. HashBody(g, s) = HashBody(h, s)
          BY <5>1, HashBodyLocal
        <5> QED BY <5>2 DEF h
      <4> QED BY <4>2
    <3> QED BY <3>1, <3>2
  <2> HIDE DEF T
  <2> QED BY <2>1, Induction
<1>2. \A n \in Nat : Solves(G(n), n)
  BY <1>1
<1>3. ASSUME NEW n \in Nat, NEW m \in Nat, NEW g, NEW h, Solves(g, n), Solves(h, m)
      PROVE  \A s \in Seq(Leaf) : Len(s) < n /\ Len(s) < m => g[s] = h[s]
  <2> DEFINE A == {l \in Nat : \A s \in Seq(Leaf) :
                      Len(s) = l /\ l < n /\ l < m => g[s] = h[s]}
  <2>1. ASSUME NEW l \in Nat, \A k \in Nat : k < l => k \in A PROVE l \in A
    <3> SUFFICES ASSUME NEW s \in Seq(Leaf), Len(s) = l, l < n, l < m PROVE g[s] = h[s]
      OBVIOUS
    <3>1. \A t \in Seq(Leaf) : Len(t) < Len(s) => g[t] = h[t]
      BY <2>1
    <3>2. HashBody(g, s) = HashBody(h, s)
      BY <3>1, HashBodyLocal
    <3> QED BY <1>3, <3>2
  <2>2. Nat \subseteq A
    <3> HIDE DEF A
    <3> QED BY <2>1, Induction
  <2> QED BY <2>2
<1>4. f = [s \in Seq(Leaf) |-> HashBody(f, s)]
  <2>1. ASSUME NEW s \in Seq(Leaf) PROVE f[s] = HashBody(f, s)
    <3>1. Solves(G(Len(s) + 1), Len(s) + 1)
      BY <1>2
    <3>2. ASSUME NEW t \in Seq(Leaf), Len(t) < Len(s) PROVE G(Len(s) + 1)[t] = f[t]
      <4>1. Solves(G(Len(t) + 1), Len(t) + 1)
        BY <1>2
      <4> HIDE DEF Solves, G
      <4>2. G(Len(s) + 1)[t] = G(Len(t) + 1)[t]
        BY <3>1, <3>2, <4>1, <1>3
      <4> QED BY <4>2
    <3>3. G(Len(s) + 1)[s] = HashBody(G(Len(s) + 1), s)
      BY <3>1
    <3>4. G(Len(s) + 1)[s] = f[s]
      OBVIOUS
    <3> HIDE DEF f, G
    <3>5. HashBody(G(Len(s) + 1), s) = HashBody(f, s)
      BY <3>2, HashBodyLocal
    <3> QED BY <3>3, <3>4, <3>5
  <2> QED BY <2>1
<1> HIDE DEF f
<1>5. TreeHash = [s \in Seq(Leaf) |-> HashBody(TreeHash, s)]
  BY <1>4 DEF TreeHash, HashBody
<1> QED BY <1>5

\* The audit paths of s, given those (g) of the smaller trees.
PathBody(g, s) ==
    [i \in 0..Len(s) - 1 |->
        IF Len(s) <= 1 THEN <<>>
        ELSE LET k == LargestPowerOfTwoBelow(Len(s))
             IN IF i < k THEN Append(g[First(s, k)][i], TreeHash[Rest(s, k)])
                ELSE Append(g[Rest(s, k)][i - k], TreeHash[First(s, k)])]

\* They depend on the paths of the smaller trees only.
LEMMA PathBodyLocal ==
    ASSUME NEW s \in Seq(Leaf), NEW g, NEW h,
           \A t \in Seq(Leaf) : Len(t) < Len(s) => g[t] = h[t]
    PROVE  PathBody(g, s) = PathBody(h, s)
<1>1. CASE Len(s) <= 1
  BY <1>1 DEF PathBody
<1>2. CASE Len(s) > 1
  <2> DEFINE k == LargestPowerOfTwoBelow(Len(s))
  <2>1. k \in 1..Len(s) /\ k < Len(s)
    BY <1>2, SplitOf
  <2> HIDE DEF k
  <2>2. g[First(s, k)] = h[First(s, k)] /\ g[Rest(s, k)] = h[Rest(s, k)]
    BY <2>1, Halves
  <2> QED BY <2>2 DEF PathBody, k
<1> QED BY <1>1, <1>2

\* So does AuditPath.
LEMMA AuditPathDef == \A s \in Seq(Leaf) : AuditPath[s] = PathBody(AuditPath, s)
<1> DEFINE Solves(g, n) == \A s \in Seq(Leaf) : Len(s) < n => g[s] = PathBody(g, s)
           T == {n \in Nat : \E g : Solves(g, n)}
           G(n) == CHOOSE g : Solves(g, n)
           f == [s \in Seq(Leaf) |-> G(Len(s) + 1)[s]]
<1>1. Nat \subseteq T
  <2>1. ASSUME NEW n \in Nat, \A k \in Nat : k < n => k \in T PROVE n \in T
    <3>1. CASE n = 0
      BY <3>1
    <3>2. CASE n # 0
      <4>1. PICK g : Solves(g, n - 1)
        BY <2>1, <3>2
      <4> DEFINE h == [s \in Seq(Leaf) |-> PathBody(g, s)]
      <4>2. ASSUME NEW s \in Seq(Leaf), Len(s) < n PROVE h[s] = PathBody(h, s)
        <5>1. \A t \in Seq(Leaf) : Len(t) < Len(s) => g[t] = h[t]
          BY <4>1, <4>2
        <5> HIDE DEF h
        <5>2. PathBody(g, s) = PathBody(h, s)
          BY <5>1, PathBodyLocal
        <5> QED BY <5>2 DEF h
      <4> QED BY <4>2
    <3> QED BY <3>1, <3>2
  <2> HIDE DEF T
  <2> QED BY <2>1, Induction
<1>2. \A n \in Nat : Solves(G(n), n)
  BY <1>1
<1>3. ASSUME NEW n \in Nat, NEW m \in Nat, NEW g, NEW h, Solves(g, n), Solves(h, m)
      PROVE  \A s \in Seq(Leaf) : Len(s) < n /\ Len(s) < m => g[s] = h[s]
  <2> DEFINE A == {l \in Nat : \A s \in Seq(Leaf) :
                      Len(s) = l /\ l < n /\ l < m => g[s] = h[s]}
  <2>1. ASSUME NEW l \in Nat, \A k \in Nat : k < l => k \in A PROVE l \in A
    <3> SUFFICES ASSUME NEW s \in Seq(Leaf), Len(s) = l, l < n, l < m PROVE g[s] = h[s]
      OBVIOUS
    <3>1. \A t \in Seq(Leaf) : Len(t) < Len(s) => g[t] = h[t]
      BY <2>1
    <3>2. PathBody(g, s) = PathBody(h, s)
      BY <3>1, PathBodyLocal
    <3> QED BY <1>3, <3>2
  <2>2. Nat \subseteq A
    <3> HIDE DEF A
    <3> QED BY <2>1, Induction
  <2> QED BY <2>2
<1>4. f = [s \in Seq(Leaf) |-> PathBody(f, s)]
  <2>1. ASSUME NEW s \in Seq(Leaf) PROVE f[s] = PathBody(f, s)
    <3>1. Solves(G(Len(s) + 1), Len(s) + 1)
      BY <1>2
    <3>2. ASSUME NEW t \in Seq(Leaf), Len(t) < Len(s) PROVE G(Len(s) + 1)[t] = f[t]
      <4>1. Solves(G(Len(t) + 1), Len(t) + 1)
        BY <1>2
      <4> HIDE DEF Solves, G
      <4>2. G(Len(s) + 1)[t] = G(Len(t) + 1)[t]
        BY <3>1, <3>2, <4>1, <1>3
      <4> QED BY <4>2
    <3>3. G(Len(s) + 1)[s] = PathBody(G(Len(s) + 1), s)
      BY <3>1
    <3>4. G(Len(s) + 1)[s] = f[s]
      OBVIOUS
    <3> HIDE DEF f, G
    <3>5. PathBody(G(Len(s) + 1), s) = PathBody(f, s)
      BY <3>2, PathBodyLocal
    <3> QED BY <3>3, <3>4, <3>5
  <2> QED BY <2>1
<1> HIDE DEF f
<1>5. AuditPath = [s \in Seq(Leaf) |-> PathBody(AuditPath, s)]
  BY <1>4 DEF AuditPath, PathBody
<1> QED BY <1>5

\* The consistency paths of s, given those (g) of the smaller trees.
SubBody(g, s) ==
    [complete \in BOOLEAN |-> [m \in 1..Len(s) |->
        IF m = Len(s) THEN IF complete THEN <<>> ELSE <<TreeHash[s]>>
        ELSE LET k == LargestPowerOfTwoBelow(Len(s))
             IN IF m <= k
                THEN Append(g[First(s, k)][complete][m], TreeHash[Rest(s, k)])
                ELSE Append(g[Rest(s, k)][FALSE][m - k], TreeHash[First(s, k)])]]

\* They depend on the paths of the smaller trees only.
LEMMA SubBodyLocal ==
    ASSUME NEW s \in Seq(Leaf), NEW g, NEW h,
           \A t \in Seq(Leaf) : Len(t) < Len(s) => g[t] = h[t]
    PROVE  SubBody(g, s) = SubBody(h, s)
<1>1. CASE Len(s) <= 1
  <2>1. \A m \in 1..Len(s) : m = Len(s)
    BY <1>1
  <2> QED BY <2>1 DEF SubBody
<1>2. CASE Len(s) > 1
  <2> DEFINE k == LargestPowerOfTwoBelow(Len(s))
  <2>1. k \in 1..Len(s) /\ k < Len(s)
    BY <1>2, SplitOf
  <2> HIDE DEF k
  <2>2. g[First(s, k)] = h[First(s, k)] /\ g[Rest(s, k)] = h[Rest(s, k)]
    BY <2>1, Halves
  <2> QED BY <2>2 DEF SubBody, k
<1> QED BY <1>1, <1>2

\* And SubProof.
LEMMA SubProofDef == \A s \in Seq(Leaf) : SubProof[s] = SubBody(SubProof, s)
<1> DEFINE Solves(g, n) == \A s \in Seq(Leaf) : Len(s) < n => g[s] = SubBody(g, s)
           T == {n \in Nat : \E g : Solves(g, n)}
           G(n) == CHOOSE g : Solves(g, n)
           f == [s \in Seq(Leaf) |-> G(Len(s) + 1)[s]]
<1>1. Nat \subseteq T
  <2>1. ASSUME NEW n \in Nat, \A k \in Nat : k < n => k \in T PROVE n \in T
    <3>1. CASE n = 0
      BY <3>1
    <3>2. CASE n # 0
      <4>1. PICK g : Solves(g, n - 1)
        BY <2>1, <3>2
      <4> DEFINE h == [s \in Seq(Leaf) |-> SubBody(g, s)]
      <4>2. ASSUME NEW s \in Seq(Leaf), Len(s) < n PROVE h[s] = SubBody(h, s)
        <5>1. \A t \in Seq(Leaf) : Len(t) < Len(s) => g[t] = h[t]
          BY <4>1, <4>2
        <5> HIDE DEF h
        <5>2. SubBody(g, s) = SubBody(h, s)
          BY <5>1, SubBodyLocal
        <5> QED BY <5>2 DEF h
      <4> QED BY <4>2
    <3> QED BY <3>1, <3>2
  <2> HIDE DEF T
  <2> QED BY <2>1, Induction
<1>2. \A n \in Nat : Solves(G(n), n)
  BY <1>1
<1>3. ASSUME NEW n \in Nat, NEW m \in Nat, NEW g, NEW h, Solves(g, n), Solves(h, m)
      PROVE  \A s \in Seq(Leaf) : Len(s) < n /\ Len(s) < m => g[s] = h[s]
  <2> DEFINE A == {l \in Nat : \A s \in Seq(Leaf) :
                      Len(s) = l /\ l < n /\ l < m => g[s] = h[s]}
  <2>1. ASSUME NEW l \in Nat, \A k \in Nat : k < l => k \in A PROVE l \in A
    <3> SUFFICES ASSUME NEW s \in Seq(Leaf), Len(s) = l, l < n, l < m PROVE g[s] = h[s]
      OBVIOUS
    <3>1. \A t \in Seq(Leaf) : Len(t) < Len(s) => g[t] = h[t]
      BY <2>1
    <3>2. SubBody(g, s) = SubBody(h, s)
      BY <3>1, SubBodyLocal
    <3> QED BY <1>3, <3>2
  <2>2. Nat \subseteq A
    <3> HIDE DEF A
    <3> QED BY <2>1, Induction
  <2> QED BY <2>2
<1>4. f = [s \in Seq(Leaf) |-> SubBody(f, s)]
  <2>1. ASSUME NEW s \in Seq(Leaf) PROVE f[s] = SubBody(f, s)
    <3>1. Solves(G(Len(s) + 1), Len(s) + 1)
      BY <1>2
    <3>2. ASSUME NEW t \in Seq(Leaf), Len(t) < Len(s) PROVE G(Len(s) + 1)[t] = f[t]
      <4>1. Solves(G(Len(t) + 1), Len(t) + 1)
        BY <1>2
      <4> HIDE DEF Solves, G
      <4>2. G(Len(s) + 1)[t] = G(Len(t) + 1)[t]
        BY <3>1, <3>2, <4>1, <1>3
      <4> QED BY <4>2
    <3>3. G(Len(s) + 1)[s] = SubBody(G(Len(s) + 1), s)
      BY <3>1
    <3>4. G(Len(s) + 1)[s] = f[s]
      OBVIOUS
    <3> HIDE DEF f, G
    <3>5. SubBody(G(Len(s) + 1), s) = SubBody(f, s)
      BY <3>2, SubBodyLocal
    <3> QED BY <3>3, <3>4, <3>5
  <2> QED BY <2>1
<1> HIDE DEF f
<1>5. SubProof = [s \in Seq(Leaf) |-> SubBody(SubProof, s)]
  BY <1>4 DEF SubProof, SubBody
<1> QED BY <1>5

\* What SkipLevels[i] is, given its values g at the smaller positions.
SkipLevelsBody(g, i) ==
    [sn \in Nat |-> IF i # 0 /\ i % 2 = 0 THEN g[i \div 2][sn \div 2] ELSE <<i, sn>>]

\* It depends on the positions below i only.
LEMMA SkipLevelsBodyLocal ==
    ASSUME NEW i \in Nat, NEW g, NEW h, \A j \in Nat : j < i => g[j] = h[j]
    PROVE  SkipLevelsBody(g, i) = SkipLevelsBody(h, i)
<1>1. i # 0 /\ i % 2 = 0 => g[i \div 2] = h[i \div 2]
  OBVIOUS
<1> QED BY <1>1 DEF SkipLevelsBody

\* SkipLevels exists.
LEMMA SkipLevelsDef == \A i \in Nat : SkipLevels[i] = SkipLevelsBody(SkipLevels, i)
<1> DEFINE Solves(g, n) == \A i \in Nat : i < n => g[i] = SkipLevelsBody(g, i)
           T == {n \in Nat : \E g : Solves(g, n)}
           G(n) == CHOOSE g : Solves(g, n)
           f == [i \in Nat |-> G(i + 1)[i]]
<1>1. Nat \subseteq T
  <2>1. ASSUME NEW n \in Nat, \A k \in Nat : k < n => k \in T PROVE n \in T
    <3>1. CASE n = 0
      BY <3>1
    <3>2. CASE n # 0
      <4>1. PICK g : Solves(g, n - 1)
        BY <2>1, <3>2
      <4> DEFINE h == [i \in Nat |-> SkipLevelsBody(g, i)]
      <4>2. ASSUME NEW i \in Nat, i < n PROVE h[i] = SkipLevelsBody(h, i)
        <5>1. \A j \in Nat : j < i => g[j] = h[j]
          BY <4>1, <4>2
        <5> HIDE DEF h
        <5>2. SkipLevelsBody(g, i) = SkipLevelsBody(h, i)
          BY <5>1, SkipLevelsBodyLocal
        <5> QED BY <5>2 DEF h
      <4> QED BY <4>2
    <3> QED BY <3>1, <3>2
  <2> HIDE DEF T
  <2> QED BY <2>1, Induction
<1>2. \A n \in Nat : Solves(G(n), n)
  BY <1>1
<1>3. ASSUME NEW n \in Nat, NEW m \in Nat, NEW g, NEW h, Solves(g, n), Solves(h, m)
      PROVE  \A i \in Nat : i < n /\ i < m => g[i] = h[i]
  <2> DEFINE A == {l \in Nat : \A i \in Nat :
                      i = l /\ l < n /\ l < m => g[i] = h[i]}
  <2>1. ASSUME NEW l \in Nat, \A k \in Nat : k < l => k \in A PROVE l \in A
    <3> SUFFICES ASSUME NEW i \in Nat, i = l, l < n, l < m PROVE g[i] = h[i]
      OBVIOUS
    <3>1. \A j \in Nat : j < i => g[j] = h[j]
      BY <2>1
    <3>2. SkipLevelsBody(g, i) = SkipLevelsBody(h, i)
      BY <3>1, SkipLevelsBodyLocal
    <3> QED BY <1>3, <3>2
  <2>2. Nat \subseteq A
    <3> HIDE DEF A
    <3> QED BY <2>1, Induction
  <2> QED BY <2>2
<1>4. f = [i \in Nat |-> SkipLevelsBody(f, i)]
  <2>1. ASSUME NEW i \in Nat PROVE f[i] = SkipLevelsBody(f, i)
    <3>1. Solves(G(i + 1), i + 1)
      BY <1>2
    <3>2. ASSUME NEW j \in Nat, j < i PROVE G(i + 1)[j] = f[j]
      <4>1. Solves(G(j + 1), j + 1)
        BY <1>2
      <4> HIDE DEF Solves, G
      <4>2. G(i + 1)[j] = G(j + 1)[j]
        BY <3>1, <3>2, <4>1, <1>3
      <4> QED BY <4>2
    <3>3. G(i + 1)[i] = SkipLevelsBody(G(i + 1), i)
      BY <3>1
    <3>4. G(i + 1)[i] = f[i]
      OBVIOUS
    <3> HIDE DEF f, G
    <3>5. SkipLevelsBody(G(i + 1), i) = SkipLevelsBody(f, i)
      BY <3>2, SkipLevelsBodyLocal
    <3> QED BY <3>3, <3>4, <3>5
  <2> QED BY <2>1
<1> HIDE DEF f
<1>5. SkipLevels = [i \in Nat |-> SkipLevelsBody(SkipLevels, i)]
  BY <1>4 DEF SkipLevels, SkipLevelsBody
<1> QED BY <1>5

\* What SkipRight[i] is, given its values g at the smaller positions.
SkipRightBody(g, i) ==
    [sn \in Nat |-> IF i % 2 = 1 THEN g[i \div 2][sn \div 2] ELSE <<i, sn>>]

\* It depends on the positions below i only.
LEMMA SkipRightBodyLocal ==
    ASSUME NEW i \in Nat, NEW g, NEW h, \A j \in Nat : j < i => g[j] = h[j]
    PROVE  SkipRightBody(g, i) = SkipRightBody(h, i)
<1>1. i % 2 = 1 => g[i \div 2] = h[i \div 2]
  OBVIOUS
<1> QED BY <1>1 DEF SkipRightBody

\* SkipRight exists.
LEMMA SkipRightDef == \A i \in Nat : SkipRight[i] = SkipRightBody(SkipRight, i)
<1> DEFINE Solves(g, n) == \A i \in Nat : i < n => g[i] = SkipRightBody(g, i)
           T == {n \in Nat : \E g : Solves(g, n)}
           G(n) == CHOOSE g : Solves(g, n)
           f == [i \in Nat |-> G(i + 1)[i]]
<1>1. Nat \subseteq T
  <2>1. ASSUME NEW n \in Nat, \A k \in Nat : k < n => k \in T PROVE n \in T
    <3>1. CASE n = 0
      BY <3>1
    <3>2. CASE n # 0
      <4>1. PICK g : Solves(g, n - 1)
        BY <2>1, <3>2
      <4> DEFINE h == [i \in Nat |-> SkipRightBody(g, i)]
      <4>2. ASSUME NEW i \in Nat, i < n PROVE h[i] = SkipRightBody(h, i)
        <5>1. \A j \in Nat : j < i => g[j] = h[j]
          BY <4>1, <4>2
        <5> HIDE DEF h
        <5>2. SkipRightBody(g, i) = SkipRightBody(h, i)
          BY <5>1, SkipRightBodyLocal
        <5> QED BY <5>2 DEF h
      <4> QED BY <4>2
    <3> QED BY <3>1, <3>2
  <2> HIDE DEF T
  <2> QED BY <2>1, Induction
<1>2. \A n \in Nat : Solves(G(n), n)
  BY <1>1
<1>3. ASSUME NEW n \in Nat, NEW m \in Nat, NEW g, NEW h, Solves(g, n), Solves(h, m)
      PROVE  \A i \in Nat : i < n /\ i < m => g[i] = h[i]
  <2> DEFINE A == {l \in Nat : \A i \in Nat :
                      i = l /\ l < n /\ l < m => g[i] = h[i]}
  <2>1. ASSUME NEW l \in Nat, \A k \in Nat : k < l => k \in A PROVE l \in A
    <3> SUFFICES ASSUME NEW i \in Nat, i = l, l < n, l < m PROVE g[i] = h[i]
      OBVIOUS
    <3>1. \A j \in Nat : j < i => g[j] = h[j]
      BY <2>1
    <3>2. SkipRightBody(g, i) = SkipRightBody(h, i)
      BY <3>1, SkipRightBodyLocal
    <3> QED BY <1>3, <3>2
  <2>2. Nat \subseteq A
    <3> HIDE DEF A
    <3> QED BY <2>1, Induction
  <2> QED BY <2>2
<1>4. f = [i \in Nat |-> SkipRightBody(f, i)]
  <2>1. ASSUME NEW i \in Nat PROVE f[i] = SkipRightBody(f, i)
    <3>1. Solves(G(i + 1), i + 1)
      BY <1>2
    <3>2. ASSUME NEW j \in Nat, j < i PROVE G(i + 1)[j] = f[j]
      <4>1. Solves(G(j + 1), j + 1)
        BY <1>2
      <4> HIDE DEF Solves, G
      <4>2. G(i + 1)[j] = G(j + 1)[j]
        BY <3>1, <3>2, <4>1, <1>3
      <4> QED BY <4>2
    <3>3. G(i + 1)[i] = SkipRightBody(G(i + 1), i)
      BY <3>1
    <3>4. G(i + 1)[i] = f[i]
      OBVIOUS
    <3> HIDE DEF f, G
    <3>5. SkipRightBody(G(i + 1), i) = SkipRightBody(f, i)
      BY <3>2, SkipRightBodyLocal
    <3> QED BY <3>3, <3>4, <3>5
  <2> QED BY <2>1
<1> HIDE DEF f
<1>5. SkipRight = [i \in Nat |-> SkipRightBody(SkipRight, i)]
  BY <1>4 DEF SkipRight, SkipRightBody
<1> QED BY <1>5

----------------------------------------------------------------------------
\* The loop over a proof.

\* The loop's states, each from the one before.
LoopBody(at, start, proof) ==
    [j \in 0..Len(proof) |-> IF j = 0 THEN start ELSE Climb(at[j - 1], proof[j])]

\* The loop's states exist.
LEMMA WalkDef ==
    ASSUME NEW V, NEW proof \in Seq(V), NEW start
    PROVE  \E at : at = LoopBody(at, start, proof) /\ Walk(start, proof) = at[Len(proof)]
<1> DEFINE Solves(g, n) == \A j \in 0..Len(proof) : j < n =>
                              g[j] = IF j = 0 THEN start ELSE Climb(g[j - 1], proof[j])
           T == {n \in Nat : \E g : Solves(g, n)}
<1>1. ASSUME NEW n \in Nat, \A k \in Nat : k < n => k \in T PROVE n \in T
  <2>1. CASE n = 0
    BY <2>1
  <2>2. CASE n # 0
    <3>1. PICK g : Solves(g, n - 1)
      <4>1. n - 1 \in T
        <5> HIDE DEF T
        <5>1. n - 1 \in Nat /\ n - 1 < n
          BY <2>2
        <5> QED BY <1>1, <5>1
      <4> HIDE DEF Solves
      <4> QED BY <4>1
    <3> DEFINE h == [j \in 0..Len(proof) |->
                        IF j = 0 THEN start ELSE Climb(g[j - 1], proof[j])]
    <3>2. ASSUME NEW j \in 0..Len(proof), j < n, j # 0 PROVE h[j - 1] = g[j - 1]
      BY <3>1, <3>2
    <3>3. Solves(h, n)
      BY <3>2
    <3> QED BY <3>3
  <2> QED BY <2>1, <2>2
<1>2. Nat \subseteq T
  <2> HIDE DEF T
  <2> QED BY <1>1, Induction
<1>3. PICK g : Solves(g, Len(proof) + 1)
  BY <1>2
<1> DEFINE at == [j \in 0..Len(proof) |-> g[j]]
<1>4. at = LoopBody(at, start, proof)
  <2>1. ASSUME NEW j \in 0..Len(proof)
        PROVE  at[j] = IF j = 0 THEN start ELSE Climb(at[j - 1], proof[j])
    <3>1. j # 0 => g[j - 1] = at[j - 1]
      OBVIOUS
    <3> QED BY <1>3, <3>1
  <2> QED BY <2>1 DEF LoopBody
<1> HIDE DEF at
<1>5. Walk(start, proof) = (CHOOSE a : a = LoopBody(a, start, proof))[Len(proof)]
  BY DEF Walk, LoopBody
<1> QED BY <1>4, <1>5

\* An empty proof leaves the loop where it started.
LEMMA WalkEmpty == ASSUME NEW start PROVE Walk(start, <<>>) = start
<1>1. <<>> \in Seq({}) /\ Len(<<>>) = 0
  BY EmptySeq
<1>2. PICK at : at = LoopBody(at, start, <<>>) /\ Walk(start, <<>>) = at[Len(<<>>)]
  BY <1>1, WalkDef
<1> QED BY <1>1, <1>2 DEF LoopBody

\* One more element is one more step.
LEMMA WalkAppend ==
    ASSUME NEW V, NEW proof \in Seq(V), NEW h \in V, NEW start
    PROVE  Walk(start, Append(proof, h)) = Climb(Walk(start, proof), h)
<1> DEFINE longer == Append(proof, h)
<1>1. /\ longer \in Seq(V) /\ Len(longer) = Len(proof) + 1
      /\ longer[Len(proof) + 1] = h
      /\ \A j \in 1..Len(proof) : longer[j] = proof[j]
  OBVIOUS
<1> HIDE DEF longer
<1>2. PICK a : a = LoopBody(a, start, proof) /\ Walk(start, proof) = a[Len(proof)]
  BY WalkDef
<1>3. PICK b : b = LoopBody(b, start, longer) /\ Walk(start, longer) = b[Len(longer)]
  BY <1>1, WalkDef
<1>4. \A j \in 0..Len(proof) : a[j] = IF j = 0 THEN start ELSE Climb(a[j - 1], proof[j])
  BY <1>2 DEF LoopBody
<1>5. \A j \in 0..Len(proof) + 1 : b[j] = IF j = 0 THEN start ELSE Climb(b[j - 1], longer[j])
  BY <1>1, <1>3 DEF LoopBody
<1> DEFINE T == {n \in Nat : n <= Len(proof) => a[n] = b[n]}
<1>6. ASSUME NEW n \in Nat, \A k \in Nat : k < n => k \in T PROVE n \in T
  <2>1. CASE n = 0
    BY <1>4, <1>5, <2>1
  <2>2. CASE n # 0
    <3> SUFFICES ASSUME n <= Len(proof) PROVE a[n] = b[n]
      OBVIOUS
    <3>1. a[n - 1] = b[n - 1]
      BY <1>6, <2>2
    <3>2. longer[n] = proof[n]
      BY <1>1, <2>2
    <3> QED BY <1>4, <1>5, <2>2, <3>1, <3>2
  <2> QED BY <2>1, <2>2
<1>7. Nat \subseteq T
  <2> HIDE DEF T
  <2> QED BY <1>6, Induction
<1>8. a[Len(proof)] = b[Len(proof)]
  BY <1>7
<1>9. b[Len(proof) + 1] = Climb(b[Len(proof)], longer[Len(proof) + 1])
  BY <1>5
<1> QED BY <1>1, <1>2, <1>3, <1>8, <1>9 DEF longer

----------------------------------------------------------------------------
\* Arithmetic of positions.

\* Levels add up.
LEMMA Pow2Sum == \A a, b \in Nat : Pow2[a + b] = Pow2[a] * Pow2[b]
<1> SUFFICES ASSUME NEW a \in Nat PROVE \A b \in Nat : Pow2[a + b] = Pow2[a] * Pow2[b]
  OBVIOUS
<1> DEFINE T == {b \in Nat : Pow2[a + b] = Pow2[a] * Pow2[b]}
<1>1. ASSUME NEW b \in Nat, \A k \in Nat : k < b => k \in T PROVE b \in T
  <2>1. CASE b = 0
    BY <2>1, Pow2Step, Pow2Type
  <2>2. CASE b # 0
    <3>1. Pow2[a + (b - 1)] = Pow2[a] * Pow2[b - 1]
      BY <1>1, <2>2
    <3>2. Pow2[a + b] = 2 * Pow2[a + (b - 1)] /\ Pow2[b] = 2 * Pow2[b - 1]
      <4>1. a + (b - 1) \in Nat /\ b - 1 \in Nat
        BY <2>2
      <4>2. (a + (b - 1)) + 1 = a + b /\ (b - 1) + 1 = b
        BY <2>2
      <4> QED BY <4>1, <4>2, Pow2Step
    <3>3. Pow2[a] \in Nat /\ Pow2[b - 1] \in Nat
      BY <2>2, Pow2Type
    <3> QED BY <3>1, <3>2, <3>3
  <2> QED BY <2>1, <2>2
<1>2. Nat \subseteq T
  <2> HIDE DEF T
  <2> QED BY <1>1, Induction
<1> QED BY <1>2

\* Powers of two are distinct, and each at least twice the one before.
LEMMA Pow2Grows == \A a, b \in Nat : a < b => 2 * Pow2[a] <= Pow2[b]
<1> SUFFICES ASSUME NEW a \in Nat, NEW b \in Nat, a < b PROVE 2 * Pow2[a] <= Pow2[b]
  OBVIOUS
<1>1. Pow2[(a + 1) + (b - a - 1)] = Pow2[a + 1] * Pow2[b - a - 1]
  BY Pow2Sum
<1>2. Pow2[a + 1] = 2 * Pow2[a]
  BY Pow2Step
<1>3. PICK x, y \in Nat \ {0} : x = Pow2[a] /\ y = Pow2[b - a - 1]
  BY Pow2Type
<1>4. Pow2[b] = (2 * x) * y
  BY <1>1, <1>2, <1>3
<1>5. 2 * x <= (2 * x) * y
  BY <1>3
<1> QED BY <1>3, <1>4, <1>5

\* A complete tree splits into two complete halves.
LEMMA SplitComplete ==
    ASSUME NEW d \in Nat
    PROVE  LargestPowerOfTwoBelow(Pow2[d + 1]) = Pow2[d]
<1> DEFINE n == Pow2[d + 1]
           k == LargestPowerOfTwoBelow(n)
<1>1. n \in Nat /\ n > 1
  <2>1. Pow2[d + 1] = 2 * Pow2[d] /\ Pow2[d] \in Nat \ {0}
    BY Pow2Type, Pow2Step
  <2> QED BY <2>1
<1> HIDE DEF n
<1>2. k \in 1..n - 1 /\ n <= 2 * k /\ \E e \in Nat : k = Pow2[e]
  BY <1>1, SplitOf
<1> HIDE DEF k
<1>3. PICK e \in Nat : k = Pow2[e]
  BY <1>2
<1>4. ~ (e < d)
  <2> SUFFICES ASSUME e < d PROVE FALSE
    OBVIOUS
  <2>1. 2 * Pow2[e] <= Pow2[d] /\ Pow2[d + 1] = 2 * Pow2[d] /\ Pow2[d] \in Nat \ {0}
    BY Pow2Grows, Pow2Step, Pow2Type
  <2> QED BY <1>2, <1>3, <2>1 DEF n
<1>5. ~ (d < e)
  <2> SUFFICES ASSUME d < e PROVE FALSE
    OBVIOUS
  <2>1. 2 * Pow2[d] <= Pow2[e] /\ Pow2[d + 1] = 2 * Pow2[d] /\ Pow2[d] \in Nat \ {0}
    BY Pow2Grows, Pow2Step, Pow2Type
  <2> QED BY <1>2, <1>3, <2>1 DEF n
<1> QED BY <1>3, <1>4, <1>5 DEF k, n

\* Beside the right edge of the tree: the loop goes up to an odd position.
LEMMA SkipLevelsUp ==
    ASSUME NEW c \in Nat, c % 2 = 1
    PROVE  \A e \in Nat : SkipLevels[c * Pow2[e]][c * Pow2[e]] = <<c, c>>
<1> DEFINE T == {e \in Nat : SkipLevels[c * Pow2[e]][c * Pow2[e]] = <<c, c>>}
<1>1. \A i, j \in Nat : SkipLevels[i][j] = IF i # 0 /\ i % 2 = 0
                        THEN SkipLevels[i \div 2][j \div 2] ELSE <<i, j>>
  BY SkipLevelsDef DEF SkipLevelsBody
<1>2. ASSUME NEW e \in Nat, \A k \in Nat : k < e => k \in T PROVE e \in T
  <2>1. CASE e = 0
    <3>1. c * Pow2[e] = c
      BY <2>1, Pow2Step
    <3>2. SkipLevels[c][c] = <<c, c>>
      <4>1. ~ (c # 0 /\ c % 2 = 0)
        OBVIOUS
      <4>2. SkipLevels[c][c] = IF c # 0 /\ c % 2 = 0
                               THEN SkipLevels[c \div 2][c \div 2] ELSE <<c, c>>
        BY <1>1
      <4> QED BY <4>1, <4>2, Zenon
    <3> QED BY <3>1, <3>2
  <2>2. CASE e # 0
    <3>1. PICK x \in Nat : x = c * Pow2[e - 1]
      BY <2>2, Pow2Type
    <3>2. c * Pow2[e] = 2 * x
      <4>1. Pow2[e] = 2 * Pow2[e - 1] /\ Pow2[e - 1] \in Nat
        BY <2>2, Pow2Def, Pow2Type
      <4> QED BY <3>1, <4>1
    <3>3. x # 0
      <4>1. PICK y \in Nat \ {0} : y = Pow2[e - 1]
        BY <2>2, Pow2Type
      <4> QED BY <3>1, <4>1
    <3>4. SkipLevels[x][x] = <<c, c>>
      BY <1>2, <2>2, <3>1
    <3>5. SkipLevels[2 * x][2 * x] = SkipLevels[x][x]
      <4>1. 2 * x # 0 /\ (2 * x) % 2 = 0 /\ (2 * x) \div 2 = x /\ 2 * x \in Nat
        BY <3>3
      <4> QED BY <1>1, <4>1
    <3> QED BY <3>2, <3>4, <3>5
  <2> QED BY <2>1, <2>2
<1>3. Nat \subseteq T
  <2> HIDE DEF T
  <2> QED BY <1>2, Induction
<1> QED BY <1>3

\* M lies in the q-th block of 2^d positions.
InBlock(M, q, d) == q * Pow2[d] <= M /\ M < (q + 1) * Pow2[d]

\* From the last position of a left-hand subtree the loop goes to its root.
LEMMA SkipRightUp ==
    ASSUME NEW c \in Nat, c % 2 = 0, NEW q \in Nat
    PROVE  \A d \in Nat : \A M \in Nat : InBlock(M, q, d) =>
              SkipRight[c * Pow2[d] + Pow2[d] - 1][M] = <<c, q>>
<1> DEFINE T == {d \in Nat : \A M \in Nat : InBlock(M, q, d) =>
                    SkipRight[c * Pow2[d] + Pow2[d] - 1][M] = <<c, q>>}
<1>1. \A i, j \in Nat : SkipRight[i][j] = IF i % 2 = 1
                        THEN SkipRight[i \div 2][j \div 2] ELSE <<i, j>>
  BY SkipRightDef DEF SkipRightBody
<1>2. ASSUME NEW d \in Nat, \A k \in Nat : k < d => k \in T PROVE d \in T
  <2> SUFFICES ASSUME NEW M \in Nat, InBlock(M, q, d)
               PROVE  SkipRight[c * Pow2[d] + Pow2[d] - 1][M] = <<c, q>>
    OBVIOUS
  <2>1. CASE d = 0
    <3>1. c * Pow2[d] + Pow2[d] - 1 = c
      BY <2>1, Pow2Step
    <3>2. M = q
      BY <2>1, Pow2Step DEF InBlock
    <3>3. SkipRight[c][q] = <<c, q>>
      <4>1. ~ (c % 2 = 1)
        OBVIOUS
      <4>2. SkipRight[c][q] = IF c % 2 = 1
                              THEN SkipRight[c \div 2][q \div 2] ELSE <<c, q>>
        BY <1>1
      <4> QED BY <4>1, <4>2, Zenon
    <3> QED BY <3>1, <3>2, <3>3
  <2>2. CASE d # 0
    <3>1. PICK p \in Nat \ {0} : p = Pow2[d - 1]
      BY <2>2, Pow2Type
    <3>2. Pow2[d] = 2 * p
      BY <2>2, <3>1, Pow2Def
    <3>3. PICK x \in Nat, y \in Nat : x = c * p /\ y = q * p
      BY <3>1
    <3>4. c * Pow2[d] + Pow2[d] - 1 = 2 * (x + p - 1) + 1
      BY <3>2, <3>3
    <3>5. q * Pow2[d] = 2 * y /\ (q + 1) * Pow2[d] = 2 * (y + p) /\ (q + 1) * p = y + p
      BY <3>2, <3>3
    <3>6. y <= M \div 2 /\ M \div 2 < y + p /\ M \div 2 \in Nat
      <4>1. 2 * y <= M /\ M < 2 * (y + p)
        BY <3>5 DEF InBlock
      <4> QED BY <4>1
    <3>7. InBlock(M \div 2, q, d - 1)
      BY <3>1, <3>3, <3>5, <3>6 DEF InBlock
    <3>8. SkipRight[x + p - 1][M \div 2] = <<c, q>>
      BY <1>2, <2>2, <3>1, <3>3, <3>6, <3>7
    <3>9. SkipRight[2 * (x + p - 1) + 1][M] = SkipRight[x + p - 1][M \div 2]
      <4>1. PICK z \in Nat : z = x + p - 1
        OBVIOUS
      <4>2. 2 * z + 1 \in Nat /\ (2 * z + 1) % 2 = 1 /\ (2 * z + 1) \div 2 = z
        OBVIOUS
      <4>3. SkipRight[2 * z + 1][M] = SkipRight[z][M \div 2]
        BY <1>1, <4>2
      <4> QED BY <4>1, <4>3
    <3> QED BY <3>4, <3>8, <3>9
  <2> QED BY <2>1, <2>2
<1>3. Nat \subseteq T
  <2> HIDE DEF T
  <2> QED BY <1>2, Induction
<1> QED BY <1>3

----------------------------------------------------------------------------
\* Trees and their paths, one level at a time.

\* The hashes that occur in trees.
TreeHashes == {TreeHash[s] : s \in Seq(Leaf)}

\* The root of a log of one leaf is the leaf.
LEMMA HashOfLeaf == ASSUME NEW s \in Seq(Leaf), Len(s) = 1 PROVE TreeHash[s] = s[1]
<1>1. s # <<>>
  BY EmptySeq
<1> QED BY <1>1, TreeHashDef DEF HashBody

\* A tree of several leaves: its halves, its hash and the paths in it.
LEMMA TreeSplit ==
    ASSUME NEW s \in Seq(Leaf), Len(s) > 1,
           NEW k, k = LargestPowerOfTwoBelow(Len(s)),
           NEW l, l = First(s, k), NEW r, r = Rest(s, k)
    PROVE  /\ k \in Nat /\ 0 < k /\ k < Len(s)
           /\ l \in Seq(Leaf) /\ Len(l) = k /\ \A i \in 1..k : l[i] = s[i]
           /\ r \in Seq(Leaf) /\ Len(r) = Len(s) - k
           /\ \A i \in 1..Len(s) - k : r[i] = s[k + i]
           /\ TreeHash[s] = NodeHash(TreeHash[l], TreeHash[r])
           /\ TreeHash[l] \in TreeHashes /\ TreeHash[r] \in TreeHashes
<1>1. PICK n \in Nat : n = Len(s)
  BY LenProperties
<1>2. k \in 1..n - 1
  BY <1>1, SplitOf
<1>3. s # <<>> /\ Len(s) # 1
  <2>1. n # 0 /\ n # 1
    BY <1>1
  <2>2. Len(<<>>) = 0
    BY EmptySeq
  <2> QED BY <1>1, <2>1, <2>2
<1>4. TreeHash[s] = NodeHash(TreeHash[l], TreeHash[r])
  BY <1>3, TreeHashDef DEF HashBody
<1>5. k \in 1..Len(s)
  BY <1>1, <1>2
<1>6. l \in Seq(Leaf) /\ r \in Seq(Leaf)
  BY <1>5, Halves
<1>7. TreeHash[l] \in TreeHashes /\ TreeHash[r] \in TreeHashes
  BY <1>6 DEF TreeHashes
<1>8. /\ Len(l) = k /\ \A i \in 1..k : l[i] = s[i]
      /\ Len(r) = Len(s) - k /\ \A i \in 1..Len(s) - k : r[i] = s[k + i]
  BY <1>5, Halves
<1>9. k \in Nat /\ 0 < k /\ k < Len(s)
  BY <1>1, <1>2
<1> QED BY <1>4, <1>6, <1>7, <1>8, <1>9

\* The audit path of a leaf in a tree of several, from that in its half.
LEMMA PathSplit ==
    ASSUME NEW s \in Seq(Leaf), Len(s) > 1, NEW i \in 0..Len(s) - 1
    PROVE  LET k == LargestPowerOfTwoBelow(Len(s))
           IN AuditPath[s][i] =
                IF i < k THEN Append(AuditPath[First(s, k)][i], TreeHash[Rest(s, k)])
                ELSE Append(AuditPath[Rest(s, k)][i - k], TreeHash[First(s, k)])
<1>1. ~ (Len(s) <= 1)
  <2>1. PICK n \in Nat : n = Len(s)
    BY LenProperties
  <2> QED BY <2>1
<1>2. AuditPath[s] = PathBody(AuditPath, s)
  BY AuditPathDef
<1> QED BY <1>1, <1>2 DEF PathBody

\* Paths are sequences of hashes.
LEMMA PathType ==
    \A s \in Seq(Leaf) : \A i \in 0..Len(s) - 1 : AuditPath[s][i] \in Seq(TreeHashes)
<1> DEFINE T == {n \in Nat : \A s \in Seq(Leaf) : Len(s) = n =>
                    \A i \in 0..Len(s) - 1 : AuditPath[s][i] \in Seq(TreeHashes)}
<1>1. ASSUME NEW n \in Nat, \A m \in Nat : m < n => m \in T PROVE n \in T
  <2> SUFFICES ASSUME NEW s \in Seq(Leaf), Len(s) = n, NEW i \in 0..n - 1
               PROVE  AuditPath[s][i] \in Seq(TreeHashes)
    OBVIOUS
  <2>1. CASE n <= 1
    <3>1. AuditPath[s][i] = <<>>
      BY <2>1, AuditPathDef DEF PathBody
    <3> QED BY <3>1, EmptySeq
  <2>2. CASE n > 1
    <3>1. PICK k, l, r : k = LargestPowerOfTwoBelow(Len(s)) /\ l = First(s, k)
                 /\ r = Rest(s, k)
      OBVIOUS
    <3>2. /\ k \in Nat /\ 0 < k /\ k < n
          /\ l \in Seq(Leaf) /\ Len(l) = k
          /\ r \in Seq(Leaf) /\ Len(r) = n - k
          /\ TreeHash[l] \in TreeHashes /\ TreeHash[r] \in TreeHashes
      BY <2>2, <3>1, TreeSplit
    <3>3. AuditPath[s][i] = IF i < k THEN Append(AuditPath[l][i], TreeHash[r])
                            ELSE Append(AuditPath[r][i - k], TreeHash[l])
      BY <2>2, <3>1, PathSplit
    <3>4. CASE i < k
      <4>1. AuditPath[l][i] \in Seq(TreeHashes)
        BY <1>1, <3>2, <3>4
      <4> QED BY <3>2, <3>3, <3>4, <4>1
    <3>5. CASE ~ (i < k)
      <4>1. AuditPath[r][i - k] \in Seq(TreeHashes)
        <5>1. n - k \in T /\ i - k \in 0..(n - k) - 1
          BY <1>1, <3>2, <3>5
        <5> QED BY <3>2, <5>1
      <4> QED BY <3>2, <3>3, <3>5, <4>1
    <3> QED BY <3>4, <3>5
  <2> QED BY <2>1, <2>2
<1>2. Nat \subseteq T
  <2> HIDE DEF T
  <2> QED BY <1>1, Induction
<1> QED BY <1>2, LenProperties

----------------------------------------------------------------------------
\* One step of the loop.

\* A state of the loop that has not failed.
State(fn, sn, fr, sr) == [ok |-> TRUE, fn |-> fn, sn |-> sn, fr |-> fr, sr |-> sr]

\* The sibling is on the right.
LEMMA ClimbFromLeft ==
    ASSUME NEW fn \in Nat, NEW sn \in Nat, fn % 2 = 0, fn < sn, NEW fr, NEW sr, NEW p
    PROVE  Climb(State(fn, sn, fr, sr), p) = State(fn \div 2, sn \div 2, fr, NodeHash(sr, p))
<1>1. fn % 2 # 1 /\ fn # sn /\ sn # 0
  OBVIOUS
<1> QED BY <1>1 DEF Climb, State

\* The sibling is on the left, after x, y levels were skipped.
LEMMA ClimbLeft ==
    ASSUME NEW fn, NEW sn, NEW fr, NEW sr, NEW p, NEW x, NEW y,
           sn # 0, fn % 2 = 1 \/ fn = sn, SkipLevels[fn][sn] = <<x, y>>
    PROVE  Climb(State(fn, sn, fr, sr), p)
              = State(x \div 2, y \div 2, NodeHash(p, fr), NodeHash(p, sr))
<1>1. PICK w : w = State(fn, sn, fr, sr)
  OBVIOUS
<1>2. w.ok = TRUE /\ w.fn = fn /\ w.sn = sn /\ w.fr = fr /\ w.sr = sr
  BY <1>1 DEF State
<1>3. (w.fn % 2 = 1 \/ w.fn = w.sn) = TRUE
  BY <1>2
<1>4. Climb(w, p) = [ok |-> TRUE,
                     fn |-> SkipLevels[fn][sn][1] \div 2, sn |-> SkipLevels[fn][sn][2] \div 2,
                     fr |-> NodeHash(p, fr), sr |-> NodeHash(p, sr)]
  BY <1>2, <1>3 DEF Climb
<1> QED BY <1>1, <1>4 DEF State

\* The sibling is on the left.
LEMMA ClimbFromRight ==
    ASSUME NEW fn \in Nat, NEW sn \in Nat, fn % 2 = 1, sn # 0, NEW fr, NEW sr, NEW p
    PROVE  Climb(State(fn, sn, fr, sr), p)
              = State(fn \div 2, sn \div 2, NodeHash(p, fr), NodeHash(p, sr))
<1>1. SkipLevels[fn][sn] = <<fn, sn>>
  <2>1. ~ (fn # 0 /\ fn % 2 = 0)
    OBVIOUS
  <2> QED BY <2>1, SkipLevelsDef DEF SkipLevelsBody
<1> QED BY <1>1, ClimbLeft

\* At the right edge the sibling is on the left, any number of levels further up.
AboveLeft(i, b) == \E e \in Nat : i = (2 * b + 1) * Pow2[e]

\* One step there skips those levels.
LEMMA ClimbAtEdge ==
    ASSUME NEW b \in Nat, NEW i, AboveLeft(i, b), NEW fr, NEW sr, NEW p
    PROVE  Climb(State(i, i, fr, sr), p) = State(b, b, NodeHash(p, fr), NodeHash(p, sr))
<1>1. PICK e \in Nat : i = (2 * b + 1) * Pow2[e]
  BY DEF AboveLeft
<1>2. i = (2 * b + 1) * Pow2[e] /\ i \in Nat
  BY <1>1, Pow2Type
<1>3. i # 0
  <2>1. PICK x \in Nat \ {0} : x = Pow2[e]
    BY Pow2Type
  <2>2. (2 * b + 1) * x # 0
    OBVIOUS
  <2> QED BY <1>2, <2>1, <2>2
<1>4. PICK c \in Nat : c = 2 * b + 1
  OBVIOUS
<1>5. c % 2 = 1 /\ c \div 2 = b
  BY <1>4
<1>6. SkipLevels[i][i] = <<c, c>>
  BY <1>2, <1>4, <1>5, SkipLevelsUp
<1>7. Climb(State(i, i, fr, sr), p) = State(b, b, NodeHash(p, fr), NodeHash(p, sr))
  BY <1>3, <1>5, <1>6, ClimbLeft
<1> QED BY <1>2, <1>7

\* Every block is two blocks of half its size.
LEMMA HalfBlock ==
    ASSUME NEW M \in Nat, NEW q \in Nat, NEW d \in Nat, InBlock(M, q, d + 1)
    PROVE  \E h \in Nat : (h = 2 * q \/ h = 2 * q + 1) /\ InBlock(M, h, d) /\ h \div 2 = q
<1>1. PICK x \in Nat \ {0} : x = Pow2[d]
  BY Pow2Type
<1>2. Pow2[d + 1] = 2 * x
  BY <1>1, Pow2Step
<1>3. PICK y \in Nat : y = q * x
  BY <1>1
<1>4. /\ q * (2 * x) = 2 * y /\ (q + 1) * (2 * x) = 2 * y + 2 * x
      /\ (2 * q) * x = 2 * y /\ (2 * q + 1) * x = 2 * y + x /\ (2 * q + 2) * x = 2 * y + 2 * x
  BY <1>1, <1>3
<1>5. 2 * y <= M /\ M < 2 * y + 2 * x
  BY <1>2, <1>4 DEF InBlock
<1>6. CASE M < 2 * y + x
  <2>1. InBlock(M, 2 * q, d)
    BY <1>1, <1>4, <1>5, <1>6 DEF InBlock
  <2>2. (2 * q) \div 2 = q /\ 2 * q \in Nat
    OBVIOUS
  <2> QED BY <2>1, <2>2
<1>7. CASE ~ (M < 2 * y + x)
  <2>1. (2 * q + 1) + 1 = 2 * q + 2
    OBVIOUS
  <2>2. InBlock(M, 2 * q + 1, d)
    BY <1>1, <1>4, <1>5, <1>7, <2>1 DEF InBlock
  <2>3. (2 * q + 1) \div 2 = q /\ 2 * q + 1 \in Nat
    OBVIOUS
  <2> QED BY <2>2, <2>3
<1> QED BY <1>6, <1>7

----------------------------------------------------------------------------
\* The code's inclusion paths are accepted.

\* From the leaf i of a complete subtree s of 2^d leaves that is not at the right
\* edge of the whole tree, the loop goes to the subtree's root.
WalksInside(d, s, i) ==
    \A c, q, M \in Nat : (c < q /\ InBlock(M, q, d)) =>
        \A fr : \E f : Walk(State(c * Pow2[d] + i, M, fr, s[i + 1]), AuditPath[s][i])
                         = State(c, q, f, TreeHash[s])

\* A single leaf is its own root.
LEMMA PathOfLeaf ==
    ASSUME NEW s \in Seq(Leaf), Len(s) = 1
    PROVE  AuditPath[s][0] = <<>> /\ TreeHash[s] = s[0 + 1]
<1>1. TreeHash[s] = s[1]
  BY HashOfLeaf
<1>2. AuditPath[s] = PathBody(AuditPath, s)
  BY AuditPathDef
<1>3. 0 \in 0..Len(s) - 1 /\ Len(s) <= 1 /\ 0 + 1 = 1
  OBVIOUS
<1>4. PathBody(AuditPath, s)[0] = <<>>
  BY <1>3 DEF PathBody
<1> QED BY <1>1, <1>2, <1>3, <1>4

\* A complete subtree of one leaf.
LEMMA InsideLeaf == ASSUME NEW s \in Seq(Leaf), Len(s) = 1 PROVE WalksInside(0, s, 0)
<1> SUFFICES ASSUME NEW c \in Nat, NEW q \in Nat, NEW M \in Nat, InBlock(M, q, 0), NEW fr
             PROVE  Walk(State(c * Pow2[0] + 0, M, fr, s[0 + 1]), AuditPath[s][0])
                      = State(c, q, fr, TreeHash[s])
  BY DEF WalksInside
<1>1. Pow2[0] = 1
  BY Pow2Step
<1>2. c * Pow2[0] + 0 = c /\ M = q
  BY <1>1 DEF InBlock
<1> QED BY <1>2, PathOfLeaf, WalkEmpty

\* The positions of a subtree's halves.
LEMMA Positions ==
    ASSUME NEW c \in Nat, NEW e \in Nat
    PROVE  /\ (2 * c) * Pow2[e] = c * Pow2[e + 1]
           /\ (2 * c + 1) * Pow2[e] = c * Pow2[e + 1] + Pow2[e]
           /\ c * Pow2[e + 1] \in Nat
<1>1. PICK x \in Nat : x = Pow2[e]
  BY Pow2Type
<1>2. Pow2[e + 1] = 2 * x
  BY <1>1, Pow2Step
<1>3. PICK y \in Nat : y = c * x
  BY <1>1
<1>4. (2 * c) * x = 2 * y /\ (2 * c + 1) * x = 2 * y + x /\ c * (2 * x) = 2 * y
  BY <1>1, <1>3
<1> QED BY <1>1, <1>2, <1>4

\* A leaf in the left half l of a complete subtree s.
LEMMA InsideLeft ==
    ASSUME NEW s \in Seq(Leaf), NEW l \in Seq(Leaf), NEW r, NEW e \in Nat,
           NEW i \in Nat, i < Len(l), l[i + 1] = s[i + 1],
           WalksInside(e, l, i),
           AuditPath[s][i] = Append(AuditPath[l][i], TreeHash[r]),
           TreeHash[s] = NodeHash(TreeHash[l], TreeHash[r]),
           TreeHash[r] \in TreeHashes
    PROVE  WalksInside(e + 1, s, i)
<1> SUFFICES ASSUME NEW c \in Nat, NEW q \in Nat, NEW M \in Nat, c < q,
                    InBlock(M, q, e + 1), NEW fr
             PROVE  \E f : Walk(State(c * Pow2[e + 1] + i, M, fr, s[i + 1]), AuditPath[s][i])
                             = State(c, q, f, TreeHash[s])
  BY DEF WalksInside
<1>1. PICK h \in Nat : (h = 2 * q \/ h = 2 * q + 1) /\ InBlock(M, h, e) /\ h \div 2 = q
  BY HalfBlock
<1>2. PICK g \in Nat : g = 2 * c
  OBVIOUS
<1>3. g < h
  <2>1. c + 1 <= q
    OBVIOUS
  <2> QED BY <1>1, <1>2, <2>1
<1>4. PICK st : st = State(g * Pow2[e] + i, M, fr, l[i + 1])
  OBVIOUS
<1>5. PICK P : P = AuditPath[l][i]
  OBVIOUS
<1>6. PICK f : Walk(st, P) = State(g, h, f, TreeHash[l])
  <2>1. \E f : Walk(State(g * Pow2[e] + i, M, fr, l[i + 1]), AuditPath[l][i])
                = State(g, h, f, TreeHash[l])
    <3>1. g < h /\ InBlock(M, h, e)
      BY <1>1, <1>3
    <3> QED BY <3>1, Zenon DEF WalksInside
  <2> QED BY <1>4, <1>5, <2>1
<1>7. P \in Seq(TreeHashes)
  <2>1. i \in 0..Len(l) - 1
    BY LenProperties
  <2> QED BY <1>5, <2>1, PathType
<1>8. PICK p, a : p \in TreeHashes /\ p = TreeHash[r] /\ a = TreeHash[l]
  OBVIOUS
<1> p \in TreeHashes
  BY <1>8
<1>9. Walk(st, P) = State(g, h, f, a)
  BY <1>6, <1>8
<1>10. Walk(st, Append(P, p)) = State(c, q, f, NodeHash(a, p))
  <2>1. Climb(State(g, h, f, a), p) = State(c, q, f, NodeHash(a, p))
    <3>1. g % 2 = 0 /\ g \div 2 = c
      BY <1>2
    <3>2. Climb(State(g, h, f, a), p) = State(g \div 2, h \div 2, f, NodeHash(a, p))
      BY <1>3, <3>1, ClimbFromLeft
    <3> QED BY <1>1, <3>1, <3>2
  <2> QED BY <1>7, <1>9, <2>1, WalkAppend
<1>11. st = State(c * Pow2[e + 1] + i, M, fr, s[i + 1])
  BY <1>2, <1>4, Positions
<1> QED BY <1>5, <1>8, <1>10, <1>11

\* A leaf in the right half r of a complete subtree s.
LEMMA InsideRight ==
    ASSUME NEW s \in Seq(Leaf), NEW l, NEW r \in Seq(Leaf), NEW e \in Nat,
           NEW i \in Nat, NEW j \in Nat, j < Len(r), i = Pow2[e] + j, r[j + 1] = s[i + 1],
           WalksInside(e, r, j),
           AuditPath[s][i] = Append(AuditPath[r][j], TreeHash[l]),
           TreeHash[s] = NodeHash(TreeHash[l], TreeHash[r]),
           TreeHash[l] \in TreeHashes
    PROVE  WalksInside(e + 1, s, i)
<1> SUFFICES ASSUME NEW c \in Nat, NEW q \in Nat, NEW M \in Nat, c < q,
                    InBlock(M, q, e + 1), NEW fr
             PROVE  \E f : Walk(State(c * Pow2[e + 1] + i, M, fr, s[i + 1]), AuditPath[s][i])
                             = State(c, q, f, TreeHash[s])
  BY DEF WalksInside
<1>1. PICK h \in Nat : (h = 2 * q \/ h = 2 * q + 1) /\ InBlock(M, h, e) /\ h \div 2 = q
  BY HalfBlock
<1>2. PICK g \in Nat : g = 2 * c + 1
  OBVIOUS
<1>3. g < h /\ h # 0
  <2>1. c + 1 <= q
    OBVIOUS
  <2> QED BY <1>1, <1>2, <2>1
<1>4. PICK st : st = State(g * Pow2[e] + j, M, fr, r[j + 1])
  OBVIOUS
<1>5. PICK P : P = AuditPath[r][j]
  OBVIOUS
<1>6. PICK f : Walk(st, P) = State(g, h, f, TreeHash[r])
  <2>1. \E f : Walk(State(g * Pow2[e] + j, M, fr, r[j + 1]), AuditPath[r][j])
                = State(g, h, f, TreeHash[r])
    <3>1. g < h /\ InBlock(M, h, e)
      BY <1>1, <1>3
    <3> QED BY <3>1, Zenon DEF WalksInside
  <2> QED BY <1>4, <1>5, <2>1
<1>7. P \in Seq(TreeHashes)
  <2>1. j \in 0..Len(r) - 1
    BY LenProperties
  <2> QED BY <1>5, <2>1, PathType
<1>8. PICK p, a : p \in TreeHashes /\ p = TreeHash[l] /\ a = TreeHash[r]
  OBVIOUS
<1> p \in TreeHashes
  BY <1>8
<1>9. Walk(st, P) = State(g, h, f, a)
  BY <1>6, <1>8
<1>10. Walk(st, Append(P, p)) = State(c, q, NodeHash(p, f), NodeHash(p, a))
  <2>1. Climb(State(g, h, f, a), p) = State(c, q, NodeHash(p, f), NodeHash(p, a))
    <3>1. g % 2 = 1 /\ g \div 2 = c
      BY <1>2
    <3>2. Climb(State(g, h, f, a), p)
            = State(g \div 2, h \div 2, NodeHash(p, f), NodeHash(p, a))
      BY <1>3, <3>1, ClimbFromRight
    <3> QED BY <1>1, <3>1, <3>2
  <2> QED BY <1>7, <1>9, <2>1, WalkAppend
<1>11. st = State(c * Pow2[e + 1] + i, M, fr, s[i + 1])
  <2>1. PICK x \in Nat, y \in Nat : x = Pow2[e] /\ y = c * Pow2[e + 1]
    BY Pow2Type, Positions
  <2>2. g * Pow2[e] = y + x
    BY <1>2, <2>1, Positions
  <2>3. i = x + j
    BY <2>1
  <2>4. (y + x) + j = y + i
    BY ONLY <2>3, x \in Nat, y \in Nat, j \in Nat
  <2> QED BY <1>4, <2>1, <2>2, <2>4
<1> QED BY <1>5, <1>8, <1>10, <1>11

\* The halves of a complete tree.
LEMMA CompleteSplit ==
    ASSUME NEW s \in Seq(Leaf), NEW e \in Nat, Len(s) = Pow2[e + 1],
           NEW l, l = First(s, Pow2[e]), NEW r, r = Rest(s, Pow2[e])
    PROVE  /\ l \in Seq(Leaf) /\ Len(l) = Pow2[e] /\ \A i \in 1..Pow2[e] : l[i] = s[i]
           /\ r \in Seq(Leaf) /\ Len(r) = Pow2[e]
                /\ \A i \in 1..Pow2[e] : r[i] = s[Pow2[e] + i]
           /\ TreeHash[s] = NodeHash(TreeHash[l], TreeHash[r])
           /\ TreeHash[l] \in TreeHashes /\ TreeHash[r] \in TreeHashes
           /\ Pow2[e] = LargestPowerOfTwoBelow(Len(s)) /\ Len(s) > 1
<1>1. PICK x \in Nat \ {0} : x = Pow2[e]
  BY Pow2Type
<1>2. Len(s) = 2 * x
  BY <1>1, Pow2Step
<1>3. Len(s) > 1 /\ Len(s) - x = x
  BY <1>2
<1>4. x = LargestPowerOfTwoBelow(Len(s))
  BY <1>1, SplitComplete
<1>5. l = First(s, x) /\ r = Rest(s, x)
  BY <1>1
<1>6. /\ l \in Seq(Leaf) /\ Len(l) = x /\ \A i \in 1..x : l[i] = s[i]
      /\ r \in Seq(Leaf) /\ Len(r) = Len(s) - x
      /\ \A i \in 1..Len(s) - x : r[i] = s[x + i]
      /\ TreeHash[s] = NodeHash(TreeHash[l], TreeHash[r])
      /\ TreeHash[l] \in TreeHashes /\ TreeHash[r] \in TreeHashes
  BY <1>3, <1>4, <1>5, TreeSplit
<1> QED BY <1>1, <1>3, <1>4, <1>6

\* Every leaf of every complete subtree.
LEMMA InsidePath ==
    \A d \in Nat : \A s \in Seq(Leaf) : Len(s) = Pow2[d] =>
        \A i \in 0..Len(s) - 1 : WalksInside(d, s, i)
<1> DEFINE T == {d \in Nat : \A s \in Seq(Leaf) : Len(s) = Pow2[d] =>
                    \A i \in 0..Len(s) - 1 : WalksInside(d, s, i)}
<1>1. ASSUME NEW d \in Nat, \A m \in Nat : m < d => m \in T PROVE d \in T
  <2> SUFFICES ASSUME NEW s \in Seq(Leaf), Len(s) = Pow2[d], NEW i \in 0..Len(s) - 1
               PROVE  WalksInside(d, s, i)
    OBVIOUS
  <2>1. CASE d = 0
    <3>1. Len(s) = 1
      BY <2>1, Pow2Step
    <3>2. i = 0
      BY <3>1
    <3> QED BY <2>1, <3>1, <3>2, InsideLeaf
  <2>2. CASE d # 0
    <3>1. PICK e \in Nat : d = e + 1 /\ e \in T
      <4>1. d - 1 \in Nat /\ d - 1 < d /\ d = (d - 1) + 1
        BY <2>2
      <4> HIDE DEF T
      <4> QED BY <1>1, <4>1
    <3>2. PICK l, r : l = First(s, Pow2[e]) /\ r = Rest(s, Pow2[e])
      OBVIOUS
    <3>3. /\ l \in Seq(Leaf) /\ Len(l) = Pow2[e] /\ \A j \in 1..Pow2[e] : l[j] = s[j]
          /\ r \in Seq(Leaf) /\ Len(r) = Pow2[e]
               /\ \A j \in 1..Pow2[e] : r[j] = s[Pow2[e] + j]
          /\ TreeHash[s] = NodeHash(TreeHash[l], TreeHash[r])
          /\ TreeHash[l] \in TreeHashes /\ TreeHash[r] \in TreeHashes
          /\ Pow2[e] = LargestPowerOfTwoBelow(Len(s)) /\ Len(s) > 1
      BY <3>1, <3>2, CompleteSplit
    <3>4. PICK x \in Nat \ {0} : x = Pow2[e]
      BY Pow2Type
    <3>5. AuditPath[s][i] = IF i < x THEN Append(AuditPath[l][i], TreeHash[r])
                            ELSE Append(AuditPath[r][i - x], TreeHash[l])
      <4>1. x = LargestPowerOfTwoBelow(Len(s)) /\ l = First(s, x) /\ r = Rest(s, x)
              /\ Len(s) > 1
        BY <3>2, <3>3, <3>4
      <4> QED BY <4>1, PathSplit
    <3>6. i \in Nat /\ i < 2 * x
      <4>1. Len(s) = 2 * x
        BY <3>1, <3>4, Pow2Step
      <4> QED BY <4>1
    <3>7. CASE i < x
      <4>1. i \in 0..Len(l) - 1 /\ i < Len(l) /\ i + 1 \in 1..x
        BY <3>3, <3>4, <3>6, <3>7
      <4>2. WalksInside(e, l, i)
        BY <3>1, <3>3, <4>1
      <4> QED BY <3>1, <3>3, <3>4, <3>5, <3>6, <3>7, <4>1, <4>2, InsideLeft
    <3>8. CASE ~ (i < x)
      <4>1. PICK j \in Nat : j = i - x
        BY <3>6, <3>8
      <4>0. j < x
        BY <3>6, <3>8, <4>1
      <4>2. j \in 0..Len(r) - 1 /\ j < Len(r) /\ j + 1 \in 1..x /\ i = x + j
              /\ x + (j + 1) = i + 1
        <5>1. Len(r) = x
          BY <3>3, <3>4
        <5>2. j \in 0..x - 1 /\ j + 1 \in 1..x
          BY <4>0
        <5>3. i = x + j /\ x + (j + 1) = i + 1
          BY <3>6, <4>1
        <5> QED BY <4>0, <5>1, <5>2, <5>3
      <4>3. WalksInside(e, r, j)
        BY <3>1, <3>3, <4>2
      <4>4. r[j + 1] = s[i + 1]
        BY <3>3, <3>4, <4>2
      <4>5. AuditPath[s][i] = Append(AuditPath[r][j], TreeHash[l])
        BY <3>5, <3>8, <4>1
      <4> QED BY <3>1, <3>3, <3>4, <3>6, <4>2, <4>3, <4>4, <4>5, InsideRight
    <3> QED BY <3>7, <3>8
  <2> QED BY <2>1, <2>2
<1>2. Nat \subseteq T
  <2> HIDE DEF T
  <2> QED BY <1>1, Induction
<1> QED BY <1>2

\* A subtree s at the right edge of the whole tree, which begins at position
\* c * 2^d: the loop goes to its root, or to the root of any number of subtrees
\* without a sibling that contain it.
WalksEdge(d, s, i) ==
    \A c \in Nat : \A fr : \E e \in Nat : \E f :
        Walk(State(c * Pow2[d] + i, c * Pow2[d] + (Len(s) - 1), fr, s[i + 1]),
          AuditPath[s][i])
          = State(c * Pow2[e], c * Pow2[e], f, TreeHash[s])

\* The same for a subtree of k positions.
WalksInsideAt(k, s, i) == \A d \in Nat : k = Pow2[d] => WalksInside(d, s, i)
WalksEdgeAt(k, s, i) == \A d \in Nat : k = Pow2[d] => WalksEdge(d, s, i)

\* Where such a subtree of n leaves splits: into 2^j = k leaves, whose root is at the
\* position 2b on its level, and the rest.
EdgeSplits(n, d, c, k, j, g, b) ==
    /\ k = LargestPowerOfTwoBelow(n) /\ k = Pow2[j]
    /\ b = c * Pow2[g] /\ c * Pow2[d] = (2 * b) * k
    /\ c * Pow2[d] + k = (2 * b + 1) * k
    /\ InBlock(c * Pow2[d] + (n - 1), 2 * b + 1, j)

\* It does split so.
LEMMA EdgeSplit ==
    ASSUME NEW n \in Nat, n > 1, NEW d \in Nat, n <= Pow2[d], NEW c \in Nat
    PROVE  \E j, g, b, k \in Nat : EdgeSplits(n, d, c, k, j, g, b)
<1>1. PICK k \in Nat : /\ k = LargestPowerOfTwoBelow(n) /\ 0 < k /\ k < n /\ n <= 2 * k
                       /\ \E j \in Nat : k = Pow2[j]
  BY SplitOf
<1>2. PICK j \in Nat : k = Pow2[j]
  BY <1>1
<1>3. PICK y \in Nat : y = Pow2[d]
  BY Pow2Type
<1>4. j < d
  <2> SUFFICES ASSUME j = d \/ d < j PROVE FALSE
    OBVIOUS
  <2>1. k < y
    BY <1>1, <1>3
  <2>2. j = d => k = y
    BY <1>2, <1>3
  <2>3. d < j => 2 * y <= k
    BY <1>2, <1>3, Pow2Grows
  <2> QED BY <2>1, <2>2, <2>3
<1>5. PICK g \in Nat : g = d - j - 1 /\ d = (j + 1) + g
  BY <1>4
<1>6. PICK x \in Nat : x = Pow2[g]
  BY Pow2Type
<1>7. y = (2 * k) * x
  BY <1>2, <1>3, <1>5, <1>6, Pow2Sum, Pow2Step
<1>8. PICK b \in Nat : b = c * x
  OBVIOUS
<1>9. c * y = (2 * b) * k
  BY <1>7, <1>8
<1>10. PICK z \in Nat : z = c * y
  OBVIOUS
<1>11. z + k = (2 * b + 1) * k /\ z + 2 * k = (2 * b + 2) * k
  BY <1>9, <1>10
<1>12. (2 * b + 1) + 1 = 2 * b + 2
  OBVIOUS
<1>13. (2 * b + 1) * k <= z + (n - 1) /\ z + (n - 1) < ((2 * b + 1) + 1) * k
  BY <1>1, <1>11, <1>12
<1>14. InBlock(z + (n - 1), 2 * b + 1, j)
  BY <1>2, <1>13 DEF InBlock
<1>15. EdgeSplits(n, d, c, k, j, g, b)
  BY <1>1, <1>2, <1>3, <1>6, <1>8, <1>9, <1>10, <1>11, <1>14 DEF EdgeSplits
<1> QED BY <1>15

\* A single leaf at the right edge.
LEMMA EdgeLeaf ==
    ASSUME NEW s \in Seq(Leaf), Len(s) = 1, NEW d \in Nat
    PROVE  WalksEdge(d, s, 0)
<1> SUFFICES ASSUME NEW c \in Nat, NEW fr
             PROVE  Walk(State(c * Pow2[d] + 0, c * Pow2[d] + (Len(s) - 1), fr, s[0 + 1]),
                         AuditPath[s][0]) = State(c * Pow2[d], c * Pow2[d], fr, TreeHash[s])
  BY DEF WalksEdge
<1>1. PICK x \in Nat : x = c * Pow2[d]
  BY Pow2Type
<1>2. x + 0 = x /\ x + (Len(s) - 1) = x
  OBVIOUS
<1>3. PICK st : st = State(x, x, fr, TreeHash[s])
  OBVIOUS
<1>4. Walk(st, <<>>) = st
  BY WalkEmpty
<1> QED BY <1>1, <1>2, <1>3, <1>4, PathOfLeaf

\* A leaf in the left part of a subtree at the right edge, which is complete.
LEMMA EdgeLeft ==
    ASSUME NEW s \in Seq(Leaf), Len(s) > 1, NEW d \in Nat, Len(s) <= Pow2[d],
           NEW i \in Nat, i < LargestPowerOfTwoBelow(Len(s))
    PROVE  WalksEdge(d, s, i)
<1>1. PICK n, k, l, r : /\ n \in Nat
                        /\ n = Len(s) /\ k = LargestPowerOfTwoBelow(n)
                        /\ l = First(s, k) /\ r = Rest(s, k)
  BY LenProperties
<1> n \in Nat
  BY <1>1
<1>2. /\ k \in Nat /\ 0 < k /\ k < n
      /\ l \in Seq(Leaf) /\ Len(l) = k /\ \A x \in 1..k : l[x] = s[x]
      /\ TreeHash[s] = NodeHash(TreeHash[l], TreeHash[r])
      /\ TreeHash[r] \in TreeHashes
  BY <1>1, TreeSplit
<1>3. i \in 0..Len(l) - 1 /\ l[i + 1] = s[i + 1]
  <2>1. i \in 0..k - 1 /\ i + 1 \in 1..k
    BY <1>1, <1>2
  <2> QED BY <1>2, <2>1
<1>4. WalksInsideAt(k, l, i)
  BY <1>2, <1>3, InsidePath DEF WalksInsideAt
<1>5. AuditPath[s][i] = Append(AuditPath[l][i], TreeHash[r])
  <2>1. i \in 0..Len(s) - 1 /\ i < k
    BY <1>1, <1>2
  <2>2. k = LargestPowerOfTwoBelow(Len(s)) /\ l = First(s, k) /\ r = Rest(s, k)
    BY <1>1
  <2>3. AuditPath[s][i] = IF i < k THEN Append(AuditPath[l][i], TreeHash[r])
                          ELSE Append(AuditPath[r][i - k], TreeHash[l])
    BY <2>1, <2>2, PathSplit
  <2> QED BY <2>1, <2>3
<1> SUFFICES ASSUME NEW c \in Nat, NEW fr
             PROVE  \E e \in Nat : \E f :
                      Walk(State(c * Pow2[d] + i, c * Pow2[d] + (Len(s) - 1), fr, s[i + 1]),
                        AuditPath[s][i])
                        = State(c * Pow2[e], c * Pow2[e], f, TreeHash[s])
  BY Zenon DEF WalksEdge
<1>6. PICK j \in Nat, g \in Nat, b \in Nat, m \in Nat : EdgeSplits(n, d, c, m, j, g, b)
  BY <1>1, EdgeSplit
<1>7. /\ k = Pow2[j]
      /\ b = c * Pow2[g] /\ c * Pow2[d] = (2 * b) * Pow2[j]
      /\ InBlock(c * Pow2[d] + (n - 1), 2 * b + 1, j)
  BY <1>1, <1>6 DEF EdgeSplits
<1>8. PICK x \in Nat, y \in Nat : x = 2 * b /\ y = 2 * b + 1
  OBVIOUS
<1>9. PICK M \in Nat : M = c * Pow2[d] + (n - 1)
  <2>1. PICK z \in Nat : z = c * Pow2[d]
    BY Pow2Type
  <2>2. z + (n - 1) \in Nat
    BY <1>1
  <2> QED BY <2>1, <2>2
<1>10. WalksInside(j, l, i) /\ x < y /\ InBlock(M, y, j)
  <2>1. WalksInside(j, l, i)
    BY ONLY <1>4, <1>7, j \in Nat, Zenon DEF WalksInsideAt
  <2>2. InBlock(M, y, j)
    BY <1>7, <1>8, <1>9
  <2>3. x < y
    BY <1>8
  <2> QED BY <2>1, <2>2, <2>3
<1>11. PICK f : Walk(State(x * Pow2[j] + i, M, fr, l[i + 1]), AuditPath[l][i])
                 = State(x, y, f, TreeHash[l])
  <2>1. x \in Nat /\ y \in Nat /\ M \in Nat
    OBVIOUS
  <2> QED BY ONLY <1>10, <2>1, Zenon DEF WalksInside
<1>12. PICK p, P, a : p \in TreeHashes /\ p = TreeHash[r] /\ P = AuditPath[l][i]
                         /\ a = TreeHash[l]
  BY <1>2
<1> p \in TreeHashes
  BY <1>12
<1>13. P \in Seq(TreeHashes)
  <2>1. l \in Seq(Leaf) /\ i \in 0..Len(l) - 1
    BY <1>2, <1>3
  <2> QED BY <1>12, <2>1, PathType
<1>14. PICK st : st = State(x * Pow2[j] + i, M, fr, l[i + 1])
  OBVIOUS
<1>15. Walk(st, P) = State(x, y, f, a)
  BY <1>11, <1>12, <1>14
<1>16. Climb(State(x, y, f, a), p) = State(b, b, f, NodeHash(a, p))
  <2>1. x % 2 = 0 /\ x < y /\ x \div 2 = b /\ y \div 2 = b
    BY <1>8
  <2>2. Climb(State(x, y, f, a), p) = State(x \div 2, y \div 2, f, NodeHash(a, p))
    BY <2>1, ClimbFromLeft
  <2> QED BY <2>1, <2>2
<1>17. Walk(st, Append(P, p)) = State(b, b, f, NodeHash(a, p))
  BY <1>13, <1>15, <1>16, WalkAppend
<1>18. st = State(c * Pow2[d] + i, c * Pow2[d] + (Len(s) - 1), fr, s[i + 1])
  BY <1>1, <1>3, <1>7, <1>8, <1>9, <1>14
<1>19. Walk(State(c * Pow2[d] + i, c * Pow2[d] + (Len(s) - 1), fr, s[i + 1]), AuditPath[s][i])
         = State(c * Pow2[g], c * Pow2[g], f, TreeHash[s])
  BY <1>2, <1>5, <1>7, <1>12, <1>17, <1>18
<1> QED BY <1>19

\* A leaf in the right part of a subtree at the right edge, itself at that edge.
LEMMA EdgeRight ==
    ASSUME NEW s \in Seq(Leaf), Len(s) > 1, NEW d \in Nat, Len(s) <= Pow2[d],
           NEW k, k = LargestPowerOfTwoBelow(Len(s)),
           NEW t \in Nat, k + t < Len(s),
           WalksEdgeAt(k, Rest(s, k), t)
    PROVE  WalksEdge(d, s, k + t)
<1>1. PICK n, l, r : /\ n \in Nat
                     /\ n = Len(s) /\ l = First(s, k) /\ r = Rest(s, k)
  BY LenProperties
<1> n \in Nat
  BY <1>1
<1>2. /\ k \in Nat /\ 0 < k /\ k < n
      /\ r \in Seq(Leaf) /\ Len(r) = n - k /\ \A x \in 1..n - k : r[x] = s[k + x]
      /\ TreeHash[s] = NodeHash(TreeHash[l], TreeHash[r])
      /\ TreeHash[l] \in TreeHashes
  BY <1>1, TreeSplit
<1>3. PICK i \in Nat : i = k + t
  BY <1>2
<1>4. t < n - k /\ t \in 0..Len(r) - 1 /\ r[t + 1] = s[i + 1]
  <2>1. t < n - k /\ t \in 0..(n - k) - 1 /\ t + 1 \in 1..n - k /\ i + 1 = k + (t + 1)
    BY <1>1, <1>2, <1>3
  <2> QED BY <1>2, <2>1
<1>5. WalksEdgeAt(k, r, t)
  BY <1>1
<1>6. AuditPath[s][i] = Append(AuditPath[r][t], TreeHash[l])
  <2>1. i \in 0..Len(s) - 1 /\ ~ (i < k) /\ i - k = t
    BY <1>1, <1>2, <1>3
  <2>2. l = First(s, k) /\ r = Rest(s, k)
    BY <1>1
  <2>3. AuditPath[s][i] = IF i < k THEN Append(AuditPath[l][i], TreeHash[r])
                          ELSE Append(AuditPath[r][i - k], TreeHash[l])
    BY <2>1, <2>2, PathSplit
  <2> QED BY <2>1, <2>3
<1> SUFFICES WalksEdge(d, s, i)
  BY <1>3
<1> SUFFICES ASSUME NEW c \in Nat, NEW fr
             PROVE  \E e \in Nat : \E f :
                      Walk(State(c * Pow2[d] + i, c * Pow2[d] + (Len(s) - 1), fr, s[i + 1]),
                        AuditPath[s][i])
                        = State(c * Pow2[e], c * Pow2[e], f, TreeHash[s])
  BY Zenon DEF WalksEdge
<1>7. PICK j \in Nat, g \in Nat, b \in Nat, m \in Nat : EdgeSplits(n, d, c, m, j, g, b)
  BY <1>1, EdgeSplit
<1>8. k = Pow2[j] /\ b = c * Pow2[g] /\ c * Pow2[d] + k = (2 * b + 1) * k
  BY <1>1, <1>7 DEF EdgeSplits
<1>9. PICK y \in Nat : y = 2 * b + 1
  OBVIOUS
<1>10. PICK z \in Nat : z = c * Pow2[d]
  BY Pow2Type
<1>11. WalksEdge(j, r, t)
  BY ONLY <1>5, <1>8, j \in Nat, Zenon DEF WalksEdgeAt
<1>12. PICK e \in Nat : \E f :
         Walk(State(y * Pow2[j] + t, y * Pow2[j] + (Len(r) - 1), fr, r[t + 1]),
           AuditPath[r][t])
           = State(y * Pow2[e], y * Pow2[e], f, TreeHash[r])
  <2>1. y \in Nat
    OBVIOUS
  <2> QED BY ONLY <1>11, <2>1, Zenon DEF WalksEdge
<1>13. PICK f :
         Walk(State(y * Pow2[j] + t, y * Pow2[j] + (Len(r) - 1), fr, r[t + 1]),
           AuditPath[r][t])
           = State(y * Pow2[e], y * Pow2[e], f, TreeHash[r])
  BY <1>12
<1>14. PICK p, P, a : p \in TreeHashes /\ p = TreeHash[l] /\ P = AuditPath[r][t]
                         /\ a = TreeHash[r]
  BY <1>2
<1> p \in TreeHashes
  BY <1>14
<1>15. P \in Seq(TreeHashes)
  <2>1. r \in Seq(Leaf) /\ t \in 0..Len(r) - 1
    BY <1>2, <1>4
  <2> QED BY <1>14, <2>1, PathType
<1>16. PICK st : st = State(y * Pow2[j] + t, y * Pow2[j] + (Len(r) - 1), fr, r[t + 1])
  OBVIOUS
<1>17. PICK w : w = y * Pow2[e]
  OBVIOUS
<1>18. Walk(st, P) = State(w, w, f, a)
  BY <1>13, <1>14, <1>16, <1>17
<1>19. Climb(State(w, w, f, a), p) = State(b, b, NodeHash(p, f), NodeHash(p, a))
  <2>1. AboveLeft(w, b)
    BY <1>9, <1>17 DEF AboveLeft
  <2> QED BY <2>1, ClimbAtEdge
<1>20. Walk(st, Append(P, p)) = State(b, b, NodeHash(p, f), NodeHash(p, a))
  BY <1>15, <1>18, <1>19, WalkAppend
<1>21. y * Pow2[j] + t = z + i /\ y * Pow2[j] + (Len(r) - 1) = z + (Len(s) - 1)
  <2>1. y * Pow2[j] = z + k
    BY <1>8, <1>9, <1>10
  <2>2. (z + k) + t = z + i /\ (z + k) + ((n - k) - 1) = z + (n - 1)
    BY <1>2, <1>3
  <2> QED BY <1>1, <1>2, <2>1, <2>2
<1>22. Walk(State(z + i, z + (Len(s) - 1), fr, s[i + 1]), AuditPath[s][i])
         = State(c * Pow2[g], c * Pow2[g], NodeHash(p, f), TreeHash[s])
  BY <1>2, <1>4, <1>6, <1>8, <1>14, <1>16, <1>20, <1>21
<1> QED BY <1>10, <1>22

\* Every leaf of every subtree at the right edge.
LEMMA EdgePath ==
    \A s \in Seq(Leaf) : \A d \in Nat : Len(s) <= Pow2[d] =>
        \A i \in 0..Len(s) - 1 : WalksEdge(d, s, i)
<1> DEFINE T == {n \in Nat : \A s \in Seq(Leaf) : Len(s) = n =>
                    \A d \in Nat : n <= Pow2[d] => \A i \in 0..n - 1 : WalksEdge(d, s, i)}
<1>1. ASSUME NEW n \in Nat, \A m \in Nat : m < n => m \in T PROVE n \in T
  <2> SUFFICES ASSUME NEW s \in Seq(Leaf), Len(s) = n, NEW d \in Nat, n <= Pow2[d],
                      NEW i \in 0..n - 1
               PROVE  WalksEdge(d, s, i)
    OBVIOUS
  <2>1. CASE n <= 1
    <3>1. n = 1 /\ i = 0
      BY <2>1
    <3> QED BY <3>1, EdgeLeaf
  <2>2. CASE n > 1
    <3>1. PICK k : k = LargestPowerOfTwoBelow(n)
      OBVIOUS
    <3>2. k \in Nat /\ 0 < k /\ k < n /\ n <= 2 * k
      BY <2>2, <3>1, SplitOf
    <3>3. CASE i < k
      BY <2>2, <3>1, <3>3, EdgeLeft
    <3>4. CASE ~ (i < k)
      <4>1. PICK t \in Nat : t = i - k /\ i = k + t
        BY <3>2, <3>4
      <4>2. PICK r \in Seq(Leaf) : r = Rest(s, k) /\ Len(r) = n - k
        <5>1. k \in 1..Len(s)
          BY <3>2
        <5> QED BY <5>1, Halves
      <4>3. WalksEdgeAt(k, r, t)
        <5> SUFFICES ASSUME NEW j \in Nat, k = Pow2[j] PROVE WalksEdge(j, r, t)
          BY DEF WalksEdgeAt
        <5>1. n - k \in T
          <6>1. n - k \in Nat /\ n - k < n
            BY <3>2
          <6> HIDE DEF T
          <6> QED BY <1>1, <6>1
        <5>2. n - k <= Pow2[j] /\ t \in 0..(n - k) - 1
          <6>1. n - k <= k
            BY <3>2
          <6>2. i < n /\ t = i - k
            BY <4>1
          <6>3. t < n - k
            BY <3>2, <6>2
          <6> QED BY <3>2, <6>1, <6>3
        <5> QED BY <4>2, <5>1, <5>2
      <4>4. k + t < Len(s) /\ WalksEdgeAt(k, Rest(s, k), t)
        BY <4>1, <4>2, <4>3
      <4>5. WalksEdge(d, s, k + t)
        BY <2>2, <3>1, <4>4, EdgeRight
      <4> QED BY <4>1, <4>5
    <3> QED BY <3>3, <3>4
  <2> QED BY <2>1, <2>2
<1>2. Nat \subseteq T
  <2> HIDE DEF T
  <2> QED BY <1>1, Induction
<1> QED BY <1>2, LenProperties

\* A tree has a height.
LEMMA HeightOf == \A n \in Nat : \E d \in Nat : n <= Pow2[d]
<1> SUFFICES ASSUME NEW n \in Nat PROVE \E d \in Nat : n <= Pow2[d]
  OBVIOUS
<1>1. CASE n <= 1
  BY <1>1, Pow2Step
<1>2. CASE n > 1
  <2>1. PICK j \in Nat : n <= 2 * Pow2[j]
    BY <1>2, SplitOf
  <2> QED BY <2>1, Pow2Step
<1> QED BY <1>1, <1>2

\* The loop over the inclusion path of s.
LEMMA InclusionWalk ==
    ASSUME NEW s \in Seq(Leaf), NEW i \in 0..Len(s) - 1
    PROVE  \E f : Walk(LeafStart(s[i + 1], i, Len(s)), InclusionPath(i, s))
                    = State(0, 0, f, TreeHash[s])
<1>1. PICK d \in Nat : Len(s) <= Pow2[d]
  BY LenProperties, HeightOf
<1>2. WalksEdge(d, s, i)
  BY <1>1, EdgePath
<1>3. PICK e, f :
        e \in Nat /\ Walk(State(0 * Pow2[d] + i, 0 * Pow2[d] + (Len(s) - 1), s[i + 1], s[i + 1]),
          AuditPath[s][i])
          = State(0 * Pow2[e], 0 * Pow2[e], f, TreeHash[s])
  <2>1. 0 \in Nat
    OBVIOUS
  <2> QED BY <1>2, <2>1, Zenon DEF WalksEdge
<1> e \in Nat
  BY <1>3
<1>4. 0 * Pow2[d] + i = i /\ 0 * Pow2[d] + (Len(s) - 1) = Len(s) - 1 /\ 0 * Pow2[e] = 0
  BY Pow2Type, LenProperties
<1> QED BY <1>3, <1>4 DEF LeafStart, State, InclusionPath

\* inclusionPath/VerifyInclusion: the path of every leaf of every log is accepted.
THEOREM InclusionComplete ==
    ASSUME NEW s \in Seq(Leaf), NEW i \in 0..Len(s) - 1
    PROVE  VerifyInclusion(s[i + 1], i, Len(s), InclusionPath(i, s), TreeHash[s])
<1>1. PICK f : Walk(LeafStart(s[i + 1], i, Len(s)), InclusionPath(i, s))
                 = State(0, 0, f, TreeHash[s])
  BY InclusionWalk
<1>2. 0 <= i /\ 0 < Len(s) /\ i < Len(s)
  BY LenProperties
<1> QED BY <1>1, <1>2 DEF VerifyInclusion, State

----------------------------------------------------------------------------
\* At most one proof leads to a root.

\* A state of the loop.
IsState(w) == \E ok \in BOOLEAN : \E fn, sn, fr, sr :
                 w = [ok |-> ok, fn |-> fn, sn |-> sn, fr |-> fr, sr |-> sr]

\* The next sibling is on the left.
GoesLeft(w) == w.fn % 2 = 1 \/ w.fn = w.sn

\* The loop stops for good when it fails or is at the root.
LEMMA ClimbOk ==
    ASSUME NEW w, IsState(w), NEW p
    PROVE  /\ IsState(Climb(w, p))
           /\ Climb(w, p).ok => w.ok /\ w.sn # 0
<1>0. PICK ok \in BOOLEAN : \E fn, sn, fr, sr :
         w = [ok |-> ok, fn |-> fn, sn |-> sn, fr |-> fr, sr |-> sr]
  BY DEF IsState
<1>1. PICK fn, sn, fr, sr : w = [ok |-> ok, fn |-> fn, sn |-> sn, fr |-> fr, sr |-> sr]
  BY <1>0
<1>2. w.ok = ok /\ w.fn = fn /\ w.sn = sn /\ w.fr = fr /\ w.sr = sr
  BY <1>1
<1>3. CASE ~w.ok \/ w.sn = 0
  <2>1. Climb(w, p) = [w EXCEPT !.ok = FALSE]
    BY <1>3 DEF Climb
  <2>2. Climb(w, p) = [ok |-> FALSE, fn |-> fn, sn |-> sn, fr |-> fr, sr |-> sr]
    BY <1>1, <2>1
  <2>3. IsState(Climb(w, p))
    BY <2>2 DEF IsState
  <2> QED BY <2>2, <2>3
<1>4. CASE ~(~w.ok \/ w.sn = 0)
  <2>1. \E f, n, x, y : Climb(w, p) = [ok |-> TRUE, fn |-> f, sn |-> n, fr |-> x, sr |-> y]
    BY <1>4 DEF Climb
  <2>2. IsState(Climb(w, p))
    BY <2>1 DEF IsState
  <2> QED BY <1>4, <2>2
<1> QED BY <1>3, <1>4

\* Where a step goes does not depend on the hashes.
LEMMA ClimbPosition ==
    ASSUME NEW v, NEW w, v.ok, w.ok, v.sn # 0, v.fn = w.fn, v.sn = w.sn, NEW p, NEW q
    PROVE  Climb(v, p).fn = Climb(w, q).fn /\ Climb(v, p).sn = Climb(w, q).sn
<1>1. w.sn # 0 /\ ~(~v.ok \/ v.sn = 0) /\ ~(~w.ok \/ w.sn = 0)
  OBVIOUS
<1>2. GoesLeft(v) <=> GoesLeft(w)
  BY DEF GoesLeft
<1>3. CASE GoesLeft(v)
  BY <1>1, <1>2, <1>3 DEF Climb, GoesLeft
<1>4. CASE ~GoesLeft(v)
  BY <1>1, <1>2, <1>4 DEF Climb, GoesLeft
<1> QED BY <1>3, <1>4

\* Different children, different hashes.
LEMMA NodeHashInjective ==
    ASSUME NEW a, NEW b, NEW c, NEW d, NodeHash(a, b) = NodeHash(c, d)
    PROVE  a = c /\ b = d
<1>1. NodeHash(a, b)[1] = a /\ NodeHash(a, b)[2] = b /\ NodeHash(c, d)[1] = c
        /\ NodeHash(c, d)[2] = d
  BY DEF NodeHash
<1> QED BY <1>1

\* A step keeps both the element and the root it was given.
LEMMA ClimbInjective ==
    ASSUME NEW v, NEW w, v.ok, w.ok, v.sn # 0, v.fn = w.fn, v.sn = w.sn, NEW p, NEW q,
           Climb(v, p).sr = Climb(w, q).sr
    PROVE  p = q /\ v.sr = w.sr
<1>1. w.sn # 0 /\ ~(~v.ok \/ v.sn = 0) /\ ~(~w.ok \/ w.sn = 0)
  OBVIOUS
<1>2. GoesLeft(v) <=> GoesLeft(w)
  BY DEF GoesLeft
<1>3. CASE GoesLeft(v)
  <2>1. Climb(v, p).sr = NodeHash(p, v.sr) /\ Climb(w, q).sr = NodeHash(q, w.sr)
    BY <1>1, <1>2, <1>3 DEF Climb, GoesLeft
  <2>2. PICK x, y : x = v.sr /\ y = w.sr
    OBVIOUS
  <2>3. NodeHash(p, x) = NodeHash(q, y)
    BY <2>1, <2>2
  <2>4. p = q /\ x = y
    BY ONLY <2>3, NodeHashInjective
  <2> QED BY <2>2, <2>4
<1>4. CASE ~GoesLeft(v)
  <2>1. Climb(v, p).sr = NodeHash(v.sr, p) /\ Climb(w, q).sr = NodeHash(w.sr, q)
    BY <1>1, <1>2, <1>4 DEF Climb, GoesLeft
  <2>2. PICK x, y : x = v.sr /\ y = w.sr
    OBVIOUS
  <2>3. NodeHash(x, p) = NodeHash(y, q)
    BY <2>1, <2>2
  <2>4. x = y /\ p = q
    BY ONLY <2>3, NodeHashInjective
  <2> QED BY <2>2, <2>4
<1> QED BY <1>3, <1>4

\* The states at of the loop over a proof.
Visits(at, start, proof) ==
    /\ at[0] = start
    /\ \A j \in Nat : j < Len(proof) => at[j + 1] = Climb(at[j], proof[j + 1])

\* The loop has such states, and ends in the last one.
LEMMA WalkVisits ==
    ASSUME NEW V, NEW proof \in Seq(V), NEW start
    PROVE  \E at : Visits(at, start, proof) /\ Walk(start, proof) = at[Len(proof)]
<1>1. PICK at : at = LoopBody(at, start, proof) /\ Walk(start, proof) = at[Len(proof)]
  BY WalkDef
<1>2. \A j \in 0..Len(proof) : at[j] = IF j = 0 THEN start ELSE Climb(at[j - 1], proof[j])
  BY <1>1 DEF LoopBody
<1>3. at[0] = start
  BY <1>2, LenProperties
<1>4. ASSUME NEW j \in Nat, j < Len(proof) PROVE at[j + 1] = Climb(at[j], proof[j + 1])
  <2>1. j + 1 \in 0..Len(proof) /\ j + 1 # 0 /\ (j + 1) - 1 = j
    BY <1>4, LenProperties
  <2> QED BY <1>2, <2>1
<1>5. Visits(at, start, proof)
  BY <1>3, <1>4 DEF Visits
<1> QED BY <1>1, <1>5

\* A loop that ends well was never at the root before.
LEMMA VisitsOk ==
    ASSUME NEW at, NEW start, NEW V, NEW proof \in Seq(V), Visits(at, start, proof),
           IsState(start), at[Len(proof)].ok
    PROVE  \A j \in Nat : j <= Len(proof) => at[j].ok /\ (j < Len(proof) => at[j].sn # 0)
<1>1. PICK n \in Nat : n = Len(proof)
  BY LenProperties
<1>2. \A j \in Nat : j < n => at[j + 1] = Climb(at[j], proof[j + 1])
  BY <1>1 DEF Visits
<1>3. \A j \in Nat : j <= n => IsState(at[j])
  <2> DEFINE T == {j \in Nat : j <= n => IsState(at[j])}
  <2>1. ASSUME NEW j \in Nat, \A k \in Nat : k < j => k \in T PROVE j \in T
    <3>1. CASE j = 0
      BY <3>1 DEF Visits
    <3>2. CASE j # 0
      <4> SUFFICES ASSUME j <= n PROVE IsState(at[j])
        OBVIOUS
      <4>1. PICK k \in Nat : j = k + 1
        <5>1. j - 1 \in Nat /\ j = (j - 1) + 1
          BY <3>2
        <5> QED BY <5>1
      <4>2. k < n /\ k < j /\ k <= n
        BY <4>1
      <4>3. IsState(at[k])
        BY <2>1, <4>2
      <4>4. at[j] = Climb(at[k], proof[j])
        BY <1>2, <4>1, <4>2
      <4> QED BY <4>3, <4>4, ClimbOk
    <3> QED BY <3>1, <3>2
  <2>2. Nat \subseteq T
    <3> HIDE DEF T
    <3> QED BY <2>1, Induction
  <2> QED BY <2>2
<1>4. ASSUME NEW j \in Nat, j < n, at[j + 1].ok PROVE at[j].ok /\ at[j].sn # 0
  <2>1. at[j + 1] = Climb(at[j], proof[j + 1]) /\ IsState(at[j])
    BY <1>2, <1>3, <1>4
  <2> QED BY <1>4, <2>1, ClimbOk
<1>5. \A j \in Nat : j <= n => at[j].ok
  <2> DEFINE T == {x \in Nat : \A j \in Nat : j + x = n => at[j].ok}
  <2>1. ASSUME NEW x \in Nat, \A k \in Nat : k < x => k \in T PROVE x \in T
    <3> SUFFICES ASSUME NEW j \in Nat, j + x = n PROVE at[j].ok
      OBVIOUS
    <3>1. CASE x = 0
      <4>1. j = n
        BY <3>1
      <4> QED BY <1>1, <4>1
    <3>2. CASE x # 0
      <4>1. x - 1 \in Nat /\ x - 1 < x /\ (j + 1) + (x - 1) = n /\ j + 1 \in Nat /\ j < n
        BY <3>2
      <4>2. x - 1 \in T
        <5> HIDE DEF T
        <5> QED BY <2>1, <4>1
      <4>3. at[j + 1].ok
        BY <4>1, <4>2
      <4> QED BY <1>4, <4>1, <4>3
    <3> QED BY <3>1, <3>2
  <2>2. Nat \subseteq T
    <3> HIDE DEF T
    <3> QED BY <2>1, Induction
  <2> SUFFICES ASSUME NEW j \in Nat, j <= n PROVE at[j].ok
    OBVIOUS
  <2>3. n - j \in Nat /\ j + (n - j) = n
    OBVIOUS
  <2>4. n - j \in T
    BY <2>2, <2>3
  <2> QED BY <2>3, <2>4
<1>6. ASSUME NEW j \in Nat, j < n PROVE at[j].sn # 0
  <2>1. j + 1 \in Nat /\ j + 1 <= n
    BY <1>6
  <2> QED BY <1>4, <1>5, <1>6, <2>1
<1> QED BY <1>1, <1>5, <1>6

\* Two loops from the same position are at the same position while both go on.
LEMMA VisitsTogether ==
    ASSUME NEW V, NEW P \in Seq(V), NEW Q \in Seq(V), NEW v, NEW w, IsState(v), IsState(w),
           v.fn = w.fn, v.sn = w.sn,
           NEW a, Visits(a, v, P), a[Len(P)].ok, NEW b, Visits(b, w, Q), b[Len(Q)].ok
    PROVE  \A j \in Nat : (j <= Len(P) /\ j <= Len(Q)) => a[j].fn = b[j].fn
             /\ a[j].sn = b[j].sn
<1>1. PICK m \in Nat, n \in Nat : m = Len(P) /\ n = Len(Q)
  BY LenProperties
<1>2. \A j \in Nat : j < m => a[j + 1] = Climb(a[j], P[j + 1]) /\ a[j].ok /\ a[j].sn # 0
  <2>1. \A j \in Nat : j <= Len(P) => a[j].ok /\ (j < Len(P) => a[j].sn # 0)
    BY VisitsOk
  <2> QED BY <1>1, <2>1 DEF Visits
<1>3. \A j \in Nat : j < n => b[j + 1] = Climb(b[j], Q[j + 1]) /\ b[j].ok
  <2>1. \A j \in Nat : j <= Len(Q) => b[j].ok /\ (j < Len(Q) => b[j].sn # 0)
    BY VisitsOk
  <2> QED BY <1>1, <2>1 DEF Visits
<1> DEFINE T == {j \in Nat : (j <= m /\ j <= n) => a[j].fn = b[j].fn /\ a[j].sn = b[j].sn}
<1>4. ASSUME NEW j \in Nat, \A k \in Nat : k < j => k \in T PROVE j \in T
  <2>1. CASE j = 0
    BY <2>1 DEF Visits
  <2>2. CASE j # 0
    <3> SUFFICES ASSUME j <= m, j <= n PROVE a[j].fn = b[j].fn /\ a[j].sn = b[j].sn
      OBVIOUS
    <3>1. PICK k \in Nat : j = k + 1
      <4>1. j - 1 \in Nat /\ j = (j - 1) + 1
        BY <2>2
      <4> QED BY <4>1
    <3>2. k < m /\ k < n /\ k < j /\ k <= m /\ k <= n
      BY <3>1
    <3>3. a[k].fn = b[k].fn /\ a[k].sn = b[k].sn
      BY <1>4, <3>2
    <3>4. /\ a[j] = Climb(a[k], P[j]) /\ a[k].ok /\ a[k].sn # 0
          /\ b[j] = Climb(b[k], Q[j]) /\ b[k].ok
      BY <1>2, <1>3, <3>1, <3>2
    <3> QED BY <3>3, <3>4, ClimbPosition
  <2> QED BY <2>1, <2>2
<1>5. Nat \subseteq T
  <2> HIDE DEF T
  <2> QED BY <1>4, Induction
<1> QED BY <1>1, <1>5

\* Two loops from one position to one root go over the same proof and start from the
\* same hash.
LEMMA WalkUnique ==
    ASSUME NEW V, NEW P \in Seq(V), NEW Q \in Seq(V), NEW v, NEW w, IsState(v), IsState(w),
           v.fn = w.fn, v.sn = w.sn,
           Walk(v, P).ok, Walk(v, P).sn = 0, Walk(w, Q).ok, Walk(w, Q).sn = 0,
           Walk(v, P).sr = Walk(w, Q).sr
    PROVE  P = Q /\ v.sr = w.sr
<1>1. PICK m \in Nat, n \in Nat : m = Len(P) /\ n = Len(Q)
  BY LenProperties
<1>2. PICK a : Visits(a, v, P) /\ Walk(v, P) = a[m]
  BY <1>1, WalkVisits
<1>3. PICK b : Visits(b, w, Q) /\ Walk(w, Q) = b[n]
  BY <1>1, WalkVisits
<1>4. a[Len(P)].ok /\ b[Len(Q)].ok /\ a[m].sn = 0 /\ b[n].sn = 0 /\ a[m].sr = b[n].sr
  BY <1>1, <1>2, <1>3
<1>5. \A j \in Nat : (j <= m => a[j].ok) /\ (j < m => a[j].sn # 0)
  <2>1. \A j \in Nat : j <= Len(P) => a[j].ok /\ (j < Len(P) => a[j].sn # 0)
    BY <1>2, <1>4, VisitsOk
  <2> QED BY <1>1, <2>1
<1>6. \A j \in Nat : (j <= n => b[j].ok) /\ (j < n => b[j].sn # 0)
  <2>1. \A j \in Nat : j <= Len(Q) => b[j].ok /\ (j < Len(Q) => b[j].sn # 0)
    BY <1>3, <1>4, VisitsOk
  <2> QED BY <1>1, <2>1
<1>7. \A j \in Nat : (j <= m /\ j <= n) => a[j].fn = b[j].fn /\ a[j].sn = b[j].sn
  BY <1>1, <1>2, <1>3, <1>4, VisitsTogether
<1>8. m = n
  <2>1. ~ (m < n)
    BY <1>4, <1>6, <1>7
  <2>2. ~ (n < m)
    BY <1>4, <1>5, <1>7
  <2> QED BY <2>1, <2>2
<1>9. ASSUME NEW j \in Nat, j < n, a[j + 1].sr = b[j + 1].sr
      PROVE  P[j + 1] = Q[j + 1] /\ a[j].sr = b[j].sr
  <2>1. a[j + 1] = Climb(a[j], P[j + 1]) /\ b[j + 1] = Climb(b[j], Q[j + 1])
    BY <1>1, <1>2, <1>3, <1>8, <1>9 DEF Visits
  <2>2. a[j].ok /\ b[j].ok /\ a[j].sn # 0 /\ a[j].fn = b[j].fn /\ a[j].sn = b[j].sn
    <3>1. j <= n
      BY <1>9
    <3> QED BY <1>5, <1>6, <1>7, <1>8, <1>9, <3>1
  <2> QED BY <1>9, <2>1, <2>2, ClimbInjective
<1>10. \A j \in Nat : j <= n => a[j].sr = b[j].sr
  <2> DEFINE T == {x \in Nat : \A j \in Nat : j + x = n => a[j].sr = b[j].sr}
  <2>1. ASSUME NEW x \in Nat, \A k \in Nat : k < x => k \in T PROVE x \in T
    <3> SUFFICES ASSUME NEW j \in Nat, j + x = n PROVE a[j].sr = b[j].sr
      OBVIOUS
    <3>1. CASE x = 0
      <4>1. j = n
        BY <3>1
      <4> QED BY <1>4, <1>8, <4>1
    <3>2. CASE x # 0
      <4>1. x - 1 \in Nat /\ x - 1 < x /\ (j + 1) + (x - 1) = n /\ j + 1 \in Nat /\ j < n
        BY <3>2
      <4>2. x - 1 \in T
        <5> HIDE DEF T
        <5> QED BY <2>1, <4>1
      <4>3. a[j + 1].sr = b[j + 1].sr
        BY <4>1, <4>2
      <4> QED BY <1>9, <4>1, <4>3
    <3> QED BY <3>1, <3>2
  <2>2. Nat \subseteq T
    <3> HIDE DEF T
    <3> QED BY <2>1, Induction
  <2> SUFFICES ASSUME NEW j \in Nat, j <= n PROVE a[j].sr = b[j].sr
    OBVIOUS
  <2>3. n - j \in Nat /\ j + (n - j) = n
    OBVIOUS
  <2>4. n - j \in T
    BY <2>2, <2>3
  <2> QED BY <2>3, <2>4
<1>11. v.sr = w.sr
  <2>1. a[0] = v /\ b[0] = w
    BY <1>2, <1>3 DEF Visits
  <2> QED BY <1>10, <2>1
<1>12. ASSUME NEW i \in 1..n PROVE P[i] = Q[i]
  <2>1. PICK j \in Nat : i = j + 1 /\ j < n /\ j + 1 <= n
    <3>1. i - 1 \in Nat /\ i = (i - 1) + 1 /\ i - 1 < n
      OBVIOUS
    <3> QED BY <3>1
  <2>2. a[j + 1].sr = b[j + 1].sr
    BY <1>10, <2>1
  <2> QED BY <1>9, <2>1, <2>2
<1>13. P = Q
  BY <1>1, <1>8, <1>12, SeqEqual
<1> QED BY <1>11, <1>13

\* VerifyInclusion: no proof places a leaf where the log holds another one.
THEOREM InclusionSound ==
    ASSUME NEW s \in Seq(Leaf), NEW i \in 0..Len(s) - 1, NEW leaf,
           NEW V, NEW proof \in Seq(V),
           VerifyInclusion(leaf, i, Len(s), proof, TreeHash[s])
    PROVE  leaf = s[i + 1] /\ proof = InclusionPath(i, s)
<1> DEFINE v == LeafStart(s[i + 1], i, Len(s))
           w == LeafStart(leaf, i, Len(s))
<1>1. PICK f : Walk(v, InclusionPath(i, s)) = State(0, 0, f, TreeHash[s])
  BY InclusionWalk
<1>2. Walk(w, proof).ok /\ Walk(w, proof).sn = 0 /\ Walk(w, proof).sr = TreeHash[s]
  BY DEF VerifyInclusion
<1>3. PICK W : proof \in Seq(W) /\ InclusionPath(i, s) \in Seq(W)
  <2>1. InclusionPath(i, s) \in Seq(TreeHashes)
    BY PathType DEF InclusionPath
  <2>2. proof \in Seq(V \cup TreeHashes) /\ InclusionPath(i, s) \in Seq(V \cup TreeHashes)
    BY <2>1, SeqDef
  <2> QED BY <2>2
<1>4. IsState(v) /\ IsState(w)
  BY DEF IsState, LeafStart
<1>5. v.fn = w.fn /\ v.sn = w.sn /\ v.sr = s[i + 1] /\ w.sr = leaf
  BY DEF LeafStart
<1> HIDE DEF v, w
<1>6. /\ Walk(v, InclusionPath(i, s)).ok /\ Walk(v, InclusionPath(i, s)).sn = 0
      /\ Walk(v, InclusionPath(i, s)).sr = TreeHash[s]
  BY <1>1 DEF State
<1>7. InclusionPath(i, s) = proof /\ v.sr = w.sr
  BY <1>2, <1>3, <1>4, <1>5, <1>6, WalkUnique
<1> QED BY <1>5, <1>7

----------------------------------------------------------------------------
\* Consistency paths, one level at a time.

\* The proof that all of s is a tree.
LEMMA SubWhole ==
    ASSUME NEW s \in Seq(Leaf), NEW full \in BOOLEAN, NEW m, m = Len(s), m > 0
    PROVE  SubProof[s][full][m] = IF full THEN <<>> ELSE <<TreeHash[s]>>
<1>1. m \in 1..Len(s)
  BY LenProperties
<1>2. SubProof[s] = SubBody(SubProof, s)
  BY SubProofDef
<1>3. SubBody(SubProof, s)[full][m] = IF full THEN <<>> ELSE <<TreeHash[s]>>
  BY <1>1 DEF SubBody
<1> QED BY <1>2, <1>3

\* The proof in a tree, from that in the part in which the earlier size falls.
LEMMA SubSplit ==
    ASSUME NEW s \in Seq(Leaf), NEW full \in BOOLEAN, NEW m \in 1..Len(s), m < Len(s)
    PROVE  LET k == LargestPowerOfTwoBelow(Len(s))
           IN SubProof[s][full][m] =
                IF m <= k THEN Append(SubProof[First(s, k)][full][m], TreeHash[Rest(s, k)])
                ELSE Append(SubProof[Rest(s, k)][FALSE][m - k], TreeHash[First(s, k)])
<1>1. m # Len(s)
  BY LenProperties
<1>2. SubProof[s] = SubBody(SubProof, s)
  BY SubProofDef
<1>3. PICK k : k = LargestPowerOfTwoBelow(Len(s))
  OBVIOUS
<1>4. SubBody(SubProof, s)[full][m] =
        IF m <= k THEN Append(SubProof[First(s, k)][full][m], TreeHash[Rest(s, k)])
        ELSE Append(SubProof[Rest(s, k)][FALSE][m - k], TreeHash[First(s, k)])
  BY <1>1, <1>3 DEF SubBody
<1> QED BY <1>2, <1>3, <1>4

\* Proofs are made of tree hashes.
LEMMA SubType ==
    \A s \in Seq(Leaf) : \A full \in BOOLEAN : \A m \in 1..Len(s) :
        SubProof[s][full][m] \in Seq(TreeHashes)
<1> DEFINE T == {n \in Nat : \A s \in Seq(Leaf) : Len(s) = n =>
                    \A full \in BOOLEAN : \A m \in 1..n :
                      SubProof[s][full][m] \in Seq(TreeHashes)}
<1>1. ASSUME NEW n \in Nat, \A m \in Nat : m < n => m \in T PROVE n \in T
  <2> SUFFICES ASSUME NEW s \in Seq(Leaf), Len(s) = n, NEW full \in BOOLEAN, NEW m \in 1..n
               PROVE  SubProof[s][full][m] \in Seq(TreeHashes)
    OBVIOUS
  <2>1. CASE m = n
    <3>1. TreeHash[s] \in TreeHashes
      BY DEF TreeHashes
    <3>2. <<>> \in Seq(TreeHashes) /\ <<TreeHash[s]>> \in Seq(TreeHashes)
      BY <3>1
    <3>3. SubProof[s][full][m] = IF full THEN <<>> ELSE <<TreeHash[s]>>
      BY <2>1, SubWhole
    <3> QED BY <3>2, <3>3
  <2>2. CASE m # n
    <3>1. PICK k, l, r : k = LargestPowerOfTwoBelow(n) /\ l = First(s, k) /\ r = Rest(s, k)
      OBVIOUS
    <3>2. n > 1 /\ m < n
      BY <2>2
    <3>3. /\ k \in Nat /\ 0 < k /\ k < n
          /\ l \in Seq(Leaf) /\ Len(l) = k /\ r \in Seq(Leaf) /\ Len(r) = n - k
          /\ TreeHash[l] \in TreeHashes /\ TreeHash[r] \in TreeHashes
      BY <3>1, <3>2, TreeSplit
    <3>4. SubProof[s][full][m] = IF m <= k THEN Append(SubProof[l][full][m], TreeHash[r])
                                 ELSE Append(SubProof[r][FALSE][m - k], TreeHash[l])
      BY <3>1, <3>2, SubSplit
    <3>5. CASE m <= k
      <4>1. k \in T /\ m \in 1..k
        BY <1>1, <3>3, <3>5
      <4>2. SubProof[l][full][m] \in Seq(TreeHashes)
        BY <3>3, <4>1
      <4> QED BY <3>3, <3>4, <3>5, <4>2
    <3>6. CASE ~ (m <= k)
      <4>1. n - k \in T
        <5>1. n - k \in Nat /\ n - k < n
          BY <3>3
        <5> HIDE DEF T
        <5> QED BY <1>1, <5>1
      <4>2. m - k \in 1..n - k
        BY <3>2, <3>3, <3>6
      <4>3. SubProof[r][FALSE][m - k] \in Seq(TreeHashes)
        BY <3>3, <4>1, <4>2
      <4>4. SubProof[s][full][m] = Append(SubProof[r][FALSE][m - k], TreeHash[l])
        BY <3>4, <3>6
      <4>5. Append(SubProof[r][FALSE][m - k], TreeHash[l]) \in Seq(TreeHashes)
        BY ONLY <3>3, <4>3, AppendProperties
      <4> QED BY ONLY <4>4, <4>5
    <3> QED BY <3>5, <3>6
  <2> QED BY <2>1, <2>2
<1>2. Nat \subseteq T
  <2> HIDE DEF T
  <2> QED BY <1>1, Induction
<1> QED BY <1>2, LenProperties

----------------------------------------------------------------------------
\* Prefixes of a tree.

\* A prefix of a prefix is a prefix of the log.
LEMMA FirstOfFirst ==
    ASSUME NEW s \in Seq(Leaf), NEW k \in Nat, k <= Len(s), NEW m \in Nat, 0 < m, m <= k
    PROVE  First(First(s, k), m) = First(s, m)
<1>1. k \in 1..Len(s) /\ m \in 1..Len(s)
  BY LenProperties
<1>2. First(s, k) \in Seq(Leaf) /\ Len(First(s, k)) = k
        /\ \A i \in 1..k : First(s, k)[i] = s[i]
  BY <1>1, Halves
<1>3. First(s, m) \in Seq(Leaf) /\ Len(First(s, m)) = m
        /\ \A i \in 1..m : First(s, m)[i] = s[i]
  BY <1>1, Halves
<1>4. PICK l \in Seq(Leaf) : l = First(s, k) /\ Len(l) = k /\ \A i \in 1..k : l[i] = s[i]
  BY <1>2
<1>5. /\ First(l, m) \in Seq(Leaf) /\ Len(First(l, m)) = m
      /\ \A i \in 1..m : First(l, m)[i] = l[i]
  <2>1. m \in 1..Len(l)
    BY <1>4
  <2> QED BY <2>1, Halves
<1>6. \A i \in 1..m : First(l, m)[i] = First(s, m)[i]
  BY <1>3, <1>4, <1>5
<1>7. First(l, m) = First(s, m)
  BY <1>3, <1>5, <1>6, SeqEqual
<1> QED BY <1>4, <1>7

\* The whole log is a prefix of itself.
LEMMA FirstOfAll == ASSUME NEW s \in Seq(Leaf) PROVE First(s, Len(s)) = s
BY SubSeqFull DEF First

\* A power of two k is where every tree of more than k and at most 2k leaves splits.
LEMMA SplitUnique ==
    ASSUME NEW k \in Nat, NEW j \in Nat, k = Pow2[j], NEW m \in Nat, k < m, m <= 2 * k
    PROVE  LargestPowerOfTwoBelow(m) = k
<1>1. PICK e \in Nat, x \in Nat : /\ x = LargestPowerOfTwoBelow(m) /\ x = Pow2[e]
                                  /\ x < m /\ m <= 2 * x
  <2>1. m > 1
    <3>1. k # 0
      BY Pow2Type
    <3> QED BY <3>1
  <2>2. PICK x \in Nat : /\ x = LargestPowerOfTwoBelow(m) /\ x < m /\ m <= 2 * x
                         /\ \E e \in Nat : x = Pow2[e]
    BY <2>1, SplitOf
  <2> QED BY <2>2
<1>2. ~ (e < j)
  <2> SUFFICES ASSUME e < j PROVE FALSE
    OBVIOUS
  <2>1. 2 * x <= k
    BY <1>1, Pow2Grows
  <2> QED BY <1>1, <2>1
<1>3. ~ (j < e)
  <2> SUFFICES ASSUME j < e PROVE FALSE
    OBVIOUS
  <2>1. 2 * k <= x
    BY <1>1, Pow2Grows
  <2> QED BY <1>1, <2>1
<1>4. e = j
  BY <1>2, <1>3
<1> QED BY <1>1, <1>4

\* A prefix longer than the left part has that part as its own left part.
LEMMA PrefixSplit ==
    ASSUME NEW s \in Seq(Leaf), Len(s) > 1, NEW k, k = LargestPowerOfTwoBelow(Len(s)),
           NEW m \in Nat, k < m, m <= Len(s)
    PROVE  TreeHash[First(s, m)]
             = NodeHash(TreeHash[First(s, k)], TreeHash[First(Rest(s, k), m - k)])
<1>1. PICK n \in Nat : n = Len(s)
  BY LenProperties
<1>2. k \in Nat /\ 0 < k /\ k < n /\ n <= 2 * k /\ \E j \in Nat : k = Pow2[j]
  <2>1. n > 1 /\ k = LargestPowerOfTwoBelow(n)
    BY <1>1
  <2>2. /\ LargestPowerOfTwoBelow(n) \in 1..n - 1 /\ n <= 2 * LargestPowerOfTwoBelow(n)
        /\ \E d \in Nat : LargestPowerOfTwoBelow(n) = Pow2[d]
    BY <2>1, SplitOf
  <2> QED BY <2>1, <2>2
<1>3. LargestPowerOfTwoBelow(m) = k
  <2>1. m <= 2 * k
    BY <1>1, <1>2
  <2> QED BY <1>2, <2>1, SplitUnique
<1>4. PICK t \in Seq(Leaf) : t = First(s, m) /\ Len(t) = m /\ \A i \in 1..m : t[i] = s[i]
  <2>1. m \in 1..Len(s)
    BY <1>2
  <2> QED BY <2>1, Halves
<1>5. TreeHash[t] = NodeHash(TreeHash[First(t, k)], TreeHash[Rest(t, k)])
  <2>1. Len(t) > 1 /\ k = LargestPowerOfTwoBelow(Len(t))
    BY <1>2, <1>3, <1>4
  <2> QED BY <2>1, TreeSplit
<1>6. First(t, k) = First(s, k)
  BY <1>1, <1>2, <1>4, FirstOfFirst
<1>7. Rest(t, k) = First(Rest(s, k), m - k)
  <2>1. k \in 1..Len(t) /\ k \in 1..Len(s)
    BY <1>1, <1>2, <1>4
  <2>0. Len(t) - k = m - k /\ Len(s) - k = n - k
    BY <1>1, <1>4
  <2>2. /\ Rest(t, k) \in Seq(Leaf) /\ Len(Rest(t, k)) = m - k
        /\ \A i \in 1..m - k : Rest(t, k)[i] = t[k + i]
    BY <2>0, <2>1, Halves
  <2>3. PICK r \in Seq(Leaf) : r = Rest(s, k) /\ Len(r) = n - k
               /\ \A i \in 1..n - k : r[i] = s[k + i]
    <3>1. /\ Rest(s, k) \in Seq(Leaf) /\ Len(Rest(s, k)) = Len(s) - k
          /\ \A i \in 1..Len(s) - k : Rest(s, k)[i] = s[k + i]
      BY <2>1, Halves
    <3> QED BY <2>0, <3>1
  <2>4. PICK x \in Nat : x = m - k /\ x \in 1..n - k
    BY <1>1, <1>2
  <2>5. /\ First(r, x) \in Seq(Leaf) /\ Len(First(r, x)) = x
        /\ \A i \in 1..x : First(r, x)[i] = r[i]
    <3>1. x \in 1..Len(r)
      BY <2>3, <2>4
    <3> QED BY <3>1, Halves
  <2>6. ASSUME NEW i \in 1..x PROVE Rest(t, k)[i] = First(r, x)[i]
    <3>1. i \in Nat /\ 0 < i /\ i <= m - k /\ m <= n
      BY <1>1, <2>4
    <3>2. i \in 1..m - k
      BY <1>2, <3>1
    <3>3. i \in 1..n - k
      BY <1>2, <3>1
    <3>4. k + i \in 1..m
      BY <1>2, <3>1
    <3> QED BY <1>4, <2>2, <2>3, <2>5, <3>2, <3>3, <3>4
  <2>7. Rest(t, k) = First(r, x)
    BY <2>2, <2>4, <2>5, <2>6, SeqEqual
  <2> QED BY <2>3, <2>4, <2>7
<1> QED BY <1>4, <1>5, <1>6, <1>7

----------------------------------------------------------------------------
\* The code's consistency paths are accepted.

\* With the proof P, the loop that starts below the position fn of a tree whose last
\* position is M reaches w; R is the first root it was given.
Reaches(P, fn, M, R, w) ==
    LET at == SkipRight[fn][M]
    IN /\ at[1] # 0 => P # <<>>
       /\ Walk(EdgeStart(at, P, R), EdgeProof(at, P)) = w

\* One more proof element takes the loop one step further.
LEMMA ReachesAppend ==
    ASSUME NEW V, NEW P \in Seq(V), NEW p \in V, NEW fn, NEW M, NEW R, NEW w,
           Reaches(P, fn, M, R, w)
    PROVE  Reaches(Append(P, p), fn, M, R, Climb(w, p))
<1>1. PICK at : at = SkipRight[fn][M]
  OBVIOUS
<1>2. (at[1] # 0 => P # <<>>) /\ Walk(EdgeStart(at, P, R), EdgeProof(at, P)) = w
  BY <1>1 DEF Reaches
<1>3. PICK Q : Q = Append(P, p)
  OBVIOUS
<1>4. Q \in Seq(V) /\ Q # <<>>
  BY <1>3, AppendProperties
<1>5. EdgeProof(at, P) \in Seq(V) /\ EdgeProof(at, Q) = Append(EdgeProof(at, P), p)
  <2>1. CASE at[1] # 0
    <3>1. Tail(P) \in Seq(V) /\ Tail(Q) = Append(Tail(P), p)
      BY <1>2, <1>3, <2>1
    <3> QED BY <2>1, <3>1 DEF EdgeProof
  <2>2. CASE ~ (at[1] # 0)
    BY <1>3, <2>2 DEF EdgeProof
  <2> QED BY <2>1, <2>2
<1>6. EdgeStart(at, Q, R) = EdgeStart(at, P, R)
  <2>1. CASE at[1] # 0
    <3>1. Q[1] = P[1]
      BY <1>2, <1>3, <2>1
    <3> QED BY <3>1 DEF EdgeStart
  <2>2. CASE ~ (at[1] # 0)
    BY <2>2 DEF EdgeStart
  <2> QED BY <2>1, <2>2
<1>7. Walk(EdgeStart(at, Q, R), EdgeProof(at, Q)) = Climb(w, p)
  BY <1>2, <1>5, <1>6, WalkAppend
<1> QED BY <1>1, <1>3, <1>4, <1>7 DEF Reaches

\* From the last position of a left-hand subtree.
LEMMA ReachesWhole ==
    ASSUME NEW s \in Seq(Leaf), NEW full \in BOOLEAN, NEW m, m = Len(s), m > 0,
           NEW c \in Nat, c % 2 = 0, full <=> (c = 0), NEW q \in Nat, NEW d \in Nat,
             m = Pow2[d],
           NEW M \in Nat, InBlock(M, q, d), NEW R, c = 0 => R = TreeHash[s],
           NEW fn, fn = c * Pow2[d] + (m - 1)
    PROVE  Reaches(SubProof[s][full][m], fn, M, R, State(c, q, TreeHash[s], TreeHash[s]))
<1>1. SkipRight[fn][M] = <<c, q>>
  <2>1. SkipRight[c * Pow2[d] + Pow2[d] - 1][M] = <<c, q>>
    BY ONLY c \in Nat, c % 2 = 0, q \in Nat, d \in Nat, M \in Nat, InBlock(M, q, d),
              SkipRightUp
  <2>2. c * Pow2[d] + Pow2[d] - 1 = fn
    <3>1. PICK x \in Nat, y \in Nat : x = Pow2[d] /\ y = c * Pow2[d]
      BY Pow2Type
    <3> QED BY <3>1
  <2> QED BY <2>1, <2>2
<1>2. PICK P, at : P = SubProof[s][full][m] /\ at = SkipRight[fn][M] /\ at[1] = c /\ at[2] = q
  <2>1. SkipRight[fn][M][1] = c /\ SkipRight[fn][M][2] = q
    BY <1>1
  <2> QED BY <2>1
<1>3. P = IF full THEN <<>> ELSE <<TreeHash[s]>>
  BY <1>2, SubWhole
<1>4. EdgeStart(at, P, R) = State(c, q, TreeHash[s], TreeHash[s]) /\ EdgeProof(at, P) = <<>>
  <2>1. CASE c = 0
    BY <1>2, <1>3, <2>1 DEF EdgeStart, EdgeProof, State
  <2>2. CASE c # 0
    <3>1. P = <<TreeHash[s]>>
      BY <1>3, <2>2
    <3>2. P[1] = TreeHash[s] /\ Tail(P) = <<>>
      BY <3>1
    <3> QED BY <1>2, <2>2, <3>2 DEF EdgeStart, EdgeProof, State
  <2> QED BY <2>1, <2>2
<1>5. at[1] # 0 => P # <<>>
  BY <1>2, <1>3
<1>6. Walk(EdgeStart(at, P, R), EdgeProof(at, P)) = State(c, q, TreeHash[s], TreeHash[s])
  BY <1>4, WalkEmpty
<1> QED BY <1>2, <1>5, <1>6 DEF Reaches

\* The first m leaves of a complete subtree s of 2^d leaves, which is the c-th of its
\* level and not at the right edge of the whole tree; where it is the first one,
\* the loop is given the root of those leaves.
Inside(d, s, m, c, q, M, full, R) ==
    /\ c < q /\ InBlock(M, q, d)
    /\ m < Len(s) \/ c % 2 = 0
    /\ full <=> c = 0
    /\ c = 0 => R = TreeHash[First(s, m)]

\* With the proof for those leaves, the loop goes to the subtree's root.
ReachesInside(d, s, m) ==
    \A c, q, M \in Nat : \A full \in BOOLEAN : \A R :
        Inside(d, s, m, c, q, M, full, R) =>
            Reaches(SubProof[s][full][m], c * Pow2[d] + (m - 1), M, R,
                    State(c, q, TreeHash[First(s, m)], TreeHash[s]))

\* All of a complete subtree.
LEMMA InsideWhole ==
    ASSUME NEW s \in Seq(Leaf), NEW d \in Nat, Len(s) = Pow2[d]
    PROVE  ReachesInside(d, s, Len(s))
<1>1. PICK m \in Nat : m = Len(s) /\ m > 0 /\ m = Pow2[d]
  BY Pow2Type
<1> SUFFICES ASSUME NEW c \in Nat, NEW q \in Nat, NEW M \in Nat, NEW full \in BOOLEAN, NEW R,
                    Inside(d, s, m, c, q, M, full, R)
             PROVE  Reaches(SubProof[s][full][m], c * Pow2[d] + (m - 1), M, R,
                            State(c, q, TreeHash[First(s, m)], TreeHash[s]))
  BY <1>1, Zenon DEF ReachesInside
<1>2. First(s, m) = s
  BY <1>1, FirstOfAll
<1>3. /\ InBlock(M, q, d) /\ c % 2 = 0
      /\ (full <=> (c = 0)) /\ (c = 0 => R = TreeHash[s])
  BY <1>1, <1>2 DEF Inside
<1>4. PICK fn : fn = c * Pow2[d] + (m - 1)
  OBVIOUS
<1>5. Reaches(SubProof[s][full][m], fn, M, R, State(c, q, TreeHash[s], TreeHash[s]))
  BY <1>1, <1>3, <1>4, ReachesWhole
<1> QED BY <1>2, <1>4, <1>5

\* An earlier size in the left half of a complete subtree.
LEMMA InsideEarlier ==
    ASSUME NEW s \in Seq(Leaf), NEW e \in Nat, Len(s) = Pow2[e + 1],
           NEW m \in 1..Pow2[e], ReachesInside(e, First(s, Pow2[e]), m)
    PROVE  ReachesInside(e + 1, s, m)
<1>1. PICK k, l, r : k \in Nat /\ k = Pow2[e] /\ l = First(s, k) /\ r = Rest(s, k) /\ k # 0
  BY Pow2Type
<1> k \in Nat
  BY <1>1
<1>2. /\ l \in Seq(Leaf) /\ Len(l) = k
      /\ TreeHash[s] = NodeHash(TreeHash[l], TreeHash[r])
      /\ TreeHash[r] \in TreeHashes
      /\ k = LargestPowerOfTwoBelow(Len(s))
  BY <1>1, CompleteSplit
<1>3. Len(s) = 2 * k /\ m \in Nat /\ 0 < m /\ m <= k /\ k <= Len(s) /\ m < Len(s)
        /\ m \in 1..Len(s)
  <2>1. Len(s) = 2 * k
    BY <1>1, Pow2Step
  <2> QED BY <1>1, <2>1
<1>4. First(l, m) = First(s, m)
  BY <1>1, <1>3, FirstOfFirst
<1> SUFFICES ASSUME NEW c \in Nat, NEW q \in Nat, NEW M \in Nat, NEW full \in BOOLEAN, NEW R,
                    Inside(e + 1, s, m, c, q, M, full, R)
             PROVE  Reaches(SubProof[s][full][m], c * Pow2[e + 1] + (m - 1), M, R,
                            State(c, q, TreeHash[First(s, m)], TreeHash[s]))
  BY Zenon DEF ReachesInside
<1>5. c < q /\ InBlock(M, q, e + 1) /\ (full <=> c = 0)
        /\ (c = 0 => R = TreeHash[First(s, m)])
  BY DEF Inside
<1>6. PICK h \in Nat : (h = 2 * q \/ h = 2 * q + 1) /\ InBlock(M, h, e) /\ h \div 2 = q
  BY <1>5, HalfBlock
<1>7. PICK g \in Nat : g = 2 * c
  OBVIOUS
<1>8. g < h /\ g % 2 = 0 /\ g \div 2 = c /\ (c = 0 <=> g = 0)
  <2>1. c + 1 <= q
    BY <1>5
  <2> QED BY <1>6, <1>7, <2>1
<1>9. Inside(e, l, m, g, h, M, full, R)
  BY <1>4, <1>5, <1>6, <1>8 DEF Inside
<1>10. ReachesInside(e, l, m)
  BY <1>1
<1>11. Reaches(SubProof[l][full][m], g * Pow2[e] + (m - 1), M, R,
               State(g, h, TreeHash[First(l, m)], TreeHash[l]))
  BY ONLY <1>9, <1>10, g \in Nat, h \in Nat, M \in Nat, full \in BOOLEAN,
            Zenon DEF ReachesInside
<1>12. PICK p \in TreeHashes : p = TreeHash[r]
  BY <1>2
<1>13. PICK P, a, f, fn :
         /\ P = SubProof[l][full][m]
         /\ a = TreeHash[l] /\ f = TreeHash[First(s, m)] /\ fn = c * Pow2[e + 1] + (m - 1)
  OBVIOUS
<1>14. P \in Seq(TreeHashes)
  <2>1. m \in 1..Len(l)
    BY <1>2, <1>3
  <2> QED BY <1>2, <1>13, <2>1, SubType
<1>15. Reaches(P, fn, M, R, State(g, h, f, a))
  <2>1. g * Pow2[e] = c * Pow2[e + 1]
    BY <1>7, Positions
  <2> QED BY <1>4, <1>11, <1>13, <2>1
<1>16. Reaches(Append(P, p), fn, M, R, Climb(State(g, h, f, a), p))
  BY ONLY <1>14, <1>15, p \in TreeHashes, ReachesAppend
<1>17. Climb(State(g, h, f, a), p) = State(c, q, f, NodeHash(a, p))
  <2>1. Climb(State(g, h, f, a), p) = State(g \div 2, h \div 2, f, NodeHash(a, p))
    BY <1>8, ClimbFromLeft
  <2> QED BY <1>6, <1>8, <2>1
<1>18. SubProof[s][full][m] = Append(P, p)
  <2>1. SubProof[s][full][m] =
           IF m <= k THEN Append(SubProof[l][full][m], TreeHash[r])
           ELSE Append(SubProof[r][FALSE][m - k], TreeHash[l])
    BY <1>1, <1>2, <1>3, SubSplit
  <2> QED BY <1>12, <1>3, <1>13, <2>1
<1> QED BY <1>12, <1>2, <1>13, <1>16, <1>17, <1>18

\* An earlier size in the right half of a complete subtree.
LEMMA InsideLater ==
    ASSUME NEW s \in Seq(Leaf), NEW e \in Nat, Len(s) = Pow2[e + 1],
           NEW t \in 1..Pow2[e] - 1, ReachesInside(e, Rest(s, Pow2[e]), t)
    PROVE  ReachesInside(e + 1, s, Pow2[e] + t)
<1>1. PICK k, l, r : k \in Nat /\ k = Pow2[e] /\ l = First(s, k) /\ r = Rest(s, k) /\ k # 0
  BY Pow2Type
<1> k \in Nat
  BY <1>1
<1>2. /\ r \in Seq(Leaf) /\ Len(r) = k
      /\ TreeHash[s] = NodeHash(TreeHash[l], TreeHash[r])
      /\ TreeHash[l] \in TreeHashes
      /\ k = LargestPowerOfTwoBelow(Len(s)) /\ Len(s) > 1
  BY <1>1, CompleteSplit
<1>3. PICK m \in Nat : m = k + t
  BY <1>1
<1>4. /\ Len(s) = 2 * k /\ m < Len(s) /\ m <= Len(s) /\ m \in 1..Len(s) /\ ~ (m <= k) /\ k < m
      /\ m - k = t /\ t < k /\ t \in Nat /\ t \in 1..k
  <2>1. Len(s) = 2 * k
    BY <1>1, Pow2Step
  <2>2. t \in Nat /\ 0 < t /\ t < k
    BY <1>1
  <2> QED BY <1>1, <1>3, <2>1, <2>2
<1>5. TreeHash[First(s, m)] = NodeHash(TreeHash[l], TreeHash[First(r, t)])
  BY <1>1, <1>2, <1>4, PrefixSplit
<1> SUFFICES ReachesInside(e + 1, s, m)
  BY <1>1, <1>3
<1> SUFFICES ASSUME NEW c \in Nat, NEW q \in Nat, NEW M \in Nat, NEW full \in BOOLEAN, NEW R,
                    Inside(e + 1, s, m, c, q, M, full, R)
             PROVE  Reaches(SubProof[s][full][m], c * Pow2[e + 1] + (m - 1), M, R,
                            State(c, q, TreeHash[First(s, m)], TreeHash[s]))
  BY Zenon DEF ReachesInside
<1>6. c < q /\ InBlock(M, q, e + 1)
  BY DEF Inside
<1>7. PICK h \in Nat : (h = 2 * q \/ h = 2 * q + 1) /\ InBlock(M, h, e) /\ h \div 2 = q
  BY <1>6, HalfBlock
<1>8. PICK g \in Nat : g = 2 * c + 1
  OBVIOUS
<1>9. g < h /\ g % 2 = 1 /\ g \div 2 = c /\ g # 0 /\ h # 0
  <2>1. c + 1 <= q
    BY <1>6
  <2> QED BY <1>7, <1>8, <2>1
<1>10. Inside(e, r, t, g, h, M, FALSE, R)
  BY <1>2, <1>4, <1>7, <1>9 DEF Inside
<1>11. ReachesInside(e, r, t)
  BY <1>1
<1>12. Reaches(SubProof[r][FALSE][t], g * Pow2[e] + (t - 1), M, R,
               State(g, h, TreeHash[First(r, t)], TreeHash[r]))
  <2>1. FALSE \in BOOLEAN
    OBVIOUS
  <2> QED BY ONLY <1>10, <1>11, g \in Nat, h \in Nat, M \in Nat, <2>1, Zenon DEF ReachesInside
<1>13. PICK p \in TreeHashes : p = TreeHash[l]
  BY <1>2
<1>14. PICK P, a, f, fn :
         /\ P = SubProof[r][FALSE][t]
         /\ a = TreeHash[r] /\ f = TreeHash[First(r, t)] /\ fn = c * Pow2[e + 1] + (m - 1)
  OBVIOUS
<1>15. P \in Seq(TreeHashes)
  <2>1. t \in 1..Len(r)
    BY <1>2, <1>4
  <2> QED BY <1>2, <1>14, <2>1, SubType
<1>16. g * Pow2[e] + (t - 1) = fn
  <2>1. PICK y \in Nat : y = c * Pow2[e + 1]
    BY Positions
  <2>2. g * Pow2[e] = y + k
    BY <1>1, <1>8, <2>1, Positions
  <2>3. (y + k) + (t - 1) = y + (m - 1)
    BY <1>3, <1>4
  <2> QED BY <1>14, <2>1, <2>2, <2>3
<1>17. Reaches(P, fn, M, R, State(g, h, f, a))
  BY <1>12, <1>14, <1>16
<1>18. Reaches(Append(P, p), fn, M, R, Climb(State(g, h, f, a), p))
  BY ONLY <1>15, <1>17, p \in TreeHashes, ReachesAppend
<1>19. Climb(State(g, h, f, a), p) = State(c, q, NodeHash(p, f), NodeHash(p, a))
  <2>1. Climb(State(g, h, f, a), p)
          = State(g \div 2, h \div 2, NodeHash(p, f), NodeHash(p, a))
    BY <1>9, ClimbFromRight
  <2> QED BY <1>7, <1>9, <2>1
<1>20. SubProof[s][full][m] = Append(P, p)
  <2>1. SubProof[s][full][m] =
           IF m <= k THEN Append(SubProof[l][full][m], TreeHash[r])
           ELSE Append(SubProof[r][FALSE][m - k], TreeHash[l])
    BY <1>1, <1>2, <1>4, SubSplit
  <2> QED BY <1>13, <1>4, <1>14, <2>1
<1> QED BY <1>13, <1>2, <1>5, <1>14, <1>18, <1>19, <1>20

\* Every earlier size in every complete subtree.
LEMMA InsideProof ==
    \A d \in Nat : \A s \in Seq(Leaf) : Len(s) = Pow2[d] =>
        \A m \in 1..Len(s) : ReachesInside(d, s, m)
<1> DEFINE T == {d \in Nat : \A s \in Seq(Leaf) : Len(s) = Pow2[d] =>
                    \A m \in 1..Pow2[d] : ReachesInside(d, s, m)}
<1>1. ASSUME NEW d \in Nat, \A m \in Nat : m < d => m \in T PROVE d \in T
  <2> SUFFICES ASSUME NEW s \in Seq(Leaf), Len(s) = Pow2[d], NEW m \in 1..Pow2[d]
               PROVE  ReachesInside(d, s, m)
    OBVIOUS
  <2>1. CASE m = Pow2[d]
    BY <2>1, InsideWhole
  <2>2. CASE m # Pow2[d]
    <3>1. d # 0
      BY <2>2, Pow2Step
    <3>2. PICK e \in Nat : d = e + 1 /\ e \in T
      <4>1. d - 1 \in Nat /\ d - 1 < d /\ d = (d - 1) + 1
        BY <3>1
      <4> HIDE DEF T
      <4> QED BY <1>1, <4>1
    <3>3. PICK k \in Nat : k = Pow2[e] /\ Pow2[d] = 2 * k /\ k # 0
      BY <3>2, Pow2Type, Pow2Step
    <3>4. m \in Nat /\ 0 < m /\ m < 2 * k
      BY <2>2, <3>3
    <3>5. PICK l \in Seq(Leaf), r \in Seq(Leaf) :
             l = First(s, k) /\ r = Rest(s, k) /\ Len(l) = k /\ Len(r) = k
      <4>1. Len(s) = 2 * k
        BY <3>3
      <4>2. k \in 1..Len(s) /\ Len(s) - k = k
        <5>1. k # 0
          BY <3>3
        <5>2. k \in 1..2 * k /\ (2 * k) - k = k
          BY ONLY k \in Nat, <5>1
        <5> QED BY ONLY <4>1, <5>2
      <4>3. /\ First(s, k) \in Seq(Leaf) /\ Len(First(s, k)) = k
            /\ Rest(s, k) \in Seq(Leaf) /\ Len(Rest(s, k)) = k
        BY <4>2, Halves
      <4> HIDE DEF T
      <4> QED BY <4>3
    <3>6. \A u \in Seq(Leaf) : Len(u) = k => \A x \in 1..k : ReachesInside(e, u, x)
      BY <3>2, <3>3
    <3>7. CASE m <= k
      <4>1. m \in 1..k
        BY <3>4, <3>7
      <4>2. ReachesInside(e, l, m)
        BY <3>5, <3>6, <4>1
      <4>3. m \in 1..Pow2[e] /\ Len(s) = Pow2[e + 1] /\ ReachesInside(e, First(s, Pow2[e]), m)
        BY <3>2, <3>3, <3>5, <4>1, <4>2
      <4> HIDE DEF T
      <4> QED BY <3>2, <4>3, InsideEarlier
    <3>8. CASE ~ (m <= k)
      <4>1. PICK t \in Nat : t = m - k /\ m = k + t /\ t \in 1..k - 1 /\ t \in 1..k
        <5>1. m - k \in Nat /\ 0 < m - k /\ m - k < k
          BY <3>4, <3>8
        <5> QED BY <5>1
      <4>2. ReachesInside(e, r, t)
        BY <3>5, <3>6, <4>1
      <4>3. t \in 1..Pow2[e] - 1 /\ Len(s) = Pow2[e + 1]
              /\ ReachesInside(e, Rest(s, Pow2[e]), t)
        BY <3>2, <3>3, <3>5, <4>1, <4>2
      <4>4. ReachesInside(e + 1, s, Pow2[e] + t)
        BY ONLY s \in Seq(Leaf), e \in Nat, <4>3, InsideLater
      <4> QED BY <3>2, <3>3, <4>1, <4>4
    <3> QED BY <3>7, <3>8
  <2> QED BY <2>1, <2>2
<1>2. Nat \subseteq T
  <2> HIDE DEF T
  <2> QED BY <1>1, Induction
<1> QED BY <1>2

\* The same at the right edge of the whole tree.
AtEdge(s, m, c, full, R) ==
    /\ m < Len(s)
    /\ full <=> c = 0
    /\ c = 0 => R = TreeHash[First(s, m)]

\* With the proof for those leaves, the loop goes to the subtree's root, or to that of
\* subtrees without a sibling that contain it.
ReachesEdge(d, s, m) ==
    \A c \in Nat : \A full \in BOOLEAN : \A R :
        AtEdge(s, m, c, full, R) =>
            \E e \in Nat :
                Reaches(SubProof[s][full][m], c * Pow2[d] + (m - 1),
                  c * Pow2[d] + (Len(s) - 1), R,
                        State(c * Pow2[e], c * Pow2[e], TreeHash[First(s, m)], TreeHash[s]))

\* The same for a subtree of k positions.
ReachesEdgeAt(k, s, m) == \A d \in Nat : k = Pow2[d] => ReachesEdge(d, s, m)

\* An earlier size in the left part of a subtree at the right edge.
LEMMA EdgeEarlier ==
    ASSUME NEW s \in Seq(Leaf), Len(s) > 1, NEW d \in Nat, Len(s) <= Pow2[d],
           NEW m \in 1..LargestPowerOfTwoBelow(Len(s))
    PROVE  ReachesEdge(d, s, m)
<1>1. PICK n, k, l, r : /\ n \in Nat
                        /\ n = Len(s) /\ k = LargestPowerOfTwoBelow(n)
                        /\ l = First(s, k) /\ r = Rest(s, k)
  BY LenProperties
<1> n \in Nat
  BY <1>1
<1>2. /\ k \in Nat /\ 0 < k /\ k < n
      /\ l \in Seq(Leaf) /\ Len(l) = k
      /\ TreeHash[s] = NodeHash(TreeHash[l], TreeHash[r])
      /\ TreeHash[r] \in TreeHashes
  BY <1>1, TreeSplit
<1>3. m \in Nat /\ 0 < m /\ m <= k /\ k <= Len(s) /\ m < Len(s) /\ m \in 1..Len(s)
        /\ m \in 1..Len(l)
  <2>1. m \in Nat /\ 0 < m /\ m <= k
    BY <1>1, <1>2
  <2> QED BY <1>1, <1>2, <2>1
<1>4. First(l, m) = First(s, m)
  BY <1>1, <1>2, <1>3, FirstOfFirst
<1> SUFFICES ASSUME NEW c \in Nat, NEW full \in BOOLEAN, NEW R, AtEdge(s, m, c, full, R)
             PROVE  \E e \in Nat :
                      Reaches(SubProof[s][full][m], c * Pow2[d] + (m - 1),
                        c * Pow2[d] + (Len(s) - 1),
                              R, State(c * Pow2[e], c * Pow2[e], TreeHash[First(s, m)],
                                TreeHash[s]))
  BY Zenon DEF ReachesEdge
<1>5. (full <=> c = 0) /\ (c = 0 => R = TreeHash[First(s, m)])
  BY DEF AtEdge
<1>6. PICK j \in Nat, g \in Nat, b \in Nat, x \in Nat : EdgeSplits(n, d, c, x, j, g, b)
  BY <1>1, EdgeSplit
<1>7. /\ k = Pow2[j]
      /\ b = c * Pow2[g] /\ c * Pow2[d] = (2 * b) * Pow2[j]
      /\ InBlock(c * Pow2[d] + (n - 1), 2 * b + 1, j)
  BY <1>1, <1>6 DEF EdgeSplits
<1>8. PICK x1 \in Nat, y \in Nat : x1 = 2 * b /\ y = 2 * b + 1
  OBVIOUS
<1>9. x1 < y /\ x1 % 2 = 0 /\ x1 \div 2 = b /\ y \div 2 = b /\ (b = 0 <=> x1 = 0)
  BY <1>8
<1>10. c = 0 <=> b = 0
  <2>1. PICK z \in Nat \ {0} : z = Pow2[g]
    BY Pow2Type
  <2>2. b = c * z
    BY <1>7, <2>1
  <2>3. c = 0 <=> c * z = 0
    BY ONLY c \in Nat, z \in Nat \ {0}
  <2> QED BY <2>2, <2>3
<1>11. PICK M \in Nat : M = c * Pow2[d] + (Len(s) - 1) /\ M = c * Pow2[d] + (n - 1)
  <2>1. PICK z \in Nat : z = c * Pow2[d]
    BY Pow2Type
  <2>2. z + (n - 1) \in Nat
    BY <1>1, <1>2
  <2> QED BY <1>1, <2>1, <2>2
<1>12. InBlock(M, y, j)
  BY <1>7, <1>8, <1>11
<1>13. Inside(j, l, m, x1, y, M, full, R)
  BY <1>4, <1>5, <1>9, <1>10, <1>12 DEF Inside
<1>14. ReachesInside(j, l, m)
  <2>1. Len(l) = Pow2[j]
    BY <1>2, <1>7
  <2> QED BY <1>2, <1>3, <2>1, InsideProof
<1>15. Reaches(SubProof[l][full][m], x1 * Pow2[j] + (m - 1), M, R,
               State(x1, y, TreeHash[First(l, m)], TreeHash[l]))
  BY ONLY <1>13, <1>14, x1 \in Nat, y \in Nat, M \in Nat, full \in BOOLEAN,
            Zenon DEF ReachesInside
<1>16. PICK p \in TreeHashes : p = TreeHash[r]
  BY <1>2
<1>17. PICK P, a, f, fn :
         /\ P = SubProof[l][full][m]
         /\ a = TreeHash[l] /\ f = TreeHash[First(s, m)] /\ fn = c * Pow2[d] + (m - 1)
  OBVIOUS
<1>18. P \in Seq(TreeHashes)
  BY <1>2, <1>3, <1>17, SubType
<1>19. Reaches(P, fn, M, R, State(x1, y, f, a))
  <2>1. x1 * Pow2[j] = c * Pow2[d]
    BY <1>7, <1>8
  <2> QED BY <1>4, <1>15, <1>17, <2>1
<1>20. Reaches(Append(P, p), fn, M, R, Climb(State(x1, y, f, a), p))
  BY ONLY <1>18, <1>19, p \in TreeHashes, ReachesAppend
<1>21. Climb(State(x1, y, f, a), p) = State(b, b, f, NodeHash(a, p))
  <2>1. Climb(State(x1, y, f, a), p) = State(x1 \div 2, y \div 2, f, NodeHash(a, p))
    BY <1>9, ClimbFromLeft
  <2> QED BY <1>9, <2>1
<1>22. SubProof[s][full][m] = Append(P, p)
  <2>1. SubProof[s][full][m] =
           IF m <= k THEN Append(SubProof[l][full][m], TreeHash[r])
           ELSE Append(SubProof[r][FALSE][m - k], TreeHash[l])
    BY <1>1, <1>3, SubSplit
  <2> QED BY <1>3, <1>16, <1>17, <2>1
<1>23. Reaches(SubProof[s][full][m], fn, M, R,
               State(c * Pow2[g], c * Pow2[g], f, TreeHash[s]))
  BY <1>2, <1>7, <1>16, <1>17, <1>20, <1>21, <1>22
<1> QED BY <1>11, <1>17, <1>23

\* An earlier size in the right part of a subtree at the right edge.
LEMMA EdgeLater ==
    ASSUME NEW s \in Seq(Leaf), Len(s) > 1, NEW d \in Nat, Len(s) <= Pow2[d],
           NEW k, k = LargestPowerOfTwoBelow(Len(s)),
           NEW t \in Nat, 0 < t, k + t < Len(s),
           ReachesEdgeAt(k, Rest(s, k), t)
    PROVE  ReachesEdge(d, s, k + t)
<1>1. PICK n, l, r : n \in Nat /\ n = Len(s) /\ l = First(s, k) /\ r = Rest(s, k)
  BY LenProperties
<1> n \in Nat
  BY <1>1
<1>2. /\ k \in Nat /\ 0 < k /\ k < n
      /\ r \in Seq(Leaf) /\ Len(r) = n - k
      /\ TreeHash[s] = NodeHash(TreeHash[l], TreeHash[r])
      /\ TreeHash[l] \in TreeHashes
  BY <1>1, TreeSplit
<1>3. PICK m \in Nat : m = k + t
  BY <1>2
<1>4. /\ m < Len(s) /\ m <= Len(s) /\ m \in 1..Len(s) /\ ~ (m <= k) /\ k < m
      /\ m - k = t /\ t < Len(r) /\ t \in 1..Len(r)
  <2>1. k + t < n
    BY <1>1
  <2>2. t < n - k /\ t \in 1..n - k
    BY <1>2, <2>1
  <2> QED BY <1>1, <1>2, <1>3, <2>1, <2>2
<1>5. TreeHash[First(s, m)] = NodeHash(TreeHash[l], TreeHash[First(r, t)])
  BY <1>1, <1>4, PrefixSplit
<1> SUFFICES ReachesEdge(d, s, m)
  BY <1>3
<1> SUFFICES ASSUME NEW c \in Nat, NEW full \in BOOLEAN, NEW R, AtEdge(s, m, c, full, R)
             PROVE  \E e \in Nat :
                      Reaches(SubProof[s][full][m], c * Pow2[d] + (m - 1),
                        c * Pow2[d] + (Len(s) - 1),
                              R, State(c * Pow2[e], c * Pow2[e], TreeHash[First(s, m)],
                                TreeHash[s]))
  BY Zenon DEF ReachesEdge
<1>6. PICK j \in Nat, g \in Nat, b \in Nat, x \in Nat : EdgeSplits(n, d, c, x, j, g, b)
  BY <1>1, EdgeSplit
<1>7. k = Pow2[j] /\ b = c * Pow2[g] /\ c * Pow2[d] + k = (2 * b + 1) * k
  BY <1>1, <1>6 DEF EdgeSplits
<1>8. PICK y \in Nat : y = 2 * b + 1 /\ y # 0
  OBVIOUS
<1>9. AtEdge(r, t, y, FALSE, R)
  BY <1>4, <1>8 DEF AtEdge
<1>10. ReachesEdge(j, r, t)
  BY <1>1, <1>7 DEF ReachesEdgeAt
<1>11. PICK e \in Nat :
         Reaches(SubProof[r][FALSE][t], y * Pow2[j] + (t - 1), y * Pow2[j] + (Len(r) - 1), R,
                 State(y * Pow2[e], y * Pow2[e], TreeHash[First(r, t)], TreeHash[r]))
  <2>1. FALSE \in BOOLEAN
    OBVIOUS
  <2> QED BY ONLY <1>9, <1>10, y \in Nat, <2>1, Zenon DEF ReachesEdge
<1>12. PICK p \in TreeHashes : p = TreeHash[l]
  BY <1>2
<1>13. PICK z \in Nat : z = c * Pow2[d]
  BY Pow2Type
<1>14. PICK P, a, f, fn, M, w :
         /\ P = SubProof[r][FALSE][t] /\ a = TreeHash[r] /\ f = TreeHash[First(r, t)]
         /\ fn = z + (m - 1) /\ M = z + (Len(s) - 1) /\ w = y * Pow2[e]
  OBVIOUS
<1>15. P \in Seq(TreeHashes)
  BY <1>2, <1>4, <1>14, SubType
<1>16. y * Pow2[j] + (t - 1) = fn /\ y * Pow2[j] + (Len(r) - 1) = M
  <2>1. y * Pow2[j] = z + k
    BY <1>7, <1>8, <1>13
  <2>2. (z + k) + (t - 1) = z + (m - 1) /\ (z + k) + ((n - k) - 1) = z + (n - 1)
    BY <1>2, <1>3
  <2> QED BY <1>1, <1>2, <1>14, <2>1, <2>2
<1>17. Reaches(P, fn, M, R, State(w, w, f, a))
  BY <1>11, <1>14, <1>16
<1>18. Reaches(Append(P, p), fn, M, R, Climb(State(w, w, f, a), p))
  BY ONLY <1>15, <1>17, p \in TreeHashes, ReachesAppend
<1>19. Climb(State(w, w, f, a), p) = State(b, b, NodeHash(p, f), NodeHash(p, a))
  <2>1. AboveLeft(w, b)
    BY <1>8, <1>14 DEF AboveLeft
  <2> QED BY <2>1, ClimbAtEdge
<1>20. SubProof[s][full][m] = Append(P, p)
  <2>1. SubProof[s][full][m] =
           IF m <= k THEN Append(SubProof[l][full][m], TreeHash[r])
           ELSE Append(SubProof[r][FALSE][m - k], TreeHash[l])
    BY <1>1, <1>4, SubSplit
  <2> QED BY <1>4, <1>12, <1>14, <2>1
<1>21. Reaches(SubProof[s][full][m], fn, M, R,
               State(c * Pow2[g], c * Pow2[g], TreeHash[First(s, m)], TreeHash[s]))
  BY <1>2, <1>5, <1>7, <1>12, <1>14, <1>18, <1>19, <1>20
<1> QED BY <1>13, <1>14, <1>21

\* Every earlier size in every subtree at the right edge.
LEMMA EarlierAtEdge ==
    \A s \in Seq(Leaf) : \A d \in Nat : Len(s) <= Pow2[d] =>
        \A m \in Nat : (0 < m /\ m < Len(s)) => ReachesEdge(d, s, m)
<1> DEFINE T == {n \in Nat : \A s \in Seq(Leaf) : Len(s) = n =>
                    \A d \in Nat : n <= Pow2[d] =>
                        \A m \in Nat : (0 < m /\ m < n) => ReachesEdge(d, s, m)}
<1>1. ASSUME NEW n \in Nat, \A m \in Nat : m < n => m \in T PROVE n \in T
  <2> SUFFICES ASSUME NEW s \in Seq(Leaf), Len(s) = n, NEW d \in Nat, n <= Pow2[d],
                      NEW m \in Nat, 0 < m, m < n
               PROVE  ReachesEdge(d, s, m)
    OBVIOUS
  <2>1. PICK k : k = LargestPowerOfTwoBelow(n)
    OBVIOUS
  <2>2. k \in Nat /\ 0 < k /\ k < n /\ n <= 2 * k
    <3>1. n > 1
      OBVIOUS
    <3> QED BY <2>1, <3>1, SplitOf
  <2>3. CASE m <= k
    <3>1. m \in 1..LargestPowerOfTwoBelow(Len(s)) /\ Len(s) > 1 /\ Len(s) <= Pow2[d]
      BY <2>1, <2>2, <2>3
    <3> QED BY ONLY s \in Seq(Leaf), d \in Nat, <3>1, EdgeEarlier
  <2>4. CASE ~ (m <= k)
    <3>1. PICK t \in Nat : t = m - k /\ m = k + t /\ 0 < t /\ t < n - k
      <4>1. m - k \in Nat /\ m = k + (m - k) /\ 0 < m - k /\ m - k < n - k
        BY ONLY m \in Nat, n \in Nat, m < n, <2>2, <2>4
      <4> QED BY <4>1
    <3>2. PICK r \in Seq(Leaf) : r = Rest(s, k) /\ Len(r) = n - k
      <4>1. k \in 1..Len(s)
        BY <2>2
      <4> QED BY <4>1, Halves
    <3>3. ReachesEdgeAt(k, r, t)
      <4> SUFFICES ASSUME NEW j \in Nat, k = Pow2[j] PROVE ReachesEdge(j, r, t)
        BY DEF ReachesEdgeAt
      <4>1. n - k \in T
        <5>1. n - k \in Nat /\ n - k < n
          BY <2>2
        <5> HIDE DEF T
        <5> QED BY <1>1, <5>1
      <4>2. n - k <= Pow2[j]
        BY <2>2
      <4> QED BY <3>1, <3>2, <4>1, <4>2
    <3>4. k + t < Len(s) /\ ReachesEdgeAt(k, Rest(s, k), t) /\ Len(s) > 1 /\ Len(s) <= Pow2[d]
          /\ k = LargestPowerOfTwoBelow(Len(s)) /\ 0 < t
      BY <2>1, <2>2, <3>1, <3>2, <3>3
    <3>5. ReachesEdge(d, s, k + t)
      BY ONLY s \in Seq(Leaf), d \in Nat, t \in Nat, <3>4, EdgeLater
    <3> QED BY <3>1, <3>5
  <2> QED BY <2>3, <2>4
<1>2. Nat \subseteq T
  <2> HIDE DEF T
  <2> QED BY <1>1, Induction
<1> QED BY <1>2, LenProperties

\* The loop over the consistency path from m to all of s.
LEMMA ConsistencyWalk ==
    ASSUME NEW s \in Seq(Leaf), NEW m \in Nat, 0 < m, m < Len(s)
    PROVE  Reaches(ConsistencyPath(m, s), m - 1, Len(s) - 1, TreeHash[First(s, m)],
                   State(0, 0, TreeHash[First(s, m)], TreeHash[s]))
<1>1. PICK d \in Nat : Len(s) <= Pow2[d]
  BY LenProperties, HeightOf
<1>2. ReachesEdge(d, s, m)
  BY <1>1, EarlierAtEdge
<1>3. PICK R : R = TreeHash[First(s, m)]
  OBVIOUS
<1>4. AtEdge(s, m, 0, TRUE, R)
  BY <1>3 DEF AtEdge
<1>5. PICK e \in Nat :
        Reaches(SubProof[s][TRUE][m], 0 * Pow2[d] + (m - 1), 0 * Pow2[d] + (Len(s) - 1), R,
                State(0 * Pow2[e], 0 * Pow2[e], TreeHash[First(s, m)], TreeHash[s]))
  <2>1. 0 \in Nat /\ TRUE \in BOOLEAN
    OBVIOUS
  <2> QED BY ONLY <1>2, <1>4, <2>1, Zenon DEF ReachesEdge
<1>6. PICK n \in Nat : n = Len(s)
  BY LenProperties
<1>7. 0 * Pow2[d] + (m - 1) = m - 1 /\ 0 * Pow2[d] + (n - 1) = n - 1 /\ 0 * Pow2[e] = 0
  <2>1. PICK x \in Nat, y \in Nat : x = Pow2[d] /\ y = Pow2[e]
    BY Pow2Type
  <2> QED BY <2>1
<1> QED BY <1>3, <1>5, <1>6, <1>7 DEF ConsistencyPath

\* consistencyPath/VerifyConsistency: the path from every earlier size is accepted.
THEOREM ConsistencyComplete ==
    ASSUME NEW s \in Seq(Leaf), NEW m \in 1..Len(s)
    PROVE  VerifyConsistency(m, Len(s), ConsistencyPath(m, s), TreeHash[First(s, m)],
             TreeHash[s])
<1>1. PICK n \in Nat : n = Len(s)
  BY LenProperties
<1>2. m \in Nat /\ 0 < m /\ m <= n
  BY <1>1
<1>3. CASE m = n
  <2>1. ConsistencyPath(m, s) = <<>>
    <3>1. SubProof[s][TRUE][m] = <<>>
      BY <1>1, <1>2, <1>3, SubWhole
    <3> QED BY <3>1 DEF ConsistencyPath
  <2>2. First(s, m) = s
    BY <1>1, <1>3, FirstOfAll
  <2> QED BY <1>1, <1>2, <1>3, <2>1, <2>2 DEF VerifyConsistency
<1>4. CASE m # n
  <2>1. m < n
    BY <1>2, <1>4
  <2>2. PICK P, at, R : P = ConsistencyPath(m, s) /\ at = SkipRight[m - 1][n - 1]
               /\ R = TreeHash[First(s, m)]
    OBVIOUS
  <2>3. Walk(EdgeStart(at, P, R), EdgeProof(at, P)) = State(0, 0, R, TreeHash[s])
    BY <1>1, <1>2, <2>1, <2>2, ConsistencyWalk DEF Reaches
  <2>4. P # <<>>
    <3>1. PICK k, Q, h : SubProof[s][TRUE][m] = Append(Q, h) /\ h \in TreeHashes
                 /\ Q \in Seq(TreeHashes)
      <4>1. PICK x, l, r : x = LargestPowerOfTwoBelow(Len(s)) /\ l = First(s, x)
                   /\ r = Rest(s, x)
        OBVIOUS
      <4>2. /\ x \in Nat /\ 0 < x /\ x < n
            /\ l \in Seq(Leaf) /\ Len(l) = x /\ r \in Seq(Leaf) /\ Len(r) = n - x
            /\ TreeHash[l] \in TreeHashes /\ TreeHash[r] \in TreeHashes
        <5>1. Len(s) > 1
          BY <1>1, <1>2, <2>1
        <5> QED BY <1>1, <4>1, <5>1, TreeSplit
      <4>3. SubProof[s][TRUE][m] = IF m <= x THEN Append(SubProof[l][TRUE][m], TreeHash[r])
                                   ELSE Append(SubProof[r][FALSE][m - x], TreeHash[l])
        <5>1. m \in 1..Len(s) /\ m < Len(s) /\ TRUE \in BOOLEAN
          BY <1>1, <2>1
        <5> QED BY <4>1, <5>1, SubSplit
      <4>4. CASE m <= x
        <5>1. m \in 1..Len(l)
          BY <1>2, <4>2, <4>4
        <5>2. SubProof[l][TRUE][m] \in Seq(TreeHashes)
          BY <4>2, <5>1, SubType
        <5> QED BY <4>2, <4>3, <4>4, <5>2
      <4>5. CASE ~ (m <= x)
        <5>1. m - x \in 1..Len(r)
          <6>1. m - x \in 1..n - x
            BY <1>2, <4>2, <4>5
          <6> QED BY <4>2, <6>1
        <5>2. SubProof[r][FALSE][m - x] \in Seq(TreeHashes)
          BY <4>2, <5>1, SubType
        <5> QED BY <4>2, <4>3, <4>5, <5>2
      <4> QED BY <4>4, <4>5
    <3> QED BY <2>2, <3>1, AppendProperties DEF ConsistencyPath
  <2> QED BY <1>1, <1>2, <2>1, <2>2, <2>3, <2>4 DEF VerifyConsistency, State
<1> QED BY <1>3, <1>4

\* Trees of one size have the same hash only if they have the same leaves.
LEMMA TreeHashInjective ==
    \A s, t \in Seq(Leaf) : (Len(s) = Len(t) /\ TreeHash[s] = TreeHash[t]) => s = t
<1> DEFINE T == {n \in Nat : \A s, t \in Seq(Leaf) :
                    (Len(s) = n /\ Len(t) = n /\ TreeHash[s] = TreeHash[t]) => s = t}
<1>1. ASSUME NEW n \in Nat, \A m \in Nat : m < n => m \in T PROVE n \in T
  <2> SUFFICES ASSUME NEW s \in Seq(Leaf), NEW t \in Seq(Leaf), Len(s) = n, Len(t) = n,
                      TreeHash[s] = TreeHash[t]
               PROVE  s = t
    OBVIOUS
  <2>1. CASE n = 0
    <3>1. s = <<>> /\ t = <<>>
      BY <2>1, EmptySeq
    <3> QED BY <3>1
  <2>2. CASE n = 1
    <3>1. s[1] = t[1]
      BY <2>2, HashOfLeaf
    <3>2. \A i \in 1..Len(s) : s[i] = t[i]
      BY <2>2, <3>1
    <3> QED BY ONLY s \in Seq(Leaf), t \in Seq(Leaf), Len(s) = n, Len(t) = n, <3>2, SeqEqual
  <2>3. CASE n > 1
    <3>1. PICK k : k = LargestPowerOfTwoBelow(n)
      OBVIOUS
    <3>2. PICK l, r : l = First(s, k) /\ r = Rest(s, k)
      OBVIOUS
    <3>3. PICK u, v : u = First(t, k) /\ v = Rest(t, k)
      OBVIOUS
    <3>4. /\ k \in Nat /\ 0 < k /\ k < n
          /\ l \in Seq(Leaf) /\ Len(l) = k /\ \A i \in 1..k : l[i] = s[i]
          /\ r \in Seq(Leaf) /\ Len(r) = n - k /\ \A i \in 1..n - k : r[i] = s[k + i]
          /\ TreeHash[s] = NodeHash(TreeHash[l], TreeHash[r])
      BY <2>3, <3>1, <3>2, TreeSplit
    <3>5. /\ u \in Seq(Leaf) /\ Len(u) = k /\ \A i \in 1..k : u[i] = t[i]
          /\ v \in Seq(Leaf) /\ Len(v) = n - k /\ \A i \in 1..n - k : v[i] = t[k + i]
          /\ TreeHash[t] = NodeHash(TreeHash[u], TreeHash[v])
      <4>1. Len(t) > 1 /\ k = LargestPowerOfTwoBelow(Len(t)) /\ Len(t) = n
        BY <2>3, <3>1
      <4>2. /\ k \in Nat /\ 0 < k
            /\ u \in Seq(Leaf) /\ Len(u) = k /\ \A i \in 1..k : u[i] = t[i]
            /\ v \in Seq(Leaf) /\ Len(v) = Len(t) - k
                 /\ \A i \in 1..Len(t) - k : v[i] = t[k + i]
            /\ TreeHash[t] = NodeHash(TreeHash[u], TreeHash[v])
        <5>1. k \in Nat /\ 0 < k /\ k < n
          BY <3>4
        <5>2. k \in 1..Len(t)
          BY <4>1, <5>1
        <5>3. /\ u \in Seq(Leaf) /\ Len(u) = k /\ \A i \in 1..k : u[i] = t[i]
              /\ v \in Seq(Leaf) /\ Len(v) = Len(t) - k
                   /\ \A i \in 1..Len(t) - k : v[i] = t[k + i]
          BY ONLY t \in Seq(Leaf), <5>2, <3>3, Halves
        <5>4. TreeHash[t] = NodeHash(TreeHash[u], TreeHash[v])
          BY ONLY t \in Seq(Leaf), <4>1, <3>3, TreeSplit
        <5> QED BY ONLY <5>1, <5>3, <5>4
      <4> QED BY ONLY <4>1, <4>2
    <3>6. TreeHash[l] = TreeHash[u] /\ TreeHash[r] = TreeHash[v]
      <4>1. NodeHash(TreeHash[l], TreeHash[r]) = NodeHash(TreeHash[u], TreeHash[v])
        BY <3>4, <3>5
      <4> QED BY ONLY <4>1, NodeHashInjective
    <3>7. k \in T /\ n - k \in T
      <4>1. n - k \in Nat /\ n - k < n
        BY <3>4
      <4> HIDE DEF T
      <4> QED BY <1>1, <3>4, <4>1
    <3>8. l = u /\ r = v
      BY <3>4, <3>5, <3>6, <3>7
    <3>9. ASSUME NEW i \in 1..n PROVE s[i] = t[i]
      <4>1. CASE i <= k
        <5>1. i \in 1..k
          BY <3>4, <4>1
        <5> QED BY <3>4, <3>5, <3>8, <5>1
      <4>2. CASE ~ (i <= k)
        <5>1. PICK j \in Nat : j = i - k /\ j \in 1..n - k /\ i = k + j
          <6>1. i - k \in 1..n - k /\ i - k \in Nat /\ i = k + (i - k)
            BY <3>4, <4>2
          <6> QED BY <6>1
        <5>2. s[k + j] = r[j] /\ t[k + j] = v[j]
          BY <3>4, <3>5, <5>1
        <5> QED BY <3>8, <5>1, <5>2
      <4> QED BY <4>1, <4>2
    <3>10. \A i \in 1..Len(s) : s[i] = t[i]
      BY <3>9
    <3> QED BY ONLY s \in Seq(Leaf), t \in Seq(Leaf), Len(s) = n, Len(t) = n, <3>10, SeqEqual
  <2> QED BY <2>1, <2>2, <2>3
<1>2. Nat \subseteq T
  <2> HIDE DEF T
  <2> QED BY <1>1, Induction
<1> QED BY <1>2, LenProperties

\* VerifyConsistency: no proof links a log with another root to s.
THEOREM ConsistencySound ==
    ASSUME NEW s \in Seq(Leaf), NEW t \in Seq(Leaf), NEW V, NEW proof \in Seq(V),
           VerifyConsistency(Len(t), Len(s), proof, TreeHash[t], TreeHash[s])
    PROVE  IsPrefix(t, s)
<1>1. PICK m \in Nat, n \in Nat : m = Len(t) /\ n = Len(s)
  BY LenProperties
<1>2. m <= n
  BY <1>1 DEF VerifyConsistency
<1>3. CASE m = 0
  <2>1. SubSeq(t, 1, Len(t)) = SubSeq(s, 1, Len(t))
    BY <1>1, <1>3, SubSeqEmpty
  <2> QED BY <1>1, <1>2, <2>1 DEF IsPrefix
<1>4. CASE m # 0
  <2>1. TreeHash[t] = TreeHash[First(s, m)]
    <3>1. CASE m = n
      <4>1. TreeHash[t] = TreeHash[s]
        BY <1>1, <1>4, <3>1 DEF VerifyConsistency
      <4>2. First(s, m) = s
        BY <1>1, <3>1, FirstOfAll
      <4> QED BY <4>1, <4>2
    <3>2. CASE m # n
      <4>1. 0 < m /\ m < n
        BY <1>2, <1>4, <3>2
      <4>2. PICK P, at, R : /\ P = ConsistencyPath(m, s) /\ at = SkipRight[m - 1][n - 1]
                            /\ R = TreeHash[First(s, m)]
        OBVIOUS
      <4>3. /\ at[1] # 0 => P # <<>>
            /\ Walk(EdgeStart(at, P, R), EdgeProof(at, P)) = State(0, 0, R, TreeHash[s])
        <5>1. Reaches(P, m - 1, n - 1, R, State(0, 0, R, TreeHash[s]))
          BY <1>1, <4>1, <4>2, ConsistencyWalk
        <5> QED BY <4>2, <5>1 DEF Reaches
      <4>4. PICK S, w : S = TreeHash[t] /\ w = EdgeStart(at, proof, S)
        OBVIOUS
      <4>5. PICK v : v = EdgeStart(at, P, R)
        OBVIOUS
      <4>6. /\ proof # <<>> /\ Walk(w, EdgeProof(at, proof)).ok
                 /\ Walk(w, EdgeProof(at, proof)).sn = 0
            /\ Walk(w, EdgeProof(at, proof)).fr = S
                 /\ Walk(w, EdgeProof(at, proof)).sr = TreeHash[s]
        BY <1>1, <1>4, <3>2, <4>2, <4>4 DEF VerifyConsistency
      <4>7. /\ Walk(v, EdgeProof(at, P)).ok /\ Walk(v, EdgeProof(at, P)).sn = 0
            /\ Walk(v, EdgeProof(at, P)).fr = R /\ Walk(v, EdgeProof(at, P)).sr = TreeHash[s]
        BY <4>3, <4>5 DEF State
      <4>8. PICK W : P \in Seq(W) /\ proof \in Seq(W)
        <5>1. P \in Seq(TreeHashes)
          <6>1. TRUE \in BOOLEAN /\ m \in 1..Len(s)
            BY <1>1, <4>1
          <6> QED BY <4>2, <6>1, SubType DEF ConsistencyPath
        <5>2. P \in Seq(V \cup TreeHashes) /\ proof \in Seq(V \cup TreeHashes)
          BY <5>1, SeqDef
        <5> QED BY <5>2
      <4>9. EdgeProof(at, P) \in Seq(W) /\ EdgeProof(at, proof) \in Seq(W)
        BY <4>3, <4>6, <4>8 DEF EdgeProof
      <4>10. IsState(v) /\ IsState(w) /\ v.fn = w.fn /\ v.sn = w.sn
        BY <4>4, <4>5 DEF IsState, EdgeStart
      <4>11. EdgeProof(at, P) = EdgeProof(at, proof) /\ v.sr = w.sr
        BY <4>6, <4>7, <4>9, <4>10, WalkUnique
      <4>12. v = w
        BY <4>4, <4>5, <4>11 DEF EdgeStart
      <4>13. R = S
        BY <4>6, <4>7, <4>11, <4>12
      <4> QED BY <4>2, <4>4, <4>13
    <3> QED BY <3>1, <3>2
  <2>2. m \in 1..Len(s)
    BY <1>1, <1>2, <1>4
  <2>3. First(s, m) \in Seq(Leaf) /\ Len(First(s, m)) = m
    BY <2>2, Halves
  <2>4. t = First(s, m)
    BY <1>1, <2>1, <2>3, TreeHashInjective
  <2>5. SubSeq(t, 1, Len(t)) = SubSeq(s, 1, Len(t))
    BY <1>1, <2>4, SubSeqFull DEF First
  <2> QED BY <1>1, <1>2, <2>5 DEF IsPrefix
<1> QED BY <1>3, <1>4
============================================================================
