------------------------ MODULE GuardPinningProofs ------------------------
(***************************************************************************)
(* What GuardPinning promises about the guards, for any nodes, networks    *)
(* and terms, and what PathSelection promises about the circuits built     *)
(* from them.  GuardsStay is inductive once the file is known to equal     *)
(* memory between a save that worked and the installation of circuits, and *)
(* the bound on exposure follows from it and from PinnedBound.             *)
(*                                                                         *)
(* PathsUnrelated and WeightsCapped are facts about data and hold of any   *)
(* guard.  The first rests on the binary search of the ASN table: the      *)
(* table holds the usable rows in order, and if no two of them overlap the *)
(* recursion of the search has a solution and what it returns is the first *)
(* row that may hold the address, so a node's system is found if it has    *)
(* one.  The second rests on the median: it exists, and at most half of    *)
(* the claims are below it, so fewer than half of the nodes cannot move it *)
(* above all other claims.                                                 *)
(***************************************************************************)
EXTENDS GuardPinning, FiniteSetTheorems, SequenceTheorems, WellFoundedInduction, TLAPS

GuardInv ==
    /\ GuardsStay
    /\ \A n \in Pinned(used) : InTerm(used[n])
    /\ pc = "install" /\ ~unsaved => disk = st

States == [Node -> Entry \cup {NotPinned}]

----------------------------------------------------------------------------
\* Entries and sets of pinned guards.

\* An entry stays one as it grows older, and an old one is not younger for it.
LEMMA OlderEntry ==
    ASSUME NEW e \in Entry
    PROVE  /\ Older(e) \in Entry
           /\ Older(e) # NotPinned
           /\ InTerm(Older(e)) => InTerm(e)
BY GuardAssumption DEF Entry, Older, InTerm

\* Days that pass pin and unpin nobody.
LEMMA AgedStates ==
    ASSUME NEW s \in States
    PROVE  /\ Aged(s) \in States
           /\ Pinned(Aged(s)) = Pinned(s)
           /\ \A n \in Pinned(s) : Aged(s)[n] = Older(s[n])
<1>1. \A n \in Node : s[n] # NotPinned => s[n] \in Entry
  BY DEF States
<1> QED BY <1>1, OlderEntry DEF States, Aged, Pinned

\* Dropping the entries that have ended leaves the others as they are.
LEMMA InTermStates ==
    ASSUME NEW s \in States
    PROVE  /\ InTermOnly(s) \in States
           /\ Pinned(InTermOnly(s)) = {n \in Pinned(s) : InTerm(s[n])}
           /\ \A n \in Pinned(InTermOnly(s)) : InTermOnly(s)[n] = s[n]
BY DEF States, InTermOnly, Pinned

\* What ChooseGuards keeps: the entries whose terms go on, seen now or not.
LEMMA KeptStates ==
    ASSUME TypeOK
    PROVE  /\ Kept \in States
           /\ Pinned(Kept) \subseteq Pinned(st)
           /\ \A n \in Pinned(st) :
                InTerm(st[n]) => /\ n \in Pinned(Kept)
                                 /\ Kept[n].since = st[n].since
                                 /\ Kept[n].lastSeen <= st[n].lastSeen
<1> DEFINE seen == [n \in Node |-> IF n \in Pinned(st) /\ n \in pool
                                   THEN [st[n] EXCEPT !.lastSeen = 0] ELSE st[n]]
<1>1. st \in States
  BY DEF TypeOK, States
<1>2. \A n \in Pinned(st) :
        /\ st[n] \in Entry /\ seen[n] \in Entry /\ seen[n] # NotPinned
        /\ seen[n].since = st[n].since /\ seen[n].lastSeen <= st[n].lastSeen
  <2>1. SUFFICES ASSUME NEW n \in Pinned(st)
        PROVE  /\ st[n] \in Entry /\ seen[n] \in Entry /\ seen[n] # NotPinned
               /\ seen[n].since = st[n].since /\ seen[n].lastSeen <= st[n].lastSeen
    OBVIOUS
  <2>2. n \in Node /\ st[n] \in Entry
    BY <1>1, <2>1 DEF Pinned, States
  <2>3. [st[n] EXCEPT !.lastSeen = 0] \in Entry
    BY <2>2, GuardAssumption DEF Entry
  <2>4. seen[n] \in Entry
    BY <2>2, <2>3
  <2>5. seen[n].since = st[n].since /\ seen[n].lastSeen <= st[n].lastSeen
    BY <2>2, GuardAssumption DEF Entry
  <2> QED BY <2>2, <2>4, <2>5, GuardAssumption
<1>3. seen \in States /\ Pinned(seen) = Pinned(st)
  BY <1>1, <1>2 DEF States, Pinned
<1>4. Kept = InTermOnly(seen)
  BY DEF Kept
<1>5. /\ Kept \in States
      /\ Pinned(Kept) = {n \in Pinned(st) : InTerm(seen[n])}
      /\ \A n \in Pinned(Kept) : Kept[n] = seen[n]
  BY <1>3, <1>4, InTermStates
<1>6. ASSUME NEW n \in Pinned(st), InTerm(st[n])
      PROVE  /\ n \in Pinned(Kept)
             /\ Kept[n].since = st[n].since
             /\ Kept[n].lastSeen <= st[n].lastSeen
  <2>1. InTerm(seen[n])
    <3> DEFINE e == st[n]  f == seen[n]
    <3>1. e \in Entry /\ f \in Entry /\ f.since = e.since /\ f.lastSeen <= e.lastSeen
      BY <1>2, <1>6
    <3>2. e.since <= GuardDays /\ e.lastSeen <= GuardRetireDays
      BY <1>6 DEF InTerm
    <3> HIDE DEF e, f
    <3>3. InTerm(f)
      BY <3>1, <3>2, GuardAssumption DEF InTerm, Entry
    <3> QED BY <3>3 DEF f
  <2> QED BY <1>2, <1>5, <2>1
<1> QED BY <1>5, <1>6

\* The state after the choice of the new guards S.
LEMMA ChosenStates ==
    ASSUME TypeOK, NEW S \in NewGuards(Kept),
           NEW t, t = [n \in Node |-> IF n \in S THEN [since |-> 0, lastSeen |-> 0]
                                                ELSE Kept[n]]
    PROVE  /\ t \in States
           /\ Pinned(t) = Pinned(Kept) \cup S
           /\ S \cap Pinned(Kept) = {}
           /\ \A n \in Pinned(Kept) : t[n] = Kept[n]
<1>1. S \subseteq Node /\ S \cap Pinned(Kept) = {}
  BY DEF NewGuards, TypeOK
<1>2. [since |-> 0, lastSeen |-> 0] \in Entry /\ [since |-> 0, lastSeen |-> 0] # NotPinned
  BY GuardAssumption DEF Entry
<1> QED BY <1>1, <1>2, KeptStates DEF States, Pinned

----------------------------------------------------------------------------
\* Types.

\* Every variable keeps its type.
THEOREM TypeCorrect == Spec => []TypeOK
<1>1. Init => TypeOK
  BY DEF Init, TypeOK, Unpinned, Pinned
<1>2. TypeOK /\ [Next]_vars => TypeOK'
  <2> SUFFICES ASSUME TypeOK, [Next]_vars PROVE TypeOK'
    OBVIOUS
  <2>0. st \in States /\ disk \in States /\ used \in States
    BY DEF TypeOK, States
  <2>1. CASE ChooseGuards
    <3>1. PICK S \in NewGuards(Kept) :
            /\ st' = [n \in Node |-> IF n \in S THEN [since |-> 0, lastSeen |-> 0]
                                                ELSE Kept[n]]
            /\ active' = (Pinned(Kept) \cap pool) \cup S
      BY <2>1 DEF ChooseGuards
    <3>2. st' \in States /\ Pinned(st') = Pinned(Kept) \cup S
      BY <3>1, ChosenStates
    <3>3. active' \subseteq Pinned(st)'
      BY <3>1, <3>2 DEF Pinned
    <3> QED BY <2>1, <3>2, <3>3 DEF ChooseGuards, TypeOK, States
  <2>2. CASE BuildFails
    BY <2>2 DEF BuildFails, TypeOK, Pinned
  <2>3. CASE Save
    BY <2>3 DEF Save, TypeOK, Pinned
  <2>4. CASE Install
    <3>1. InTermOnly(st) \in States
      BY <2>0, InTermStates
    <3>2. used' \in States
      BY <2>0, <2>4, <3>1 DEF Install, States
    <3> QED BY <2>4, <3>2 DEF Install, TypeOK, States
  <2>5. CASE Restart
    BY <2>5 DEF Restart, TypeOK, Unpinned
  <2>6. CASE Tick
    <3>1. /\ Aged(st) \in States /\ Aged(disk) \in States
          /\ InTermOnly(Aged(used)) \in States /\ Pinned(Aged(st)) = Pinned(st)
      BY <2>0, AgedStates, InTermStates
    <3> QED BY <2>6, <3>1 DEF Tick, TypeOK, States, Pinned
  <2>7. CASE Change
    <3>1. pool' \subseteq Node
      BY <2>7 DEF Change, GuardPool
    <3> QED BY <2>7, <3>1 DEF Change, TypeOK, Pinned
  <2>8. CASE UNCHANGED vars
    BY <2>8 DEF vars, TypeOK, Pinned
  <2> QED BY <2>1, <2>2, <2>3, <2>4, <2>5, <2>6, <2>7, <2>8 DEF Next
<1> QED BY <1>1, <1>2, PTL DEF Spec

----------------------------------------------------------------------------
\* The bound on what is pinned.

\* Sets of pinned guards are finite, so they have a number of elements.
LEMMA PinnedFinite ==
    ASSUME NEW s
    PROVE  IsFiniteSet(Pinned(s)) /\ Cardinality(Pinned(s)) \in Nat
<1>1. Pinned(s) \subseteq Node
  BY DEF Pinned
<1> QED BY <1>1, GuardAssumption, FS_Subset, FS_CardinalityType

\* The pinned guards, in memory and in the file, never exceed their bound,
\* however nodes leave and return and wherever the client crashes.
THEOREM PinnedStayBounded == Spec => []PinnedBound
<1>1. Init => PinnedBound
  <2> SUFFICES ASSUME Init PROVE PinnedBound
    OBVIOUS
  <2>1. Pinned(st) = {} /\ Pinned(disk) = {}
    BY DEF Init, Unpinned, Pinned
  <2>2. MaxPinned \in Nat
    BY GuardAssumption DEF MaxPinned
  <2> QED BY <2>1, <2>2, FS_EmptySet DEF PinnedBound
<1>2. TypeOK /\ PinnedBound /\ [Next]_vars => PinnedBound'
  <2> SUFFICES ASSUME TypeOK, PinnedBound, [Next]_vars PROVE PinnedBound'
    OBVIOUS
  <2>0. MaxPinned \in Nat /\ st \in States /\ disk \in States
    BY GuardAssumption DEF MaxPinned, TypeOK, States
  <2>1. CASE ChooseGuards
    <3>1. PICK S \in NewGuards(Kept) :
            st' = [n \in Node |-> IF n \in S THEN [since |-> 0, lastSeen |-> 0]
                                             ELSE Kept[n]]
      BY <2>1 DEF ChooseGuards
    <3>2. Pinned(st') = Pinned(Kept) \cup S /\ S \cap Pinned(Kept) = {}
      BY <3>1, ChosenStates
    <3>3. Cardinality(Pinned(Kept)) <= Cardinality(Pinned(st))
      BY PinnedFinite, KeptStates, FS_Subset
    <3>4. Cardinality(Pinned(st')) <= MaxPinned
      <4>1. CASE S = {}
        BY <2>0, <3>2, <3>3, <4>1, PinnedFinite DEF PinnedBound
      <4>2. CASE S # {}
        <5>1. S \subseteq Node /\ IsFiniteSet(S) /\ Cardinality(S) \in Nat
          BY GuardAssumption, FS_Subset, FS_CardinalityType DEF NewGuards, TypeOK
        <5>2. Cardinality(Pinned(Kept)) + Cardinality(S) <= MaxPinned
          BY <4>2 DEF NewGuards
        <5>3. Pinned(Kept) \cap S = {}
          BY <3>2
        <5>4. Cardinality(Pinned(Kept) \cup S) =
                Cardinality(Pinned(Kept)) + Cardinality(S) - Cardinality({})
          BY <5>1, <5>3, PinnedFinite, FS_Union
        <5>5. Cardinality({}) = 0 /\ Cardinality(Pinned(Kept)) \in Nat
          BY FS_EmptySet, PinnedFinite
        <5>6. Cardinality(Pinned(Kept)) + Cardinality(S) - 0
                = Cardinality(Pinned(Kept)) + Cardinality(S)
          BY <5>1, <5>5
        <5>7. Cardinality(Pinned(Kept) \cup S) <= MaxPinned
          BY <5>2, <5>4, <5>5, <5>6
        <5> QED BY <3>2, <5>7
      <4> QED BY <4>1, <4>2
    <3> QED BY <2>1, <3>4 DEF ChooseGuards, PinnedBound, Pinned
  <2>2. CASE BuildFails
    BY <2>2 DEF BuildFails, PinnedBound, Pinned
  <2>3. CASE Save
    BY <2>3 DEF Save, PinnedBound, Pinned
  <2>4. CASE Install
    BY <2>4 DEF Install, PinnedBound, Pinned
  <2>5. CASE Restart
    BY <2>5 DEF Restart, PinnedBound, Pinned
  <2>6. CASE Tick
    <3>1. Pinned(Aged(st)) = Pinned(st) /\ Pinned(Aged(disk)) = Pinned(disk)
      BY <2>0, AgedStates
    <3> QED BY <2>6, <3>1 DEF Tick, PinnedBound, Pinned
  <2>7. CASE Change
    BY <2>7 DEF Change, PinnedBound, Pinned
  <2>8. CASE UNCHANGED vars
    BY <2>8 DEF vars, PinnedBound, Pinned
  <2> QED BY <2>1, <2>2, <2>3, <2>4, <2>5, <2>6, <2>7, <2>8 DEF Next
<1> QED BY <1>1, <1>2, TypeCorrect, PTL DEF Spec

----------------------------------------------------------------------------
\* Guards that got circuits.

\* Entries grow older in step: equal ones stay equal, a smaller one smaller.
LEMMA OlderInStep ==
    ASSUME NEW e \in Entry, NEW f \in Entry,
           e.since = f.since, e.lastSeen <= f.lastSeen
    PROVE  /\ Older(e).since = Older(f).since
           /\ Older(e).lastSeen <= Older(f).lastSeen
BY GuardAssumption DEF Entry, Older

\* A day that passes leaves whoever holds the used guards holding them.
LEMMA AgedHolds ==
    ASSUME NEW s \in States, used \in States, Holds(s),
           used' = InTermOnly(Aged(used)), NEW t, t = Aged(s)
    PROVE  Holds(t)'
<1> SUFFICES ASSUME NEW n \in Pinned(used')
             PROVE  /\ t[n] # NotPinned
                    /\ t[n].since = used'[n].since
                    /\ t[n].lastSeen <= used'[n].lastSeen
  BY DEF Holds, Pinned
<1>1. n \in Pinned(Aged(used)) /\ used'[n] = Aged(used)[n]
  BY AgedStates, InTermStates
<1>2. n \in Pinned(used) /\ used'[n] = Older(used[n])
  BY <1>1, AgedStates
<1>3. /\ s[n] # NotPinned /\ s[n].since = used[n].since
      /\ s[n].lastSeen <= used[n].lastSeen
  BY <1>2 DEF Holds
<1>4. n \in Pinned(s) /\ s[n] \in Entry /\ used[n] \in Entry
  BY <1>2, <1>3 DEF Pinned, States
<1>5. t[n] = Older(s[n])
  BY <1>4, AgedStates
<1>6. /\ Older(s[n]).since = Older(used[n]).since
      /\ Older(s[n]).lastSeen <= Older(used[n]).lastSeen
  BY <1>3, <1>4, OlderInStep
<1>7. Older(s[n]) # NotPinned
  BY <1>4, OlderEntry
<1> QED BY <1>2, <1>5, <1>6, <1>7

\* The strengthened invariant is one.
LEMMA GuardInvHolds == Spec => []GuardInv
<1>1. Init => GuardInv
  BY DEF Init, GuardInv, GuardsStay, Holds, Unpinned, Pinned
<1>2. TypeOK /\ GuardInv /\ [Next]_vars => GuardInv'
  <2> SUFFICES ASSUME TypeOK, GuardInv, [Next]_vars PROVE GuardInv'
    OBVIOUS
  <2>0. st \in States /\ disk \in States /\ used \in States
    BY DEF TypeOK, States
  <2>1. CASE ChooseGuards
    <3>1. PICK S \in NewGuards(Kept) :
            st' = [n \in Node |-> IF n \in S THEN [since |-> 0, lastSeen |-> 0]
                                             ELSE Kept[n]]
      BY <2>1 DEF ChooseGuards
    <3>2. Pinned(st') = Pinned(Kept) \cup S /\ \A n \in Pinned(Kept) : st'[n] = Kept[n]
      BY <3>1, ChosenStates
    <3>3. ASSUME NEW n \in Pinned(used)
          PROVE  /\ st'[n] # NotPinned
                 /\ st'[n].since = used[n].since
                 /\ st'[n].lastSeen <= used[n].lastSeen
      <4>1. /\ n \in Pinned(st) /\ st[n].since = used[n].since
            /\ st[n].lastSeen <= used[n].lastSeen
        BY DEF GuardInv, GuardsStay, Holds, Pinned
      <4>2. st[n] \in Entry /\ used[n] \in Entry
        BY <2>0, <4>1 DEF States, Pinned
      <4>3. InTerm(used[n])
        BY DEF GuardInv
      <4>4. InTerm(st[n])
        <5> DEFINE e == st[n]  f == used[n]
        <5>1. e \in Entry /\ f \in Entry /\ e.since = f.since /\ e.lastSeen <= f.lastSeen
          BY <4>1, <4>2
        <5>2. f.since <= GuardDays /\ f.lastSeen <= GuardRetireDays
          BY <4>3 DEF InTerm
        <5> HIDE DEF e, f
        <5>3. InTerm(e)
          BY <5>1, <5>2, GuardAssumption DEF InTerm, Entry
        <5> QED BY <5>3 DEF e
      <4>5. /\ n \in Pinned(Kept) /\ Kept[n].since = st[n].since
            /\ Kept[n].lastSeen <= st[n].lastSeen
        BY <4>1, <4>4, KeptStates
      <4>6. Kept[n] \in Entry
        BY <4>5, KeptStates DEF States, Pinned
      <4>7. Kept[n].lastSeen <= used[n].lastSeen
        BY <4>1, <4>2, <4>5, <4>6, GuardAssumption DEF Entry
      <4> QED BY <3>2, <4>1, <4>5, <4>7 DEF Pinned
    <3>4. Holds(st)'
      BY <2>1, <3>3 DEF ChooseGuards, Holds, Pinned
    <3>5. ~unsaved => Holds(disk)'
      BY <2>1 DEF ChooseGuards, GuardInv, GuardsStay, Holds, Pinned
    <3> QED BY <2>1, <3>4, <3>5 DEF ChooseGuards, GuardInv, GuardsStay, Pinned
  <2>2. CASE BuildFails
    BY <2>2 DEF BuildFails, GuardInv, GuardsStay, Holds, Pinned
  <2>3. CASE Save
    BY <2>3 DEF Save, GuardInv, GuardsStay, Holds, Pinned
  <2>4. CASE Install
    <3>1. PICK S \in GuardsOfCircuits(active) :
            used' = [n \in Node |-> IF n \in S THEN InTermOnly(st)[n] ELSE used[n]]
      BY <2>4 DEF Install
    <3>2. ASSUME NEW n \in Pinned(used')
          PROVE  \/ n \in Pinned(used) /\ used'[n] = used[n]
                 \/ n \in Pinned(st) /\ used'[n] = st[n] /\ InTerm(st[n])
      <4>1. CASE n \in S
        BY <2>0, <3>1, <4>1, InTermStates DEF Pinned
      <4>2. CASE n \notin S
        BY <3>1, <4>2 DEF Pinned
      <4> QED BY <4>1, <4>2
    <3>3. \A n \in Pinned(st) : st[n].lastSeen <= st[n].lastSeen
      BY <2>0, GuardAssumption DEF States, Pinned, Entry
    <3>4. Holds(st)'
      BY <2>4, <3>2, <3>3 DEF Install, GuardInv, GuardsStay, Holds, Pinned
    <3>5. ~unsaved' => Holds(disk)'
      BY <2>4, <3>2, <3>3 DEF Install, GuardInv, GuardsStay, Holds, Pinned
    <3>6. \A n \in Pinned(used') : InTerm(used'[n])
      BY <3>2 DEF GuardInv
    <3> QED BY <2>4, <3>4, <3>5, <3>6 DEF Install, GuardInv, GuardsStay, Pinned
  <2>5. CASE Restart
    BY <2>5 DEF Restart, GuardInv, GuardsStay, Holds, Unpinned, Pinned
  <2>6. CASE Tick
    <3>1. Holds(st)'
      BY <2>0, <2>6, AgedHolds DEF Tick, GuardInv, GuardsStay
    <3>2. ~unsaved' => Holds(disk)'
      BY <2>0, <2>6, AgedHolds DEF Tick, GuardInv, GuardsStay
    <3>3. \A n \in Pinned(used') : InTerm(used'[n])
      BY <2>0, <2>6, AgedStates, InTermStates DEF Tick
    <3> QED BY <2>6, <3>1, <3>2, <3>3 DEF Tick, GuardInv, GuardsStay, Pinned
  <2>7. CASE Change
    BY <2>7 DEF Change, GuardInv, GuardsStay, Holds, Pinned
  <2>8. CASE UNCHANGED vars
    BY <2>8 DEF vars, GuardInv, GuardsStay, Holds, Pinned
  <2> QED BY <2>1, <2>2, <2>3, <2>4, <2>5, <2>6, <2>7, <2>8 DEF Next
<1> QED BY <1>1, <1>2, TypeCorrect, PTL DEF Spec

\* A guard that got circuits stays pinned, in memory and in the file, until
\* its term ends: no refresh, crash or absence before that drops it.
THEOREM GuardsStayPinned == Spec => []GuardsStay
<1>1. GuardInv => GuardsStay
  BY DEF GuardInv
<1> QED BY <1>1, GuardInvHolds, PTL

\* Guards used within their terms are pinned ones, so there are no more of
\* them than the bound: making nodes leave and return gains nothing.
THEOREM ExposureStaysBounded == Spec => []ExposureBound
<1>1. PinnedBound /\ GuardsStay => ExposureBound
  <2> SUFFICES ASSUME PinnedBound, GuardsStay PROVE ExposureBound
    OBVIOUS
  <2>1. Pinned(used) \subseteq Pinned(st)
    BY DEF GuardsStay, Holds, Pinned
  <2>2. Cardinality(Pinned(used)) <= Cardinality(Pinned(st))
    BY <2>1, PinnedFinite, FS_Subset
  <2>3. MaxPinned \in Nat
    BY GuardAssumption DEF MaxPinned
  <2> QED BY <2>2, <2>3, PinnedFinite DEF PinnedBound, ExposureBound
<1> QED BY <1>1, PinnedStayBounded, GuardsStayPinned, PTL

----------------------------------------------------------------------------
\* Induction, without predicates as parameters: it is stated for sets.

\* The order on the natural numbers.
SmallerThan == {p \in Nat \X Nat : p[1] < p[2]}

\* Every non-empty set of natural numbers has a least member.
LEMMA LeastMember ==
    ASSUME NEW T, T \subseteq Nat, T # {}
    PROVE  \E x \in T : \A y \in T : x <= y
<1>1. IsWellFoundedOn(SmallerThan, Nat)
  BY NatLessThanWellFounded DEF OpToRel, SmallerThan
<1>2. PICK x \in T : \A y \in T : ~ (<<y, x>> \in SmallerThan)
  BY <1>1, WFMin
<1>3. ASSUME NEW y \in T PROVE x <= y
  <2>1. x \in Nat /\ y \in Nat
    OBVIOUS
  <2>2. <<y, x>> \notin SmallerThan
    BY <1>2
  <2> QED BY <2>1, <2>2 DEF SmallerThan
<1> QED BY <1>3

\* Course-of-values induction.
LEMMA Induction ==
    ASSUME NEW T, ASSUME NEW n \in Nat, \A k \in Nat : k < n => k \in T PROVE n \in T
    PROVE  Nat \subseteq T
<1> SUFFICES ASSUME Nat \ T # {} PROVE FALSE
  OBVIOUS
<1>1. PICK n \in Nat \ T : \A y \in Nat \ T : n <= y
  BY LeastMember, Nat \ T \subseteq Nat, Zenon
<1>2. \A k \in Nat : k < n => k \in T
  BY <1>1
<1> QED BY <1>2

----------------------------------------------------------------------------
\* The table of autonomous systems.

Row == [lo : Nat, hi : Nat, asn : Nat]

\* The place of a row in the table, from 0.
Rank(i) == Cardinality({j \in UsableRows : Before(j, i)})

\* Usable rows are intervals.
LEMMA RowFields ==
    ASSUME NEW i \in UsableRows
    PROVE  /\ File[i] \in Row /\ File[i].lo \in Nat /\ File[i].hi \in Nat
           /\ File[i].lo <= File[i].hi /\ File[i].asn \in Nat \ {0} /\ i \in Nat
<1>1. i \in 1..Len(File) /\ Usable(File[i])
  BY DEF UsableRows
<1>2. File[i] \in Row
  BY <1>1, FileAssumption, ElementOfSeq DEF Row
<1> QED BY <1>1, <1>2, FileAssumption, LenProperties DEF Usable, Row

\* Any two of them have an order, and only one.
LEMMA BeforeOrders ==
    ASSUME NEW i \in UsableRows, NEW j \in UsableRows
    PROVE  /\ ~Before(i, i)
           /\ i # j => Before(i, j) \/ Before(j, i)
           /\ \A k \in UsableRows : Before(k, i) /\ Before(i, j) => Before(k, j)
<1>1. \A k \in UsableRows : k \in Nat /\ File[k].lo \in Nat
  BY RowFields
<1> QED BY <1>1 DEF Before

\* There are finitely many of them, and of those below one of them.
LEMMA RowsFinite ==
    /\ IsFiniteSet(UsableRows) /\ Cardinality(UsableRows) \in Nat
    /\ \A i \in UsableRows :
         /\ IsFiniteSet({j \in UsableRows : Before(j, i)})
         /\ Rank(i) \in Nat /\ Rank(i) < Cardinality(UsableRows)
<1>1. IsFiniteSet(UsableRows)
  <2>1. Len(File) \in Nat
    BY FileAssumption, LenProperties
  <2>2. IsFiniteSet(1..Len(File))
    BY <2>1, FS_Interval
  <2>3. UsableRows \subseteq 1..Len(File)
    BY DEF UsableRows
  <2> QED BY <2>2, <2>3, FS_Subset
<1>2. Cardinality(UsableRows) \in Nat
  BY <1>1, FS_CardinalityType
<1>3. ASSUME NEW i \in UsableRows
      PROVE  /\ IsFiniteSet({j \in UsableRows : Before(j, i)})
             /\ Rank(i) \in Nat /\ Rank(i) < Cardinality(UsableRows)
  <2> DEFINE B == {j \in UsableRows : Before(j, i)}
  <2>1. B \subseteq UsableRows /\ i \notin B
    BY BeforeOrders
  <2>2. IsFiniteSet(B) /\ Cardinality(B) <= Cardinality(UsableRows)
        /\ (Cardinality(B) = Cardinality(UsableRows) => B = UsableRows)
    BY <1>1, <2>1, FS_Subset
  <2>3. Cardinality(B) \in Nat
    BY <2>2, FS_CardinalityType
  <2>4. Cardinality(B) # Cardinality(UsableRows)
    BY <1>3, <2>1, <2>2
  <2> HIDE DEF B
  <2>5. Cardinality(B) < Cardinality(UsableRows)
    BY <1>2, <2>2, <2>3, <2>4
  <2> QED BY <2>2, <2>3, <2>5 DEF Rank, B
<1> QED BY <1>1, <1>2, <1>3

\* Places are numbers below that of the rows.
LEMMA RankType ==
    \E n \in Nat : /\ n = Cardinality(UsableRows)
                  /\ \A i \in UsableRows : Rank(i) \in Nat /\ Rank(i) < n
BY RowsFinite

\* A row that stands before another has the lower place.
LEMMA RankOrder ==
    ASSUME NEW i \in UsableRows, NEW j \in UsableRows, Before(i, j)
    PROVE  Rank(i) < Rank(j)
<1> DEFINE A == {k \in UsableRows : Before(k, i)}
           B == {k \in UsableRows : Before(k, j)}
<1>2. A \subseteq B /\ i \in B /\ i \notin A
  BY BeforeOrders
<1>3. IsFiniteSet(B) /\ IsFiniteSet(A) /\ Rank(i) \in Nat /\ Rank(j) \in Nat
  BY RowsFinite
<1>4. Rank(i) = Cardinality(A) /\ Rank(j) = Cardinality(B)
  BY DEF Rank
<1> HIDE DEF A, B
<1>5. Cardinality(A) <= Cardinality(B) /\ (Cardinality(A) = Cardinality(B) => A = B)
  BY <1>2, <1>3, FS_Subset
<1> QED BY <1>2, <1>3, <1>4, <1>5

\* Different rows have different places.
LEMMA RankInjective ==
    ASSUME NEW i \in UsableRows, NEW j \in UsableRows, Rank(i) = Rank(j)
    PROVE  i = j
<1> SUFFICES ASSUME i # j PROVE FALSE
  OBVIOUS
<1>1. Before(i, j) \/ Before(j, i)
  BY BeforeOrders
<1>2. Rank(i) < Rank(j) \/ Rank(j) < Rank(i)
  BY <1>1, RankOrder
<1>3. Rank(i) \in Nat /\ Rank(j) \in Nat
  BY RankType
<1> QED BY <1>2, <1>3

\* Every place is taken.
LEMMA RankTaken ==
    ASSUME NEW k \in 1..Cardinality(UsableRows)
    PROVE  \E i \in UsableRows : Rank(i) = k - 1
<1>1. PICK n \in Nat : /\ n = Cardinality(UsableRows)
                      /\ \A i \in UsableRows : Rank(i) \in Nat /\ Rank(i) < n
  BY RankType
<1> DEFINE place == [i \in UsableRows |-> Rank(i) + 1]
<1>2. place \in [UsableRows -> 1..n]
  BY <1>1
<1>3. ASSUME NEW i \in UsableRows, NEW j \in UsableRows, place[i] = place[j] PROVE i = j
  <2>1. Rank(i) = Rank(j)
    BY <1>1, <1>3
  <2> QED BY <2>1, RankInjective
<1>4. place \in Injection(UsableRows, 1..n)
  BY <1>2, <1>3 DEF Injection, IsInjective
<1>5. IsFiniteSet(1..n) /\ Cardinality(1..n) = n
  BY <1>1, FS_Interval
<1> HIDE DEF place
<1>6. place \in Surjection(UsableRows, 1..n)
  BY <1>1, <1>4, <1>5, RowsFinite, FS_Injection
<1>7. PICK i \in UsableRows : place[i] = k
  BY <1>1, <1>6 DEF Surjection
<1> QED BY <1>1, <1>7 DEF place

\* The table holds the usable rows, each at its place.
LEMMA TableRows ==
    /\ Table \in Seq(Row) /\ Len(Table) = Cardinality(UsableRows) /\ Len(Table) \in Nat
    /\ \A k \in 1..Len(Table) : \E i \in UsableRows : Rank(i) = k - 1 /\ Table[k] = File[i]
    /\ \A i \in UsableRows : \E k \in 1..Len(Table) : Table[k] = File[i]
<1> DEFINE n == Cardinality(UsableRows)
<1>1. n \in Nat
  BY RowsFinite
<1>2. ASSUME NEW k \in 1..n
      PROVE  \E i \in UsableRows : Rank(i) = k - 1 /\ Table[k] = File[i]
  <2>1. \E i \in UsableRows : Rank(i) = k - 1
    BY RankTaken
  <2>2. PICK i : i = CHOOSE j \in UsableRows : Rank(j) = k - 1
    OBVIOUS
  <2>3. i \in UsableRows /\ Rank(i) = k - 1
    BY <2>1, <2>2
  <2>4. Table[k] = File[i]
    BY <2>2 DEF Table, Rank
  <2> QED BY <2>3, <2>4
<1>3. Table = [k \in 1..n |-> Table[k]]
  BY DEF Table
<1>4. \A k \in 1..n : Table[k] \in Row
  BY <1>2, RowFields
<1>5. Table \in Seq(Row) /\ Len(Table) = n
  <2> HIDE DEF n
  <2>1. Table \in [1..n -> Row]
    BY <1>3, <1>4
  <2>2. Table \in Seq(Row)
    BY <1>1, <2>1, SeqDef
  <2>3. Len(Table) \in Nat /\ 1..Len(Table) = 1..n
    BY <2>1, <2>2, LenProperties
  <2>4. Len(Table) = n
    BY <1>1, <2>3
  <2> QED BY <2>2, <2>4
<1>6. ASSUME NEW i \in UsableRows PROVE \E k \in 1..n : Table[k] = File[i]
  <2>1. Rank(i) + 1 \in 1..n /\ Rank(i) \in Nat
    BY <1>1, RankType
  <2>2. PICK j \in UsableRows : Rank(j) = (Rank(i) + 1) - 1 /\ Table[Rank(i) + 1] = File[j]
    BY <1>2, <2>1
  <2>3. Rank(j) = Rank(i)
    BY <2>1, <2>2
  <2>4. j = i
    BY <2>3, RankInjective
  <2> QED BY <2>1, <2>2, <2>4
<1> QED BY <1>1, <1>2, <1>5, <1>6

\* Each row ends before the next one begins, if no two overlap.
LEMMA TableSorted ==
    ASSUME OneOwner, NEW k \in 1..Len(Table), NEW l \in 1..Len(Table), k < l
    PROVE  /\ Table[k].hi < Table[l].lo /\ Table[l].lo <= Table[l].hi
           /\ Table[k].hi \in Nat /\ Table[l].lo \in Nat /\ Table[l].hi \in Nat
<1>1. PICK i \in UsableRows : Rank(i) = k - 1 /\ Table[k] = File[i]
  BY TableRows
<1>2. PICK j \in UsableRows : Rank(j) = l - 1 /\ Table[l] = File[j]
  BY TableRows
<1>3. i # j
  BY <1>1, <1>2, TableRows
<1>4. ~ (File[j].lo < File[i].lo)
  BY <1>1, <1>2, RankOrder, RowsFinite DEF Before
<1>5. File[i].hi < File[j].lo \/ File[j].hi < File[i].lo
  BY <1>3 DEF OneOwner
<1> QED BY <1>1, <1>2, <1>4, <1>5, RowFields

----------------------------------------------------------------------------
\* The binary search.

\* What the search among the rows r is to find: the first one whose upper end is not
\* below v, or where they end.
Found(v, r, k) ==
    IF r[1] >= r[2] THEN k = r[1]
    ELSE /\ k \in r[1]..r[2]
         /\ \A l \in 1..Len(Table) : (r[1] < l /\ l <= k) => Table[l].hi < v
         /\ k < r[2] => ~(Table[k + 1].hi < v)

\* The rows that may be searched.
Ranges == (0..Len(Table)) \X (0..Len(Table))

\* One iteration of the search, given what the next one, g, finds.
SearchBody(v, g) ==
    [r \in Ranges |->
        IF r[1] >= r[2] THEN r[1]
        ELSE LET h == (r[1] + r[2]) \div 2
             IN IF Table[h + 1].hi < v THEN g[<<h + 1, r[2]>>] ELSE g[<<r[1], h>>]]

\* Upper ends are numbers, in ascending order if no two rows overlap.
LEMMA UpperEnds ==
    ASSUME OneOwner
    PROVE  /\ \A k \in 1..Len(Table) : Table[k].hi \in Nat
           /\ \A k, l \in 1..Len(Table) : k <= l => Table[k].hi <= Table[l].hi
<1>1. ASSUME NEW k \in 1..Len(Table) PROVE Table[k].hi \in Nat
  <2>1. PICK i \in UsableRows : Table[k] = File[i]
    BY TableRows
  <2> QED BY <2>1, RowFields
<1>2. ASSUME NEW k \in 1..Len(Table), NEW l \in 1..Len(Table), k <= l
      PROVE  Table[k].hi <= Table[l].hi
  <2>1. CASE k = l
    BY <1>1, <2>1
  <2>2. CASE k < l
    BY <2>2, TableSorted
  <2> QED BY <1>2, <2>1, <2>2, TableRows
<1> QED BY <1>1, <1>2

\* Among any rows there is something to be found.
LEMMA FoundExists ==
    ASSUME NEW v \in Nat, NEW r \in Ranges
    PROVE  \E k \in 0..Len(Table) : Found(v, r, k)
<1>0. PICK n \in Nat : n = Len(Table)
  BY TableRows
<1>1. PICK i \in 0..n, j \in 0..n : n = Len(Table) /\ r = <<i, j>>
  BY <1>0 DEF Ranges
<1>2. r[1] = i /\ r[2] = j
  BY <1>1
<1>3. CASE i >= j
  BY <1>1, <1>2, <1>3 DEF Found
<1>4. CASE i < j
  <2> DEFINE T == {k \in i..j : k = j \/ ~(Table[k + 1].hi < v)}
  <2>1. T # {} /\ T \subseteq Nat
    <3>1. j \in i..j /\ i..j \subseteq Nat
      BY <1>1, <1>4
    <3> QED BY <3>1
  <2>2. PICK k \in T : \A l \in T : k <= l
    <3> HIDE DEF T
    <3> QED BY <2>1, LeastMember
  <2>3. k \in i..j /\ (k < j => ~(Table[k + 1].hi < v))
    OBVIOUS
  <2>4. ASSUME NEW l \in 1..n, i < l, l <= k PROVE Table[l].hi < v
    <3>1. l - 1 \in i..j /\ l - 1 # j /\ ~(k <= l - 1) /\ (l - 1) + 1 = l
      BY <1>1, <2>3, <2>4
    <3>2. l - 1 \notin T
      BY <2>2, <3>1
    <3> QED BY <3>1, <3>2
  <2>5. k \in 0..n
    BY <1>1, <2>3
  <2> QED BY <1>1, <1>2, <1>4, <2>3, <2>4, <2>5 DEF Found
<1> QED BY <1>1, <1>3, <1>4

\* Looking in the half that the middle row points to finds the same.
LEMMA FoundHalf ==
    ASSUME OneOwner, NEW v \in Nat, NEW i \in 0..Len(Table), NEW j \in 0..Len(Table), i < j,
           NEW h, h = (i + j) \div 2, NEW k
    PROVE  /\ h + 1 \in 0..Len(Table) /\ h \in 0..Len(Table) /\ i <= h /\ h < j
           /\ Table[h + 1].hi < v /\ Found(v, <<h + 1, j>>, k) => Found(v, <<i, j>>, k)
           /\ ~(Table[h + 1].hi < v) /\ Found(v, <<i, h>>, k) => Found(v, <<i, j>>, k)
<1>1. PICK n \in Nat : n = Len(Table)
  BY TableRows
<1>2. i \in Nat /\ j \in Nat /\ j <= n /\ h \in Nat /\ i <= h /\ h < j
  BY <1>1
<1>3. h + 1 \in 1..n
  BY <1>1, <1>2
<1>4. ASSUME Table[h + 1].hi < v, Found(v, <<h + 1, j>>, k)
      PROVE  Found(v, <<i, j>>, k)
  <2>1. k \in h + 1..j /\ (k < j => ~(Table[k + 1].hi < v))
        /\ \A l \in 1..n : (h + 1 < l /\ l <= k) => Table[l].hi < v
    BY <1>1, <1>2, <1>4 DEF Found
  <2>2. ASSUME NEW l \in 1..n, i < l, l <= k PROVE Table[l].hi < v
    <3>1. CASE h + 1 < l
      BY <2>1, <2>2, <3>1
    <3>2. CASE l <= h + 1
      <4>1. Table[l].hi <= Table[h + 1].hi /\ Table[l].hi \in Nat /\ Table[h + 1].hi \in Nat
        BY <1>1, <1>3, <3>2, UpperEnds
      <4> QED BY <1>4, <4>1
    <3> QED BY <1>2, <3>1, <3>2
  <2>3. k \in i..j
    BY <1>2, <2>1
  <2> QED BY <1>1, <1>2, <2>1, <2>2, <2>3 DEF Found
<1>5. ASSUME ~(Table[h + 1].hi < v), Found(v, <<i, h>>, k)
      PROVE  Found(v, <<i, j>>, k)
  <2>1. CASE i = h
    <3>1. k = i
      BY <1>2, <1>5, <2>1 DEF Found
    <3> QED BY <1>1, <1>2, <1>5, <2>1, <3>1 DEF Found
  <2>2. CASE i < h
    <3>1. k \in i..h /\ (k < h => ~(Table[k + 1].hi < v))
          /\ \A l \in 1..n : (i < l /\ l <= k) => Table[l].hi < v
      BY <1>1, <1>2, <1>5, <2>2 DEF Found
    <3>2. k \in i..j /\ (k < j => ~(Table[k + 1].hi < v))
      BY <1>2, <1>5, <3>1
    <3> QED BY <1>1, <1>2, <3>1, <3>2 DEF Found
  <2> QED BY <1>2, <2>1, <2>2
<1> QED BY <1>1, <1>2, <1>3, <1>4, <1>5

\* At most one place is the right one.
LEMMA FoundUnique ==
    ASSUME NEW v \in Nat, NEW r \in Ranges, NEW k, NEW l, Found(v, r, k), Found(v, r, l)
    PROVE  k = l
<1>0. PICK n \in Nat : n = Len(Table)
  BY TableRows
<1>1. PICK i \in 0..n, j \in 0..n : n = Len(Table) /\ r = <<i, j>>
  BY <1>0 DEF Ranges
<1>2. r[1] = i /\ r[2] = j
  BY <1>1
<1>3. CASE i >= j
  BY <1>2, <1>3 DEF Found
<1>4. CASE i < j
  <2>1. /\ k \in i..j /\ (k < j => ~(Table[k + 1].hi < v))
        /\ \A m \in 1..n : (i < m /\ m <= k) => Table[m].hi < v
    BY <1>1, <1>2, <1>4 DEF Found
  <2>2. /\ l \in i..j /\ (l < j => ~(Table[l + 1].hi < v))
        /\ \A m \in 1..n : (i < m /\ m <= l) => Table[m].hi < v
    BY <1>1, <1>2, <1>4 DEF Found
  <2>3. ~(k < l)
    <3> SUFFICES ASSUME k < l PROVE FALSE
      OBVIOUS
    <3>1. k + 1 \in 1..n /\ i < k + 1 /\ k + 1 <= l /\ k < j
      BY <1>1, <2>1, <2>2
    <3> QED BY <2>1, <2>2, <3>1
  <2>4. ~(l < k)
    <3> SUFFICES ASSUME l < k PROVE FALSE
      OBVIOUS
    <3>1. l + 1 \in 1..n /\ i < l + 1 /\ l + 1 <= k /\ l < j
      BY <1>1, <2>1, <2>2
    <3> QED BY <2>1, <2>2, <3>1
  <2> QED BY <1>1, <2>1, <2>2, <2>3, <2>4
<1> QED BY <1>1, <1>3, <1>4

\* The search is defined: what there is to be found solves its recursion.
LEMMA SearchExists ==
    ASSUME OneOwner, NEW v \in Nat
    PROVE  \E f : f = SearchBody(v, f)
<1> DEFINE f == [r \in Ranges |-> CHOOSE k \in 0..Len(Table) : Found(v, r, k)]
<1>1. \A r \in Ranges : f[r] \in 0..Len(Table) /\ Found(v, r, f[r])
  BY FoundExists
<1>2. ASSUME NEW i \in 0..Len(Table), NEW j \in 0..Len(Table)
      PROVE  f[<<i, j>>] = SearchBody(v, f)[<<i, j>>]
  <2>a. PICK r : r = <<i, j>>
    OBVIOUS
  <2>1. r = <<i, j>> /\ r \in Ranges /\ r[1] = i /\ r[2] = j
    BY <2>a DEF Ranges
  <2>2. Found(v, r, f[r])
    BY <1>1, <2>1
  <2> HIDE DEF f
  <2>3. CASE i >= j
    <3>1. SearchBody(v, f)[r] = i
      BY <2>1, <2>3 DEF SearchBody
    <3>2. f[r] = i
      BY <2>1, <2>2, <2>3 DEF Found
    <3> QED BY <2>1, <3>1, <3>2
  <2>4. CASE ~(i >= j)
    <3>1. PICK h : h = (i + j) \div 2
      OBVIOUS
    <3>2. SearchBody(v, f)[r] = IF Table[h + 1].hi < v THEN f[<<h + 1, j>>] ELSE f[<<i, h>>]
      BY <2>1, <2>4, <3>1 DEF SearchBody
    <3>3. i < j
      BY <2>4, TableRows
    <3>4. h + 1 \in 0..Len(Table) /\ h \in 0..Len(Table)
      BY <3>1, <3>3, FoundHalf
    <3>5. <<h + 1, j>> \in Ranges /\ <<i, h>> \in Ranges
      BY <3>4 DEF Ranges
    <3>6. Found(v, <<h + 1, j>>, f[<<h + 1, j>>]) /\ Found(v, <<i, h>>, f[<<i, h>>])
      BY <1>1, <3>5
    <3>7. CASE Table[h + 1].hi < v
      <4>1. Found(v, <<i, j>>, f[<<h + 1, j>>])
        BY <3>1, <3>3, <3>6, <3>7, FoundHalf
      <4> QED BY <2>1, <2>2, <3>2, <3>7, <4>1, FoundUnique
    <3>8. CASE ~(Table[h + 1].hi < v)
      <4>1. Found(v, <<i, j>>, f[<<i, h>>])
        BY <3>1, <3>3, <3>6, <3>8, FoundHalf
      <4> QED BY <2>1, <2>2, <3>2, <3>8, <4>1, FoundUnique
    <3> QED BY <3>7, <3>8
  <2> QED BY <2>3, <2>4
<1>3. f = SearchBody(v, f)
  <2>1. \A r \in Ranges : f[r] = SearchBody(v, f)[r]
    <3> HIDE DEF f
    <3> QED BY <1>2 DEF Ranges
  <2>2. DOMAIN f = Ranges /\ f = [r \in Ranges |-> f[r]]
    OBVIOUS
  <2>3. SearchBody(v, f) = [r \in Ranges |-> SearchBody(v, f)[r]]
    BY DEF SearchBody
  <2> HIDE DEF f
  <2> QED BY <2>1, <2>2, <2>3
<1> QED BY <1>3

\* sort.Search finds the first row whose upper end is not below v.
LEMMA SearchFinds ==
    ASSUME OneOwner, NEW v \in Nat
    PROVE  Found(v, <<0, Len(Table)>>, Search(v))
<1>1. PICK f : f = SearchBody(v, f) /\ Search(v) = f[<<0, Len(Table)>>]
  <2>1. Search(v) = (CHOOSE f : f = SearchBody(v, f))[<<0, Len(Table)>>]
    BY DEF Search, SearchBody, Ranges
  <2> QED BY <2>1, SearchExists
<1> DEFINE T == {w \in Nat : \A i, j \in 0..Len(Table) :
                    j <= i + w => Found(v, <<i, j>>, f[<<i, j>>])}
<1>2. ASSUME NEW w \in Nat, \A u \in Nat : u < w => u \in T PROVE w \in T
  <2> SUFFICES ASSUME NEW i \in 0..Len(Table), NEW j \in 0..Len(Table), j <= i + w
               PROVE  Found(v, <<i, j>>, f[<<i, j>>])
    OBVIOUS
  <2>0. i \in Nat /\ j \in Nat
    BY TableRows
  <2>a. PICK r : r = <<i, j>>
    OBVIOUS
  <2>1. r = <<i, j>> /\ r \in Ranges /\ r[1] = i /\ r[2] = j
    BY <2>a DEF Ranges
  <2>2. PICK h : h = (i + j) \div 2
    OBVIOUS
  <2>3. f[r] = IF i >= j THEN i
               ELSE IF Table[h + 1].hi < v THEN f[<<h + 1, j>>] ELSE f[<<i, h>>]
    <3>1. f[r] = SearchBody(v, f)[r]
      BY <1>1
    <3> QED BY <2>1, <2>2, <3>1 DEF SearchBody
  <2>4. CASE i >= j
    BY <2>1, <2>3, <2>4 DEF Found
  <2>5. CASE i < j
    <3>1. h + 1 \in 0..Len(Table) /\ h \in 0..Len(Table) /\ i <= h /\ h < j
      BY <2>2, <2>5, FoundHalf
    <3>2. w # 0 /\ w - 1 \in Nat /\ w - 1 < w /\ j <= (h + 1) + (w - 1) /\ h <= i + (w - 1)
      BY <2>0, <2>2, <2>5
    <3>3. w - 1 \in T
      BY <1>2, <3>2
    <3>4. Found(v, <<h + 1, j>>, f[<<h + 1, j>>]) /\ Found(v, <<i, h>>, f[<<i, h>>])
      BY <3>1, <3>2, <3>3
    <3> HIDE DEF T
    <3>5. CASE Table[h + 1].hi < v
      <4>1. f[r] = f[<<h + 1, j>>]
        BY <2>0, <2>3, <2>5, <3>5
      <4> QED BY <2>1, <2>2, <2>5, <3>4, <3>5, <4>1, FoundHalf
    <3>6. CASE ~(Table[h + 1].hi < v)
      <4>1. f[r] = f[<<i, h>>]
        BY <2>0, <2>3, <2>5, <3>6
      <4> QED BY <2>1, <2>2, <2>5, <3>4, <3>6, <4>1, FoundHalf
    <3> QED BY <3>5, <3>6
  <2> QED BY <2>0, <2>4, <2>5
<1>3. Nat \subseteq T
  <2> HIDE DEF T
  <2> QED BY <1>2, Induction
<1>4. PICK n \in Nat : n = Len(Table)
  BY TableRows
<1>5. n \in T /\ 0 \in 0..n /\ n \in 0..n /\ n <= 0 + n
  BY <1>3
<1> QED BY <1>1, <1>4, <1>5

----------------------------------------------------------------------------
\* Relations between nodes.

\* ASNTable.Lookup: if no two rows overlap, the system in one of whose rows an address
\* lies is the one found.
LEMMA LookupFindsOwner ==
    ASSUME OneOwner, NEW n \in Relay, NEW a \in Owners(n)
    PROVE  Lookup[n] = a /\ a # 0
<1>1. PICK i \in 1..Len(File) : /\ a = File[i].asn /\ Usable(File[i]) /\ Version[n] = 4
                                /\ Host[n] \in File[i].lo..File[i].hi
  BY DEF Owners
<1>2. i \in UsableRows
  BY <1>1 DEF UsableRows
<1>3. PICK v \in Nat : v = Host[n]
  BY RelayAssumption
<1>4. PICK l \in 1..Len(Table) : Table[l] = File[i]
  BY <1>2, TableRows
<1>5. Table[l].lo <= v /\ v <= Table[l].hi /\ Table[l].lo \in Nat /\ Table[l].hi \in Nat
  BY <1>1, <1>2, <1>3, <1>4, RowFields
<1>6. PICK m \in Nat : m = Len(Table)
  BY TableRows
<1>7. PICK k : k = Search(v)
  OBVIOUS
<1>8. /\ k \in 0..m
      /\ k < m => ~(Table[k + 1].hi < v)
      /\ \A q \in 1..m : q <= k => Table[q].hi < v
  <2>a. PICK r : r = <<0, m>>
    OBVIOUS
  <2>1. r = <<0, m>> /\ r[1] = 0 /\ r[2] = m
    BY <2>a
  <2>2. Found(v, r, k)
    BY <1>3, <1>6, <1>7, <2>1, SearchFinds
  <2>3. 0 < m
    BY <1>4, <1>6
  <2> QED BY <1>6, <2>1, <2>2, <2>3 DEF Found
<1>9. l = k + 1
  <2>1. ~(l <= k)
    BY <1>5, <1>6, <1>8
  <2>2. ~(k + 1 < l)
    <3> SUFFICES ASSUME k + 1 < l PROVE FALSE
      OBVIOUS
    <3>1. k + 1 \in 1..m /\ k < m
      BY <1>4, <1>6, <1>8
    <3>2. Table[k + 1].hi < Table[l].lo /\ Table[k + 1].hi \in Nat
      BY <1>6, <3>1, TableSorted
    <3> QED BY <1>3, <1>5, <1>8, <3>1, <3>2
  <2> QED BY <1>6, <1>8, <2>1, <2>2
<1>10. k < m /\ Table[k + 1].lo <= Host[n] /\ Table[k + 1].asn = a
  BY <1>1, <1>3, <1>4, <1>5, <1>6, <1>8, <1>9
<1>11. Lookup[n] = Table[k + 1].asn
  BY <1>1, <1>3, <1>6, <1>7, <1>10 DEF Lookup
<1> QED BY <1>1, <1>2, <1>10, <1>11, RowFields

\* Compatible: what Related does not name has nothing in common.
LEMMA CompatibleUnrelated ==
    ASSUME NEW a \in Relay, NEW b \in Relay, <<a, b>> \notin Related
    PROVE  Unrelated(a, b) /\ Unrelated(b, a)
<1>1. PICK p : p = <<a, b>> /\ p \in Relay \X Relay /\ p[1] = a /\ p[2] = b
  OBVIOUS
<1>2. /\ a # b /\ ~SameFamily(a, b) /\ ~(Lookup[a] # 0 /\ Lookup[a] = Lookup[b])
      /\ ~(~IgnoreNet /\ NetKey(a) = NetKey(b))
  BY <1>1 DEF Related
<1>3. OneOwner => Owners(a) \cap Owners(b) = {}
  <2> SUFFICES ASSUME OneOwner, NEW o \in Owners(a), o \in Owners(b) PROVE FALSE
    OBVIOUS
  <2> QED BY <1>2, LookupFindsOwner
<1>4. ~IgnoreNet => ~SameNetwork(a, b) /\ ~SameNetwork(b, a)
  <2>1. Version[a] \in {4, 6} /\ Version[b] \in {4, 6}
    BY RelayAssumption
  <2> QED BY <1>2, <2>1 DEF NetKey, SameNetwork
<1> QED BY <1>2, <1>3, <1>4 DEF Unrelated, SameFamily

\* BuildCircuits: the circuits that may start at a guard.
LEMMA PathsUnrelatedFrom ==
    ASSUME NEW g \in Relay, NEW p \in PathsFrom(g)
    PROVE  /\ Unrelated(p.guard, p.middle) /\ Unrelated(p.guard, p.exit)
           /\ Unrelated(p.middle, p.exit)
<1>1. PICK m \in Picks(Middle, {g}) :
        p \in {[guard |-> g, middle |-> m, exit |-> e] : e \in Picks(Exit, {g, m})}
  BY DEF PathsFrom
<1>2. PICK e \in Picks(Exit, {g, m}) : p = [guard |-> g, middle |-> m, exit |-> e]
  BY <1>1
<1>3. m \in Relay /\ e \in Relay
  BY RelayAssumption DEF Picks
<1>4. <<m, g>> \notin Related /\ <<e, g>> \notin Related /\ <<e, m>> \notin Related
  BY DEF Picks, Compatible
<1>5. p.guard = g /\ p.middle = m /\ p.exit = e
  BY <1>2
<1> QED BY <1>3, <1>4, <1>5, CompatibleUnrelated

\* BuildCircuits, Compatible: no circuit from the guards in use has two nodes of one
\* family, one /16 or one IPv6 address, whatever the file says; nor, if its rows do
\* not overlap, two nodes of one autonomous system.
THEOREM PathsStayUnrelated == Spec => []PathsUnrelated
<1>1. TypeOK => PathsUnrelated
  <2> SUFFICES ASSUME TypeOK, NEW g \in active PROVE UnrelatedAt[g]
    BY DEF PathsUnrelated
  <2>1. g \in Node /\ g \in Relay
    BY GuardAssumption DEF TypeOK, Pinned
  <2>2. Paths[g] = PathsFrom(g)
    BY <2>1 DEF Paths
  <2> QED BY <2>1, <2>2, PathsUnrelatedFrom DEF UnrelatedAt
<1> QED BY <1>1, TypeCorrect, PTL

----------------------------------------------------------------------------
\* Weights.

\* The nodes of K whose claim is at most v.
Below(K, bw, v) == {n \in K : bw[n] <= v}

\* They are finitely many, and more the higher v is.
LEMMA BelowGrows ==
    ASSUME NEW K, IsFiniteSet(K), NEW bw, NEW v
    PROVE  /\ IsFiniteSet(Below(K, bw, v)) /\ Cardinality(Below(K, bw, v)) \in Nat
           /\ IsFiniteSet(K \ Below(K, bw, v)) /\ Cardinality(K \ Below(K, bw, v)) \in Nat
           /\ Cardinality(K) \in Nat
           /\ Cardinality(K \ Below(K, bw, v)) = Cardinality(K) - Cardinality(Below(K, bw, v))
<1>1. PICK B : B = Below(K, bw, v)
  OBVIOUS
<1>2. B \subseteq K /\ B \in SUBSET K
  BY <1>1 DEF Below
<1>3. IsFiniteSet(B) /\ Cardinality(B) \in Nat /\ Cardinality(K) \in Nat
  BY <1>2, FS_Subset, FS_CardinalityType
<1>4. K \cap B = B
  BY <1>2
<1>5. IsFiniteSet(K \ B) /\ Cardinality(K \ B) = Cardinality(K) - Cardinality(B)
  BY <1>4, FS_Difference
<1>6. Cardinality(K \ B) \in Nat
  BY <1>5, FS_CardinalityType
<1> QED BY <1>1, <1>3, <1>5, <1>6

\* Some number is above all claims.
LEMMA ClaimsBounded ==
    ASSUME NEW K, IsFiniteSet(K), NEW bw, \A n \in K : bw[n] \in Nat
    PROVE  \E v \in Nat : Below(K, bw, v) = K
<1> DEFINE U == {Cardinality(K \ Below(K, bw, v)) : v \in Nat}
<1>1. U \subseteq Nat /\ U # {}
  <2>1. \A v \in Nat : Cardinality(K \ Below(K, bw, v)) \in Nat
    BY BelowGrows
  <2>2. Cardinality(K \ Below(K, bw, 0)) \in U
    OBVIOUS
  <2> QED BY <2>1, <2>2
<1>2. PICK u \in U : \A w \in U : u <= w
  <2> HIDE DEF U
  <2> QED BY <1>1, LeastMember
<1>3. PICK v \in Nat : u = Cardinality(K \ Below(K, bw, v))
  OBVIOUS
<1>4. K \ Below(K, bw, v) = {}
  <2> SUFFICES ASSUME NEW n \in K \ Below(K, bw, v) PROVE FALSE
    OBVIOUS
  <2>1. PICK A, C : A = K \ Below(K, bw, v) /\ C = K \ Below(K, bw, bw[n])
    OBVIOUS
  <2>2. n \in A /\ n \notin C /\ C \subseteq A /\ C \in SUBSET A
    BY <2>1 DEF Below
  <2>3. IsFiniteSet(A) /\ Cardinality(A) \in Nat /\ Cardinality(C) \in Nat
    BY <2>1, BelowGrows
  <2>4. Cardinality(C) < Cardinality(A)
    <3>1. Cardinality(C) <= Cardinality(A) /\ (Cardinality(A) = Cardinality(C) => A = C)
      BY <2>2, <2>3, FS_Subset
    <3> QED BY <2>2, <2>3, <3>1
  <2>5. Cardinality(C) \in U
    BY <2>1
  <2> HIDE DEF U
  <2> QED BY <1>2, <1>3, <2>1, <2>3, <2>4, <2>5
<1> QED BY <1>4 DEF Below

\* m is an upper median of the claims of K.
IsMedian(K, bw, m) ==
    /\ m \in {bw[n] : n \in K}
    /\ Cardinality({n \in K : bw[n] < m}) <= Cardinality(K) \div 2
    /\ Cardinality(K) \div 2 < Cardinality({n \in K : bw[n] <= m})

\* bwCap: there is an upper median.
LEMMA MedianExists ==
    ASSUME NEW K, IsFiniteSet(K), K # {}, NEW bw, \A n \in K : bw[n] \in Nat \ {0}
    PROVE  \E m : IsMedian(K, bw, m)
<1>0. PICK half : half = Cardinality(K) \div 2
  OBVIOUS
<1>1. Cardinality(K) \in Nat \ {0} /\ half \in Nat /\ half < Cardinality(K)
  <2>1. Cardinality(K) \in Nat /\ Cardinality(K) # 0
    BY FS_EmptySet, FS_CardinalityType
  <2> QED BY <1>0, <2>1
<1> DEFINE T == {v \in Nat : half < Cardinality(Below(K, bw, v))}
<1>2. T # {}
  <2>1. PICK v \in Nat : Below(K, bw, v) = K
    BY ClaimsBounded
  <2> QED BY <1>1, <2>1
<1>3. PICK m \in T : \A v \in T : m <= v
  <2> HIDE DEF T
  <2>1. T \subseteq Nat
    BY DEF T
  <2> QED BY <1>2, <2>1, LeastMember
<1>4. m \in Nat /\ half < Cardinality(Below(K, bw, m))
  OBVIOUS
<1>5. m # 0
  <2> SUFFICES ASSUME m = 0 PROVE FALSE
    OBVIOUS
  <2>1. Below(K, bw, m) = {}
    BY DEF Below
  <2> QED BY <1>1, <1>4, <2>1, FS_EmptySet
<1>6. PICK l \in Nat : l + 1 = m /\ ~(m <= l)
  <2>1. m - 1 \in Nat /\ (m - 1) + 1 = m /\ ~(m <= m - 1)
    BY <1>4, <1>5
  <2> QED BY <2>1
<1>7. ~(half < Cardinality(Below(K, bw, l)))
  BY <1>3, <1>6
<1>8. {n \in K : bw[n] < m} = Below(K, bw, l)
  BY <1>6 DEF Below
<1>9. m \in {bw[n] : n \in K}
  <2> SUFFICES ASSUME m \notin {bw[n] : n \in K} PROVE FALSE
    OBVIOUS
  <2>1. Below(K, bw, m) = {n \in K : bw[n] < m}
    <3>1. \A n \in K : bw[n] \in Nat /\ bw[n] # m
      OBVIOUS
    <3>2. \A n \in K : bw[n] <= m <=> bw[n] < m
      BY <1>4, <3>1
    <3> QED BY <3>2 DEF Below
  <2> QED BY <1>4, <1>7, <1>8, <2>1
<1>10. Cardinality(Below(K, bw, l)) <= half
  <2>1. PICK c : c = Cardinality(Below(K, bw, l))
    OBVIOUS
  <2>2. c \in Nat
    BY <2>1, BelowGrows
  <2> QED BY ONLY <1>1, <1>7, <2>1, <2>2
<1>11. half < Cardinality({n \in K : bw[n] <= m})
  BY <1>4 DEF Below
<1>12. Cardinality({n \in K : bw[n] < m}) <= half
  BY <1>8, <1>10
<1> HIDE DEF T
<1> QED BY <1>0, <1>9, <1>11, <1>12 DEF IsMedian

\* What Median returns.
LEMMA MedianFound ==
    ASSUME NEW S, IsFiniteSet(S), NEW bw \in [S -> Nat], Measured(bw, S) # {},
           NEW K, K = Measured(bw, S), NEW m, m = Median(bw, S)
    PROVE  /\ IsFiniteSet(K) /\ \A n \in K : bw[n] \in Nat \ {0}
           /\ m \in {bw[n] : n \in K}
           /\ Cardinality({n \in K : bw[n] < m}) <= Cardinality(K) \div 2
<1>1. K \subseteq S /\ \A n \in K : bw[n] \in Nat \ {0}
  BY DEF Measured
<1>2. IsFiniteSet(K)
  BY <1>1, FS_Subset
<1> DEFINE P(v) == /\ Cardinality({n \in K : bw[n] < v}) <= Cardinality(K) \div 2
                   /\ Cardinality(K) \div 2 < Cardinality({n \in K : bw[n] <= v})
<1>3. \E v \in {bw[n] : n \in K} : P(v)
  <2>1. PICK v : IsMedian(K, bw, v)
    BY <1>1, <1>2, MedianExists
  <2> QED BY <2>1 DEF IsMedian
<1>4. m = CHOOSE v \in {bw[n] : n \in K} : P(v)
  BY DEF Median
<1>5. m \in {bw[n] : n \in K} /\ P(m)
  <2> HIDE DEF P
  <2> QED BY <1>3, <1>4
<1> QED BY <1>1, <1>2, <1>5

\* Multiplying keeps an order.
LEMMA TimesMonotone ==
    ASSUME NEW a \in Nat, NEW b \in Nat, a <= b, NEW c \in Nat \ {0}
    PROVE  /\ a * c \in Nat /\ a * c <= c * b
           /\ a <= a * c
BY SMTT(30)

\* "a speed can be overstated; the weight is limited".
LEMMA ClaimsCapped ==
    ASSUME NEW S, IsFiniteSet(S), NEW bw \in [S -> Nat], NEW liars \in SUBSET S
    PROVE  CappedFor(S, bw, liars)
<1> SUFFICES ASSUME 2 * Cardinality(liars) < Cardinality(Measured(bw, S)), NEW n \in S
             PROVE  /\ Weight(bw, S, n) > 0
                    /\ \E h \in Measured(bw, S) \ liars : Weight(bw, S, n) <= BWCap * bw[h]
  BY DEF CappedFor
<1>1. PICK K : K = Measured(bw, S)
  OBVIOUS
<1>2. IsFiniteSet(liars) /\ Cardinality(liars) \in Nat
  BY FS_Subset, FS_CardinalityType
<1>3. K # {} /\ K \subseteq S
  BY <1>1, <1>2, FS_EmptySet DEF Measured
<1>4. PICK m : m = Median(bw, S)
  OBVIOUS
<1>5. /\ IsFiniteSet(K) /\ \A k \in K : bw[k] \in Nat \ {0}
      /\ m \in {bw[k] : k \in K}
      /\ Cardinality({k \in K : bw[k] < m}) <= Cardinality(K) \div 2
  BY <1>1, <1>3, <1>4, MedianFound
<1>6. m \in Nat \ {0} /\ BWCap \in Nat \ {0}
  BY <1>5, RelayAssumption
<1>7. PICK h \in K \ liars : m <= bw[h]
  <2>1. PICK L : L = {k \in K : bw[k] < m}
    OBVIOUS
  <2>2. IsFiniteSet(L) /\ Cardinality(L) \in Nat /\ Cardinality(K) \in Nat
    BY <1>5, <2>1, FS_Subset, FS_CardinalityType
  <2>3. IsFiniteSet(L \cup liars) /\ Cardinality(L \cup liars) \in Nat
    BY <1>2, <2>2, FS_Union, FS_CardinalityType
  <2>4. Cardinality(L \cup liars) <= Cardinality(L) + Cardinality(liars)
    <3>1. /\ Cardinality(L \cup liars)
                = Cardinality(L) + Cardinality(liars) - Cardinality(L \cap liars)
          /\ IsFiniteSet(L \cap liars)
      BY <1>2, <2>2, FS_Union, FS_Intersection
    <3>2. Cardinality(L \cap liars) \in Nat
      BY <3>1, FS_CardinalityType
    <3> QED BY <1>2, <2>2, <3>1, <3>2
  <2>5. Cardinality(L \cup liars) < Cardinality(K)
    BY ONLY <1>1, <1>2, <1>5, <2>1, <2>2, <2>3, <2>4,
            2 * Cardinality(liars) < Cardinality(Measured(bw, S))
  <2>6. ~(K \subseteq L \cup liars)
    <3> SUFFICES ASSUME K \subseteq L \cup liars PROVE FALSE
      OBVIOUS
    <3>1. PICK W : W = L \cup liars
      OBVIOUS
    <3>2. Cardinality(K) <= Cardinality(W)
      BY <2>3, <3>1, FS_Subset
    <3> QED BY <2>2, <2>3, <2>5, <3>1, <3>2
  <2>7. PICK k \in K : k \notin L /\ k \notin liars
    BY <2>6
  <2> QED BY <1>5, <1>6, <2>1, <2>7
<1>8. bw[h] \in Nat
  BY <1>5
<1>9. PICK c : c = m * BWCap
  OBVIOUS
<1>10. c \in Nat /\ c <= BWCap * bw[h] /\ m <= c
  BY <1>6, <1>7, <1>8, <1>9, TimesMonotone
<1>11. BWCap * bw[h] \in Nat
  BY <1>6, <1>8
<1>12. PICK v : v = IF bw[n] = 0 THEN m ELSE bw[n]
  OBVIOUS
<1>13. v \in Nat \ {0}
  BY <1>6, <1>12
<1>14. Weight(bw, S, n) = IF v > c THEN c ELSE v
  BY <1>1, <1>3, <1>4, <1>9, <1>12 DEF Weight
<1>15. Weight(bw, S, n) > 0 /\ Weight(bw, S, n) <= c /\ Weight(bw, S, n) \in Nat
  BY <1>6, <1>10, <1>13, <1>14
<1>16. Weight(bw, S, n) <= BWCap * bw[h]
  BY <1>10, <1>11, <1>15
<1> QED BY <1>1, <1>7, <1>15, <1>16

\* The candidates for the middle are finitely many, whatever they claim.
THEOREM WeightsStayCapped == Spec => []WeightsCapped
<1>1. TypeOK => WeightsCapped
  <2> SUFFICES ASSUME TypeOK, NEW g \in active PROVE CappedAt[g]
    BY DEF WeightsCapped
  <2>1. g \in Node
    BY DEF TypeOK, Pinned
  <2>2. PICK S : S = Picks(Middle, {g})
    OBVIOUS
  <2>3. IsFiniteSet(S)
    <3>1. S \subseteq Relay
      BY <2>2, RelayAssumption DEF Picks
    <3> QED BY <3>1, FS_Subset, RelayAssumption
  <2>4. ASSUME NEW bw \in [S -> Claim], NEW liars \in SUBSET S
        PROVE  CappedFor(S, bw, liars)
    <3>1. bw \in [S -> Nat]
      BY GuardAssumption
    <3> QED BY <2>3, <3>1, ClaimsCapped
  <2> QED BY <2>1, <2>2, <2>4 DEF CappedAt
<1> QED BY <1>1, TypeCorrect, PTL
=============================================================================
