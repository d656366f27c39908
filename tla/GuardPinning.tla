--------------------------- MODULE GuardPinning ---------------------------
(***************************************************************************)
(* The client's pinned guards: ChooseGuards, LoadState and Save            *)
(* (src/path.go) as refresh (src/client.go) calls them, with crashes       *)
(* between any two of its steps, failing saves, days that pass, and nodes  *)
(* that leave the list of nodes and come back.                             *)
(*                                                                         *)
(* A pinned guard's Since and LastSeen are kept as the days that have      *)
(* passed since then.  They are only compared with GuardDays and           *)
(* GuardRetireDays, so they stop counting one day past these.  The pool    *)
(* nodePool returns is the environment's choice; a refresh that ends       *)
(* before ChooseGuards changes nothing here and is not a step.             *)
(***************************************************************************)
EXTENDS PathSelection

CONSTANTS
    Node,            \* identities with the guard role
    Bridge,          \* those of them that are handed out as bridges
    Guards,          \* -guards
    GuardDays,       \* -guard-days
    GuardRetireDays, \* -guard-retire-days
    Claim,           \* bandwidths a node may claim
    NotPinned

MaxPinned == IF 2 * Guards < Guards + 1 THEN Guards + 1 ELSE 2 * Guards

\* PinnedGuard: the days since Since and since LastSeen.
Entry == [since : 0..GuardDays + 1, lastSeen : 0..GuardRetireDays + 1]

ASSUME GuardAssumption ==
    /\ IsFiniteSet(Node) /\ Node \subseteq Relay /\ Bridge \subseteq Node
    /\ Claim \subseteq Nat
    /\ Guards \in Nat /\ GuardDays \in Nat /\ GuardRetireDays \in Nat
    /\ NotPinned \notin Entry

VARIABLES
    pool,      \* the guards refresh would offer to ChooseGuards now
    st,        \* State.Guards
    disk,      \* the same in the state file
    pc,        \* where refresh stands: "idle", "build" or "install"
    active,    \* the guards ChooseGuards returned, while refresh goes on
    unsaved,   \* history: the last save failed
    used       \* history: entries under which guards got circuits, until they
               \* end or the client starts from a file that a failed save left

vars == <<pool, st, disk, pc, active, unsaved, used>>

Pinned(s) == {n \in Node : s[n] # NotPinned}
Unpinned == [n \in Node |-> NotPinned]

\* The entry does not end before the next refresh.
InTerm(e) == e.since <= GuardDays /\ e.lastSeen <= GuardRetireDays

Older(e) == [since    |-> IF e.since > GuardDays THEN e.since ELSE e.since + 1,
             lastSeen |-> IF e.lastSeen > GuardRetireDays THEN e.lastSeen ELSE e.lastSeen + 1]

Aged(s) == [n \in Node |-> IF s[n] = NotPinned THEN NotPinned ELSE Older(s[n])]

InTermOnly(s) ==
    [n \in Node |-> IF s[n] # NotPinned /\ InTerm(s[n]) THEN s[n] ELSE NotPinned]

----------------------------------------------------------------------------
\* ChooseGuards.

\* Faulty variant for GuardsStay: a guard that is not in the pool is dropped.
KeptIfPresent ==
    [n \in Node |-> IF n \in Pinned(st) /\ n \in pool /\ st[n].since <= GuardDays
                    THEN [st[n] EXCEPT !.lastSeen = 0] ELSE NotPinned]

\* Faulty variant for NotStarvedForever: no term ever ends.
KeptForever ==
    [n \in Node |-> IF n \in Pinned(st)
                    THEN IF n \in pool THEN [st[n] EXCEPT !.lastSeen = 0] ELSE st[n]
                    ELSE NotPinned]

\* Pinned guards whose terms go on, those in the pool seen now.
Kept ==
    InTermOnly([n \in Node |-> IF n \in Pinned(st) /\ n \in pool
                               THEN [st[n] EXCEPT !.lastSeen = 0] ELSE st[n]])

\* Faulty variant for PinnedBound: only the guards that are up are counted.
NewGuardsByActive(kept) ==
    LET up == Pinned(kept) \cap pool
    IN {S \in SUBSET (pool \ Pinned(kept)) :
          S # {} => Cardinality(up) + Cardinality(S) <= Guards}

\* What the loop over the candidates may pin: it goes on until enough guards
\* are up, the bound is reached, or no candidate is left that is compatible.
NewGuards(kept) ==
    LET up == Pinned(kept) \cap pool
    IN {S \in SUBSET (pool \ Pinned(kept)) :
          /\ S # {} => /\ Cardinality(up) + Cardinality(S) <= Guards
                       /\ Cardinality(Pinned(kept)) + Cardinality(S) <= MaxPinned
          /\ \A n \in S : Compatible(n, (up \cup S) \ {n})
          /\ \/ Cardinality(up) + Cardinality(S) >= Guards
             \/ Cardinality(Pinned(kept)) + Cardinality(S) >= MaxPinned
             \/ \A n \in pool \ (Pinned(kept) \cup S) : ~Compatible(n, up \cup S)}

\* Faulty variant for TypeOK: guards whose terms ended are used once more.
ChooseGuardsEnded ==
    /\ pc = "idle" /\ pc' = "build"
    /\ \E S \in NewGuards(Kept) :
         /\ st' = [n \in Node |-> IF n \in S THEN [since |-> 0, lastSeen |-> 0] ELSE Kept[n]]
         /\ active' = (Pinned(st) \cap pool) \cup S
    /\ UNCHANGED <<pool, disk, unsaved, used>>

ChooseGuards ==
    /\ pc = "idle" /\ pc' = "build"
    /\ \E S \in NewGuards(Kept) :
         /\ st' = [n \in Node |-> IF n \in S THEN [since |-> 0, lastSeen |-> 0] ELSE Kept[n]]
         /\ active' = (Pinned(Kept) \cap pool) \cup S
    /\ UNCHANGED <<pool, disk, unsaved, used>>

----------------------------------------------------------------------------
\* The rest of refresh.

\* BuildCircuits finds no path; what ChooseGuards did is neither undone nor
\* saved.
BuildFails ==
    /\ pc = "build" /\ pc' = "idle" /\ active' = {}
    /\ UNCHANGED <<pool, st, disk, unsaved, used>>

\* BuildCircuits finds paths from some of the active guards; State.Save.
Save ==
    /\ pc = "build" /\ pc' = "install"
    /\ \E g \in active : Paths[g] # {}
    /\ \/ disk' = st /\ unsaved' = FALSE
       \/ UNCHANGED disk /\ unsaved' = TRUE
    /\ UNCHANGED <<pool, st, active, used>>

\* Faulty variant for ExposureBound: circuits are installed before the save.
InstallEarly ==
    /\ \/ pc = "build" /\ UNCHANGED <<pc, active>>
       \/ pc = "install" /\ pc' = "idle" /\ active' = {}
    /\ \E S \in GuardsOfCircuits(active) :
         used' = [n \in Node |-> IF n \in S THEN InTermOnly(st)[n] ELSE used[n]]
    /\ UNCHANGED <<pool, st, disk, unsaved>>

\* The slots get their circuits, or an outbound fails and some do not.
Install ==
    /\ pc = "install" /\ pc' = "idle" /\ active' = {}
    /\ \E S \in GuardsOfCircuits(active) :
         used' = [n \in Node |-> IF n \in S THEN InTermOnly(st)[n] ELSE used[n]]
    /\ UNCHANGED <<pool, st, disk, unsaved>>

\* The client stops or crashes anywhere; LoadState.
Restart ==
    /\ st' = disk /\ pc' = "idle" /\ active' = {}
    /\ used' = (IF unsaved THEN Unpinned ELSE used) /\ unsaved' = FALSE
    /\ UNCHANGED <<pool, disk>>

----------------------------------------------------------------------------
\* The environment.

\* A day passes.
Tick ==
    /\ st' = Aged(st) /\ disk' = Aged(disk) /\ used' = InTermOnly(Aged(used))
    /\ UNCHANGED <<pool, pc, active, unsaved>>

\* refresh: if there are bridges, public guards are as good as absent.
GuardPool(nodes) == IF nodes \cap Bridge # {} THEN nodes \cap Bridge ELSE nodes

\* Nodes leave and return.
Change ==
    /\ pool' \in {GuardPool(S) : S \in SUBSET Node}
    /\ UNCHANGED <<st, disk, pc, active, unsaved, used>>

----------------------------------------------------------------------------
Init ==
    /\ pool = {}
    /\ st = Unpinned /\ disk = Unpinned /\ used = Unpinned
    /\ pc = "idle" /\ active = {} /\ unsaved = FALSE

Next ==
    \/ ChooseGuards
    \/ BuildFails
    \/ Save
    \/ Install
    \/ Restart
    \/ Tick
    \/ Change

Spec == Init /\ [][Next]_vars

\* A refresh that has begun comes to an end; days pass.  Nothing makes refreshes
\* begin: the start gives up after 60 of them, and without -rotate none follows the
\* first that succeeds.
FairSpec == Spec /\ WF_vars(BuildFails \/ Save) /\ WF_vars(Install) /\ WF_vars(Tick)

----------------------------------------------------------------------------
\* Properties.

\* Every variable has its type; what is used is one of the pinned guards.
TypeOK ==
    /\ pool \subseteq Node /\ active \subseteq Pinned(st)
    /\ st \in [Node -> Entry \cup {NotPinned}]
    /\ disk \in [Node -> Entry \cup {NotPinned}]
    /\ used \in [Node -> Entry \cup {NotPinned}]
    /\ pc \in {"idle", "build", "install"}
    /\ unsaved \in BOOLEAN

\* The pinned guards, in memory and in the file, never exceed their bound,
\* however nodes leave and return.
PinnedBound ==
    /\ Cardinality(Pinned(st)) <= MaxPinned
    /\ Cardinality(Pinned(disk)) <= MaxPinned

\* While the term of a guard that got circuits goes on, s has it pinned since
\* then and does not take it for absent any longer than it may be.
Holds(s) ==
    \A n \in Pinned(used) : /\ s[n] # NotPinned
                            /\ s[n].since = used[n].since
                            /\ s[n].lastSeen <= used[n].lastSeen

\* A guard that got circuits stays pinned until its term ends, in memory and
\* in the file: through absences, refreshes that fail half-way and crashes,
\* unless a save failed.
GuardsStay == Holds(st) /\ (~unsaved => Holds(disk))

\* However nodes are made to leave and return and the client to restart, it
\* never entered the network through more guards than the bound within their
\* terms, unless it was started from a file that a failed save left behind.
ExposureBound == Cardinality(Pinned(used)) <= MaxPinned

\* No two nodes of a circuit from g are the same, of one family, of one IPv4 /16, of
\* one IPv6 address or, if the rows of the file do not overlap, of one autonomous
\* system.
UnrelatedAt == [g \in Node |-> \A p \in Paths[g] :
    Unrelated(p.guard, p.middle) /\ Unrelated(p.guard, p.exit) /\ Unrelated(p.middle, p.exit)]

\* "a path of unrelated nodes": whichever guards are in use, the circuits that
\* may be built from one of them have no two nodes related in one of these ways.
PathsUnrelated == \A g \in active : UnrelatedAt[g]

\* Whatever the candidates for the middle of a circuit from g claim.
CappedAt == [g \in Node |->
    LET S == Picks(Middle, {g})
    IN \A bw \in [S -> Claim], liars \in SUBSET S : CappedFor(S, bw, liars)]

\* "a speed can be overstated; the weight is limited": whichever guards are in
\* use, fewer than half of the candidates cannot lift a weight above the cap
\* over what an honest one claims, and a new node is not left without traffic.
WeightsCapped == \A g \in active : CappedAt[g]

\* ChooseGuards: guards that have left do not keep their places for ever.  If from
\* some time on there is one and the same guard, and refresh is called again and
\* again (the rotation, or whoever starts the client), it finds guards again and again.
NotStarvedForever ==
    \A n \in Node : (<>[](n \in pool) /\ []<>(pc = "build")) => []<>(active # {})
============================================================================
