--------------------------- MODULE PathSelection ---------------------------
(***************************************************************************)
(* Which nodes may make up a circuit, and how likely each is to be chosen: *)
(* Compatible, the ASN table, BWWeights, WeightedPick and BuildCircuits    *)
(* (src/path.go).  All of it is a function of its arguments.               *)
(*                                                                         *)
(* The nodes are valid ones (FilterValid), so their addresses parse; an    *)
(* address is its version and its value as a number.  Random choices are   *)
(* sets of what may be chosen, weights are whole numbers.                  *)
(***************************************************************************)
EXTENDS Integers, FiniteSets, Sequences

CONSTANTS
    Relay,         \* the nodes of the network
    Middle, Exit,  \* those with these roles
    Version,       \* per relay: 4 or 6
    Host,          \* per relay: its address
    Family,        \* per relay: the identities it names
    File,          \* the rows of the -asn file, empty without one
    IgnoreNet,     \* -ignore-net
    BWCap,         \* -bw-cap
    Circuits       \* -circuits

ASSUME RelayAssumption ==
    /\ IsFiniteSet(Relay) /\ Middle \subseteq Relay /\ Exit \subseteq Relay
    /\ Version \in [Relay -> {4, 6}] /\ Host \in [Relay -> Nat]
    /\ Family \in [Relay -> SUBSET Relay]
    /\ IgnoreNet \in BOOLEAN /\ BWCap \in Nat \ {0} /\ Circuits \in Nat
ASSUME FileAssumption == File \in Seq([lo : Nat, hi : Nat, asn : Nat])

----------------------------------------------------------------------------
\* Relations between nodes.

\* Only a family both have named counts.
SameFamily(a, b) == b \in Family[a] /\ a \in Family[b]

\* LoadASNTable: the rows that can be used, in the order of their lower ends.  Rows
\* with one lower end come in the order of the file; the code's sort leaves that open.
Usable(row) == row.asn # 0 /\ row.lo <= row.hi
UsableRows == {i \in 1..Len(File) : Usable(File[i])}
Before(i, j) == File[i].lo < File[j].lo \/ (File[i].lo = File[j].lo /\ i < j)
Table == [k \in 1..Cardinality(UsableRows) |->
    File[CHOOSE i \in UsableRows : Cardinality({j \in UsableRows : Before(j, i)}) = k - 1]]

\* sort.Search: the binary search for the first row whose upper end is not below v;
\* it is among the rows from r[1] on, up to r[2].
Search(v) ==
    LET From[r \in (0..Len(Table)) \X (0..Len(Table))] ==
          IF r[1] >= r[2] THEN r[1]
          ELSE LET h == (r[1] + r[2]) \div 2
               IN IF Table[h + 1].hi < v THEN From[<<h + 1, r[2]>>] ELSE From[<<r[1], h>>]
    IN From[<<0, Len(Table)>>]

\* ASNTable.Lookup: the number of each node's autonomous system, 0 for none.
Lookup == [n \in Relay |->
    LET i == Search(Host[n])
    IN IF Version[n] = 4 /\ i < Len(Table) /\ Table[i + 1].lo <= Host[n]
       THEN Table[i + 1].asn ELSE 0]

\* netKey: the /16 of an IPv4 address, an IPv6 address as a whole.
NetKey(n) == IF Version[n] = 4 THEN <<4, Host[n] \div 65536>> ELSE <<6, Host[n]>>

\* Two nodes that may not stand in one circuit.
Related ==
    {p \in Relay \X Relay :
        \/ p[1] = p[2]
        \/ SameFamily(p[1], p[2])
        \/ Lookup[p[1]] # 0 /\ Lookup[p[1]] = Lookup[p[2]]
        \/ ~IgnoreNet /\ NetKey(p[1]) = NetKey(p[2])}

\* May n stand in a circuit with every node of chain?
Compatible(n, chain) == \A b \in chain : <<n, b>> \notin Related

----------------------------------------------------------------------------
\* Weights, for the bandwidths bw that the candidates S claim, 0 for none.

Measured(bw, S) == {n \in S : bw[n] > 0}

\* The upper median of the values above zero.
Median(bw, S) ==
    LET known == Measured(bw, S)
        half == Cardinality(known) \div 2
    IN CHOOSE m \in {bw[n] : n \in known} :
         /\ Cardinality({n \in known : bw[n] < m}) <= half
         /\ half < Cardinality({n \in known : bw[n] <= m})

\* Faulty variant for WeightsCapped: a claim is capped by the largest one.
WeightByLargest(bw, S, n) ==
    IF Measured(bw, S) = {} THEN 1
    ELSE LET top == CHOOSE m \in {bw[k] : k \in S} : \A k \in S : bw[k] <= m
             v == IF bw[n] = 0 THEN Median(bw, S) ELSE bw[n]
         IN IF v > top * BWCap THEN top * BWCap ELSE v

\* BWWeights: the claim, at most BWCap times the median; the median for none.
\* (With a BWCap of 1 or more the lower limit 1 of the cap has no effect.)
Weight(bw, S, n) ==
    IF Measured(bw, S) = {} THEN 1
    ELSE LET med == Median(bw, S)
             v == IF bw[n] = 0 THEN med ELSE bw[n]
         IN IF v > med * BWCap THEN med * BWCap ELSE v

----------------------------------------------------------------------------
\* BuildCircuits.

\* WeightedPick: every compatible node of the pool may be picked, because none
\* has the weight 0 (WeightsCapped).
Picks(from, chain) == {n \in from : Compatible(n, chain)}

\* Faulty variant for PathsUnrelated: the exit is compared with the middle only.
PathsByNeighbour(g) ==
    UNION {{[guard |-> g, middle |-> m, exit |-> e] : e \in Picks(Exit, {m})}
             : m \in Picks(Middle, {g})}

\* The circuits that may start at guard g, whoever else of the network is there.
PathsFrom(g) ==
    UNION {{[guard |-> g, middle |-> m, exit |-> e] : e \in Picks(Exit, {g, m})}
             : m \in Picks(Middle, {g})}

\* The same for every relay, as a constant.
Paths == [g \in Relay |-> PathsFrom(g)]

\* The sets of guards that the circuits built from the guards in use may have:
\* at most Circuits circuits, from guards for which there is one at all.
GuardsOfCircuits(guards) ==
    {G \in SUBSET {g \in guards : Paths[g] # {}} : Cardinality(G) <= Circuits}

----------------------------------------------------------------------------
\* What path selection is to achieve, stated without the code's means.

\* The autonomous systems whose rows hold the node's address.
Owners(n) ==
    {File[i].asn : i \in {j \in 1..Len(File) : /\ Usable(File[j]) /\ Version[n] = 4
                                               /\ Host[n] \in File[j].lo..File[j].hi}}

\* No two usable rows overlap: an address has one owner.  The code does not check
\* it.  (The upper ends of nested rows are not in order, and the search misses some.)
OneOwner == \A i, j \in UsableRows :
                i # j => File[i].hi < File[j].lo \/ File[j].hi < File[i].lo

\* One /16 of IPv4, or one IPv6 address.  (The comment of netKey names /32 for IPv6:
\* that much the code does not do, and nothing here claims it.)
SameNetwork(a, b) ==
    /\ Version[a] = Version[b]
    /\ IF Version[a] = 4 THEN Host[a] \div 65536 = Host[b] \div 65536 ELSE Host[a] = Host[b]

\* Two nodes that no one operator is known to run.
Unrelated(a, b) ==
    /\ a # b
    /\ ~(a \in Family[b] /\ b \in Family[a])
    /\ OneOwner => Owners(a) \cap Owners(b) = {}
    /\ ~IgnoreNet => ~SameNetwork(a, b)

\* The overstated claims are those of fewer than half of the measured nodes of
\* S; then no weight exceeds BWCap times what some honest node claims, and
\* every node may be chosen.
CappedFor(S, bw, liars) ==
    2 * Cardinality(liars) < Cardinality(Measured(bw, S)) =>
        \A n \in S : /\ Weight(bw, S, n) > 0
                     /\ \E h \in Measured(bw, S) \ liars : Weight(bw, S, n) <= BWCap * bw[h]
============================================================================
