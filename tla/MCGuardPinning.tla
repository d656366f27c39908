-------------------------- MODULE MCGuardPinning --------------------------
(***************************************************************************)
(* A small instance of GuardPinning.  Each rule about two nodes of a       *)
(* circuit is alone against some guard and middle, some guard and exit and *)
(* some middle and exit.                                                   *)
(***************************************************************************)
EXTENDS GuardPinning, TLC

CONSTANTS g1, g2, g3, m1, m2, m3, m4, x1, x2, x3, x4, x5, x6

\* Two guards are in one network, with a middle; g2 is an exit, too.
MCNet == g1 :> 10 @@ g2 :> 10 @@ g3 :> 50 @@ m1 :> 10 @@ m2 :> 20 @@ m3 :> 30
         @@ x1 :> 31 @@ x2 :> 20 @@ x3 :> 40 @@ x4 :> 51

\* m4 and x5 have one IPv6 address, x6 has the next one.
MCVersion == [r \in Relay |-> IF r \in {m4, x5, x6} THEN 6 ELSE 4]
MCHost == [r \in Relay |-> CASE r \in {m4, x5} -> 1 [] r = x6 -> 2
                              [] OTHER -> 65536 * MCNet[r]]

\* m2 and g3, and m1 and x3, name each other; x3 names m3 as well.
MCFamily == [r \in Relay |->
    CASE r = m2 -> {g3} [] r = g3 -> {m2} [] r = m1 -> {x3} [] r = x3 -> {m1, m3, g2}
      [] OTHER -> {}]

\* The addresses of m3 and x1, and those of g3 and x4, are at the ends of a row;
\* the file is not sorted, and two of its rows are of no use.
MCRow(l, h, a) == [lo |-> 65536 * l, hi |-> 65536 * h, asn |-> a]
MCFile == <<MCRow(32, 39, 6), MCRow(30, 31, 7), MCRow(50, 51, 8), MCRow(60, 40, 7),
            MCRow(0, 255, 0), MCRow(1, 9, 6)>>

\* The comment of netKey (src/path.go:286) has /32 as the network of an IPv6 address;
\* here a /32 has few addresses, in the program 2^96.
Slash32 == 4
DocumentedNetwork(n) ==
    IF Version[n] = 4 THEN <<4, Host[n] \div 65536>> ELSE <<6, Host[n] \div Slash32>>

\* By the code's rule, and against that comment, two relays of one IPv6 /32 (m4 and
\* x6) do stand in a circuit.
ASSUME Slash32Meets ==
    \E g \in Node : \E p \in Paths[g] :
        /\ {Version[p.middle], Version[p.exit]} = {6}
        /\ DocumentedNetwork(p.middle) = DocumentedNetwork(p.exit)
============================================================================
