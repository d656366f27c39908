------------------------------ MODULE MCCircuits ----------------------------
(***************************************************************************)
(* Small instances of Circuits.                                            *)
(***************************************************************************)
EXTENDS Circuits

CONSTANTS p1, p2, r1, r2

\* The exit of p2 rejects the port of every host.
MCRejecting == [p \in Path |-> IF p = p2 THEN Host ELSE {}]

\* The second slot is preferred on equal paths, p2 is preferred to p1.
MCRank == [h \in Host |-> [s \in Slot |-> [p \in Path |-> 2 * s + (IF p = p2 THEN 3 ELSE 0)]]]
============================================================================
