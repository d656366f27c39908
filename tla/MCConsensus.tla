---------------------------- MODULE MCConsensus ----------------------------
(***************************************************************************)
(* A small instance of Consensus over two identities.  Public and bridge   *)
(* documents are served side by side up to the time Both; after it only    *)
(* behaviours without bridges go on, in which the ages run out.            *)
(* Identities and ports are interchangeable.                               *)
(***************************************************************************)
EXTENDS Consensus, TLC

CONSTANT Both    \* bound on the clock while bridges are in use

NoBridges ==
    /\ \A p \in Private : p => cache[p] = NoEntry
    /\ building # NoEntry => ~building.doc.private
    /\ \A n \in Known(nodes) : ~nodes[n].desc.private
    /\ \A h \in Handler : handler[h] # Idle => ~handler[h].desc.private

MCNext == DocumentNext /\ (now' > Both => NoBridges')

MCSpec == DocumentInit /\ [][MCNext]_cvars

NodeSymmetry == Permutations(Node) \cup Permutations(Port)
============================================================================
