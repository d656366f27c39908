--------------------------- MODULE MCNodeStore ---------------------------
(***************************************************************************)
(* Small instances of NodeStore.  Identities, ports and handlers are       *)
(* interchangeable, so safety runs permute them; liveness runs do not.     *)
(***************************************************************************)
EXTENDS NodeStore, TLC

NodeSymmetry == Permutations(Node) \cup Permutations(Port) \cup Permutations(Handler)
============================================================================
