---------------------------- MODULE MCNodeLoop ----------------------------
(***************************************************************************)
(* A small instance of NodeLoop: a peer that moves, and the node itself.   *)
(***************************************************************************)
EXTENDS NodeLoop

MCDescriptor(i, e, p) == [id |-> i, at |-> e, pub |-> p]

MCDescriptors == {MCDescriptor("self", "west", 1),
                  MCDescriptor("peer", "east", 1), MCDescriptor("peer", "west", 2)}
===========================================================================
