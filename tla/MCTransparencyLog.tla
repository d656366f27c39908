------------------------- MODULE MCTransparencyLog -------------------------
(***************************************************************************)
(* A small instance of TransparencyLog, and beside it the algorithms the   *)
(* log rests on: a behaviour is either one of the log at work, in which    *)
(* the verifier of MCMerkleTree holds no log, or one of that verifier.     *)
(***************************************************************************)
EXTENDS TransparencyLog, MCMerkleTree

MCInit == /\ Init
          /\ \/ ours = <<>> /\ theirs = <<>> /\ proof = <<>>
             \/ VerifierInit

MCNext == \/ ours = <<>> /\ Next /\ UNCHANGED mvars
          \/ ours # <<>> /\ VerifierNext /\ UNCHANGED tvars

MCSpec == MCInit /\ [][MCNext]_<<tvars, mvars>>
============================================================================
