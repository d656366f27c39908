-------------------------- MODULE MCTokenBinding --------------------------
(***************************************************************************)
(* Small instances of TokenBinding: handlers, tokens, identities and       *)
(* inodes are interchangeable.                                             *)
(***************************************************************************)
EXTENDS TokenBinding, TLC

TokenSymmetry == Permutations(Token) \cup Permutations(Identity)
                    \cup Permutations(Handler) \cup Permutations(Inode)
============================================================================
