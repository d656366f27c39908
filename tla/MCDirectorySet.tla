-------------------------- MODULE MCDirectorySet --------------------------
(***************************************************************************)
(* Small instances of DirectorySet.                                        *)
(***************************************************************************)
EXTENDS DirectorySet

MCDescriptor(i, p) == [id |-> i, pub |-> p]

\* One node, or with it another one listed with two of its descriptors.
DocA == {MCDescriptor("a", 1)}
DocAB == {MCDescriptor("a", 1), MCDescriptor("b", 1), MCDescriptor("b", 2)}

MCDoc == {DocA, DocAB}
MCOffered == {<<DocA>>, <<DocAB>>, <<DocA, DocAB>>}

\* The honest log is filled in one order.  Which comes first tells little: once both
\* are logged, either may be the document that is answered.
MCLog == <<DocA, DocAB>>
MCNext == Next /\ \A d \in Honest : IsPrefix(log'[d], MCLog)
MCSpec == Init /\ [][MCNext]_vars

\* A liar that never mentions the second node.
SilentOffered == {<<DocA>>}
===========================================================================
