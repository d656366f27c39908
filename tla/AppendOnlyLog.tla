-------------------------- MODULE AppendOnlyLog --------------------------
(***************************************************************************)
(* What a transparency log promises: one history that only grows, without  *)
(* repetitions, and signed heads each of which is a prefix of it.          *)
(***************************************************************************)
EXTENDS Naturals, Sequences

CONSTANTS Leaf,     \* what may be logged
          RootOf    \* a function from sequences of leaves to roots

VARIABLES history,  \* the leaves, in order
          heads     \* the heads shown to anyone so far

logVars == <<history, heads>>

HeadOf(s) == [size |-> Len(s), root |-> RootOf[s]]

Init == history = <<>> /\ heads = {}

Grow(l) == /\ \A i \in 1..Len(history) : history[i] # l
           /\ history' = Append(history, l)
           /\ UNCHANGED heads

Show(n) == /\ heads' = heads \cup {HeadOf(SubSeq(history, 1, n))}
           /\ UNCHANGED history

Next == \/ \E l \in Leaf : Grow(l)
        \/ \E n \in 0..Len(history) : Show(n)

Spec == Init /\ [][Next]_logVars
============================================================================
