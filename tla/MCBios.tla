------------------------------- MODULE MCBios -------------------------------
(* The heap and the files of a card share no state: each is explored by    *)
(* itself.  No name is treated differently from another.                   *)
EXTENDS BiosHeap, BiosCard, TLC

CONSTANTS A, B, C

VARIABLE part

Init == HeapInit /\ CardInit /\ part \in {"heap", "card"}

Next ==
  \/ part = "heap" /\ HeapNext /\ UNCHANGED <<part, cardVars>>
  \/ part = "card" /\ CardNext /\ UNCHANGED <<part, heapVars>>

Spec == Init /\ [][Next]_<<heapVars, cardVars, part>>

AnyNames == Permutations(Names)
=============================================================================
