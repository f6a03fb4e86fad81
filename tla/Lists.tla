------------------------------- MODULE Lists -------------------------------
(***************************************************************************)
(* What the tables of this program do with their lists: the resource and   *)
(* channel tables with their lists of ids, the native loops with their     *)
(* slots.                                                                  *)
(***************************************************************************)
EXTENDS Naturals, Sequences, FiniteSets

(* What is left of a list when those in "gone" are taken out one by one:   *)
(* the surviving positions, in their old order.                            *)
Without(list, gone, rest) ==
  LET kept == {i \in DOMAIN list : list[i] \notin gone}
  IN  \E position \in [1 .. Cardinality(kept) -> kept] :
        /\ \A i, j \in DOMAIN position : i < j => position[i] < position[j]
        /\ \A k \in kept : \E i \in DOMAIN position : position[i] = k
        /\ rest = [i \in DOMAIN position |-> list[position[i]]]

=============================================================================
