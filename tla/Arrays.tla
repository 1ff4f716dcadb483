-------------------------------- MODULE Arrays --------------------------------
(***************************************************************************)
(* Array.prototype.filter: the elements at some places of a list, in the   *)
(* order of the list.                                                      *)
(***************************************************************************)
EXTENDS Integers, FiniteSets, SequencesExt

InOrder(places) ==
  CHOOSE order \in SetToSeqs(places) :
    \A j, k \in DOMAIN order : j < k => order[j] < order[k]

Kept(list, places) ==
  [k \in DOMAIN InOrder(places) |-> list[InOrder(places)[k]]]

=============================================================================
