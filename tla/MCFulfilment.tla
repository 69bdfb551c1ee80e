---------------------------- MODULE MCFulfilment ----------------------------
(***************************************************************************)
(* Instances of Fulfilment.  Orders, invoices, warehouses and slots are    *)
(* interchangeable: nothing in the specification tells one from another.   *)
(***************************************************************************)
EXTENDS Fulfilment, TLC

Symmetry ==
  Permutations(Orders) \cup Permutations(Invoices)
    \cup Permutations(Warehouses) \cup Permutations(Slots)

\* The runs in which an organisation has chosen where invoices ship from.
DispatchOnInit == Init /\ dispatch \in Warehouses
DispatchOnSpec == DispatchOnInit /\ [][Next]_vars
DispatchOnFairSpec == DispatchOnSpec /\ Fairness
=============================================================================
