---------------------------- MODULE MCSettlement ----------------------------
(***************************************************************************)
(* Instances of Settlement: payments, notes and slots are interchangeable. *)
(***************************************************************************)
EXTENDS Settlement, TLC

Symmetry ==
  Permutations(Payments) \cup Permutations(Notes) \cup Permutations(Slots)
=============================================================================
