----------------------------- MODULE MCChannel -----------------------------
(***************************************************************************)
(* Instances of Channel for TLC.                                           *)
(***************************************************************************)
EXTENDS Channel, TLC

Symmetry ==
  Permutations(Listings) \cup Permutations(Filters) \cup Permutations(Texts)
=============================================================================
