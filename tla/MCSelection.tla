---------------------------- MODULE MCSelection ----------------------------
(* Selection on small instances; listings and filters are interchangeable. *)
EXTENDS Selection, TLC

Symmetry == Permutations(Listings) \cup Permutations(Filters)
=============================================================================
