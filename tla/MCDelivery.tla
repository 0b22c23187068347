----------------------------- MODULE MCDelivery -----------------------------
(* Delivery on small instances; recipients are interchangeable. *)
EXTENDS Delivery, TLC

Symmetry == Permutations(Users)
=============================================================================
