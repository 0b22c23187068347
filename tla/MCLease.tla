------------------------------ MODULE MCLease ------------------------------
(* Lease on a small instance. *)
EXTENDS Lease, TLC
=============================================================================
