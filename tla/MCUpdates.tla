----------------------------- MODULE MCUpdates -----------------------------
(* Updates on a small instance. *)
EXTENDS Updates, TLC
=============================================================================
