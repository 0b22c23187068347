----------------------------- MODULE MCService -----------------------------
(* Service on a small instance. *)
EXTENDS Service, TLC
=============================================================================
