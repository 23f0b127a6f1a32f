----------------------------- MODULE MCRecovery -----------------------------
(* An instance of Recovery for TLC: one courier, whose requests may overlap. *)
EXTENDS Recovery, TLC
=============================================================================
