----------------------------- MODULE MCWaNumber -----------------------------
(* Instances of WaNumber for TLC. *)
EXTENDS WaNumber, TLC
=============================================================================
