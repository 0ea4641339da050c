---------------------------- MODULE MCEventLedger ---------------------------
(* A small instance of EventLedger. *)
EXTENDS EventLedger, TLC

Symmetric == Permutations(Writers)
=============================================================================
