---------------------------- MODULE MCItemStates ----------------------------
(* A small instance of ItemStates. *)
EXTENDS ItemStates
=============================================================================
