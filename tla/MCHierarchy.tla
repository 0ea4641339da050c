---------------------------- MODULE MCHierarchy -----------------------------
(* A small instance of Hierarchy. *)
EXTENDS Hierarchy, TLC

CONSTANTS i1, i2, i3

OrderOfThings == (i1 :> 1) @@ (i2 :> 2) @@ (i3 :> 3)
=============================================================================
