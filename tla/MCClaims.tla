------------------------------ MODULE MCClaims ------------------------------
(* Small instances of Claims: two crews, a of two sessions and b of one.   *)
EXTENDS Claims, TLC

CONSTANTS a1, a2, b1

MCRootOf == [s \in Sessions |-> IF s = b1 THEN b1 ELSE a1]
Symmetric == Permutations(Txns) \cup Permutations(Ids)
=============================================================================
