----------------------------- MODULE MCCrewNames ----------------------------
(* Small instances of CrewNames. *)
EXTENDS CrewNames, TLC

Symmetric == Permutations(Txns) \cup Permutations(Names)
             \cup Permutations(Sessions) \cup Permutations(Ids)
=============================================================================
