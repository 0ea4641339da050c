------------------------------- MODULE MCItems ------------------------------
(***************************************************************************)
(* What callers write to an item, side by side: its row, which the sweep   *)
(* writes as well, its document, and the evidence its merge is judged by.  *)
(* They share no variable here, so a behaviour is one of theirs with the   *)
(* others at rest.                                                         *)
(***************************************************************************)
EXTENDS ItemStates, Documents, Evidence

VARIABLE part

\* Shas are numbers here, named in turn, as which one is named first is all the
\* same; an item closes after something was deferred to it; and the rows that
\* open a round are reviews and check runs, which do by it what any row would.
InTurn ==
    LET shasOf(row) == {row.sha} \cup (IF row.kind = "commit" THEN {row.supersedes} ELSE {})
        evidence == {artifacts[k] : k \in DOMAIN artifacts}
        named == UNION {shasOf(row) : row \in {r \in evidence : r.kind # "check_run"}} \ {NoSha}
    IN /\ named = 1 .. Cardinality(named)
       /\ followUp = "closed" =>
             \E row \in evidence : row.kind = "code_review" /\ row.verdict = "lgtm_with_followups"
       /\ \A row \in evidence : row.round > 1 => row.kind \in {"code_review", "check_run"}

ItemsInit == part \in {"moves", "documents", "evidence"} /\ Init /\ DocInit /\ EvInit

ItemsNext ==
    \/ part = "moves" /\ Next /\ UNCHANGED <<part, docVars, evVars>>
    \/ part = "documents" /\ DocNext /\ UNCHANGED <<part, vars, evVars>>
    \/ part = "evidence" /\ EvNext /\ InTurn' /\ UNCHANGED <<part, vars, docVars>>

ItemsSpec == ItemsInit /\ [][ItemsNext]_<<part, vars, docVars, evVars>>
=============================================================================
