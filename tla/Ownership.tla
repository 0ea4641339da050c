----------------------------- MODULE Ownership ------------------------------
(***************************************************************************)
(* What the claim operations promise, with every transaction atomic: a     *)
(* set of holds that two uniqueness rules constrain (SCHEMA.md section 2). *)
(* Claims.tla implements it.                                               *)
(***************************************************************************)
CONSTANTS Items, Sessions, Roles

VARIABLE holders

Hold == [item: Items, session: Sessions, role: Roles]

\* The two partial unique indexes on live assignments.
WellFormed(H) ==
    \A g, h \in H :
        /\ g.item = h.item
        /\ \/ g.session = h.session
           \/ g.role = "orchestrator" /\ h.role = "orchestrator"
        => g = h

\* A claim is granted; holders gone silent on the item may lose it to do so.
Grant(h, evicted) ==
    /\ \A g \in evicted : g.item = h.item
    /\ holders' = (holders \ evicted) \cup {h}
    /\ WellFormed(holders')

\* A release, a takeover or a pass of the sweep.
Relinquish(ended) == holders' = holders \ ended

Init == holders = {}

Next ==
    \/ \E h \in Hold, evicted \in SUBSET holders : Grant(h, evicted)
    \/ \E ended \in SUBSET holders : Relinquish(ended)

Spec == Init /\ [][Next]_holders
=============================================================================
