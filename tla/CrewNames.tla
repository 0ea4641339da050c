----------------------------- MODULE CrewNames ------------------------------
(***************************************************************************)
(* The pool of crew names and the claims that borrow from it.              *)
(*                                                                         *)
(* A session is given a name when it registers or claims, keeps it across  *)
(* its claims and returns it when the last of them ends by a release or by *)
(* the sweep; an eviction and a takeover leave the name alone.  An         *)
(* operator may draw a name for a session besides, whatever it holds.  As  *)
(* in Claims, one database statement is one action, at READ COMMITTED.     *)
(* Who may claim which item is Claims' subject: here a claim is a row of   *)
(* its session, and a session may hold several.                            *)
(***************************************************************************)
EXTENDS Integers, FiniteSets

CONSTANTS
    Txns, Sessions,
    Ids,              \* Assignment ids; bounds the claims live at one time
    Names,            \* the names that are not retired
    OneCallAtATime,   \* no session has two calls of its own under way
    None

VARIABLES
    claims,   \* committed live claims, each with the name its caller was told
    held,     \* committed Agent.heldBySessionId
    lock,     \* the transaction that holds the name's row lock
    pend,     \* newest version of heldBySessionId, committed or not
    extra,    \* the held names that get_crew_name drew
    pc, req

vars == <<claims, held, lock, pend, extra, pc, req>>

ASSUME NamesAssumption ==
    /\ OneCallAtATime \in BOOLEAN
    /\ None \notin Txns \cup Sessions \cup Names \cup Ids

-----------------------------------------------------------------------------
\* What a session calls itself; the others are the server's and an operator's.
OwnOps == {"register", "claim", "release"}
Ops == OwnOps \cup {"sweep", "get_crew_name"}

Claim == [id: Ids, session: Sessions, told: Names \cup {None}]
Request == [op: Ops \cup {None}, session: Sessions \cup {None},
            row: Ids \cup {None}, name: Names \cup {None}]
NoRequest == [op |-> None, session |-> None, row |-> None, name |-> None]

\* A statement of t sees what is committed and what t wrote.
View(t, n) == IF lock[n] = t THEN pend[n] ELSE held[n]
NamesOf(t, s) == {n \in Names : View(t, n) = s}

\* Another transaction has written the row and not yet ended.
RowTaken(t, i) ==
    \E u \in Txns \ {t} : req[u].row = i /\ pc[u] \notin {"idle", "end"}

Unused(i) == /\ \A c \in claims : c.id # i
             /\ \A t \in Txns : req[t].row # i

-----------------------------------------------------------------------------
Begin(t, op, next, s, i) ==
    /\ pc[t] = "idle"
    /\ OneCallAtATime /\ op \in OwnOps =>
          \A u \in Txns : req[u].session # s \/ req[u].op \notin OwnOps
    /\ pc' = [pc EXCEPT ![t] = next]
    /\ req' = [req EXCEPT ![t] = [NoRequest EXCEPT !.op = op, !.session = s,
                                                   !.row = i]]
    /\ UNCHANGED <<claims, held, lock, pend, extra>>

GoTo(t, next) == pc' = [pc EXCEPT ![t] = next]

\* register_session: the upsert of the Session row makes the registrations of
\* one session wait for each other.
Register(t, s) ==
    /\ \A u \in Txns : ~(req[u].op = "register" /\ req[u].session = s)
    /\ Begin(t, "register", "name", s, None)

\* claim, once its row is in.
StartClaim(t, s, i) ==
    /\ Unused(i)
    /\ Begin(t, "claim", "name", s, i)

\* get_crew_name draws for a session without asking whether it has a name.
GetCrewName(t, s) == Begin(t, "get_crew_name", "draw", s, None)

\* ensureNameForSession: the name it holds (any one, if it holds several),
KeepName(t) ==
    /\ pc[t] = "name"
    /\ \E n \in NamesOf(t, req[t].session) :
          req' = [req EXCEPT ![t].name = n]
    /\ GoTo(t, "commit")
    /\ UNCHANGED <<claims, held, lock, pend, extra>>

\* Bug: every call draws a name.
DrawAgain(t) ==
    /\ pc[t] = "name"
    /\ GoTo(t, "draw")
    /\ UNCHANGED <<claims, held, lock, pend, extra, req>>

HasNoName(t) ==
    /\ pc[t] = "name"
    /\ NamesOf(t, req[t].session) = {}
    /\ GoTo(t, "draw")
    /\ UNCHANGED <<claims, held, lock, pend, extra, req>>

\* FOR UPDATE SKIP LOCKED: a locked row is passed over, another is re-read.
Available(n) == lock[n] = None /\ held[n] = None

\* or any free one,
DrawName(t, n) ==
    /\ pc[t] = "draw"
    /\ Available(n)
    /\ lock' = [lock EXCEPT ![n] = t]
    /\ pend' = [pend EXCEPT ![n] = req[t].session]
    /\ req' = [req EXCEPT ![t].name = n]
    /\ GoTo(t, "commit")
    /\ UNCHANGED <<claims, held, extra>>

\* or none: an exhausted pool fails get_crew_name (Rollback) and no other call.
GoUnnamed(t) ==
    /\ pc[t] = "draw" /\ req[t].op # "get_crew_name"
    /\ \A n \in Names : ~Available(n)
    /\ GoTo(t, "commit")
    /\ UNCHANGED <<claims, held, lock, pend, extra, req>>

\* release by the holder, or the sweep's release of a dead holder's row: read
\* the row, then end it by id.
StartEnd(t, op, c) ==
    /\ op \in {"release", "sweep"}
    /\ Begin(t, op, "end", c.session, c.id)

EndRow(t) ==
    /\ pc[t] = "end"
    /\ ~RowTaken(t, req[t].row)
    /\ GoTo(t, "held")
    /\ UNCHANGED <<claims, held, lock, pend, extra, req>>

\* releaseNameIfSessionIdle: which name, one if it holds several,
ReadHeld(t) ==
    /\ pc[t] = "held"
    /\ \/ /\ NamesOf(t, req[t].session) = {}
          /\ GoTo(t, "commit") /\ UNCHANGED req
       \/ \E n \in NamesOf(t, req[t].session) :
             /\ req' = [req EXCEPT ![t].name = n]
             /\ GoTo(t, "count")
    /\ UNCHANGED <<claims, held, lock, pend, extra>>

IsIdle(t) == \A c \in claims : c.session = req[t].session => c.id = req[t].row

\* how many live claims,
CountClaims(t) ==
    /\ pc[t] = "count"
    /\ GoTo(t, IF IsIdle(t) THEN "free" ELSE "commit")
    /\ UNCHANGED <<claims, held, lock, pend, extra, req>>

\* Bug: the update's WHERE names the name alone.
FreeAnyHolder(t) ==
    LET n == req[t].name
    IN  /\ pc[t] = "free"
        /\ lock[n] \in {None, t}
        /\ lock' = [lock EXCEPT ![n] = t]
        /\ pend' = [pend EXCEPT ![n] = None]
        /\ GoTo(t, "commit")
        /\ UNCHANGED <<claims, held, extra, req>>

\* and the update, whose WHERE names the holder.
FreeName(t) ==
    LET n == req[t].name
    IN  /\ pc[t] = "free"
        /\ lock[n] \in {None, t}
        /\ IF pend[n] = req[t].session
           THEN /\ lock' = [lock EXCEPT ![n] = t]
                /\ pend' = [pend EXCEPT ![n] = None]
           ELSE UNCHANGED <<lock, pend>>
        /\ GoTo(t, "commit")
        /\ UNCHANGED <<claims, held, extra, req>>

-----------------------------------------------------------------------------
Finish(t) ==
    /\ pc' = [pc EXCEPT ![t] = "idle"]
    /\ req' = [req EXCEPT ![t] = NoRequest]
    /\ lock' = [n \in Names |-> IF lock[n] = t THEN None ELSE lock[n]]

Without(i) == {c \in claims : c.id # i}

Commit(t) ==
    /\ pc[t] = "commit"
    /\ claims' = CASE req[t].op = "claim" ->
                        claims \cup {[id |-> req[t].row,
                                      session |-> req[t].session,
                                      told |-> req[t].name]}
                   [] req[t].op \in {"release", "sweep"} -> Without(req[t].row)
                   [] OTHER -> claims
    /\ held' = [n \in Names |-> View(t, n)]
    /\ extra' = {n \in Names : IF lock[n] = t THEN req[t].op = "get_crew_name"
                               ELSE n \in extra}
    /\ Finish(t)
    /\ UNCHANGED pend

Rollback(t) ==
    /\ pc[t] # "idle"
    /\ Finish(t)
    /\ pend' = [n \in Names |-> IF lock[n] = t THEN held[n] ELSE pend[n]]
    /\ UNCHANGED <<claims, held, extra>>

\* An eviction or a takeover, as one transaction: no name is touched.
LoseClaim(c) ==
    /\ ~RowTaken(None, c.id)
    /\ claims' = Without(c.id)
    /\ UNCHANGED <<held, lock, pend, extra, pc, req>>

Init ==
    /\ claims = {}
    /\ held = [n \in Names |-> None]
    /\ lock = [n \in Names |-> None]
    /\ pend = held
    /\ extra = {}
    /\ pc = [t \in Txns |-> "idle"]
    /\ req = [t \in Txns |-> NoRequest]

Next ==
    \/ \E t \in Txns :
        \/ \E s \in Sessions :
              \/ Register(t, s) \/ GetCrewName(t, s)
              \/ \E i \in Ids : StartClaim(t, s, i)
        \/ \E c \in claims, op \in Ops : StartEnd(t, op, c)
        \/ KeepName(t) \/ HasNoName(t) \/ GoUnnamed(t)
        \/ \E n \in Names : DrawName(t, n)
        \/ EndRow(t) \/ ReadHeld(t) \/ CountClaims(t) \/ FreeName(t)
        \/ Commit(t) \/ Rollback(t)
    \/ \E c \in claims : LoseClaim(c)

Spec == Init /\ [][Next]_vars

-----------------------------------------------------------------------------
(* Correctness.                                                            *)

TypeOK ==
    /\ claims \subseteq Claim
    /\ held \in [Names -> Sessions \cup {None}]
    /\ lock \in [Names -> Txns \cup {None}]
    /\ pend \in [Names -> Sessions \cup {None}]
    /\ extra \subseteq Names
    /\ pc \in [Txns -> {"idle", "name", "draw", "end", "held", "count",
                        "free", "commit"}]
    /\ req \in [Txns -> Request]

\* A session loses a name to the pool only, and only by a release or a sweep
\* of a claim of its own: no late return frees a name another session has drawn.
NeverStolen ==
    [][\A n \in Names : held[n] # None /\ held'[n] # held[n] =>
          /\ held'[n] = None
          /\ \E t \in Txns : /\ req[t].session = held[n]
                             /\ req[t].op \in {"release", "sweep"}
                             /\ pc[t] = "commit" /\ pc'[t] = "idle"]_vars

\* Registering and claiming give a session that makes one call at a time no
\* second name (ensureNameForSession), although the sweep may be returning its
\* name and an operator drawing more for it meanwhile: of its names all but
\* one come from get_crew_name.
OneNamePerSession ==
    OneCallAtATime =>
        \A m, n \in Names \ extra : held[m] # None /\ held[m] = held[n] => m = n

\* agent-names.ts, releaseNameIfSessionIdle: no claim can slip between the
\* count and the return, so a session keeps the name it works under.
WorksUnderItsName ==
    \A c \in claims : c.told # None => held[c.told] = c.session
=============================================================================
