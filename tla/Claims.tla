------------------------------- MODULE Claims -------------------------------
(***************************************************************************)
(* Who holds an item.  Every operation that opens, signals on or ends a    *)
(* row of the Assignment table, one database statement per action, at the  *)
(* isolation the service runs at (READ COMMITTED, one transaction per      *)
(* call): a statement reads what is committed plus what its own            *)
(* transaction wrote, a write takes the row's lock until the transaction   *)
(* ends, and a write that finds the lock taken waits for it and then acts  *)
(* on the newest version of the row.                                       *)
(*                                                                         *)
(* Two things the same handlers write are modelled elsewhere: crew names   *)
(* (CrewNames.tla) and the position of the appended events in the ledger   *)
(* (EventLedger.tla).                                                      *)
(***************************************************************************)
EXTENDS Integers, Sequences, FiniteSets

CONSTANTS
    Txns,             \* concurrent service calls, one transaction each
    Items, Sessions,
    Ids,              \* Assignment ids; bounds how many claims ever succeed
    RootOf,           \* the rootSessionId each session claims under
    Hooked,           \* sessions registered with a hookVersion
    Ops,              \* the operations the clients call
    MaxClock,         \* bounds the clock
    StaleAfter, DeadAfter, EvictAfter, SignalLessMax,   \* liveness.* settings
    None              \* SQL NULL, and "no transaction"

VARIABLES
    clock,
    rows,     \* committed version of each assignment, None if never inserted
    owner,    \* the transaction that holds the row's lock
    pend,     \* newest version of each assignment, committed or not
    toolAt,   \* MAX(ToolCall.ts) of each session, NoTime if it has none
    pc, req   \* each call's next statement and its arguments

vars == <<clock, rows, owner, pend, toolAt, pc, req>>

-----------------------------------------------------------------------------
NoTime == 0
Times == 1..MaxClock
Roles == {"orchestrator", "builder"}   \* builder: every role but orchestrator
Rungs == {"running", "stalled", "dead"}
EndKinds == {"release", "takeover", "sweep", "evict"}
AllOps == {"claim", "release", "heartbeat", "tool_calls", "takeover", "sweep"}

Assignment == [item: Items, session: Sessions, role: Roles,
               liveness: Rungs \cup {"superseded"},
               supersededBy: Sessions \cup {None},
               claimedAt: Times, lastActive: Times,
               released: BOOLEAN,      \* releasedAt IS NOT NULL
               ended: Seq(EndKinds)]   \* its release and takeover events

\* What the sweep read of one row and decided to write.
Move == [row: Ids, to: Rungs]

\* at: the transaction's start, which is what CURRENT_TIMESTAMP returns.
\* now: what the handler read from its own clock, before any lock wait.
Request == [op: AllOps \cup {None},
            item: Items \cup {None}, session: Sessions \cup {None},
            role: Roles \cup {None}, at: Times \cup {NoTime},
            now: Times \cup {NoTime},
            row: Ids \cup {None}, call: Times \cup {NoTime},
            force: BOOLEAN, todo: SUBSET Move]

NoRequest == [op |-> None, item |-> None, session |-> None, role |-> None,
              at |-> NoTime, now |-> NoTime, row |-> None, call |-> NoTime,
              force |-> FALSE, todo |-> {}]

Waiting == {"insert", "evict", "recheck", "reinsert", "release", "beat",
            "stamp", "take", "sweep", "commit"}

ASSUME ConstantsAssumption ==
    /\ MaxClock \in Nat \ {0}
    /\ {StaleAfter, DeadAfter, EvictAfter, SignalLessMax} \subseteq Nat \ {0}
    /\ RootOf \in [Sessions -> Sessions]
    /\ Hooked \subseteq Sessions
    /\ Ops \subseteq AllOps
    /\ None \notin Txns \cup Items \cup Sessions \cup Ids \cup Assignment

-----------------------------------------------------------------------------
(* Reading the table.                                                      *)

Live(r) == r # None /\ ~r.released

\* What a statement of transaction t sees of row i.
View(t, i) == IF owner[i] = t THEN pend[i] ELSE rows[i]

LiveOn(t, item) == {i \in Ids : Live(View(t, i)) /\ View(t, i).item = item}

\* The row's lock is free or already t's: a write need not wait.
Free(t, i) == owner[i] \in {None, t}

SameCrew(t, item, s) ==
    \A i \in LiveOn(t, item) : RootOf[View(t, i).session] = RootOf[s]

\* Bug: the index on (item, session) is forgotten.
ConflictsOfDrivers(r, n) ==
    Live(r) /\ r.item = n.item
    /\ r.role = "orchestrator" /\ n.role = "orchestrator"

\* Row r stops a new row n under one of the two partial unique indexes.
Conflicts(r, n) ==
    /\ Live(r)
    /\ r.item = n.item
    /\ \/ r.session = n.session
       \/ r.role = "orchestrator" /\ n.role = "orchestrator"

\* Bug: a claim does not stamp its own activity.
UnstampedRow(t) == [item |-> req[t].item, session |-> req[t].session,
                    role |-> req[t].role, liveness |-> "running",
                    supersededBy |-> None, claimedAt |-> req[t].at,
                    lastActive |-> NoTime, released |-> FALSE, ended |-> <<>>]

NewRow(t) == [item |-> req[t].item, session |-> req[t].session,
              role |-> req[t].role, liveness |-> "running",
              supersededBy |-> None, claimedAt |-> req[t].at,
              lastActive |-> req[t].at, released |-> FALSE, ended |-> <<>>]

(* Judging a holder.                                                       *)

NeverSignalled(r) == r.lastActive <= r.claimedAt /\ toolAt[r.session] = NoTime

LadderRung(r, now) ==
    IF now - r.lastActive >= DeadAfter THEN "dead"
    ELSE IF now - r.lastActive >= StaleAfter THEN "stalled"
    ELSE "running"

\* Bug: the exemption has no ceiling.
ExemptForever(r, now) == r.session \notin Hooked /\ NeverSignalled(r)

ExemptFromRelease(r, now) ==
    /\ r.session \notin Hooked
    /\ NeverSignalled(r)
    /\ now - r.claimedAt < SignalLessMax

\* Bug: the sweep follows the ladder whatever the session could signal.
UnsparingRung(r, now) == LadderRung(r, now)

SweepRung(r, now) ==
    IF LadderRung(r, now) = "dead" /\ ExemptFromRelease(r, now)
    THEN "stalled" ELSE LadderRung(r, now)

\* Bug: eviction looks at the claim's age only.
EvictableByAge(r, now) == now - r.claimedAt >= EvictAfter

Evictable(r, now) ==
    /\ now - r.lastActive >= EvictAfter
    /\ now - toolAt[r.session] >= EvictAfter \/ toolAt[r.session] = NoTime
    /\ now - r.claimedAt >= EvictAfter
    /\ ~(NeverSignalled(r) /\ r.session \notin Hooked)

\* Bug: a takeover goes by the age of the claim, whatever was signalled since.
OldClaim(r, now) == now - r.claimedAt >= DeadAfter

\* A takeover of this holder needs no force.
HolderDead(r, now) == r.liveness = "dead" \/ LadderRung(r, now) = "dead"

-----------------------------------------------------------------------------
(* Transactions.                                                           *)

Begin(t, op, next, args) ==
    /\ pc[t] = "idle" /\ op \in Ops
    /\ pc' = [pc EXCEPT ![t] = next]
    /\ req' = [req EXCEPT ![t] = [args EXCEPT !.op = op]]

At(t, here, next) ==
    /\ pc[t] = here
    /\ pc' = [pc EXCEPT ![t] = next]

Write(t, i, r) ==
    /\ Free(t, i)
    /\ owner' = [owner EXCEPT ![i] = t]
    /\ pend' = [pend EXCEPT ![i] = r]

ReadOnly == UNCHANGED <<owner, pend>>

\* Bug: the transaction is left open.
EndHoldingLocks(t) ==
    /\ pc' = [pc EXCEPT ![t] = "idle"]
    /\ req' = [req EXCEPT ![t] = NoRequest]
    /\ UNCHANGED <<clock, owner>>

End(t) ==
    /\ pc' = [pc EXCEPT ![t] = "idle"]
    /\ req' = [req EXCEPT ![t] = NoRequest]
    /\ owner' = [i \in Ids |-> IF owner[i] = t THEN None ELSE owner[i]]
    /\ UNCHANGED clock

\* Bug: a refusal is returned, so what the call wrote is committed.
DiscardNothing(t) ==
    /\ End(t)
    /\ rows' = [i \in Ids |-> View(t, i)]
    /\ UNCHANGED <<pend, toolAt>>

\* A refusal is a throw, and a throw discards everything the call wrote.
Discard(t) ==
    /\ End(t)
    /\ pend' = [i \in Ids |-> IF owner[i] = t THEN rows[i] ELSE pend[i]]
    /\ UNCHANGED <<rows, toolAt>>

Commit(t) ==
    /\ pc[t] = "commit"
    /\ End(t)
    /\ rows' = [i \in Ids |-> View(t, i)]
    /\ toolAt' = [s \in Sessions |->
                     IF s = req[t].session /\ req[t].call > toolAt[s]
                     THEN req[t].call ELSE toolAt[s]]
    /\ UNCHANGED pend

\* The client or the server process goes away, the transaction times out, or
\* the database picks it as a deadlock victim.
Abort(t) == pc[t] # "idle" /\ Discard(t)
-----------------------------------------------------------------------------
(* claim: check the crew, insert; on a refusal evict whoever is stale and  *)
(* try once more.                                                          *)

\* Bound: a claim starts only while an id is left for it to insert.
IdLeft ==
    Cardinality({i \in Ids : rows[i] = None /\ owner[i] = None})
    > Cardinality({t \in Txns : req[t].op = "claim" /\ pc[t] # "commit"})

StartClaim(t, s, item, role) ==
    /\ IdLeft
    /\ Begin(t, "claim",
             IF SameCrew(t, item, s) THEN "insert" ELSE "evict",
             [NoRequest EXCEPT !.item = item, !.session = s, !.role = role,
                               !.at = clock,
                               !.now = IF SameCrew(t, item, s) THEN NoTime
                                       ELSE clock])
    /\ ReadOnly /\ UNCHANGED <<clock, rows, toolAt>>

\* Bug: an insert looks for a conflict among committed rows only.
NoBlockers(t, n) == {}

\* INSERT ... ON CONFLICT DO NOTHING waits for a transaction whose pending
\* write decides whether an index is violated.
Blockers(t, n) ==
    {i \in Ids : /\ ~Free(t, i) /\ pend[i] # rows[i]
                 /\ Conflicts(rows[i], n) \/ Conflicts(pend[i], n)}

ClaimInsert(t, i) ==
    /\ pc[t] \in {"insert", "reinsert"}
    /\ rows[i] = None /\ owner[i] = None
    /\ Blockers(t, NewRow(t)) = {}
    /\ \A j \in Ids : ~Conflicts(View(t, j), NewRow(t))
    /\ Write(t, i, NewRow(t))
    /\ At(t, pc[t], "commit")
    /\ UNCHANGED <<clock, rows, toolAt, req>>

ClaimConflict(t) ==
    /\ pc[t] \in {"insert", "reinsert"}
    /\ \E i \in Ids : /\ Free(t, i) \/ pend[i] = rows[i]
                      /\ Conflicts(View(t, i), NewRow(t))
    /\ IF pc[t] = "insert"
       THEN /\ At(t, "insert", "evict")
            /\ req' = [req EXCEPT ![t].now = clock]
            /\ ReadOnly /\ UNCHANGED <<clock, rows, toolAt>>
       ELSE Discard(t)

\* SELECT ... FOR UPDATE locks the live holders one after the other.
LockHolder(t, i) ==
    /\ pc[t] = "evict"
    /\ i \in LiveOn(t, req[t].item) /\ owner[i] = None
    /\ owner' = [owner EXCEPT ![i] = t]
    /\ UNCHANGED <<clock, rows, pend, toolAt, pc, req>>

Evicted(r) == [r EXCEPT !.released = TRUE, !.liveness = "dead",
                        !.ended = Append(@, "evict")]

ClaimEvict(t) ==
    LET holders == LiveOn(t, req[t].item)
        stale   == {i \in holders : Evictable(View(t, i), req[t].now)}
    IN  /\ pc[t] = "evict"
        /\ \A i \in holders : owner[i] = t
        /\ IF stale = {} THEN Discard(t)
           ELSE /\ At(t, "evict", "recheck")
                /\ pend' = [i \in Ids |->
                      IF i \in stale THEN Evicted(View(t, i)) ELSE pend[i]]
                /\ UNCHANGED <<clock, rows, owner, toolAt, req>>

ClaimRecheck(t) ==
    /\ pc[t] = "recheck"
    /\ IF SameCrew(t, req[t].item, req[t].session)
       THEN /\ At(t, "recheck", "reinsert")
            /\ ReadOnly /\ UNCHANGED <<clock, rows, toolAt, req>>
       ELSE Discard(t)

-----------------------------------------------------------------------------
(* release: a plain read of the caller's live row, then an update by id.   *)

StartRelease(t, s, i) ==
    /\ Live(rows[i]) /\ rows[i].session = s
    /\ Begin(t, "release", "release",
             [NoRequest EXCEPT !.session = s, !.row = i])
    /\ ReadOnly /\ UNCHANGED <<clock, rows, toolAt>>

Release(t) ==
    /\ At(t, "release", "commit")
    /\ Write(t, req[t].row,
             [pend[req[t].row] EXCEPT !.released = TRUE,
                                      !.ended = Append(@, "release")])
    /\ UNCHANGED <<clock, rows, toolAt, req>>

(* heartbeat: one update whose WHERE is re-evaluated after any lock wait.  *)

StartHeartbeat(t, s, i) ==
    /\ Live(rows[i]) /\ rows[i].session = s
    /\ Begin(t, "heartbeat", "beat",
             [NoRequest EXCEPT !.session = s, !.row = i, !.at = clock])
    /\ ReadOnly /\ UNCHANGED <<clock, rows, toolAt>>

Heartbeat(t) ==
    /\ pc[t] = "beat"
    /\ Free(t, req[t].row)
    /\ IF Live(pend[req[t].row])
       THEN /\ At(t, "beat", "commit")
            /\ Write(t, req[t].row,
                     [pend[req[t].row] EXCEPT !.lastActive = req[t].at])
            /\ UNCHANGED <<clock, rows, toolAt, req>>
       ELSE Discard(t)

(* record_tool_calls: a subquery picks the session's newest live row, and  *)
(* the update that uses it matches on the id alone.                        *)

NewestLive(s) ==
    LET mine == {i \in Ids : Live(rows[i]) /\ rows[i].session = s}
    IN  {i \in mine : \A j \in mine : rows[j].claimedAt <= rows[i].claimedAt}

StartToolCalls(t, s, ts) ==
    /\ \E i \in NewestLive(s) \cup {None} :
         /\ i = None => NewestLive(s) = {}
         /\ Begin(t, "tool_calls", IF i = None THEN "commit" ELSE "stamp",
                  [NoRequest EXCEPT !.session = s, !.row = i, !.at = clock,
                                    !.call = ts])
    /\ ReadOnly /\ UNCHANGED <<clock, rows, toolAt>>

Stamp(t) ==
    /\ At(t, "stamp", "commit")
    /\ Write(t, req[t].row, [pend[req[t].row] EXCEPT !.lastActive = req[t].at])
    /\ UNCHANGED <<clock, rows, toolAt, req>>

-----------------------------------------------------------------------------
(* takeover: lock the holder's latest row, judge it, supersede it.         *)

LatestOf(item, s) ==
    LET mine == {i \in Ids : /\ rows[i] # None
                             /\ rows[i].item = item /\ rows[i].session = s}
    IN  {i \in mine : \A j \in mine : rows[j].claimedAt <= rows[i].claimedAt}

StartTakeover(t, by, from, item, force) ==
    /\ by # from
    /\ \E i \in LatestOf(item, from) :
         Begin(t, "takeover", "take",
               [NoRequest EXCEPT !.session = by, !.row = i, !.now = clock,
                                 !.force = force])
    /\ ReadOnly /\ UNCHANGED <<clock, rows, toolAt>>

Superseded(r, by) == [r EXCEPT !.liveness = "superseded", !.supersededBy = by,
                               !.released = TRUE,
                               !.ended = Append(@, "takeover")]

\* Bug: the holder's row may have ended already.
TakeoverOfEnded(t) ==
    LET i == req[t].row
        r == View(t, i)
    IN  /\ At(t, "take", "commit")
        /\ HolderDead(r, req[t].now) \/ req[t].force
        /\ Write(t, i, Superseded(r, req[t].session))
        /\ UNCHANGED <<clock, rows, toolAt, req>>

Takeover(t) ==
    LET i == req[t].row
        r == View(t, i)
    IN  /\ pc[t] = "take"
        /\ Free(t, i)
        /\ IF Live(r) /\ (HolderDead(r, req[t].now) \/ req[t].force)
           THEN /\ At(t, "take", "commit")
                /\ Write(t, i, Superseded(r, req[t].session))
                /\ UNCHANGED <<clock, rows, toolAt, req>>
           ELSE Discard(t)

-----------------------------------------------------------------------------
(* sweep: read every live holder without locking, then write the rung of   *)
(* each one that moved by id, releasing those that go dead.                *)

Moves ==
    {[row |-> i, to |-> SweepRung(rows[i], clock)] :
        i \in {j \in Ids : /\ Live(rows[j])
                           /\ rows[j].liveness \in {"running", "stalled"}
                           /\ rows[j].liveness # SweepRung(rows[j], clock)}}

StartSweep(t) ==
    /\ Moves # {}
    /\ Begin(t, "sweep", "sweep",
             [NoRequest EXCEPT !.todo = Moves])
    /\ ReadOnly /\ UNCHANGED <<clock, rows, toolAt>>

\* Bug: a rung below dead writes releasedAt back to NULL.
SweptBack(t, m) ==
    [pend[m.row] EXCEPT !.liveness = m.to, !.released = m.to = "dead"]

Swept(t, m) ==
    IF m.to = "dead"
    THEN [pend[m.row] EXCEPT !.liveness = "dead", !.released = TRUE,
                             !.ended = Append(@, "sweep")]
    ELSE [pend[m.row] EXCEPT !.liveness = m.to]

SweepRow(t, m) ==
    /\ m \in req[t].todo
    /\ At(t, "sweep", IF req[t].todo = {m} THEN "commit" ELSE "sweep")
    /\ req' = [req EXCEPT ![t].todo = @ \ {m}]
    /\ Write(t, m.row, Swept(t, m))
    /\ UNCHANGED <<clock, rows, toolAt>>

-----------------------------------------------------------------------------
Tick ==
    /\ clock < MaxClock
    /\ clock' = clock + 1
    /\ UNCHANGED <<rows, owner, pend, toolAt, pc, req>>

Init ==
    /\ clock = 1
    /\ rows = [i \in Ids |-> None]
    /\ owner = [i \in Ids |-> None]
    /\ pend = rows
    /\ toolAt = [s \in Sessions |-> NoTime]
    /\ pc = [t \in Txns |-> "idle"]
    /\ req = [t \in Txns |-> NoRequest]

Start(t) ==
    \/ StartSweep(t)
    \/ \E s \in Sessions :
        \/ \E item \in Items, role \in Roles : StartClaim(t, s, item, role)
        \/ \E i \in Ids : StartRelease(t, s, i) \/ StartHeartbeat(t, s, i)
        \/ \E ts \in 1..clock : StartToolCalls(t, s, ts)
        \/ \E item \in Items, from \in Sessions, force \in BOOLEAN :
               StartTakeover(t, s, from, item, force)

Step(t) ==
    \/ \E i \in Ids : ClaimInsert(t, i) \/ LockHolder(t, i)
    \/ ClaimConflict(t) \/ ClaimEvict(t) \/ ClaimRecheck(t)
    \/ Release(t) \/ Heartbeat(t) \/ Stamp(t) \/ Takeover(t)
    \/ \E m \in req[t].todo : SweepRow(t, m)
    \/ Commit(t)

Next == Tick \/ \E t \in Txns : Start(t) \/ Step(t) \/ Abort(t)

Spec == Init /\ [][Next]_vars

-----------------------------------------------------------------------------
(* Correctness.                                                            *)

TypeOK ==
    /\ clock \in Times
    /\ rows \in [Ids -> Assignment \cup {None}]
    /\ owner \in [Ids -> Txns \cup {None}]
    /\ pend \in [Ids -> Assignment \cup {None}]
    /\ toolAt \in [Sessions -> Times \cup {NoTime}]
    /\ pc \in [Txns -> Waiting \cup {"idle"}]
    /\ req \in [Txns -> Request]

Held(i) == Live(rows[i])

\* An item has one driver at a time, whatever claims, evictions and retries
\* overlap (the first partial unique index, as claimItem relies on it).
OneLiveOrchestrator ==
    \A i, j \in Ids :
        /\ Held(i) /\ Held(j) /\ rows[i].item = rows[j].item
        /\ rows[i].role = "orchestrator" /\ rows[j].role = "orchestrator"
        => i = j

\* One session holds at most one live row on an item, so "the row this
\* session holds" in release and heartbeat names one row (the second index).
OneLiveRowPerSession ==
    \A i, j \in Ids :
        /\ Held(i) /\ Held(j) /\ rows[i].item = rows[j].item
        /\ rows[i].session = rows[j].session
        => i = j

\* The committed step ends i's hold with an event of this kind.
Ends(i, kind) ==
    /\ Held(i) /\ rows'[i].released
    /\ rows'[i].ended = Append(rows[i].ended, kind)

\* Eviction only ever happens for a claim that succeeded: no refused claim
\* leaves a holder without its item (claim.ts rolls the eviction back).
EvictionServesAClaim ==
    [][\A i \in Ids : Ends(i, "evict") =>
          \E j \in Ids : /\ rows[j] = None /\ Live(rows'[j])
                         /\ rows'[j].item = rows[i].item]_vars

\* No holder whose latest signal is recent is evicted, not even one that
\* signals while the eviction runs (the FOR UPDATE in evictStaleHolders).
EvictedHolderWasSilent ==
    [][\A i \in Ids : Ends(i, "evict") =>
          /\ clock - rows[i].lastActive >= EvictAfter
          /\ clock - rows[i].claimedAt >= EvictAfter]_vars

\* A holder that may be alive loses its item to a takeover only by force
\* (judged under the row's lock in takeoverAssignment).
UnforcedTakeoverOnlyOfTheDead ==
    [][\A i \in Ids : Ends(i, "takeover") =>
          \/ rows[i].liveness = "dead"
          \/ clock - rows[i].lastActive >= DeadAfter
          \/ \E t \in Txns : req[t].row = i /\ req[t].force]_vars

\* Who displaced a holder is recorded once: of two takeovers that both saw the
\* row live, one is refused (the check of releasedAt under the row's lock).
DisplacedOnce ==
    \A i \in Ids : rows[i] # None =>
        \A k, l \in DOMAIN rows[i].ended :
            rows[i].ended[k] = "takeover" /\ rows[i].ended[l] = "takeover"
            => k = l

\* A hold that ended stays ended, whatever late write reaches its row.
NeverHeldAgain ==
    [][\A i \in Ids : rows[i] # None /\ ~Held(i) =>
          rows'[i] # None /\ ~Live(rows'[i])]_vars

\* SCHEMA.md section 2: liveness freezes at superseded.
SupersededFrozen ==
    [][\A i \in Ids : rows[i] # None /\ rows[i].liveness = "superseded" =>
          rows'[i].liveness = "superseded"]_vars

\* A quiet holder that registered no hook and never signalled is no evidence
\* of death: the sweep keeps its claim up to the signal-less ceiling.  (This is
\* of Ops without "heartbeat": one that began before another and waited longer
\* may set lastActive back to the moment of the claim.)
SignalLessHolderKept ==
    [][\A i \in Ids : Ends(i, "sweep") => ~ExemptFromRelease(rows[i], clock)]_vars

\* The claims operations implement the promise of Ownership.
Promise == INSTANCE Ownership WITH
    holders <- {[item |-> rows[i].item, session |-> rows[i].session,
                 role |-> rows[i].role] : i \in {j \in Ids : Held(j)}}
ImplementsOwnership == Promise!Spec

-----------------------------------------------------------------------------
(* Progress.                                                               *)

\* The rows whose locks keep t from its next step when none of them is free.
Needs(t) ==
    CASE pc[t] \in {"release", "beat", "stamp", "take"} -> {req[t].row}
      [] pc[t] = "sweep" -> {m.row : m \in req[t].todo}
      [] pc[t] = "evict" -> {i \in LiveOn(t, req[t].item) : owner[i] # t}
      [] pc[t] \in {"insert", "reinsert"} -> Blockers(t, NewRow(t))
      [] OTHER -> {}

WaitsFor(t) ==
    IF \E i \in Needs(t) : Free(t, i) THEN {} ELSE {owner[i] : i \in Needs(t)}

\* PostgreSQL aborts one transaction of a cycle of lock waits.
DeadlockVictim(t) ==
    /\ \E S \in SUBSET Txns : t \in S /\ \A u \in S : WaitsFor(u) \cap S # {}
    /\ Abort(t)

\* Lock queues are first come first served, so a call whose turn keeps coming
\* is served; the sweep is on a schedule.
Fairness ==
    /\ WF_vars(Tick)
    /\ \A t \in Txns : SF_vars(Step(t)) /\ WF_vars(DeadlockVictim(t))
    /\ SF_vars(\E t \in Txns : StartSweep(t))
FairSpec == Spec /\ Fairness

\* From some time on no pass of the sweep fails: its failures are transient.
SweepSettles ==
    <>[][\A t \in Txns : req[t].op = "sweep" => ~Abort(t)]_vars
SettledSpec == FairSpec /\ SweepSettles

\* Every call ends, however its row locks interleave with the others'.
CallsEnd == \A t \in Txns : pc[t] # "idle" ~> pc[t] = "idle"

\* A hold the bounded clock lets grow old enough to be released.
AgesOut(i) ==
    /\ Held(i)
    /\ rows[i].lastActive + DeadAfter <= MaxClock
    /\ rows[i].lastActive + SignalLessMax <= MaxClock

\* Once the sweep is scheduled, no claim outlives its holder for good: each
\* holder signals again or loses its claim, a signal-less one at the ceiling.
StrandedClaimReleased == \A i \in Ids : AgesOut(i) ~> ~AgesOut(i)
=============================================================================
