---------------------------- MODULE EventLedger -----------------------------
(***************************************************************************)
(* The append-only event ledger and the reader that follows it.            *)
(*                                                                         *)
(* A writer is one service call's transaction.  PostgreSQL gives it a      *)
(* transaction id at its first write, and gives an event its id when the   *)
(* INSERT runs: two counters, drawn at two moments, and neither in the     *)
(* order the transactions commit.  A reader asks for the ids above its     *)
(* cursor, bounded by the visibility horizon, and moves the cursor to the  *)
(* highest id it was given (events.ts, crew/wait-core.ts).                 *)
(***************************************************************************)
EXTENDS Integers, FiniteSets

CONSTANTS
    Writers,     \* service calls that write, one transaction each
    MaxId,       \* bounds the ids the sequence hands out
    PageSize,    \* LIMIT of one read
    None

VARIABLES
    nextId, nextXid,   \* the sequence of Event.id, and of transaction ids
    txn,               \* each writer's transaction: none yet, open or over
    xid,               \* its transaction id, NoXid before its first write
    drawn,             \* the event id its running INSERT has drawn, or None
    log,               \* the inserted events, committed or not
    reader,            \* where the wait is in its loop
    horizon, since,    \* the bound and the cursor of the read under way
    cursor,            \* the cursor the client holds
    read,              \* what the wait has read since that cursor
    delivered          \* what the client was given up to its cursor

writerVars == <<nextId, nextXid, txn, xid, drawn, log>>
readerVars == <<reader, horizon, since, cursor, read, delivered>>
vars == <<nextId, nextXid, txn, xid, drawn, log,
          reader, horizon, since, cursor, read, delivered>>

ASSUME LedgerAssumption ==
    /\ MaxId \in Nat /\ PageSize \in Nat \ {0}
    /\ IsFiniteSet(Writers)
    /\ None \notin Nat

-----------------------------------------------------------------------------
NoXid == 0
EventIds == 1..MaxId

\* crew: the event's type is one a wait wakes its caller for.
Event == [writer: Writers, crew: BOOLEAN]

XidOf(i) == xid[log[i].writer]
Inserted(i) == log[i] # None
Committed(i) == Inserted(i) /\ txn[log[i].writer] = "committed"

-----------------------------------------------------------------------------
(* Writers.                                                                *)

Open(w) == txn[w] \in {"none", "open"}

\* The transaction has an id from now on, if it did not have one.
AssignXid(w) ==
    IF xid[w] = NoXid
    THEN /\ xid' = [xid EXCEPT ![w] = nextXid]
         /\ nextXid' = nextXid + 1
    ELSE UNCHANGED <<xid, nextXid>>

\* A write that precedes the event: the row the event tells of.
WriteRow(w) ==
    /\ Open(w) /\ xid[w] = NoXid /\ drawn[w] = None
    /\ AssignXid(w)
    /\ txn' = [txn EXCEPT ![w] = "open"]
    /\ UNCHANGED <<nextId, drawn, log>> /\ UNCHANGED readerVars

\* INSERT INTO "Event" evaluates its column defaults in turn: the id comes
\* from the sequence first,
DrawId(w) ==
    /\ Open(w) /\ drawn[w] = None /\ nextId \in EventIds
    /\ drawn' = [drawn EXCEPT ![w] = nextId]
    /\ nextId' = nextId + 1
    /\ txn' = [txn EXCEPT ![w] = "open"]
    /\ UNCHANGED <<nextXid, xid, log>> /\ UNCHANGED readerVars

\* and then txid_current() names, or creates, the transaction's id.
InsertEvent(w, crew) ==
    /\ drawn[w] # None
    /\ AssignXid(w)
    /\ log' = [log EXCEPT ![drawn[w]] = [writer |-> w, crew |-> crew]]
    /\ drawn' = [drawn EXCEPT ![w] = None]
    /\ UNCHANGED <<nextId, txn>> /\ UNCHANGED readerVars

Commit(w) ==
    /\ txn[w] = "open" /\ drawn[w] = None
    /\ txn' = [txn EXCEPT ![w] = "committed"]
    /\ UNCHANGED <<nextId, nextXid, xid, drawn, log>> /\ UNCHANGED readerVars

\* A refusal, a crash or a timeout: the rows go, the ids drawn stay drawn.
Rollback(w) ==
    /\ txn[w] = "open"
    /\ txn' = [txn EXCEPT ![w] = "rolled back"]
    /\ drawn' = [drawn EXCEPT ![w] = None]
    /\ log' = [i \in EventIds |->
                  IF Inserted(i) /\ log[i].writer = w THEN None ELSE log[i]]
    /\ UNCHANGED <<nextId, nextXid, xid>> /\ UNCHANGED readerVars

-----------------------------------------------------------------------------
(* The reader: wait_for_crew, one statement per action.                    *)

Running == {w \in Writers : txn[w] = "open" /\ xid[w] # NoXid}

\* Bug: the horizon never passes the first transaction.
StuckHorizon == IF \E w \in Writers : xid[w] # NoXid THEN 1 ELSE nextXid

\* pg_snapshot_xmin: the oldest transaction id still running, or the next one.
Horizon ==
    CHOOSE h \in {xid[w] : w \in Running} \cup {nextXid} :
        \A w \in Running : h <= xid[w]

StartWait ==
    /\ reader = "away"
    /\ reader' = "bound"
    /\ since' = cursor /\ read' = {}
    /\ UNCHANGED <<horizon, cursor, delivered>> /\ UNCHANGED writerVars

ReadHorizon ==
    /\ reader = "bound"
    /\ reader' = "slice"
    /\ horizon' = Horizon
    /\ UNCHANGED <<since, cursor, read, delivered>> /\ UNCHANGED writerVars

\* Bug: the slice is bounded by the cursor alone.
AllAbove == {i \in EventIds : i > since /\ Committed(i)}

Readable == {i \in EventIds : i > since /\ Committed(i) /\ XidOf(i) < horizon}

Page(S) == {i \in S : Cardinality({j \in S : j <= i}) <= PageSize}

\* Bug: the cursor moves a page on, whatever the page held.
PageOn(S) == since + PageSize

HighWater(S) == CHOOSE h \in S \cup {since} : \A i \in S : i <= h

ReadSlice ==
    LET page == Page(Readable)
    IN  /\ reader = "slice"
        /\ since' = HighWater(page)
        /\ read' = read \cup page
        /\ reader' = IF \E i \in page : log[i].crew THEN "reply" ELSE "pause"
        /\ UNCHANGED <<horizon, cursor, delivered>> /\ UNCHANGED writerVars

\* The interval passes, or the ledger is said to have moved,
Pause ==
    /\ reader = "pause"
    /\ reader' = "bound"
    /\ UNCHANGED <<horizon, since, cursor, read, delivered>>
    /\ UNCHANGED writerVars

\* or the wait's time is up.
TimeOut ==
    /\ reader = "pause"
    /\ reader' = "reply"
    /\ UNCHANGED <<horizon, since, cursor, read, delivered>>
    /\ UNCHANGED writerVars

\* The client keeps the cursor it is handed back and asks again from it.
Reply ==
    /\ reader = "reply"
    /\ reader' = "away"
    /\ cursor' = since
    /\ delivered' = delivered \cup read
    /\ UNCHANGED <<horizon, since, read>> /\ UNCHANGED writerVars

\* The connection drops: the client asks again from the cursor it had.
LoseReply ==
    /\ reader \in {"bound", "slice", "pause", "reply"}
    /\ reader' = "away"
    /\ UNCHANGED <<horizon, since, cursor, read, delivered>>
    /\ UNCHANGED writerVars

-----------------------------------------------------------------------------
Init ==
    /\ nextId = 1 /\ nextXid = 1
    /\ txn = [w \in Writers |-> "none"]
    /\ xid = [w \in Writers |-> NoXid]
    /\ drawn = [w \in Writers |-> None]
    /\ log = [i \in EventIds |-> None]
    /\ reader = "away" /\ horizon = 0 /\ since = 0 /\ cursor = 0
    /\ read = {} /\ delivered = {}

Write(w) ==
    \/ WriteRow(w) \/ DrawId(w)
    \/ \E crew \in BOOLEAN : InsertEvent(w, crew)
    \/ Commit(w) \/ Rollback(w)

Read == StartWait \/ ReadHorizon \/ ReadSlice \/ Pause \/ TimeOut \/ Reply

Next == (\E w \in Writers : Write(w)) \/ Read \/ LoseReply

Spec == Init /\ [][Next]_vars

-----------------------------------------------------------------------------
(* Correctness.                                                            *)

TypeOK ==
    /\ nextId \in 1..(MaxId + 1) /\ nextXid \in Nat \ {0}
    /\ txn \in [Writers -> {"none", "open", "committed", "rolled back"}]
    /\ xid \in [Writers -> Nat]
    /\ drawn \in [Writers -> EventIds \cup {None}]
    /\ log \in [EventIds -> Event \cup {None}]
    /\ reader \in {"away", "bound", "slice", "pause", "reply"}
    /\ horizon \in Nat /\ since \in 0..MaxId /\ cursor \in 0..MaxId
    /\ read \subseteq EventIds /\ delivered \subseteq EventIds

\* The client's cursor has passed a committed event it was never given.
Skipped(i) == Committed(i) /\ i <= cursor /\ i \notin delivered

\* events.ts: the bounded read never skips a row.
NeverSkips == \A i \in EventIds : ~Skipped(i)

\* What the horizon does achieve: an event is passed over only by one whose
\* transaction is older, so a ledger whose transaction ids rise with its event
\* ids is read exactly once (the txId bound in readSinceBounded).
SkippedOnlyByOlder ==
    \A i \in EventIds : Skipped(i) =>
        \E j \in delivered : j > i /\ Committed(j) /\ XidOf(j) < XidOf(i)

\* A call's transaction ends, the client goes on asking, and its reads and
\* replies get through again and again.
LedgerFairness ==
    /\ \A w \in Writers :
          WF_vars(Commit(w) \/ \E crew \in BOOLEAN : InsertEvent(w, crew))
    /\ WF_vars(Read)
    /\ SF_vars(ReadHorizon) /\ SF_vars(ReadSlice)
    /\ SF_vars(TimeOut) /\ SF_vars(Reply)

FairSpec == Spec /\ LedgerFairness

\* No event is held back for good: the horizon passes every transaction.
CursorCatchesUp ==
    \A i \in EventIds : Committed(i) ~> (cursor >= i)
=============================================================================
