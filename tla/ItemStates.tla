----------------------------- MODULE ItemStates -----------------------------
(***************************************************************************)
(* The item state machine, and what the liveness sweep does to it.         *)
(*                                                                         *)
(* A caller's move reads the item without a lock, runs the guards on what  *)
(* it read, and writes the row by id: another transaction may commit in    *)
(* between (state-machine/transition.ts).  The sweep releases the claims   *)
(* whose holders fell silent, counts a resume attempt on each one's item   *)
(* and blocks an item that reached the limit (liveness.ts).  Both write    *)
(* the same rows, each call in one READ COMMITTED transaction that holds   *)
(* the rows it wrote until it ends.                                        *)
(***************************************************************************)
EXTENDS Integers, Sequences, FiniteSets

CONSTANTS
    Items,
    Projects,    \* the items that are projects: they have no state of their own
    Calls,       \* processes that move items
    Sweeps,      \* processes that run the sweep
    Claims,      \* assignment rows
    Limit,       \* dispatch.resume_attempts_before_blocked
    MaxMoves,    \* bounds the moves of one item
    None

VARIABLES
    item,        \* the committed rows
    lock,        \* the transaction that wrote the row last and has not ended
    pend,        \* the row as that transaction leaves it, or None
    claim,       \* the assignments, None before they are made
    pc, req,     \* where each transaction is, and the move it is making
    found,       \* the silent claims a sweep has read and not treated yet
    freed,       \* the claims it has released and not committed
    history      \* the moves of each item, in the order they committed

vars == <<item, lock, pend, claim, pc, req, found, freed, history>>

ASSUME ItemAssumption ==
    /\ Projects \subseteq Items
    /\ Calls \cap Sweeps = {}
    /\ Limit \in Nat \ {0} /\ MaxMoves \in Nat
    /\ IsFiniteSet(Claims)
    /\ None \notin Items \cup Calls \cup Sweeps

-----------------------------------------------------------------------------
States == {"todo", "paused", "blocked", "merged"}

\* A text field is supplied or not; what it says is left out.
Given == {"given", None}

Procs == Calls \cup Sweeps

Row == [state: States, block: Given, pause: Given, attempts: Nat]
Claim == [on: Items, status: {"live", "silent", "swept"}]
Move == [item: Items, from: States, to: States, block: Given, pause: Given]

\* A move as the ledger tells it.
Report == [by: Procs, from: States, to: States]

ASSUME NoneIsNoRecord == None \notin Row /\ None \notin Claim

Last(s) == s[Len(s)]

-----------------------------------------------------------------------------
(* A move: transition_item, or complete_item when it ends in "merged".     *)

\* What a field is set to on entering its state: what the caller supplied,
\* and on re-entering it without, what the row read had stored.
Kept(entering, from, to, supplied, stored) ==
    IF to # entering THEN None
    ELSE IF supplied # None THEN supplied
    ELSE IF from = to THEN stored ELSE None

\* Bug: leaving a state keeps what it required.
ColumnByFrom(of, from, to, value, current) ==
    IF to = of THEN value ELSE current

\* A column after the move.  It is cleared on a genuine exit, which the row
\* read tells, set on entry, and otherwise stays as the row has it.
Column(of, from, to, value, current) ==
    IF from = of /\ to # of THEN None
    ELSE IF to = of THEN value ELSE current

Moved(row, m) ==
    [row EXCEPT
        !.state = m.to,
        !.block = Column("blocked", m.from, m.to, m.block, row.block),
        !.pause = Column("paused", m.from, m.to, m.pause, row.pause)]

\* The transaction's reads and guards.  A project has no state to move; a
\* caller may say which state it expects, and one that is wrong is refused;
\* a missing block or pause reason is remarked on and does not refuse.
Evaluate(c, i, to, supplied, expected) ==
    LET row == item[i]
    IN  /\ pc[c] = "idle" /\ i \notin Projects
        /\ Len(history[i]) < MaxMoves
        /\ expected \in {row.state, None}
        /\ pc' = [pc EXCEPT ![c] = "update"]
        /\ req' = [req EXCEPT ![c] =
              [item |-> i, from |-> row.state, to |-> to,
               block |-> Kept("blocked", row.state, to, supplied, row.block),
               pause |-> Kept("paused", row.state, to, supplied, row.pause)]]
        /\ UNCHANGED <<item, lock, pend, claim, found, freed, history>>

\* Bug: the UPDATE does not wait for the transaction that wrote the row.
UpdateWithoutLock(c) ==
    LET i == req[c].item
    IN  /\ pc[c] = "update"
        /\ lock' = [lock EXCEPT ![i] = c]
        /\ pend' = [pend EXCEPT ![i] = Moved(item[i], req[c])]
        /\ pc' = [pc EXCEPT ![c] = "commit"]
        /\ UNCHANGED <<item, claim, req, found, freed, history>>

\* The UPDATE waits for the row and applies to its newest version.
UpdateItem(c) ==
    LET i == req[c].item
    IN  /\ pc[c] = "update" /\ lock[i] = None
        /\ lock' = [lock EXCEPT ![i] = c]
        /\ pend' = [pend EXCEPT ![i] = Moved(item[i], req[c])]
        /\ pc' = [pc EXCEPT ![c] = "commit"]
        /\ UNCHANGED <<item, claim, req, found, freed, history>>

\* The state_change event goes in and the transaction commits.
CommitMove(c) ==
    LET i == req[c].item
    IN  /\ pc[c] = "commit"
        /\ item' = [item EXCEPT ![i] = pend[i]]
        /\ lock' = [lock EXCEPT ![i] = None]
        /\ history' = [history EXCEPT ![i] =
              Append(@, [by |-> c, from |-> req[c].from, to |-> req[c].to])]
        /\ pend' = [pend EXCEPT ![i] = None]
        /\ req' = [req EXCEPT ![c] = None]
        /\ pc' = [pc EXCEPT ![c] = "idle"]
        /\ UNCHANGED <<claim, found, freed>>

\* Bug: the version a transaction leaves behind stays in place.
UnlockOnly(p) ==
    /\ pc' = [pc EXCEPT ![p] = "idle"]
    /\ lock' = [i \in Items |-> IF lock[i] = p THEN None ELSE lock[i]]
    /\ UNCHANGED pend

\* The rows a transaction wrote are free for the next one.
Unlock(p) ==
    /\ pc' = [pc EXCEPT ![p] = "idle"]
    /\ lock' = [i \in Items |-> IF lock[i] = p THEN None ELSE lock[i]]
    /\ pend' = [i \in Items |-> IF lock[i] = p THEN None ELSE pend[i]]

\* A refusal, a failure or a deadlock the database breaks.
Rollback(p) ==
    /\ pc[p] # "idle"
    /\ Unlock(p)
    /\ req' = [req EXCEPT ![p] = None]
    /\ found' = [found EXCEPT ![p] = {}]
    /\ freed' = [freed EXCEPT ![p] = {}]
    /\ UNCHANGED <<item, claim, history>>

-----------------------------------------------------------------------------
(* Claims, as the sweep sees them.  Nothing asks what kind of item it is.  *)

Is(k, status) == claim[k] # None /\ claim[k].status = status

TakeClaim(k, i) ==
    /\ claim[k] = None
    /\ claim' = [claim EXCEPT ![k] = [on |-> i, status |-> "live"]]
    /\ UNCHANGED <<item, lock, pend, pc, req, found, freed, history>>

\* Its holder has been quiet for liveness.dead_after_seconds.
FallSilent(k) ==
    /\ Is(k, "live")
    /\ claim' = [claim EXCEPT ![k].status = "silent"]
    /\ UNCHANGED <<item, lock, pend, pc, req, found, freed, history>>

-----------------------------------------------------------------------------
(* The sweep.                                                              *)

ReadSilent(s) ==
    LET silent == {k \in Claims : Is(k, "silent")}
    IN  /\ pc[s] = "idle" /\ silent # {}
        /\ pc' = [pc EXCEPT ![s] = "sweep"]
        /\ found' = [found EXCEPT ![s] = silent]
        /\ UNCHANGED <<item, lock, pend, claim, req, freed, history>>

\* Bug: the sweep counts from what it read when it started.
NewestCommitted(s, i) == item[i]

\* The newest version of the row the transaction may write.
Newest(s, i) == IF lock[i] = s THEN pend[i] ELSE item[i]

Counted(row) == [row EXCEPT !.attempts = @ + 1]

\* Bug: an item is escalated one death too late.
PastLimit(row) == row.attempts > Limit /\ row.state # "blocked"

AtLimit(row) == row.attempts >= Limit /\ row.state # "blocked"

Escalated(row) ==
    Moved(row, [from |-> row.state, to |-> "blocked",
                block |-> "given", pause |-> None])

\* One claim of the pass: it is released, its item's attempts go up, and an
\* item at the limit is blocked.
CountDeath(s, k) ==
    LET i == claim[k].on
        row == Counted(Newest(s, i))
    IN  /\ pc[s] = "sweep" /\ k \in found[s]
        /\ lock[i] \in {None, s}
        /\ ~(AtLimit(row) /\ i \in Projects)
        /\ lock' = [lock EXCEPT ![i] = s]
        /\ pend' = [pend EXCEPT ![i] =
              IF AtLimit(row) THEN Escalated(row) ELSE row]
        /\ found' = [found EXCEPT ![s] = @ \ {k}]
        /\ freed' = [freed EXCEPT ![s] = @ \cup {k}]
        /\ UNCHANGED <<item, claim, pc, req, history>>

\* A project cannot be blocked: the refusal ends the whole pass.
RefuseProject(s, k) ==
    LET i == claim[k].on
    IN  /\ pc[s] = "sweep" /\ k \in found[s]
        /\ lock[i] \in {None, s}
        /\ AtLimit(Counted(Newest(s, i))) /\ i \in Projects
        /\ Rollback(s)

Blocks(s, i) ==
    lock[i] = s /\ pend[i].state = "blocked" /\ item[i].state # "blocked"

CommitSweep(s) ==
    /\ pc[s] = "sweep" /\ found[s] = {}
    /\ Unlock(s)
    /\ item' = [i \in Items |-> Newest(s, i)]
    /\ claim' = [k \in Claims |->
          IF k \in freed[s] THEN [claim[k] EXCEPT !.status = "swept"]
          ELSE claim[k]]
    /\ freed' = [freed EXCEPT ![s] = {}]
    /\ history' = [i \in Items |->
          IF Blocks(s, i)
          THEN Append(history[i], [by |-> s, from |-> item[i].state,
                                   to |-> "blocked"])
          ELSE history[i]]
    /\ UNCHANGED <<req, found>>

-----------------------------------------------------------------------------
NewItem == [state |-> "todo", block |-> None, pause |-> None, attempts |-> 0]

Init ==
    /\ item = [i \in Items |-> NewItem]
    /\ lock = [i \in Items |-> None]
    /\ pend = [i \in Items |-> None]
    /\ claim = [k \in Claims |-> None]
    /\ req = [p \in Procs |-> None]
    /\ pc = [p \in Procs |-> "idle"]
    /\ found = [p \in Procs |-> {}]
    /\ freed = [p \in Procs |-> {}]
    /\ history = [i \in Items |-> << >>]

CallStep(c) ==
    \/ \E i \in Items, to \in States, supplied \in Given,
          expected \in States \cup {None} :
              Evaluate(c, i, to, supplied, expected)
    \/ UpdateItem(c) \/ CommitMove(c)

SweepStep(s) ==
    \/ ReadSilent(s)
    \/ \E k \in Claims : CountDeath(s, k) \/ RefuseProject(s, k)
    \/ CommitSweep(s)

\* No transaction fails but by what the code refuses.
Unfailing ==
    \/ \E c \in Calls : CallStep(c)
    \/ \E s \in Sweeps : SweepStep(s)
    \/ \E k \in Claims : FallSilent(k) \/ \E i \in Items : TakeClaim(k, i)

Next == Unfailing \/ \E p \in Procs : Rollback(p)

Spec == Init /\ [][Next]_vars

-----------------------------------------------------------------------------
(* Correctness.                                                            *)

TypeOK ==
    /\ item \in [Items -> Row] /\ pend \in [Items -> Row \cup {None}]
    /\ lock \in [Items -> Procs \cup {None}]
    /\ \A i \in Items : lock[i] = None <=> pend[i] = None
    /\ claim \in [Claims -> Claim \cup {None}]
    /\ pc \in [Procs -> {"idle", "update", "commit", "sweep"}]
    /\ req \in [Procs -> Move \cup {None}]
    /\ found \in [Procs -> SUBSET Claims] /\ freed \in [Procs -> SUBSET Claims]
    /\ history \in [Items -> Seq(Report)]

\* The ledger can be trusted for an item's state: the last move it reports,
\* a caller's state_change or the sweep's escalation, ends where the item is,
\* whatever calls and sweeps raced (transition-item.ts, liveness.ts).
StateIsLastReported ==
    \A i \in Items :
        item[i].state = IF history[i] = << >> THEN "todo" ELSE Last(history[i]).to

\* No resume attempt is lost, though callers and sweeps rewrite the same row
\* and several claims of one pass may be on the same item (liveness.ts).
EveryDeathCounted ==
    \A i \in Items :
        item[i].attempts >=
            Cardinality({k \in Claims : Is(k, "swept") /\ claim[k].on = i})

\* A pass that takes an item to the limit leaves it blocked, with a reason, on
\* that same pass, and not one that is at the limit yet open (liveness.ts).
EscalatedOnTheSamePass ==
    [][\A i \in Items :
          item'[i].attempts > item[i].attempts /\ item'[i].attempts >= Limit
              => item'[i].state = "blocked"]_vars

\* A move whose event does not start where the one before it ended.
Raced(i) ==
    \E k \in 1..Len(history[i]) :
        history[i][k].from #
            (IF k = 1 THEN "todo" ELSE history[i][k - 1].to)

\* The fields of a state an item has left stay behind only where two moves
\* raced, and then the ledger shows it (transition.ts).
StaleFieldsNeedARace ==
    \A i \in Items : ~Raced(i) =>
        /\ item[i].state # "blocked" => item[i].block = None
        /\ item[i].state # "paused" => item[i].pause = None

\* Nothing fails by itself, sweeps keep being run, and every transaction that
\* holds a row goes on to its end.
FairSpec ==
    /\ Init /\ [][Unfailing]_vars
    /\ \A c \in Calls : WF_vars(CommitMove(c))
    /\ \A s \in Sweeps : WF_vars(SweepStep(s))
                         /\ \A k \in Claims : SF_vars(CountDeath(s, k))

\* SCHEMA.md, section 17: a holder dead for long enough has its claim released.
SilentClaimReleased ==
    \A k \in Claims : Is(k, "silent") ~> Is(k, "swept")
=============================================================================
