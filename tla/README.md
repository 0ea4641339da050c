# agent-standup in TLA+

`agent-standup` is a task tracker for crews of coding agents: a Next.js server
over PostgreSQL (through Prisma) that agents reach by HTTP, MCP or a command
line. Agents claim items, signal that they are alive, move items through their
states and through a tree of projects, record the evidence a merge is judged by,
and follow a ledger of events. Many agents call at once, several call for one
session, holders die without saying so, and hooks report late. This directory
models the parts in which that matters, checks them with TLC and proves the
central ones with TLAPS.

Source paths below are relative to the repository's `src/` directory; documents
are under `docs/plans/`.

## 1. The system

### Parts, state and operations

| Part | State it keeps | Operations | Source |
|---|---|---|---|
| Claims and leases | `Assignment` rows: item, session, role, `liveness`, `lastActiveAt`, `releasedAt`, `supersededBy`; two partial unique indexes over live rows | claim (with eviction of stale holders and one retry), release, heartbeat, takeover | `lib/claims.ts`, `lib/claim-eviction.ts`, `lib/takeover.ts`, `lib/service/operations/{claim,release,heartbeat,takeover}.ts` |
| Liveness ladder and sweep | the same rows, `Item.resumeAttempts` | one pass: running → stalled → dead, release of the dead, a resume attempt for each, escalation to `blocked` | `lib/liveness.ts` |
| Tool call recording | `ToolCall` rows, the session's newest live claim | insert what the hook reports, stamp `lastActiveAt` | `lib/service/operations/record-tool-calls.ts` |
| Hook and its spool | a file on the client's machine, shared by every hook that runs there | append, enforce the ceiling, drain to the server, rewrite | `lib/hook/flush.ts`, `lib/cli/spool-file.ts` |
| Event ledger and followers | `Event` rows, `txId`, each client's cursor | append, read since a cursor, wait for the crew | `lib/events*.ts`, `lib/crew/wait-core.ts`, `lib/service/operations/wait-for-crew.ts` |
| Crew names | `Agent.heldBySessionId` | draw, keep, return a name | `lib/agent-names.ts` |
| Item state machine | `Item.state` and the columns a state requires | transition_item, complete_item | `lib/service/state-machine/` |
| Evidence and the merge | `Artifact` rows (commits, reviews, overrides), the item a review defers to | record_artifact, the review and the follow-up clause of a merge | `lib/service/guards/`, `lib/service/operations/record-artifact.ts` |
| Item hierarchy | `Item.parentId`, `depth`, `kind` | reparent_item, retype_to_task, repair_stuck_projects, the creations | `lib/service/items/` and the operations that call it |
| Deletion and restoration | `archivedAt`, `archivedReason`, `supersededById` | delete_item, restore_item | `lib/service/operations/{delete,restore}-item.ts` |
| Documents | a revision and keyed entries per document | doc_patch, doc_get | `lib/service/operations/doc-{patch,get}.ts` |
| Open loops | none but events, folded at each read | loop_add, loop_close, loop_edit, loop_delete | `lib/open-loops.ts`, `lib/service/operations/open-loops.ts` |
| Settings | `Setting` rows and a revision counter; a snapshot in each server process | read through the cache; write and invalidate | `lib/settings/cache.ts`, `lib/service/live.ts` |
| Service runtime | none of its own: one READ COMMITTED transaction per call, rolled back by a throw | `dispatch` | `lib/service/runtime.ts` |
| The rest | telemetry and costs, processes, interventions, areas and repos, dispatch plan, import, adapters, pages | | see section 8 |

### How they interact

Every operation runs inside `dispatch` (`lib/service/runtime.ts`): settings are
read before, the handler's statements run in one READ COMMITTED transaction, a
refusal is a throw, and a throw rolls everything back. Two things that decisions
depend on are kept outside the database: the settings snapshot in the memory of
each server process, and the spool file on each client. Everything else
interacts through rows:

- a **claim** inserts an `Assignment`, draws a crew name, may end other
  holders' rows, and appends events, all in its own transaction;
- the **sweep** is one call like any other, which an external scheduler must
  keep making. It reads live assignments without a lock and writes them, their
  items and their sessions' names by id;
- **tool calls** come from a hook on the client, with the client's clock, late
  and sometimes twice, since the **spool** sends at least once; they are what a
  holder's silence is judged by;
- a **follower** holds no connection state on the server: its cursor is the
  client's, and the server promises that what is behind the cursor was seen;
- a **merge** is a move of an item whose guards read the artifacts, query by
  query, while others record more of them;
- **moves in the tree**, **deletes** and **restores** each look at rows around
  the one they write, without locking those;
- an **open loop** exists in the ledger alone: a call folds the events it sees
  and appends one.

### What is hard

The code takes no lock before most of its reads. What protects it is a mixture
of unique indexes (claims), `FOR UPDATE` (eviction, takeover, documents), `WHERE`
clauses that PostgreSQL re-evaluates after a lock wait (heartbeat, name return,
restore), an optimistic re-read (claim's second try), a visibility bound (the
ledger), a fold that does not depend on order (loops), and a promise shared by
concurrent callers (the settings cache). Each works for a reason that is not
visible in one function, and a test that runs calls one after the other exercises
none of them. `PROJECT.json` lists the hazards with their lines; the properties
below are aimed at them.

### What makes each part correct

- *Claims*: one live orchestrator per item and one live row per session and
  item; a holder is displaced only when it is silent or by force, once, and only
  for a claim that succeeded; a hold that ended stays ended; calls end; an
  abandoned claim is released.
- *Sweep*: it never ends a hold it exempts, counts every death, blocks an item
  on the pass that reaches the limit, and makes progress.
- *Ledger*: a follower that has moved past an event has been given it, and no
  event is kept from it for good.
- *Names*: registering and claiming give a session one name; a name is never
  taken from a session by somebody else's call; a working session keeps its name.
- *Item states*: the last move in the ledger ends in the item's state; the
  columns of a state are cleared when it is left.
- *Evidence*: a merge that passes in silence was reviewed, at a commit that was
  the tip, in a round that was current; a squash or a rebase costs no review.
- *Hierarchy*: the parents form a forest; the stored depth agrees with it, and a
  move repairs the subtree it moves.
- *Deletion*: row and events agree, although a restore tells what it read at its
  start; live work is hidden under an archived item only knowingly.
- *Documents*: revisions form one chain; the events tell what happened to each
  entry; `ifRev` protects what its author has not seen.
- *Open loops*: a status only advances; a retired id is not given out again;
  only an edit that names a kind changes it.
- *Settings*: a process shows its own writes, and in the end everybody's.
- *Spool*: records leave it stored or trimmed, in their order, once if nothing
  goes wrong, and none stays behind for another session's sake.

## 2. Modules

| Module | Models | Runs |
|---|---|---|
| `Claims` | claims, leases, ladder, tool-call stamps: the `Assignment` table | `claims_contention`, `claims_sweep`, `claims_progress`, `claims_superseded_revived` |
| `Ownership` | what the claim operations promise, with atomic calls | refined by `Claims` in `claims_contention` |
| `EventLedger` | the ledger and one follower | `followers_caught_up`, `ledger_skip` |
| `CrewNames` | the pool of names | `stores_shared`, `names_lost` |
| `ItemStates` | moves of items, resume attempts, escalation | `items_changed`, `items_sweep_wedged` |
| `Evidence` | artifacts and the clauses of the merge that read them | `items_changed` |
| `Hierarchy` | the item tree | `stores_shared`, `tree_cycle` |
| `Archiving` | deletes and restores | `stores_shared` |
| `Documents` | one document of an item | `items_changed` |
| `OpenLoops` | the loose ends of an item | `stores_shared` |
| `SettingsCache` | one process's snapshot of the settings | `followers_caught_up`, `settings_stale` |
| `HookSpool` | the spool file of a machine's hooks | `stores_shared`, `followers_caught_up` |
| `ClaimsProofs`, `CrewNamesProofs`, `ItemStatesProofs`, `ArchivingProofs`, `OpenLoopsProofs`, `HierarchyProofs` | theorems about the module each is named after | – |
| `PaperworkProofs` | theorems about `Documents` and `Evidence` | – |
| `FollowersProofs` | theorems about `EventLedger`, `SettingsCache` and `HookSpool` | – |
| `MCClaims`, `MCEventLedger`, `MCCrewNames`, `MCItemStates`, `MCHierarchy`, `MCSettingsCache` | symmetry sets and finite constants for TLC | – |
| `MCItems`, `MCStores`, `MCFollowers` | several parts side by side, for TLC | – |

The last three put parts that share no variable into one instance: a variable
`part` chooses which of them acts, the others stay at rest, and the states are
the sum of theirs and not the product. Where parts do share state they are one
module: claims, ladder and stamps in `Claims`; moves, sweep and escalation in
`ItemStates`; claim, release and the pool in `CrewNames`.

### Conventions

- **One database statement is one action.** What a handler computes between two
  statements is part of the action of one of them, because nothing of it is
  visible to another transaction. A read whose result is used only by the next
  statement of the handler is joined with the start of the call when no other
  statement comes before it (`StartRelease` reads the row `Release` writes).
- **READ COMMITTED.** A statement sees the committed rows and its own
  transaction's writes (`View`). A write takes the row's lock until the
  transaction ends; when the lock is taken it is not enabled; once it is free it
  acts on the newest version. In `Claims`, `CrewNames` and `ItemStates` the
  committed version, the newest version and the lock are variables (`rows` /
  `held` / `item`, `pend`, and `owner` / `lock`). `INSERT ... ON CONFLICT DO
  NOTHING` waits for a pending row that decides whether it conflicts
  (`Blockers`).
- **Failures.** `Abort` and `Rollback` undo a transaction at any statement: the
  client or the server is gone, the transaction times out, or PostgreSQL breaks
  a deadlock. The processes keep no state, so a restart is nothing more. A
  retried call is another call.
- **Histories.** A ghost variable keeps what the code does not: which calls have
  overlapped (`overlap`, `company`, `crossed`, `clash`), what has gone wrong
  around a file (`excuse`: records `lost`, `repeated`, `reordered`), what was
  recorded while a merge was judged (`merge.tips`, `merge.rounds`). Actions
  write them and no guard reads them, but for the counters that bound a
  behaviour.
- **Time.** `Claims` has a clock and takes the time a handler used from where
  the handler takes it: `CURRENT_TIMESTAMP` is the transaction's start (`at`),
  a JavaScript `Date` is read when the handler gets there (`now`). `ItemStates`
  needs only that a holder falls silent.
- Operators whose comment begins with **`Bug:`** are not part of the
  specification. Each is a plausible error in the operator that follows it;
  substituting it breaks the property named with it in `PROJECT.json`, which
  is how it is known that the property depends on that code.

### Claims

`rows[i]` is the committed `Assignment` with id `i`. A row carries the events
that ended it (`ended`), which the code writes to the ledger in the same
transaction. `toolAt[s]` is `MAX(ToolCall.ts)` of a session, and `RootOf` gives
the crew a session claims under.

| Action | Code |
|---|---|
| `StartClaim` | the crew check: `lib/claims.ts` reads the live rows; a different crew sends the claim straight to eviction |
| `ClaimInsert`, `ClaimConflict` | the insert, which another row may refuse through an index |
| `LockHolder`, `ClaimEvict` | `evictStaleHolders`: `FOR UPDATE` row by row, then the judgement under the lock; nobody stale refuses the claim |
| `ClaimRecheck`, then `ClaimInsert` or `ClaimConflict` again | the one retry; a second refusal throws, which undoes the eviction |
| `StartRelease`, `Release` | a plain read of the caller's row, then an update by id |
| `StartHeartbeat`, `Heartbeat` | an update whose `WHERE` is evaluated again after a lock wait |
| `StartToolCalls`, `Stamp` | the inserts, then the stamp by id of a row a subquery chose |
| `StartTakeover`, `Takeover` | `FOR UPDATE` of the holder's latest row, the dead-or-forced test, supersession |
| `StartSweep`, `SweepRow` | an unlocked read of every live row, then one update by id for each that moves |
| `Commit`, `Abort` | the end of the transaction |

`Ownership` forgets everything but the set of live holds. `Claims` implements it
under the mapping "the holds of the committed live rows"; a claim that evicts is
one `Grant` there, a sweep that releases three rows is one `Relinquish`. The run
`claims_contention` checks this and the theorem `Implements` proves it.

Bounds: `Ids` bounds how many claims succeed in a behaviour (`IdLeft`),
`MaxClock` the clock, `Txns` the calls that overlap. Roles other than
orchestrator are one, `builder`, since only orchestrator is told apart.

### EventLedger

A writer's transaction draws an event id (`DrawId`) and, at its first write, a
transaction id (`WriteRow` or `InsertEvent`); it commits when it likes. The
follower is `wait_for_crew` statement by statement: the horizon
(`ReadHorizon`), a page of events below it (`ReadSlice`), a pause or a time-out,
and a reply that may be lost (`LoseReply`), upon which the client asks from the
cursor it had. Sequence and transaction ids are PostgreSQL's; they are modelled
from the use the migration and `lib/events-insert.ts` make of them.

Bounds: each writer is one transaction; `MaxId` bounds the ids drawn, rolled
back ones included.

### CrewNames

Claim and registration draw a name with `SKIP LOCKED` (`DrawName`), release and
sweep return it by three statements (`ReadHeld`, `CountClaims`, `FreeName`).
Eviction and takeover end a claim and leave the name (`LoseClaim`).
`GetCrewName` is `get_crew_name`, by which an operator draws a name for any
session: it goes to the draw without asking what the session holds
(`get-crew-name.ts:57-58`) and fails if there is none. So a session may hold
several; `KeepName` and `ReadHeld` then read any one of them (`nameHeldBy` has a
`LIMIT 1` and no order), and a release returns that one and leaves the others
held. `extra` keeps which names were drawn so, and `OneNamePerSession` is about
the rest. `OneCallAtATime` says whether a session may have two calls of its own under way;
every instance sets it to `TRUE`, since the races shown need no such client.

### ItemStates

A move is `Evaluate` (read and guards), `UpdateItem` (the one UPDATE, with its
set-or-clear expressions decided by the row read) and `CommitMove`. The sweep is
`ReadSilent`, one `CountDeath` per claim, `CommitSweep`; `RefuseProject` is the
exception that a project at the limit raises, which undoes the pass. `history`
is what the ledger says of an item. Four states stand for the twelve: one with
neither column, `blocked` and `paused` with theirs, and a completed one; the
columns of other states are left out. Bound: `MaxMoves` moves of an item by
callers.

### Evidence

`artifacts` are an item's rows in the order the queries sort by, `createdAt` and
`seq`. `createdAt` is when the recording transaction began, so `Record` puts its
row anywhere among those recorded by `Overlap` transactions that were open with
it. The merge is judged statement by statement; no statement locks anything.

| Action | Code |
|---|---|
| `Record`, `CloseFollowUp` | `record_artifact`; the item a review deferred to is finished or dropped |
| `Ask` | the move to `merged` begins |
| `ReadTip`, `StartLineage`, `Hop` | `currentTipCommitSha`, then `tipCommitLineage`, which reads the tip again and follows `supersedesSha`, one query a hop |
| `FindOverride` | `reviewEvidenceOverrideSatisfies` |
| `AnyApproval`, `ReadRound`, `ReadApprovals`, `JudgeReview` | the review clause: `hasApproval`, `resolveApprovingArtifactAtCurrentRoundAndTip`, its findings |
| `JudgeDeferral`, `ReadFollowUp` | the follow-up clause, which makes the same search again |

The two override kinds stand as one row. `SilentMergeWasReviewed` says what a
silent merge rests on under any interleaving, and that it rests on exactly the
evidence there is when nothing is recorded meanwhile, `Sound` being read off the
rows at once: a row is named by its place among them, the newest is the one at
the greatest place, and the lineage is the set of shas at which a walk of links
from the tip may end (`Reach`, `Within`). The follow-up clause is not covered
under interference: it searches again (`merge.ts:827`), so a row that opens a
round between the two clauses lets a merge that rests on a deferral pass without
the deferral being looked at, although the comment at `merge.ts:820-824` says
the two "can never be reasoning about a different artifact".

### Hierarchy

`tree` is the committed table of parents and depths; a row's kind follows from
its depth wherever depth is written. What a recursive query finds above an item
(`Above`) is the least set that holds the item and the parent of each of its
members, which is defined on a cycle as well; the depth the code counts along
the way is the cardinality of that set, without the item (`DepthOf`).

| Action | Code |
|---|---|
| `StartMove`, `ReadDepth` | `reparent_item` and `retype_to_task`: load, read the subtree, check for a cycle; then the depth of the new parent and the limit |
| `UpdateMoved`, `UpdateBelow` | `applyMove`: the item, then each descendant whose depth was read as stale |
| `StartRepair`, `ReadRepairDepth`, `NextStuck` | `repair_stuck_projects`: the candidates, the depth once, then the same move for each |
| `StartCreate`, `InsertThing` | `create_project`, `create_task`, `create_subtask`, `create_item` |
| `CommitMoved`, `AbandonMove` | the end of the transaction |

`TreeInit` plants every forest that creations build and, besides, every such
forest with one stored depth wrong, which is what an earlier overlap leaves:
`MoveRepairsDepth` is about those.

### Archiving

A delete is `StartDelete` (the row), `CheckReferences` (live children, and items
that name it as their replacement) and `Archive`; a restore is `StartRestore`,
`CheckContext` (the parent) and `Restore`, whose `WHERE` asks again whether the
row is archived. `GiveUp` stands for every refusal. `File` is what others do
meanwhile: neither creating an item nor moving it asks whether the new parent is
archived (`reparent-core.ts:297-300` says that items have no `archivedAt`; they
have, `schema.prisma:152`). `overtaken` keeps the rows of which one call wrote
what another had read and not yet acted on.

A restore keeps what it read at its start, and its event repeats that
(`restore-item.ts:319-332`), while the update leaves the row's stand-in as it is
by then. If a delete with a stand-in commits in between (a second delete that
overlapped the first, or a delete after another restore), the row keeps the new
stand-in, the event tells the old one, and the row comes back although nobody
acknowledged that another stands in for it. `RowIsAsLastTold` therefore says
three things: the row has the stand-in of its *last delete* told of; it is
archived, with that delete's reason, exactly if that is the last event; and the
event of a restore repeats a delete before it, the last one unless that overtook
the restore. Of two deletes that overlap the later one overwrites
the reason of the first, which `delete-item.ts:493-499` means to keep; the
events still tell both.

### Documents

`GetRev` and `GetEntries` are the two statements of `doc_get`. `StartPatch` takes
the document's row lock, after which no other patch moves the entries, so what
`doc_patch` does next is one action: `LeaveAlone` when nothing differs or the
patch is rejected, or `CommitPatch`. `changes` are its events.

### OpenLoops

`Fold` is a call that derives the loops and passes its checks,
`AppendLoopEvent` draws the event's id, `CommitLoopEvent` makes it visible,
`AbandonLoop` loses it; between them others do the same. `Status` asks what
there is in no order, `Opening` takes the lowest id, `KindOf` the last edit that
names a kind. Two adds of one id at once both succeed and are one loop;
`clash` keeps such ids, and the properties say so.

### SettingsCache

A process runs one piece of JavaScript at a time, so an action is what runs
between two awaits or the statement an await waits for. `Join`, `Recheck` and
`LoadFirst` are the three ways `get()` begins; `ReadRevision` and `Compare`
revalidate; `ReadRows`, `ReadStamp`, `Land` are a load, `FailLoad` and
`FailCheck` its failures; `WriteSetting` and `Invalidate` a write and what
follows it in the process that made it; `Lapse` the end of the interval in which
a snapshot is served unasked. What a setting says is the revision that put it
there.

### HookSpool

Every tool call runs a process that appends a record (`AppendRecord`) and trims
the file when it is due (`EnforceCeiling`). A drain reads the file
(`StartDrain`), sends batch by batch (`SendAccepted`, `SendRefused`,
`SendFailed`, `SendUnanswered`), and rewrites the file (`EndDrain`, then `Empty`
and `WriteBack`, because a rewrite empties the file first). `Kill` ends a hook
anywhere. Nothing keeps two hooks apart. `flush.ts:12-14` says that nothing
leaves the spool before the server has it; `NothingVanishes` states that, and
holds up to the overwrites that `excuse` records. `flush.ts:172-174` says that a
session's calls stay in the sequence they happened. They do, unless a drain
starts after another hook has emptied the file and before it has put the records
back: the drain then finds and sends only what was appended since, and the
older records of the same session follow later (`reordered`).

## 3. Runs

| Run | Instance | Shows |
|---|---|---|
| `claims_contention` | 2 calls, 3 sessions of 2 crews, 1 item, 2 rows, clock to 2, thresholds of 1; claim, takeover, heartbeat | both uniqueness rules; an eviction serves a claim that succeeded; an evicted holder was silent even if it spoke during the eviction; an unforced takeover is of a dead holder; `Claims` implements `Ownership` |
| `claims_sweep` | 2 calls, 2 sessions, 1 row, clock to 3; claim, sweep, takeover, release, tool calls | a holder is displaced once; the sweep spares a holder without signals until its grace is over; a hold that ended stays ended |
| `claims_progress` | 2 calls, 3 sessions, 2 rows, clock to 3; claim and sweep; fairness | every call ends, deadlocks included; no abandoned claim is held for good |
| `followers_caught_up` | ledger: 2 writers, 3 ids, pages of one event. Settings: 2 reads at once, 2 revisions. Spool: 2 hooks of one call each, one refused, ceiling 2, batches of one. Fairness | an event is passed over only by one of an older transaction, and the cursor passes every committed event; own writes are shown and the last revision is reached; the spool drains although a session is refused |
| `items_changed` | moves: 2 callers, 2 sweeps, 2 claims, an item and a project, limit 2, 1 move. Documents: 2 authors, 2 keys, 2 values, 2 revisions. Evidence: 3 commits, 1 hop, 2 rounds, 2 rows before the merge is asked for and 1 change during it | the ledger agrees with the row; no death is lost; escalation on the same pass; stale columns need a race; one chain of revisions; events agree with entries; `ifRev` protects; a silent merge was reviewed; a rewrite keeps its approval |
| `stores_shared` | names: 2 calls, 2 sessions, 2 claims, 2 names. Tree: 4 items, 3 of them planted, an inbox among them, 2 movers, 2 calls, depth 2. Archive: 2 rows, 2 callers, 3 events. Loops: 1 loop, 2 kinds, 2 callers, 4 events. Spool: 2 hooks with 2 calls and 1, ceiling 2, batches of one, explored until something may be lost | names are not stolen, and not doubled but by `get_crew_name`; drift and cycles need an overlap, and a move repairs; deletes, restores and their events agree, and work is hidden knowingly or by an overtaken check; loops only advance and ids are not reused; losses, repeats and disorder need an overwrite or a fault |
| `claims_superseded_revived` | 2 sessions, 2 rows; claim, sweep, takeover | a violation: finding 1 |
| `ledger_skip` | 2 writers, 2 ids | a violation: finding 2 |
| `names_lost` | 2 sessions | a violation: finding 3 |
| `settings_stale` | 2 reads, 2 revisions | a violation: finding 4 |
| `tree_cycle` | 3 items, 2 movers | a violation: finding 5 |
| `items_sweep_wedged` | an item and a project, limit 1; fairness | a violation: finding 6 |

**Why the bounds are enough.** Two overlapping transactions suffice for every
race listed: each is a statement of one between two statements of another, and
everything else a third could do is a committed state that two reach as well,
one after the other (a call that ends leaves its transaction free for the next).

- Three sessions of two crews are the least in which a crew mate and a stranger
  compete for one item; two rows the least in which an eviction and the claim it
  serves are different rows, and in which an index can be violated; one item,
  since no claim statement relates two items. The clock reaches past
  `EvictAfter`, and in `claims_progress` the age at which even an exempt holder
  that claimed at the start, or one tick later, must lose its claim (`AgesOut`
  asks for both ages to be within the clock). `SignalLessMax` exceeds
  `DeadAfter` where the sweep runs, so the exemption matters.
- One event per page is the least in which a cursor can stop between two events
  of one transaction; three ids let one be rolled back and two still commit out
  of order.
- `Limit = 2` with two claims lets one pass, two passes or two overlapping
  passes reach the limit.
- Three planted items make a chain of the greatest depth, with a subtree to move
  and an item in the middle of it; the fourth is created under what moves.
- Two artifacts and one more recorded during the evaluation are the least in
  which a review, the commit it is of and a rewrite of that commit are all there,
  with one of them arriving between two queries. Larger instances hold as well
  and take longer than one wants to wait for: two hops, two changes and three
  rows over two commits; three rows over three commits with any number of
  changes. `InTurn` in `MCItems` names commits in turn and leaves out rows that
  differ in nothing the clauses look at.
- Two keys let a patch leave one of them alone; two revisions let a read fall
  behind. The code cuts an event's list of keys at `SUMMARY_MAX_KEYS`
  (`doc-patch.ts:322-330`); the list of so few is never cut.
- Three events on two rows let two deletes overlap and a restore be overtaken by
  the second. Two sessions and two names let one hold both and the other find
  the pool empty.
- A ceiling of two with three records trims one; batches of one let an answer be
  lost between two of one session.
- Four events on one loop are an opening, an edit, a close and one more, or two
  edits whose ids are drawn in one order and committed in the other.

Where `CHECK_DEADLOCK` is `FALSE` the instance really stops: ids, clock, moves or
events are used up and no client has anything left to ask.

**Symmetry** permutes calls (and rows, names, sessions or authors where nothing
distinguishes them), and is used only in runs without liveness.

## 4. Fairness

- `Claims!FairSpec`: `Step(t)` is strongly fair, because PostgreSQL's row lock
  queues are first come first served and a call whose lock keeps becoming free
  gets it; `DeadlockVictim` is weakly fair, because `deadlock_timeout` breaks a
  cycle; `StartSweep` is strongly fair, because the deployment ships a service
  that runs the sweep on a schedule (README.md:396). No `Start` of a client's
  call is fair, and `Abort` is not: nobody has to claim, and nothing has to fail.
- `SweepSettles`, in `claims_progress` only: from some time on no sweep fails.
  Without it a sweep could be aborted every time, and no scheduler promises
  otherwise.
- `EventLedger!LedgerFairness`: a transaction goes on to its end; the client asks
  again; reads and replies get through again and again (strong fairness against
  `LoseReply`). New writes are not fair.
- `SettingsCache!CacheFairness`: some call keeps asking for the settings, and
  again and again the database answers some read (strong fairness against
  `FailLoad` and `FailCheck`; of no single call is anything assumed); a write
  that committed returns; the interval lapses. Writes are not fair, and
  `MaxRevision` ends them.
- `HookSpool!SpoolFairness`: drains keep being run, since every Stop runs one;
  a batch that is sent again and again is answered at some time, unless the
  server refuses its session for good; a hook goes on; and from some time on none
  is killed, without which each drain could be. Tool calls are not fair.
- `ItemStates!FairSpec`: `items_sweep_wedged` leaves `Rollback` out and keeps
  `RefuseProject`, so that what the sweep is stopped by is the code and not a
  failure of the environment. With `Projects = {}` the same property holds.

## 5. What is proved

Every theorem is of the specification with its constants left open: any number
of calls, sessions, rows, items, names, authors, keys, hops and events. What is
assumed of the constants is in the `ASSUME` of each module: bounds are natural
numbers, thresholds positive, every session has a root session, the value that
stands for SQL's NULL is nothing else.

### Claims

`Invariance` gives `TypeCorrect`, `UniqueOrchestrator`, `UniqueRowPerSession` and
`EndedForGood`. The uniqueness rules are not inductive. A commit installs what a
transaction has pending, and nothing in the committed table says that two pending
rows, or a pending and a committed one, do not clash. So

    IInv == TypeOK /\ RequestsOK /\ VersionsOK /\ IndexesOK

`RequestsOK`: a call about to write a row names one that exists, and the row a
claim would insert is a well-formed one. `VersionsOK`: without a lock the newest
version is the committed one; with one, it is a later version of the same row,
with the same item, session and role, and live only if the committed one is.
`IndexesOK`: no two committed rows clash, no two newest versions clash, and when
a committed row clashes with another row's newest version, the same transaction
holds both locks. The last part is what makes eviction work: the evicting
transaction has ended the holder's row and inserted its own, both pending; they
clash with what is committed, and a commit or a rollback takes both or neither.

Lemmas say what each kind of step does to the row versions (`UpdateKeepsIndexes`,
`InsertKeepsIndexes`, `EndingKeepsIndexes`, `LockKeepsIndexes`,
`CommitKeepsIndexes`, `DiscardKeepsIndexes`, and the same for `VersionsOK`); one
lemma per action reduces the action to its kind; `NextInvariant` assembles them.
`EndedForGood` follows because only `Commit` changes `rows`, and by `VersionsOK`
what it installs is live only if the row was.

`OneSuccessor` adds `RowsDisplacedOK`: of the events that ended a row at most one
is a takeover, in the committed and in the pending version.

`Lawfulness` adds `CallsLawful`: what each call under way has locked and pending.
A claim has one new row and, of the rows it found, only holders of its item that
are silent by the clock ended; a takeover has a row that is dead, or was forced;
every other call has an end of its own kind. `EvictionsServe`, `EvictedWasSilent`
and `UnforcedOfTheDead` are what `Commit` makes of that.

`Implements` is the refinement. `HoldersWellFormed` says that the mapped set of
holds satisfies the rules of `Ownership`, by the uniqueness rules above, and
`CommitPromised` that what a commit does to it is a grant or a relinquishment, by
`CallsLawful`; every other action leaves `rows` and so stutters.

### The other modules

| Theorems | Inductive invariant | Why it takes more than the property |
|---|---|---|
| `LedgerIsTyped`, `OnlyOlderOvertake` | `ReaderInv` | The property speaks of what the cursor has passed. What is in the reader's hands is a page taken below a horizon: by `HorizonIsLow` no running transaction is below it, so what may still turn up behind the page is `Younger`; `DrawnIdsAreFresh`, `EventsHaveXids` and `XidsAreDrawn` keep that true while ids are drawn in any order. |
| `NamesAreTyped`, `OneNameEach`, `NamesAreReturned` | `NamesInv` | A name is pending before it is held. `LockedRows` says who may have one locked and why, `DrawsForTheUnnamed` that a session that draws by its own call has none, committed or pending, but what `get_crew_name` drew for it, which needs `OneCall`. |
| `ItemsAreTyped`, `LedgerTellsStates`, `DeathsAreCounted`, `RacesShow`, `LimitBlocks` | `ItemInv` | `HeldRows`: the pending row of a call is the committed one moved, that of a sweep the committed one with the claims it released counted (`CountsReleased`), blocked if at the limit. Counting is by cardinality, of swept claims against attempts. |
| `OneChain`, `LedgerTellsEntries`, `UnseenIsKept` | `DocInv` | `PatcherHasLock` makes the base revision the newest. For `ifRev`, `ReadIsComplete`: an author whose read is over has seen every entry no newer than his revision, although the entries were read after it. |
| `CacheTypes`, `OwnWritesAreShown` | `CacheInv` | `LoadsAreRecent`: what a load under way has read is no older than what the process promised, because it promises only while none is under way. |
| `LastWordHolds`, `RestoresAlternate` | `LedgerInv` | `RestoresReadAsTold`: what a restore on its way has read is what some delete said, and while the row is archived that is its last event, or a delete has overtaken the restore; `PlansAreMade` and `ReasonsAreGiven`: calls on their way and events have reasons. |
| `HiddenWorkAcknowledged` | `HidingInv` | `ChecksStand`: what a delete found beneath its row, or a restore above, when it looked still is so when it writes, was acknowledged, or the row has been overtaken. |
| `StatusAdvances` | none | Events are never taken back (`EventsStay`), and more of them only advance a status (`MoreEventsAdvance`). |
| `AddsAreNew` | `LoopInv` | `AddersAreAlone`: whoever adds an id that does not clash is the only one, and no event names the id; `OthersFollow`: whoever closes, edits or deletes found an opening, so no other event can name it first. |
| `KindsStick` | `LoopInv`, `IdsAreDrawn` | Ids are drawn once, so the last of the naming edits is unique; it exists because ids are bounded (`HighestId`, by well-founded induction). An edit that comes late with a low id changes nothing. |

`SignalLessSpared` is about `Claims` where no heartbeats are sent (`"heartbeat"
\notin Ops`), as in the run that checks it. The restriction is not for the
proof's sake: a heartbeat that waits for its session's row writes the
`CURRENT_TIMESTAMP` of its transaction (`heartbeat.ts:88`), which is older than
the row's stamp by then, and so sets `lastActiveAt` back; with heartbeats TLC
finds a counterexample. `RowsSigned`: a row stamped since it was claimed is of a
session that has called a tool. `CallsSigned`: so is what a call has pending,
and a sweep ends no row but one it found unspared; what it found, however long
ago it read the row, stays true as time goes on (`UnsparedStays`).

### The tree

`ForestInv` is `TreeInv /\ CompanyIsKept /\ ForestIsSeen /\ AloneReadsHold /\
DepthsAreExact`. `TreeInv`: types, what a call carries fits the rows there are,
and only a move that writes has rows locked; it alone gives `TreeIsTyped`, whose
point is that no stored depth is ever past the limit. `CompanyIsKept`: the
history tells who was alone. `ForestIsSeen`: unless two moves overlapped, the
committed rows, and the rows as each move sees them with its own pending writes,
form a forest, in which the new parent is not below what is moved.
`AloneReadsHold`: what a move has read (its descendants, the new parent's place
and depth, which depths are stale) is still so when it writes, if no other move
came between. `DepthsAreExact`: while no two calls overlap, every depth a call
sees is true but for those it has yet to write. `OnlyMovesCloseCycles`,
`OnlyOverlapDrifts` and `MovesRepairDepths` follow.

Walks are what proofs by induction over data are usually for. `Above` being the
least closed set makes them unnecessary: to show that an item is not above
another, exhibit a closed set without it; to move a subtree, show which sets
stay closed. Depths are cardinalities of such sets, so that a move adds the same
number to every depth below it (`DepthUnder`).

### The spool

`SpoolInv` proves the three safety properties together, since none is inductive.
`LinesAreSpooled` and `HooksKnow`: no line is of a call that was not made, what
the server acknowledged it has stored, and what is not to be written back is
stored or trimmed. `FilesAreSorted` and `DrainsSeeAll` are for `StoredInOrder`:
the records of a session stand in their order in every copy, and whoever drains
one has every earlier one that is not stored or trimmed. `OneCopy` and
`SentOnce` are for `TwiceNeedsAFault`. `Picked` gives the lines at some places
in their order, by counting the places below, so that nothing recursive is
needed.

The proof found the model and the property wrong. `StoredInOrder` used to except
lost records only; `DrainsSeeAll` could not be proved for a drain that starts
between `Empty` and `WriteBack`, and such a drain is what the code allows. The
bounds of the run had hidden it. The exception is now part of the property, and
the hazard's entry names it.

### The merge

`EvInv` has two halves. Under interference: `TodayIsKept` (the ghosts have
today's tip and round), `ReadWasToday`, `ApprovalsAreRows` and
`LineageIsDeclared` (all of the lineage in hand can be reached from one tip
there was, by links some row declares), and `RestsOnEvidence`. Rows are
inserted, never taken back, and not always at the end, so these speak of rows
and of declared links and not of the newest. Undisturbed: `TrueSearch`,
`TrueRows` and `TrueVerdict` say that each search has in hand what one look at
the rows would give, and that the clauses have said so far what is so. The heart
of it is that hop by hop the lineage is `Within(artifacts, hops)`, and that when
the walk stops, at its end, at a sha it has met or at the last hop, that is
`Within(artifacts, MaxHops)`: by `ReachLast` and `ReachStaysIn` walks are
prolonged by a link and confined by closed sets, without induction on their
length.

`RewritesKeepApprovals` needs of the invariant only the types: a commit recorded
last moves the tip, links it to the old one, and changes neither the round, nor
the approvals, nor any other sha's link (`CommitRecordedLast`); every walk of
the old lineage then is one from the new tip with one link before it
(`ReachFrom`), unless it meets the new sha, which it does not.

**Only model-checked.** Liveness (`CallsEnd`, `StrandedClaimReleased`,
`CursorCatchesUp`, `RevisionReached`, `SpoolDrains`), which is out of the
prover's reach. Every safety invariant and action property of the passing runs
is a theorem.

## 6. What the code does not do

Each is a violation TLC finds, of a sentence in the repository.

1. **A sweep writes over a takeover** (`claims_superseded_revived`). The sweep
   reads live rows without a lock and updates by id; a takeover that commits in
   between has its `superseded` replaced by `dead` or `stalled`.
   `SCHEMA.md:327` says that liveness freezes at `superseded`. The hold itself
   is not revived: `NeverHeldAgain` is proved.
2. **A follower can skip an event** (`ledger_skip`). The event id is drawn
   before the transaction id that bounds the read, so an event with the lower id
   can belong to the younger transaction and commit after the cursor has passed
   it. `lib/events.ts:214` says the read never skips a row. What it does give
   is `SkippedOnlyByOlder`.
3. **A session can lose the name it works under** (`names_lost`). A claim that
   commits between the count of the session's claims and the return of its name
   was told a name that then goes to the pool. `lib/agent-names.ts:302-305` says
   no claim can slip in.
4. **A settings snapshot can be stale and believe it is current**
   (`settings_stale`). The rows and the revision are read by two statements
   (`lib/service/live.ts:44`), and at READ COMMITTED one transaction around them
   does not make them agree. `lib/settings/cache.ts:28-32` says it does, and
   names the consequence.
5. **Two moves make a cycle** (`tree_cycle`). Each puts one item under the other;
   neither subtree read shows it (`lib/service/items/reparent-core.ts:284`), and
   the recursive queries over either item no longer end. `reparent-item.ts:97`
   says that an item cannot be moved under its own descendants. It takes two
   moves: `CycleNeedsTwoMoves`.
6. **One claimed project can stop every sweep** (`items_sweep_wedged`). At the
   limit the sweep tries to block the project, which has no state, and the
   exception undoes the pass, each time. `SCHEMA.md:1462` says that a dead
   holder's claim is released.

## 7. Hazards no property covers

- *An orchestrator and a builder of another crew at once*
  (`lib/claims.ts:262`): `Claims` reaches it, and no line of the code promises a
  crew exclusive use against a concurrent claim.
- *`resumeAttempts` is never reset* (`lib/liveness.ts:465`) although
  `SCHEMA.md:38` resets it: one writer, a missing assignment.
- *`transition_item` completes without a Summary row*
  (`transition-item.ts:214`): the row is not modelled, and the omission is plain
  in the code.

Others are reached by a model and excepted by the property about them, because
the code promises nothing there: a heartbeat unseen by a sweep under way, a stamp
on a row that has ended, a death charged twice by two overlapping sweeps
(`EveryDeathCounted` bounds attempts from below only), two names for a session
that makes two calls at once or for which `get_crew_name` drew one, the stand-in
told by a restore that a delete overtook, live work hidden by a delete and a
restore that each looked before the other wrote, two adds of one loop id, a
deferral that the follow-up clause does not find again. Their entries in `PROJECT.json` have a
note.

## 8. Plan, and what is not modelled

Modelled in full are claims, the hierarchy, documents, open loops and deletion.
What could follow, in this order:

1. The remaining clauses of the merge: visual review, authorisation, historical
   verification behind its environment window, and the plan guards. They search
   the same rows as the two that are modelled, and add no race to theirs.
   Abbreviated shas: the code compares by prefix, and a hop of the lineage
   exactly.
2. The `Summary` row and the guards that ask for it.
3. Minting: at most one item per source reference, which one unique index
   decides.
4. `CrewNames` with two calls of one session, and `assignName` / `retireName`,
   which no operation calls yet.
5. The optimistic move of a card on the board, and its undo.

**Not modelled, and why.** What a setting means enters as a constant: it is read
once before the transaction and only validated by the code. HTTP, MCP and command
line translate calls and keep no state. Pages and board are views. Costs, budgets
and scores are arithmetic over recorded usage. Import runs once and alone. Areas,
repositories, people, machines and interventions are reference data edited by
single guarded statements. The dispatch plan ranks items for a launcher that is
not in the repository. The kill guard parses commands.
