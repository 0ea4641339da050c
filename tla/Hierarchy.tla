----------------------------- MODULE Hierarchy ------------------------------
(***************************************************************************)
(* The item tree: creating items under a parent, moving a subtree, and the *)
(* stored depth of every row (items/reparent-core.ts, items/create-core.ts *)
(* and the operations that call them).                                     *)
(*                                                                         *)
(* A call reads the subtree and the depth of the new parent, judges what   *)
(* it read, and then writes row by row; no read takes a lock.  One         *)
(* statement is one action, at READ COMMITTED; a read that only its        *)
(* neighbour uses is joined with it.  A row's kind is derived from its     *)
(* depth wherever depth is written, so the model keeps depth alone.        *)
(***************************************************************************)
EXTENDS Integers, FiniteSets

CONSTANTS
    Things,      \* item ids
    Inbox,       \* the ids that are the inbox project while they are roots
    Movers,      \* transactions that create or move items
    MaxDepth,    \* items.max_depth
    MaxCalls,    \* bounds the calls of a behaviour
    Planted,     \* how many ids exist at first
    Order,       \* numbers the ids; the planted ones come first
    Nothing

VARIABLES
    tree,        \* the committed rows
    treeLock,    \* the transaction that wrote the row last and has not ended
    treePend,    \* the row as that transaction leaves it, or Nothing
    step, move,  \* where each transaction is, and what it has read
    company,     \* the kinds of calls that overlapped a call under way
    overlap,     \* the kinds of pairs of calls that ever overlapped
    begun        \* the calls begun

treeVars == <<tree, treeLock, treePend, step, move, company, overlap, begun>>

ASSUME TreeAssumption ==
    /\ IsFiniteSet(Things) /\ Inbox \subseteq Things
    /\ MaxDepth \in Nat /\ MaxCalls \in Nat /\ Planted \in Nat
    /\ Order \in [Things -> Nat]
    /\ Nothing \notin Things \cup Movers
    /\ Nothing \notin [parent : Things \cup {Nothing}, depth : 0..MaxDepth]

-----------------------------------------------------------------------------
(* Walks along parentId, over any version of the rows.                     *)

Known(rows) == {i \in Things : rows[i] # Nothing}

Closed(rows, S) == \A j \in S : rows[j].parent \in S \cup {Nothing}

\* What a recursive query from i along the parents finds, i included: the
\* least set that has i and the parent of each of its items.
Above(rows, i) ==
    {j \in Known(rows) :
        \A S \in SUBSET Known(rows) : i \in S /\ Closed(rows, S) => j \in S}

\* It ends.
HasRoot(rows, i) == \E r \in Above(rows, i) : rows[r].parent = Nothing
OnCycle(rows, i) == rows[i].parent # Nothing /\ i \in Above(rows, rows[i].parent)

\* depthOf, ancestorDepthOf: the ancestors counted.
DepthOf(rows, i) == Cardinality(Above(rows, i) \ {i})

\* subtreeOf: the item and all below it, each with its distance: how many it
\* has above it before the item is reached.
Subtree(rows, i) == {j \in Known(rows) : i \in Above(rows, j)}
Distance(rows, i, j) == Cardinality(Above(rows, j) \ Above(rows, i))

Children(rows, i) == {j \in Known(rows) : rows[j].parent = i}

\* Bug: the item itself is not looked for.
NotProperlyBelow(rows, i, onto) == onto \notin Subtree(rows, i) \ {i}

\* assertNoCycle.
NotBelow(rows, i, onto) == onto \notin Subtree(rows, i)

\* assertNotInboxProject.
TakesWork(rows, i) == ~(i \in Inbox /\ rows[i].parent = Nothing)

\* What a statement of c sees.
SeenBy(c) == [i \in Things |-> IF treeLock[i] = c THEN treePend[i] ELSE tree[i]]

-----------------------------------------------------------------------------
MoveKinds == {"move", "retype", "repair"}
NoMove == [kind |-> Nothing, item |-> Nothing, onto |-> Nothing,
           depth |-> 0, todo |-> {}, below |-> {}]

Family(kind) == IF kind \in MoveKinds THEN "move" ELSE "create"
Active == {c \in Movers : step[c] # "idle"}

MayBegin(c) == step[c] = "idle" /\ begun < MaxCalls

\* A call begins, and the history notes which calls it overlaps.
BeginMove(c, next, m) ==
    /\ begun' = begun + 1
    /\ step' = [step EXCEPT ![c] = next]
    /\ move' = [move EXCEPT ![c] = m]
    /\ company' = [u \in Movers |->
          IF u = c THEN {Family(move[v].kind) : v \in Active}
          ELSE IF u \in Active THEN company[u] \cup {Family(m.kind)}
          ELSE company[u]]
    /\ overlap' = overlap \cup
          {{Family(m.kind), Family(move[v].kind)} : v \in Active}
    /\ UNCHANGED <<tree, treeLock, treePend>>

Proceed(c, next, m) ==
    /\ step' = [step EXCEPT ![c] = next]
    /\ move' = [move EXCEPT ![c] = m]
    /\ UNCHANGED <<company, overlap, begun>>

\* What subtreeOf returns of the rows.
ReadBelow(rows, i) ==
    {[item |-> j, depth |-> rows[j].depth, far |-> Distance(rows, i, j)] :
        j \in Subtree(rows, i)}

\* Bug: an item that keeps its own depth has nothing rewritten below it.
StaleIfMoved(read, depth) ==
    IF \E b \in read : b.far = 0 /\ b.depth = depth THEN {}
    ELSE {b \in read : b.far > 0 /\ b.depth # depth + b.far}

\* applyMove: the descendants to rewrite, by what was read of them.
Stale(read, depth) == {b \in read : b.far > 0 /\ b.depth # depth + b.far}

\* Bug: the bound is put on the moved item alone.
FitsItself(read, depth) == depth <= MaxDepth

\* assertDepthFits: the deepest item of the subtree stays within the limit.
Fits(read, depth) == \A b \in read : depth + b.far <= MaxDepth

-----------------------------------------------------------------------------
(* Moves.                                                                  *)

\* reparent_item, retype_to_task: load the item and read its subtree.  The
\* latter takes only a project without children.
StartMove(c, kind, i, onto) ==
    /\ MayBegin(c)
    /\ i \in Known(tree) /\ ~OnCycle(tree, i)
    /\ kind = "retype" =>
          onto # Nothing /\ tree[i].depth = 0 /\ Children(tree, i) = {}
    /\ LET m == [NoMove EXCEPT !.kind = kind, !.item = i, !.onto = onto,
                               !.below = ReadBelow(tree, i)]
       IN  IF onto = Nothing
           THEN /\ Fits(m.below, 0)
                /\ BeginMove(c, "update", [m EXCEPT !.below = Stale(m.below, 0)])
           ELSE /\ onto \in Known(tree) /\ TakesWork(tree, onto)
                /\ NotBelow(tree, i, onto)
                /\ BeginMove(c, "depth", m)

\* resolveParent, and the depth check on the subtree read before.
ReadDepth(c) ==
    LET m == move[c]
        depth == DepthOf(tree, m.onto) + 1
    IN  /\ step[c] = "depth" /\ m.kind # "repair"
        /\ HasRoot(tree, m.onto)
        /\ Fits(m.below, depth)
        /\ Proceed(c, "update", [m EXCEPT !.depth = depth,
                                          !.below = Stale(m.below, depth)])
        /\ UNCHANGED <<tree, treeLock, treePend>>

\* UPDATE of the item: parent and depth, by id.
UpdateMoved(c) ==
    LET m == move[c]
    IN  /\ step[c] = "update"
        /\ treeLock[m.item] \in {Nothing, c}
        /\ treeLock' = [treeLock EXCEPT ![m.item] = c]
        /\ treePend' = [treePend EXCEPT
              ![m.item] = [parent |-> m.onto, depth |-> m.depth]]
        /\ Proceed(c, "below", m)
        /\ UNCHANGED tree

\* UPDATE of one descendant: depth alone, on the newest version of the row.
UpdateBelow(c, b) ==
    LET m == move[c]
    IN  /\ step[c] = "below" /\ b \in m.below
        /\ treeLock[b.item] \in {Nothing, c}
        /\ treeLock' = [treeLock EXCEPT ![b.item] = c]
        /\ treePend' = [treePend EXCEPT
              ![b.item] = [SeenBy(c)[b.item] EXCEPT !.depth = m.depth + b.far]]
        /\ Proceed(c, "below", [m EXCEPT !.below = @ \ {b}])
        /\ UNCHANGED tree

\* repair_stuck_projects: the roots without children, narrowed by area, state
\* and archiving; then the depth of the one parent they are to get,
StartRepair(c, onto, found) ==
    /\ MayBegin(c)
    /\ onto \in Known(tree) /\ TakesWork(tree, onto)
    /\ found # {}
    /\ \A i \in found : /\ i \in Known(tree) \ {onto}
                        /\ tree[i].parent = Nothing /\ Children(tree, i) = {}
    /\ BeginMove(c, "depth", [NoMove EXCEPT !.kind = "repair", !.onto = onto,
                                            !.todo = found])

ReadRepairDepth(c) ==
    /\ step[c] = "depth" /\ move[c].kind = "repair"
    /\ HasRoot(tree, move[c].onto)
    /\ Proceed(c, "next",
          [move[c] EXCEPT !.depth = DepthOf(tree, move[c].onto) + 1])
    /\ UNCHANGED <<tree, treeLock, treePend>>

\* and each of them in turn, in the same transaction.
NextStuck(c, i) ==
    LET m == move[c]
        rows == SeenBy(c)
    IN  /\ \/ step[c] = "next"
           \/ step[c] = "below" /\ m.below = {}
        /\ i \in m.todo
        /\ ~OnCycle(rows, i) /\ NotBelow(rows, i, m.onto)
        /\ Fits(ReadBelow(rows, i), m.depth)
        /\ Proceed(c, "update", [m EXCEPT !.item = i, !.todo = @ \ {i},
                                   !.below = Stale(ReadBelow(rows, i), m.depth)])
        /\ UNCHANGED <<tree, treeLock, treePend>>

-----------------------------------------------------------------------------
(* Creation: create_project, create_task under a project, create_subtask   *)
(* under anything else, and create_item, which takes any parent.           *)

StartCreate(c, kind, onto) ==
    /\ MayBegin(c)
    /\ kind = "project" <=> onto = Nothing
    /\ onto # Nothing =>
          /\ onto \in Known(tree) /\ HasRoot(tree, onto)
          /\ kind = "task" => TakesWork(tree, onto) /\ DepthOf(tree, onto) = 0
          /\ kind = "subtask" => DepthOf(tree, onto) # 0
    /\ LET depth == IF onto = Nothing THEN 0 ELSE DepthOf(tree, onto) + 1
       IN  /\ depth <= MaxDepth
           /\ BeginMove(c, "insert", [NoMove EXCEPT !.kind = "create",
                                          !.onto = onto, !.depth = depth])

-----------------------------------------------------------------------------
EndCall(c) ==
    /\ Proceed(c, "idle", NoMove)
    /\ treeLock' = [i \in Things |-> IF treeLock[i] = c THEN Nothing ELSE treeLock[i]]
    /\ treePend' = [i \in Things |-> IF treeLock[i] = c THEN Nothing ELSE treePend[i]]

CommitMoved(c) ==
    /\ step[c] = "below" /\ move[c].below = {} /\ move[c].todo = {}
    /\ tree' = SeenBy(c)
    /\ EndCall(c)

\* The new row is nobody's before it is committed: insert and commit are one.
InsertThing(c, i) ==
    /\ step[c] = "insert" /\ i \notin Known(tree)
    /\ tree' = [tree EXCEPT ![i] = [parent |-> move[c].onto,
                                    depth |-> move[c].depth]]
    /\ EndCall(c)

\* A refusal, a failure, a time-out, or a deadlock the database breaks.
AbandonMove(c) ==
    /\ step[c] # "idle"
    /\ EndCall(c)
    /\ UNCHANGED tree

\* A forest that creations one after the other build, and the same with one
\* depth that an overlap of earlier calls left wrong.
PlantedForest ==
    LET first == {i \in Things : Order[i] <= Planted}
    IN  \E up \in [first -> first \cup {Nothing}] :
          LET bare == [i \in Things |->
                 IF i \in first THEN [parent |-> up[i], depth |-> 0]
                 ELSE Nothing]
              rows == [i \in Things |->
                 IF i \in first
                 THEN [parent |-> up[i], depth |-> DepthOf(bare, i)]
                 ELSE Nothing]
          IN  /\ \A i \in first : up[i] # Nothing => Order[up[i]] < Order[i]
              /\ \A i \in first : rows[i].depth <= MaxDepth
              /\ \/ tree = rows /\ overlap = {}
                 \/ /\ \E i \in first, wrong \in 1..MaxDepth :
                          /\ up[i] # Nothing /\ wrong # rows[i].depth
                          /\ tree = [rows EXCEPT ![i].depth = wrong]
                    /\ overlap = {{"move", "create"}}

NoCalls ==
    /\ treeLock = [i \in Things |-> Nothing]
    /\ treePend = [i \in Things |-> Nothing]
    /\ step = [c \in Movers |-> "idle"]
    /\ move = [c \in Movers |-> NoMove]
    /\ company = [c \in Movers |-> {}]
    /\ begun = 0

TreeInit == PlantedForest /\ NoCalls

TreeNext ==
    \E c \in Movers :
        \/ \E i \in Things, onto \in Things \cup {Nothing},
              kind \in {"move", "retype"} : StartMove(c, kind, i, onto)
        \/ \E onto \in Things, found \in SUBSET Things : StartRepair(c, onto, found)
        \/ \E onto \in Things \cup {Nothing},
              kind \in {"project", "task", "subtask", "item"} : StartCreate(c, kind, onto)
        \/ \E i \in Things : NextStuck(c, i) \/ InsertThing(c, i)
        \/ \E b \in move[c].below : UpdateBelow(c, b)
        \/ ReadDepth(c) \/ ReadRepairDepth(c) \/ UpdateMoved(c)
        \/ CommitMoved(c) \/ AbandonMove(c)

TreeSpec == TreeInit /\ [][TreeNext]_treeVars

-----------------------------------------------------------------------------
(* Correctness.                                                            *)

\* Every row has its type, and no stored depth is past items.max_depth,
\* whatever overlapped (assertDepthFits, insertItem).
TreeTypeOK ==
    LET Row == [parent : Things \cup {Nothing}, depth : 0..MaxDepth]
    IN  /\ tree \in [Things -> Row \cup {Nothing}]
        /\ treePend \in [Things -> Row \cup {Nothing}]
        /\ treeLock \in [Things -> Movers \cup {Nothing}]
        /\ \A i \in Known(tree) : tree[i].parent # Nothing =>
              tree[i].parent \in Known(tree)

Acyclic == \A i \in Known(tree) : HasRoot(tree, i)

\* hierarchy.no_cycle: an item is never under itself or its descendants.
NoCycle == Acyclic

\* Calls that do not overlap keep a forest of the allowed depth, with every
\* stored depth the true one: the whole subtree is recomputed (applyMove).
DriftNeedsOverlap ==
    overlap = {} =>
        /\ Acyclic
        /\ \A i \in Known(tree) : tree[i].depth = DepthOf(tree, i)

\* A creation may overlap a move and a move a creation: only two moves can
\* close a cycle.
CycleNeedsTwoMoves == {"move"} \notin overlap => Acyclic

\* A move that overlapped nothing leaves its whole subtree with the true
\* depths, also when an earlier overlap had left wrong ones (reparent-core.ts,
\* SubtreeRow.depth).
MoveRepairsDepth ==
    [][\A c \in Movers :
          step[c] = "below" /\ step'[c] = "idle" /\ company[c] = {} /\ tree' # tree =>
             \A j \in Subtree(tree', move[c].item) :
                tree'[j].depth = DepthOf(tree', j)]_treeVars
=============================================================================
