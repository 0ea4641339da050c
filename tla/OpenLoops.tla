----------------------------- MODULE OpenLoops ------------------------------
(***************************************************************************)
(* The loose ends of an item, folded from its events (open-loops.ts) by    *)
(* the operations that add, close, edit and delete them.                   *)
(*                                                                         *)
(* A call folds the events it sees, checks what it folded, and appends one *)
(* event.  It locks nothing, so others commit in between; and the event's  *)
(* id, which orders the fold, is drawn before the commit.  Refusals of a   *)
(* reason's wording are left out: they come from the call's input alone.   *)
(***************************************************************************)
EXTENDS Integers, FiniteSets

CONSTANTS
    Loops,       \* loop ids, of one item
    Kinds,       \* what an edit may reclassify to
    Editors,     \* transactions on the item's loops
    MaxEvents,   \* bounds the events
    NoLoop

VARIABLES
    recorded,    \* the committed loop events
    lastId,      \* the sequence of event ids
    editor,      \* where each transaction is, and the event it appends
    clash        \* ids that two calls were adding at once

loopVars == <<recorded, lastId, editor, clash>>

ASSUME LoopAssumption ==
    /\ MaxEvents \in Nat
    /\ NoLoop \notin Loops \cup Kinds

-----------------------------------------------------------------------------
Types == {"open_loop", "open_loop_closed", "open_loop_edited", "open_loop_deleted"}
LoopEvent == [id : 0..MaxEvents, type : Types, loop : Loops, kind : Kinds \cup {NoLoop}]

Resting == [at |-> "idle", event |-> NoLoop]

-----------------------------------------------------------------------------
(* deriveLoops.                                                            *)

Of(loop, type) == {e \in recorded : e.loop = loop /\ e.type = type}

\* Bug: what was recorded last decides.
StatusByLast(loop) ==
    LET ends == {e \in recorded : e.loop = loop /\ e.type # "open_loop_edited"}
        last == CHOOSE e \in ends : \A d \in ends : d.id <= e.id
    IN  IF Of(loop, "open_loop") = {} THEN "none"
        ELSE CASE last.type = "open_loop" -> "open"
               [] last.type = "open_loop_closed" -> "closed"
               [] OTHER -> "deleted"

\* The status asks what there is for the loop, in no order.
Status(loop) ==
    IF Of(loop, "open_loop") = {} THEN "none"
    ELSE IF Of(loop, "open_loop_deleted") # {} THEN "deleted"
    ELSE IF Of(loop, "open_loop_closed") # {} THEN "closed"
    ELSE "open"

\* The opening that is served is the one with the lowest id.
Opening(loop) ==
    CHOOSE e \in Of(loop, "open_loop") : \A d \in Of(loop, "open_loop") : e.id <= d.id

\* Bug: an edit without a kind resets it.
KindOfLast(loop) ==
    LET edits == Of(loop, "open_loop_edited")
        last == CHOOSE e \in edits : \A d \in edits : d.id <= e.id
    IN  IF edits # {} THEN last.kind ELSE Opening(loop).kind

\* The kind is the last one an edit named.
KindOf(loop) ==
    LET edits == {e \in Of(loop, "open_loop_edited") : e.kind # NoLoop}
        last == CHOOSE e \in edits : \A d \in edits : d.id <= e.id
    IN  IF edits # {} THEN last.kind ELSE Opening(loop).kind

-----------------------------------------------------------------------------
(* The calls.                                                              *)

\* Bug: an id counts as used while its loop is open.
UsedIfOpen(loop) == Status(loop) = "open"

\* usesLoopId: an event of any type names it.
Used(loop) == \E e \in recorded : e.loop = loop

\* What each call asks of the loop it folded.
Allowed(type, loop) ==
    CASE type = "open_loop" -> ~Used(loop)
      [] type = "open_loop_closed" -> Status(loop) = "open"
      [] OTHER -> Status(loop) \notin {"none", "deleted"}

\* An opening has a kind, an edit may name one.
KindsFor(type) ==
    CASE type = "open_loop" -> Kinds
      [] type = "open_loop_edited" -> Kinds \cup {NoLoop}
      [] OTHER -> {NoLoop}

Adding(loop) ==
    {p \in Editors : /\ editor[p].at # "idle"
                     /\ editor[p].event.loop = loop
                     /\ editor[p].event.type = "open_loop"}

\* The call folds, and its checks pass.
Fold(p, type, loop, kind) ==
    /\ editor[p].at = "idle"
    /\ kind \in KindsFor(type)
    /\ Allowed(type, loop)
    /\ editor' = [editor EXCEPT ![p] =
          [at |-> "append", event |-> [id |-> 0, type |-> type, loop |-> loop,
                                       kind |-> kind]]]
    /\ clash' = IF type = "open_loop" /\ Adding(loop) # {} THEN clash \cup {loop}
                ELSE clash
    /\ UNCHANGED <<recorded, lastId>>

\* appendEvent: the id is drawn.
AppendLoopEvent(p) ==
    /\ editor[p].at = "append"
    /\ lastId < MaxEvents
    /\ lastId' = lastId + 1
    /\ editor' = [editor EXCEPT ![p] =
          [at |-> "commit", event |-> [@.event EXCEPT !.id = lastId + 1]]]
    /\ UNCHANGED <<recorded, clash>>

CommitLoopEvent(p) ==
    /\ editor[p].at = "commit"
    /\ recorded' = recorded \cup {editor[p].event}
    /\ editor' = [editor EXCEPT ![p] = Resting]
    /\ UNCHANGED <<lastId, clash>>

\* The call fails; an id it drew is used up.
AbandonLoop(p) ==
    /\ editor[p].at # "idle"
    /\ editor' = [editor EXCEPT ![p] = Resting]
    /\ UNCHANGED <<recorded, lastId, clash>>

-----------------------------------------------------------------------------
LoopInit ==
    /\ recorded = {} /\ lastId = 0 /\ clash = {}
    /\ editor = [p \in Editors |-> Resting]

LoopNext ==
    \E p \in Editors :
        \/ \E type \in Types, loop \in Loops, kind \in Kinds \cup {NoLoop} :
              Fold(p, type, loop, kind)
        \/ AppendLoopEvent(p) \/ CommitLoopEvent(p) \/ AbandonLoop(p)

LoopSpec == LoopInit /\ [][LoopNext]_loopVars

-----------------------------------------------------------------------------
(* Correctness.                                                            *)

LoopTypeOK ==
    /\ recorded \subseteq LoopEvent
    /\ lastId \in 0..MaxEvents /\ clash \subseteq Loops
    /\ \A p \in Editors :
          \/ editor[p] = Resting
          \/ editor[p].at \in {"append", "commit"} /\ editor[p].event \in LoopEvent

Stage(status) ==
    CASE status = "none" -> 0 [] status = "open" -> 1
      [] status = "closed" -> 2 [] OTHER -> 3

\* A loop that was closed is never open again and one that was deleted never
\* comes back, in whatever order the events' ids were drawn and committed
\* (open-loops.ts: the fold does not depend on the order).
NeverReopened ==
    [][\A loop \in Loops : Stage(Status(loop)) <= Stage(Status(loop)')]_loopVars

\* A loop whose add succeeded is open, and the only one of its id, unless
\* two calls were adding that id at the same time: no id that is retired is
\* given out again (open-loops.ts, loop_add).
AddedLoopIsOpen ==
    [][\A p \in Editors, loop \in Loops \ clash :
          /\ CommitLoopEvent(p)
          /\ editor[p].event.loop = loop /\ editor[p].event.type = "open_loop"
          => Status(loop) = "none" /\ Status(loop)' = "open"]_loopVars

\* An edit of the wording leaves a loop's kind alone: only an edit that names
\* a kind changes it, whatever its id (open-loops.ts, loop_edit's contract).
KindSticks ==
    [][\A loop \in Loops \ clash :
          Status(loop) # "none" /\ KindOf(loop)' # KindOf(loop) =>
              \E p \in Editors : /\ CommitLoopEvent(p)
                                 /\ editor[p].event.loop = loop
                                 /\ editor[p].event.type = "open_loop_edited"
                                 /\ editor[p].event.kind = KindOf(loop)'
                                 /\ editor[p].event.kind # NoLoop]_loopVars
=============================================================================
