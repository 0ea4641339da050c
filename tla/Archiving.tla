----------------------------- MODULE Archiving ------------------------------
(***************************************************************************)
(* Taking items out of circulation and bringing them back (delete-item.ts, *)
(* restore-item.ts), while others file work under them.                    *)
(*                                                                         *)
(* Both calls read the row and what is around it without a lock and then   *)
(* update the row.  A statement is an action; the update, its event and    *)
(* the commit are one, since nobody sees a row before it is committed and  *)
(* whoever waits for it goes on as if he had come later.  An area and a    *)
(* repo stop a restore as a parent does; a holder, a review or the inbox   *)
(* setting stop a delete as a child does: they are among the refusals that *)
(* GiveUp stands for.                                                      *)
(***************************************************************************)
EXTENDS Integers, Sequences, FiniteSets

CONSTANTS
    Rows,        \* item ids
    Reasons,
    Callers,     \* transactions that archive and restore
    MaxNotices,  \* bounds the events
    NoRow

VARIABLES
    made,        \* the items that exist
    under,       \* Item.parentId
    reason,      \* archivedReason; a row is archived while it has one
    better,      \* supersededById
    caller,      \* where each transaction is
    plan,        \* what it was asked for and has read
    notices,     \* each row's events on archivedAt, in order
    overtaken    \* the rows of which something changed that a call had read

archiveVars == <<made, under, reason, better, caller, plan, notices, overtaken>>

ASSUME ArchiveAssumption ==
    /\ IsFiniteSet(Rows) /\ MaxNotices \in Nat
    /\ NoRow \notin Rows \cup Reasons \cup Callers

-----------------------------------------------------------------------------
Archived(i) == reason[i] # NoRow
Live(i) == i \in made /\ ~Archived(i)
Beneath(i) == {j \in made : under[j] = i}

Idle(c) == caller[c] = "idle"
Plan == [item : Rows \cup {NoRow}, ack : BOOLEAN, reason : Reasons \cup {NoRow},
         better : Rows \cup {NoRow}]
NoPlan == [item |-> NoRow, ack |-> FALSE, reason |-> NoRow, better |-> NoRow]

Notice == [archived : BOOLEAN, reason : Reasons \cup {NoRow},
           better : Rows \cup {NoRow}, ack : BOOLEAN]

World == UNCHANGED <<made, under, reason, better, notices, overtaken>>

Enter(c, next, p) ==
    /\ Idle(c)
    /\ caller' = [caller EXCEPT ![c] = next]
    /\ plan' = [plan EXCEPT ![c] = p]

Leave(c) ==
    /\ caller' = [caller EXCEPT ![c] = "idle"]
    /\ plan' = [plan EXCEPT ![c] = NoPlan]

\* The row changes and its event goes in; a restore's gives the reason it took
\* off.
Record(i, notice) ==
    /\ Cardinality(UNION {{j} \X (1..Len(notices[j])) : j \in Rows}) < MaxNotices
    /\ notices' = [notices EXCEPT ![i] = Append(@, notice)]
    /\ reason' = [reason EXCEPT ![i] = IF notice.archived THEN notice.reason
                                       ELSE NoRow]

\* A delete of i that has looked beneath it and has still to write.
Deleting(i) == \E d \in Callers : caller[d] = "archive" /\ plan[d].item = i

\* A restore that has read i, as its row or as what its row hangs under.
Restoring(i) ==
    \E d \in Callers :
        \/ caller[d] \in {"context", "restore"} /\ plan[d].item = i
        \/ caller[d] = "restore" /\ under[plan[d].item] = i

Overtake(rows) == overtaken' = overtaken \cup rows

-----------------------------------------------------------------------------
(* delete_item.                                                            *)

\* The row is read: one that is archived already is done.
StartDelete(c, p) ==
    /\ p.item \in made /\ p.reason # NoRow
    /\ p.better \in (made \ {p.item}) \cup {NoRow}
    /\ ~Archived(p.item)
    /\ Enter(c, "references", p)
    /\ World

\* inboundReferences: live children, and rows it was to stand in for.
References(i) == {j \in Beneath(i) : Live(j)} \cup {j \in Rows : better[j] = i}

\* Bug: whatever points here, the item goes.
IgnoreReferences(c) ==
    /\ caller[c] = "references"
    /\ caller' = [caller EXCEPT ![c] = "archive"]
    /\ UNCHANGED plan /\ World

\* They have to be acknowledged.
CheckReferences(c) ==
    /\ caller[c] = "references"
    /\ References(plan[c].item) = {} \/ plan[c].ack
    /\ caller' = [caller EXCEPT ![c] = "archive"]
    /\ UNCHANGED plan /\ World

\* The row is updated by its id alone.
Archive(c) ==
    LET i == plan[c].item
    IN  /\ caller[c] = "archive"
        /\ Record(i, [archived |-> TRUE, reason |-> plan[c].reason,
                      better |-> plan[c].better, ack |-> plan[c].ack])
        /\ better' = [better EXCEPT ![i] = plan[c].better]
        /\ Overtake({k \in {i} : Restoring(k)})
        /\ Leave(c)
        /\ UNCHANGED <<made, under>>

-----------------------------------------------------------------------------
(* restore_item.                                                           *)

\* A row that is live already is done; one that another stands in for is not
\* brought back unless the caller says he knows.  That he did is left out of
\* the event: nothing asks for it afterwards.  What the row said is kept.
StartRestore(c, i, ack) ==
    /\ i \in made /\ Archived(i)
    /\ better[i] # NoRow => ack
    /\ Enter(c, "context", [NoPlan EXCEPT !.item = i, !.reason = reason[i],
                                          !.better = better[i]])
    /\ World

\* Bug: what the row hangs under is not looked at.
SkipContext(c) ==
    /\ caller[c] = "context"
    /\ caller' = [caller EXCEPT ![c] = "restore"]
    /\ UNCHANGED plan /\ World

\* blockingContext: an archived parent keeps it archived.
CheckContext(c) ==
    LET i == plan[c].item
    IN  /\ caller[c] = "context"
        /\ under[i] # NoRow => ~Archived(under[i])
        /\ caller' = [caller EXCEPT ![c] = "restore"]
        /\ UNCHANGED plan /\ World

\* The event tells what the row said when it was read at the start.
Undone(c) == [archived |-> FALSE, reason |-> plan[c].reason,
              better |-> plan[c].better, ack |-> FALSE]

BringBack(c) ==
    LET i == plan[c].item
    IN  /\ Record(i, Undone(c))
        /\ Overtake({k \in Rows : k = under[i] /\ Deleting(k)})
        /\ Leave(c)
        /\ UNCHANGED <<made, under>>

\* Bug: the update's WHERE names the id alone.
RestoreAnyway(c) == caller[c] = "restore" /\ BringBack(c) /\ UNCHANGED better

\* Bug: the update clears the pointer to the row that stands in.
RestoreClearing(c) ==
    /\ caller[c] = "restore" /\ Archived(plan[c].item)
    /\ BringBack(c)
    /\ better' = [better EXCEPT ![plan[c].item] = NoRow]

\* The row is updated if it is archived still; what stands in for it now is
\* kept.
Restore(c) ==
    /\ caller[c] = "restore" /\ Archived(plan[c].item)
    /\ BringBack(c)
    /\ UNCHANGED better

\* Refused, overtaken by another restore, or failed.
GiveUp(c) ==
    /\ ~Idle(c)
    /\ Leave(c)
    /\ World

-----------------------------------------------------------------------------
(* What others do to the rows meanwhile.  Neither creating an item nor     *)
(* moving it asks whether the new parent is archived.                      *)

File(i, onto) ==
    /\ onto \in (made \ {i}) \cup {NoRow}
    /\ onto # NoRow => under[onto] = NoRow /\ Beneath(i) = {}
    /\ made' = made \cup {i}
    /\ under' = [under EXCEPT ![i] = onto]
    /\ Overtake({k \in Rows : k = onto /\ (Archived(k) \/ Deleting(k))})
    /\ UNCHANGED <<reason, better, caller, plan, notices>>

-----------------------------------------------------------------------------
ArchiveInit ==
    /\ made = {}
    /\ under = [i \in Rows |-> NoRow]
    /\ reason = [i \in Rows |-> NoRow] /\ better = [i \in Rows |-> NoRow]
    /\ caller = [c \in Callers |-> "idle"]
    /\ plan = [c \in Callers |-> NoPlan]
    /\ notices = [i \in Rows |-> << >>]
    /\ overtaken = {}

ArchiveNext ==
    \/ \E c \in Callers :
          \/ \E p \in Plan : StartDelete(c, p)
          \/ CheckReferences(c) \/ Archive(c)
          \/ \E i \in Rows, ack \in BOOLEAN : StartRestore(c, i, ack)
          \/ CheckContext(c) \/ Restore(c) \/ GiveUp(c)
    \/ \E i \in Rows, onto \in Rows \cup {NoRow} : File(i, onto)

ArchiveSpec == ArchiveInit /\ [][ArchiveNext]_archiveVars

-----------------------------------------------------------------------------
(* Correctness.                                                            *)

ArchiveTypeOK ==
    /\ made \subseteq Rows
    /\ under \in [Rows -> Rows \cup {NoRow}]
    /\ reason \in [Rows -> Reasons \cup {NoRow}]
    /\ better \in [Rows -> Rows \cup {NoRow}]
    /\ caller \in [Callers -> {"idle", "references", "archive", "context", "restore"}]
    /\ plan \in [Callers -> Plan]
    /\ notices \in [Rows -> Seq(Notice)]
    /\ overtaken \subseteq Rows

\* The ledger tells of every item brought back once: two restores at a time
\* are one event, and what it undoes is told before it (restore-item.ts).
RestoredOnce ==
    \A i \in Rows : \A n \in 1..Len(notices[i]) :
        ~notices[i][n].archived => n > 1 /\ notices[i][n - 1].archived

\* Whatever deletes and restores raced, the row is as its last delete's event
\* says it was left, and live if a restore's event came after that.
RowFollowsItsEvents(i) ==
    LET told == notices[i]
        last == Len(told)
    IN  IF told = << >> THEN ~Archived(i) /\ better[i] = NoRow
        ELSE IF told[last].archived
        THEN reason[i] = told[last].reason /\ better[i] = told[last].better
        ELSE ~Archived(i) /\ better[i] = told[last - 1].better

\* The event of a restore repeats the reason and the stand-in of the delete it
\* undoes, or of an earlier one if that delete overtook the restore.
RestoresTell(i) ==
    LET told == notices[i]
    IN  \A n \in 1..Len(told) : ~told[n].archived =>
            \E m \in 1..(n - 1) :
                /\ told[m].archived
                /\ told[m].reason = told[n].reason /\ told[m].better = told[n].better
                /\ m = n - 1 \/ i \in overtaken

\* Row and ledger agree, and the ledger with itself, as far as the code goes:
\* a restore writes the row as it finds it and its event from what it read at
\* its start (delete-item.ts, restore-item.ts).
RowIsAsLastTold ==
    \A i \in Rows : RowFollowsItsEvents(i) /\ RestoresTell(i)

\* Live work sits under an archived item only if whoever archived that item
\* said so, if it was filed there afterwards, or if of a delete and another
\* call there one wrote what the other had just looked for: the checks of
\* delete and restore cover each other (delete-item.ts).
HiddenWorkIsKnown ==
    \A i \in made : Archived(i) /\ (\E j \in Beneath(i) : Live(j)) =>
        i \in overtaken \/ notices[i][Len(notices[i])].ack
=============================================================================
