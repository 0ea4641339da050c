--------------------------- MODULE ArchivingProofs ---------------------------
(***************************************************************************)
(* What the ledger tells of archived items, and what archiving hides, for  *)
(* any number of items, callers and events.                                *)
(***************************************************************************)
EXTENDS Archiving, TLAPS

\* A call on its way is about an item that exists, and has a reason: the one it
\* was given, or the one it read.
PlansAreMade ==
    \A c \in Callers : ~Idle(c) => plan[c].item \in made /\ plan[c].reason # NoRow

\* Every event gives a reason.
ReasonsAreGiven ==
    \A i \in Rows : \A n \in 1..Len(notices[i]) : notices[i][n].reason # NoRow

\* Only an item that exists is archived.
ArchivedAreMade == \A i \in Rows : Archived(i) => i \in made

\* An event, of a delete, that says of its row what a restore has read.
TellsOf(e, p) == e.archived /\ e.reason = p.reason /\ e.better = p.better

\* What a restore has read is what some delete said; while the row is archived
\* that is its last event, or a delete has overtaken the restore.
ReadAsTold(c) ==
    LET i == plan[c].item
    IN  \E m \in 1..Len(notices[i]) :
            /\ TellsOf(notices[i][m], plan[c])
            /\ m = Len(notices[i]) \/ i \in overtaken \/ ~Archived(i)

RestoresReadAsTold ==
    \A c \in Callers : caller[c] \in {"context", "restore"} => ReadAsTold(c)

LedgerInv ==
    /\ ArchiveTypeOK /\ PlansAreMade /\ ReasonsAreGiven /\ ArchivedAreMade
    /\ RestoresReadAsTold /\ RestoredOnce /\ RowIsAsLastTold

LEMMA NoPlanType == NoPlan \in Plan
BY DEF NoPlan, Plan

LEMMA LedgerInitInv == ArchiveInit => LedgerInv
<1> SUFFICES ASSUME ArchiveInit
             PROVE  LedgerInv
  OBVIOUS
<1>1. \A i \in Rows : notices[i] = << >> /\ ~Archived(i) /\ better[i] = NoRow
  BY DEF ArchiveInit, Archived
<1>2. ArchiveTypeOK
  <2>1. /\ made \subseteq Rows /\ under \in [Rows -> Rows \cup {NoRow}]
        /\ reason \in [Rows -> Reasons \cup {NoRow}]
        /\ better \in [Rows -> Rows \cup {NoRow}]
    BY DEF ArchiveInit
  <2>2. caller \in [Callers -> {"idle", "references", "archive", "context", "restore"}]
    BY DEF ArchiveInit
  <2>3. plan \in [Callers -> Plan]
    BY NoPlanType DEF ArchiveInit
  <2>4. << >> \in Seq(Notice)
    OBVIOUS
  <2>5. notices \in [Rows -> Seq(Notice)]
    BY <2>4, Zenon DEF ArchiveInit
  <2>6. overtaken \subseteq Rows
    BY DEF ArchiveInit
  <2> QED
    BY <2>1, <2>2, <2>3, <2>5, <2>6 DEF ArchiveTypeOK
<1>3. PlansAreMade /\ RestoresReadAsTold
  BY DEF ArchiveInit, PlansAreMade, RestoresReadAsTold, Idle
<1>4. ReasonsAreGiven /\ ArchivedAreMade /\ RestoredOnce
  BY <1>1 DEF ReasonsAreGiven, ArchivedAreMade, RestoredOnce
<1>5. RowIsAsLastTold
  BY <1>1 DEF RowIsAsLastTold, RowFollowsItsEvents, RestoresTell
<1> QED
  BY <1>2, <1>3, <1>4, <1>5 DEF LedgerInv

LEMMA AppendNotice ==
    ASSUME NEW s \in Seq(Notice), NEW e \in Notice
    PROVE  /\ Append(s, e) \in Seq(Notice) /\ Append(s, e) # << >>
           /\ Len(Append(s, e)) = Len(s) + 1 /\ Len(s) \in Nat
           /\ \A n \in 1..Len(s) : Append(s, e)[n] = s[n]
           /\ Append(s, e)[Len(s) + 1] = e
OBVIOUS

-----------------------------------------------------------------------------
(* The steps that write no row.                                            *)

\* What the events of a row tell of its restores stays true.
LEMMA TellingStays ==
    ASSUME NEW i \in Rows, RestoresTell(i), notices'[i] = notices[i],
           overtaken \subseteq overtaken'
    PROVE  RestoresTell(i)'
<1> DEFINE told == notices[i]
<1> SUFFICES ASSUME NEW n \in 1..Len(told), ~told[n].archived
             PROVE  \E m \in 1..(n - 1) :
                       /\ TellsOf(told[m], told[n])
                       /\ m = n - 1 \/ i \in overtaken'
  BY DEF RestoresTell, TellsOf
<1>1. PICK m \in 1..(n - 1) :
         /\ TellsOf(told[m], told[n])
         /\ m = n - 1 \/ i \in overtaken
  BY DEF RestoresTell, TellsOf
<1> QED
  BY <1>1

\* The rows and the events stay as they are.
LEMMA WorldKeeps ==
    ASSUME LedgerInv, World
    PROVE  /\ ReasonsAreGiven' /\ ArchivedAreMade' /\ RestoredOnce'
           /\ RowIsAsLastTold'
           /\ \A c \in Callers : plan'[c] = plan[c] => ReadAsTold(c)' = ReadAsTold(c)
<1>1. UNCHANGED <<made, reason, better, notices, overtaken>>
  BY DEF World
<1>2. ReasonsAreGiven' /\ ArchivedAreMade' /\ RestoredOnce'
  BY <1>1 DEF LedgerInv, ReasonsAreGiven, ArchivedAreMade, RestoredOnce, Archived
<1>3. RowIsAsLastTold'
  BY <1>1, TellingStays
     DEF LedgerInv, RowIsAsLastTold, RowFollowsItsEvents, Archived
<1>4. ASSUME NEW c \in Callers, plan'[c] = plan[c]
      PROVE  ReadAsTold(c)' = ReadAsTold(c)
  BY <1>1, <1>4 DEF ReadAsTold, TellsOf, Archived
<1> QED
  BY <1>2, <1>3, <1>4

\* An archived row says what its last event says, and that is a delete's.
LEMMA ArchivedAsTold ==
    ASSUME LedgerInv, NEW i \in Rows, Archived(i)
    PROVE  /\ Len(notices[i]) \in 1..Len(notices[i])
           /\ notices[i][Len(notices[i])].archived
           /\ reason[i] = notices[i][Len(notices[i])].reason
           /\ better[i] = notices[i][Len(notices[i])].better
<1>1. notices[i] \in Seq(Notice)
  BY DEF LedgerInv, ArchiveTypeOK
<1>2. RowFollowsItsEvents(i)
  BY DEF LedgerInv, RowIsAsLastTold
<1> QED
  BY <1>1, <1>2 DEF RowFollowsItsEvents

LEMMA StartDeleteKeeps ==
    ASSUME LedgerInv, NEW c \in Callers, NEW p \in Plan, StartDelete(c, p)
    PROVE  LedgerInv'
<1>1. /\ World /\ caller'[c] = "references" /\ plan'[c] = p
      /\ p.item \in made /\ p.reason # NoRow
      /\ \A d \in Callers \ {c} : caller'[d] = caller[d] /\ plan'[d] = plan[d]
  BY DEF StartDelete, Enter, LedgerInv, ArchiveTypeOK
<1>2. ArchiveTypeOK'
  BY DEF LedgerInv, ArchiveTypeOK, StartDelete, Enter, World
<1>3. PlansAreMade'
  BY <1>1 DEF LedgerInv, PlansAreMade, World, Idle
<1>4. RestoresReadAsTold'
  BY <1>1, WorldKeeps DEF LedgerInv, RestoresReadAsTold
<1> QED
  BY <1>1, <1>2, <1>3, <1>4, WorldKeeps DEF LedgerInv

LEMMA StartRestoreKeeps ==
    ASSUME LedgerInv, NEW c \in Callers, NEW i \in Rows, NEW ack \in BOOLEAN,
           StartRestore(c, i, ack)
    PROVE  LedgerInv'
<1> DEFINE p == [NoPlan EXCEPT !.item = i, !.reason = reason[i], !.better = better[i]]
<1>1. /\ p \in Plan /\ p.item = i /\ p.reason = reason[i] /\ p.better = better[i]
  BY DEF NoPlan, Plan, LedgerInv, ArchiveTypeOK
<1>2. /\ World /\ i \in made /\ Archived(i)
      /\ caller'[c] = "context" /\ plan'[c] = p
      /\ \A d \in Callers \ {c} : caller'[d] = caller[d] /\ plan'[d] = plan[d]
  BY DEF StartRestore, Enter, LedgerInv, ArchiveTypeOK
<1>3. ArchiveTypeOK'
  <2>1. /\ World /\ caller' = [caller EXCEPT ![c] = "context"]
        /\ plan' = [plan EXCEPT ![c] = p]
    BY DEF StartRestore, Enter
  <2> HIDE DEF p
  <2> QED
    BY <1>1, <2>1 DEF LedgerInv, ArchiveTypeOK, World
<1> HIDE DEF p
<1>4. PlansAreMade'
  BY <1>1, <1>2 DEF LedgerInv, PlansAreMade, World, Idle, Archived
<1>5. ReadAsTold(c)'
  <2>1. UNCHANGED <<reason, notices, overtaken>>
    BY <1>2 DEF World
  <2>2. TellsOf(notices[i][Len(notices[i])], p)
    BY <1>1, <1>2, ArchivedAsTold DEF TellsOf
  <2>3. Len(notices[i]) \in 1..Len(notices[i])
    BY <1>2, ArchivedAsTold
  <2> QED
    BY <1>1, <1>2, <2>1, <2>2, <2>3 DEF ReadAsTold, TellsOf
<1>6. RestoresReadAsTold'
  BY <1>2, <1>5, WorldKeeps DEF LedgerInv, RestoresReadAsTold
<1> QED
  BY <1>2, <1>3, <1>4, <1>6, WorldKeeps DEF LedgerInv

LEMMA ChecksKeep ==
    ASSUME LedgerInv, NEW c \in Callers,
           CheckReferences(c) \/ CheckContext(c) \/ GiveUp(c)
    PROVE  LedgerInv' /\ World
<1>1. World
  BY DEF CheckReferences, CheckContext, GiveUp
<1>2. \A d \in Callers \ {c} : caller'[d] = caller[d] /\ plan'[d] = plan[d]
  BY DEF CheckReferences, CheckContext, GiveUp, Leave, LedgerInv, ArchiveTypeOK
<1>3. CASE CheckReferences(c) \/ CheckContext(c)
  <2>1. /\ plan' = plan
        /\ \/ caller[c] = "references" /\ caller' = [caller EXCEPT ![c] = "archive"]
           \/ caller[c] = "context" /\ caller' = [caller EXCEPT ![c] = "restore"]
    BY <1>3 DEF CheckReferences, CheckContext
  <2>2. ArchiveTypeOK'
    BY <1>1, <2>1 DEF LedgerInv, ArchiveTypeOK, World
  <2>3. PlansAreMade'
    BY <1>1, <1>2, <2>1 DEF LedgerInv, PlansAreMade, World, Idle
  <2>4. RestoresReadAsTold'
    <3> SUFFICES ASSUME NEW d \in Callers, caller'[d] \in {"context", "restore"}
                 PROVE  ReadAsTold(d)'
      BY DEF RestoresReadAsTold
    <3>1. caller[d] \in {"context", "restore"} /\ plan'[d] = plan[d]
      BY <1>2, <2>1 DEF LedgerInv, ArchiveTypeOK
    <3> QED
      BY <1>1, <3>1, WorldKeeps DEF LedgerInv, RestoresReadAsTold
  <2> QED
    BY <1>1, <2>2, <2>3, <2>4, WorldKeeps DEF LedgerInv
<1>4. CASE GiveUp(c)
  <2>1. caller'[c] = "idle"
    BY <1>4 DEF GiveUp, Leave, LedgerInv, ArchiveTypeOK
  <2>2. ArchiveTypeOK'
    BY <1>4, NoPlanType DEF LedgerInv, ArchiveTypeOK, GiveUp, Leave, World
  <2>3. PlansAreMade'
    BY <1>1, <1>2, <2>1 DEF LedgerInv, PlansAreMade, World, Idle
  <2>4. RestoresReadAsTold'
    BY <1>1, <1>2, <2>1, WorldKeeps DEF LedgerInv, RestoresReadAsTold
  <2> QED
    BY <1>1, <2>2, <2>3, <2>4, WorldKeeps DEF LedgerInv
<1> QED
  BY <1>1, <1>3, <1>4

-----------------------------------------------------------------------------
(* The steps that write a row.                                             *)

\* A row changes with its event.  A delete's event says what the row then
\* holds; a restore's repeats the last one, or one that was overtaken.
LEMMA RecordKeeps ==
    ASSUME LedgerInv, NEW i \in made, NEW e \in Notice, Record(i, e),
           e.reason # NoRow,
           e.archived => better' = [better EXCEPT ![i] = e.better],
           ~e.archived =>
              /\ Archived(i) /\ better' = better
              /\ \E m \in 1..Len(notices[i]) :
                    /\ TellsOf(notices[i][m], e)
                    /\ m = Len(notices[i]) \/ i \in overtaken',
           overtaken \subseteq overtaken', UNCHANGED made
    PROVE  /\ ReasonsAreGiven' /\ ArchivedAreMade' /\ RestoredOnce' /\ RowIsAsLastTold'
           /\ notices' \in [Rows -> Seq(Notice)]
           /\ reason' \in [Rows -> Reasons \cup {NoRow}]
           /\ better' \in [Rows -> Rows \cup {NoRow}]
<1>1. /\ i \in Rows /\ notices \in [Rows -> Seq(Notice)]
      /\ reason \in [Rows -> Reasons \cup {NoRow}]
      /\ better \in [Rows -> Rows \cup {NoRow}]
      /\ e.reason \in Reasons \cup {NoRow} /\ e.better \in Rows \cup {NoRow}
  BY DEF LedgerInv, ArchiveTypeOK, Notice
<1>2. /\ notices'[i] = Append(notices[i], e)
      /\ reason'[i] = IF e.archived THEN e.reason ELSE NoRow
      /\ better'[i] = IF e.archived THEN e.better ELSE better[i]
      /\ \A j \in Rows \ {i} : /\ notices'[j] = notices[j]
                               /\ reason'[j] = reason[j] /\ better'[j] = better[j]
  BY <1>1 DEF Record
<1>3. /\ Append(notices[i], e) \in Seq(Notice) /\ notices'[i] # << >>
      /\ Len(notices'[i]) = Len(notices[i]) + 1 /\ Len(notices[i]) \in Nat
      /\ \A n \in 1..Len(notices[i]) : notices'[i][n] = notices[i][n]
      /\ notices'[i][Len(notices[i]) + 1] = e
  <2>1. notices[i] \in Seq(Notice) /\ notices'[i] = Append(notices[i], e)
    BY <1>1, <1>2
  <2> QED
    BY <2>1, AppendNotice
<1>4. /\ notices' \in [Rows -> Seq(Notice)]
      /\ reason' \in [Rows -> Reasons \cup {NoRow}]
      /\ better' \in [Rows -> Rows \cup {NoRow}]
  <2>1. better' \in [Rows -> Rows \cup {NoRow}]
    BY <1>1
  <2>2. reason' \in [Rows -> Reasons \cup {NoRow}]
    BY <1>1 DEF Record
  <2>3. notices' \in [Rows -> Seq(Notice)]
    BY <1>1, <1>2, <1>3 DEF Record
  <2> QED
    BY <2>1, <2>2, <2>3
<1>5. ReasonsAreGiven'
  <2> SUFFICES ASSUME NEW j \in Rows, NEW n \in 1..Len(notices'[j])
               PROVE  notices'[j][n].reason # NoRow
    BY DEF ReasonsAreGiven
  <2>1. CASE j # i
    BY <2>1, <1>2 DEF LedgerInv, ReasonsAreGiven
  <2>2. CASE j = i /\ n = Len(notices[i]) + 1
    BY <2>2, <1>3
  <2>3. CASE j = i /\ n # Len(notices[i]) + 1
    <3>1. n \in 1..Len(notices[i])
      BY <2>3, <1>3
    <3> QED
      BY <2>3, <3>1, <1>1, <1>3 DEF LedgerInv, ReasonsAreGiven
  <2> QED
    BY <2>1, <2>2, <2>3
<1>6. ArchivedAreMade'
  BY <1>1, <1>2 DEF LedgerInv, ArchivedAreMade, Archived
<1>7. ASSUME NEW j \in Rows
      PROVE  RowFollowsItsEvents(j)'
  <2>1. CASE j # i
    BY <2>1, <1>2 DEF LedgerInv, RowIsAsLastTold, RowFollowsItsEvents, Archived
  <2>2. CASE j = i /\ e.archived
    BY <2>2, <1>2, <1>3 DEF RowFollowsItsEvents
  <2>3. CASE j = i /\ ~e.archived
    <3>1. /\ better[i] = notices[i][Len(notices[i])].better
          /\ Len(notices[i]) \in 1..Len(notices[i])
      BY <2>3, <1>1, ArchivedAsTold
    <3>2. better'[i] = notices'[i][Len(notices'[i]) - 1].better
      BY <2>3, <3>1, <1>2, <1>3
    <3> QED
      BY <2>3, <3>2, <1>2, <1>3 DEF RowFollowsItsEvents, Archived
  <2> QED
    BY <2>1, <2>2, <2>3
<1>8. ASSUME NEW j \in Rows
      PROVE  RestoresTell(j)'
  <2> SUFFICES ASSUME NEW n \in 1..Len(notices'[j]), ~notices'[j][n].archived
               PROVE  \E m \in 1..(n - 1) :
                         /\ TellsOf(notices'[j][m], notices'[j][n])
                         /\ m = n - 1 \/ j \in overtaken'
    BY DEF RestoresTell, TellsOf
  <2>1. CASE j # i
    <3>1. RestoresTell(j)'
      BY <2>1, <1>2, TellingStays DEF LedgerInv, RowIsAsLastTold
    <3> QED
      BY <3>1 DEF RestoresTell, TellsOf
  <2>2. CASE j = i /\ n = Len(notices[i]) + 1
    <3>1. PICK m \in 1..Len(notices[i]) :
             /\ TellsOf(notices[i][m], e)
             /\ m = Len(notices[i]) \/ i \in overtaken'
      BY <2>2, <1>3
    <3> QED
      BY <2>2, <3>1, <1>3
  <2>3. CASE j = i /\ n # Len(notices[i]) + 1
    <3>1. n \in 1..Len(notices[i]) /\ ~notices[i][n].archived
      BY <2>3, <1>3
    <3>2. PICK m \in 1..(n - 1) :
             /\ TellsOf(notices[i][m], notices[i][n])
             /\ m = n - 1 \/ i \in overtaken
      BY <3>1, <1>1 DEF LedgerInv, RowIsAsLastTold, RestoresTell, TellsOf
    <3>3. m \in 1..Len(notices[i])
      BY <3>1, <3>2, <1>3
    <3> QED
      BY <2>3, <3>1, <3>2, <3>3, <1>3
  <2> QED
    BY <2>1, <2>2, <2>3
<1>9. RestoredOnce'
  <2> SUFFICES ASSUME NEW j \in Rows, NEW n \in 1..Len(notices'[j]),
                      ~notices'[j][n].archived
               PROVE  n > 1 /\ notices'[j][n - 1].archived
    BY DEF RestoredOnce
  <2>1. CASE j # i
    BY <2>1, <1>2 DEF LedgerInv, RestoredOnce
  <2>2. CASE j = i /\ n # Len(notices[i]) + 1
    <3>1. n \in 1..Len(notices[i])
      BY <2>2, <1>3
    <3>2. n > 1 /\ notices[i][n - 1].archived
      BY <2>2, <3>1, <1>1, <1>3 DEF LedgerInv, RestoredOnce
    <3>3. n - 1 \in 1..Len(notices[i])
      BY <3>1, <3>2, <1>3
    <3> QED
      BY <2>2, <3>2, <3>3, <1>3
  <2>3. CASE j = i /\ n = Len(notices[i]) + 1
    <3>1. /\ Len(notices[i]) \in 1..Len(notices[i])
          /\ notices[i][Len(notices[i])].archived
      BY <2>3, <1>1, <1>3, ArchivedAsTold
    <3> QED
      BY <2>3, <3>1, <1>3
  <2> QED
    BY <2>1, <2>2, <2>3
<1>10. RowIsAsLastTold'
  BY <1>7, <1>8 DEF RowIsAsLastTold
<1> QED
  BY <1>4, <1>5, <1>6, <1>9, <1>10

\* A delete or restore that has written leaves; the others have read what some
\* delete said still, and those of the same row are overtaken, or find it live.
LEMMA OthersReadAsTold ==
    ASSUME LedgerInv, NEW c \in Callers, NEW i \in Rows, NEW e \in Notice,
           plan[c].item = i, Record(i, e), Leave(c),
           overtaken \subseteq overtaken',
           e.archived => {k \in {i} : Restoring(k)} \subseteq overtaken'
    PROVE  RestoresReadAsTold'
<1>1. /\ notices[i] \in Seq(Notice) /\ notices'[i] = Append(notices[i], e)
      /\ ~e.archived => reason'[i] = NoRow
      /\ \A j \in Rows \ {i} : notices'[j] = notices[j] /\ reason'[j] = reason[j]
  BY DEF Record, LedgerInv, ArchiveTypeOK
<1> SUFFICES ASSUME NEW d \in Callers, caller'[d] \in {"context", "restore"}
             PROVE  ReadAsTold(d)'
  BY DEF RestoresReadAsTold
<1>2. /\ caller[d] \in {"context", "restore"} /\ plan'[d] = plan[d]
      /\ plan[d].item \in Rows
  BY DEF Leave, LedgerInv, ArchiveTypeOK, PlansAreMade, Idle
<1>3. ReadAsTold(d)
  BY <1>2 DEF LedgerInv, RestoresReadAsTold
<1>4. CASE plan[d].item # i
  BY <1>1, <1>2, <1>3, <1>4 DEF ReadAsTold, TellsOf, Archived
<1>5. CASE plan[d].item = i
  <2>1. PICK m \in 1..Len(notices[i]) : TellsOf(notices[i][m], plan[d])
    BY <1>3, <1>5 DEF ReadAsTold
  <2>2. m \in 1..Len(notices'[i]) /\ notices'[i][m] = notices[i][m]
    BY <1>1, <2>1, AppendNotice
  <2>3. i \in overtaken' \/ ~Archived(i)'
    BY <1>1, <1>2, <1>5 DEF Restoring, Archived
  <2> QED
    BY <1>2, <1>5, <2>1, <2>2, <2>3 DEF ReadAsTold, TellsOf, Archived
<1> QED
  BY <1>4, <1>5

LEMMA LeaveKeeps ==
    ASSUME LedgerInv, NEW c \in Callers, Leave(c), UNCHANGED made
    PROVE  /\ caller' \in [Callers -> {"idle", "references", "archive", "context",
                                       "restore"}]
           /\ plan' \in [Callers -> Plan]
           /\ PlansAreMade'
BY NoPlanType DEF LedgerInv, ArchiveTypeOK, PlansAreMade, Leave, Idle

LEMMA ArchiveKeeps ==
    ASSUME LedgerInv, NEW c \in Callers, Archive(c)
    PROVE  LedgerInv'
<1> DEFINE i == plan[c].item
           e == [archived |-> TRUE, reason |-> plan[c].reason,
                 better |-> plan[c].better, ack |-> plan[c].ack]
<1>1. /\ i \in made /\ i \in Rows /\ e \in Notice /\ Record(i, e) /\ Leave(c)
      /\ e.archived /\ e.reason # NoRow
      /\ better' = [better EXCEPT ![i] = e.better]
      /\ UNCHANGED <<made, under>>
      /\ overtaken' = overtaken \cup {k \in {i} : Restoring(k)}
  BY DEF Archive, Overtake, LedgerInv, ArchiveTypeOK, Plan, Notice,
         PlansAreMade, Idle
<1>2. /\ ReasonsAreGiven' /\ ArchivedAreMade' /\ RestoredOnce' /\ RowIsAsLastTold'
      /\ notices' \in [Rows -> Seq(Notice)]
      /\ reason' \in [Rows -> Reasons \cup {NoRow}]
      /\ better' \in [Rows -> Rows \cup {NoRow}]
  <2> HIDE DEF i, e
  <2> QED
    BY <1>1, RecordKeeps
<1>3. RestoresReadAsTold'
  <2>1. plan[c].item = i
    OBVIOUS
  <2> HIDE DEF i, e
  <2> QED
    BY <1>1, <2>1, OthersReadAsTold
<1>4. ArchiveTypeOK' /\ PlansAreMade'
  BY <1>1, <1>2, LeaveKeeps DEF LedgerInv, ArchiveTypeOK
<1> QED
  BY <1>2, <1>3, <1>4 DEF LedgerInv

LEMMA RestoreKeeps ==
    ASSUME LedgerInv, NEW c \in Callers, Restore(c)
    PROVE  LedgerInv'
<1> DEFINE i == plan[c].item
           e == Undone(c)
<1>1. /\ i \in made /\ i \in Rows /\ e \in Notice /\ Record(i, e) /\ Leave(c)
      /\ ~e.archived /\ e.reason # NoRow
      /\ Archived(i) /\ better' = better
      /\ UNCHANGED <<made, under>>
      /\ overtaken \subseteq overtaken' /\ overtaken' \subseteq Rows
  BY DEF Restore, BringBack, Undone, Overtake, LedgerInv, ArchiveTypeOK, Plan,
         Notice, PlansAreMade, Idle
<1>2. \E m \in 1..Len(notices[i]) :
         TellsOf(notices[i][m], e) /\ (m = Len(notices[i]) \/ i \in overtaken')
  BY <1>1 DEF Restore, Undone, LedgerInv, RestoresReadAsTold, ReadAsTold, TellsOf
<1>3. /\ ReasonsAreGiven' /\ ArchivedAreMade' /\ RestoredOnce' /\ RowIsAsLastTold'
      /\ notices' \in [Rows -> Seq(Notice)]
      /\ reason' \in [Rows -> Reasons \cup {NoRow}]
      /\ better' \in [Rows -> Rows \cup {NoRow}]
  <2> HIDE DEF i, e
  <2> QED
    BY <1>1, <1>2, RecordKeeps
<1>4. RestoresReadAsTold'
  <2>1. plan[c].item = i
    OBVIOUS
  <2> HIDE DEF i, e
  <2> QED
    BY <1>1, <2>1, OthersReadAsTold
<1>5. ArchiveTypeOK' /\ PlansAreMade'
  BY <1>1, <1>3, LeaveKeeps DEF LedgerInv, ArchiveTypeOK
<1> QED
  BY <1>3, <1>4, <1>5 DEF LedgerInv

LEMMA FileKeeps ==
    ASSUME LedgerInv, NEW i \in Rows, NEW onto \in Rows \cup {NoRow}, File(i, onto)
    PROVE  LedgerInv'
<1>1. /\ UNCHANGED <<reason, better, caller, plan, notices>>
      /\ made' = made \cup {i} /\ overtaken \subseteq overtaken'
  BY DEF File, Overtake
<1>2. ArchiveTypeOK'
  BY DEF LedgerInv, ArchiveTypeOK, File, Overtake, Archived
<1>3. PlansAreMade' /\ ReasonsAreGiven' /\ ArchivedAreMade' /\ RestoredOnce'
  BY <1>1 DEF LedgerInv, PlansAreMade, ReasonsAreGiven, ArchivedAreMade,
              RestoredOnce, Archived, Idle
<1>4. RestoresReadAsTold'
  BY <1>1 DEF LedgerInv, RestoresReadAsTold, ReadAsTold, TellsOf, Archived
<1>5. RowIsAsLastTold'
  BY <1>1, TellingStays DEF LedgerInv, RowIsAsLastTold, RowFollowsItsEvents,
     Archived
<1> QED
  BY <1>2, <1>3, <1>4, <1>5 DEF LedgerInv

LEMMA LedgerStep ==
    ASSUME LedgerInv, [ArchiveNext]_archiveVars
    PROVE  LedgerInv'
<1>1. CASE ArchiveNext
  BY <1>1, StartDeleteKeeps, StartRestoreKeeps, ChecksKeep, ArchiveKeeps,
     RestoreKeeps, FileKeeps DEF ArchiveNext
<1>2. CASE UNCHANGED archiveVars
  BY <1>2 DEF archiveVars, LedgerInv, ArchiveTypeOK, PlansAreMade,
              ReasonsAreGiven, ArchivedAreMade, RestoresReadAsTold, ReadAsTold,
              TellsOf, RestoredOnce, RowIsAsLastTold, RowFollowsItsEvents,
              RestoresTell, Archived, Idle
<1> QED
  BY <1>1, <1>2

THEOREM LedgerInvariance == ArchiveSpec => []LedgerInv
BY LedgerInitInv, LedgerStep, PTL DEF ArchiveSpec

\* However deletes and restores race, the row is as its last delete's event and
\* what came after it say, and a restore's event repeats that of a delete before
\* it, the last one unless that overtook the restore.
THEOREM LastWordHolds == ArchiveSpec => []RowIsAsLastTold
<1>1. LedgerInv => RowIsAsLastTold
  BY DEF LedgerInv
<1> QED
  BY <1>1, LedgerInvariance, PTL

\* An item brought back is told of once, after what it undoes.
THEOREM RestoresAlternate == ArchiveSpec => []RestoredOnce
<1>1. LedgerInv => RestoredOnce
  BY DEF LedgerInv
<1> QED
  BY <1>1, LedgerInvariance, PTL

-----------------------------------------------------------------------------
(* What hides live work.  What a call has checked still stands when it     *)
(* writes, or a row was overtaken.                                         *)

\* A delete past its check hides no live work, or says so, or was overtaken; a
\* restore past its check brings an item back under none that is archived, or
\* that one was.
DeleteStands(c) ==
    caller[c] = "archive" /\ (\E j \in Beneath(plan[c].item) : Live(j)) =>
        plan[c].ack \/ plan[c].item \in overtaken

RestoreStands(c) ==
    LET k == under[plan[c].item]
    IN  caller[c] = "restore" /\ k # NoRow /\ Archived(k) => k \in overtaken

ChecksStand == \A c \in Callers : DeleteStands(c) /\ RestoreStands(c)

HidingInv == LedgerInv /\ ChecksStand /\ HiddenWorkIsKnown

LEMMA HidingInitInv == ArchiveInit => HidingInv
<1> SUFFICES ASSUME ArchiveInit
             PROVE  ChecksStand /\ HiddenWorkIsKnown
  BY LedgerInitInv DEF HidingInv
<1> QED
  BY DEF ArchiveInit, ChecksStand, DeleteStands, RestoreStands, HiddenWorkIsKnown

\* The rows stay as they are, and so does what is hidden among them.
LEMMA WorldHides ==
    ASSUME World
    PROVE  /\ HiddenWorkIsKnown' = HiddenWorkIsKnown
           /\ \A c \in Callers : plan'[c] = plan[c] /\ caller'[c] = caller[c] =>
                  DeleteStands(c)' = DeleteStands(c) /\ RestoreStands(c)' = RestoreStands(c)
BY DEF HiddenWorkIsKnown, World, DeleteStands, RestoreStands, Archived, Beneath, Live

\* Whoever starts or gives up has checked nothing.
LEMMA UncheckedHides ==
    ASSUME HidingInv, LedgerInv', NEW c \in Callers,
           \/ \E p \in Plan : StartDelete(c, p)
           \/ \E i \in Rows, ack \in BOOLEAN : StartRestore(c, i, ack)
           \/ GiveUp(c)
    PROVE  HidingInv'
<1>1. /\ World /\ caller'[c] \in {"references", "context", "idle"}
      /\ \A d \in Callers \ {c} : caller'[d] = caller[d] /\ plan'[d] = plan[d]
  BY DEF StartDelete, StartRestore, GiveUp, Enter, Leave, HidingInv, LedgerInv,
         ArchiveTypeOK
<1>2. DeleteStands(c)' /\ RestoreStands(c)'
  BY <1>1 DEF DeleteStands, RestoreStands
<1> QED
  BY <1>1, <1>2, WorldHides DEF HidingInv, ChecksStand

LEMMA CheckReferencesHides ==
    ASSUME HidingInv, NEW c \in Callers, CheckReferences(c)
    PROVE  HidingInv'
<1>1. LedgerInv' /\ World /\ plan' = plan
  BY ChecksKeep DEF HidingInv, CheckReferences
<1>2. /\ caller'[c] = "archive"
      /\ \A d \in Callers \ {c} : caller'[d] = caller[d]
  BY DEF CheckReferences, HidingInv, LedgerInv, ArchiveTypeOK
<1>3. (\E j \in Beneath(plan[c].item) : Live(j)) => plan[c].ack
  BY DEF CheckReferences, References
<1>4. DeleteStands(c)' /\ RestoreStands(c)'
  BY <1>1, <1>2, <1>3 DEF DeleteStands, RestoreStands, World, Beneath, Live, Archived
<1> QED
  BY <1>1, <1>2, <1>4, WorldHides DEF HidingInv, ChecksStand

LEMMA CheckContextHides ==
    ASSUME HidingInv, NEW c \in Callers, CheckContext(c)
    PROVE  HidingInv'
<1>1. LedgerInv' /\ World /\ plan' = plan
  BY ChecksKeep DEF HidingInv, CheckContext
<1>2. /\ caller'[c] = "restore"
      /\ \A d \in Callers \ {c} : caller'[d] = caller[d]
  BY DEF CheckContext, HidingInv, LedgerInv, ArchiveTypeOK
<1>3. under[plan[c].item] # NoRow => ~Archived(under[plan[c].item])
  BY DEF CheckContext
<1>4. DeleteStands(c)' /\ RestoreStands(c)'
  BY <1>1, <1>2, <1>3 DEF DeleteStands, RestoreStands, World, Archived
<1> QED
  BY <1>1, <1>2, <1>4, WorldHides DEF HidingInv, ChecksStand

\* A row that goes takes live work with it only as its delete found; a restore
\* under it that had checked is overtaken.
LEMMA ArchiveHides ==
    ASSUME HidingInv, NEW c \in Callers, Archive(c)
    PROVE  HidingInv'
<1> DEFINE i == plan[c].item
           e == [archived |-> TRUE, reason |-> plan[c].reason,
                 better |-> plan[c].better, ack |-> plan[c].ack]
<1>1. LedgerInv'
  BY ArchiveKeeps DEF HidingInv
<1>2. /\ i \in made /\ i \in Rows /\ e \in Notice /\ e.reason # NoRow
      /\ notices \in [Rows -> Seq(Notice)]
      /\ reason \in [Rows -> Reasons \cup {NoRow}]
      /\ made \subseteq Rows /\ under \in [Rows -> Rows \cup {NoRow}]
  BY DEF Archive, HidingInv, LedgerInv, ArchiveTypeOK, Plan, Notice,
         PlansAreMade, Idle
<1>3. /\ notices'[i] = Append(notices[i], e) /\ reason'[i] = plan[c].reason
      /\ \A j \in Rows \ {i} : notices'[j] = notices[j] /\ reason'[j] = reason[j]
      /\ UNCHANGED <<made, under>>
      /\ overtaken' = overtaken \cup {k \in {i} : Restoring(k)}
      /\ caller'[c] = "idle"
      /\ \A d \in Callers \ {c} : caller'[d] = caller[d] /\ plan'[d] = plan[d]
  BY <1>2 DEF Archive, Record, Leave, Overtake, HidingInv, LedgerInv, ArchiveTypeOK
<1>4. notices'[i][Len(notices'[i])].ack = plan[c].ack
  BY <1>2, <1>3, AppendNotice
<1>5. \A k \in Rows : Live(k)' => Live(k)
  BY <1>2, <1>3 DEF Live, Archived
<1>6. ChecksStand'
  <2> SUFFICES ASSUME NEW d \in Callers
               PROVE  DeleteStands(d)' /\ RestoreStands(d)'
    BY DEF ChecksStand
  <2>1. CASE d = c
    BY <2>1, <1>3 DEF DeleteStands, RestoreStands
  <2>2. CASE d # c
    <3>1. DeleteStands(d)'
      BY <2>2, <1>2, <1>3, <1>5
         DEF HidingInv, ChecksStand, DeleteStands, Beneath
    <3>2. RestoreStands(d)'
      <4> SUFFICES ASSUME NEW k, k = under[plan[d].item], k # NoRow,
                          caller[d] = "restore", Archived(k)'
                   PROVE  k \in overtaken'
        BY <2>2, <1>3 DEF RestoreStands, Archived
      <4>1. k \in Rows
        BY <1>2 DEF HidingInv, LedgerInv, ArchiveTypeOK, PlansAreMade, Idle
      <4>2. CASE k = i
        BY <4>2, <1>3 DEF Restoring
      <4>3. CASE k # i
        BY <4>1, <4>3, <1>3 DEF HidingInv, ChecksStand, RestoreStands, Archived
      <4> QED
        BY <4>2, <4>3
    <3> QED
      BY <3>1, <3>2
  <2> QED
    BY <2>1, <2>2
<1>7. HiddenWorkIsKnown'
  <2> SUFFICES ASSUME NEW k \in made', Archived(k)',
                      NEW j \in Beneath(k)', Live(j)'
               PROVE  k \in overtaken' \/ notices'[k][Len(notices'[k])].ack
    BY DEF HiddenWorkIsKnown
  <2>1. Live(j) /\ j \in Beneath(k) /\ k \in made
    BY <1>2, <1>3, <1>5 DEF Beneath
  <2>2. CASE k = i
    BY <2>1, <2>2, <1>3, <1>4 DEF Archive, HidingInv, ChecksStand, DeleteStands
  <2>3. CASE k # i
    BY <2>1, <2>3, <1>2, <1>3 DEF HidingInv, HiddenWorkIsKnown, Archived
  <2> QED
    BY <2>2, <2>3
<1> QED
  BY <1>1, <1>6, <1>7 DEF HidingInv

\* A row that comes back comes back under a live one, or one that was overtaken;
\* a delete of what it hangs under that had checked is overtaken.
LEMMA RestoreHides ==
    ASSUME HidingInv, NEW c \in Callers, Restore(c)
    PROVE  HidingInv'
<1> DEFINE i == plan[c].item
<1>1. LedgerInv'
  BY RestoreKeeps DEF HidingInv
<1>2. /\ i \in made /\ i \in Rows /\ made \subseteq Rows
      /\ notices \in [Rows -> Seq(Notice)]
      /\ reason \in [Rows -> Reasons \cup {NoRow}]
      /\ under \in [Rows -> Rows \cup {NoRow}]
  BY DEF Restore, HidingInv, LedgerInv, ArchiveTypeOK, PlansAreMade, Idle
<1>3. /\ reason'[i] = NoRow
      /\ \A j \in Rows \ {i} : notices'[j] = notices[j] /\ reason'[j] = reason[j]
      /\ UNCHANGED <<made, under>>
      /\ overtaken' = overtaken \cup {k \in Rows : k = under[i] /\ Deleting(k)}
      /\ caller'[c] = "idle"
      /\ \A d \in Callers \ {c} : caller'[d] = caller[d] /\ plan'[d] = plan[d]
  BY <1>2 DEF Restore, BringBack, Undone, Record, Leave, Overtake, HidingInv,
              LedgerInv, ArchiveTypeOK
<1>4. \A k \in Rows : /\ Archived(k)' => k # i /\ Archived(k)
                      /\ Live(k)' => k = i \/ Live(k)
  BY <1>2, <1>3 DEF Live, Archived
<1>5. ChecksStand'
  <2> SUFFICES ASSUME NEW d \in Callers
               PROVE  DeleteStands(d)' /\ RestoreStands(d)'
    BY DEF ChecksStand
  <2>1. CASE d = c
    BY <2>1, <1>3 DEF DeleteStands, RestoreStands
  <2>2. CASE d # c
    <3>1. DeleteStands(d)'
      <4> SUFFICES ASSUME caller[d] = "archive",
                          NEW j \in Beneath(plan[d].item), Live(j)'
                   PROVE  plan[d].ack \/ plan[d].item \in overtaken'
        BY <2>2, <1>3 DEF DeleteStands, Beneath
      <4>1. j \in Rows /\ under[j] = plan[d].item /\ plan[d].item \in Rows
        BY <1>2 DEF Beneath, HidingInv, LedgerInv, ArchiveTypeOK, PlansAreMade, Idle
      <4>2. CASE j = i
        BY <4>1, <4>2, <1>3 DEF Deleting
      <4>3. CASE j # i
        BY <4>1, <4>3, <1>3, <1>4 DEF HidingInv, ChecksStand, DeleteStands
      <4> QED
        BY <4>2, <4>3
    <3>2. RestoreStands(d)'
      <4> SUFFICES ASSUME NEW k, k = under[plan[d].item], k # NoRow,
                          caller[d] = "restore", Archived(k)'
                   PROVE  k \in overtaken'
        BY <2>2, <1>3 DEF RestoreStands, Archived
      <4>1. k \in Rows
        BY <1>2 DEF HidingInv, LedgerInv, ArchiveTypeOK, PlansAreMade, Idle
      <4> QED
        BY <4>1, <1>3, <1>4 DEF HidingInv, ChecksStand, RestoreStands
    <3> QED
      BY <3>1, <3>2
  <2> QED
    BY <2>1, <2>2
<1>6. HiddenWorkIsKnown'
  <2> SUFFICES ASSUME NEW k \in made', Archived(k)',
                      NEW j \in Beneath(k)', Live(j)'
               PROVE  k \in overtaken' \/ notices'[k][Len(notices'[k])].ack
    BY DEF HiddenWorkIsKnown
  <2>1. k # i /\ k \in Rows /\ k \in made /\ Archived(k) /\ j \in Beneath(k)
    BY <1>2, <1>3, <1>4 DEF Beneath
  <2>2. CASE j = i
    BY <2>1, <2>2, <1>3, ArchiveAssumption
       DEF Restore, HidingInv, ChecksStand, RestoreStands, Beneath
  <2>3. CASE j # i
    <3>1. Live(j)
      BY <2>1, <2>3, <1>2, <1>4 DEF Beneath
    <3> QED
      BY <2>1, <3>1, <1>3 DEF HidingInv, HiddenWorkIsKnown
  <2> QED
    BY <2>2, <2>3
<1> QED
  BY <1>1, <1>5, <1>6 DEF HidingInv

\* An item under an archived one, or one about to go, is filed there knowingly.
LEMMA FileHides ==
    ASSUME HidingInv, NEW i \in Rows, NEW onto \in Rows \cup {NoRow}, File(i, onto)
    PROVE  HidingInv'
<1>1. LedgerInv'
  BY FileKeeps DEF HidingInv
<1>2. /\ UNCHANGED <<reason, caller, plan, notices>>
      /\ made' = made \cup {i} /\ under' = [under EXCEPT ![i] = onto]
      /\ overtaken' = overtaken \cup
             {k \in Rows : k = onto /\ (Archived(k) \/ Deleting(k))}
      /\ under \in [Rows -> Rows \cup {NoRow}] /\ made \subseteq Rows
  BY DEF File, Overtake, HidingInv, LedgerInv, ArchiveTypeOK
<1>3. \A k \in Rows, j \in Rows : j \in Beneath(k)' =>
          \/ j = i /\ onto = k
          \/ j # i /\ j \in Beneath(k)
  BY <1>2 DEF Beneath
<1>4. \A k \in Rows : (Archived(k)' <=> Archived(k)) /\ (k # i /\ Live(k)' => Live(k))
  BY <1>2 DEF Archived, Live
<1>5. ChecksStand'
  <2> SUFFICES ASSUME NEW d \in Callers
               PROVE  DeleteStands(d)' /\ RestoreStands(d)'
    BY DEF ChecksStand
  <2>1. DeleteStands(d)'
    <3> SUFFICES ASSUME caller[d] = "archive",
                        NEW j \in Beneath(plan[d].item)', Live(j)'
                 PROVE  plan[d].ack \/ plan[d].item \in overtaken'
      BY <1>2 DEF DeleteStands, Beneath
    <3>1. j \in Rows /\ plan[d].item \in Rows
      BY <1>2 DEF Beneath, HidingInv, LedgerInv, ArchiveTypeOK, PlansAreMade, Idle
    <3>2. CASE j = i /\ onto = plan[d].item
      BY <3>1, <3>2, <1>2 DEF Deleting
    <3>3. CASE j # i /\ j \in Beneath(plan[d].item)
      BY <3>1, <3>3, <1>2, <1>4 DEF HidingInv, ChecksStand, DeleteStands
    <3> QED
      BY <3>1, <3>2, <3>3, <1>2, <1>3
  <2>2. RestoreStands(d)'
    <3> SUFFICES ASSUME NEW k, k = under'[plan[d].item], k # NoRow,
                        caller[d] = "restore", Archived(k)'
                 PROVE  k \in overtaken'
      BY <1>2 DEF RestoreStands, Archived
    <3>1. plan[d].item \in Rows
      BY <1>2 DEF HidingInv, LedgerInv, ArchiveTypeOK, PlansAreMade, Idle
    <3>2. CASE plan[d].item = i
      BY <3>2, <1>2, <1>4
    <3>3. CASE plan[d].item # i
      BY <3>1, <3>3, <1>2, <1>4 DEF HidingInv, ChecksStand, RestoreStands
    <3> QED
      BY <3>2, <3>3
  <2> QED
    BY <2>1, <2>2
<1>6. HiddenWorkIsKnown'
  <2> SUFFICES ASSUME NEW k \in made', Archived(k)',
                      NEW j \in Beneath(k)', Live(j)'
               PROVE  k \in overtaken' \/ notices'[k][Len(notices'[k])].ack
    BY DEF HiddenWorkIsKnown
  <2>1. k \in Rows /\ j \in Rows /\ Archived(k)
    BY <1>2, <1>4 DEF Beneath
  <2>2. k \in made
    BY <2>1 DEF HidingInv, LedgerInv, ArchivedAreMade
  <2>3. CASE j = i /\ onto = k
    BY <2>1, <2>3, <1>2
  <2>4. CASE j # i /\ j \in Beneath(k)
    BY <2>1, <2>2, <2>4, <1>2, <1>4 DEF HidingInv, HiddenWorkIsKnown
  <2> QED
    BY <2>1, <2>3, <2>4, <1>3
<1> QED
  BY <1>1, <1>5, <1>6 DEF HidingInv

LEMMA HidingStep ==
    ASSUME HidingInv, [ArchiveNext]_archiveVars
    PROVE  HidingInv'
<1>1. LedgerInv'
  BY LedgerStep DEF HidingInv
<1>2. CASE ArchiveNext
  BY <1>1, <1>2, UncheckedHides, CheckReferencesHides, CheckContextHides,
     ArchiveHides, RestoreHides, FileHides DEF ArchiveNext
<1>3. CASE UNCHANGED archiveVars
  <2>1. World /\ UNCHANGED <<caller, plan>>
    BY <1>3 DEF archiveVars, World
  <2> QED
    BY <1>1, <2>1, WorldHides DEF HidingInv, ChecksStand
<1> QED
  BY <1>2, <1>3

\* Live work under an archived item was acknowledged by whoever archived that,
\* or was filed there afterwards, or a check there was overtaken.
THEOREM HiddenWorkAcknowledged == ArchiveSpec => []HiddenWorkIsKnown
<1>1. HidingInv => HiddenWorkIsKnown
  BY DEF HidingInv
<1> QED
  BY <1>1, HidingInitInv, HidingStep, PTL DEF ArchiveSpec
=============================================================================
