-------------------------- MODULE ItemStatesProofs --------------------------
(***************************************************************************)
(* What callers and sweeps leave of an item, for any number of items,      *)
(* callers, sweeps and claims.                                             *)
(***************************************************************************)
EXTENDS ItemStates, FiniteSetTheorems, TLAPS

SweptOn(i) == {k \in Claims : Is(k, "swept") /\ claim[k].on = i}
FreedOn(s, i) == {k \in freed[s] : claim[k].on = i}

\* A transaction is where its kind can be; a call about to commit has its
\* item, and a sweep the items of the claims it has released.
ProcsFit ==
    \A p \in Procs :
        /\ pc[p] \in {"update", "commit"} => p \in Calls /\ req[p] \in Move
        /\ pc[p] = "commit" => lock[req[p].item] = p
        /\ pc[p] = "sweep" => p \in Sweeps
        /\ pc[p] # "sweep" => freed[p] = {} /\ found[p] = {}
        /\ \A k \in freed[p] \cup found[p] :
              claim[k] \in Claim /\ claim[k].status \in {"silent", "swept"}
        /\ \A k \in freed[p] : lock[claim[k].on] = p

\* The row a call leaves is the committed one, moved.
HeldByCall(c, i) ==
    pc[c] = "commit" /\ req[c].item = i /\ pend[i] = Moved(item[i], req[c])

\* The row a sweep leaves counts every claim it has released, is blocked if it
\* is at the limit, and differs in nothing else.
CountsReleased(s, i) ==
    pend[i].attempts >= item[i].attempts + Cardinality(FreedOn(s, i))

BlockedAtLimit(row) == row.attempts >= Limit => row.state = "blocked"

AsItWasOrBlocked(row, was) ==
    \/ row.state = was.state /\ row.block = was.block /\ row.pause = was.pause
    \/ /\ was.state # "blocked" /\ row.state = "blocked"
       /\ row.pause = IF was.state = "paused" THEN None ELSE was.pause

HeldBySweep(s, i) ==
    /\ pc[s] = "sweep"
    /\ CountsReleased(s, i)
    /\ BlockedAtLimit(pend[i])
    /\ AsItWasOrBlocked(pend[i], item[i])

HeldRows ==
    \A i \in Items : lock[i] # None =>
        \/ lock[i] \in Calls /\ HeldByCall(lock[i], i)
        \/ lock[i] \in Sweeps /\ HeldBySweep(lock[i], i)

ItemInv ==
    /\ TypeOK /\ ProcsFit /\ HeldRows
    /\ StateIsLastReported /\ EveryDeathCounted /\ StaleFieldsNeedARace

LEMMA ProcsAreSomeone == \A p \in Procs : p # None
BY ItemAssumption DEF Procs

LEMMA ItemsInit == Init => ItemInv
<1> SUFFICES ASSUME Init
             PROVE  ItemInv
  OBVIOUS
<1>1. /\ NewItem \in Row /\ NewItem.state = "todo" /\ NewItem.attempts = 0
      /\ NewItem.block = None /\ NewItem.pause = None
  BY DEF NewItem, Row, States, Given
<1>2. /\ item = [i \in Items |-> NewItem]
      /\ lock = [i \in Items |-> None] /\ pend = [i \in Items |-> None]
      /\ claim = [k \in Claims |-> None]
      /\ req = [p \in Procs |-> None] /\ pc = [p \in Procs |-> "idle"]
      /\ found = [p \in Procs |-> {}] /\ freed = [p \in Procs |-> {}]
      /\ history = [i \in Items |-> << >>]
  BY DEF Init
<1> HIDE DEF Init
<1>3. TypeOK
  <2>1. << >> \in Seq(Report)
    OBVIOUS
  <2>2. history \in [Items -> Seq(Report)]
    BY <2>1, <1>2, Zenon
  <2> QED
    BY <1>1, <1>2, <2>2 DEF TypeOK
<1>4. ProcsFit /\ HeldRows
  BY <1>2 DEF ProcsFit, HeldRows
<1>5. StateIsLastReported
  BY <1>1, <1>2 DEF StateIsLastReported
<1>6. EveryDeathCounted
  <2>1. \A i \in Items : SweptOn(i) = {}
    BY <1>2 DEF SweptOn, Is
  <2>2. \A i \in Items : item[i].attempts = 0
    BY <1>1, <1>2
  <2>3. \A i \in Items : Cardinality(SweptOn(i)) = 0
    BY <2>1, FS_EmptySet
  <2> QED
    BY <2>2, <2>3 DEF EveryDeathCounted, SweptOn
<1>7. StaleFieldsNeedARace
  BY <1>1, <1>2 DEF StaleFieldsNeedARace
<1> QED
  BY <1>3, <1>4, <1>5, <1>6, <1>7 DEF ItemInv

-----------------------------------------------------------------------------
(* Rows.                                                                   *)

LEMMA MovedType ==
    ASSUME NEW row \in Row, NEW m, m.to \in States, m.from \in States,
           m.block \in Given, m.pause \in Given
    PROVE  /\ Moved(row, m) \in Row /\ Moved(row, m) # None
           /\ Moved(row, m).state = m.to /\ Moved(row, m).attempts = row.attempts
           /\ Moved(row, m).block = Column("blocked", m.from, m.to, m.block, row.block)
           /\ Moved(row, m).pause = Column("paused", m.from, m.to, m.pause, row.pause)
<1>1. None \in Given
  BY DEF Given
<1>2. /\ Column("blocked", m.from, m.to, m.block, row.block) \in Given
      /\ Column("paused", m.from, m.to, m.pause, row.pause) \in Given
  BY <1>1 DEF Column, Row
<1> QED
  BY <1>2, NoneIsNoRecord DEF Moved, Row

\* A genuine move clears what the state it leaves required.
LEMMA MovedIsClean ==
    ASSUME NEW row \in Row, NEW m, m.to \in States, m.from = row.state,
           m.block \in Given, m.pause \in Given,
           row.state # "blocked" => row.block = None,
           row.state # "paused" => row.pause = None
    PROVE  /\ m.to # "blocked" => Moved(row, m).block = None
           /\ m.to # "paused" => Moved(row, m).pause = None
<1>1. m.from \in States
  BY DEF Row
<1> QED
  BY <1>1, MovedType DEF Column

\* Another death, and what it does to the row.
LEMMA DeathType ==
    ASSUME NEW old \in Row
    PROVE  LET row == Counted(old)
               new == IF AtLimit(row) THEN Escalated(row) ELSE row
           IN  /\ row \in Row /\ new \in Row /\ new # None
               /\ new.attempts = old.attempts + 1
               /\ BlockedAtLimit(new) /\ AsItWasOrBlocked(new, old)
<1> DEFINE row == Counted(old)
           m == [from |-> row.state, to |-> "blocked", block |-> "given", pause |-> None]
<1>1. /\ row \in Row /\ row.attempts = old.attempts + 1 /\ row.state = old.state
      /\ row.block = old.block /\ row.pause = old.pause
      /\ old.attempts \in Nat /\ row.state \in States
  BY DEF Counted, Row
<1>2. /\ m.to = "blocked" /\ m.from = row.state /\ m.to \in States
      /\ m.from \in States /\ m.block \in Given /\ m.pause \in Given
  BY <1>1 DEF States, Given
<1> HIDE DEF row
<1>3. /\ Moved(row, m) \in Row /\ Moved(row, m) # None
      /\ Moved(row, m).state = "blocked" /\ Moved(row, m).attempts = row.attempts
      /\ Moved(row, m).pause = IF row.state = "paused" THEN None ELSE row.pause
  <2> HIDE DEF m
  <2> QED
    BY <1>1, <1>2, MovedType DEF Column
<1>4. Escalated(row) = Moved(row, m)
  BY DEF Escalated
<1>5. CASE AtLimit(row)
  BY <1>1, <1>3, <1>4, <1>5 DEF AtLimit, row, BlockedAtLimit, AsItWasOrBlocked
<1>6. CASE ~AtLimit(row)
  BY <1>1, <1>6, ItemAssumption, NoneIsNoRecord
     DEF AtLimit, row, BlockedAtLimit, AsItWasOrBlocked
<1> QED
  BY <1>5, <1>6

LEMMA SweptFinite ==
    ASSUME ItemInv, NEW i \in Items
    PROVE  /\ IsFiniteSet(SweptOn(i)) /\ Cardinality(SweptOn(i)) \in Nat
           /\ \A s \in Procs : /\ IsFiniteSet(FreedOn(s, i))
                               /\ Cardinality(FreedOn(s, i)) \in Nat
<1>1. SweptOn(i) \in SUBSET Claims /\ \A s \in Procs : FreedOn(s, i) \in SUBSET Claims
  BY DEF SweptOn, FreedOn, ItemInv, TypeOK
<1> QED
  BY <1>1, ItemAssumption, FS_Subset, FS_CardinalityType

LEMMA AppendReport ==
    ASSUME NEW s \in Seq(Report), NEW e \in Report
    PROVE  /\ Append(s, e) \in Seq(Report) /\ Append(s, e) # << >>
           /\ Len(Append(s, e)) = Len(s) + 1 /\ Len(s) \in Nat
           /\ Append(s, e)[Len(s) + 1] = e
           /\ \A k \in 1..Len(s) : Append(s, e)[k] = s[k]
OBVIOUS

-----------------------------------------------------------------------------
(* Steps of a call.                                                        *)

\* What the committed rows, the claims and the ledger say stays true.
LEMMA CommittedStays ==
    ASSUME ItemInv, UNCHANGED <<item, claim, history>>
    PROVE  StateIsLastReported' /\ EveryDeathCounted' /\ StaleFieldsNeedARace'
BY DEF ItemInv, StateIsLastReported, EveryDeathCounted, StaleFieldsNeedARace,
       Raced, Is

LEMMA EvaluateKeeps ==
    ASSUME ItemInv, NEW c \in Calls, NEW i \in Items, NEW to \in States,
           NEW supplied \in Given, NEW expected \in States \cup {None},
           Evaluate(c, i, to, supplied, expected)
    PROVE  ItemInv'
<1> DEFINE m == [item |-> i, from |-> item[i].state, to |-> to,
                 block |-> Kept("blocked", item[i].state, to, supplied, item[i].block),
                 pause |-> Kept("paused", item[i].state, to, supplied, item[i].pause)]
<1>1. m \in Move
  <2>1. /\ item[i].state \in States /\ item[i].block \in Given
        /\ item[i].pause \in Given /\ None \in Given
    BY DEF ItemInv, TypeOK, Row, Given
  <2> QED
    BY <2>1 DEF Move, Kept
<1>2. /\ pc[c] = "idle" /\ pc' = [pc EXCEPT ![c] = "update"]
      /\ req' = [req EXCEPT ![c] = m]
      /\ UNCHANGED <<item, lock, pend, claim, found, freed, history>>
      /\ c \in Procs
  BY DEF Evaluate, Procs
<1> HIDE DEF m
<1>3. /\ pc'[c] = "update" /\ req'[c] = m
      /\ \A p \in Procs \ {c} : pc'[p] = pc[p] /\ req'[p] = req[p]
  BY <1>2 DEF ItemInv, TypeOK
<1>4. TypeOK'
  BY <1>1, <1>2 DEF ItemInv, TypeOK
<1>5. ProcsFit'
  BY <1>1, <1>2, <1>3 DEF ItemInv, ProcsFit
<1>6. HeldRows'
  <2> SUFFICES ASSUME NEW j \in Items, lock[j] # None
               PROVE  \/ lock[j] \in Calls /\ HeldByCall(lock[j], j)'
                      \/ lock[j] \in Sweeps /\ HeldBySweep(lock[j], j)'
    BY <1>2 DEF HeldRows
  <2>1. \/ lock[j] \in Calls /\ HeldByCall(lock[j], j)
        \/ lock[j] \in Sweeps /\ HeldBySweep(lock[j], j)
    BY DEF ItemInv, HeldRows
  <2>2. lock[j] # c /\ lock[j] \in Procs
    BY <2>1, <1>2 DEF HeldByCall, HeldBySweep, Procs
  <2>3. pc'[lock[j]] = pc[lock[j]] /\ req'[lock[j]] = req[lock[j]]
    BY <2>2, <1>3
  <2> QED
    BY <2>1, <2>3, <1>2 DEF HeldByCall, HeldBySweep, CountsReleased, FreedOn
<1> QED
  BY <1>2, <1>4, <1>5, <1>6, CommittedStays DEF ItemInv

LEMMA UpdateKeeps ==
    ASSUME ItemInv, NEW c \in Calls, UpdateItem(c)
    PROVE  ItemInv'
<1> DEFINE i == req[c].item
<1>1. /\ pc[c] = "update" /\ lock[i] = None
      /\ lock' = [lock EXCEPT ![i] = c]
      /\ pend' = [pend EXCEPT ![i] = Moved(item[i], req[c])]
      /\ pc' = [pc EXCEPT ![c] = "commit"]
      /\ UNCHANGED <<item, claim, req, found, freed, history>>
      /\ c \in Procs /\ c # None
  BY ProcsAreSomeone DEF UpdateItem, Procs
<1>2. req[c] \in Move /\ i \in Items /\ item[i] \in Row
  BY <1>1 DEF ItemInv, ProcsFit, Move, TypeOK
<1>3. Moved(item[i], req[c]) \in Row /\ Moved(item[i], req[c]) # None
  BY <1>2, MovedType DEF Move
<1> HIDE DEF i
<1>4. /\ pc'[c] = "commit" /\ \A p \in Procs \ {c} : pc'[p] = pc[p]
      /\ lock'[i] = c /\ pend'[i] = Moved(item[i], req[c])
      /\ \A j \in Items \ {i} : lock'[j] = lock[j] /\ pend'[j] = pend[j]
  BY <1>1, <1>2 DEF ItemInv, TypeOK
<1>5. TypeOK'
  BY <1>1, <1>2, <1>3 DEF ItemInv, TypeOK
<1>6. ProcsFit'
  <2> SUFFICES ASSUME NEW p \in Procs
               PROVE  /\ pc'[p] \in {"update", "commit"} => p \in Calls /\ req[p] \in Move
                      /\ pc'[p] = "commit" => lock'[req[p].item] = p
                      /\ pc'[p] = "sweep" => p \in Sweeps
                      /\ pc'[p] # "sweep" => freed[p] = {} /\ found[p] = {}
                      /\ \A k \in freed[p] \cup found[p] :
                            claim[k] \in Claim /\ claim[k].status \in {"silent", "swept"}
                      /\ \A k \in freed[p] : lock'[claim[k].on] = p
    BY <1>1 DEF ProcsFit
  <2>1. CASE p = c
    BY <2>1, <1>1, <1>2, <1>4 DEF ItemInv, ProcsFit, i
  <2>2. CASE p # c
    <3>1. \A k \in freed[p] : claim[k].on \in Items
      BY DEF ItemInv, ProcsFit, Claim
    <3>2. pc[p] = "commit" => req[p].item \in Items
      BY DEF ItemInv, ProcsFit, Move
    <3>3. \A j \in Items : lock[j] = p => lock'[j] = p
      BY <1>1, <1>4, ProcsAreSomeone
    <3> QED
      BY <2>2, <3>1, <3>2, <3>3, <1>4 DEF ItemInv, ProcsFit
  <2> QED
    BY <2>1, <2>2
<1>7. HeldRows'
  <2> SUFFICES ASSUME NEW j \in Items, lock'[j] # None
               PROVE  \/ lock'[j] \in Calls /\ HeldByCall(lock[j], j)'
                      \/ lock'[j] \in Sweeps /\ HeldBySweep(lock[j], j)'
    BY DEF HeldRows
  <2>1. CASE j = i
    BY <2>1, <1>1, <1>4 DEF HeldByCall, i
  <2>2. CASE j # i
    <3>1. /\ \/ lock[j] \in Calls /\ HeldByCall(lock[j], j)
             \/ lock[j] \in Sweeps /\ HeldBySweep(lock[j], j)
          /\ lock'[j] = lock[j] /\ pend'[j] = pend[j]
      BY <2>2, <1>4 DEF ItemInv, HeldRows
    <3>2. lock[j] # c /\ lock[j] \in Procs
      BY <3>1, <1>1 DEF HeldByCall, HeldBySweep, Procs
    <3> QED
      BY <3>1, <3>2, <1>1, <1>4 DEF HeldByCall, HeldBySweep, CountsReleased, FreedOn
  <2> QED
    BY <2>1, <2>2
<1> QED
  BY <1>1, <1>5, <1>6, <1>7, CommittedStays DEF ItemInv

LEMMA CommitMoveKeeps ==
    ASSUME ItemInv, NEW c \in Calls, CommitMove(c)
    PROVE  ItemInv' /\ \A i \in Items : item'[i].attempts = item[i].attempts
<1> DEFINE i == req[c].item
           e == [by |-> c, from |-> req[c].from, to |-> req[c].to]
<1>1. /\ pc[c] = "commit"
      /\ item' = [item EXCEPT ![i] = pend[i]]
      /\ lock' = [lock EXCEPT ![i] = None]
      /\ history' = [history EXCEPT ![i] = Append(history[i], e)]
      /\ pend' = [pend EXCEPT ![i] = None]
      /\ req' = [req EXCEPT ![c] = None]
      /\ pc' = [pc EXCEPT ![c] = "idle"]
      /\ UNCHANGED <<claim, found, freed>>
      /\ c \in Procs /\ c # None
  BY ProcsAreSomeone DEF CommitMove, Procs
<1>2. req[c] \in Move /\ i \in Items /\ item[i] \in Row /\ lock[i] = c
  BY <1>1 DEF ItemInv, ProcsFit, Move, TypeOK
<1>3. pend[i] = Moved(item[i], req[c]) /\ pend[i] \in Row
  <2>1. pend[i] = Moved(item[i], req[c])
    BY <1>1, <1>2, ItemAssumption DEF ItemInv, HeldRows, HeldByCall
  <2> QED
    BY <2>1, <1>2, MovedType DEF Move
<1>4. e \in Report /\ e.to = req[c].to /\ e.from = req[c].from
  BY <1>1, <1>2 DEF Report, Move
<1>5. /\ item'[i] = pend[i] /\ lock'[i] = None /\ pend'[i] = None
      /\ history'[i] = Append(history[i], e)
      /\ req'[c] = None /\ pc'[c] = "idle"
      /\ \A j \in Items \ {i} : /\ item'[j] = item[j] /\ lock'[j] = lock[j]
                                /\ pend'[j] = pend[j] /\ history'[j] = history[j]
      /\ \A p \in Procs \ {c} : req'[p] = req[p] /\ pc'[p] = pc[p]
  <2> HIDE DEF i, e
  <2> QED
    BY <1>1, <1>2 DEF ItemInv, TypeOK
<1>6. TypeOK'
  <2> HIDE DEF i, e
  <2>1. history' \in [Items -> Seq(Report)]
    BY <1>1, <1>2, <1>4 DEF ItemInv, TypeOK
  <2>2. item' \in [Items -> Row] /\ pend' \in [Items -> Row \cup {None}]
    BY <1>1, <1>2, <1>3 DEF ItemInv, TypeOK
  <2> QED
    BY <1>1, <1>2, <2>1, <2>2 DEF ItemInv, TypeOK
<1>7. ProcsFit'
  <2> HIDE DEF i, e
  <2> SUFFICES ASSUME NEW p \in Procs
               PROVE  /\ pc'[p] \in {"update", "commit"} => p \in Calls /\ req'[p] \in Move
                      /\ pc'[p] = "commit" => lock'[req'[p].item] = p
                      /\ pc'[p] = "sweep" => p \in Sweeps
                      /\ pc'[p] # "sweep" => freed[p] = {} /\ found[p] = {}
                      /\ \A k \in freed[p] \cup found[p] :
                            claim[k] \in Claim /\ claim[k].status \in {"silent", "swept"}
                      /\ \A k \in freed[p] : lock'[claim[k].on] = p
    BY <1>1 DEF ProcsFit
  <2>1. CASE p = c
    BY <2>1, <1>1, <1>5 DEF ItemInv, ProcsFit
  <2>2. CASE p # c
    <3>1. \A k \in freed[p] : claim[k].on \in Items
      BY DEF ItemInv, ProcsFit, Claim
    <3>2. pc[p] = "commit" => req[p].item \in Items
      BY DEF ItemInv, ProcsFit, Move
    <3>3. \A j \in Items : lock[j] = p => lock'[j] = p
      BY <2>2, <1>2, <1>5
    <3> QED
      BY <2>2, <3>1, <3>2, <3>3, <1>5 DEF ItemInv, ProcsFit
  <2> QED
    BY <2>1, <2>2
<1>8. HeldRows'
  <2> HIDE DEF i, e
  <2> SUFFICES ASSUME NEW j \in Items, lock'[j] # None
               PROVE  \/ lock'[j] \in Calls /\ HeldByCall(lock[j], j)'
                      \/ lock'[j] \in Sweeps /\ HeldBySweep(lock[j], j)'
    BY DEF HeldRows
  <2>1. j # i /\ lock'[j] = lock[j] /\ pend'[j] = pend[j] /\ item'[j] = item[j]
    BY <1>5
  <2>2. \/ lock[j] \in Calls /\ HeldByCall(lock[j], j)
        \/ lock[j] \in Sweeps /\ HeldBySweep(lock[j], j)
    BY <2>1 DEF ItemInv, HeldRows
  <2>3. lock[j] # c
    BY <2>1, <2>2, <1>1 DEF HeldByCall, HeldBySweep, i
  <2>4. pc'[lock[j]] = pc[lock[j]] /\ req'[lock[j]] = req[lock[j]]
    BY <2>2, <2>3, <1>5 DEF Procs
  <2> QED
    BY <2>1, <2>2, <2>4, <1>1 DEF HeldByCall, HeldBySweep, CountsReleased, FreedOn
<1>9. /\ item'[i].state = req[c].to /\ item'[i].attempts = item[i].attempts
  BY <1>2, <1>3, <1>5, MovedType DEF Move
<1>10. \A j \in Items : item'[j].attempts = item[j].attempts
  BY <1>5, <1>9
<1>11. EveryDeathCounted'
  BY <1>1, <1>10 DEF ItemInv, EveryDeathCounted, Is
<1>12. /\ history[i] \in Seq(Report) /\ Append(history[i], e) # << >>
       /\ Len(Append(history[i], e)) = Len(history[i]) + 1
       /\ Len(history[i]) \in Nat
       /\ Append(history[i], e)[Len(history[i]) + 1] = e
       /\ \A k \in 1..Len(history[i]) : Append(history[i], e)[k] = history[i][k]
  <2> HIDE DEF i, e
  <2>1. history[i] \in Seq(Report) /\ e \in Report
    BY <1>2, <1>4 DEF ItemInv, TypeOK
  <2> QED
    BY <2>1, AppendReport
<1> HIDE DEF i, e
<1>13. StateIsLastReported'
  BY <1>4, <1>5, <1>9, <1>12 DEF ItemInv, StateIsLastReported, Last
<1>14. StaleFieldsNeedARace'
  <2> SUFFICES ASSUME NEW j \in Items, ~Raced(j)'
               PROVE  /\ item'[j].state # "blocked" => item'[j].block = None
                      /\ item'[j].state # "paused" => item'[j].pause = None
    BY DEF StaleFieldsNeedARace
  <2>1. CASE j # i
    BY <2>1, <1>5 DEF ItemInv, StaleFieldsNeedARace, Raced
  <2>2. CASE j = i
    <3>1. ~Raced(i)
      <4> SUFFICES ASSUME NEW k \in 1..Len(history[i])
                   PROVE  history[i][k].from =
                              (IF k = 1 THEN "todo" ELSE history[i][k - 1].to)
        BY DEF Raced
      <4>1. /\ k \in 1..Len(history'[i])
            /\ history'[i][k] = history[i][k]
            /\ k # 1 => history'[i][k - 1] = history[i][k - 1]
        BY <1>5, <1>12
      <4> QED
        BY <2>2, <4>1 DEF Raced
    <3>2. req[c].from = item[i].state
      <4>1. Len(history[i]) + 1 \in 1..Len(history'[i])
        BY <1>5, <1>12
      <4>2. history'[i][Len(history[i]) + 1].from = req[c].from
        BY <1>4, <1>5, <1>12
      <4>3. CASE history[i] = << >>
        BY <4>1, <4>2, <4>3, <2>2 DEF Raced, ItemInv, StateIsLastReported
      <4>4. CASE history[i] # << >>
        <5>1. Len(history[i]) \in 1..Len(history[i])
          BY <4>4, <1>12
        <5>2. history'[i][Len(history[i]) + 1 - 1].to = Last(history[i]).to
          BY <5>1, <1>5, <1>12 DEF Last
        <5>3. req[c].from = Last(history[i]).to
          BY <4>1, <4>2, <5>1, <5>2, <1>12, <2>2 DEF Raced
        <5> QED
          BY <4>4, <5>3, <1>2 DEF ItemInv, StateIsLastReported
      <4> QED
        BY <4>3, <4>4
    <3>3. /\ item[i].state # "blocked" => item[i].block = None
          /\ item[i].state # "paused" => item[i].pause = None
      BY <3>1, <1>2 DEF ItemInv, StaleFieldsNeedARace
    <3> QED
      BY <2>2, <3>2, <3>3, <1>2, <1>3, <1>5, <1>9, MovedIsClean DEF Move
  <2> QED
    BY <2>1, <2>2
<1> QED
  BY <1>6, <1>7, <1>8, <1>10, <1>11, <1>13, <1>14 DEF ItemInv

-----------------------------------------------------------------------------
(* Transactions that fail, and claims.                                     *)

LEMMA UnlockKeeps ==
    ASSUME ItemInv, NEW p \in Procs, Unlock(p)
    PROVE  /\ pc' \in [Procs -> {"idle", "update", "commit", "sweep"}]
           /\ pc'[p] = "idle" /\ \A q \in Procs \ {p} : pc'[q] = pc[q]
           /\ lock' \in [Items -> Procs \cup {None}]
           /\ pend' \in [Items -> Row \cup {None}]
           /\ \A i \in Items :
                 /\ lock[i] = p => lock'[i] = None /\ pend'[i] = None
                 /\ lock[i] # p => lock'[i] = lock[i] /\ pend'[i] = pend[i]
                 /\ lock'[i] = None <=> pend'[i] = None
<1>1. /\ pc \in [Procs -> {"idle", "update", "commit", "sweep"}]
      /\ lock \in [Items -> Procs \cup {None}]
      /\ pend \in [Items -> Row \cup {None}]
      /\ \A i \in Items : lock[i] = None <=> pend[i] = None
  BY DEF ItemInv, TypeOK
<1> QED
  BY <1>1 DEF Unlock

\* The transactions that go on have what they had.
LEMMA OthersFit ==
    ASSUME ItemInv, NEW p \in Procs, Unlock(p),
           freed' = [freed EXCEPT ![p] = {}], found' = [found EXCEPT ![p] = {}],
           \A q \in Procs \ {p} : req'[q] = req[q],
           \A k \in Claims : claim[k] \in Claim /\ claim[k].status \in {"silent", "swept"} =>
               /\ claim'[k] \in Claim /\ claim'[k].on = claim[k].on
               /\ claim'[k].status \in {"silent", "swept"}
    PROVE  ProcsFit'
<1> SUFFICES ASSUME NEW q \in Procs
             PROVE  /\ pc'[q] \in {"update", "commit"} => q \in Calls /\ req'[q] \in Move
                    /\ pc'[q] = "commit" => lock'[req'[q].item] = q
                    /\ pc'[q] = "sweep" => q \in Sweeps
                    /\ pc'[q] # "sweep" => freed'[q] = {} /\ found'[q] = {}
                    /\ \A k \in freed'[q] \cup found'[q] :
                          claim'[k] \in Claim /\ claim'[k].status \in {"silent", "swept"}
                    /\ \A k \in freed'[q] : lock'[claim'[k].on] = q
  BY DEF ProcsFit
<1>1. /\ freed'[p] = {} /\ found'[p] = {}
      /\ \A r \in Procs \ {p} : freed'[r] = freed[r] /\ found'[r] = found[r]
      /\ \A r \in Procs : freed[r] \subseteq Claims /\ found[r] \subseteq Claims
  BY DEF ItemInv, TypeOK
<1>2. CASE q = p
  BY <1>1, <1>2, UnlockKeeps
<1>3. CASE q # p
  <2>1. \A k \in freed[q] \cup found[q] :
            /\ claim[k] \in Claim /\ claim[k].status \in {"silent", "swept"}
            /\ claim'[k] \in Claim /\ claim'[k].on = claim[k].on
            /\ claim'[k].status \in {"silent", "swept"}
    BY <1>1 DEF ItemInv, ProcsFit
  <2>2. \A k \in freed[q] : claim[k].on \in Items /\ lock[claim[k].on] = q
    BY <2>1 DEF ItemInv, ProcsFit, Claim
  <2>3. pc[q] = "commit" => req[q].item \in Items /\ lock[req[q].item] = q
    BY DEF ItemInv, ProcsFit, Move
  <2>4. \A i \in Items : lock[i] = q => lock'[i] = q
    BY <1>3, UnlockKeeps
  <2>5. pc'[q] = pc[q] /\ req'[q] = req[q] /\ freed'[q] = freed[q] /\ found'[q] = found[q]
    BY <1>1, <1>3, UnlockKeeps
  <2> QED
    BY <2>1, <2>2, <2>3, <2>4, <2>5 DEF ItemInv, ProcsFit
<1> QED
  BY <1>2, <1>3

LEMMA OthersHold ==
    ASSUME ItemInv, NEW p \in Procs, Unlock(p),
           freed' = [freed EXCEPT ![p] = {}],
           \A q \in Procs \ {p} : req'[q] = req[q],
           \A i \in Items : lock[i] # p => item'[i] = item[i] \/ lock[i] = None,
           \A k \in Claims : claim[k] \in Claim => claim'[k].on = claim[k].on
    PROVE  HeldRows'
<1> SUFFICES ASSUME NEW i \in Items, lock'[i] # None
             PROVE  \/ lock'[i] \in Calls /\ HeldByCall(lock[i], i)'
                    \/ lock'[i] \in Sweeps /\ HeldBySweep(lock[i], i)'
  BY DEF HeldRows
<1>1. /\ lock[i] # p /\ lock'[i] = lock[i] /\ pend'[i] = pend[i]
      /\ item'[i] = item[i]
  BY UnlockKeeps
<1>2. \/ lock[i] \in Calls /\ HeldByCall(lock[i], i)
      \/ lock[i] \in Sweeps /\ HeldBySweep(lock[i], i)
  BY <1>1 DEF ItemInv, HeldRows
<1>3. lock[i] \in Procs
  BY <1>2 DEF Procs
<1>4. /\ pc'[lock[i]] = pc[lock[i]] /\ req'[lock[i]] = req[lock[i]]
      /\ freed'[lock[i]] = freed[lock[i]]
  BY <1>1, <1>3, UnlockKeeps DEF ItemInv, TypeOK
<1>5. FreedOn(lock[i], i)' = FreedOn(lock[i], i)
  <2>1. \A k \in freed[lock[i]] : k \in Claims /\ claim[k] \in Claim
    BY <1>3 DEF ItemInv, TypeOK, ProcsFit
  <2> QED
    BY <2>1, <1>1, <1>4 DEF FreedOn
<1> QED
  BY <1>1, <1>2, <1>4, <1>5
     DEF HeldByCall, HeldBySweep, CountsReleased, BlockedAtLimit, AsItWasOrBlocked

LEMMA RollbackKeeps ==
    ASSUME ItemInv, NEW p \in Procs, Rollback(p)
    PROVE  ItemInv' /\ UNCHANGED item
<1>1. /\ Unlock(p) /\ req' = [req EXCEPT ![p] = None]
      /\ found' = [found EXCEPT ![p] = {}] /\ freed' = [freed EXCEPT ![p] = {}]
      /\ UNCHANGED <<item, claim, history>>
  BY DEF Rollback
<1>2. req' \in [Procs -> Move \cup {None}]
      /\ \A q \in Procs \ {p} : req'[q] = req[q]
  BY <1>1 DEF ItemInv, TypeOK
<1>3. TypeOK'
  BY <1>1, <1>2, UnlockKeeps DEF ItemInv, TypeOK
<1>4. ProcsFit'
  BY <1>1, <1>2, OthersFit
<1>5. HeldRows'
  BY <1>1, <1>2, OthersHold
<1> QED
  BY <1>1, <1>3, <1>4, <1>5, CommittedStays DEF ItemInv

\* A claim is made or its holder falls silent.
LEMMA ClaimKeeps ==
    ASSUME ItemInv, NEW k \in Claims,
           FallSilent(k) \/ \E i \in Items : TakeClaim(k, i)
    PROVE  ItemInv' /\ UNCHANGED item
<1>1. /\ UNCHANGED <<item, lock, pend, pc, req, found, freed, history>>
      /\ claim' \in [Claims -> Claim \cup {None}]
      /\ \A j \in Claims \ {k} : claim'[j] = claim[j]
      /\ claim'[k].status \in {"live", "silent"}
      /\ claim[k] # None => claim[k].status = "live" /\ claim'[k].on = claim[k].on
  <2>1. CASE FallSilent(k)
    <3>1. claim[k] \in Claim /\ claim[k].status = "live"
      BY <2>1 DEF FallSilent, Is, ItemInv, TypeOK
    <3>2. claim' = [claim EXCEPT ![k] = [claim[k] EXCEPT !.status = "silent"]]
      BY <2>1 DEF FallSilent
    <3>3. /\ [claim[k] EXCEPT !.status = "silent"] \in Claim
          /\ [claim[k] EXCEPT !.status = "silent"].status = "silent"
          /\ [claim[k] EXCEPT !.status = "silent"].on = claim[k].on
      BY <3>1 DEF Claim
    <3> QED
      BY <2>1, <3>1, <3>2, <3>3 DEF FallSilent, ItemInv, TypeOK
  <2>2. CASE \E i \in Items : TakeClaim(k, i)
    BY <2>2 DEF TakeClaim, ItemInv, TypeOK, Claim
  <2> QED
    BY <2>1, <2>2
<1>2. TypeOK'
  BY <1>1 DEF ItemInv, TypeOK
<1>3. \A p \in Procs : k \notin freed[p] \cup found[p]
  BY <1>1, NoneIsNoRecord DEF ItemInv, ProcsFit
<1>4. \A p \in Procs : freed[p] \subseteq Claims /\ found[p] \subseteq Claims
  BY DEF ItemInv, TypeOK
<1>5. ProcsFit'
  BY <1>1, <1>3, <1>4 DEF ItemInv, ProcsFit
<1>6. HeldRows'
  <2>1. \A p \in Procs, i \in Items : FreedOn(p, i)' = FreedOn(p, i)
    BY <1>1, <1>3, <1>4 DEF FreedOn
  <2> QED
    BY <1>1, <2>1
       DEF ItemInv, HeldRows, HeldByCall, HeldBySweep, CountsReleased,
           BlockedAtLimit, AsItWasOrBlocked, Procs
<1>7. EveryDeathCounted'
  <2>1. \A i \in Items : SweptOn(i)' = SweptOn(i)
    BY <1>1 DEF SweptOn, Is
  <2> QED
    BY <1>1, <2>1 DEF ItemInv, EveryDeathCounted, SweptOn
<1>8. StateIsLastReported' /\ StaleFieldsNeedARace'
  BY <1>1 DEF ItemInv, StateIsLastReported, StaleFieldsNeedARace, Raced
<1> QED
  BY <1>1, <1>2, <1>5, <1>6, <1>7, <1>8 DEF ItemInv

-----------------------------------------------------------------------------
(* Steps of a sweep.                                                       *)

LEMMA ReadSilentKeeps ==
    ASSUME ItemInv, NEW s \in Sweeps, ReadSilent(s)
    PROVE  ItemInv' /\ UNCHANGED item
<1> DEFINE silent == {k \in Claims : Is(k, "silent")}
<1>1. /\ pc[s] = "idle" /\ pc' = [pc EXCEPT ![s] = "sweep"]
      /\ found' = [found EXCEPT ![s] = silent]
      /\ UNCHANGED <<item, lock, pend, claim, req, freed, history>>
      /\ s \in Procs /\ silent \subseteq Claims
  BY DEF ReadSilent, Procs
<1>2. /\ pc'[s] = "sweep" /\ found'[s] = silent
      /\ \A p \in Procs \ {s} : pc'[p] = pc[p] /\ found'[p] = found[p]
      /\ \A k \in silent : claim[k] \in Claim /\ claim[k].status = "silent"
  BY <1>1 DEF ItemInv, TypeOK, Is
<1> HIDE DEF silent
<1>3. TypeOK'
  BY <1>1 DEF ItemInv, TypeOK
<1>4. ProcsFit'
  BY <1>1, <1>2 DEF ItemInv, ProcsFit
<1>5. HeldRows'
  <2> SUFFICES ASSUME NEW i \in Items, lock[i] # None
               PROVE  \/ lock[i] \in Calls /\ HeldByCall(lock[i], i)'
                      \/ lock[i] \in Sweeps /\ HeldBySweep(lock[i], i)'
    BY <1>1 DEF HeldRows
  <2>1. \/ lock[i] \in Calls /\ HeldByCall(lock[i], i)
        \/ lock[i] \in Sweeps /\ HeldBySweep(lock[i], i)
    BY DEF ItemInv, HeldRows
  <2>2. lock[i] # s /\ lock[i] \in Procs
    BY <2>1, <1>1 DEF HeldByCall, HeldBySweep, Procs
  <2> QED
    BY <2>1, <2>2, <1>1, <1>2 DEF HeldByCall, HeldBySweep, CountsReleased, FreedOn
<1> QED
  BY <1>1, <1>3, <1>4, <1>5, CommittedStays DEF ItemInv

LEMMA CountDeathKeeps ==
    ASSUME ItemInv, NEW s \in Sweeps, NEW k \in Claims, CountDeath(s, k)
    PROVE  ItemInv' /\ UNCHANGED item
<1>0. PICK i \in Items : i = claim[k].on
  <2>1. k \in found[s] /\ s \in Procs
    BY DEF CountDeath, Procs
  <2> QED
    BY <2>1 DEF ItemInv, ProcsFit, Claim
<1> DEFINE old == Newest(s, i)
           row == Counted(old)
           new == IF AtLimit(row) THEN Escalated(row) ELSE row
<1>1. /\ pc[s] = "sweep" /\ k \in found[s] /\ lock[i] \in {None, s}
      /\ lock' = [lock EXCEPT ![i] = s] /\ pend' = [pend EXCEPT ![i] = new]
      /\ found' = [found EXCEPT ![s] = found[s] \ {k}]
      /\ freed' = [freed EXCEPT ![s] = freed[s] \cup {k}]
      /\ UNCHANGED <<item, claim, pc, req, history>>
      /\ s \in Procs /\ s # None
  BY <1>0, ProcsAreSomeone DEF CountDeath, Procs
<1>2. /\ claim[k] \in Claim /\ claim[k].status \in {"silent", "swept"}
  BY <1>1 DEF ItemInv, ProcsFit, Claim
<1>3. old \in Row /\ item[i] \in Row
  BY <1>1, <1>2 DEF Newest, ItemInv, TypeOK
<1>4. /\ new \in Row /\ new # None /\ new.attempts = old.attempts + 1
      /\ BlockedAtLimit(new) /\ AsItWasOrBlocked(new, old)
  <2> HIDE DEF old
  <2> QED
    BY <1>3, DeathType
<1>5. old = IF lock[i] = s THEN pend[i] ELSE item[i]
  BY DEF Newest
<1> HIDE DEF old, row, new
<1>6. /\ lock'[i] = s /\ pend'[i] = new
      /\ \A j \in Items \ {i} : lock'[j] = lock[j] /\ pend'[j] = pend[j]
      /\ found'[s] = found[s] \ {k} /\ freed'[s] = freed[s] \cup {k}
      /\ \A p \in Procs \ {s} : found'[p] = found[p] /\ freed'[p] = freed[p]
  BY <1>1, <1>2 DEF ItemInv, TypeOK
<1>7. TypeOK'
  <2>1. /\ lock' \in [Items -> Procs \cup {None}] /\ pend' \in [Items -> Row \cup {None}]
        /\ \A j \in Items : lock'[j] = None <=> pend'[j] = None
    BY <1>1, <1>2, <1>4, <1>6 DEF ItemInv, TypeOK
  <2>2. /\ found' \in [Procs -> SUBSET Claims] /\ freed' \in [Procs -> SUBSET Claims]
    BY <1>1 DEF ItemInv, TypeOK
  <2> QED
    BY <1>1, <2>1, <2>2 DEF ItemInv, TypeOK
<1>8. \A p \in Procs, j \in Items : lock[j] = p => lock'[j] = p
  BY <1>1, <1>2, <1>6, ProcsAreSomeone
<1>9. ProcsFit'
  <2> SUFFICES ASSUME NEW p \in Procs
               PROVE  /\ pc[p] \in {"update", "commit"} => p \in Calls /\ req[p] \in Move
                      /\ pc[p] = "commit" => lock'[req[p].item] = p
                      /\ pc[p] = "sweep" => p \in Sweeps
                      /\ pc[p] # "sweep" => freed'[p] = {} /\ found'[p] = {}
                      /\ \A c \in freed'[p] \cup found'[p] :
                            claim[c] \in Claim /\ claim[c].status \in {"silent", "swept"}
                      /\ \A c \in freed'[p] : lock'[claim[c].on] = p
    BY <1>1 DEF ProcsFit
  <2>1. /\ pc[p] = "commit" => req[p].item \in Items /\ lock[req[p].item] = p
        /\ \A c \in freed[p] : claim[c].on \in Items /\ lock[claim[c].on] = p
    BY DEF ItemInv, ProcsFit, Move, Claim
  <2>2. CASE p = s
    BY <2>1, <2>2, <1>0, <1>1, <1>2, <1>6, <1>8 DEF ItemInv, ProcsFit
  <2>3. CASE p # s
    BY <2>1, <2>3, <1>6, <1>8 DEF ItemInv, ProcsFit
  <2> QED
    BY <2>2, <2>3
<1>10. /\ old.attempts >= item[i].attempts + Cardinality(FreedOn(s, i))
       /\ AsItWasOrBlocked(old, item[i])
  <2>1. CASE lock[i] = s
    <3>1. HeldBySweep(s, i)
      BY <2>1, <1>1, <1>2, ItemAssumption DEF ItemInv, HeldRows
    <3> QED
      BY <2>1, <3>1, <1>5 DEF HeldBySweep, CountsReleased
  <2>2. CASE lock[i] = None
    <3>1. FreedOn(s, i) = {}
      BY <2>2, <1>1 DEF FreedOn, ItemInv, ProcsFit
    <3>2. old = item[i]
      BY <2>2, <1>1, <1>5
    <3> QED
      BY <3>1, <3>2, <1>3, FS_EmptySet DEF Row, AsItWasOrBlocked
  <2> QED
    BY <2>1, <2>2, <1>1
<1>11. HeldBySweep(s, i)'
  <2>1. FreedOn(s, i)' = FreedOn(s, i) \cup {k}
    BY <1>0, <1>1, <1>6 DEF FreedOn
  <2>2. Cardinality(FreedOn(s, i)') <= Cardinality(FreedOn(s, i)) + 1
        /\ Cardinality(FreedOn(s, i)') \in Nat
    <3>1. /\ IsFiniteSet(FreedOn(s, i)) /\ Cardinality(FreedOn(s, i)) \in Nat
      BY <1>1, <1>2, SweptFinite
    <3> DEFINE F == FreedOn(s, i)
    <3> HIDE DEF F
    <3>2. /\ Cardinality(F \cup {k}) \in {Cardinality(F), Cardinality(F) + 1}
      BY <3>1, FS_AddElement DEF F
    <3>3. FreedOn(s, i)' = F \cup {k}
      BY <2>1 DEF F
    <3> QED
      BY <3>1, <3>2, <3>3 DEF F
  <2>3. /\ old.attempts \in Nat /\ item[i].attempts \in Nat
        /\ Cardinality(FreedOn(s, i)) \in Nat
    BY <1>1, <1>2, <1>3, SweptFinite DEF Row
  <2>4. pend'[i].attempts >= item'[i].attempts + Cardinality(FreedOn(s, i)')
    BY <2>2, <2>3, <1>1, <1>4, <1>6, <1>10
  <2>5. CountsReleased(s, i)'
    BY <2>4 DEF CountsReleased, FreedOn
  <2>6. AsItWasOrBlocked(new, item[i])
    BY <1>4, <1>10 DEF AsItWasOrBlocked
  <2>7. BlockedAtLimit(pend[i])' /\ AsItWasOrBlocked(pend[i], item[i])'
    BY <2>6, <1>1, <1>4, <1>6 DEF BlockedAtLimit, AsItWasOrBlocked
  <2> QED
    BY <2>5, <2>7, <1>1 DEF HeldBySweep
<1>12. HeldRows'
  <2> SUFFICES ASSUME NEW j \in Items, lock'[j] # None
               PROVE  \/ lock'[j] \in Calls /\ HeldByCall(lock[j], j)'
                      \/ lock'[j] \in Sweeps /\ HeldBySweep(lock[j], j)'
    BY DEF HeldRows
  <2>1. CASE j = i
    BY <2>1, <1>6, <1>11
       DEF HeldBySweep, CountsReleased, BlockedAtLimit, AsItWasOrBlocked, FreedOn
  <2>2. CASE j # i
    <3>1. lock'[j] = lock[j] /\ pend'[j] = pend[j]
      BY <2>2, <1>6
    <3>2. \/ lock[j] \in Calls /\ HeldByCall(lock[j], j)
          \/ lock[j] \in Sweeps /\ HeldBySweep(lock[j], j)
      BY <3>1 DEF ItemInv, HeldRows
    <3>3. lock[j] \in Sweeps => FreedOn(lock[j], j)' = FreedOn(lock[j], j)
      BY <2>2, <3>1, <1>0, <1>1, <1>6 DEF FreedOn, Procs
    <3> QED
      BY <3>1, <3>2, <3>3, <1>1 DEF HeldByCall, HeldBySweep, CountsReleased
  <2> QED
    BY <2>1, <2>2
<1> QED
  BY <1>1, <1>7, <1>9, <1>12, CommittedStays DEF ItemInv

\* What a pass commits of an item it counted a death on.
LEMMA CommitSweepRow ==
    ASSUME ItemInv, NEW s \in Sweeps, CommitSweep(s), NEW i \in Items
    PROVE  /\ item'[i] \in Row
           /\ lock[i] # s => item'[i] = item[i] /\ history'[i] = history[i]
           /\ lock[i] = s => item'[i] = pend[i] /\ HeldBySweep(s, i)
           /\ lock[i] = s /\ pend[i].state = item[i].state => history'[i] = history[i]
           /\ lock[i] = s /\ pend[i].state # item[i].state =>
                 history'[i] = Append(history[i], [by |-> s, from |-> item[i].state,
                                                   to |-> "blocked"])
<1>1. /\ item' = [j \in Items |-> Newest(s, j)]
      /\ history' = [j \in Items |->
            IF Blocks(s, j)
            THEN Append(history[j], [by |-> s, from |-> item[j].state,
                                     to |-> "blocked"])
            ELSE history[j]]
      /\ s \in Procs /\ s # None
  BY ProcsAreSomeone DEF CommitSweep, Procs
<1>2. lock[i] = s => pend[i] \in Row /\ HeldBySweep(s, i)
  BY <1>1, ItemAssumption DEF ItemInv, TypeOK, HeldRows
<1>3. item'[i] = IF lock[i] = s THEN pend[i] ELSE item[i]
  BY <1>1 DEF Newest
<1>4. item'[i] \in Row
  BY <1>2, <1>3 DEF ItemInv, TypeOK
<1>5. lock[i] = s => (Blocks(s, i) <=> pend[i].state # item[i].state)
  BY <1>2 DEF Blocks, HeldBySweep, AsItWasOrBlocked
<1>6. lock[i] # s => ~Blocks(s, i)
  BY DEF Blocks
<1> QED
  BY <1>1, <1>2, <1>3, <1>4, <1>5, <1>6

LEMMA CommitSweepKeeps ==
    ASSUME ItemInv, NEW s \in Sweeps, CommitSweep(s)
    PROVE  ItemInv'
<1> DEFINE e(i) == [by |-> s, from |-> item[i].state, to |-> "blocked"]
<1>1. /\ pc[s] = "sweep" /\ found[s] = {} /\ Unlock(s)
      /\ item' = [i \in Items |-> Newest(s, i)]
      /\ claim' = [k \in Claims |->
            IF k \in freed[s] THEN [claim[k] EXCEPT !.status = "swept"] ELSE claim[k]]
      /\ freed' = [freed EXCEPT ![s] = {}]
      /\ history' = [i \in Items |-> IF Blocks(s, i) THEN Append(history[i], e(i))
                                     ELSE history[i]]
      /\ UNCHANGED <<req, found>>
      /\ s \in Procs /\ s # None
  BY ProcsAreSomeone DEF CommitSweep, Procs
<1>2. /\ freed[s] \subseteq Claims
      /\ \A k \in freed[s] : claim[k] \in Claim /\ lock[claim[k].on] = s
  BY <1>1 DEF ItemInv, TypeOK, ProcsFit
<1>3. \A k \in Claims :
          /\ k \in freed[s] => /\ claim'[k] \in Claim /\ claim'[k].on = claim[k].on
                               /\ claim'[k].status = "swept"
          /\ k \notin freed[s] => claim'[k] = claim[k]
  <2> SUFFICES ASSUME NEW k \in Claims, k \in freed[s]
               PROVE  /\ claim'[k] \in Claim /\ claim'[k].on = claim[k].on
                      /\ claim'[k].status = "swept"
    BY <1>1
  <2>1. claim'[k] = [claim[k] EXCEPT !.status = "swept"] /\ claim[k] \in Claim
    BY <1>1, <1>2
  <2> QED
    BY <2>1 DEF Claim
<1>4. \A i \in Items : /\ item[i] \in Row /\ e(i) \in Report /\ history[i] \in Seq(Report)
                        /\ e(i).from = item[i].state /\ e(i).to = "blocked"
  BY <1>1 DEF ItemInv, TypeOK, Row, Report, States
<1> HIDE DEF e
<1>5. TypeOK'
  <2>1. item' \in [Items -> Row]
    BY <1>1, CommitSweepRow
  <2>2. claim' \in [Claims -> Claim \cup {None}]
    BY <1>1, <1>3 DEF ItemInv, TypeOK
  <2>3. \A i \in Items : Append(history[i], e(i)) \in Seq(Report)
    BY <1>4, AppendReport
  <2>4. history' \in [Items -> Seq(Report)]
    BY <1>1, <1>4, <2>3
  <2>5. freed' \in [Procs -> SUBSET Claims]
    BY <1>1 DEF ItemInv, TypeOK
  <2> QED
    BY <1>1, <2>1, <2>2, <2>4, <2>5, UnlockKeeps DEF ItemInv, TypeOK
<1>6. found' = [found EXCEPT ![s] = {}]
  BY <1>1 DEF ItemInv, TypeOK
<1>7. ProcsFit'
  <2>1. \A k \in Claims : claim[k] \in Claim /\ claim[k].status \in {"silent", "swept"} =>
            /\ claim'[k] \in Claim /\ claim'[k].on = claim[k].on
            /\ claim'[k].status \in {"silent", "swept"}
    BY <1>3
  <2> QED
    BY <1>1, <1>6, <2>1, OthersFit
<1>8. HeldRows'
  <2>1. \A i \in Items : lock[i] # s => item'[i] = item[i]
    BY CommitSweepRow
  <2>2. \A k \in Claims : claim[k] \in Claim => claim'[k].on = claim[k].on
    BY <1>3
  <2> QED
    BY <1>1, <2>1, <2>2, OthersHold
<1>9. EveryDeathCounted'
  <2> SUFFICES ASSUME NEW i \in Items
               PROVE  item'[i].attempts >= Cardinality(SweptOn(i)')
    BY DEF EveryDeathCounted, SweptOn
  <2> DEFINE A == SweptOn(i)
             B == FreedOn(s, i)
  <2>1. /\ IsFiniteSet(A) /\ Cardinality(A) \in Nat
        /\ IsFiniteSet(B) /\ Cardinality(B) \in Nat
    BY <1>1, SweptFinite
  <2>2. SweptOn(i)' \in SUBSET (A \cup B)
    BY <1>2, <1>3 DEF SweptOn, FreedOn, Is
  <2>3. item[i].attempts >= Cardinality(A) /\ item[i].attempts \in Nat
        /\ item'[i].attempts \in Nat
    BY <1>4, CommitSweepRow DEF ItemInv, EveryDeathCounted, SweptOn, Row
  <2>4. item'[i].attempts >= item[i].attempts + Cardinality(B)
    <3>1. CASE lock[i] = s
      BY <3>1, CommitSweepRow DEF HeldBySweep, CountsReleased
    <3>2. CASE lock[i] # s
      <4>1. B = {}
        BY <3>2, <1>2 DEF FreedOn
      <4> HIDE DEF B
      <4> QED
        <5>1. item'[i] = item[i]
          BY <3>2, CommitSweepRow
        <5>2. Cardinality(B) = 0
          BY <4>1, FS_EmptySet
        <5> QED
          BY <5>1, <5>2, <2>3
    <3> QED
      BY <3>1, <3>2
  <2> HIDE DEF A, B
  <2>5. /\ IsFiniteSet(A \cup B) /\ Cardinality(A \cup B) \in Nat
        /\ Cardinality(A \cap B) \in Nat
    <3>1. IsFiniteSet(A \cup B)
      BY <2>1, FS_Union
    <3>2. IsFiniteSet(A \cap B)
      BY <2>1, FS_Subset
    <3> QED
      BY <3>1, <3>2, FS_CardinalityType
  <2>6. Cardinality(A \cup B) = Cardinality(A) + Cardinality(B) - Cardinality(A \cap B)
    BY <2>1, FS_Union
  <2>7. Cardinality(SweptOn(i)') <= Cardinality(A \cup B)
        /\ Cardinality(SweptOn(i)') \in Nat
    BY <2>2, <2>5, FS_Subset, FS_CardinalityType
  <2> QED
    BY <2>1, <2>3, <2>4, <2>5, <2>6, <2>7
<1>10. \A i \in Items : lock[i] = s /\ pend[i].state # item[i].state =>
           /\ history'[i] = Append(history[i], e(i))
           /\ item'[i].state = "blocked" /\ item[i].state # "blocked"
           /\ item'[i].pause = IF item[i].state = "paused" THEN None ELSE item[i].pause
  BY CommitSweepRow DEF HeldBySweep, AsItWasOrBlocked, e
<1>11. \A i \in Items : lock[i] = s /\ pend[i].state = item[i].state =>
           /\ history'[i] = history[i] /\ item'[i].state = item[i].state
           /\ item'[i].block = item[i].block /\ item'[i].pause = item[i].pause
  <2> SUFFICES ASSUME NEW i \in Items, lock[i] = s, pend[i].state = item[i].state
               PROVE  /\ history'[i] = history[i] /\ item'[i].state = item[i].state
                      /\ item'[i].block = item[i].block
                      /\ item'[i].pause = item[i].pause
    OBVIOUS
  <2>1. item'[i] = pend[i] /\ history'[i] = history[i] /\ HeldBySweep(s, i)
    BY CommitSweepRow
  <2> QED
    BY <2>1 DEF HeldBySweep, AsItWasOrBlocked
<1>12. \A i \in Items : lock[i] # s => item'[i] = item[i] /\ history'[i] = history[i]
  BY CommitSweepRow
<1>13. \A i \in Items :
           /\ Append(history[i], e(i)) # << >>
           /\ Len(Append(history[i], e(i))) = Len(history[i]) + 1
           /\ Len(history[i]) \in Nat
           /\ Append(history[i], e(i))[Len(history[i]) + 1] = e(i)
           /\ \A k \in 1..Len(history[i]) : Append(history[i], e(i))[k] = history[i][k]
  BY <1>4, AppendReport
<1>14. StateIsLastReported'
  <2> SUFFICES ASSUME NEW i \in Items
               PROVE  item'[i].state = IF history'[i] = << >> THEN "todo"
                                       ELSE Last(history'[i]).to
    BY DEF StateIsLastReported, Last
  <2>1. item[i].state = IF history[i] = << >> THEN "todo" ELSE Last(history[i]).to
    BY DEF ItemInv, StateIsLastReported
  <2>2. CASE lock[i] = s /\ pend[i].state # item[i].state
    BY <2>2, <1>4, <1>10, <1>13 DEF Last
  <2>3. CASE ~(lock[i] = s /\ pend[i].state # item[i].state)
    BY <2>1, <2>3, <1>11, <1>12
  <2> QED
    BY <2>2, <2>3
<1>15. StaleFieldsNeedARace'
  <2> SUFFICES ASSUME NEW i \in Items, ~Raced(i)'
               PROVE  /\ item'[i].state # "blocked" => item'[i].block = None
                      /\ item'[i].state # "paused" => item'[i].pause = None
    BY DEF StaleFieldsNeedARace
  <2>1. ~Raced(i)
    <3>1. CASE history'[i] = history[i]
      BY <3>1 DEF Raced
    <3>2. CASE history'[i] = Append(history[i], e(i))
      <4> SUFFICES ASSUME NEW k \in 1..Len(history[i])
                   PROVE  history[i][k].from =
                              (IF k = 1 THEN "todo" ELSE history[i][k - 1].to)
        BY DEF Raced
      <4>1. /\ k \in 1..Len(history'[i])
            /\ history'[i][k] = history[i][k]
            /\ k # 1 => history'[i][k - 1] = history[i][k - 1]
        BY <3>2, <1>13
      <4> QED
        BY <4>1 DEF Raced
    <3> QED
      BY <3>1, <3>2, <1>10, <1>11, <1>12
  <2>2. /\ item[i].state # "blocked" => item[i].block = None
        /\ item[i].state # "paused" => item[i].pause = None
    BY <2>1 DEF ItemInv, StaleFieldsNeedARace
  <2>3. CASE lock[i] = s /\ pend[i].state # item[i].state
    <3>1. HeldBySweep(s, i) /\ item'[i] = pend[i]
      BY <2>3, CommitSweepRow
    <3> QED
      BY <2>2, <2>3, <3>1, <1>10 DEF HeldBySweep, AsItWasOrBlocked
  <2>4. CASE ~(lock[i] = s /\ pend[i].state # item[i].state)
    BY <2>2, <2>4, <1>11, <1>12
  <2> QED
    BY <2>3, <2>4
<1> QED
  BY <1>5, <1>7, <1>8, <1>9, <1>14, <1>15 DEF ItemInv

-----------------------------------------------------------------------------
LEMMA ItemsStep ==
    ASSUME ItemInv, [Next]_vars
    PROVE  ItemInv'
<1>1. CASE Next
  <2>1. CASE \E c \in Calls : CallStep(c)
    BY <2>1, EvaluateKeeps, UpdateKeeps, CommitMoveKeeps DEF CallStep
  <2>2. CASE \E s \in Sweeps : SweepStep(s)
    BY <2>2, ReadSilentKeeps, CountDeathKeeps, CommitSweepKeeps, RollbackKeeps
       DEF SweepStep, RefuseProject, Procs
  <2>3. CASE \E k \in Claims : FallSilent(k) \/ \E i \in Items : TakeClaim(k, i)
    BY <2>3, ClaimKeeps
  <2>4. CASE \E p \in Procs : Rollback(p)
    BY <2>4, RollbackKeeps
  <2> QED
    BY <1>1, <2>1, <2>2, <2>3, <2>4 DEF Next, Unfailing
<1>2. CASE UNCHANGED vars
  BY <1>2 DEF vars, ItemInv, TypeOK, ProcsFit, HeldRows, HeldByCall, HeldBySweep,
              CountsReleased, FreedOn, StateIsLastReported, EveryDeathCounted,
              StaleFieldsNeedARace, Raced, Is
<1> QED
  BY <1>1, <1>2

THEOREM ItemInvariance == Spec => []ItemInv
BY ItemsInit, ItemsStep, PTL DEF Spec

THEOREM ItemsAreTyped == Spec => []TypeOK
<1>1. ItemInv => TypeOK
  BY DEF ItemInv
<1> QED
  BY <1>1, ItemInvariance, PTL

\* An item is in the state its last report ends in.
THEOREM LedgerTellsStates == Spec => []StateIsLastReported
<1>1. ItemInv => StateIsLastReported
  BY DEF ItemInv
<1> QED
  BY <1>1, ItemInvariance, PTL

\* An item has as many resume attempts as claims were swept from under it.
THEOREM DeathsAreCounted == Spec => []EveryDeathCounted
<1>1. ItemInv => EveryDeathCounted
  BY DEF ItemInv
<1> QED
  BY <1>1, ItemInvariance, PTL

\* Fields of a state left behind mean that two moves raced, and it shows.
THEOREM RacesShow == Spec => []StaleFieldsNeedARace
<1>1. ItemInv => StaleFieldsNeedARace
  BY DEF ItemInv
<1> QED
  BY <1>1, ItemInvariance, PTL

\* A pass that brings an item to the limit leaves it blocked.
THEOREM LimitBlocks == Spec => EscalatedOnTheSamePass
<1>1. ASSUME ItemInv, [Next]_vars
      PROVE  [\A i \in Items :
                 item'[i].attempts > item[i].attempts /\ item'[i].attempts >= Limit
                     => item'[i].state = "blocked"]_vars
  <2> SUFFICES ASSUME NEW i \in Items, item'[i].attempts > item[i].attempts,
                      item'[i].attempts >= Limit
               PROVE  item'[i].state = "blocked"
    OBVIOUS
  <2>1. item[i].attempts \in Nat
    BY <1>1 DEF ItemInv, TypeOK, Row
  <2>2. item'[i].attempts # item[i].attempts
    BY <2>1
  <2>3. PICK s \in Sweeps : CommitSweep(s)
    BY <1>1, <2>2, CommitMoveKeeps, ReadSilentKeeps, CountDeathKeeps,
       ClaimKeeps, RollbackKeeps
       DEF Next, Unfailing, CallStep, Evaluate, UpdateItem, SweepStep, Procs, vars, RefuseProject
  <2>4. lock[i] = s /\ item'[i] = pend[i] /\ HeldBySweep(s, i)
    BY <1>1, <2>2, <2>3, CommitSweepRow
  <2> QED
    BY <2>4 DEF HeldBySweep, BlockedAtLimit
<1> QED
  BY <1>1, ItemInvariance, PTL DEF Spec, EscalatedOnTheSamePass
=============================================================================
