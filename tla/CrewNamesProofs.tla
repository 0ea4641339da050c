-------------------------- MODULE CrewNamesProofs ---------------------------
(***************************************************************************)
(* Who holds a crew name, for any number of sessions, names and calls.     *)
(***************************************************************************)
EXTENDS CrewNames, TLAPS

DrawOps == {"register", "claim", "get_crew_name"}

\* A call under way is about a session, and its step fits what it was asked.
CallsAreTyped ==
    \A t \in Txns : pc[t] # "idle" =>
        /\ req[t].session \in Sessions /\ req[t].op \in Ops
        /\ pc[t] = "name" => req[t].op \in {"register", "claim"}
        /\ pc[t] = "draw" => req[t].op \in DrawOps
        /\ pc[t] \in {"end", "held", "count", "free"} =>
              req[t].op \in {"release", "sweep"} /\ req[t].row \in Ids
        /\ pc[t] \in {"count", "free"} => req[t].name \in Names
        /\ req[t].op \notin {"register", "get_crew_name"} => req[t].row \in Ids

\* A row nobody has written stands as it was committed.
FreeRows == \A n \in Names : lock[n] = None => pend[n] = held[n]

Drawing(t, n) ==
    /\ held[n] = None /\ pend[n] = req[t].session
    /\ req[t].op \in DrawOps

Returning(t, n) ==
    /\ held[n] = req[t].session /\ pend[n] = None
    /\ req[t].op \in {"release", "sweep"}

\* Who has a row locked is about to commit, has drawn the name for its session
\* or returns it from there, and has no other row locked.
LockedRows ==
    \A t \in Txns, n \in Names : lock[n] = t =>
        /\ pc[t] = "commit"
        /\ Drawing(t, n) \/ Returning(t, n)
        /\ \A m \in Names : lock[m] = t => m = n

\* Only the sweep and an operator work beside another call of the same session.
OneCall ==
    OneCallAtATime =>
        \A t, u \in Txns :
            /\ req[t].session # None /\ req[t].session = req[u].session
            /\ req[t].op \in OwnOps /\ req[u].op \in OwnOps
            => t = u

\* A session that draws a name, or has drawn one, has none but what an operator
\* drew for it.
DrawsForTheUnnamed ==
    OneCallAtATime =>
        \A t \in Txns :
            /\ req[t].op \in OwnOps
            /\ pc[t] = "draw" \/ \E n \in Names : lock[n] = t /\ Drawing(t, n)
            => \A m \in Names \ extra : held[m] # req[t].session

NamesInv ==
    /\ TypeOK /\ CallsAreTyped /\ FreeRows /\ LockedRows
    /\ OneCall /\ DrawsForTheUnnamed /\ OneNamePerSession

LEMMA NoRequestType == NoRequest \in Request
BY DEF NoRequest, Request

LEMMA NamesInit == Init => NamesInv
BY NamesAssumption, NoRequestType
   DEF Init, NamesInv, TypeOK, CallsAreTyped, FreeRows, LockedRows, OneCall,
       DrawsForTheUnnamed, OneNamePerSession, Claim, NoRequest

-----------------------------------------------------------------------------
(* The steps that write no name.                                           *)

\* Nothing that a name's row says, or that its writer is asked for, changes.
LEMMA NamesStay ==
    ASSUME NamesInv, NEW t \in Txns, TypeOK', UNCHANGED <<held, lock, pend, extra>>,
           \A u \in Txns \ {t} : pc'[u] = pc[u] /\ req'[u] = req[u],
           pc[t] # "commit", pc'[t] = "draw" => req'[t].op \notin OwnOps
    PROVE  /\ FreeRows' /\ LockedRows' /\ DrawsForTheUnnamed'
           /\ OneNamePerSession'
<1>1. \A n \in Names : lock[n] # t
  BY DEF NamesInv, LockedRows
<1>2. FreeRows' /\ OneNamePerSession'
  BY DEF NamesInv, FreeRows, OneNamePerSession
<1>3. \A u \in Txns, n \in Names : lock'[n] = u =>
          u # t /\ Drawing(u, n)' = Drawing(u, n) /\ Returning(u, n)' = Returning(u, n)
  BY <1>1 DEF Drawing, Returning
<1>4. LockedRows'
  BY <1>3 DEF NamesInv, LockedRows
<1>5. DrawsForTheUnnamed'
  BY <1>3 DEF NamesInv, DrawsForTheUnnamed
<1> QED
  BY <1>2, <1>4, <1>5

LEMMA BeginKeeps ==
    ASSUME NamesInv, NEW t \in Txns, NEW op \in Ops, NEW s \in Sessions,
           NEW i \in Ids \cup {None}, NEW next \in {"name", "draw", "end"},
           Begin(t, op, next, s, i),
           next = "name" => op \in {"register", "claim"},
           next = "draw" => op = "get_crew_name",
           next = "end" => op \in {"release", "sweep"},
           op \notin {"register", "get_crew_name"} => i \in Ids
    PROVE  NamesInv'
<1> DEFINE r == [NoRequest EXCEPT !.op = op, !.session = s, !.row = i]
<1>1. r \in Request /\ r.op = op /\ r.session = s /\ r.row = i
  BY DEF NoRequest, Request
<1>2. /\ pc[t] = "idle" /\ pc'[t] = next /\ req'[t] = r
      /\ \A u \in Txns \ {t} : pc'[u] = pc[u] /\ req'[u] = req[u]
      /\ UNCHANGED <<claims, held, lock, pend, extra>>
  BY DEF Begin, NamesInv, TypeOK
<1>3. TypeOK'
  <2> HIDE DEF r
  <2>1. req' = [req EXCEPT ![t] = r] /\ pc' = [pc EXCEPT ![t] = next]
    BY DEF Begin, r
  <2> QED
    BY <1>1, <1>2, <2>1 DEF NamesInv, TypeOK
<1> HIDE DEF r
<1>4. CallsAreTyped'
  BY <1>1, <1>2 DEF NamesInv, CallsAreTyped, DrawOps
<1>5. OneCall'
  <2> SUFFICES ASSUME OneCallAtATime, NEW u \in Txns, NEW v \in Txns,
                      req'[u].session # None, req'[u].session = req'[v].session,
                      req'[u].op \in OwnOps, req'[v].op \in OwnOps
               PROVE  u = v
    BY DEF OneCall
  <2>1. op \in OwnOps =>
            \A w \in Txns : req[w].session # s \/ req[w].op \notin OwnOps
    BY DEF Begin
  <2>2. CASE u # t /\ v # t
    BY <2>2, <1>2 DEF NamesInv, OneCall
  <2>3. CASE u = t /\ v # t
    BY <2>3, <2>1, <1>1, <1>2
  <2>4. CASE v = t /\ u # t
    BY <2>4, <2>1, <1>1, <1>2
  <2> QED
    BY <2>2, <2>3, <2>4
<1>6. pc'[t] = "draw" => req'[t].op \notin OwnOps
  BY <1>1, <1>2 DEF OwnOps
<1> QED
  BY <1>2, <1>3, <1>4, <1>5, <1>6, NamesStay DEF NamesInv

\* A call goes on to another step; it may have chosen a name.
GoesOn(t, next) ==
    /\ GoTo(t, next)
    /\ UNCHANGED <<claims, held, lock, pend, extra>>
    /\ \/ UNCHANGED req
       \/ \E n \in Names : req' = [req EXCEPT ![t].name = n]

LEMMA GoesOnKeeps ==
    ASSUME NamesInv, NEW t \in Txns,
           NEW next \in {"draw", "held", "count", "free", "commit"},
           GoesOn(t, next), pc[t] \notin {"idle", "commit"},
           next = "draw" => pc[t] = "name" /\ HasNoName(t),
           next \in {"held", "count", "free"} => pc[t] \in {"end", "held", "count"},
           next \in {"count", "free"} => req'[t].name \in Names
    PROVE  NamesInv'
<1>1. /\ pc'[t] = next
      /\ \A u \in Txns \ {t} : pc'[u] = pc[u] /\ req'[u] = req[u]
      /\ req'[t].op = req[t].op /\ req'[t].session = req[t].session
      /\ req'[t].row = req[t].row
      /\ UNCHANGED <<claims, held, lock, pend, extra>>
  BY DEF GoesOn, GoTo, NamesInv, TypeOK, Request
<1>2. TypeOK'
  BY DEF GoesOn, GoTo, NamesInv, TypeOK, Request
<1>3. CallsAreTyped'
  BY <1>1 DEF NamesInv, CallsAreTyped, DrawOps
<1>4. OneCall'
  BY <1>1 DEF NamesInv, OneCall
<1>5. CASE next # "draw"
  BY <1>1, <1>2, <1>3, <1>4, <1>5, NamesStay DEF NamesInv
<1>6. CASE next = "draw"
  <2>1. \A n \in Names : lock[n] # t
    BY <1>6 DEF NamesInv, LockedRows
  <2>2. \A m \in Names : held[m] # req[t].session
    BY <1>6, <2>1 DEF HasNoName, NamesOf, View
  <2>3. FreeRows' /\ OneNamePerSession'
    BY <1>1 DEF NamesInv, FreeRows, OneNamePerSession
  <2>4. LockedRows'
    BY <1>1, <2>1 DEF NamesInv, LockedRows, Drawing, Returning
  <2>5. DrawsForTheUnnamed'
    BY <1>1, <2>2 DEF NamesInv, DrawsForTheUnnamed, Drawing
  <2> QED
    BY <1>2, <1>3, <1>4, <2>3, <2>4, <2>5 DEF NamesInv
<1> QED
  BY <1>5, <1>6

-----------------------------------------------------------------------------
(* The steps that write a name.                                            *)

LEMMA DrawKeeps ==
    ASSUME NamesInv, NEW t \in Txns, NEW n \in Names, DrawName(t, n)
    PROVE  NamesInv'
<1>1. /\ pc[t] = "draw" /\ lock[n] = None /\ held[n] = None
      /\ pc'[t] = "commit"
      /\ req'[t].op = req[t].op /\ req'[t].session = req[t].session
      /\ req'[t].row = req[t].row
      /\ \A u \in Txns \ {t} : pc'[u] = pc[u] /\ req'[u] = req[u]
      /\ lock'[n] = t /\ pend'[n] = req[t].session
      /\ \A m \in Names \ {n} : lock'[m] = lock[m] /\ pend'[m] = pend[m]
      /\ UNCHANGED <<claims, held, extra>>
  BY DEF DrawName, Available, GoTo, NamesInv, TypeOK, Request
<1>2. /\ req[t].session \in Sessions
      /\ req[t].op \in DrawOps
      /\ \A m \in Names : lock[m] # t
      /\ t # None
  BY <1>1, NamesAssumption DEF NamesInv, CallsAreTyped, LockedRows
<1>3. TypeOK'
  BY <1>2 DEF DrawName, GoTo, NamesInv, TypeOK, Request
<1>4. CallsAreTyped'
  BY <1>1 DEF NamesInv, CallsAreTyped
<1>5. FreeRows' /\ OneNamePerSession'
  BY <1>1, <1>2 DEF NamesInv, FreeRows, OneNamePerSession
<1>6. LockedRows'
  <2> SUFFICES ASSUME NEW u \in Txns, NEW m \in Names, lock'[m] = u
               PROVE  /\ pc'[u] = "commit"
                      /\ Drawing(u, m)' \/ Returning(u, m)'
                      /\ \A k \in Names : lock'[k] = u => k = m
    BY DEF LockedRows
  <2>1. CASE m = n
    BY <2>1, <1>1, <1>2 DEF Drawing
  <2>2. CASE m # n
    BY <2>2, <1>1, <1>2 DEF NamesInv, LockedRows, Drawing, Returning
  <2> QED
    BY <2>1, <2>2
<1>7. OneCall'
  BY <1>1 DEF NamesInv, OneCall
<1>8. DrawsForTheUnnamed'
  BY <1>1, <1>2 DEF NamesInv, DrawsForTheUnnamed, Drawing
<1> QED
  BY <1>3, <1>4, <1>5, <1>6, <1>7, <1>8 DEF NamesInv

LEMMA FreeKeeps ==
    ASSUME NamesInv, NEW t \in Txns, FreeName(t)
    PROVE  NamesInv'
<1> DEFINE n == req[t].name
<1>1. /\ pc[t] = "free" /\ n \in Names /\ req[t].session \in Sessions
      /\ req[t].op \in {"release", "sweep"}
      /\ \A m \in Names : lock[m] # t
      /\ t # None
  BY NamesAssumption DEF FreeName, NamesInv, CallsAreTyped, LockedRows
<1>2. /\ lock[n] = None /\ pend[n] = held[n]
      /\ pc'[t] = "commit"
      /\ \A u \in Txns \ {t} : pc'[u] = pc[u]
      /\ UNCHANGED <<claims, held, extra, req>>
  BY <1>1 DEF FreeName, GoTo, NamesInv, TypeOK, FreeRows
<1>3. TypeOK'
  BY <1>1 DEF FreeName, GoTo, NamesInv, TypeOK
<1>4. CallsAreTyped' /\ OneCall'
  <2>1. CallsAreTyped'
    BY <1>1, <1>2 DEF NamesInv, CallsAreTyped
  <2>2. OneCall'
    BY <1>2 DEF NamesInv, OneCall
  <2> QED
    BY <2>1, <2>2
<1>5. CASE pend[n] # req[t].session
  <2>1. UNCHANGED <<lock, pend>>
    BY <1>5 DEF FreeName
  <2>2. FreeRows' /\ OneNamePerSession' /\ LockedRows' /\ DrawsForTheUnnamed'
    BY <1>1, <1>2, <2>1
       DEF NamesInv, FreeRows, OneNamePerSession, LockedRows,
           DrawsForTheUnnamed, Drawing, Returning
  <2> QED
    BY <1>3, <1>4, <2>2 DEF NamesInv
<1>6. CASE pend[n] = req[t].session
  <2>1. /\ lock'[n] = t /\ pend'[n] = None
        /\ \A m \in Names \ {n} : lock'[m] = lock[m] /\ pend'[m] = pend[m]
    BY <1>1, <1>6 DEF FreeName, NamesInv, TypeOK
  <2>2. FreeRows' /\ OneNamePerSession'
    BY <1>1, <1>2, <2>1 DEF NamesInv, FreeRows, OneNamePerSession
  <2>3. LockedRows'
    <3> SUFFICES ASSUME NEW u \in Txns, NEW m \in Names, lock'[m] = u
                 PROVE  /\ pc'[u] = "commit"
                        /\ Drawing(u, m)' \/ Returning(u, m)'
                        /\ \A k \in Names : lock'[k] = u => k = m
      BY DEF LockedRows
    <3>1. CASE m = n
      BY <3>1, <1>1, <1>2, <1>6, <2>1 DEF Returning
    <3>2. CASE m # n
      BY <3>2, <1>1, <1>2, <2>1 DEF NamesInv, LockedRows, Drawing, Returning
    <3> QED
      BY <3>1, <3>2
  <2>4. DrawsForTheUnnamed'
    <3>1. \A u \in Txns, m \in Names : (lock[m] = u /\ Drawing(u, m))' =>
              u # t /\ lock[m] = u /\ Drawing(u, m)
      BY <1>1, <1>2, <1>6, <2>1, NamesAssumption DEF Drawing
    <3> QED
      BY <1>2, <3>1 DEF NamesInv, DrawsForTheUnnamed
  <2> QED
    BY <1>3, <1>4, <2>2, <2>3, <2>4 DEF NamesInv
<1> QED
  BY <1>5, <1>6

-----------------------------------------------------------------------------
(* The end of a transaction.                                               *)

LEMMA FinishTypes ==
    ASSUME NamesInv, NEW t \in Txns, pc[t] # "idle", Finish(t)
    PROVE  /\ lock' \in [Names -> Txns \cup {None}]
           /\ pc' \in [Txns -> {"idle", "name", "draw", "end", "held", "count",
                                "free", "commit"}]
           /\ req' \in [Txns -> Request]
           /\ pc'[t] = "idle" /\ req'[t] = NoRequest
           /\ \A u \in Txns \ {t} : pc'[u] = pc[u] /\ req'[u] = req[u]
           /\ \A n \in Names : lock'[n] = IF lock[n] = t THEN None ELSE lock[n]
           /\ CallsAreTyped' /\ OneCall'
<1>1. /\ lock' \in [Names -> Txns \cup {None}]
      /\ pc' \in [Txns -> {"idle", "name", "draw", "end", "held", "count",
                           "free", "commit"}]
      /\ req' \in [Txns -> Request]
  BY NoRequestType DEF Finish, NamesInv, TypeOK
<1>2. /\ pc'[t] = "idle" /\ req'[t] = NoRequest
      /\ \A u \in Txns \ {t} : pc'[u] = pc[u] /\ req'[u] = req[u]
      /\ \A n \in Names : lock'[n] = IF lock[n] = t THEN None ELSE lock[n]
  BY DEF Finish, NamesInv, TypeOK
<1>3. CallsAreTyped'
  BY <1>2 DEF NamesInv, CallsAreTyped
<1>4. OneCall'
  BY <1>2, NamesAssumption DEF NamesInv, OneCall, NoRequest
<1> QED
  BY <1>1, <1>2, <1>3, <1>4

LEMMA RollbackKeeps ==
    ASSUME NamesInv, NEW t \in Txns, Rollback(t)
    PROVE  NamesInv'
<1>1. Finish(t) /\ pc[t] # "idle"
      /\ pend' = [n \in Names |-> IF lock[n] = t THEN held[n] ELSE pend[n]]
      /\ UNCHANGED <<claims, held, extra>>
  BY DEF Rollback
<1>2. TypeOK'
  BY <1>1, FinishTypes DEF NamesInv, TypeOK
<1>3. CallsAreTyped' /\ OneCall'
  BY <1>1, FinishTypes
<1>4. FreeRows' /\ OneNamePerSession'
  BY <1>1, FinishTypes, NamesAssumption DEF NamesInv, FreeRows, OneNamePerSession
<1>5. \A u \in Txns, n \in Names : lock'[n] = u =>
          /\ u # t /\ lock[n] = u
          /\ Drawing(u, n)' = Drawing(u, n) /\ Returning(u, n)' = Returning(u, n)
  BY <1>1, FinishTypes, NamesAssumption DEF Drawing, Returning
<1>6. LockedRows'
  BY <1>5, <1>1, FinishTypes DEF NamesInv, LockedRows
<1>7. DrawsForTheUnnamed'
  BY <1>5, <1>1, FinishTypes DEF NamesInv, DrawsForTheUnnamed
<1> QED
  BY <1>2, <1>3, <1>4, <1>6, <1>7 DEF NamesInv

\* What a commit does to a name: it is drawn, returned, or left alone.
LEMMA CommitNames ==
    ASSUME NamesInv, NEW t \in Txns, Commit(t), NEW n \in Names
    PROVE  \/ lock[n] # t /\ held'[n] = held[n]
           \/ lock[n] = t /\ Drawing(t, n) /\ held'[n] = req[t].session
           \/ lock[n] = t /\ Returning(t, n) /\ held'[n] = None
BY DEF Commit, View, NamesInv, LockedRows, Drawing, Returning

LEMMA CommitKeeps ==
    ASSUME NamesInv, NEW t \in Txns, Commit(t)
    PROVE  NamesInv'
<1>1. /\ pc[t] = "commit" /\ Finish(t) /\ UNCHANGED pend
      /\ held' = [n \in Names |-> View(t, n)]
      /\ req[t].session \in Sessions /\ req[t].op \in Ops
      /\ req[t].op \notin {"register", "get_crew_name"} => req[t].row \in Ids
      /\ req[t] \in Request
  BY DEF Commit, NamesInv, CallsAreTyped, TypeOK
<1>2. claims' \subseteq Claim
  BY <1>1 DEF Commit, Without, NamesInv, TypeOK, Claim, Request
<1>3. TypeOK'
  <2>1. held' \in [Names -> Sessions \cup {None}]
    BY <1>1 DEF View, NamesInv, TypeOK
  <2>2. extra' \subseteq Names
    BY DEF Commit
  <2> QED
    BY <1>1, <1>2, <2>1, <2>2, FinishTypes DEF NamesInv, TypeOK
<1>4. CallsAreTyped' /\ OneCall'
  BY <1>1, FinishTypes
<1>e. \A n \in Names : n \in extra' <=> IF lock[n] = t THEN req[t].op = "get_crew_name"
                                        ELSE n \in extra
  BY DEF Commit
<1>5. FreeRows'
  BY <1>1, FinishTypes, NamesAssumption DEF NamesInv, FreeRows, View
<1>6. \A u \in Txns, n \in Names : lock'[n] = u =>
          /\ u # t /\ lock[n] = u /\ held'[n] = held[n]
          /\ Drawing(u, n)' = Drawing(u, n) /\ Returning(u, n)' = Returning(u, n)
  BY <1>1, FinishTypes, NamesAssumption DEF Drawing, Returning, View
<1>7. LockedRows'
  BY <1>6, <1>1, FinishTypes DEF NamesInv, LockedRows
<1>8. OneNamePerSession'
  <2> SUFFICES ASSUME OneCallAtATime,
                      NEW m \in Names \ extra', NEW n \in Names \ extra',
                      held'[m] # None, held'[m] = held'[n]
               PROVE  m = n
    BY DEF OneNamePerSession
  <2>1. \A k \in Names \ extra' : lock[k] = t /\ Drawing(t, k) =>
            \A j \in Names \ extra : held[j] # req[t].session
    BY <1>e DEF NamesInv, DrawsForTheUnnamed, Drawing, DrawOps, OwnOps
  <2>2. CASE lock[m] = t /\ lock[n] = t
    BY <2>2 DEF NamesInv, LockedRows
  <2>3. CASE lock[m] # t /\ lock[n] # t
    BY <1>e, <2>3, CommitNames DEF NamesInv, OneNamePerSession
  <2>4. CASE lock[m] = t /\ lock[n] # t
    <3>1. Drawing(t, m) /\ held'[m] = req[t].session
      BY <2>4, CommitNames
    <3>2. held'[n] = held[n]
      BY <2>4, CommitNames
    <3> QED
      BY <1>e, <2>1, <2>4, <3>1, <3>2
  <2>5. CASE lock[n] = t /\ lock[m] # t
    <3>1. Drawing(t, n) /\ held'[n] = req[t].session
      BY <2>5, CommitNames
    <3>2. held'[m] = held[m]
      BY <2>5, CommitNames
    <3> QED
      BY <1>e, <2>1, <2>5, <3>1, <3>2
  <2> QED
    BY <2>2, <2>3, <2>4, <2>5
<1>9. DrawsForTheUnnamed'
  <2> SUFFICES ASSUME OneCallAtATime, NEW u \in Txns, req'[u].op \in OwnOps,
                      \/ pc'[u] = "draw"
                      \/ \E n \in Names : (lock[n] = u /\ Drawing(u, n))',
                      NEW m \in Names \ extra'
               PROVE  held'[m] # req'[u].session
    BY DEF DrawsForTheUnnamed
  <2>1. u # t /\ pc[u] = pc'[u] /\ req'[u] = req[u]
    BY <1>6, <1>1, FinishTypes
  <2>2. m \notin extra => held[m] # req[u].session
    BY <1>6, <2>1 DEF NamesInv, DrawsForTheUnnamed
  <2>3. req[u].session \in Sessions
    <3>1. CASE pc'[u] = "draw"
      BY <2>1, <3>1 DEF NamesInv, CallsAreTyped
    <3>2. CASE \E n \in Names : (lock[n] = u /\ Drawing(u, n))'
      <4>1. PICK n \in Names : lock[n] = u
        BY <3>2, <1>6
      <4>2. pc[u] = "commit"
        BY <4>1 DEF NamesInv, LockedRows
      <4> QED
        BY <4>2 DEF NamesInv, CallsAreTyped
    <3> QED
      BY <3>1, <3>2
  <2>4. CASE lock[m] = t /\ Drawing(t, m)
    <3>1. req[t].op \in OwnOps
      BY <1>e, <2>4 DEF Drawing, DrawOps, OwnOps
    <3>2. req[t].session # req[u].session
      BY <1>1, <2>1, <2>3, <3>1, NamesAssumption DEF NamesInv, OneCall
    <3> QED
      BY <2>1, <2>4, <3>2, <1>1 DEF View, Drawing
  <2>5. CASE lock[m] = t /\ ~Drawing(t, m)
    <3>1. held'[m] = None
      BY <2>5, CommitNames
    <3> QED
      BY <2>1, <2>3, <3>1, NamesAssumption
  <2>6. CASE lock[m] # t
    <3>1. held'[m] = held[m] /\ m \notin extra
      BY <1>e, <2>6, CommitNames
    <3> QED
      BY <2>1, <2>2, <3>1
  <2> QED
    BY <2>4, <2>5, <2>6
<1> QED
  BY <1>3, <1>4, <1>5, <1>7, <1>8, <1>9 DEF NamesInv

-----------------------------------------------------------------------------
LEMMA LoseKeeps ==
    ASSUME NamesInv, NEW c \in claims, LoseClaim(c)
    PROVE  NamesInv'
BY DEF LoseClaim, Without, NamesInv, TypeOK, CallsAreTyped, FreeRows,
       LockedRows, OneCall, DrawsForTheUnnamed, OneNamePerSession, Drawing,
       Returning

LEMMA CallKeeps ==
    ASSUME NamesInv, NEW t \in Txns,
           \/ KeepName(t) \/ HasNoName(t) \/ GoUnnamed(t)
           \/ EndRow(t) \/ ReadHeld(t) \/ CountClaims(t)
    PROVE  NamesInv'
<1>1. CASE KeepName(t)
  <2>1. GoesOn(t, "commit") /\ pc[t] = "name"
    BY <1>1 DEF KeepName, GoesOn, NamesOf
  <2> QED
    BY <2>1, GoesOnKeeps
<1>2. CASE HasNoName(t)
  <2>1. GoesOn(t, "draw") /\ pc[t] = "name"
    BY <1>2 DEF HasNoName, GoesOn
  <2> QED
    BY <1>2, <2>1, GoesOnKeeps
<1>3. CASE GoUnnamed(t)
  <2>1. GoesOn(t, "commit") /\ pc[t] = "draw"
    BY <1>3 DEF GoUnnamed, GoesOn
  <2> QED
    BY <2>1, GoesOnKeeps
<1>4. CASE EndRow(t)
  <2>1. GoesOn(t, "held") /\ pc[t] = "end"
    BY <1>4 DEF EndRow, GoesOn
  <2> QED
    BY <2>1, GoesOnKeeps
<1>5. CASE ReadHeld(t)
  <2>1. \/ GoesOn(t, "commit")
        \/ GoesOn(t, "count") /\ req'[t].name \in Names
    BY <1>5 DEF ReadHeld, GoesOn, NamesOf, NamesInv, TypeOK, Request
  <2>2. pc[t] = "held"
    BY <1>5 DEF ReadHeld
  <2> QED
    BY <2>1, <2>2, GoesOnKeeps
<1>6. CASE CountClaims(t)
  <2>1. /\ GoesOn(t, "free") \/ GoesOn(t, "commit")
        /\ pc[t] = "count" /\ req'[t].name \in Names
    BY <1>6 DEF CountClaims, GoesOn, NamesInv, CallsAreTyped
  <2> QED
    BY <2>1, GoesOnKeeps
<1> QED
  BY <1>1, <1>2, <1>3, <1>4, <1>5, <1>6

LEMMA StartKeeps ==
    ASSUME NamesInv, NEW t \in Txns,
           \/ \E s \in Sessions :
                 \/ Register(t, s) \/ GetCrewName(t, s)
                 \/ \E i \in Ids : StartClaim(t, s, i)
           \/ \E c \in claims, op \in Ops : StartEnd(t, op, c)
    PROVE  NamesInv'
<1>1. CASE \E s \in Sessions : Register(t, s) \/ GetCrewName(t, s)
  BY <1>1, BeginKeeps DEF Register, GetCrewName, Ops, OwnOps
<1>2. CASE \E s \in Sessions, i \in Ids : StartClaim(t, s, i)
  BY <1>2, BeginKeeps DEF StartClaim, Ops, OwnOps
<1>3. CASE \E c \in claims, op \in Ops : StartEnd(t, op, c)
  <2>1. PICK c \in claims, op \in Ops : StartEnd(t, op, c)
    BY <1>3
  <2>2. c.session \in Sessions /\ c.id \in Ids
    BY DEF NamesInv, TypeOK, Claim
  <2> QED
    BY <2>1, <2>2, BeginKeeps DEF StartEnd
<1> QED
  BY <1>1, <1>2, <1>3

LEMMA NamesStep ==
    ASSUME NamesInv, [Next]_vars
    PROVE  NamesInv'
<1>1. CASE Next
  BY <1>1, StartKeeps, CallKeeps, DrawKeeps, FreeKeeps, CommitKeeps,
     RollbackKeeps, LoseKeeps DEF Next
<1>2. CASE UNCHANGED vars
  BY <1>2 DEF vars, NamesInv, TypeOK, CallsAreTyped, FreeRows, LockedRows,
              OneCall, DrawsForTheUnnamed, OneNamePerSession, Drawing, Returning
<1> QED
  BY <1>1, <1>2

THEOREM NamesInvariance == Spec => []NamesInv
BY NamesInit, NamesStep, PTL DEF Spec

THEOREM NamesAreTyped == Spec => []TypeOK
<1>1. NamesInv => TypeOK
  BY DEF NamesInv
<1> QED
  BY <1>1, NamesInvariance, PTL

\* Whatever the sweep returns and an operator draws meanwhile, of the names of a
\* session that makes one call at a time one at most is not from get_crew_name.
THEOREM OneNameEach == Spec => []OneNamePerSession
<1>1. NamesInv => OneNamePerSession
  BY DEF NamesInv
<1> QED
  BY <1>1, NamesInvariance, PTL

\* A name goes from a session to the pool, by a release or a sweep of
\* that session's own claim.
THEOREM NamesAreReturned == Spec => NeverStolen
<1>1. ASSUME NamesInv, [Next]_vars
      PROVE  [\A n \in Names : held[n] # None /\ held'[n] # held[n] =>
                 /\ held'[n] = None
                 /\ \E t \in Txns : /\ req[t].session = held[n]
                                    /\ req[t].op \in {"release", "sweep"}
                                    /\ pc[t] = "commit" /\ pc'[t] = "idle"]_vars
  <2> SUFFICES ASSUME NEW n \in Names, held[n] # None, held'[n] # held[n]
               PROVE  /\ held'[n] = None
                      /\ \E t \in Txns : /\ req[t].session = held[n]
                                         /\ req[t].op \in {"release", "sweep"}
                                         /\ pc[t] = "commit" /\ pc'[t] = "idle"
    OBVIOUS
  <2>1. PICK t \in Txns : Commit(t)
    BY <1>1 DEF Next, vars, Begin, Register, GetCrewName, StartClaim, StartEnd, KeepName,
                HasNoName, GoUnnamed, DrawName, EndRow, ReadHeld, CountClaims,
                FreeName, Rollback, LoseClaim
  <2>2. lock[n] = t /\ Returning(t, n) /\ held'[n] = None
    BY <1>1, <2>1, CommitNames DEF Drawing
  <2>3. pc[t] = "commit" /\ pc'[t] = "idle"
    BY <1>1, <2>1 DEF Commit, Finish, NamesInv, TypeOK
  <2> QED
    BY <2>2, <2>3 DEF Returning
<1> QED
  BY <1>1, NamesInvariance, PTL DEF Spec, NeverStolen
=============================================================================
