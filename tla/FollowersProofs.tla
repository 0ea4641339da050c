-------------------------- MODULE FollowersProofs ---------------------------
(***************************************************************************)
(* Those who follow what others commit.  What the visibility horizon       *)
(* promises the reader of the ledger, for any number of writers, events    *)
(* and page sizes; and that a server process shows its own settings, for   *)
(* any number of calls that read them at once and of writes, here and      *)
(* elsewhere.  Then the spool that the hooks of a machine share: what they *)
(* may lose, repeat or reorder of it, for any number of hooks and calls.   *)
(***************************************************************************)
EXTENDS EventLedger, SettingsCache, HookSpool, FiniteSetTheorems, SequenceTheorems,
        WellFoundedInduction, TLAPS

-----------------------------------------------------------------------------
(* The ledger.                                                             *)

\* A drawn id is its writer's alone, and no event has it yet.
DrawnIdsAreFresh ==
    \A w \in Writers : drawn[w] # None =>
        /\ drawn[w] < nextId /\ log[drawn[w]] = None /\ txn[w] = "open"
        /\ \A v \in Writers : drawn[v] = drawn[w] => v = w

\* An event's id has been drawn, and its transaction has an id.
EventsHaveXids ==
    \A i \in EventIds : Inserted(i) =>
        i < nextId /\ XidOf(i) # NoXid /\ txn[log[i].writer] \in {"open", "committed"}

\* A transaction that has not begun has no id.
XidsAreDrawn ==
    \A w \in Writers : xid[w] < nextXid /\ (txn[w] = "none" => xid[w] = NoXid)

\* A transaction that is still running is not below the horizon.
HorizonIsLow ==
    /\ horizon <= nextXid
    /\ \A w \in Running : horizon <= xid[w]

\* Whatever has or may get the id i is younger than j's transaction.
Younger(i, j) ==
    /\ Inserted(i) => XidOf(j) < XidOf(i)
    /\ \A w \in Writers : drawn[w] = i => xid[w] = NoXid \/ XidOf(j) < xid[w]

\* What the cursor c has passed and G leaves out is younger than a later event
\* that G has.
Passed(c, G) ==
    \A i \in EventIds : i <= c /\ i \notin G =>
        \E j \in G : j > i /\ Committed(j) /\ Younger(i, j)

ReaderInv ==
    /\ TypeOK /\ DrawnIdsAreFresh /\ EventsHaveXids /\ XidsAreDrawn /\ HorizonIsLow
    /\ Passed(cursor, delivered)
    /\ reader # "away" => Passed(since, read \cup delivered)

LEMMA NoneIsNoId == \A i \in EventIds : i # None
BY LedgerAssumption DEF EventIds

LEMMA ReaderInit == Init => ReaderInv
BY LedgerAssumption
   DEF Init, ReaderInv, TypeOK, DrawnIdsAreFresh, EventsHaveXids, XidsAreDrawn,
       HorizonIsLow, Running, Passed, Inserted, NoXid, EventIds, Event

-----------------------------------------------------------------------------
(* The least and the greatest of some numbers.                             *)

LEMMA LeastExists ==
    ASSUME NEW T \in SUBSET Nat, T # {}
    PROVE  \E x \in T : \A y \in T : x <= y
<1>1. PICK x \in T : \A y \in T : ~(<<y, x>> \in OpToRel(<, Nat))
  BY NatLessThanWellFounded, WFMin
<1>2. ASSUME NEW y \in T
      PROVE  x <= y
  <2>1. x \in Nat /\ y \in Nat
    OBVIOUS
  <2>2. ~(<<y, x>> \in OpToRel(<, Nat))
    BY <1>1
  <2>3. ~(y < x)
    BY <2>1, <2>2 DEF OpToRel
  <2> QED
    BY <2>1, <2>3
<1> QED
  BY <1>2

LEMMA GreatestExists ==
    ASSUME NEW n \in Nat, NEW T \in SUBSET (0..n), T # {}
    PROVE  \E x \in T : \A y \in T : y <= x
<1> DEFINE U == {n - y : y \in T}
<1>1. \A y \in T : y \in Int /\ y <= n /\ n - y \in Nat
  OBVIOUS
<1>5. U \in SUBSET Nat /\ U # {}
  BY <1>1
<1>2. PICK u \in U : \A v \in U : u <= v
  <2> HIDE DEF U
  <2> QED
    BY <1>5, LeastExists
<1>3. PICK x \in T : u = n - x
  OBVIOUS
<1>4. ASSUME NEW y \in T
      PROVE  y <= x
  <2>1. n - x <= n - y
    BY <1>2, <1>3
  <2> QED
    BY <2>1, <1>1
<1> QED
  BY <1>4

LEMMA HorizonIsLeast ==
    ASSUME ReaderInv
    PROVE  /\ Horizon \in Nat /\ Horizon <= nextXid
           /\ \A w \in Running : Horizon <= xid[w]
<1> DEFINE T == {xid[w] : w \in Running} \cup {nextXid}
<1>1. T \in SUBSET Nat /\ T # {} /\ nextXid \in T
  BY DEF ReaderInv, TypeOK, Running
<1>2. PICK x \in T : \A y \in T : x <= y
  <2> HIDE DEF T
  <2> QED
    BY <1>1, LeastExists
<1>3. \A w \in Running : x <= xid[w]
  BY <1>2
<1>4. Horizon \in T /\ \A w \in Running : Horizon <= xid[w]
  BY <1>3 DEF Horizon
<1>5. \A y \in T : y <= nextXid
  <2>1. nextXid \in Nat /\ \A w \in Running : xid[w] \in Nat /\ xid[w] < nextXid
    BY DEF ReaderInv, TypeOK, XidsAreDrawn, Running
  <2> QED
    BY <2>1
<1> QED
  BY <1>1, <1>4, <1>5

\* A page is the readable events up to the last of them.
LEMMA PageIsPrefix ==
    ASSUME NEW S \in SUBSET EventIds, NEW i \in S, NEW k \in Page(S), i <= k
    PROVE  i \in Page(S)
<1> DEFINE A == {j \in S : j <= i}
           B == {j \in S : j <= k}
<1>1. A \in SUBSET B /\ k \in S
  <2>1. k \in S /\ \A j \in S : j \in Int
    BY DEF EventIds, Page
  <2> QED
    BY <2>1
<1>2. IsFiniteSet(B)
  <2>1. B \in SUBSET EventIds
    OBVIOUS
  <2>2. IsFiniteSet(EventIds)
    BY FS_Interval, LedgerAssumption DEF EventIds
  <2> HIDE DEF B
  <2> QED
    BY <2>1, <2>2, FS_Subset
<1>3. Cardinality(A) <= Cardinality(B)
  <2> HIDE DEF A, B
  <2> QED
    BY <1>1, <1>2, FS_Subset
<1>4. Cardinality(B) <= PageSize
  BY DEF Page
<1>5. Cardinality(A) \in Nat /\ Cardinality(B) \in Nat
  <2> HIDE DEF A, B
  <2> QED
    BY <1>1, <1>2, FS_Subset, FS_CardinalityType
<1>6. Cardinality(A) <= PageSize
  <2> HIDE DEF A, B
  <2> QED
    BY <1>3, <1>4, <1>5, LedgerAssumption
<1> QED
  BY <1>6 DEF Page

LEMMA HighWaterIsLast ==
    ASSUME since \in 0..MaxId,
           NEW S \in SUBSET EventIds, \A i \in S : i > since
    PROVE  /\ HighWater(S) \in 0..MaxId
           /\ S = {} => HighWater(S) = since
           /\ S # {} => HighWater(S) \in S
           /\ \A i \in S : i <= HighWater(S)
<1>1. CASE S = {}
  BY <1>1 DEF HighWater
<1>2. CASE S # {}
  <2>1. S \in SUBSET (0..MaxId) /\ MaxId \in Nat
    BY LedgerAssumption DEF EventIds
  <2>2. PICK x \in S : \A y \in S : y <= x
    BY <1>2, <2>1, GreatestExists
  <2>3. HighWater(S) \in S \cup {since} /\ \A i \in S : i <= HighWater(S)
    BY <2>2 DEF HighWater
  <2>4. HighWater(S) # since
    BY <1>2, <2>1, <2>3
  <2> QED
    BY <1>2, <2>1, <2>3, <2>4
<1> QED
  BY <1>1, <1>2

-----------------------------------------------------------------------------
(* Writers.                                                                *)

\* An event that is committed stays, and what is younger than it stays so.
WritesKeepOrder ==
    \A j \in EventIds : Committed(j) =>
        /\ Committed(j)' /\ XidOf(j)' = XidOf(j)
        /\ \A i \in EventIds : i < j /\ Younger(i, j) => Younger(i, j)'

\* What the types say of the counters.
LEMMA Counters ==
    ASSUME ReaderInv
    PROVE  /\ nextId \in Nat /\ nextXid \in Nat /\ nextXid > 0 /\ MaxId \in Nat
           /\ horizon \in Nat /\ since \in 0..MaxId /\ cursor \in 0..MaxId
           /\ \A w \in Writers : xid[w] \in Nat /\ xid[w] < nextXid
           /\ \A i \in EventIds : i \in Nat /\ i # None
           /\ \A i \in EventIds : Inserted(i) =>
                 log[i].writer \in Writers /\ XidOf(i) \in Nat /\ i < nextId
<1>1. /\ MaxId \in Nat /\ \A i \in EventIds : i \in Nat /\ i # None
  BY LedgerAssumption DEF EventIds
<1>2. /\ nextId \in Nat /\ nextXid \in Nat /\ nextXid > 0
      /\ horizon \in Nat /\ since \in 0..MaxId /\ cursor \in 0..MaxId
  <2>1. nextId \in 1..(MaxId + 1) /\ nextXid \in Nat \ {0}
    BY DEF ReaderInv, TypeOK
  <2>2. horizon \in Nat /\ since \in 0..MaxId /\ cursor \in 0..MaxId
    BY DEF ReaderInv, TypeOK
  <2> QED
    BY <2>1, <2>2, <1>1
<1>3. \A w \in Writers : xid[w] \in Nat /\ xid[w] < nextXid
  BY DEF ReaderInv, TypeOK, XidsAreDrawn
<1>4. \A i \in EventIds : Inserted(i) =>
          log[i].writer \in Writers /\ XidOf(i) \in Nat /\ i < nextId
  BY <1>3 DEF ReaderInv, TypeOK, EventsHaveXids, Inserted, XidOf, Event
<1> QED
  BY <1>1, <1>2, <1>3, <1>4

LEMMA PassedStays ==
    ASSUME ReaderInv, WritesKeepOrder, UNCHANGED readerVars
    PROVE  /\ Passed(cursor, delivered)'
           /\ (reader # "away" => Passed(since, read \cup delivered))'
<1>1. \A c \in 0..MaxId, G \in SUBSET EventIds :
          Passed(c, G) => Passed(c, G)'
  BY LedgerAssumption DEF Passed, WritesKeepOrder, EventIds
<1>2. /\ cursor \in 0..MaxId /\ since \in 0..MaxId
      /\ read \in SUBSET EventIds /\ delivered \in SUBSET EventIds
  BY DEF ReaderInv, TypeOK
<1>3. Passed(cursor, delivered)'
  BY <1>1, <1>2 DEF ReaderInv, readerVars, Passed
<1>4. (reader # "away" => Passed(since, read \cup delivered))'
  BY <1>1, <1>2 DEF ReaderInv, readerVars, Passed
<1> QED
  BY <1>3, <1>4

LEMMA AssignXidType ==
    ASSUME ReaderInv, NEW w \in Writers, AssignXid(w)
    PROVE  /\ xid' \in [Writers -> Nat] /\ nextXid' \in Nat \ {0}
           /\ xid'[w] # NoXid /\ nextXid <= nextXid'
           /\ \A v \in Writers \ {w} : xid'[v] = xid[v]
           /\ xid[w] # NoXid => xid'[w] = xid[w]
           /\ xid[w] = NoXid => xid'[w] = nextXid
           /\ \A v \in Writers : xid'[v] < nextXid'
<1>1. CASE xid[w] = NoXid
  <2>1. xid' = [xid EXCEPT ![w] = nextXid] /\ nextXid' = nextXid + 1
    BY <1>1 DEF AssignXid
  <2>2. xid \in [Writers -> Nat]
    BY DEF ReaderInv, TypeOK
  <2> QED
    BY <1>1, <2>1, <2>2, Counters DEF NoXid
<1>2. CASE xid[w] # NoXid
  <2>1. UNCHANGED <<xid, nextXid>>
    BY <1>2 DEF AssignXid
  <2>2. xid \in [Writers -> Nat]
    BY DEF ReaderInv, TypeOK
  <2> QED
    BY <1>2, <2>1, <2>2, Counters
<1> QED
  BY <1>1, <1>2

\* A transaction's id, once it has one, is at or above the horizon.
LEMMA XidsStayAbove ==
    ASSUME ReaderInv, NEW w \in Writers, AssignXid(w), UNCHANGED horizon,
           txn[w] = "open" \/ xid[w] = NoXid,
           \A v \in Writers \ {w} : txn'[v] = txn[v]
    PROVE  HorizonIsLow'
<1>1. horizon <= nextXid /\ horizon \in Nat /\ nextXid \in Nat
  BY Counters DEF ReaderInv, HorizonIsLow
<1>2. horizon' <= nextXid'
  BY <1>1, AssignXidType
<1>3. ASSUME NEW v \in Writers, v \in Running'
      PROVE  horizon' <= xid'[v]
  <2>1. CASE v = w /\ xid[w] = NoXid
    BY <2>1, <1>1, AssignXidType
  <2>2. CASE v # w \/ xid[w] # NoXid
    BY <2>2, <1>3, AssignXidType DEF Running, ReaderInv, HorizonIsLow
  <2> QED
    BY <2>1, <2>2
<1> QED
  BY <1>2, <1>3 DEF HorizonIsLow, Running

LEMMA WriteRowKeeps ==
    ASSUME ReaderInv, NEW w \in Writers, WriteRow(w)
    PROVE  ReaderInv'
<1>1. /\ AssignXid(w) /\ xid[w] = NoXid /\ drawn[w] = None
      /\ txn' = [txn EXCEPT ![w] = "open"] /\ txn[w] \in {"none", "open"}
      /\ UNCHANGED <<nextId, drawn, log>> /\ UNCHANGED readerVars
  BY DEF WriteRow, Open
<1>2. TypeOK'
  BY <1>1, AssignXidType DEF ReaderInv, TypeOK, readerVars
<1>3. DrawnIdsAreFresh'
  BY <1>1 DEF ReaderInv, TypeOK, DrawnIdsAreFresh
<1>4. \A i \in EventIds : Inserted(i) => log[i].writer # w /\ log[i].writer \in Writers
  BY <1>1 DEF ReaderInv, TypeOK, EventsHaveXids, XidOf, Inserted, Event
<1>5. EventsHaveXids'
  BY <1>1, <1>4, AssignXidType DEF ReaderInv, TypeOK, EventsHaveXids, XidOf, Inserted
<1>6. XidsAreDrawn' /\ HorizonIsLow'
  <2>1. XidsAreDrawn'
    BY <1>1, AssignXidType DEF ReaderInv, TypeOK, XidsAreDrawn
  <2>2. HorizonIsLow'
    BY <1>1, XidsStayAbove DEF readerVars
  <2> QED
    BY <2>1, <2>2
<1>7. WritesKeepOrder
  <2>1. \A i \in EventIds : XidOf(i)' = XidOf(i) \/ ~Inserted(i)
    BY <1>1, <1>4, AssignXidType DEF XidOf
  <2>2. \A i \in EventIds : Committed(i) => Committed(i)'
    BY <1>1, <1>4 DEF Committed, Inserted
  <2>3. \A i \in EventIds : Inserted(i)' = Inserted(i)
    BY <1>1 DEF Inserted
  <2>4. \A v \in Writers, i \in EventIds : drawn'[v] = i =>
            drawn[v] = i /\ xid'[v] = xid[v]
    BY <1>1, AssignXidType, Counters
  <2> QED
    BY <2>1, <2>2, <2>3, <2>4 DEF WritesKeepOrder, Younger, Committed
<1> QED
  BY <1>1, <1>2, <1>3, <1>5, <1>6, <1>7, PassedStays DEF ReaderInv

LEMMA DrawIdKeeps ==
    ASSUME ReaderInv, NEW w \in Writers, DrawId(w)
    PROVE  ReaderInv'
<1>1. /\ drawn' = [drawn EXCEPT ![w] = nextId] /\ nextId' = nextId + 1
      /\ nextId \in EventIds
      /\ txn' = [txn EXCEPT ![w] = "open"] /\ txn[w] \in {"none", "open"}
      /\ UNCHANGED <<nextXid, xid, log>> /\ UNCHANGED readerVars
  BY DEF DrawId, Open
<1>2. TypeOK'
  <2>1. nextId + 1 \in 1..(MaxId + 1)
    BY <1>1, Counters DEF EventIds
  <2> QED
    BY <1>1, <2>1 DEF ReaderInv, TypeOK, readerVars
<1>3. log[nextId] = None
  BY <1>1, Counters DEF Inserted
<1>4. DrawnIdsAreFresh'
  <2> SUFFICES ASSUME NEW v \in Writers, drawn'[v] # None
               PROVE  /\ drawn'[v] < nextId' /\ log'[drawn'[v]] = None
                      /\ txn'[v] = "open"
                      /\ \A u \in Writers : drawn'[u] = drawn'[v] => u = v
    BY DEF DrawnIdsAreFresh
  <2>1. \A u \in Writers \ {w} : drawn'[u] = drawn[u] /\ drawn[u] # nextId
    <3> SUFFICES ASSUME NEW u \in Writers \ {w}
                 PROVE  drawn'[u] = drawn[u] /\ drawn[u] # nextId
      OBVIOUS
    <3>1. drawn'[u] = drawn[u]
      BY <1>1 DEF ReaderInv, TypeOK
    <3>2. drawn[u] # None => drawn[u] < nextId
      BY DEF ReaderInv, DrawnIdsAreFresh
    <3> QED
      BY <1>1, <3>1, <3>2, Counters
  <2>2. drawn'[w] = nextId /\ nextId < nextId + 1
    <3>1. drawn'[w] = nextId
      BY <1>1 DEF ReaderInv, TypeOK
    <3> QED
      BY <3>1, Counters
  <2>3. CASE v = w
    BY <2>3, <2>1, <2>2, <1>1, <1>3 DEF ReaderInv, TypeOK
  <2>4. CASE v # w
    <3>1. drawn[v] # None /\ drawn[v] \in EventIds
      BY <2>4, <2>1 DEF ReaderInv, TypeOK
    <3>2. /\ drawn[v] < nextId /\ log[drawn[v]] = None /\ txn[v] = "open"
          /\ \A u \in Writers : drawn[u] = drawn[v] => u = v
      BY <3>1 DEF ReaderInv, DrawnIdsAreFresh
    <3>3. drawn[v] < nextId + 1
      BY <3>1, <3>2, Counters
    <3> QED
      BY <2>4, <2>1, <2>2, <3>2, <3>3, <1>1 DEF ReaderInv, TypeOK
  <2> QED
    BY <2>3, <2>4
<1>5. EventsHaveXids'
  <2> SUFFICES ASSUME NEW i \in EventIds, Inserted(i)
               PROVE  /\ i < nextId + 1 /\ XidOf(i) # NoXid
                      /\ txn'[log[i].writer] \in {"open", "committed"}
    BY <1>1 DEF EventsHaveXids, Inserted, XidOf
  <2>1. /\ i < nextId /\ XidOf(i) # NoXid
        /\ txn[log[i].writer] \in {"open", "committed"}
    BY DEF ReaderInv, EventsHaveXids
  <2> QED
    <3>1. i < nextId + 1
      BY <2>1, Counters
    <3>2. txn'[log[i].writer] \in {"open", "committed"}
      BY <2>1, <1>1, Counters DEF ReaderInv, TypeOK
    <3> QED
      BY <2>1, <3>1, <3>2
<1>6. XidsAreDrawn'
  BY <1>1 DEF ReaderInv, TypeOK, XidsAreDrawn
<1>7. HorizonIsLow'
  <2>1. \A v \in Running' : horizon <= xid[v]
    <3> SUFFICES ASSUME NEW v \in Writers, v \in Running'
                 PROVE  horizon <= xid[v]
      BY DEF Running
    <3>1. xid[v] # NoXid
      BY <1>1 DEF Running
    <3>2. CASE txn[v] = "open"
      BY <3>1, <3>2 DEF ReaderInv, HorizonIsLow, Running
    <3>3. CASE txn[v] # "open"
      <4>1. v = w /\ txn[v] = "none"
        BY <3>3, <1>1 DEF Running, ReaderInv, TypeOK
      <4> QED
        BY <3>1, <4>1 DEF ReaderInv, XidsAreDrawn
    <3> QED
      BY <3>2, <3>3
  <2> QED
    BY <2>1, <1>1 DEF ReaderInv, HorizonIsLow, readerVars
<1>8. WritesKeepOrder
  <2> SUFFICES ASSUME NEW j \in EventIds, Committed(j)
               PROVE  /\ Committed(j)' /\ XidOf(j)' = XidOf(j)
                      /\ \A i \in EventIds : i < j /\ Younger(i, j) => Younger(i, j)'
    BY DEF WritesKeepOrder
  <2>1. j < nextId /\ log[j].writer \in Writers
    BY DEF Committed, Inserted, ReaderInv, EventsHaveXids, TypeOK, Event
  <2>2. Committed(j)' /\ XidOf(j)' = XidOf(j)
    BY <1>1, <2>1 DEF Committed, Inserted, XidOf, ReaderInv, TypeOK
  <2>3. ASSUME NEW i \in EventIds, i < j, Younger(i, j)
        PROVE  Younger(i, j)'
    <3>1. i # nextId
      BY <2>1, <2>3, Counters
    <3> QED
      BY <3>1, <2>2, <2>3, <1>1 DEF Younger, Inserted, XidOf, ReaderInv, TypeOK
  <2> QED
    BY <2>2, <2>3
<1> QED
  BY <1>1, <1>2, <1>4, <1>5, <1>6, <1>7, <1>8, PassedStays DEF ReaderInv

LEMMA InsertKeeps ==
    ASSUME ReaderInv, NEW w \in Writers, NEW crew \in BOOLEAN, InsertEvent(w, crew)
    PROVE  ReaderInv'
<1> DEFINE d == drawn[w]
           e == [writer |-> w, crew |-> crew]
<1>1. /\ d \in EventIds /\ d # None /\ AssignXid(w)
      /\ log' = [log EXCEPT ![d] = e] /\ drawn' = [drawn EXCEPT ![w] = None]
      /\ UNCHANGED <<nextId, txn>> /\ UNCHANGED readerVars
  BY DEF InsertEvent, ReaderInv, TypeOK
<1>2. /\ d < nextId /\ log[d] = None /\ txn[w] = "open"
      /\ \A v \in Writers : drawn[v] = d => v = w
  BY <1>1 DEF ReaderInv, DrawnIdsAreFresh
<1>3. e \in Event /\ e.writer = w
  BY DEF Event
<1> HIDE DEF d, e
<1>4. /\ log'[d] = e /\ \A i \in EventIds \ {d} : log'[i] = log[i]
      /\ drawn'[w] = None /\ \A v \in Writers \ {w} : drawn'[v] = drawn[v]
  BY <1>1 DEF ReaderInv, TypeOK
<1>5. TypeOK'
  BY <1>1, <1>3, AssignXidType DEF ReaderInv, TypeOK, readerVars
<1>6. DrawnIdsAreFresh'
  <2> SUFFICES ASSUME NEW v \in Writers, drawn'[v] # None
               PROVE  /\ drawn'[v] < nextId' /\ log'[drawn'[v]] = None
                      /\ txn'[v] = "open"
                      /\ \A u \in Writers : drawn'[u] = drawn'[v] => u = v
    BY DEF DrawnIdsAreFresh
  <2>1. v # w /\ drawn'[v] = drawn[v]
    BY <1>4
  <2>2. drawn[v] # d /\ drawn[v] \in EventIds
    BY <2>1, <1>2 DEF ReaderInv, TypeOK
  <2> QED
    BY <2>1, <2>2, <1>1, <1>4 DEF ReaderInv, DrawnIdsAreFresh
<1>7. EventsHaveXids'
  <2> SUFFICES ASSUME NEW i \in EventIds, log'[i] # None
               PROVE  /\ i < nextId' /\ xid'[log'[i].writer] # NoXid
                      /\ txn'[log'[i].writer] \in {"open", "committed"}
    BY DEF EventsHaveXids, Inserted, XidOf
  <2>1. CASE i = d
    BY <2>1, <1>1, <1>2, <1>3, <1>4, AssignXidType
  <2>2. CASE i # d
    <3>1. Inserted(i) /\ log'[i] = log[i] /\ log[i].writer \in Writers
      BY <2>2, <1>4 DEF Inserted, ReaderInv, TypeOK, Event
    <3> QED
      BY <3>1, <1>1, AssignXidType DEF ReaderInv, EventsHaveXids, XidOf
  <2> QED
    BY <2>1, <2>2
<1>8. XidsAreDrawn'
  BY <1>1, <1>2, AssignXidType DEF ReaderInv, XidsAreDrawn
<1>9. HorizonIsLow'
  BY <1>1, <1>2, XidsStayAbove DEF readerVars
<1>10. WritesKeepOrder
  <2> SUFFICES ASSUME NEW j \in EventIds, Committed(j)
               PROVE  /\ Committed(j)' /\ XidOf(j)' = XidOf(j)
                      /\ \A i \in EventIds : i < j /\ Younger(i, j) => Younger(i, j)'
    BY DEF WritesKeepOrder
  <2>1. /\ j # d /\ log[j] # None /\ log[j].writer \in Writers \ {w}
        /\ txn[log[j].writer] = "committed"
    BY <1>2 DEF Committed, Inserted, ReaderInv, TypeOK, Event
  <2>2. Committed(j)' /\ XidOf(j)' = XidOf(j)
    BY <1>1, <1>4, <2>1, AssignXidType DEF Committed, Inserted, XidOf
  <2>3. XidOf(j) < nextXid /\ XidOf(j) \in Nat
    BY <2>1 DEF XidOf, ReaderInv, XidsAreDrawn, TypeOK
  <2>4. ASSUME NEW i \in EventIds, i < j, Younger(i, j)
        PROVE  Younger(i, j)'
    <3>1. Inserted(i)' => XidOf(j) < XidOf(i)'
      <4>1. CASE i = d
        <5>1. xid[w] = NoXid \/ XidOf(j) < xid[w]
          BY <2>4, <4>1 DEF Younger, d
        <5>2. XidOf(i)' = xid'[w]
          BY <4>1, <1>3, <1>4 DEF XidOf
        <5> QED
          BY <5>1, <5>2, <2>3, AssignXidType, <1>1
      <4>2. CASE i # d
        <5>1. log'[i] = log[i]
          BY <4>2, <1>4
        <5>2. ASSUME log[i] # None
              PROVE  XidOf(i)' = XidOf(i)
          <6>1. log[i].writer \in Writers /\ xid[log[i].writer] # NoXid
            BY <5>2 DEF ReaderInv, TypeOK, Event, EventsHaveXids, Inserted, XidOf
          <6> QED
            BY <6>1, <5>1, <1>1, AssignXidType DEF XidOf
        <5> QED
          BY <5>1, <5>2, <2>4 DEF Younger, Inserted
      <4> QED
        BY <4>1, <4>2
    <3>2. ASSUME NEW v \in Writers, drawn'[v] = i
          PROVE  xid'[v] = NoXid \/ XidOf(j) < xid'[v]
      <4>1. v # w
        BY <3>2, <1>4, NoneIsNoId
      <4>2. drawn[v] = i /\ xid'[v] = xid[v]
        BY <3>2, <4>1, <1>1, <1>4, AssignXidType
      <4> QED
        BY <4>2, <2>4 DEF Younger
    <3> QED
      BY <3>1, <3>2, <2>2 DEF Younger
  <2> QED
    BY <2>2, <2>4
<1> QED
  BY <1>1, <1>5, <1>6, <1>7, <1>8, <1>9, <1>10, PassedStays DEF ReaderInv

LEMMA CommitKeeps ==
    ASSUME ReaderInv, NEW w \in Writers, Commit(w)
    PROVE  ReaderInv'
<1>1. /\ txn[w] = "open" /\ drawn[w] = None
      /\ txn' = [txn EXCEPT ![w] = "committed"]
      /\ UNCHANGED <<nextId, nextXid, xid, drawn, log>> /\ UNCHANGED readerVars
  BY DEF Commit
<1>2. TypeOK'
  BY <1>1 DEF ReaderInv, TypeOK, readerVars
<1>3. DrawnIdsAreFresh'
  BY <1>1 DEF ReaderInv, TypeOK, DrawnIdsAreFresh
<1>4. EventsHaveXids'
  BY <1>1 DEF ReaderInv, TypeOK, EventsHaveXids, XidOf, Inserted, Event
<1>5. XidsAreDrawn' /\ HorizonIsLow'
  BY <1>1 DEF ReaderInv, TypeOK, XidsAreDrawn, HorizonIsLow, Running, readerVars
<1>6. WritesKeepOrder
  BY <1>1 DEF ReaderInv, TypeOK, WritesKeepOrder, Committed, Inserted, XidOf,
              Younger, Event
<1> QED
  BY <1>1, <1>2, <1>3, <1>4, <1>5, <1>6, PassedStays DEF ReaderInv

LEMMA RollbackKeeps ==
    ASSUME ReaderInv, NEW w \in Writers, Rollback(w)
    PROVE  ReaderInv'
<1>1. /\ txn[w] = "open"
      /\ txn' = [txn EXCEPT ![w] = "rolled back"]
      /\ drawn' = [drawn EXCEPT ![w] = None]
      /\ log' = [i \in EventIds |->
                    IF Inserted(i) /\ log[i].writer = w THEN None ELSE log[i]]
      /\ UNCHANGED <<nextId, nextXid, xid>> /\ UNCHANGED readerVars
  BY DEF Rollback
<1>2. TypeOK'
  BY <1>1 DEF ReaderInv, TypeOK, readerVars
<1>3. /\ drawn'[w] = None /\ \A v \in Writers \ {w} : drawn'[v] = drawn[v]
      /\ \A i \in EventIds : log'[i] = None \/ log'[i] = log[i]
      /\ \A i \in EventIds : log[i] # None /\ log[i].writer # w => log'[i] = log[i]
      /\ \A i \in EventIds : log'[i] # None => log[i].writer # w
  BY <1>1 DEF ReaderInv, TypeOK, Inserted
<1>4. DrawnIdsAreFresh'
  <2> SUFFICES ASSUME NEW v \in Writers, drawn'[v] # None
               PROVE  /\ drawn'[v] < nextId' /\ log'[drawn'[v]] = None
                      /\ txn'[v] = "open"
                      /\ \A u \in Writers : drawn'[u] = drawn'[v] => u = v
    BY DEF DrawnIdsAreFresh
  <2>1. v # w /\ drawn'[v] = drawn[v] /\ drawn[v] \in EventIds
    BY <1>3 DEF ReaderInv, TypeOK
  <2>2. drawn[v] < nextId /\ log[drawn[v]] = None /\ txn[v] = "open"
        /\ \A u \in Writers : drawn[u] = drawn[v] => u = v
    BY <2>1 DEF ReaderInv, DrawnIdsAreFresh
  <2>3. txn'[v] = "open"
    BY <2>1, <2>2, <1>1 DEF ReaderInv, TypeOK
  <2> QED
    BY <2>1, <2>2, <2>3, <1>1, <1>3
<1>5. EventsHaveXids'
  BY <1>1, <1>3 DEF ReaderInv, TypeOK, EventsHaveXids, XidOf, Inserted, Event
<1>6. XidsAreDrawn' /\ HorizonIsLow'
  BY <1>1 DEF ReaderInv, TypeOK, XidsAreDrawn, HorizonIsLow, Running, readerVars
<1>7. WritesKeepOrder
  <2> SUFFICES ASSUME NEW j \in EventIds, Committed(j)
               PROVE  /\ Committed(j)' /\ XidOf(j)' = XidOf(j)
                      /\ \A i \in EventIds : i < j /\ Younger(i, j) => Younger(i, j)'
    BY DEF WritesKeepOrder
  <2>1. log[j] # None /\ log[j].writer \in Writers \ {w}
    BY <1>1 DEF Committed, Inserted, ReaderInv, TypeOK, Event
  <2>2. Committed(j)' /\ XidOf(j)' = XidOf(j)
    BY <1>1, <1>3, <2>1 DEF Committed, Inserted, XidOf, ReaderInv, TypeOK
  <2>3. ASSUME NEW i \in EventIds, i < j, Younger(i, j)
        PROVE  Younger(i, j)'
    <3>1. \A v \in Writers : drawn'[v] = i => drawn[v] = i
      BY <1>3, NoneIsNoId
    <3>2. Inserted(i)' => Inserted(i) /\ XidOf(i)' = XidOf(i)
      BY <1>1, <1>3 DEF Inserted, XidOf
    <3> QED
      BY <3>1, <3>2, <2>2, <2>3, <1>1 DEF Younger
  <2> QED
    BY <2>2, <2>3
<1> QED
  BY <1>1, <1>2, <1>4, <1>5, <1>6, <1>7, PassedStays DEF ReaderInv

-----------------------------------------------------------------------------
(* The reader.                                                             *)

LEMMA ReadsKeepLedger ==
    ASSUME ReaderInv, UNCHANGED writerVars
    PROVE  /\ DrawnIdsAreFresh' /\ EventsHaveXids' /\ XidsAreDrawn'
           /\ \A c \in 0..MaxId, G \in SUBSET EventIds : Passed(c, G)' = Passed(c, G)
BY DEF ReaderInv, writerVars, DrawnIdsAreFresh, EventsHaveXids, XidsAreDrawn,
       Passed, Committed, Inserted, XidOf, Younger

LEMMA ReadSliceKeeps ==
    ASSUME ReaderInv, ReadSlice
    PROVE  ReaderInv'
<1> DEFINE page == Page(Readable)
<1>1. /\ reader = "slice" /\ since' = HighWater(page) /\ read' = read \cup page
      /\ reader' \in {"reply", "pause"}
      /\ UNCHANGED <<horizon, cursor, delivered>> /\ UNCHANGED writerVars
  BY DEF ReadSlice
<1>2. /\ page \in SUBSET EventIds /\ page \subseteq Readable
      /\ Readable \in SUBSET EventIds
      /\ \A i \in page : i > since
      /\ since \in 0..MaxId
  BY DEF Page, Readable, ReaderInv, TypeOK
<1>3. /\ HighWater(page) \in 0..MaxId
      /\ page = {} => HighWater(page) = since
      /\ page # {} => HighWater(page) \in page
      /\ \A i \in page : i <= HighWater(page)
  <2> HIDE DEF page
  <2> QED
    BY <1>2, HighWaterIsLast
<1>4. TypeOK'
  <2> HIDE DEF page
  <2> QED
    BY <1>1, <1>2, <1>3 DEF ReaderInv, TypeOK, writerVars
<1>5. HorizonIsLow'
  BY <1>1 DEF ReaderInv, HorizonIsLow, Running, writerVars
<1>6. Passed(cursor, delivered)'
  BY <1>1, ReadsKeepLedger DEF ReaderInv, TypeOK, Passed
<1>7. Passed(HighWater(page), read \cup page \cup delivered)
  <2> SUFFICES ASSUME NEW i \in EventIds, i <= HighWater(page),
                      i \notin read \cup page \cup delivered
               PROVE  \E j \in read \cup page \cup delivered :
                          j > i /\ Committed(j) /\ Younger(i, j)
    BY DEF Passed
  <2>1. CASE i <= since
    <3>1. Passed(since, read \cup delivered)
      BY <1>1 DEF ReaderInv
    <3> QED
      BY <2>1, <3>1 DEF Passed
  <2>2. CASE i > since
    <3> DEFINE j == HighWater(page)
    <3>1. page # {}
      BY <2>2, <1>2, <1>3 DEF EventIds
    <3>2. j \in page /\ j \in Readable /\ j # i
      BY <3>1, <1>2, <1>3
    <3>3. j > i
      BY <3>2, <1>2, <1>3 DEF EventIds
    <3>4. Committed(j) /\ XidOf(j) < horizon
      BY <3>2 DEF Readable
    <3>5. i \notin Readable
      <4> SUFFICES ASSUME i \in Readable
                   PROVE  i \in page
        OBVIOUS
      <4>1. i <= j
        BY <3>3, <1>3 DEF EventIds
      <4> HIDE DEF j
      <4> QED
        BY <3>2, <4>1, <1>2, PageIsPrefix
    <3>6. log[j].writer \in Writers /\ XidOf(j) \in Nat
      BY <3>2, <3>4, <1>2 DEF Committed, Inserted, XidOf, ReaderInv, TypeOK, Event
    <3>7. Inserted(i) => XidOf(j) < XidOf(i)
      <4> SUFFICES ASSUME Inserted(i)
                   PROVE  XidOf(j) < XidOf(i)
        OBVIOUS
      <4>1. /\ log[i].writer \in Writers /\ XidOf(i) # NoXid /\ XidOf(i) \in Nat
            /\ txn[log[i].writer] \in {"open", "committed"}
        BY DEF Inserted, XidOf, ReaderInv, TypeOK, Event, EventsHaveXids
      <4>2. horizon <= XidOf(i)
        <5>1. CASE txn[log[i].writer] = "open"
          BY <4>1, <5>1 DEF ReaderInv, HorizonIsLow, Running, XidOf
        <5>2. CASE txn[log[i].writer] = "committed"
          <6>1. Committed(i) /\ ~(XidOf(i) < horizon)
            BY <5>2, <3>5, <2>2 DEF Readable, Committed
          <6> QED
            BY <6>1, <4>1, Counters
        <5> QED
          BY <4>1, <5>1, <5>2
      <4> QED
        BY <4>1, <4>2, <3>4, <3>6, Counters
    <3>8. ASSUME NEW w \in Writers, drawn[w] = i, xid[w] # NoXid
          PROVE  XidOf(j) < xid[w]
      <4>1. txn[w] = "open"
        BY <3>8, NoneIsNoId DEF ReaderInv, DrawnIdsAreFresh
      <4>2. horizon <= xid[w]
        BY <3>8, <4>1 DEF ReaderInv, HorizonIsLow, Running
      <4> QED
        BY <4>2, <3>4, <3>6, Counters
    <3>9. Younger(i, j)
      BY <3>7, <3>8 DEF Younger
    <3> QED
      BY <3>2, <3>3, <3>4, <3>9
  <2> QED
    BY <2>1, <2>2, <1>2 DEF EventIds
<1>8. (reader # "away" => Passed(since, read \cup delivered))'
  <2> HIDE DEF page
  <2>1. since' \in 0..MaxId /\ read' \cup delivered' \in SUBSET EventIds
    BY <1>4 DEF TypeOK
  <2>2. Passed(since', read' \cup delivered')
    <3>1. read' \cup delivered' = read \cup page \cup delivered
      BY <1>1
    <3> QED
      BY <3>1, <1>1, <1>7
  <2>3. \A c \in 0..MaxId, G \in SUBSET EventIds : Passed(c, G)' = Passed(c, G)
    BY <1>1, ReadsKeepLedger
  <2> QED
    BY <2>1, <2>2, <2>3 DEF Passed
<1> QED
  BY <1>1, <1>4, <1>5, <1>6, <1>8, ReadsKeepLedger DEF ReaderInv

LEMMA WaitKeeps ==
    ASSUME ReaderInv,
           StartWait \/ ReadHorizon \/ Pause \/ TimeOut \/ Reply \/ LoseReply
    PROVE  ReaderInv'
<1>1. UNCHANGED writerVars
  BY DEF StartWait, ReadHorizon, Pause, TimeOut, Reply, LoseReply
<1>2. TypeOK'
  BY <1>1, HorizonIsLeast, LedgerAssumption
     DEF StartWait, ReadHorizon, Pause, TimeOut, Reply, LoseReply, ReaderInv,
         TypeOK, writerVars
<1>3. HorizonIsLow'
  BY <1>1, HorizonIsLeast
     DEF StartWait, ReadHorizon, Pause, TimeOut, Reply, LoseReply, ReaderInv,
         HorizonIsLow, Running, writerVars
<1>4. Passed(cursor', delivered')
  BY DEF StartWait, ReadHorizon, Pause, TimeOut, Reply, LoseReply, ReaderInv, Passed
<1>5. reader' # "away" => Passed(since', read' \cup delivered')
  BY DEF StartWait, ReadHorizon, Pause, TimeOut, Reply, LoseReply, ReaderInv, Passed
<1>6. /\ cursor' \in 0..MaxId /\ since' \in 0..MaxId
      /\ delivered' \in SUBSET EventIds /\ read' \cup delivered' \in SUBSET EventIds
  BY <1>2 DEF TypeOK
<1>7. \A c \in 0..MaxId, G \in SUBSET EventIds : Passed(c, G)' = Passed(c, G)
  BY <1>1, ReadsKeepLedger
<1>8. Passed(cursor, delivered)'
  BY <1>4, <1>6, <1>7 DEF Passed
<1>9. (reader # "away" => Passed(since, read \cup delivered))'
  BY <1>5, <1>6, <1>7 DEF Passed
<1> QED
  BY <1>1, <1>2, <1>3, <1>8, <1>9, ReadsKeepLedger DEF ReaderInv

LEMMA ReaderStep ==
    ASSUME ReaderInv, [Next]_vars
    PROVE  ReaderInv'
<1>1. CASE Next
  BY <1>1, WriteRowKeeps, DrawIdKeeps, InsertKeeps, CommitKeeps, RollbackKeeps,
     ReadSliceKeeps, WaitKeeps DEF Next, Write, Read
<1>2. CASE UNCHANGED vars
  BY <1>2 DEF vars, ReaderInv, TypeOK, DrawnIdsAreFresh, EventsHaveXids,
              XidsAreDrawn, HorizonIsLow, Running, Passed, Committed, Inserted,
              XidOf, Younger
<1> QED
  BY <1>1, <1>2

THEOREM ReaderInvariance == Spec => []ReaderInv
BY ReaderInit, ReaderStep, PTL DEF Spec

THEOREM LedgerIsTyped == Spec => []TypeOK
<1>1. ReaderInv => TypeOK
  BY DEF ReaderInv
<1> QED
  BY <1>1, ReaderInvariance, PTL

\* The cursor passes over an event only for one of an older transaction.
THEOREM OnlyOlderOvertake == Spec => []SkippedOnlyByOlder
<1>1. ReaderInv => SkippedOnlyByOlder
  BY DEF ReaderInv, Passed, SkippedOnlyByOlder, Skipped, Committed, Younger
<1> QED
  BY <1>1, ReaderInvariance, PTL

-----------------------------------------------------------------------------
(* The settings.                                                           *)

\* What a load has read is at least what the process has promised to show,
\* since the promise is only made while no load is under way.
LoadsAreRecent ==
    \A g \in Gets : getAt[g] \in {"stamp", "land"} => got[g].rows >= seen

\* Only what is committed is promised.
PromisesAreCommitted ==
    /\ seen <= revision
    /\ \A w \in unreturned : w <= revision

CacheInv ==
    CacheTypeOK /\ OwnWriteShown /\ LoadsAreRecent /\ PromisesAreCommitted

LEMMA CacheInvInit == CacheInit => CacheInv
<1> SUFFICES ASSUME CacheInit
             PROVE  CacheInv
  OBVIOUS
<1>1. NothingGot \in Got
  BY CacheAssumption DEF CacheAssumption, NothingGot, Got, Revisions
<1>2. CacheTypeOK
  <2>1. revision \in Revisions /\ seen \in Revisions /\ unreturned \subseteq Revisions
    BY CacheAssumption DEF CacheAssumption, CacheInit, Revisions
  <2>2. snapshot \in Snapshot \cup {Unset} /\ inFlight \in Gets \cup {Unset}
    BY DEF CacheInit
  <2>3. fresh \in BOOLEAN
    BY DEF CacheInit
  <2>4. /\ getAt \in [Gets -> {"idle", "join", "revision", "compare", "rows",
                               "stamp", "land"}]
        /\ got \in [Gets -> Got]
    BY <1>1 DEF CacheInit
  <2> QED
    BY <2>1, <2>2, <2>3, <2>4 DEF CacheTypeOK
<1>3. OwnWriteShown /\ LoadsAreRecent /\ PromisesAreCommitted
  BY DEF CacheInit, OwnWriteShown, LoadsAreRecent, PromisesAreCommitted
<1> QED
  BY <1>2, <1>3 DEF CacheInv

-----------------------------------------------------------------------------
USE CacheAssumption
USE DEF CacheAssumption, CacheInv, CacheTypeOK, OwnWriteShown, LoadsAreRecent,
        PromisesAreCommitted, Revisions, Snapshot, Got, NothingGot

\* A get that starts, or that finds the counter as it was, promises nothing.
LEMMA AskKeeps ==
    ASSUME CacheInv, NEW g \in Gets, Ask(g)
    PROVE  CacheInv'
<1>1. CASE Join(g)
  BY <1>1 DEF Join, CacheStep, Unwritten
<1>2. CASE Recheck(g)
  BY <1>2 DEF Recheck, CacheStep, Unwritten
<1>3. CASE LoadFirst(g)
  BY <1>3 DEF LoadFirst, CacheStep, Unwritten
<1> QED
  BY <1>1, <1>2, <1>3 DEF Ask

LEMMA CheckKeeps ==
    ASSUME CacheInv, NEW g \in Gets, ReadRevision(g) \/ Compare(g) \/ FailCheck(g)
    PROVE  CacheInv'
<1>1. CASE ReadRevision(g)
  BY <1>1 DEF ReadRevision, CacheStep, Unwritten
<1>2. CASE Compare(g)
  BY <1>2 DEF Compare, CacheStep, Unwritten
<1>3. CASE FailCheck(g)
  BY <1>3 DEF FailCheck, CacheStep, Unwritten
<1> QED
  BY <1>1, <1>2, <1>3

\* Whoever a finished load lets go on is idle; the other loads are as before.
LEMMA SettleKeeps ==
    ASSUME CacheInv, NEW g \in Gets, SettleLoad(g)
    PROVE  /\ getAt' \in [Gets -> {"idle", "join", "revision", "compare", "rows",
                                   "stamp", "land"}]
           /\ got' \in [Gets -> Got]
           /\ \A h \in Gets : getAt'[h] \in {"stamp", "land"} =>
                 getAt'[h] = getAt[h] /\ got'[h] = got[h]
<1>1. NothingGot \in Got
  OBVIOUS
<1>2. \A h \in Gets : got[h] \in Got
  OBVIOUS
<1> QED
  BY <1>1, <1>2 DEF SettleLoad

\* A load reads what is committed, which is no older than any promise, and
\* lands with it.
LEMMA LoadKeeps ==
    ASSUME CacheInv, NEW g \in Gets,
           ReadRows(g) \/ ReadStamp(g) \/ Land(g) \/ FailLoad(g)
    PROVE  CacheInv'
<1>1. CASE ReadRows(g)
  BY <1>1 DEF ReadRows, CacheStep, Unwritten
<1>2. CASE ReadStamp(g)
  BY <1>2 DEF ReadStamp, CacheStep, Unwritten
<1>3. CASE Land(g)
  BY <1>3, SettleKeeps DEF Land, Unwritten
<1>4. CASE FailLoad(g)
  BY <1>4, SettleKeeps DEF FailLoad, Unwritten
<1> QED
  BY <1>1, <1>2, <1>3, <1>4

LEMMA WriteKeeps ==
    ASSUME CacheInv, NEW here \in BOOLEAN, WriteSetting(here)
    PROVE  CacheInv'
BY DEF WriteSetting

\* The promise of a write: what is held is dropped, and no load that read
\* before the write can land after it.
LEMMA InvalidateKeeps ==
    ASSUME CacheInv, NEW w \in unreturned, Invalidate(w)
    PROVE  CacheInv'
BY DEF Invalidate, Loading

LEMMA LapseKeeps ==
    ASSUME CacheInv, Lapse
    PROVE  CacheInv'
BY DEF Lapse, Unwritten

THEOREM CacheInvariance == CacheSpec => []CacheInv
<1>1. CacheInv /\ [CacheNext]_cacheVars => CacheInv'
  <2> SUFFICES ASSUME CacheInv, [CacheNext]_cacheVars
               PROVE  CacheInv'
    OBVIOUS
  <2>1. CASE CacheNext
    BY <2>1, AskKeeps, CheckKeeps, LoadKeeps, WriteKeeps, InvalidateKeeps,
       LapseKeeps DEF CacheNext
  <2>2. CASE UNCHANGED cacheVars
    BY <2>2 DEF cacheVars
  <2> QED
    BY <2>1, <2>2
<1> QED
  BY CacheInvInit, <1>1, PTL DEF CacheSpec

\* Every variable of the cache has its type.
THEOREM CacheTypes == CacheSpec => []CacheTypeOK
<1>1. CacheInv => CacheTypeOK
  OBVIOUS
<1> QED
  BY <1>1, CacheInvariance, PTL

\* Once a write of this process has returned with no load under way, no
\* snapshot from before it is shown, whatever fails, overlaps or lands late.
THEOREM OwnWritesAreShown == CacheSpec => []OwnWriteShown
<1>1. CacheInv => OwnWriteShown
  OBVIOUS
<1> QED
  BY <1>1, CacheInvariance, PTL

-----------------------------------------------------------------------------
(* The spool: what a file keeps of the lines that are put into it.         *)

RecordsOf(lines) == ToSet(lines) \ {Torn}

Earlier(q, r) == SessionOf(q) = SessionOf(r) /\ q[2] < r[2]

\* A session's records stand in the order of its calls,
Sorted(lines) ==
    \A j, k \in DOMAIN lines :
        lines[j] # Torn /\ lines[k] # Torn /\ Earlier(lines[j], lines[k]) => j < k

\* and no line stands twice.
Distinct(lines) == \A j, k \in DOMAIN lines : lines[j] = lines[k] => j = k

\* The places picked are met one after the other: the number of those up to a
\* place is a bijection from the places to their numbers.
LEMMA PlacesAreNumbered ==
    ASSUME NEW m \in Nat, NEW P \in SUBSET (1..m)
    PROVE  /\ IsFiniteSet(P) /\ Cardinality(P) \in Nat
           /\ \A k \in P : Cardinality({i \in P : i <= k}) \in 1..Cardinality(P)
           /\ \A j, k \in P :
                 j < k => Cardinality({i \in P : i <= j}) < Cardinality({i \in P : i <= k})
           /\ \A n \in 1..Cardinality(P) :
                 \E k \in P : Cardinality({i \in P : i <= k}) = n
<1> DEFINE Upto(k) == {i \in P : i <= k}
           number == [k \in P |-> Cardinality(Upto(k))]
<1>1. IsFiniteSet(P) /\ Cardinality(P) \in Nat
  <2>1. IsFiniteSet(1..m)
    BY FS_Interval
  <2> QED
    BY <2>1, FS_Subset, FS_CardinalityType
<1>2. ASSUME NEW k \in P
      PROVE  IsFiniteSet(Upto(k)) /\ Cardinality(Upto(k)) \in 1..Cardinality(P)
  <2>1. Upto(k) \in SUBSET P /\ k \in Upto(k)
    OBVIOUS
  <2>2. IsFiniteSet(Upto(k)) /\ Cardinality(Upto(k)) <= Cardinality(P)
    BY <1>1, <2>1, FS_Subset
  <2>3. Cardinality(Upto(k)) \in Nat /\ Cardinality(Upto(k)) # 0
    BY <2>1, <2>2, FS_CardinalityType, FS_EmptySet
  <2> QED
    BY <1>1, <2>2, <2>3
<1>3. ASSUME NEW j \in P, NEW k \in P, j < k
      PROVE  Cardinality(Upto(j)) < Cardinality(Upto(k))
  <2>1. Upto(j) \in SUBSET Upto(k) /\ k \in Upto(k) /\ k \notin Upto(j)
    <3>1. \A i \in P : i \in Nat
      OBVIOUS
    <3>2. \A i \in P : i <= j => i <= k
      BY <3>1, <1>3
    <3>3. k <= k /\ ~(k <= j)
      BY <3>1, <1>3
    <3> QED
      BY <3>2, <3>3
  <2>2. Cardinality(Upto(j)) <= Cardinality(Upto(k)) /\ Cardinality(Upto(j)) # Cardinality(Upto(k))
    BY <2>1, <1>2, FS_Subset
  <2> QED
    BY <2>2, <1>2
<1>4. number \in Injection(P, 1..Cardinality(P))
  <2>1. number \in [P -> 1..Cardinality(P)]
    BY <1>2
  <2>2. ASSUME NEW j \in P, NEW k \in P, number[j] = number[k]
        PROVE  j = k
    BY <2>2, <1>2, <1>3
  <2> HIDE DEF number
  <2> QED
    BY <2>1, <2>2 DEF Injection, IsInjective
<1>5. number \in Surjection(P, 1..Cardinality(P))
  <2>1. Cardinality(1..Cardinality(P)) = Cardinality(P) /\ IsFiniteSet(1..Cardinality(P))
    BY <1>1, FS_Interval
  <2> HIDE DEF number
  <2> QED
    BY <2>1, <1>4, FS_Injection
<1>6. \A n \in 1..Cardinality(P) : \E k \in P : number[k] = n
  BY <1>5 DEF Surjection
<1> QED
  BY <1>1, <1>2, <1>3, <1>6

LEMMA PickedLines ==
    ASSUME NEW S, NEW s \in Seq(S), NEW P \in SUBSET (1..Len(s)),
           NEW R, \A k \in P : s[k] \in R
    PROVE  /\ Picked(s, P) \in Seq(R)
           /\ ToSet(Picked(s, P)) = {s[k] : k \in P}
           /\ Sorted(s) => Sorted(Picked(s, P))
           /\ Distinct(s) => Distinct(Picked(s, P))
<1> DEFINE Number(k) == Cardinality({i \in P : i <= k})
           Place(n) == CHOOSE k \in P : Number(k) = n
           c == Cardinality(P)
           t == [n \in 1..c |-> s[Place(n)]]
<1>1. /\ Len(s) \in Nat /\ DOMAIN s = 1..Len(s)
      /\ c \in Nat
      /\ \A k \in P : Number(k) \in 1..c
      /\ \A j, k \in P : j < k => Number(j) < Number(k)
      /\ \A n \in 1..c : \E k \in P : Number(k) = n
  <2>1. Len(s) \in Nat /\ DOMAIN s = 1..Len(s)
    OBVIOUS
  <2> QED
    BY <2>1, PlacesAreNumbered
<1> HIDE DEF Number, c
<1>2. \A n \in 1..c : Place(n) \in P /\ Number(Place(n)) = n
  BY <1>1
<1>3. \A k \in P : Place(Number(k)) = k
  <2> SUFFICES ASSUME NEW k \in P, Place(Number(k)) # k
               PROVE  FALSE
    OBVIOUS
  <2>1. Place(Number(k)) \in P /\ Number(Place(Number(k))) = Number(k) /\ Number(k) \in 1..c
    BY <1>1, <1>2
  <2> HIDE DEF Place
  <2>2. k \in 1..Len(s) /\ Place(Number(k)) \in 1..Len(s)
    BY <2>1
  <2> QED
    BY <2>1, <2>2, <1>1
<1>4. Picked(s, P) = t
  BY DEF Picked, Number, c
<1> HIDE DEF Place
<1>5. t \in Seq(R) /\ Len(t) = c /\ DOMAIN t = 1..c
  <2>1. \A n \in 1..c : s[Place(n)] \in R
    BY <1>2
  <2> QED
    BY <2>1, <1>1
<1>6. ToSet(t) = {s[k] : k \in P}
  BY <1>1, <1>2, <1>3, <1>5 DEF ToSet
<1>7. \A m, n \in 1..c : Place(m) < Place(n) => m < n
  BY <1>1, <1>2
<1>8. Sorted(s) => Sorted(t)
  <2> SUFFICES ASSUME Sorted(s), NEW m \in 1..c, NEW n \in 1..c,
                      t[m] # Torn, t[n] # Torn, Earlier(t[m], t[n])
               PROVE  m < n
    BY <1>5 DEF Sorted
  <2>1. Place(m) \in DOMAIN s /\ Place(n) \in DOMAIN s
    BY <1>1, <1>2
  <2>2. Place(m) < Place(n)
    BY <2>1 DEF Sorted
  <2> QED
    BY <2>2, <1>7
<1>9. Distinct(s) => Distinct(t)
  <2> SUFFICES ASSUME Distinct(s), NEW m \in 1..c, NEW n \in 1..c, t[m] = t[n]
               PROVE  m = n
    BY <1>5 DEF Distinct
  <2>1. Place(m) \in DOMAIN s /\ Place(n) \in DOMAIN s
    BY <1>1, <1>2
  <2>2. Place(m) = Place(n)
    BY <2>1 DEF Distinct
  <2> QED
    BY <2>2, <1>2
<1> QED
  BY <1>4, <1>5, <1>6, <1>8, <1>9

\* What a drain sends of the lines it has read: their records, less the oldest
\* ones above the ceiling.
LEMMA WhatIsRead ==
    ASSUME NEW lines \in Seq(Lines)
    PROVE  LET records == ReadSpool(lines)
               sent == TrimSpool(records)
           IN  /\ records \in Seq(Records) /\ sent \in Seq(Records)
               /\ ToSet(records) = RecordsOf(lines)
               /\ RecordsOf(lines) = ToSet(sent) \cup PassedOver(records)
               /\ Sorted(lines) => Sorted(sent)
               /\ Distinct(lines) => Distinct(sent)
<1> DEFINE places == {k \in DOMAIN lines : lines[k] # Torn}
           records == ReadSpool(lines)
           sent == TrimSpool(records)
           e == Excess(records)
<1>1. /\ Torn \notin Records
      /\ places \in SUBSET (1..Len(lines)) /\ \A k \in places : lines[k] \in Records
      /\ records = Picked(lines, places)
  BY SpoolAssumption DEF ReadSpool, Lines, Records, SpoolAssumption
<1> HIDE DEF places
<1>2. /\ records \in Seq(Records)
      /\ ToSet(records) = {lines[k] : k \in places}
      /\ Sorted(lines) => Sorted(records)
      /\ Distinct(lines) => Distinct(records)
  BY <1>1, PickedLines
<1>3. ToSet(records) = RecordsOf(lines)
  BY <1>2 DEF places, RecordsOf, ToSet
<1> HIDE DEF records
<1>4. e \in 0..Len(records) /\ Len(records) \in Nat
  BY <1>2, SpoolAssumption DEF Excess, SpoolAssumption
<1>5. sent = SubSeq(records, e + 1, Len(records))
  BY DEF TrimSpool
<1> HIDE DEF e
<1>6. /\ sent \in Seq(Records) /\ Len(sent) = Len(records) - e
      /\ DOMAIN sent = 1..(Len(records) - e)
      /\ \A k \in 1..(Len(records) - e) : sent[k] = records[k + e]
  BY <1>2, <1>4, <1>5
<1>7. /\ SubSeq(records, 1, e) \in Seq(Records) /\ DOMAIN SubSeq(records, 1, e) = 1..e
      /\ \A k \in 1..e : SubSeq(records, 1, e)[k] = records[k]
  BY <1>2, <1>4
<1>8. ToSet(records) = ToSet(sent) \cup PassedOver(records)
  <2>1. ToSet(records) = {records[k] : k \in 1..Len(records)}
    BY <1>2 DEF ToSet
  <2>2. PassedOver(records) = {records[k] : k \in 1..e}
    BY <1>7 DEF PassedOver, ToSet, e
  <2>3. ToSet(sent) = {records[k] : k \in (e + 1)..Len(records)}
    <3>1. ASSUME NEW k \in (e + 1)..Len(records)
          PROVE  k - e \in 1..(Len(records) - e) /\ sent[k - e] = records[k]
      BY <1>4, <1>6
    <3>2. ASSUME NEW k \in 1..(Len(records) - e)
          PROVE  k + e \in (e + 1)..Len(records) /\ sent[k] = records[k + e]
      BY <1>4, <1>6
    <3> QED
      BY <3>1, <3>2, <1>6 DEF ToSet
  <2>4. 1..Len(records) = (1..e) \cup ((e + 1)..Len(records))
    BY <1>4
  <2> QED
    BY <2>1, <2>2, <2>3, <2>4
<1>9. Sorted(records) => Sorted(sent)
  <2> SUFFICES ASSUME Sorted(records), NEW j \in DOMAIN sent, NEW k \in DOMAIN sent,
                      Earlier(sent[j], sent[k]), sent[j] # Torn, sent[k] # Torn
               PROVE  j < k
    BY DEF Sorted
  <2>1. j + e \in DOMAIN records /\ k + e \in DOMAIN records /\ j \in Nat /\ k \in Nat
    BY <1>2, <1>4, <1>6
  <2>2. j + e < k + e
    BY <2>1, <1>6 DEF Sorted
  <2> QED
    BY <2>1, <2>2, <1>4
<1>10. Distinct(records) => Distinct(sent)
  <2> SUFFICES ASSUME Distinct(records), NEW j \in DOMAIN sent, NEW k \in DOMAIN sent,
                      sent[j] = sent[k]
               PROVE  j = k
    BY DEF Distinct
  <2>1. j + e \in DOMAIN records /\ k + e \in DOMAIN records /\ j \in Nat /\ k \in Nat
    BY <1>2, <1>4, <1>6
  <2>2. j + e = k + e
    BY <2>1, <1>6 DEF Distinct
  <2> QED
    BY <2>1, <2>2, <1>4
<1> QED
  BY <1>2, <1>3, <1>6, <1>8, <1>9, <1>10 DEF records

-----------------------------------------------------------------------------
(* The spool: the invariant.                                               *)

Settled == stored \cup trimmed

\* No line is of a call that was not made.
LinesAreSpooled ==
    /\ Settled \subseteq Spooled
    /\ RecordsOf(spool) \subseteq Spooled
    /\ \A h \in Hooks : RecordsOf(text[h]) \cup RecordsOf(kept[h]) \subseteq Spooled

\* What the server acknowledged it has stored, and what is not written back is
\* settled.
HookKnows(h) ==
    /\ hook[h] # "send" => acked[h] = {} /\ abandoned[h] = {}
    /\ hook[h] = "send" =>
          /\ \A k \in acked[h] : k \in DOMAIN ToSend(h) /\ ToSend(h)[k] \in stored
          /\ PassedOver(ReadSpool(text[h])) \subseteq trimmed
    /\ hook[h] = "replace" =>
          /\ ToSet(kept[h]) \subseteq ToSet(text[h])
          /\ RecordsOf(text[h]) \subseteq ToSet(kept[h]) \cup Settled

HooksKnow == \A h \in Hooks : HookKnows(h)

FilesAreSorted ==
    "lost" \notin excuse =>
        Sorted(spool) /\ \A h \in Hooks : Sorted(text[h]) /\ Sorted(kept[h])

\* A drain has what comes before anything it has.
DrainsSeeAll ==
    "lost" \notin excuse /\ "reordered" \notin excuse =>
        \A h \in Hooks : hook[h] = "send" =>
            \A r \in RecordsOf(text[h]), q \in Records :
                Earlier(q, r) => q \in Settled \cup ToSet(text[h])

\* A record stands once in the file, or once in what is to be put back there.
OneCopy ==
    excuse = {} =>
        /\ Distinct(spool)
        /\ \A h \in Hooks : Distinct(text[h]) /\ Distinct(kept[h])
        /\ \A h \in Hooks : hook[h] = "write" =>
              /\ ToSet(kept[h]) \cap ToSet(spool) = {}
              /\ \A g \in Hooks \ {h} :
                    hook[g] = "write" => ToSet(kept[h]) \cap ToSet(kept[g]) = {}

\* h has seen it stored and takes it off the file.
Removing(h, r) ==
    \/ hook[h] = "send" /\ \E k \in acked[h] : ToSend(h)[k] = r
    \/ hook[h] = "replace" /\ r \in ToSet(text[h]) /\ r \notin ToSet(kept[h])

\* What is stored and still in the file is on its way off it; and one drain at
\* a time sends what is not stored.
SentOnce ==
    excuse = {} =>
        /\ \A r \in stored : OnDisk(r) => \E h \in Hooks : Removing(h, r)
        /\ \A h \in Hooks : hook[h] = "send" =>
              /\ \A k \in DOMAIN ToSend(h) \ acked[h] : ToSend(h)[k] \notin stored
              /\ \A g \in Hooks \ {h} : hook[g] # "send"

SpoolInv ==
    /\ SpoolTypeOK /\ LinesAreSpooled /\ HooksKnow
    /\ LossNeedsAnOverwrite
    /\ FilesAreSorted /\ DrainsSeeAll /\ StoredInOrder
    /\ OneCopy /\ SentOnce /\ TwiceNeedsAFault

LEMMA RecordsAre ==
    /\ Torn \notin Records
    /\ \A r \in Records :
          /\ SessionOf(r) \in Hooks /\ r[2] \in Nat /\ r[2] \in 1..CallsOf[SessionOf(r)]
          /\ r = <<SessionOf(r), r[2]>>
    /\ \A h \in Hooks, n \in Nat :
          n \in 1..CallsOf[h] =>
             <<h, n>> \in Records /\ SessionOf(<<h, n>>) = h /\ <<h, n>>[2] = n
BY SpoolAssumption DEF Records, SessionOf, SpoolAssumption

LEMMA NothingRead == ToSet(<< >>) = {} /\ RecordsOf(<< >>) = {} /\ Sorted(<< >>) /\ Distinct(<< >>)
BY DEF ToSet, RecordsOf, Sorted, Distinct

LEMMA SpoolStarts == SpoolInit => SpoolInv
<1> SUFFICES ASSUME SpoolInit
             PROVE  SpoolInv
  OBVIOUS
<1>1. SpoolTypeOK
  BY DEF SpoolInit, SpoolTypeOK
<1>2. LinesAreSpooled /\ HooksKnow
  BY NothingRead DEF SpoolInit, LinesAreSpooled, HooksKnow, HookKnows, Settled
<1>3. Spooled = {}
  BY RecordsAre DEF SpoolInit, Spooled
<1>4. LossNeedsAnOverwrite /\ StoredInOrder /\ TwiceNeedsAFault
  BY <1>3 DEF SpoolInit, LossNeedsAnOverwrite, NothingVanishes, StoredInOrder, TwiceNeedsAFault
<1>5. FilesAreSorted /\ DrainsSeeAll /\ OneCopy /\ SentOnce
  BY NothingRead DEF SpoolInit, FilesAreSorted, DrainsSeeAll, OneCopy, SentOnce
<1> QED
  BY <1>1, <1>2, <1>4, <1>5 DEF SpoolInv

LEMMA LineAppended ==
    ASSUME NEW s \in Seq(Lines), NEW y \in Records,
           \A r \in RecordsOf(s) : ~Earlier(y, r)
    PROVE  LET t == Append(s, y)
           IN  /\ t \in Seq(Lines) /\ ToSet(t) = ToSet(s) \cup {y}
               /\ Sorted(s) => Sorted(t)
               /\ Distinct(s) /\ y \notin ToSet(s) => Distinct(t)
<1> DEFINE t == Append(s, y)
<1>1. /\ t \in Seq(Lines) /\ DOMAIN t = 1..(Len(s) + 1) /\ DOMAIN s = 1..Len(s)
      /\ Len(s) \in Nat /\ t[Len(s) + 1] = y
      /\ \A k \in 1..Len(s) : t[k] = s[k]
  BY DEF Lines
<1> HIDE DEF t
<1>2. ToSet(t) = ToSet(s) \cup {y}
  BY <1>1 DEF ToSet
<1>3. Sorted(s) => Sorted(t)
  <2> SUFFICES ASSUME Sorted(s), NEW j \in DOMAIN t, NEW k \in DOMAIN t,
                      t[j] # Torn, t[k] # Torn, Earlier(t[j], t[k])
               PROVE  j < k
    BY DEF Sorted
  <2>1. CASE j \in DOMAIN s /\ k \in DOMAIN s
    BY <2>1, <1>1 DEF Sorted
  <2>2. CASE j \in DOMAIN s /\ k = Len(s) + 1
    BY <2>2, <1>1
  <2>3. CASE j = Len(s) + 1 /\ k = Len(s) + 1
    BY <2>3, <1>1, RecordsAre DEF Earlier
  <2>4. CASE j = Len(s) + 1 /\ k \in DOMAIN s
    <3>1. t[k] \in RecordsOf(s)
      BY <2>4, <1>1 DEF RecordsOf, ToSet
    <3> QED
      BY <3>1, <2>4, <1>1
  <2> QED
    BY <1>1, <2>1, <2>2, <2>3, <2>4
<1>4. Distinct(s) /\ y \notin ToSet(s) => Distinct(t)
  BY <1>1 DEF Distinct, ToSet
<1> QED
  BY <1>1, <1>2, <1>3, <1>4 DEF t

LEMMA AppendRecordKeeps ==
    ASSUME SpoolInv, NEW h \in Hooks, NEW due \in BOOLEAN, AppendRecord(h, due)
    PROVE  SpoolInv'
<1> DEFINE y == <<h, spooled[h] + 1>>
<1> USE DEF SpoolInv
<1>1. /\ spool' = Append(spool, y)
      /\ hook' = [hook EXCEPT ![h] = IF due THEN "ceiling" ELSE "idle"]
      /\ spooled' = [spooled EXCEPT ![h] = @ + 1]
      /\ hook[h] = "idle" /\ spooled[h] \in Nat /\ spooled[h] + 1 \in 1..CallsOf[h]
      /\ UNCHANGED <<text, acked, abandoned, kept, stored, twice, trimmed, excuse>>
  <2>1. spooled[h] \in Nat /\ CallsOf[h] \in Nat
    BY SpoolAssumption DEF SpoolTypeOK, SpoolAssumption
  <2>2. spooled[h] + 1 \in 1..CallsOf[h]
    BY <2>1 DEF AppendRecord
  <2> QED
    BY <2>1, <2>2 DEF AppendRecord, At
<1>2. y \in Records /\ y \notin Spooled /\ y # Torn /\ SessionOf(y) = h /\ y[2] = spooled[h] + 1
  BY <1>1, RecordsAre DEF Spooled, SpoolTypeOK
<1>3. Spooled' = Spooled \cup {y}
  BY <1>1, RecordsAre DEF Spooled, SpoolTypeOK
<1>4. \A r \in Spooled : ~Earlier(y, r)
  BY <1>1, <1>2, RecordsAre DEF Spooled, Earlier, SpoolTypeOK
<1> HIDE DEF y
<1>5. /\ spool' \in Seq(Lines) /\ ToSet(spool') = ToSet(spool) \cup {y}
      /\ Sorted(spool) => Sorted(spool')
      /\ Distinct(spool) => Distinct(spool')
      /\ y \notin ToSet(spool)
  <2>1. y \notin ToSet(spool) /\ spool \in Seq(Lines) /\ \A r \in RecordsOf(spool) : ~Earlier(y, r)
    BY <1>2, <1>4 DEF LinesAreSpooled, RecordsOf, SpoolTypeOK
  <2> QED
    BY <2>1, <1>1, <1>2, LineAppended
<1>6. SpoolTypeOK'
  BY <1>1, <1>5 DEF SpoolTypeOK, y
<1>7. LinesAreSpooled'
  BY <1>1, <1>3, <1>5 DEF LinesAreSpooled, RecordsOf, Settled
<1>8. HooksKnow'
  BY <1>1 DEF HooksKnow, HookKnows, ToSend, Settled, SpoolTypeOK
<1>9. \A r : OnDisk(r)' <=> OnDisk(r) \/ r = y
  BY <1>1, <1>5 DEF OnDisk, SpoolTypeOK
<1>10. LossNeedsAnOverwrite'
  BY <1>1, <1>3, <1>9 DEF LossNeedsAnOverwrite, NothingVanishes
<1>11. FilesAreSorted' /\ DrainsSeeAll'
  BY <1>1, <1>5 DEF FilesAreSorted, DrainsSeeAll, Settled, SpoolTypeOK
<1>12. StoredInOrder'
  <2>1. \A r \in stored : ~Earlier(y, r)
    BY <1>4 DEF LinesAreSpooled, Settled
  <2> QED
    BY <2>1, <1>1, <1>3 DEF StoredInOrder, Earlier
<1>13. OneCopy'
  <2>1. \A g \in Hooks : y \notin ToSet(kept[g])
    BY <1>2 DEF LinesAreSpooled, RecordsOf
  <2> QED
    BY <2>1, <1>1, <1>5 DEF OneCopy, SpoolTypeOK
<1>14. SentOnce'
  <2>1. y \notin stored
    BY <1>2 DEF LinesAreSpooled, Settled
  <2>2. \A g \in Hooks : \A r : Removing(g, r) => Removing(g, r)'
    BY <1>1 DEF Removing, ToSend, SpoolTypeOK
  <2> QED
    BY <2>1, <2>2, <1>1, <1>9 DEF SentOnce, ToSend, SpoolTypeOK
<1> QED
  BY <1>1, <1>6, <1>7, <1>8, <1>10, <1>11, <1>12, <1>13, <1>14 DEF TwiceNeedsAFault

\* What trimming settles was in the file.
LEMMA TrimmingSettles ==
    ASSUME SpoolInv, NEW h \in Hooks, trimmed' = trimmed \cup PassedOver(ReadSpool(spool)),
           UNCHANGED <<spooled, stored>>
    PROVE  /\ trimmed' \subseteq Records /\ Settled \subseteq Settled' /\ Spooled' = Spooled
           /\ trimmed \subseteq trimmed' /\ Settled' \subseteq Spooled
<1>1. PassedOver(ReadSpool(spool)) \subseteq RecordsOf(spool) /\ RecordsOf(spool) \subseteq Spooled
  BY WhatIsRead DEF SpoolInv, SpoolTypeOK, LinesAreSpooled
<1> QED
  BY <1>1 DEF SpoolInv, SpoolTypeOK, LinesAreSpooled, Settled, Spooled

LEMMA EnforceCeilingKeeps ==
    ASSUME SpoolInv, NEW h \in Hooks, EnforceCeiling(h)
    PROVE  SpoolInv'
<1> USE DEF SpoolInv
<1> DEFINE sent == TrimSpool(ReadSpool(spool))
<1>1. /\ hook[h] = "ceiling"
      /\ trimmed' = trimmed \cup PassedOver(ReadSpool(spool))
      /\ UNCHANGED <<spool, spooled, acked, abandoned, stored, twice, excuse>>
      /\ \/ At(h, "idle") /\ UNCHANGED <<text, kept>>
         \/ /\ At(h, "replace")
            /\ text' = [text EXCEPT ![h] = spool] /\ kept' = [kept EXCEPT ![h] = sent]
  BY DEF EnforceCeiling
<1>2. /\ trimmed' \subseteq Records /\ Settled \subseteq Settled' /\ Spooled' = Spooled
      /\ trimmed \subseteq trimmed' /\ Settled' \subseteq Spooled
  BY <1>1, TrimmingSettles
<1>3. /\ sent \in Seq(Records)
      /\ RecordsOf(spool) = ToSet(sent) \cup PassedOver(ReadSpool(spool))
      /\ Sorted(spool) => Sorted(sent)
      /\ Distinct(spool) => Distinct(sent)
      /\ RecordsOf(sent) \subseteq ToSet(sent)
      /\ ToSet(sent) \subseteq ToSet(spool) /\ spool \in Seq(Lines)
  <2>1. spool \in Seq(Lines)
    BY DEF SpoolTypeOK
  <2> QED
    BY <2>1, WhatIsRead DEF RecordsOf
<1> HIDE DEF sent
<1>4. /\ \A g \in Hooks : hook'[g] = IF g = h THEN hook'[h] ELSE hook[g]
      /\ hook'[h] \in {"idle", "replace"}
      /\ \A g \in Hooks \ {h} : text'[g] = text[g] /\ kept'[g] = kept[g]
      /\ \/ hook'[h] = "idle" /\ text'[h] = text[h] /\ kept'[h] = kept[h]
         \/ hook'[h] = "replace" /\ text'[h] = spool /\ kept'[h] = sent
      /\ hook' \in [Hooks -> {"idle", "ceiling", "send", "replace", "write"}]
      /\ text' \in [Hooks -> Seq(Lines)] /\ kept' \in [Hooks -> Seq(Records)]
  <2>1. CASE At(h, "idle") /\ UNCHANGED <<text, kept>>
    BY <2>1 DEF At, SpoolTypeOK
  <2>2. CASE /\ At(h, "replace")
             /\ text' = [text EXCEPT ![h] = spool] /\ kept' = [kept EXCEPT ![h] = sent]
    BY <2>2, <1>3 DEF At, SpoolTypeOK
  <2> QED
    BY <2>1, <2>2, <1>1
<1>5. SpoolTypeOK'
  BY <1>1, <1>2, <1>4 DEF SpoolTypeOK
<1>6. LinesAreSpooled'
  BY <1>1, <1>2, <1>3, <1>4 DEF LinesAreSpooled
<1>7. HooksKnow'
  <2> SUFFICES ASSUME NEW g \in Hooks
               PROVE  HookKnows(g)'
    BY DEF HooksKnow
  <2>1. CASE g = h
    BY <2>1, <1>1, <1>2, <1>3, <1>4 DEF HooksKnow, HookKnows, Settled
  <2>2. CASE g # h
    BY <2>2, <1>1, <1>2, <1>4 DEF HooksKnow, HookKnows, ToSend
  <2> QED
    BY <2>1, <2>2
<1>8. \A r : OnDisk(r)' <=> OnDisk(r)
  BY <1>1, <1>4 DEF OnDisk
<1>9. LossNeedsAnOverwrite' /\ TwiceNeedsAFault'
  BY <1>1, <1>2, <1>8 DEF LossNeedsAnOverwrite, NothingVanishes, TwiceNeedsAFault
<1>10. FilesAreSorted'
  BY <1>1, <1>3, <1>4 DEF FilesAreSorted
<1>11. DrainsSeeAll' /\ StoredInOrder'
  BY <1>1, <1>2, <1>4 DEF DrainsSeeAll, StoredInOrder
<1>12. OneCopy'
  BY <1>1, <1>3, <1>4 DEF OneCopy
<1>13. SentOnce'
  <2>1. \A g \in Hooks : \A r : Removing(g, r) => Removing(g, r)'
    BY <1>1, <1>4 DEF Removing, ToSend
  <2>2. \A g \in Hooks : hook'[g] = "send" =>
           g # h /\ hook[g] = "send" /\ ToSend(g)' = ToSend(g) /\ acked'[g] = acked[g]
    BY <1>1, <1>4 DEF ToSend
  <2> QED
    BY <2>1, <2>2, <1>1, <1>8 DEF SentOnce
<1> QED
  BY <1>5, <1>6, <1>7, <1>9, <1>10, <1>11, <1>12, <1>13

LEMMA StartDrainKeeps ==
    ASSUME SpoolInv, NEW h \in Hooks, StartDrain(h)
    PROVE  SpoolInv'
<1> USE DEF SpoolInv
<1> DEFINE sent == TrimSpool(ReadSpool(spool))
<1>1. /\ hook[h] = "idle"
      /\ hook' = [hook EXCEPT ![h] = "send"] /\ text' = [text EXCEPT ![h] = spool]
      /\ trimmed' = trimmed \cup PassedOver(ReadSpool(spool))
      /\ UNCHANGED <<spool, spooled, acked, abandoned, kept, stored, twice>>
      /\ excuse \subseteq excuse' /\ excuse' \subseteq excuse \cup {"repeated", "reordered"}
      /\ "repeated" \notin excuse' =>
            \A g \in Hooks : hook[g] \notin {"send", "replace", "write"}
      /\ "reordered" \notin excuse' => \A g \in Hooks : hook[g] # "write"
  BY DEF StartDrain, At
<1>2. /\ trimmed' \subseteq Records /\ Settled \subseteq Settled' /\ Spooled' = Spooled
      /\ trimmed \subseteq trimmed' /\ Settled' \subseteq Spooled
  BY <1>1, TrimmingSettles
<1>3. /\ sent \in Seq(Records) /\ ToSet(sent) \subseteq ToSet(spool) /\ spool \in Seq(Lines)
      /\ \A k \in DOMAIN sent : sent[k] \in ToSet(sent)
  <2>1. spool \in Seq(Lines)
    BY DEF SpoolTypeOK
  <2> QED
    BY <2>1, WhatIsRead DEF RecordsOf, ToSet
<1>4. /\ \A g \in Hooks \ {h} : hook'[g] = hook[g] /\ text'[g] = text[g] /\ ToSend(g)' = ToSend(g)
      /\ hook'[h] = "send" /\ text'[h] = spool /\ ToSend(h)' = sent
      /\ hook' \in [Hooks -> {"idle", "ceiling", "send", "replace", "write"}]
      /\ text' \in [Hooks -> Seq(Lines)]
  BY <1>1, <1>3 DEF SpoolTypeOK, ToSend
<1> HIDE DEF sent
<1>5. SpoolTypeOK'
  BY <1>1, <1>2, <1>4 DEF SpoolTypeOK
<1>6. LinesAreSpooled'
  BY <1>1, <1>2, <1>4 DEF LinesAreSpooled
<1>7. HooksKnow'
  <2> SUFFICES ASSUME NEW g \in Hooks
               PROVE  HookKnows(g)'
    BY DEF HooksKnow
  <2>1. CASE g = h
    BY <2>1, <1>1, <1>4 DEF HooksKnow, HookKnows
  <2>2. CASE g # h
    BY <2>2, <1>1, <1>2, <1>4 DEF HooksKnow, HookKnows
  <2> QED
    BY <2>1, <2>2
<1>8. \A r : OnDisk(r)' <=> OnDisk(r)
  BY <1>1, <1>4 DEF OnDisk
<1>9. LossNeedsAnOverwrite' /\ TwiceNeedsAFault'
  BY <1>1, <1>2, <1>8 DEF LossNeedsAnOverwrite, NothingVanishes, TwiceNeedsAFault
<1>10. FilesAreSorted'
  BY <1>1, <1>4 DEF FilesAreSorted
<1>11. DrainsSeeAll'
  <2> SUFFICES ASSUME "lost" \notin excuse', "reordered" \notin excuse',
                      NEW g \in Hooks, hook'[g] = "send",
                      NEW r \in RecordsOf(text'[g]), NEW q \in Records, Earlier(q, r)
               PROVE  q \in Settled' \cup ToSet(text'[g])
    BY DEF DrainsSeeAll
  <2>1. CASE g = h
    <3>1. /\ r \in Spooled /\ r \in Records
          /\ r[2] <= spooled[SessionOf(r)] /\ spooled[SessionOf(r)] \in Nat
      BY <2>1, <1>4, RecordsAre DEF LinesAreSpooled, Spooled, SpoolTypeOK
    <3>2. q \in Spooled
      BY <3>1, RecordsAre DEF Spooled, Earlier
    <3>3. q \in Settled \/ OnDisk(q)
      BY <3>2, <1>1 DEF LossNeedsAnOverwrite, NothingVanishes, Settled
    <3>4. OnDisk(q) => q \in ToSet(spool)
      BY <1>1 DEF OnDisk
    <3> QED
      BY <3>3, <3>4, <2>1, <1>2, <1>4
  <2>2. CASE g # h
    BY <2>2, <1>1, <1>2, <1>4 DEF DrainsSeeAll
  <2> QED
    BY <2>1, <2>2
<1>12. StoredInOrder'
  BY <1>1, <1>2 DEF StoredInOrder
<1>13. OneCopy'
  BY <1>1, <1>4 DEF OneCopy
<1>14. SentOnce'
  <2> SUFFICES ASSUME excuse' = {}
               PROVE  /\ \A r \in stored : OnDisk(r)' => \E g \in Hooks : Removing(g, r)'
                      /\ \A g \in Hooks : hook'[g] = "send" =>
                            /\ \A k \in DOMAIN ToSend(g)' \ acked[g] : ToSend(g)'[k] \notin stored
                            /\ \A f \in Hooks \ {g} : hook'[f] # "send"
    BY <1>1 DEF SentOnce
  <2>1. \A g \in Hooks : hook[g] \notin {"send", "replace", "write"}
    BY <1>1
  <2>2. \A r \in stored : ~OnDisk(r)
    BY <2>1, <1>1 DEF SentOnce, Removing
  <2>3. \A r \in stored : r \notin ToSet(spool)
    BY <2>2 DEF OnDisk
  <2> QED
    BY <2>1, <2>2, <2>3, <1>3, <1>4, <1>8
<1> QED
  BY <1>5, <1>6, <1>7, <1>9, <1>10, <1>11, <1>12, <1>13, <1>14

\* A batch has, with a record, all of its session before it that are unsent.
LEMMA BatchIsNext ==
    ASSUME SpoolInv, NEW h \in Hooks
    PROVE  /\ ToSend(h) \in Seq(Records) /\ DOMAIN ToSend(h) \subseteq Nat \ {0}
           /\ NextBatch(h) \subseteq DOMAIN ToSend(h) \ acked[h]
           /\ \A k \in NextBatch(h), j \in DOMAIN ToSend(h) \ acked[h] :
                 j < k /\ SessionOf(ToSend(h)[j]) = SessionOf(ToSend(h)[k]) => j \in NextBatch(h)
<1> DEFINE mine == OfCurrent(h)
           Upto(k) == {i \in mine : i <= k}
<1>1. ToSend(h) \in Seq(Records)
  BY WhatIsRead DEF SpoolInv, SpoolTypeOK, ToSend
<1>2. DOMAIN ToSend(h) = 1..Len(ToSend(h)) /\ Len(ToSend(h)) \in Nat
  BY <1>1
<1>3. /\ mine = {k \in DOMAIN ToSend(h) : /\ k \notin acked[h]
                                           /\ SessionOf(ToSend(h)[k]) \notin abandoned[h]
                                           /\ SessionOf(ToSend(h)[k]) = CurrentSession(h)}
      /\ NextBatch(h) = {k \in mine : Cardinality(Upto(k)) <= BatchSize}
  BY DEF OfCurrent, NextBatch, Unsent
<1> HIDE DEF mine
<1>4. ASSUME NEW k \in NextBatch(h), NEW j \in mine, j < k
      PROVE  j \in NextBatch(h)
  <2>1. IsFiniteSet(1..Len(ToSend(h))) /\ Upto(k) \in SUBSET (1..Len(ToSend(h)))
    <3>1. IsFiniteSet(1..Len(ToSend(h)))
      BY <1>2, FS_Interval
    <3>2. Upto(k) \subseteq 1..Len(ToSend(h))
      BY <1>2, <1>3
    <3> QED
      BY <3>1, <3>2
  <2>2. IsFiniteSet(Upto(k))
    BY <2>1, FS_Subset
  <2>3. Upto(j) \in SUBSET Upto(k)
    <3>1. \A i \in mine : i <= j => i <= k
      BY <1>2, <1>3, <1>4
    <3> QED
      BY <3>1
  <2>4. IsFiniteSet(Upto(j)) /\ Cardinality(Upto(j)) <= Cardinality(Upto(k))
    BY <2>2, <2>3, FS_Subset
  <2>5. Cardinality(Upto(j)) \in Nat /\ Cardinality(Upto(k)) \in Nat
    BY <2>2, <2>4, FS_CardinalityType
  <2>6. Cardinality(Upto(k)) <= BatchSize
    BY <1>3, <1>4
  <2> HIDE DEF Upto
  <2>7. Cardinality(Upto(j)) <= BatchSize
    BY <2>4, <2>5, <2>6, SpoolAssumption DEF SpoolAssumption
  <2> QED
    BY <2>7, <1>3, <1>4
<1>5. \A k \in NextBatch(h), j \in DOMAIN ToSend(h) \ acked[h] :
         SessionOf(ToSend(h)[j]) = SessionOf(ToSend(h)[k]) => j \in mine
  BY <1>3
<1> QED
  BY <1>1, <1>2, <1>3, <1>4, <1>5

LEMMA SessionIsKnown ==
    ASSUME SpoolInv, NEW h \in Hooks, Unsent(h) # {}
    PROVE  CurrentSession(h) \in Hooks
<1>1. ToSend(h) \in Seq(Records) /\ DOMAIN ToSend(h) \subseteq Nat
  BY BatchIsNext
<1>2. Unsent(h) \subseteq DOMAIN ToSend(h)
  BY DEF Unsent
<1>3. \E k \in Unsent(h) : \A j \in Unsent(h) : k <= j
  BY <1>1, <1>2, LeastExists
<1> DEFINE first == CHOOSE k \in Unsent(h) : \A j \in Unsent(h) : k <= j
<1>4. first \in Unsent(h)
  BY <1>3
<1>5. CurrentSession(h) = SessionOf(ToSend(h)[first])
  BY DEF CurrentSession
<1> HIDE DEF first
<1>6. ToSend(h)[first] \in Records
  BY <1>1, <1>2, <1>4
<1> QED
  BY <1>5, <1>6, RecordsAre

\* What a drain has read goes to the server in order.
LEMMA SentInOrder ==
    ASSUME SpoolInv, NEW h \in Hooks, hook[h] = "send",
           "lost" \notin excuse, "reordered" \notin excuse,
           NEW k \in NextBatch(h), NEW q \in Records, Earlier(q, ToSend(h)[k])
    PROVE  q \in Settled \/ \E j \in NextBatch(h) : ToSend(h)[j] = q
<1> USE DEF SpoolInv
<1> DEFINE sent == ToSend(h)
<1>1. /\ sent \in Seq(Records) /\ NextBatch(h) \subseteq DOMAIN sent \ acked[h]
      /\ DOMAIN sent \subseteq Nat \ {0}
      /\ \A j \in DOMAIN sent \ acked[h] :
            j < k /\ SessionOf(sent[j]) = SessionOf(sent[k]) => j \in NextBatch(h)
  BY BatchIsNext
<1>2. /\ RecordsOf(text[h]) = ToSet(sent) \cup PassedOver(ReadSpool(text[h]))
      /\ Sorted(text[h]) => Sorted(sent)
  BY WhatIsRead DEF SpoolTypeOK, ToSend
<1>3. PassedOver(ReadSpool(text[h])) \subseteq trimmed /\ \A j \in acked[h] : sent[j] \in stored
  BY DEF HooksKnow, HookKnows
<1>4. Sorted(sent)
  BY <1>2 DEF FilesAreSorted
<1> HIDE DEF sent
<1>5. sent[k] \in RecordsOf(text[h]) /\ sent[k] \in Records /\ k \in DOMAIN sent
  BY <1>1, <1>2 DEF ToSet
<1>6. q \in Settled \cup ToSet(text[h])
  BY <1>5 DEF DrainsSeeAll, sent
<1>7. q \in Settled \cup ToSet(sent)
  BY <1>2, <1>3, <1>6, RecordsAre DEF RecordsOf, Settled
<1>8. ASSUME NEW j \in DOMAIN sent, sent[j] = q
      PROVE  q \in Settled \/ j \in NextBatch(h)
  <2>1. j < k
    BY <1>4, <1>5, <1>8, RecordsAre DEF Sorted, sent
  <2>2. SessionOf(sent[j]) = SessionOf(sent[k])
    BY <1>8 DEF Earlier, sent
  <2> QED
    BY <2>1, <2>2, <1>1, <1>3, <1>8 DEF Settled
<1> QED
  BY <1>7, <1>8 DEF ToSet, sent

\* A batch that the server stores.
LEMMA StoringKeeps ==
    ASSUME SpoolInv, NEW h \in Hooks, Draining(h), Unsent(h) # {}, StoreBatch(h),
           UNCHANGED <<spool, spooled, hook, text, kept, trimmed>>,
           \/ acked' = [acked EXCEPT ![h] = @ \cup NextBatch(h)] /\ UNCHANGED abandoned
           \/ Abandon(h),
           excuse \subseteq excuse', excuse' \subseteq excuse \cup {"repeated"}
    PROVE  /\ SpoolTypeOK' /\ LinesAreSpooled' /\ HooksKnow'
           /\ LossNeedsAnOverwrite'
           /\ FilesAreSorted' /\ DrainsSeeAll' /\ StoredInOrder'
           /\ OneCopy'
           /\ stored' = stored \cup {ToSend(h)[k] : k \in NextBatch(h)}
           /\ \A g \in Hooks : ToSend(g)' = ToSend(g)
           /\ \A r : OnDisk(r)' <=> OnDisk(r)
<1> USE DEF SpoolInv
<1>1. /\ hook[h] = "send" /\ ToSend(h) \in Seq(Records)
      /\ NextBatch(h) \subseteq DOMAIN ToSend(h) \ acked[h]
      /\ DOMAIN ToSend(h) \subseteq Nat \ {0}
  BY BatchIsNext DEF Draining
<1>2. \A k \in NextBatch(h) : ToSend(h)[k] \in Records /\ ToSend(h)[k] \in RecordsOf(text[h])
  <2>1. RecordsOf(text[h]) = ToSet(ToSend(h)) \cup PassedOver(ReadSpool(text[h]))
    BY WhatIsRead DEF SpoolTypeOK, ToSend
  <2> QED
    BY <2>1, <1>1 DEF ToSet
<1>3. stored' = stored \cup {ToSend(h)[k] : k \in NextBatch(h)}
  BY <1>2 DEF StoreBatch
<1>4. \A g \in Hooks : ToSend(g)' = ToSend(g)
  BY DEF ToSend
<1>5. /\ stored' \subseteq Records /\ stored \subseteq stored' /\ Settled \subseteq Settled'
      /\ Spooled' = Spooled /\ Settled' \subseteq Spooled
  BY <1>2, <1>3 DEF SpoolTypeOK, LinesAreSpooled, Settled, Spooled
<1>6. /\ acked' \in [Hooks -> SUBSET (Nat \ {0})]
      /\ \A g \in Hooks \ {h} : acked'[g] = acked[g] /\ abandoned'[g] = abandoned[g]
      /\ acked'[h] \subseteq acked[h] \cup NextBatch(h)
      /\ abandoned' \in [Hooks -> SUBSET Hooks]
  <2>1. CASE acked' = [acked EXCEPT ![h] = @ \cup NextBatch(h)] /\ UNCHANGED abandoned
    BY <2>1, <1>1 DEF SpoolTypeOK
  <2>2. CASE Abandon(h)
    BY <2>2, SessionIsKnown DEF SpoolTypeOK, Abandon
  <2> QED
    BY <2>1, <2>2
<1>7. twice' \subseteq stored'
  <2> DEFINE Copies(r) == {k \in NextBatch(h) : ToSend(h)[k] = r}
  <2>1. twice' = twice \cup {r \in Records : \/ r \in stored /\ Copies(r) # {}
                                             \/ Cardinality(Copies(r)) > 1}
    BY DEF StoreBatch
  <2>2. ASSUME NEW r, Cardinality(Copies(r)) > 1
        PROVE  Copies(r) # {}
    <3> HIDE DEF Copies
    <3> QED
      BY <2>2, FS_EmptySet
  <2>3. ASSUME NEW r, Copies(r) # {}
        PROVE  r \in stored'
    BY <2>3, <1>3
  <2> HIDE DEF Copies
  <2> QED
    BY <2>1, <2>2, <2>3, <1>5 DEF SpoolTypeOK
<1>8. SpoolTypeOK'
  BY <1>5, <1>6, <1>7 DEF SpoolTypeOK
<1>9. LinesAreSpooled'
  BY <1>5 DEF LinesAreSpooled
<1>10. HooksKnow'
  BY <1>1, <1>3, <1>4, <1>5, <1>6 DEF HooksKnow, HookKnows
<1>11. \A r : OnDisk(r)' <=> OnDisk(r)
  BY DEF OnDisk
<1>12. LossNeedsAnOverwrite'
  BY <1>5, <1>11 DEF LossNeedsAnOverwrite, NothingVanishes
<1>13. FilesAreSorted' /\ DrainsSeeAll' /\ OneCopy'
  BY <1>5 DEF FilesAreSorted, DrainsSeeAll, OneCopy
<1>14. StoredInOrder'
  <2> SUFFICES ASSUME "lost" \notin excuse', "reordered" \notin excuse',
                      NEW r \in stored', NEW q \in Spooled', Earlier(q, r)
               PROVE  q \in stored' \cup trimmed'
    BY DEF StoredInOrder, Earlier
  <2>1. CASE r \in stored
    BY <2>1, <1>5 DEF StoredInOrder, Earlier
  <2>2. ASSUME NEW k \in NextBatch(h), r = ToSend(h)[k]
        PROVE  q \in stored' \cup trimmed'
    <3>1. q \in Records
      BY DEF Spooled
    <3>2. q \in Settled \/ \E j \in NextBatch(h) : ToSend(h)[j] = q
      BY <3>1, <2>2, <1>1, SentInOrder
    <3> QED
      BY <3>2, <1>3 DEF Settled
  <2> QED
    BY <2>1, <2>2, <1>3
<1> QED
  BY <1>3, <1>4, <1>8, <1>9, <1>10, <1>11, <1>12, <1>13, <1>14

LEMMA SendAcceptedKeeps ==
    ASSUME SpoolInv, NEW h \in Hooks, SendAccepted(h)
    PROVE  SpoolInv'
<1> USE DEF SpoolInv
<1>1. /\ Draining(h) /\ Unsent(h) # {} /\ StoreBatch(h) /\ hook[h] = "send"
      /\ acked' = [acked EXCEPT ![h] = @ \cup NextBatch(h)]
      /\ UNCHANGED <<spool, spooled, hook, text, abandoned, kept, trimmed, excuse>>
  BY DEF SendAccepted, Draining
<1>2. /\ SpoolTypeOK' /\ LinesAreSpooled' /\ HooksKnow' /\ LossNeedsAnOverwrite'
      /\ FilesAreSorted' /\ DrainsSeeAll' /\ StoredInOrder' /\ OneCopy'
      /\ stored' = stored \cup {ToSend(h)[k] : k \in NextBatch(h)}
      /\ \A g \in Hooks : ToSend(g)' = ToSend(g)
      /\ \A r : OnDisk(r)' <=> OnDisk(r)
  BY <1>1, StoringKeeps
<1>3. /\ NextBatch(h) \subseteq DOMAIN ToSend(h) \ acked[h]
      /\ DOMAIN ToSend(h) = 1..Len(ToSend(h)) /\ Len(ToSend(h)) \in Nat
  BY BatchIsNext
<1>4. acked'[h] = acked[h] \cup NextBatch(h) /\ \A g \in Hooks \ {h} : acked'[g] = acked[g]
  BY <1>1 DEF SpoolTypeOK
<1>5. ASSUME excuse = {}
      PROVE  \A k \in DOMAIN ToSend(h) \ acked[h] : ToSend(h)[k] \notin stored
  BY <1>1, <1>5 DEF SentOnce
<1>6. ASSUME excuse = {}
      PROVE  Distinct(ToSend(h))
  BY <1>6, WhatIsRead DEF OneCopy, SpoolTypeOK, ToSend
<1>7. SentOnce'
  <2> SUFFICES ASSUME excuse = {}
               PROVE  /\ \A r \in stored' : OnDisk(r)' => \E g \in Hooks : Removing(g, r)'
                      /\ \A g \in Hooks : hook[g] = "send" =>
                            /\ \A k \in DOMAIN ToSend(g) \ acked'[g] : ToSend(g)[k] \notin stored'
                            /\ \A f \in Hooks \ {g} : hook[f] # "send"
    BY <1>1, <1>2 DEF SentOnce
  <2>1. \A g \in Hooks : \A r : Removing(g, r) => Removing(g, r)'
    BY <1>1, <1>2, <1>4 DEF Removing
  <2>2. \A k \in NextBatch(h) : Removing(h, ToSend(h)[k])'
    BY <1>1, <1>2, <1>4 DEF Removing
  <2>3. \A r \in stored' : OnDisk(r)' => \E g \in Hooks : Removing(g, r)'
    BY <2>1, <2>2, <1>2 DEF SentOnce
  <2>4. \A k \in DOMAIN ToSend(h) \ acked'[h] : ToSend(h)[k] \notin stored'
    BY <1>2, <1>3, <1>4, <1>5, <1>6 DEF Distinct
  <2>5. \A g \in Hooks : hook[g] = "send" => g = h
    BY <1>1 DEF SentOnce
  <2> QED
    BY <2>3, <2>4, <2>5
<1>8. TwiceNeedsAFault'
  <2> SUFFICES ASSUME excuse = {}
               PROVE  twice' = {}
    BY <1>1 DEF TwiceNeedsAFault
  <2> DEFINE Copies(r) == {k \in NextBatch(h) : ToSend(h)[k] = r}
  <2>1. twice' = twice \cup {r \in Records : \/ r \in stored /\ Copies(r) # {}
                                             \/ Cardinality(Copies(r)) > 1}
    BY <1>1 DEF StoreBatch
  <2>2. \A r : r \in stored => Copies(r) = {}
    BY <1>3, <1>5
  <2>3. ASSUME NEW r
        PROVE  ~(Cardinality(Copies(r)) > 1)
    <3>1. \A j, k \in Copies(r) : j = k
      BY <1>3, <1>6 DEF Distinct
    <3> HIDE DEF Copies
    <3>2. CASE Copies(r) = {}
      BY <3>2, FS_EmptySet
    <3>3. ASSUME NEW k, Copies(r) = {k}
          PROVE  ~(Cardinality(Copies(r)) > 1)
      <4>1. Cardinality({k}) = 1
        BY FS_Singleton
      <4> QED
        BY <4>1, <3>3
    <3>4. Copies(r) = {} \/ \E k : Copies(r) = {k}
      BY <3>1
    <3> QED
      BY <3>2, <3>3, <3>4
  <2> HIDE DEF Copies
  <2> QED
    BY <2>1, <2>2, <2>3 DEF TwiceNeedsAFault
<1> QED
  BY <1>2, <1>7, <1>8

LEMMA SendUnansweredKeeps ==
    ASSUME SpoolInv, NEW h \in Hooks, SendUnanswered(h)
    PROVE  SpoolInv'
<1>1. /\ Draining(h) /\ Unsent(h) # {} /\ StoreBatch(h) /\ Abandon(h)
      /\ excuse' = excuse \cup {"repeated"}
      /\ UNCHANGED <<spool, spooled, hook, text, kept, trimmed>>
  BY DEF SendUnanswered
<1>2. /\ SpoolTypeOK' /\ LinesAreSpooled' /\ HooksKnow' /\ LossNeedsAnOverwrite'
      /\ FilesAreSorted' /\ DrainsSeeAll' /\ StoredInOrder' /\ OneCopy'
  BY <1>1, StoringKeeps
<1>3. SentOnce' /\ TwiceNeedsAFault'
  BY <1>1 DEF SentOnce, TwiceNeedsAFault
<1> QED
  BY <1>2, <1>3 DEF SpoolInv

\* A batch that comes to nothing.
LEMMA FailingKeeps ==
    ASSUME SpoolInv, NEW h \in Hooks, SendRefused(h) \/ SendFailed(h)
    PROVE  SpoolInv'
<1> USE DEF SpoolInv
<1>1. /\ hook[h] = "send" /\ CurrentSession(h) \in Hooks
      /\ abandoned' = [abandoned EXCEPT ![h] = @ \cup {CurrentSession(h)}]
      /\ UNCHANGED <<spool, spooled, hook, text, acked, kept, stored, twice, trimmed, excuse>>
  BY SessionIsKnown DEF SendRefused, SendFailed, Abandon, Draining
<1>2. SpoolTypeOK'
  BY <1>1 DEF SpoolTypeOK
<1>3. HooksKnow'
  BY <1>1 DEF HooksKnow, HookKnows, ToSend, Settled, SpoolTypeOK
<1>4. LinesAreSpooled' /\ LossNeedsAnOverwrite' /\ FilesAreSorted' /\ DrainsSeeAll'
  BY <1>1 DEF LinesAreSpooled, LossNeedsAnOverwrite, NothingVanishes, FilesAreSorted,
              DrainsSeeAll, OnDisk, Settled, Spooled
<1>5. StoredInOrder' /\ OneCopy' /\ SentOnce' /\ TwiceNeedsAFault'
  BY <1>1 DEF StoredInOrder, OneCopy, SentOnce, TwiceNeedsAFault, OnDisk, Removing,
              ToSend, Spooled
<1> QED
  BY <1>2, <1>3, <1>4, <1>5

LEMMA EndDrainKeeps ==
    ASSUME SpoolInv, NEW h \in Hooks, EndDrain(h)
    PROVE  SpoolInv'
<1> USE DEF SpoolInv
<1> DEFINE sent == ToSend(h)
           left == Remaining(h)
<1>1. /\ hook[h] = "send"
      /\ acked' = [acked EXCEPT ![h] = {}] /\ abandoned' = [abandoned EXCEPT ![h] = {}]
      /\ UNCHANGED <<spool, spooled, stored, twice, trimmed, excuse>>
      /\ \/ /\ acked[h] = {} /\ At(h, "idle")
            /\ text' = [text EXCEPT ![h] = << >>] /\ UNCHANGED kept
         \/ At(h, "replace") /\ kept' = [kept EXCEPT ![h] = left] /\ UNCHANGED text
  BY DEF EndDrain, Draining
<1>2. /\ sent \in Seq(Records)
      /\ RecordsOf(text[h]) = ToSet(sent) \cup PassedOver(ReadSpool(text[h]))
      /\ Sorted(text[h]) => Sorted(sent)
      /\ Distinct(text[h]) => Distinct(sent)
      /\ RecordsOf(text[h]) \subseteq ToSet(text[h])
  BY WhatIsRead DEF SpoolTypeOK, ToSend, RecordsOf
<1>3. /\ \A k \in acked[h] : k \in DOMAIN sent /\ sent[k] \in stored
      /\ PassedOver(ReadSpool(text[h])) \subseteq trimmed
  BY <1>1 DEF HooksKnow, HookKnows
<1> HIDE DEF sent
<1>4. /\ left \in Seq(Records)
      /\ ToSet(left) = {sent[k] : k \in DOMAIN sent \ acked[h]}
      /\ Sorted(sent) => Sorted(left)
      /\ Distinct(sent) => Distinct(left)
  <2>1. DOMAIN sent = 1..Len(sent) /\ \A k \in DOMAIN sent \ acked[h] : sent[k] \in Records
    BY <1>2
  <2>2. left = Picked(sent, DOMAIN sent \ acked[h])
    BY DEF Remaining, sent
  <2> QED
    BY <2>1, <2>2, <1>2, PickedLines
<1> HIDE DEF left
<1>5. ToSet(left) \subseteq ToSet(sent) /\ ToSet(sent) \subseteq ToSet(left) \cup stored
  BY <1>3, <1>4 DEF ToSet
<1>6. /\ \A g \in Hooks \ {h} : /\ hook'[g] = hook[g] /\ text'[g] = text[g]
                                /\ kept'[g] = kept[g] /\ acked'[g] = acked[g]
                                /\ abandoned'[g] = abandoned[g] /\ ToSend(g)' = ToSend(g)
      /\ acked'[h] = {} /\ abandoned'[h] = {}
      /\ \/ acked[h] = {} /\ hook'[h] = "idle" /\ text'[h] = << >> /\ kept'[h] = kept[h]
         \/ hook'[h] = "replace" /\ text'[h] = text[h] /\ kept'[h] = left
      /\ hook' \in [Hooks -> {"idle", "ceiling", "send", "replace", "write"}]
      /\ text' \in [Hooks -> Seq(Lines)] /\ kept' \in [Hooks -> Seq(Records)]
      /\ acked' \in [Hooks -> SUBSET (Nat \ {0})] /\ abandoned' \in [Hooks -> SUBSET Hooks]
  <2>1. CASE acked[h] = {} /\ At(h, "idle") /\ text' = [text EXCEPT ![h] = << >>] /\ UNCHANGED kept
    BY <2>1, <1>1 DEF At, SpoolTypeOK, ToSend
  <2>2. CASE At(h, "replace") /\ kept' = [kept EXCEPT ![h] = left] /\ UNCHANGED text
    BY <2>2, <1>1, <1>4 DEF At, SpoolTypeOK, ToSend
  <2> QED
    BY <2>1, <2>2, <1>1
<1>7. SpoolTypeOK'
  BY <1>1, <1>6 DEF SpoolTypeOK
<1>8. LinesAreSpooled'
  BY <1>1, <1>2, <1>5, <1>6, NothingRead DEF LinesAreSpooled, Settled, Spooled, RecordsOf
<1>9. HooksKnow'
  <2> SUFFICES ASSUME NEW g \in Hooks
               PROVE  HookKnows(g)'
    BY DEF HooksKnow
  <2>1. CASE g = h
    BY <2>1, <1>1, <1>2, <1>3, <1>5, <1>6 DEF HookKnows, Settled
  <2>2. CASE g # h
    BY <2>2, <1>1, <1>6 DEF HooksKnow, HookKnows, Settled
  <2> QED
    BY <2>1, <2>2
<1>10. \A r : OnDisk(r)' <=> OnDisk(r)
  BY <1>1, <1>6 DEF OnDisk
<1>11. LossNeedsAnOverwrite' /\ StoredInOrder' /\ TwiceNeedsAFault'
  BY <1>1, <1>10 DEF LossNeedsAnOverwrite, NothingVanishes, StoredInOrder, TwiceNeedsAFault, Spooled
<1>12. FilesAreSorted'
  BY <1>1, <1>2, <1>4, <1>6, NothingRead DEF FilesAreSorted
<1>13. DrainsSeeAll'
  <2>1. \A g \in Hooks : hook'[g] = "send" => hook[g] = "send" /\ text'[g] = text[g]
    BY <1>6
  <2> QED
    BY <2>1, <1>1 DEF DrainsSeeAll, Settled
<1>14. OneCopy'
  <2>1. \A g \in Hooks : hook'[g] = "write" =>
           g # h /\ hook[g] = "write" /\ kept'[g] = kept[g]
    BY <1>6
  <2> SUFFICES ASSUME excuse = {}
               PROVE  OneCopy'
    BY <1>1 DEF OneCopy
  <2>2. \A g \in Hooks : Distinct(text'[g]) /\ Distinct(kept'[g])
    BY <1>2, <1>4, <1>6, NothingRead DEF OneCopy
  <2> QED
    BY <2>1, <2>2, <1>1 DEF OneCopy
<1>15. SentOnce'
  <2> SUFFICES ASSUME excuse = {}
               PROVE  /\ \A r \in stored : OnDisk(r) => \E g \in Hooks : Removing(g, r)'
                      /\ \A g \in Hooks : hook'[g] = "send" =>
                            /\ \A k \in DOMAIN ToSend(g)' \ acked'[g] : ToSend(g)'[k] \notin stored
                            /\ \A f \in Hooks \ {g} : hook'[f] # "send"
    BY <1>1, <1>10 DEF SentOnce
  <2>1. ASSUME NEW r, NEW g \in Hooks, Removing(g, r)
        PROVE  Removing(g, r)'
    <3>1. CASE g # h
      BY <3>1, <2>1, <1>6 DEF Removing
    <3>2. CASE g = h
      <4>1. PICK k \in acked[h] : sent[k] = r
        BY <3>2, <2>1, <1>1 DEF Removing, sent
      <4>2. r \in ToSet(text[h]) /\ k \in DOMAIN sent
        BY <4>1, <1>2, <1>3 DEF ToSet
      <4>3. r \notin ToSet(left)
        BY <4>1, <4>2, <1>2, <1>4 DEF OneCopy, Distinct
      <4> QED
        BY <4>1, <4>2, <4>3, <3>2, <1>6 DEF Removing
    <3> QED
      BY <3>1, <3>2
  <2>2. \A g \in Hooks : hook'[g] # "send"
    <3>1. \A g \in Hooks \ {h} : hook[g] # "send"
      BY <1>1 DEF SentOnce
    <3>2. hook'[h] # "send"
      BY <1>6
    <3> QED
      BY <3>1, <3>2, <1>6
  <2> QED
    BY <2>1, <2>2 DEF SentOnce
<1> QED
  BY <1>7, <1>8, <1>9, <1>11, <1>12, <1>13, <1>14, <1>15

LEMMA EmptyKeeps ==
    ASSUME SpoolInv, NEW h \in Hooks, Empty(h)
    PROVE  SpoolInv'
<1> USE DEF SpoolInv
<1>1. /\ hook[h] = "replace" /\ hook' = [hook EXCEPT ![h] = "write"] /\ spool' = << >>
      /\ excuse \subseteq excuse' /\ excuse' \subseteq excuse \cup {"lost"}
      /\ "lost" \notin excuse' => spool = text[h]
      /\ UNCHANGED <<spooled, text, acked, abandoned, kept, stored, twice, trimmed>>
  BY DEF Empty, At
<1>2. /\ \A g \in Hooks \ {h} : hook'[g] = hook[g]
      /\ hook'[h] = "write" /\ hook' \in [Hooks -> {"idle", "ceiling", "send", "replace", "write"}]
  BY <1>1 DEF SpoolTypeOK
<1>3. /\ ToSet(kept[h]) \subseteq ToSet(text[h])
      /\ RecordsOf(text[h]) \subseteq ToSet(kept[h]) \cup Settled
      /\ acked[h] = {} /\ abandoned[h] = {}
  BY <1>1 DEF HooksKnow, HookKnows
<1>4. \A g \in Hooks : ToSend(g)' = ToSend(g)
  BY <1>1 DEF ToSend
<1>5. SpoolTypeOK'
  BY <1>1, <1>2 DEF SpoolTypeOK
<1>6. LinesAreSpooled'
  BY <1>1, NothingRead DEF LinesAreSpooled, Settled, Spooled
<1>7. HooksKnow'
  BY <1>1, <1>2, <1>3, <1>4 DEF HooksKnow, HookKnows, Settled
<1>8. \A r : OnDisk(r)' <=>
         r \in ToSet(kept[h]) \/ \E g \in Hooks : hook[g] = "write" /\ r \in ToSet(kept[g])
  BY <1>1, <1>2, NothingRead DEF OnDisk
<1>9. LossNeedsAnOverwrite'
  <2> SUFFICES ASSUME "lost" \notin excuse', NEW r \in Spooled, r \notin stored \cup trimmed
               PROVE  OnDisk(r)'
    BY <1>1 DEF LossNeedsAnOverwrite, NothingVanishes, Spooled
  <2>1. OnDisk(r) /\ spool = text[h]
    BY <1>1 DEF LossNeedsAnOverwrite, NothingVanishes
  <2>2. r # Torn
    BY RecordsAre DEF Spooled
  <2>3. CASE r \in ToSet(spool)
    BY <2>1, <2>2, <2>3, <1>3, <1>8 DEF RecordsOf, Settled
  <2> QED
    BY <2>1, <2>3, <1>8 DEF OnDisk
<1>10. FilesAreSorted' /\ StoredInOrder' /\ TwiceNeedsAFault'
  BY <1>1, NothingRead DEF FilesAreSorted, StoredInOrder, TwiceNeedsAFault, Spooled
<1>11. DrainsSeeAll'
  BY <1>1, <1>2 DEF DrainsSeeAll, Settled
<1>12. OneCopy'
  <2> SUFFICES ASSUME excuse' = {}
               PROVE  OneCopy'
    BY DEF OneCopy
  <2>1. excuse = {} /\ spool = text[h]
    BY <1>1
  <2>2. \A g \in Hooks : hook[g] = "write" => ToSet(kept[g]) \cap ToSet(kept[h]) = {}
    BY <2>1, <1>3 DEF OneCopy
  <2> QED
    BY <2>1, <2>2, <1>1, <1>2, NothingRead DEF OneCopy
<1>13. SentOnce'
  <2> SUFFICES ASSUME excuse' = {}
               PROVE  /\ \A r \in stored : OnDisk(r)' => \E g \in Hooks : Removing(g, r)'
                      /\ \A g \in Hooks : hook'[g] = "send" =>
                            /\ \A k \in DOMAIN ToSend(g)' \ acked[g] : ToSend(g)'[k] \notin stored
                            /\ \A f \in Hooks \ {g} : hook'[f] # "send"
    BY <1>1 DEF SentOnce
  <2>1. excuse = {} /\ spool = text[h]
    BY <1>1
  <2>2. \A g \in Hooks \ {h} : \A r : Removing(g, r) => Removing(g, r)'
    BY <1>1, <1>2, <1>4 DEF Removing
  <2>3. ASSUME NEW r \in stored, OnDisk(r)'
        PROVE  OnDisk(r) /\ ~Removing(h, r)
    <3>1. CASE r \in ToSet(kept[h])
      BY <3>1, <2>1, <1>1, <1>3 DEF OnDisk, Removing
    <3>2. ASSUME NEW g \in Hooks, hook[g] = "write", r \in ToSet(kept[g])
          PROVE  OnDisk(r) /\ ~Removing(h, r)
      BY <3>2, <2>1, <1>1 DEF OnDisk, Removing, OneCopy
    <3> QED
      BY <3>1, <3>2, <2>3, <1>8
  <2>4. \A r \in stored : OnDisk(r)' => \E g \in Hooks : Removing(g, r)'
    BY <2>1, <2>2, <2>3 DEF SentOnce
  <2> QED
    BY <2>1, <2>4, <1>2, <1>4 DEF SentOnce
<1> QED
  BY <1>5, <1>6, <1>7, <1>9, <1>10, <1>11, <1>12, <1>13

LEMMA LinesJoined ==
    ASSUME NEW s \in Seq(Lines), NEW t \in Seq(Lines)
    PROVE  s \o t \in Seq(Lines) /\ ToSet(s \o t) \subseteq ToSet(s) \cup ToSet(t)
<1>1. /\ s \o t \in Seq(Lines) /\ Len(s \o t) = Len(s) + Len(t)
      /\ \A i \in 1..Len(s) + Len(t) :
            (s \o t)[i] = IF i <= Len(s) THEN s[i] ELSE t[i - Len(s)]
  BY ConcatProperties
<1>2. /\ DOMAIN (s \o t) = 1..Len(s) + Len(t) /\ DOMAIN s = 1..Len(s) /\ DOMAIN t = 1..Len(t)
      /\ Len(s) \in Nat /\ Len(t) \in Nat
  BY <1>1
<1>3. ASSUME NEW i \in 1..Len(s) + Len(t)
      PROVE  (s \o t)[i] \in ToSet(s) \cup ToSet(t)
  <2>1. CASE i <= Len(s)
    BY <2>1, <1>1, <1>2 DEF ToSet
  <2>2. CASE ~(i <= Len(s))
    <3>1. i - Len(s) \in 1..Len(t)
      BY <2>2, <1>2
    <3> QED
      BY <3>1, <2>2, <1>1, <1>2 DEF ToSet
  <2> QED
    BY <2>1, <2>2
<1> QED
  BY <1>1, <1>2, <1>3 DEF ToSet

LEMMA WriteBackKeeps ==
    ASSUME SpoolInv, NEW h \in Hooks, WriteBack(h)
    PROVE  SpoolInv'
<1> USE DEF SpoolInv
<1>1. /\ hook[h] = "write" /\ hook' = [hook EXCEPT ![h] = "idle"]
      /\ text' = [text EXCEPT ![h] = << >>] /\ kept' = [kept EXCEPT ![h] = << >>]
      /\ UNCHANGED <<spooled, acked, abandoned, stored, twice, trimmed>>
      /\ spool \in Seq(Lines) /\ kept[h] \in Seq(Records) /\ kept[h] \in Seq(Lines)
  BY DEF WriteBack, At, SpoolTypeOK, Lines
<1>2. /\ \A g \in Hooks \ {h} : hook'[g] = hook[g] /\ text'[g] = text[g] /\ kept'[g] = kept[g]
                                /\ ToSend(g)' = ToSend(g)
      /\ hook'[h] = "idle" /\ text'[h] = << >> /\ kept'[h] = << >>
      /\ hook' \in [Hooks -> {"idle", "ceiling", "send", "replace", "write"}]
      /\ text' \in [Hooks -> Seq(Lines)] /\ kept' \in [Hooks -> Seq(Records)]
  BY <1>1 DEF SpoolTypeOK, ToSend
\* Either one of the two is empty, or something may be lost.
<1>3. /\ spool' \in Seq(Lines) /\ excuse \subseteq excuse'
      /\ RecordsOf(spool') \subseteq RecordsOf(spool) \cup ToSet(kept[h])
      /\ excuse' \subseteq {"lost", "repeated", "reordered"}
      /\ \/ spool' = spool /\ kept[h] = << >> /\ excuse' = excuse
         \/ spool' = kept[h] /\ spool = << >> /\ excuse' = excuse
         \/ "lost" \in excuse'
  <2>1. CASE kept[h] = << >> \/ spool = << >>
    <3>1. spool' = kept[h] \o spool /\ excuse' = excuse
      BY <2>1 DEF WriteBack
    <3>2. \/ spool' = spool /\ kept[h] = << >>
          \/ spool' = kept[h] /\ spool = << >>
      <4>1. kept[h] \o << >> = kept[h] /\ << >> \o spool = spool
        BY <1>1, ConcatEmptySeq
      <4>2. CASE kept[h] = << >>
        BY <4>1, <4>2, <3>1
      <4>3. CASE spool = << >>
        BY <4>1, <4>3, <3>1
      <4> QED
        BY <2>1, <4>2, <4>3
    <3> QED
      BY <3>1, <3>2, <1>1 DEF RecordsOf, SpoolTypeOK
  <2>2. CASE ~(kept[h] = << >> \/ spool = << >>)
    <3>1. PICK over \in 1..Len(spool), piece \in {<< >>, <<Torn>>} :
             spool' = piece \o kept[h] \o ReadSpool(SubSeq(spool, over + 1, Len(spool)))
      BY <2>2 DEF WriteBack
    <3> DEFINE rest == SubSeq(spool, over + 1, Len(spool))
               back == ReadSpool(rest)
    <3>2. rest \in Seq(Lines) /\ ToSet(rest) \subseteq ToSet(spool)
      <4>1. /\ rest \in Seq(Lines) /\ Len(rest) = Len(spool) - over /\ Len(spool) \in Nat
            /\ \A k \in 1..(Len(spool) - over) : rest[k] = spool[k + over]
            /\ DOMAIN rest = 1..(Len(spool) - over) /\ DOMAIN spool = 1..Len(spool)
        BY <1>1
      <4>2. \A k \in 1..(Len(spool) - over) : k + over \in 1..Len(spool)
        BY <4>1
      <4> HIDE DEF rest
      <4> QED
        BY <4>1, <4>2, <1>1 DEF ToSet
    <3> HIDE DEF rest
    <3>3. back \in Seq(Records) /\ ToSet(back) = RecordsOf(rest)
      BY <3>2, WhatIsRead
    <3> HIDE DEF back
    <3>4. back \in Seq(Lines) /\ piece \in Seq(Lines) /\ ToSet(piece) \subseteq {Torn}
      <4>1. back \in Seq(Lines) /\ << >> \in Seq(Lines) /\ <<Torn>> \in Seq(Lines)
        BY <3>3 DEF Lines
      <4>2. ToSet(<<Torn>>) = {Torn}
        BY DEF ToSet
      <4> QED
        BY <4>1, <4>2, NothingRead
    <3>5. /\ piece \o kept[h] \in Seq(Lines)
          /\ ToSet(piece \o kept[h]) \subseteq ToSet(piece) \cup ToSet(kept[h])
      BY <3>4, <1>1, LinesJoined
    <3>6. /\ spool' \in Seq(Lines)
          /\ ToSet(spool') \subseteq ToSet(piece \o kept[h]) \cup ToSet(back)
      BY <3>1, <3>4, <3>5, LinesJoined DEF back, rest
    <3>7. /\ "lost" \in excuse' /\ excuse \subseteq excuse'
          /\ excuse' \subseteq {"lost", "repeated", "reordered"}
      BY <2>2 DEF WriteBack, SpoolTypeOK
    <3> QED
      BY <3>2, <3>3, <3>4, <3>5, <3>6, <3>7 DEF RecordsOf
  <2> QED
    BY <2>1, <2>2
<1>4. SpoolTypeOK'
  BY <1>1, <1>2, <1>3 DEF SpoolTypeOK
<1>5. LinesAreSpooled'
  <2>1. ToSet(kept[h]) \subseteq RecordsOf(kept[h])
    BY <1>1, RecordsAre DEF RecordsOf, ToSet
  <2> QED
    BY <2>1, <1>1, <1>2, <1>3, NothingRead DEF LinesAreSpooled, Settled, Spooled
<1>6. HooksKnow'
  <2> SUFFICES ASSUME NEW g \in Hooks
               PROVE  HookKnows(g)'
    BY DEF HooksKnow
  <2>1. CASE g = h
    BY <2>1, <1>1, <1>2 DEF HooksKnow, HookKnows
  <2>2. CASE g # h
    BY <2>2, <1>1, <1>2 DEF HooksKnow, HookKnows, Settled
  <2> QED
    BY <2>1, <2>2
<1>7. CASE "lost" \in excuse'
  BY <1>4, <1>5, <1>6, <1>7 DEF LossNeedsAnOverwrite, FilesAreSorted, DrainsSeeAll,
     StoredInOrder, OneCopy, SentOnce, TwiceNeedsAFault
<1>8. CASE /\ \/ spool' = spool /\ kept[h] = << >>
              \/ spool' = kept[h] /\ spool = << >>
           /\ excuse' = excuse
  <2>1. ToSet(spool') = ToSet(spool) \cup ToSet(kept[h])
    BY <1>8, NothingRead
  <2>2. \A r : OnDisk(r)' <=> OnDisk(r)
    BY <2>1, <1>1, <1>2 DEF OnDisk
  <2>3. LossNeedsAnOverwrite' /\ StoredInOrder' /\ TwiceNeedsAFault'
    BY <2>2, <1>1, <1>8 DEF LossNeedsAnOverwrite, NothingVanishes, StoredInOrder,
                            TwiceNeedsAFault, Spooled
  <2>4. FilesAreSorted'
    BY <1>2, <1>8, NothingRead DEF FilesAreSorted
  <2>5. DrainsSeeAll'
    <3>1. \A g \in Hooks : hook'[g] = "send" => hook[g] = "send" /\ text'[g] = text[g]
      BY <1>2
    <3> QED
      BY <3>1, <1>1, <1>8 DEF DrainsSeeAll, Settled
  <2>6. OneCopy'
    BY <2>1, <1>1, <1>2, <1>8, NothingRead DEF OneCopy
  <2>7. SentOnce'
    <3>1. \A g \in Hooks : \A r : Removing(g, r) => Removing(g, r)'
      BY <1>1, <1>2 DEF Removing
    <3>2. \A g \in Hooks : hook'[g] = "send" => g # h /\ hook[g] = "send" /\ ToSend(g)' = ToSend(g)
      BY <1>2
    <3> QED
      BY <3>1, <3>2, <2>2, <1>1, <1>8 DEF SentOnce
  <2> QED
    BY <1>4, <1>5, <1>6, <2>3, <2>4, <2>5, <2>6, <2>7
<1> QED
  BY <1>3, <1>7, <1>8

LEMMA KillKeeps ==
    ASSUME SpoolInv, NEW h \in Hooks, Kill(h)
    PROVE  SpoolInv'
<1> USE DEF SpoolInv
<1>1. /\ hook[h] # "idle" /\ hook' = [hook EXCEPT ![h] = "idle"]
      /\ text' = [text EXCEPT ![h] = << >>] /\ kept' = [kept EXCEPT ![h] = << >>]
      /\ acked' = [acked EXCEPT ![h] = {}] /\ abandoned' = [abandoned EXCEPT ![h] = {}]
      /\ excuse \subseteq excuse' /\ excuse' \subseteq excuse \cup {"lost", "repeated"}
      /\ "lost" \notin excuse' => hook[h] # "write"
      /\ "repeated" \notin excuse' => acked[h] = {} /\ hook[h] # "replace"
      /\ UNCHANGED <<spool, spooled, stored, twice, trimmed>>
  BY DEF Kill, At
<1>2. /\ \A g \in Hooks \ {h} : /\ hook'[g] = hook[g] /\ text'[g] = text[g]
                                /\ kept'[g] = kept[g] /\ acked'[g] = acked[g]
                                /\ abandoned'[g] = abandoned[g] /\ ToSend(g)' = ToSend(g)
      /\ hook'[h] = "idle" /\ text'[h] = << >> /\ kept'[h] = << >>
      /\ acked'[h] = {} /\ abandoned'[h] = {}
      /\ hook' \in [Hooks -> {"idle", "ceiling", "send", "replace", "write"}]
      /\ text' \in [Hooks -> Seq(Lines)] /\ kept' \in [Hooks -> Seq(Records)]
      /\ acked' \in [Hooks -> SUBSET (Nat \ {0})] /\ abandoned' \in [Hooks -> SUBSET Hooks]
  BY <1>1 DEF SpoolTypeOK, ToSend
<1>3. SpoolTypeOK'
  BY <1>1, <1>2 DEF SpoolTypeOK
<1>4. LinesAreSpooled'
  BY <1>1, <1>2, NothingRead DEF LinesAreSpooled, Settled, Spooled
<1>5. HooksKnow'
  <2> SUFFICES ASSUME NEW g \in Hooks
               PROVE  HookKnows(g)'
    BY DEF HooksKnow
  <2>1. CASE g = h
    BY <2>1, <1>2 DEF HookKnows
  <2>2. CASE g # h
    BY <2>2, <1>1, <1>2 DEF HooksKnow, HookKnows, Settled
  <2> QED
    BY <2>1, <2>2
<1>6. \A r : OnDisk(r)' => OnDisk(r)
  BY <1>1, <1>2 DEF OnDisk
<1>7. LossNeedsAnOverwrite'
  <2>1. hook[h] # "write" => \A r : OnDisk(r) => OnDisk(r)'
    BY <1>1, <1>2 DEF OnDisk
  <2> QED
    BY <2>1, <1>1 DEF LossNeedsAnOverwrite, NothingVanishes, Spooled
<1>8. FilesAreSorted' /\ OneCopy'
  BY <1>1, <1>2, NothingRead DEF FilesAreSorted, OneCopy
<1>9. DrainsSeeAll'
  <2>1. \A g \in Hooks : hook'[g] = "send" => hook[g] = "send" /\ text'[g] = text[g]
    BY <1>2
  <2> QED
    BY <2>1, <1>1 DEF DrainsSeeAll, Settled
<1>10. StoredInOrder' /\ TwiceNeedsAFault'
  BY <1>1 DEF StoredInOrder, TwiceNeedsAFault, Spooled
<1>11. SentOnce'
  <2> SUFFICES ASSUME excuse' = {}
               PROVE  SentOnce'
    BY DEF SentOnce
  <2>1. excuse = {} /\ acked[h] = {} /\ hook[h] # "replace"
    BY <1>1
  <2>2. \A g \in Hooks : \A r : Removing(g, r) => Removing(g, r)'
    BY <2>1, <1>2 DEF Removing
  <2>3. \A g \in Hooks : hook'[g] = "send" =>
           g # h /\ hook[g] = "send" /\ ToSend(g)' = ToSend(g) /\ acked'[g] = acked[g]
    BY <1>2
  <2> QED
    BY <2>1, <2>2, <2>3, <1>1, <1>6 DEF SentOnce
<1> QED
  BY <1>3, <1>4, <1>5, <1>7, <1>8, <1>9, <1>10, <1>11

LEMMA SpoolStep == SpoolInv /\ [SpoolNext]_spoolVars => SpoolInv'
<1> SUFFICES ASSUME SpoolInv, [SpoolNext]_spoolVars
             PROVE  SpoolInv'
  OBVIOUS
<1>1. CASE SpoolNext
  BY <1>1, AppendRecordKeeps, EnforceCeilingKeeps, StartDrainKeeps, SendAcceptedKeeps,
     FailingKeeps, SendUnansweredKeeps, EndDrainKeeps, EmptyKeeps, WriteBackKeeps, KillKeeps
     DEF SpoolNext, HookStep, Send
<1>2. CASE UNCHANGED spoolVars
  <2>1. SpoolTypeOK' /\ LinesAreSpooled' /\ HooksKnow'
    BY <1>2 DEF SpoolInv, spoolVars, SpoolTypeOK, LinesAreSpooled, HooksKnow, HookKnows,
                ToSend, Settled, Spooled
  <2>2. LossNeedsAnOverwrite' /\ FilesAreSorted' /\ DrainsSeeAll' /\ StoredInOrder'
    BY <1>2 DEF SpoolInv, spoolVars, LossNeedsAnOverwrite, NothingVanishes, FilesAreSorted,
                DrainsSeeAll, StoredInOrder, OnDisk, Settled, Spooled
  <2>3. OneCopy' /\ SentOnce' /\ TwiceNeedsAFault'
    BY <1>2 DEF SpoolInv, spoolVars, OneCopy, SentOnce, TwiceNeedsAFault, OnDisk, Removing, ToSend
  <2> QED
    BY <2>1, <2>2, <2>3 DEF SpoolInv
<1> QED
  BY <1>1, <1>2

LEMMA SpoolInvariance == SpoolSpec => []SpoolInv
<1> QED
  BY SpoolStarts, SpoolStep, PTL DEF SpoolSpec

\* A record is in the file, or stored, or was trimmed, unless a hook has put
\* the file back over what came in meanwhile or was killed as it did, for any
\* number of hooks at the file.
THEOREM NothingLostAlone == SpoolSpec => []LossNeedsAnOverwrite
<1>1. SpoolInv => LossNeedsAnOverwrite
  BY DEF SpoolInv
<1> QED
  BY <1>1, SpoolInvariance, PTL

\* Without a lost answer, a kill or a meeting of two hooks every record is
\* stored at most once.
THEOREM OnceWithoutFault == SpoolSpec => []TwiceNeedsAFault
<1>1. SpoolInv => TwiceNeedsAFault
  BY DEF SpoolInv
<1> QED
  BY <1>1, SpoolInvariance, PTL

\* A session's calls are stored in their order through any failed, repeated or
\* refused batches, unless a file was put back over others' records or drained
\* while it was being put back.
THEOREM CallsStayInOrder == SpoolSpec => []StoredInOrder
<1>1. SpoolInv => StoredInOrder
  BY DEF SpoolInv
<1> QED
  BY <1>1, SpoolInvariance, PTL
=============================================================================
