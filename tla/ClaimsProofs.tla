---------------------------- MODULE ClaimsProofs ----------------------------
(***************************************************************************)
(* Theorems about Claims for every number of calls, sessions, items and    *)
(* settings: its types, the two uniqueness rules of live assignments, who  *)
(* may be displaced, and that it implements Ownership.                     *)
(*                                                                         *)
(* The uniqueness rules are not inductive: whether a commit keeps them     *)
(* depends on what other transactions have pending.  The invariant says    *)
(* that two clashing rows, one committed and one pending, always belong to *)
(* one transaction, so no commit and no rollback by anyone else can bring  *)
(* both into the table.                                                    *)
(***************************************************************************)
EXTENDS Claims, TLAPS

\* Two live rows that one of the unique indexes forbids together.
Clash(r, n) == Live(n) /\ Conflicts(r, n)

SameKey(r, s) == r.item = s.item /\ r.session = s.session /\ r.role = s.role

-----------------------------------------------------------------------------
(* The inductive invariant.                                                *)

\* A call that is about to write a row knows one that exists.
RequestOK(t) ==
    /\ pc[t] \in {"insert", "evict", "recheck", "reinsert"} =>
          NewRow(t) \in Assignment
    /\ pc[t] \in {"release", "beat", "stamp", "take"} =>
          req[t].row \in Ids /\ rows[req[t].row] # None
    /\ pc[t] \in {"beat", "stamp"} => req[t].at \in Times
    /\ pc[t] = "take" => req[t].session \in Sessions
    /\ \A m \in req[t].todo : rows[m.row] # None

RequestsOK == \A t \in Txns : RequestOK(t)

\* A pending version is a later version of the committed row, and there is
\* one only while the row is locked.
VersionsOK ==
    \A i \in Ids :
        /\ owner[i] = None => pend[i] = rows[i]
        /\ rows[i] # None =>
              /\ pend[i] # None
              /\ SameKey(pend[i], rows[i])
              /\ Live(pend[i]) => Live(rows[i])

IndexesOK ==
    \A i, j \in Ids : i # j =>
        /\ ~Clash(rows[i], rows[j])
        /\ ~Clash(pend[i], pend[j])
        /\ Clash(rows[i], pend[j]) => owner[i] = owner[j] /\ owner[i] # None

IInv == TypeOK /\ RequestsOK /\ VersionsOK /\ IndexesOK

-----------------------------------------------------------------------------
(* Clashes.                                                                *)

\* Clashing is mutual: the unique indexes do not order the two rows.
LEMMA ClashSymmetric ==
    ASSUME NEW r, NEW n, Clash(r, n)
    PROVE  Clash(n, r)
  BY DEF Clash, Conflicts, Live

\* A row clashes with whatever the row it replaces clashes with, the key being
\* the same.
LEMMA ClashInherited ==
    ASSUME NEW r, NEW s, NEW n, Clash(s, n), Live(r), SameKey(r, s)
    PROVE  Clash(r, n)
  BY DEF Clash, Conflicts, Live, SameKey

-----------------------------------------------------------------------------
(* The indexes, by what a step does to the row versions.                   *)

\* A later version of one row: no new clash.
LEMMA UpdateKeepsIndexes ==
    ASSUME TypeOK, IndexesOK,
           NEW t \in Txns, NEW i \in Ids, NEW r,
           Write(t, i, r), rows' = rows,
           SameKey(r, pend[i]), Live(r) => Live(pend[i])
    PROVE  IndexesOK'
  <1>1. ASSUME NEW n, Clash(r, n)
        PROVE  Clash(pend[i], n)
    <2>1. Live(r)
      BY <1>1, ClashSymmetric DEF Clash
    <2>2. SameKey(pend[i], r)
      BY DEF SameKey
    <2> QED
      BY <1>1, <2>1, <2>2, ClashInherited
  <1>2. ASSUME NEW n, Clash(n, r)
        PROVE  Clash(n, pend[i])
    BY <1>1, <1>2, ClashSymmetric
  <1>3. pend'[i] = r /\ owner'[i] = t /\ owner[i] \in {None, t}
    BY DEF Write, Free, TypeOK
  <1>4. \A j \in Ids : j # i => pend'[j] = pend[j] /\ owner'[j] = owner[j]
    BY DEF Write, TypeOK
  <1> SUFFICES ASSUME NEW j \in Ids, NEW k \in Ids, j # k
               PROVE  /\ ~Clash(rows[j], rows[k])
                      /\ ~Clash(pend'[j], pend'[k])
                      /\ Clash(rows[j], pend'[k]) =>
                            owner'[j] = owner'[k] /\ owner'[j] # None
    BY DEF IndexesOK, Clash, Conflicts, Live
  <1>5. ~Clash(rows[j], rows[k])
    BY DEF IndexesOK
  <1>6. ~Clash(pend'[j], pend'[k])
    BY <1>1, <1>2, <1>3, <1>4 DEF IndexesOK
  <1>7. Clash(rows[j], pend'[k]) =>
            owner'[j] = owner'[k] /\ owner'[j] # None
    BY <1>2, <1>3, <1>4 DEF IndexesOK
  <1> QED
    BY <1>5, <1>6, <1>7

\* A new row: the insert waited for every pending write that could clash.
LEMMA InsertKeepsIndexes ==
    ASSUME TypeOK, VersionsOK, IndexesOK,
           NEW t \in Txns, NEW i \in Ids, ClaimInsert(t, i)
    PROVE  IndexesOK'
  <1> DEFINE n == NewRow(t)
  <1>1. \A j \in Ids : ~Conflicts(View(t, j), n)
    BY DEF ClaimInsert
  <1>2. ASSUME NEW j \in Ids
        PROVE  ~Clash(pend[j], n) /\ (Clash(rows[j], n) => owner[j] = t)
    <2>1. CASE owner[j] = t
      BY <2>1, <1>1 DEF View, Clash
    <2>2. CASE owner[j] # t /\ pend[j] = rows[j]
      BY <2>2, <1>1 DEF View, Clash
    <2>3. CASE owner[j] # t /\ pend[j] # rows[j]
      <3>1. ~Free(t, j)
        BY <2>3 DEF Free, VersionsOK
      <3> QED
        BY <2>3, <3>1 DEF ClaimInsert, Blockers, Clash
    <2> QED
      BY <2>1, <2>2, <2>3
  <1>3. pend'[i] = n /\ owner'[i] = t /\ rows' = rows /\ rows[i] = None
    BY DEF ClaimInsert, Write, TypeOK
  <1>4. \A j \in Ids : j # i => pend'[j] = pend[j] /\ owner'[j] = owner[j]
    BY DEF ClaimInsert, Write, TypeOK
  <1>5. t # None
    BY ConstantsAssumption
  <1>6. \A s : ~Clash(rows[i], s)
    BY <1>3 DEF Clash, Conflicts, Live
  <1>7. \A j \in Ids : ~Clash(n, pend[j])
    BY <1>2, ClashSymmetric
  <1> HIDE DEF n
  <1> SUFFICES ASSUME NEW j \in Ids, NEW k \in Ids, j # k
               PROVE  /\ ~Clash(rows[j], rows[k])
                      /\ ~Clash(pend'[j], pend'[k])
                      /\ Clash(rows[j], pend'[k]) =>
                            owner'[j] = owner'[k] /\ owner'[j] # None
    BY <1>3 DEF IndexesOK, Clash, Conflicts, Live
  <1>8. ~Clash(rows[j], rows[k])
    BY DEF IndexesOK
  <1>9. ~Clash(pend'[j], pend'[k])
    BY <1>2, <1>3, <1>4, <1>7 DEF IndexesOK
  <1>10. Clash(rows[j], pend'[k]) =>
            owner'[j] = owner'[k] /\ owner'[j] # None
    BY <1>2, <1>3, <1>4, <1>5, <1>6 DEF IndexesOK
  <1> QED
    BY <1>8, <1>9, <1>10

\* Holders that end: no new clash.
LEMMA EndingKeepsIndexes ==
    ASSUME IndexesOK, UNCHANGED <<rows, owner>>,
           \A i \in Ids : pend'[i] = pend[i] \/ ~Live(pend'[i])
    PROVE  IndexesOK'
  BY DEF IndexesOK, Clash, Conflicts

\* A lock more: only a locked row has a pending version of its own.
LEMMA LockKeepsIndexes ==
    ASSUME TypeOK, VersionsOK, IndexesOK,
           NEW t \in Txns, NEW i \in Ids, owner[i] = None,
           owner' = [owner EXCEPT ![i] = t], UNCHANGED <<rows, pend>>
    PROVE  IndexesOK'
  <1>1. owner'[i] = t /\ \A j \in Ids : j # i => owner'[j] = owner[j]
    BY DEF TypeOK
  <1>2. ASSUME NEW j \in Ids, NEW k \in Ids, j # k, Clash(rows[j], pend[k])
        PROVE  owner'[j] = owner'[k] /\ owner'[j] # None
    <2>1. owner[j] = owner[k] /\ owner[j] # None
      BY <1>2 DEF IndexesOK
    <2> QED
      BY <1>1, <2>1
  <1> QED
    BY <1>2 DEF IndexesOK, Clash, Conflicts, Live

\* A commit publishes rows that clash with nothing committed: what clashes with
\* one of them is pending in the same transaction.
LEMMA CommitKeepsIndexes ==
    ASSUME TypeOK, IndexesOK, NEW t \in Txns, End(t),
           rows' = [i \in Ids |-> View(t, i)], pend' = pend
    PROVE  IndexesOK'
  <1>1. \A i \in Ids : rows'[i] = IF owner[i] = t THEN pend[i] ELSE rows[i]
    BY DEF View
  <1>2. \A i \in Ids : owner'[i] = IF owner[i] = t THEN None ELSE owner[i]
    BY DEF End
  <1> SUFFICES ASSUME NEW j \in Ids, NEW k \in Ids, j # k
               PROVE  /\ ~Clash(rows'[j], rows'[k])
                      /\ ~Clash(pend[j], pend[k])
                      /\ Clash(rows'[j], pend[k]) =>
                            owner'[j] = owner'[k] /\ owner'[j] # None
    BY DEF IndexesOK, Clash, Conflicts, Live
  <1>3. /\ ~Clash(rows[j], rows[k])
        /\ ~Clash(pend[j], pend[k])
        /\ Clash(rows[j], pend[k]) => owner[j] = owner[k] /\ owner[j] # None
        /\ Clash(rows[k], pend[j]) => owner[j] = owner[k] /\ owner[j] # None
    BY DEF IndexesOK
  <1>4. Clash(pend[j], rows[k]) => Clash(rows[k], pend[j])
    BY ClashSymmetric
  <1> QED
    BY <1>1, <1>2, <1>3, <1>4

\* A rollback puts committed versions back, which clash with nothing.
LEMMA DiscardKeepsIndexes ==
    ASSUME TypeOK, IndexesOK, NEW t \in Txns, Discard(t)
    PROVE  IndexesOK'
  <1>1. \A i \in Ids : pend'[i] = IF owner[i] = t THEN rows[i] ELSE pend[i]
    BY DEF Discard
  <1>2. \A i \in Ids : owner'[i] = IF owner[i] = t THEN None ELSE owner[i]
    BY DEF Discard, End
  <1> SUFFICES ASSUME NEW j \in Ids, NEW k \in Ids, j # k
               PROVE  /\ ~Clash(rows[j], rows[k])
                      /\ ~Clash(pend'[j], pend'[k])
                      /\ Clash(rows[j], pend'[k]) =>
                            owner'[j] = owner'[k] /\ owner'[j] # None
    BY DEF IndexesOK, Clash, Conflicts, Live, Discard
  <1>3. /\ ~Clash(rows[j], rows[k])
        /\ ~Clash(pend[j], pend[k])
        /\ Clash(rows[j], pend[k]) => owner[j] = owner[k] /\ owner[j] # None
        /\ Clash(rows[k], pend[j]) => owner[j] = owner[k] /\ owner[j] # None
    BY DEF IndexesOK
  <1>4. Clash(pend[j], rows[k]) => Clash(rows[k], pend[j])
    BY ClashSymmetric
  <1> QED
    BY <1>1, <1>2, <1>3, <1>4

-----------------------------------------------------------------------------
(* The row versions.                                                       *)

VersionsTyped ==
    /\ rows \in [Ids -> Assignment \cup {None}]
    /\ owner \in [Ids -> Txns \cup {None}]
    /\ pend \in [Ids -> Assignment \cup {None}]

RowsOK == VersionsTyped /\ VersionsOK /\ IndexesOK

\* SQL NULL is neither a row nor the name of anything.
LEMMA NoneIsNoRow == None \notin Assignment /\ None \notin Txns /\ None \notin Ids
  BY ConstantsAssumption

\* The pending version of a row that was read as committed is a row.
LEMMA PendingIsRow ==
    ASSUME TypeOK, VersionsOK, NEW i \in Ids, rows[i] # None
    PROVE  pend[i] \in Assignment
  BY DEF TypeOK, VersionsOK

\* An update by id of a row that exists keeps the versions and the indexes, if
\* it changes no key column and brings no row back to life.
LEMMA UpdateKeepsRows ==
    ASSUME TypeOK, VersionsOK, IndexesOK,
           NEW t \in Txns, NEW i \in Ids, NEW r \in Assignment,
           Write(t, i, r), rows' = rows, rows[i] # None,
           SameKey(r, pend[i]), Live(r) => Live(pend[i])
    PROVE  RowsOK'
  <1>1. VersionsTyped'
    BY DEF VersionsTyped, TypeOK, Write
  <1>2. VersionsOK'
    BY NoneIsNoRow DEF VersionsOK, TypeOK, Write, Free, SameKey
  <1>3. IndexesOK'
    BY UpdateKeepsIndexes
  <1> QED
    BY <1>1, <1>2, <1>3 DEF RowsOK

\* So does a claim's insert, by the conflicts it waited for.
LEMMA InsertKeepsRows ==
    ASSUME TypeOK, RequestsOK, VersionsOK, IndexesOK,
           NEW t \in Txns, NEW i \in Ids, ClaimInsert(t, i)
    PROVE  RowsOK'
  <1>1. NewRow(t) \in Assignment
    BY DEF ClaimInsert, RequestsOK, RequestOK
  <1>2. VersionsTyped'
    BY <1>1 DEF VersionsTyped, TypeOK, ClaimInsert, Write
  <1>3. VersionsOK'
    BY NoneIsNoRow DEF VersionsOK, TypeOK, ClaimInsert, Write, Free, SameKey
  <1>4. IndexesOK'
    BY InsertKeepsIndexes
  <1> QED
    BY <1>2, <1>3, <1>4 DEF RowsOK

\* So does a rollback,
LEMMA DiscardKeepsRows ==
    ASSUME TypeOK, VersionsOK, IndexesOK, NEW t \in Txns, Discard(t)
    PROVE  RowsOK'
  <1>1. VersionsTyped'
    BY DEF VersionsTyped, TypeOK, Discard, End
  <1>2. VersionsOK'
    BY DEF VersionsOK, TypeOK, Discard, End, SameKey
  <1> QED
    BY <1>1, <1>2, DiscardKeepsIndexes DEF RowsOK

\* and a commit, which takes no row out of the table either,
LEMMA CommitKeepsRows ==
    ASSUME TypeOK, VersionsOK, IndexesOK, NEW t \in Txns, Commit(t)
    PROVE  RowsOK' /\ \A i \in Ids : rows[i] # None => rows'[i] # None
  <1>1. VersionsTyped'
    BY DEF VersionsTyped, TypeOK, Commit, End, View
  <1>2. VersionsOK'
    BY DEF VersionsOK, TypeOK, Commit, End, View, SameKey
  <1>3. IndexesOK'
    BY CommitKeepsIndexes DEF Commit
  <1>4. \A i \in Ids : rows[i] # None => rows'[i] # None
    BY DEF VersionsOK, Commit, View
  <1> QED
    BY <1>1, <1>2, <1>3, <1>4 DEF RowsOK

\* and a lock taken by SELECT ... FOR UPDATE.
LEMMA LockKeepsRows ==
    ASSUME TypeOK, VersionsOK, IndexesOK,
           NEW t \in Txns, NEW i \in Ids, LockHolder(t, i)
    PROVE  RowsOK'
  <1>1. VersionsTyped'
    BY DEF VersionsTyped, TypeOK, LockHolder
  <1>2. VersionsOK'
    BY NoneIsNoRow DEF VersionsOK, TypeOK, LockHolder, SameKey
  <1>3. IndexesOK'
    BY LockKeepsIndexes DEF LockHolder
  <1> QED
    BY <1>1, <1>2, <1>3 DEF RowsOK

-----------------------------------------------------------------------------
(* What the calls write.                                                   *)

\* A row that is updated by field is the row with those fields.
LEMMA EndedRow ==
    ASSUME NEW r \in Assignment, NEW k \in EndKinds,
           NEW to \in Rungs \cup {"superseded"}, NEW by \in Sessions \cup {None},
           NEW n, n = [r EXCEPT !.liveness = to, !.supersededBy = by,
                                !.released = TRUE, !.ended = Append(@, k)]
    PROVE  n \in Assignment /\ SameKey(n, r) /\ ~Live(n)
  <1>1. Append(r.ended, k) \in Seq(EndKinds)
    BY DEF Assignment
  <1>2. n = [r EXCEPT !.liveness = to, !.supersededBy = by,
                      !.released = TRUE, !.ended = Append(r.ended, k)]
    BY DEF Assignment
  <1>3. n \in Assignment
    BY <1>1, <1>2 DEF Assignment
  <1>4. SameKey(n, r) /\ n.released
    BY <1>2 DEF Assignment, SameKey
  <1> QED
    BY <1>3, <1>4 DEF Live

\* An eviction ends the row and keeps its key.
LEMMA EvictedRow ==
    ASSUME NEW r \in Assignment
    PROVE  Evicted(r) \in Assignment /\ SameKey(Evicted(r), r) /\ ~Live(Evicted(r))
  <1>1. Evicted(r) = [r EXCEPT !.liveness = "dead",
                               !.supersededBy = r.supersededBy,
                               !.released = TRUE, !.ended = Append(@, "evict")]
    BY DEF Evicted, Assignment
  <1>2. r.supersededBy \in Sessions \cup {None}
    BY DEF Assignment
  <1> QED
    BY <1>1, <1>2, EndedRow DEF Rungs, EndKinds

\* A takeover ends the row and keeps its key.
LEMMA SupersededRow ==
    ASSUME NEW r \in Assignment, NEW by \in Sessions
    PROVE  /\ Superseded(r, by) \in Assignment
           /\ SameKey(Superseded(r, by), r)
           /\ ~Live(Superseded(r, by))
  BY EndedRow DEF Superseded, EndKinds

\* The sweep keeps the key, and brings no row back to life although it writes
\* over whatever was committed since it read.
LEMMA SweptRow ==
    ASSUME NEW t \in Txns, NEW m \in Move, pend[m.row] \in Assignment
    PROVE  /\ Swept(t, m) \in Assignment
           /\ SameKey(Swept(t, m), pend[m.row])
           /\ Live(Swept(t, m)) => Live(pend[m.row])
  <1> DEFINE r == pend[m.row]
  <1>1. CASE m.to = "dead"
    <2>1. Swept(t, m) = [r EXCEPT !.liveness = "dead",
                                  !.supersededBy = r.supersededBy,
                                  !.released = TRUE, !.ended = Append(@, "sweep")]
      BY <1>1 DEF Swept, Assignment
    <2>2. r.supersededBy \in Sessions \cup {None}
      BY DEF Assignment
    <2> QED
      BY <2>1, <2>2, EndedRow DEF Rungs, EndKinds
  <1>2. CASE m.to # "dead"
    <2>1. Swept(t, m) = [r EXCEPT !.liveness = m.to]
      BY <1>2 DEF Swept
    <2>2. m.to \in Rungs
      BY DEF Move
    <2> QED
      BY <2>1, <2>2, NoneIsNoRow DEF Assignment, SameKey, Live
  <1> QED
    BY <1>1, <1>2

\* A release ends the row and keeps its key.
LEMMA ReleasedRow ==
    ASSUME NEW r \in Assignment, NEW n,
           n = [r EXCEPT !.released = TRUE, !.ended = Append(@, "release")]
    PROVE  n \in Assignment /\ SameKey(n, r) /\ ~Live(n)
  <1>1. n = [r EXCEPT !.liveness = r.liveness, !.supersededBy = r.supersededBy,
                      !.released = TRUE, !.ended = Append(@, "release")]
    BY DEF Assignment
  <1>2. r.supersededBy \in Sessions \cup {None} /\ r.liveness \in Rungs \cup {"superseded"}
    BY DEF Assignment
  <1> QED
    BY <1>1, <1>2, EndedRow DEF EndKinds

\* A signal of life changes nothing the indexes are about.
LEMMA StampedRow ==
    ASSUME NEW r \in Assignment, NEW at \in Times, NEW n,
           n = [r EXCEPT !.lastActive = at]
    PROVE  n \in Assignment /\ SameKey(n, r) /\ (Live(n) => Live(r))
  BY NoneIsNoRow DEF Assignment, SameKey, Live

-----------------------------------------------------------------------------
(* The calls under way.                                                    *)

CallsTyped ==
    /\ clock \in Times
    /\ toolAt \in [Sessions -> Times \cup {NoTime}]
    /\ pc \in [Txns -> Waiting \cup {"idle"}]
    /\ req \in [Txns -> Request]

CallsOK == CallsTyped /\ RequestsOK

\* The invariant is a part about rows and a part about calls, in this state and
\* in the next.
LEMMA InvariantParts ==
    /\ IInv <=> RowsOK /\ CallsOK
    /\ IInv' <=> RowsOK' /\ CallsOK'
  BY DEF IInv, TypeOK, RowsOK, CallsOK, VersionsTyped, CallsTyped

\* A step that writes no row keeps the part about rows.
LEMMA RowsUnchanged ==
    ASSUME IInv, UNCHANGED <<rows, owner, pend>>
    PROVE  RowsOK'
  <1>1. RowsOK
    BY InvariantParts
  <1> QED
    BY <1>1 DEF RowsOK, VersionsTyped, VersionsOK, IndexesOK

\* A step of t leaves the other calls as they are.
LEMMA CallStep ==
    ASSUME IInv, NEW t \in Txns,
           NEW p \in Waiting \cup {"idle"}, NEW q \in Request,
           pc' = [pc EXCEPT ![t] = p], req' = [req EXCEPT ![t] = q],
           UNCHANGED <<clock, toolAt>>,
           \A i \in Ids : rows[i] # None => rows'[i] # None,
           RequestOK(t)'
    PROVE  CallsOK'
  <1>1. CallsTyped'
    BY DEF CallsTyped, IInv, TypeOK
  <1>2. \A u \in Txns : u # t => pc'[u] = pc[u] /\ req'[u] = req[u]
    BY DEF IInv, TypeOK
  <1>3. ASSUME NEW u \in Txns, u # t
        PROVE  RequestOK(u)'
    <2>1. NewRow(u)' = NewRow(u)
      BY <1>2, <1>3 DEF NewRow
    <2>2. RequestOK(u)
      BY DEF IInv, RequestsOK
    <2>3. \A m \in req[u].todo : m.row \in Ids
      BY DEF IInv, TypeOK, Request, Move
    <2> QED
      BY <1>2, <1>3, <2>1, <2>2, <2>3 DEF RequestOK
  <1> QED
    BY <1>1, <1>3 DEF CallsOK, RequestsOK

\* The same for a step that goes on with the request it has.
LEMMA NextStatement ==
    ASSUME IInv, NEW t \in Txns, NEW p \in Waiting,
           pc' = [pc EXCEPT ![t] = p], req' = req,
           UNCHANGED <<clock, toolAt, rows>>,
           RequestOK(t)'
    PROVE  CallsOK'
  <1>1. req' = [req EXCEPT ![t] = req[t]] /\ req[t] \in Request
    BY DEF IInv, TypeOK
  <1> QED
    BY <1>1, CallStep

\* A call that has ended asks for nothing.
LEMMA EndedCall ==
    ASSUME IInv, NEW t \in Txns,
           pc' = [pc EXCEPT ![t] = "idle"], req' = [req EXCEPT ![t] = NoRequest]
    PROVE  NoRequest \in Request /\ RequestOK(t)'
  <1>1. NoRequest \in Request
    BY DEF NoRequest, Request
  <1>2. pc'[t] = "idle" /\ req'[t] = NoRequest
    BY DEF IInv, TypeOK
  <1> QED
    BY <1>1, <1>2 DEF RequestOK, NoRequest

\* Rolling a call back keeps the invariant.
LEMMA DiscardStep ==
    ASSUME IInv, NEW t \in Txns, Discard(t)
    PROVE  IInv'
  <1>1. RowsOK'
    BY DiscardKeepsRows DEF IInv
  <1>2. NoRequest \in Request /\ RequestOK(t)'
    BY EndedCall DEF Discard, End
  <1>3. CallsOK'
    BY <1>2, CallStep DEF Discard, End
  <1> QED
    BY <1>1, <1>3, InvariantParts

\* Committing a call keeps the invariant.
LEMMA CommitStep ==
    ASSUME IInv, NEW t \in Txns, Commit(t)
    PROVE  IInv'
  <1>1. RowsOK' /\ \A i \in Ids : rows[i] # None => rows'[i] # None
    BY CommitKeepsRows DEF IInv
  <1>2. toolAt' \in [Sessions -> Times \cup {NoTime}]
    BY DEF Commit, IInv, TypeOK, Request
  <1>3. NoRequest \in Request /\ RequestOK(t)'
    BY EndedCall DEF Commit, End
  <1>4. CallsTyped'
    <2>1. /\ clock' = clock
          /\ pc' = [pc EXCEPT ![t] = "idle"]
          /\ req' = [req EXCEPT ![t] = NoRequest]
      BY DEF Commit, End
    <2> QED
      BY <1>2, <1>3, <2>1 DEF CallsTyped, IInv, TypeOK
  <1>5. ASSUME NEW u \in Txns, u # t
        PROVE  RequestOK(u)'
    <2>1. pc'[u] = pc[u] /\ req'[u] = req[u]
      BY <1>5 DEF Commit, End, IInv, TypeOK
    <2>2. NewRow(u)' = NewRow(u)
      BY <2>1 DEF NewRow
    <2>3. RequestOK(u) /\ \A m \in req[u].todo : m.row \in Ids
      BY DEF IInv, RequestsOK, TypeOK, Request, Move
    <2> QED
      BY <1>1, <2>1, <2>2, <2>3 DEF RequestOK
  <1> QED
    BY <1>1, <1>3, <1>4, <1>5, InvariantParts DEF CallsOK, RequestsOK

-----------------------------------------------------------------------------
(* Starting a call.                                                        *)

\* A call that starts writes nothing; its request is typed and knows its rows.
LEMMA StartStep ==
    ASSUME IInv, NEW t \in Txns, NEW p \in Waiting, NEW q \in Request,
           pc' = [pc EXCEPT ![t] = p], req' = [req EXCEPT ![t] = q],
           UNCHANGED <<clock, rows, owner, pend, toolAt>>,
           RequestOK(t)'
    PROVE  IInv'
  BY RowsUnchanged, CallStep, InvariantParts

\* The first statement of each operation keeps the invariant: claim,
LEMMA StartClaimStep ==
    ASSUME IInv, NEW t \in Txns, NEW s \in Sessions, NEW item \in Items,
           NEW role \in Roles, StartClaim(t, s, item, role)
    PROVE  IInv'
  <1> DEFINE now == IF SameCrew(t, item, s) THEN NoTime ELSE clock
             p == IF SameCrew(t, item, s) THEN "insert" ELSE "evict"
             q == [NoRequest EXCEPT !.item = item, !.session = s, !.role = role,
                                    !.at = clock, !.now = now, !.op = "claim"]
  <1>1. pc' = [pc EXCEPT ![t] = p] /\ req' = [req EXCEPT ![t] = q]
    BY DEF StartClaim, Begin, NoRequest
  <1>2. p \in {"insert", "evict"} /\ now \in Times \cup {NoTime} /\ clock \in Times
    BY DEF IInv, TypeOK
  <1> HIDE DEF p, now
  <1>3. q \in Request
    BY <1>2 DEF NoRequest, Request, AllOps
  <1>4. pc'[t] = p /\ req'[t] = q
    BY <1>1 DEF IInv, TypeOK
  <1>5. RequestOK(t)'
    <2>1. NewRow(t)' = [item |-> item, session |-> s, role |-> role,
                        liveness |-> "running", supersededBy |-> None,
                        claimedAt |-> clock, lastActive |-> clock,
                        released |-> FALSE, ended |-> <<>>]
      BY <1>4 DEF NewRow, NoRequest
    <2>2. NewRow(t)' \in Assignment
      BY <1>2, <2>1 DEF Assignment, Rungs
    <2>3. q.todo = {}
      BY DEF NoRequest
    <2> QED
      BY <1>2, <1>4, <2>2, <2>3 DEF RequestOK
  <1> QED
    BY <1>1, <1>2, <1>3, <1>5, StartStep DEF StartClaim, ReadOnly, Waiting

\* release,
LEMMA StartReleaseStep ==
    ASSUME IInv, NEW t \in Txns, NEW s \in Sessions, NEW i \in Ids,
           StartRelease(t, s, i)
    PROVE  IInv'
  <1> DEFINE q == [NoRequest EXCEPT !.session = s, !.row = i, !.op = "release"]
  <1>1. pc' = [pc EXCEPT ![t] = "release"] /\ req' = [req EXCEPT ![t] = q]
    BY DEF StartRelease, Begin, NoRequest
  <1>2. q \in Request
    BY DEF NoRequest, Request, AllOps
  <1>3. pc'[t] = "release" /\ req'[t] = q
    BY <1>1 DEF IInv, TypeOK
  <1>4. RequestOK(t)'
    BY <1>3 DEF RequestOK, NoRequest, StartRelease, Live
  <1> QED
    BY <1>1, <1>2, <1>4, StartStep DEF StartRelease, ReadOnly, Waiting

\* heartbeat,
LEMMA StartHeartbeatStep ==
    ASSUME IInv, NEW t \in Txns, NEW s \in Sessions, NEW i \in Ids,
           StartHeartbeat(t, s, i)
    PROVE  IInv'
  <1> DEFINE q == [NoRequest EXCEPT !.session = s, !.row = i, !.at = clock,
                                    !.op = "heartbeat"]
  <1>1. pc' = [pc EXCEPT ![t] = "beat"] /\ req' = [req EXCEPT ![t] = q]
    BY DEF StartHeartbeat, Begin, NoRequest
  <1>2. clock \in Times /\ q \in Request
    BY DEF NoRequest, Request, AllOps, IInv, TypeOK
  <1>3. pc'[t] = "beat" /\ req'[t] = q
    BY <1>1 DEF IInv, TypeOK
  <1>4. RequestOK(t)'
    BY <1>2, <1>3 DEF RequestOK, NoRequest, StartHeartbeat, Live
  <1> QED
    BY <1>1, <1>2, <1>4, StartStep DEF StartHeartbeat, ReadOnly, Waiting

\* tool calls,
LEMMA StartToolCallsStep ==
    ASSUME IInv, NEW t \in Txns, NEW s \in Sessions, NEW ts \in 1..clock,
           StartToolCalls(t, s, ts)
    PROVE  IInv'
  <1>1. PICK i \in NewestLive(s) \cup {None} :
          Begin(t, "tool_calls", IF i = None THEN "commit" ELSE "stamp",
                [NoRequest EXCEPT !.session = s, !.row = i, !.at = clock,
                                  !.call = ts])
    BY DEF StartToolCalls
  <1> DEFINE p == IF i = None THEN "commit" ELSE "stamp"
             q == [NoRequest EXCEPT !.session = s, !.row = i, !.at = clock,
                                    !.call = ts, !.op = "tool_calls"]
  <1>2. pc' = [pc EXCEPT ![t] = p] /\ req' = [req EXCEPT ![t] = q]
    BY <1>1 DEF Begin, NoRequest
  <1>3. i # None => i \in Ids /\ rows[i] # None
    BY DEF NewestLive, Live
  <1>4. clock \in Times /\ ts \in Times
    BY ConstantsAssumption DEF IInv, TypeOK, Times
  <1>5. q \in Request
    BY <1>3, <1>4 DEF NoRequest, Request, AllOps
  <1>6. pc'[t] = p /\ req'[t] = q
    BY <1>2 DEF IInv, TypeOK
  <1>7. RequestOK(t)'
    BY <1>3, <1>4, <1>6 DEF RequestOK, NoRequest, StartToolCalls
  <1> QED
    BY <1>2, <1>5, <1>7, StartStep DEF StartToolCalls, ReadOnly, Waiting

\* takeover
LEMMA StartTakeoverStep ==
    ASSUME IInv, NEW t \in Txns, NEW by \in Sessions, NEW from \in Sessions,
           NEW item \in Items, NEW force \in BOOLEAN,
           StartTakeover(t, by, from, item, force)
    PROVE  IInv'
  <1>1. PICK i \in LatestOf(item, from) :
          Begin(t, "takeover", "take",
                [NoRequest EXCEPT !.session = by, !.row = i, !.now = clock,
                                  !.force = force])
    BY DEF StartTakeover
  <1> DEFINE q == [NoRequest EXCEPT !.session = by, !.row = i, !.now = clock,
                                    !.force = force, !.op = "takeover"]
  <1>2. pc' = [pc EXCEPT ![t] = "take"] /\ req' = [req EXCEPT ![t] = q]
    BY <1>1 DEF Begin, NoRequest
  <1>3. i \in Ids /\ rows[i] # None /\ clock \in Times
    BY DEF LatestOf, IInv, TypeOK
  <1>4. q \in Request
    BY <1>3 DEF NoRequest, Request, AllOps
  <1>5. pc'[t] = "take" /\ req'[t] = q
    BY <1>2 DEF IInv, TypeOK
  <1>6. RequestOK(t)'
    BY <1>3, <1>5 DEF RequestOK, NoRequest, StartTakeover
  <1> QED
    BY <1>2, <1>4, <1>6, StartStep DEF StartTakeover, ReadOnly, Waiting

\* and sweep, whose moves are all on rows that exist.
LEMMA StartSweepStep ==
    ASSUME IInv, NEW t \in Txns, StartSweep(t)
    PROVE  IInv'
  <1> DEFINE q == [NoRequest EXCEPT !.todo = Moves, !.op = "sweep"]
  <1>1. pc' = [pc EXCEPT ![t] = "sweep"] /\ req' = [req EXCEPT ![t] = q]
    BY DEF StartSweep, Begin, NoRequest
  <1>2. Moves \subseteq Move /\ \A m \in Moves : rows[m.row] # None
    BY DEF Moves, Move, SweepRung, LadderRung, Rungs, Live
  <1>3. q \in Request
    BY <1>2 DEF NoRequest, Request, AllOps
  <1>4. pc'[t] = "sweep" /\ req'[t] = q
    BY <1>1 DEF IInv, TypeOK
  <1>5. RequestOK(t)'
    BY <1>2, <1>4 DEF RequestOK, NoRequest, StartSweep
  <1> QED
    BY <1>1, <1>3, <1>5, StartStep DEF StartSweep, ReadOnly, Waiting

-----------------------------------------------------------------------------
(* The statements of a call.                                               *)

\* A statement that writes one row it read and goes on.
LEMMA UpdateStep ==
    ASSUME IInv, NEW t \in Txns, NEW i \in Ids, NEW r \in Assignment,
           NEW p \in Waiting, NEW q \in Request,
           Write(t, i, r), rows[i] # None,
           SameKey(r, pend[i]), Live(r) => Live(pend[i]),
           pc' = [pc EXCEPT ![t] = p], req' = [req EXCEPT ![t] = q],
           UNCHANGED <<clock, rows, toolAt>>,
           RequestOK(t)'
    PROVE  IInv'
  <1>1. RowsOK'
    BY UpdateKeepsRows DEF IInv
  <1>2. CallsOK'
    BY CallStep
  <1> QED
    BY <1>1, <1>2, InvariantParts

\* A call that only has to commit: nothing is asked of its request but that
\* the rows it knows exist.
LEMMA ReadyToCommit ==
    ASSUME IInv, NEW t \in Txns,
           pc' = [pc EXCEPT ![t] = "commit"], UNCHANGED <<req, rows>>
    PROVE  RequestOK(t)'
  <1>1. pc'[t] = "commit" /\ RequestOK(t)
    BY DEF IInv, TypeOK, RequestsOK
  <1> QED
    BY <1>1 DEF RequestOK

\* An update by id that is its call's last statement keeps the invariant.
LEMMA UpdateThenCommit ==
    ASSUME IInv, NEW t \in Txns, NEW i \in Ids, NEW r \in Assignment,
           Write(t, i, r), rows[i] # None,
           SameKey(r, pend[i]), Live(r) => Live(pend[i]),
           pc' = [pc EXCEPT ![t] = "commit"],
           UNCHANGED <<clock, rows, toolAt, req>>
    PROVE  IInv'
  <1>1. req' = [req EXCEPT ![t] = req[t]] /\ req[t] \in Request
    BY DEF IInv, TypeOK
  <1> QED
    BY <1>1, ReadyToCommit, UpdateStep DEF Waiting

\* A claim's insert keeps the invariant,
LEMMA ClaimInsertStep ==
    ASSUME IInv, NEW t \in Txns, NEW i \in Ids, ClaimInsert(t, i)
    PROVE  IInv'
  <1>1. RowsOK'
    BY InsertKeepsRows DEF IInv
  <1>2. CallsOK'
    BY ReadyToCommit, NextStatement DEF ClaimInsert, At, Waiting
  <1> QED
    BY <1>1, <1>2, InvariantParts

\* and so does one that finds the item held,
LEMMA ClaimConflictStep ==
    ASSUME IInv, NEW t \in Txns, ClaimConflict(t)
    PROVE  IInv'
  <1>1. CASE pc[t] = "insert"
    <2> DEFINE q == [req[t] EXCEPT !.now = clock]
    <2>1. pc' = [pc EXCEPT ![t] = "evict"] /\ req' = [req EXCEPT ![t] = q]
      BY <1>1 DEF ClaimConflict, At
    <2>2. q \in Request /\ pc'[t] = "evict" /\ req'[t] = q
      BY <2>1 DEF IInv, TypeOK, Request
    <2>3. UNCHANGED <<clock, rows, owner, pend, toolAt>>
      BY <1>1 DEF ClaimConflict, ReadOnly
    <2>4. RequestOK(t)'
      <3>1. RequestOK(t) /\ req[t] \in Request
        BY DEF IInv, RequestsOK, TypeOK
      <3>2. NewRow(t)' = NewRow(t) /\ q.todo = req[t].todo
        BY <2>2, <3>1 DEF NewRow, Request
      <3> QED
        BY <1>1, <2>2, <2>3, <3>1, <3>2 DEF RequestOK
    <2> QED
      BY <2>1, <2>2, <2>3, <2>4, StartStep DEF Waiting
  <1>2. CASE pc[t] # "insert"
    BY <1>2, DiscardStep DEF ClaimConflict
  <1> QED
    BY <1>1, <1>2

\* the lock on a holder to be judged,
LEMMA LockHolderStep ==
    ASSUME IInv, NEW t \in Txns, NEW i \in Ids, LockHolder(t, i)
    PROVE  IInv'
  <1>1. RowsOK'
    BY LockKeepsRows DEF IInv
  <1>2. CallsOK'
    BY DEF LockHolder, CallsOK, CallsTyped, RequestsOK, RequestOK, NewRow,
           IInv, TypeOK
  <1> QED
    BY <1>1, <1>2, InvariantParts

\* the eviction of the holders that were silent,
LEMMA ClaimEvictStep ==
    ASSUME IInv, NEW t \in Txns, ClaimEvict(t)
    PROVE  IInv'
  <1> DEFINE holders == LiveOn(t, req[t].item)
             stale == {i \in holders : Evictable(View(t, i), req[t].now)}
  <1>1. CASE stale = {}
    BY <1>1, DiscardStep DEF ClaimEvict
  <1>2. CASE stale # {}
    <2>1. /\ At(t, "evict", "recheck")
          /\ pend' = [i \in Ids |->
                IF i \in stale THEN Evicted(View(t, i)) ELSE pend[i]]
          /\ UNCHANGED <<clock, rows, owner, toolAt, req>>
      BY <1>2 DEF ClaimEvict
    <2>2. ASSUME NEW i \in stale
          PROVE  /\ owner[i] = t /\ View(t, i) = pend[i]
                 /\ pend[i] \in Assignment
                 /\ i \in Ids
      <3>1. i \in Ids /\ owner[i] = t /\ Live(View(t, i))
        BY DEF ClaimEvict, LiveOn
      <3> QED
        BY <3>1 DEF View, Live, IInv, TypeOK
    <2>3. ASSUME NEW i \in Ids
          PROVE  \/ i \notin stale /\ pend'[i] = pend[i]
                 \/ /\ owner[i] = t
                    /\ pend[i] \in Assignment
                    /\ pend'[i] \in Assignment
                    /\ SameKey(pend'[i], pend[i])
                    /\ ~Live(pend'[i])
      BY <2>1, <2>2, EvictedRow
    <2> HIDE DEF stale, holders
    <2>4. VersionsTyped'
      <3>1. pend' \in [Ids -> Assignment \cup {None}]
        BY <2>1, <2>3 DEF IInv, TypeOK
      <3> QED
        BY <2>1, <3>1 DEF VersionsTyped, IInv, TypeOK
    <2>5. VersionsOK'
      BY <2>1, <2>3, NoneIsNoRow DEF VersionsOK, IInv, TypeOK, SameKey
    <2>6. IndexesOK'
      BY <2>1, <2>3, EndingKeepsIndexes DEF IInv
    <2>7. CallsOK'
      <3>1. RequestOK(t) /\ pc[t] = "evict" /\ pc'[t] = "recheck"
        BY <2>1 DEF IInv, RequestsOK, TypeOK, At
      <3>2. RequestOK(t)'
        BY <2>1, <3>1 DEF RequestOK, NewRow
      <3> QED
        BY <2>1, <3>2, NextStatement DEF At, Waiting
    <2> QED
      BY <2>4, <2>5, <2>6, <2>7, InvariantParts DEF RowsOK
  <1> QED
    BY <1>1, <1>2

\* and the second look before the second insert.
LEMMA ClaimRecheckStep ==
    ASSUME IInv, NEW t \in Txns, ClaimRecheck(t)
    PROVE  IInv'
  <1>1. CASE SameCrew(t, req[t].item, req[t].session)
    <2>1. /\ At(t, "recheck", "reinsert")
          /\ UNCHANGED <<clock, rows, owner, pend, toolAt, req>>
      BY <1>1 DEF ClaimRecheck, ReadOnly
    <2>2. RequestOK(t) /\ pc[t] = "recheck" /\ pc'[t] = "reinsert"
      BY <2>1 DEF IInv, RequestsOK, TypeOK, At
    <2>3. RequestOK(t)'
      BY <2>1, <2>2 DEF RequestOK, NewRow
    <2>4. CallsOK'
      BY <2>1, <2>3, NextStatement DEF At, Waiting
    <2> QED
      BY <2>1, <2>4, RowsUnchanged, InvariantParts
  <1>2. CASE ~SameCrew(t, req[t].item, req[t].session)
    BY <1>2, DiscardStep DEF ClaimRecheck
  <1> QED
    BY <1>1, <1>2

\* The row a waiting call is about to write.
LEMMA ChosenRow ==
    ASSUME IInv, NEW t \in Txns, pc[t] \in {"release", "beat", "stamp", "take"}
    PROVE  /\ req[t].row \in Ids /\ rows[req[t].row] # None
           /\ pend[req[t].row] \in Assignment
           /\ pc[t] \in {"beat", "stamp"} => req[t].at \in Times
           /\ pc[t] = "take" => req[t].session \in Sessions
  <1>1. RequestOK(t)
    BY DEF IInv, RequestsOK
  <1> QED
    BY <1>1, PendingIsRow DEF RequestOK, IInv

\* The update of a release keeps the invariant,
LEMMA ReleaseStep ==
    ASSUME IInv, NEW t \in Txns, Release(t)
    PROVE  IInv'
  <1> DEFINE i == req[t].row
             r == [pend[i] EXCEPT !.released = TRUE, !.ended = Append(@, "release")]
  <1>1. /\ pc[t] = "release" /\ pc' = [pc EXCEPT ![t] = "commit"]
        /\ Write(t, i, r)
        /\ UNCHANGED <<clock, rows, toolAt, req>>
    BY DEF Release, At
  <1>2. i \in Ids /\ rows[i] # None /\ pend[i] \in Assignment
    BY <1>1, ChosenRow
  <1>3. r \in Assignment /\ SameKey(r, pend[i]) /\ ~Live(r)
    BY <1>2, ReleasedRow
  <1> QED
    BY <1>1, <1>2, <1>3, UpdateThenCommit

\* that of recorded tool calls,
LEMMA StampStep ==
    ASSUME IInv, NEW t \in Txns, Stamp(t)
    PROVE  IInv'
  <1> DEFINE i == req[t].row
             r == [pend[i] EXCEPT !.lastActive = req[t].at]
  <1>1. /\ pc[t] = "stamp" /\ pc' = [pc EXCEPT ![t] = "commit"]
        /\ Write(t, i, r)
        /\ UNCHANGED <<clock, rows, toolAt, req>>
    BY DEF Stamp, At
  <1>2. /\ i \in Ids /\ rows[i] # None /\ pend[i] \in Assignment
        /\ req[t].at \in Times
    BY <1>1, ChosenRow
  <1>3. r \in Assignment /\ SameKey(r, pend[i]) /\ (Live(r) => Live(pend[i]))
    BY <1>2, StampedRow
  <1> QED
    BY <1>1, <1>2, <1>3, UpdateThenCommit

\* of a heartbeat,
LEMMA HeartbeatStep ==
    ASSUME IInv, NEW t \in Txns, Heartbeat(t)
    PROVE  IInv'
  <1> DEFINE i == req[t].row
             r == [pend[i] EXCEPT !.lastActive = req[t].at]
  <1>1. CASE Live(pend[i])
    <2>1. /\ pc[t] = "beat" /\ pc' = [pc EXCEPT ![t] = "commit"]
          /\ Write(t, i, r)
          /\ UNCHANGED <<clock, rows, toolAt, req>>
      BY <1>1 DEF Heartbeat, At
    <2>2. /\ i \in Ids /\ rows[i] # None /\ pend[i] \in Assignment
          /\ req[t].at \in Times
      BY <2>1, ChosenRow
    <2>3. r \in Assignment /\ SameKey(r, pend[i]) /\ (Live(r) => Live(pend[i]))
      BY <2>2, StampedRow
    <2> QED
      BY <2>1, <2>2, <2>3, UpdateThenCommit
  <1>2. CASE ~Live(pend[i])
    BY <1>2, DiscardStep DEF Heartbeat
  <1> QED
    BY <1>1, <1>2

\* of a takeover
LEMMA TakeoverStep ==
    ASSUME IInv, NEW t \in Txns, Takeover(t)
    PROVE  IInv'
  <1> DEFINE i == req[t].row
             r == Superseded(View(t, i), req[t].session)
  <1>1. CASE /\ Live(View(t, i))
             /\ HolderDead(View(t, i), req[t].now) \/ req[t].force
    <2>1. /\ pc[t] = "take" /\ pc' = [pc EXCEPT ![t] = "commit"]
          /\ Write(t, i, r)
          /\ UNCHANGED <<clock, rows, toolAt, req>>
      BY <1>1 DEF Takeover, At
    <2>2. /\ i \in Ids /\ rows[i] # None /\ pend[i] \in Assignment
          /\ req[t].session \in Sessions
      BY <2>1, ChosenRow
    <2>3. View(t, i) = pend[i]
      BY <2>1, <2>2 DEF View, Write, Free, IInv, VersionsOK
    <2>4. r \in Assignment /\ SameKey(r, pend[i]) /\ ~Live(r)
      BY <2>2, <2>3, SupersededRow
    <2> QED
      BY <2>1, <2>2, <2>4, UpdateThenCommit
  <1>2. CASE ~(/\ Live(View(t, i))
               /\ HolderDead(View(t, i), req[t].now) \/ req[t].force)
    BY <1>2, DiscardStep DEF Takeover
  <1> QED
    BY <1>1, <1>2

\* and of the sweep, row by row.
LEMMA SweepRowStep ==
    ASSUME IInv, NEW t \in Txns, NEW m \in req[t].todo, SweepRow(t, m)
    PROVE  IInv'
  <1> DEFINE p == IF req[t].todo = {m} THEN "commit" ELSE "sweep"
             q == [req[t] EXCEPT !.todo = req[t].todo \ {m}]
  <1>1. /\ pc[t] = "sweep" /\ pc' = [pc EXCEPT ![t] = p]
        /\ req' = [req EXCEPT ![t] = q]
        /\ Write(t, m.row, Swept(t, m))
        /\ UNCHANGED <<clock, rows, toolAt>>
    BY DEF SweepRow, At
  <1>2. req[t] \in Request /\ m \in Move /\ m.row \in Ids
    BY DEF IInv, TypeOK, Request, Move
  <1>3. rows[m.row] # None /\ pend[m.row] \in Assignment
    BY <1>2, PendingIsRow DEF IInv, RequestsOK, RequestOK
  <1>4. /\ Swept(t, m) \in Assignment
        /\ SameKey(Swept(t, m), pend[m.row])
        /\ Live(Swept(t, m)) => Live(pend[m.row])
    BY <1>2, <1>3, SweptRow
  <1>5. q \in Request
    BY <1>2 DEF Request
  <1>6. RequestOK(t)'
    <2>1. pc'[t] = p /\ req'[t] = q
      BY <1>1 DEF IInv, TypeOK
    <2>2. RequestOK(t) /\ q.todo \subseteq req[t].todo
      BY <1>2 DEF IInv, RequestsOK, Request
    <2> QED
      BY <1>1, <2>1, <2>2 DEF RequestOK
  <1> QED
    BY <1>1, <1>2, <1>3, <1>4, <1>5, <1>6, UpdateStep DEF Waiting

\* Time passes and changes no row and no request.
LEMMA TickStep ==
    ASSUME IInv, Tick
    PROVE  IInv'
  <1>1. clock' \in Times
    BY ConstantsAssumption DEF Tick, IInv, TypeOK, Times
  <1>2. CallsOK'
    BY <1>1 DEF Tick, CallsOK, CallsTyped, RequestsOK, RequestOK, NewRow,
                IInv, TypeOK
  <1> QED
    BY <1>2, RowsUnchanged, InvariantParts DEF Tick

\* The table changes by commits only.
LEMMA OnlyCommits ==
    ASSUME Next
    PROVE  rows' = rows \/ \E t \in Txns : Commit(t)
  <1>1. CASE Tick
    BY <1>1 DEF Tick
  <1>2. ASSUME NEW t \in Txns, Start(t) PROVE rows' = rows
    BY <1>2 DEF Start, StartSweep, StartClaim, StartRelease, StartHeartbeat,
                StartToolCalls, StartTakeover
  <1>3. ASSUME NEW t \in Txns, Abort(t) PROVE rows' = rows
    BY <1>3 DEF Abort, Discard
  <1>4. ASSUME NEW t \in Txns, Step(t)
        PROVE  rows' = rows \/ Commit(t)
    <2>1. CASE \E i \in Ids : ClaimInsert(t, i) \/ LockHolder(t, i)
      BY <2>1 DEF ClaimInsert, LockHolder
    <2>2. CASE ClaimConflict(t) \/ ClaimEvict(t) \/ ClaimRecheck(t)
      BY <2>2 DEF ClaimConflict, ClaimEvict, ClaimRecheck, Discard
    <2>3. CASE Release(t) \/ Heartbeat(t) \/ Stamp(t) \/ Takeover(t)
      BY <2>3 DEF Release, Heartbeat, Stamp, Takeover, Discard
    <2>4. CASE \E m \in req[t].todo : SweepRow(t, m)
      BY <2>4 DEF SweepRow
    <2>5. CASE Commit(t)
      BY <2>5
    <2> QED
      BY <1>4, <2>1, <2>2, <2>3, <2>4, <2>5 DEF Step
  <1> QED
    BY <1>1, <1>2, <1>3, <1>4 DEF Next

-----------------------------------------------------------------------------
\* The empty table satisfies the invariant.
LEMMA InitInvariant == Init => IInv
  <1> SUFFICES ASSUME Init PROVE IInv
    OBVIOUS
  <1>1. TypeOK
    BY ConstantsAssumption
    DEF Init, TypeOK, Times, NoRequest, Request
  <1>2. RequestsOK
    BY DEF Init, RequestsOK, RequestOK, NoRequest
  <1>3. VersionsOK /\ IndexesOK
    BY DEF Init, VersionsOK, IndexesOK, Clash, Live
  <1> QED
    BY <1>1, <1>2, <1>3 DEF IInv

\* Every step of every call keeps the invariant.
LEMMA NextInvariant == IInv /\ [Next]_vars => IInv'
  <1> SUFFICES ASSUME IInv, [Next]_vars PROVE IInv'
    OBVIOUS
  <1>1. CASE Tick
    BY <1>1, TickStep
  <1>2. ASSUME NEW t \in Txns, Start(t) PROVE IInv'
    BY <1>2, StartSweepStep, StartClaimStep, StartReleaseStep,
       StartHeartbeatStep, StartToolCallsStep, StartTakeoverStep DEF Start
  <1>3. ASSUME NEW t \in Txns, Step(t) PROVE IInv'
    BY <1>3, ClaimInsertStep, LockHolderStep, ClaimConflictStep,
       ClaimEvictStep, ClaimRecheckStep, ReleaseStep, HeartbeatStep, StampStep,
       TakeoverStep, SweepRowStep, CommitStep DEF Step
  <1>4. ASSUME NEW t \in Txns, Abort(t) PROVE IInv'
    BY <1>4, DiscardStep DEF Abort
  <1>5. CASE UNCHANGED vars
    BY <1>5 DEF vars, IInv, TypeOK, RequestsOK, RequestOK, VersionsOK,
                IndexesOK, NewRow
  <1> QED
    BY <1>1, <1>2, <1>3, <1>4, <1>5 DEF Next

\* In every reachable state: types, requests on rows that exist, pending
\* versions that belong to the lock's holder and change no key, and no two live
\* rows that a unique index forbids, committed or pending, except within one
\* transaction.
THEOREM Invariance == Spec => []IInv
  BY InitInvariant, NextInvariant, PTL DEF Spec

\* Whatever calls overlap, every variable keeps its type: no statement writes
\* a row it did not read, and no request outlives the row it names.
THEOREM TypeCorrect == Spec => []TypeOK
  <1>1. IInv => TypeOK
    BY DEF IInv
  <1> QED
    BY <1>1, Invariance, PTL

\* An item has one driver, for every number of concurrent claims, evictions,
\* retries, takeovers and sweeps (claimItem under the first unique index).
THEOREM UniqueOrchestrator == Spec => []OneLiveOrchestrator
  <1>1. IInv => OneLiveOrchestrator
    BY DEF IInv, IndexesOK, OneLiveOrchestrator, Held, Clash, Conflicts
  <1> QED
    BY <1>1, Invariance, PTL

\* "The row this session holds on this item" names one row, in release and in
\* heartbeat (the second unique index).
THEOREM UniqueRowPerSession == Spec => []OneLiveRowPerSession
  <1>1. IInv => OneLiveRowPerSession
    BY DEF IInv, IndexesOK, OneLiveRowPerSession, Held, Clash, Conflicts
  <1> QED
    BY <1>1, Invariance, PTL

\* A hold that ended stays ended, whatever write reaches its row late.
THEOREM EndedForGood == Spec => NeverHeldAgain
  <1>1. ASSUME IInv, Next, NEW i \in Ids, rows[i] # None, ~Held(i)
        PROVE  rows'[i] # None /\ ~Live(rows'[i])
    <2>1. pend[i] # None /\ ~Live(pend[i])
      BY <1>1 DEF IInv, VersionsOK, Held
    <2>2. rows'[i] \in {rows[i], pend[i]}
      BY <1>1, OnlyCommits DEF Commit, View
    <2> QED
      BY <1>1, <2>1, <2>2 DEF Held
  <1>2. IInv /\ Next =>
            \A i \in Ids : rows[i] # None /\ ~Held(i) =>
                rows'[i] # None /\ ~Live(rows'[i])
    BY <1>1
  <1>3. IInv /\ [Next]_vars =>
            [\A i \in Ids : rows[i] # None /\ ~Held(i) =>
                rows'[i] # None /\ ~Live(rows'[i])]_vars
    BY <1>2
  <1> QED
    BY <1>3, Invariance, PTL DEF Spec, NeverHeldAgain

-----------------------------------------------------------------------------
(* Displaced once.                                                         *)

\* How a row's events go on: a takeover is recorded of a live row only, and
\* every event that is recorded leaves the row released.
Later(r, s) ==
    \/ r.ended = s.ended /\ (Live(r) => Live(s))
    \/ /\ r.released
       /\ \E kind \in EndKinds : /\ r.ended = Append(s.ended, kind)
                                 /\ kind = "takeover" => Live(s)

Takeovers(r) == {k \in DOMAIN r.ended : r.ended[k] = "takeover"}

\* A row that is live has not been displaced, and none was displaced twice.
DisplacedOK(r) ==
    r # None => /\ Live(r) => Takeovers(r) = {}
                /\ \A k, l \in Takeovers(r) : k = l

RowsDisplacedOK == \A i \in Ids : DisplacedOK(rows[i]) /\ DisplacedOK(pend[i])

\* Going on so keeps a row from being displaced twice.
LEMMA LaterIsOK ==
    ASSUME NEW r \in Assignment, NEW s \in Assignment, Later(r, s), DisplacedOK(s)
    PROVE  DisplacedOK(r)
  <1>1. s # None /\ r # None /\ r.ended \in Seq(EndKinds) /\ s.ended \in Seq(EndKinds)
    BY ConstantsAssumption DEF Assignment
  <1>2. CASE r.ended = s.ended /\ (Live(r) => Live(s))
    BY <1>1, <1>2 DEF DisplacedOK, Takeovers
  <1>3. ASSUME NEW kind \in EndKinds, r.released,
               r.ended = Append(s.ended, kind), kind = "takeover" => Live(s)
        PROVE  DisplacedOK(r)
    <2>1. ~Live(r)
      BY <1>3 DEF Live
    <2>2. /\ DOMAIN r.ended = 1..(Len(s.ended) + 1)
          /\ DOMAIN s.ended = 1..Len(s.ended) /\ Len(s.ended) \in Nat
          /\ \A k \in DOMAIN s.ended : r.ended[k] = s.ended[k]
          /\ r.ended[Len(s.ended) + 1] = kind
      BY <1>1, <1>3
    <2>3. Takeovers(r) \subseteq Takeovers(s) \cup {Len(s.ended) + 1}
      BY <2>2 DEF Takeovers
    <2>4. CASE kind = "takeover"
      BY <1>1, <1>3, <2>1, <2>3, <2>4 DEF DisplacedOK
    <2>5. CASE kind # "takeover"
      <3>1. Takeovers(r) \subseteq Takeovers(s)
        BY <2>2, <2>3, <2>5 DEF Takeovers
      <3> QED
        BY <1>1, <2>1, <3>1 DEF DisplacedOK
    <2> QED
      BY <2>4, <2>5
  <1> QED
    BY <1>2, <1>3 DEF Later

\* A write that ends a row, whatever else it sets,
LEMMA Ending ==
    ASSUME NEW r \in Assignment, NEW n, NEW kind \in EndKinds,
           n.released = TRUE, n.ended = Append(r.ended, kind),
           kind = "takeover" => Live(r)
    PROVE  Later(n, r)
  BY DEF Later

\* as an eviction, a takeover and a release do,
LEMMA EndingWrites ==
    ASSUME NEW r \in Assignment, NEW by
    PROVE  /\ Later(Evicted(r), r)
           /\ Live(r) => Later(Superseded(r, by), r)
           /\ Later([r EXCEPT !.released = TRUE, !.ended = Append(@, "release")], r)
  <1> DEFINE n == [r EXCEPT !.released = TRUE, !.ended = Append(@, "release")]
  <1>1. Evicted(r).released = TRUE /\ Evicted(r).ended = Append(r.ended, "evict")
    BY DEF Evicted, Assignment
  <1>2. /\ Superseded(r, by).released = TRUE
        /\ Superseded(r, by).ended = Append(r.ended, "takeover")
    BY DEF Superseded, Assignment
  <1>3. n.released = TRUE /\ n.ended = Append(r.ended, "release")
    BY DEF Assignment
  <1>4. Later(Evicted(r), r)
    BY <1>1, Ending DEF EndKinds
  <1>5. Live(r) => Later(Superseded(r, by), r)
    BY <1>2, Ending DEF EndKinds
  <1>6. Later(n, r)
    BY <1>3, Ending DEF EndKinds
  <1> QED
    BY <1>4, <1>5, <1>6

\* and one that stamps it go on so.
LEMMA Stamping ==
    ASSUME NEW r \in Assignment, NEW at
    PROVE  Later([r EXCEPT !.lastActive = at], r)
  <1> DEFINE n == [r EXCEPT !.lastActive = at]
  <1>1. n.ended = r.ended /\ n.released = r.released
    BY DEF Assignment
  <1>2. r # None
    BY ConstantsAssumption
  <1> QED
    BY <1>1, <1>2 DEF Later, Live

\* The sweep ends a row or sets its rung.
LEMMA SweepingGoesOn ==
    ASSUME NEW t \in Txns, NEW m \in Move, pend[m.row] \in Assignment
    PROVE  Later(Swept(t, m), pend[m.row])
  <1> DEFINE r == pend[m.row]
             n == Swept(t, m)
  <1>1. CASE m.to = "dead"
    <2>1. n = [r EXCEPT !.liveness = "dead", !.released = TRUE,
                        !.ended = Append(@, "sweep")]
      BY <1>1 DEF Swept
    <2>2. n.released = TRUE /\ n.ended = Append(r.ended, "sweep")
      BY <2>1 DEF Assignment
    <2> QED
      BY <2>2, Ending DEF EndKinds
  <1>2. CASE m.to # "dead"
    <2>1. n = [r EXCEPT !.liveness = m.to]
      BY <1>2 DEF Swept
    <2>2. n.ended = r.ended /\ n.released = r.released /\ r # None
      BY <2>1, ConstantsAssumption DEF Assignment
    <2> QED
      BY <2>2 DEF Later, Live
  <1> QED
    BY <1>1, <1>2

\* What each statement leaves in a row: the version it found, the committed
\* one, a new row, or a later version.
LEMMA PendingGoesOn ==
    ASSUME IInv, Next, NEW i \in Ids, pend'[i] # pend[i], pend'[i] # rows[i]
    PROVE  \/ \E t \in Txns : pend'[i] = NewRow(t)
           \/ pend[i] \in Assignment /\ Later(pend'[i], pend[i])
  <1> DEFINE Found == pend[i] \in Assignment
             GoesOn == Found /\ Later(pend'[i], pend[i])
             Inserted == \E t \in Txns : pend'[i] = NewRow(t)
  <1>a. TypeOK /\ RequestsOK /\ VersionsOK
    BY DEF IInv
  <1>b. ASSUME NEW t \in Txns, Discard(t) PROVE FALSE
    BY <1>b DEF Discard
  <1>1. ~Tick
    BY DEF Tick
  <1>2. ASSUME NEW t \in Txns PROVE ~Start(t)
    BY <1>2 DEF Start, StartSweep, StartClaim, StartRelease, StartHeartbeat,
                StartToolCalls, StartTakeover, ReadOnly
  <1>3. ASSUME NEW t \in Txns PROVE ~Abort(t)
    BY <1>b DEF Abort
  <1>4. ASSUME NEW t \in Txns, Step(t) PROVE Inserted \/ GoesOn
    <2>w. ASSUME NEW j, NEW r, Write(t, j, r)
          PROVE  i = j /\ pend'[i] = r /\ owner[i] \in {None, t}
      BY <2>w, <1>a DEF Write, Free, TypeOK
    <2>1. ASSUME NEW j \in Ids, ClaimInsert(t, j) PROVE Inserted
      <3>1. Write(t, j, NewRow(t))
        BY <2>1 DEF ClaimInsert
      <3> QED
        BY <3>1, <2>w
    <2>2. ASSUME NEW j \in Ids, LockHolder(t, j) PROVE FALSE
      BY <2>2 DEF LockHolder
    <2>3. CASE ClaimConflict(t)
      BY <2>3, <1>b DEF ClaimConflict, ReadOnly
    <2>4. CASE ClaimEvict(t)
      <3> DEFINE holders == LiveOn(t, req[t].item)
                 stale == {j \in holders : Evictable(View(t, j), req[t].now)}
      <3>1. stale # {}
        BY <2>4, <1>b DEF ClaimEvict
      <3>2. /\ \A j \in holders : owner[j] = t
            /\ pend' = [j \in Ids |->
                  IF j \in stale THEN Evicted(View(t, j)) ELSE pend[j]]
        BY <2>4, <3>1 DEF ClaimEvict
      <3>3. i \in holders /\ pend'[i] = Evicted(View(t, i))
        BY <3>2
      <3>4. View(t, i) = pend[i] /\ Live(pend[i])
        BY <3>2, <3>3 DEF View, LiveOn
      <3>5. pend[i] \in Assignment
        BY <3>4, <1>a DEF TypeOK, Live
      <3> QED
        BY <3>3, <3>4, <3>5, EndingWrites
    <2>5. CASE ClaimRecheck(t)
      BY <2>5, <1>b DEF ClaimRecheck, ReadOnly
    <2>6. CASE Release(t)
      <3>1. /\ Write(t, req[t].row, [pend[req[t].row] EXCEPT !.released = TRUE,
                                         !.ended = Append(@, "release")])
            /\ pc[t] = "release"
        BY <2>6 DEF Release, At
      <3>2. Found /\ req[t].row = i
        BY <3>1, <2>w, ChosenRow
      <3> QED
        BY <3>1, <3>2, <2>w, EndingWrites
    <2>7. CASE Heartbeat(t)
      <3>1. Live(pend[req[t].row])
        BY <2>7, <1>b DEF Heartbeat
      <3>2. /\ Write(t, req[t].row, [pend[req[t].row] EXCEPT !.lastActive = req[t].at])
            /\ pc[t] = "beat"
        BY <2>7, <3>1 DEF Heartbeat, At
      <3>3. Found /\ req[t].row = i
        BY <3>2, <2>w, ChosenRow
      <3> QED
        BY <3>2, <3>3, <2>w, Stamping
    <2>8. CASE Stamp(t)
      <3>1. /\ Write(t, req[t].row, [pend[req[t].row] EXCEPT !.lastActive = req[t].at])
            /\ pc[t] = "stamp"
        BY <2>8 DEF Stamp, At
      <3>2. Found /\ req[t].row = i
        BY <3>1, <2>w, ChosenRow
      <3> QED
        BY <3>1, <3>2, <2>w, Stamping
    <2>9. CASE Takeover(t)
      <3>1. /\ pc[t] = "take" /\ Live(View(t, req[t].row))
            /\ Write(t, req[t].row, Superseded(View(t, req[t].row), req[t].session))
        BY <2>9, <1>b DEF Takeover, At
      <3>2. Found /\ req[t].row = i /\ owner[i] \in {None, t}
        BY <3>1, <2>w, ChosenRow
      <3>3. View(t, i) = pend[i]
        BY <3>2, <1>a DEF View, VersionsOK
      <3> QED
        BY <3>1, <3>2, <3>3, <2>w, EndingWrites
    <2>10. ASSUME NEW m \in req[t].todo, SweepRow(t, m) PROVE GoesOn
      <3>1. Write(t, m.row, Swept(t, m))
        BY <2>10 DEF SweepRow
      <3>2. m.row = i /\ rows[m.row] # None
        BY <3>1, <2>w, <1>a DEF RequestsOK, RequestOK
      <3>3. Found /\ m \in Move
        BY <3>2, <1>a, PendingIsRow DEF TypeOK, Request
      <3> QED
        BY <3>1, <3>2, <3>3, <2>w, SweepingGoesOn
    <2>11. CASE Commit(t)
      BY <2>11 DEF Commit
    <2> QED
      BY <1>4, <2>1, <2>2, <2>3, <2>4, <2>5, <2>6, <2>7, <2>8, <2>9, <2>10, <2>11
      DEF Step
  <1> QED
    BY <1>1, <1>2, <1>3, <1>4 DEF Next

\* A new row has ended in no way yet.
LEMMA NewRowIsOK ==
    ASSUME NEW t \in Txns
    PROVE  DisplacedOK(NewRow(t))
  <1>1. NewRow(t).ended = <<>>
    BY DEF NewRow
  <1>2. Takeovers(NewRow(t)) = {}
    BY <1>1 DEF Takeovers
  <1> QED
    BY <1>2 DEF DisplacedOK

\* Of two takeovers of one holder that both found it live one is refused,
\* whatever else reaches the row (takeoverAssignment's check under the lock).
THEOREM OneSuccessor == Spec => []DisplacedOnce
  <1>1. Init => RowsDisplacedOK
    BY DEF Init, RowsDisplacedOK, DisplacedOK
  <1>2. ASSUME IInv, IInv', RowsDisplacedOK, Next, NEW i \in Ids
        PROVE  DisplacedOK(rows'[i]) /\ DisplacedOK(pend'[i])
    <2>1. DisplacedOK(rows[i]) /\ DisplacedOK(pend[i])
      BY <1>2 DEF RowsDisplacedOK
    <2>2. DisplacedOK(rows'[i])
      BY <1>2, <2>1, OnlyCommits DEF Commit, View
    <2>3. CASE pend'[i] = pend[i] \/ pend'[i] = rows[i]
      BY <2>1, <2>2, <2>3
    <2>4. CASE \E t \in Txns : pend'[i] = NewRow(t)
      BY <2>2, <2>4, NewRowIsOK
    <2>5. CASE pend[i] \in Assignment /\ Later(pend'[i], pend[i])
      <3>1. pend'[i] \in Assignment \cup {None}
        BY <1>2 DEF IInv, TypeOK
      <3>2. CASE pend'[i] = None
        BY <2>2, <3>2 DEF DisplacedOK
      <3>3. CASE pend'[i] \in Assignment
        BY <2>1, <2>2, <2>5, <3>3, LaterIsOK
      <3> QED
        BY <3>1, <3>2, <3>3
    <2> QED
      BY <1>2, <2>2, <2>3, <2>4, <2>5, PendingGoesOn
  <1>3. IInv /\ IInv' /\ RowsDisplacedOK /\ [Next]_vars => RowsDisplacedOK'
    BY <1>2 DEF RowsDisplacedOK, vars
  <1>4. RowsDisplacedOK => DisplacedOnce
    BY DEF RowsDisplacedOK, DisplacedOK, Takeovers, DisplacedOnce
  <1> QED
    BY <1>1, <1>3, <1>4, Invariance, PTL DEF Spec

-----------------------------------------------------------------------------
(* What a call may have pending.                                           *)

\* The event by which an operation ends a hold.
EndsBy(op) ==
    CASE op = "claim" -> "evict" [] op = "release" -> "release"
      [] op = "takeover" -> "takeover" [] op = "sweep" -> "sweep"
      [] OTHER -> "none"

LastIs(s, kind) == s # <<>> /\ s[Len(s)] = kind

Silent(r) ==
    clock - r.lastActive >= EvictAfter /\ clock - r.claimedAt >= EvictAfter

Overdue(r) == r.liveness = "dead" \/ clock - r.lastActive >= DeadAfter

\* A row that t has locked: one it inserted, which completes a claim; or one
\* that exists, which it may have ended in the way of its operation.
PendingOK(t, i) ==
    /\ pend[i] # None
    /\ rows[i] = None => /\ pc[t] = "commit" /\ req[t].op = "claim"
                         /\ Live(pend[i]) /\ pend[i].item = req[t].item
    /\ rows[i] # None =>
          /\ \/ pend[i].ended = rows[i].ended
             \/ LastIs(pend[i].ended, EndsBy(req[t].op))
          /\ req[t].op = "claim" => /\ rows[i].item = req[t].item
                                    /\ pend[i] = rows[i] \/ Silent(rows[i])
          /\ req[t].op = "takeover" => /\ req[t].row = i
                                       /\ req[t].force \/ Overdue(rows[i])

\* A call is at a statement of its operation, judges by a time that has come,
\* and has inserted one row when it commits a claim, and none before.
StageOK(t) ==
    /\ pc[t] = "idle" => \A i \in Ids : owner[i] # t
    /\ pc[t] \in {"insert", "evict", "recheck", "reinsert"} => req[t].op = "claim"
    /\ pc[t] = "release" => req[t].op = "release"
    /\ pc[t] = "beat" => req[t].op = "heartbeat"
    /\ pc[t] = "stamp" => req[t].op = "tool_calls"
    /\ pc[t] = "take" => req[t].op = "takeover"
    /\ pc[t] = "sweep" => req[t].op = "sweep"
    /\ pc[t] \in {"evict", "take"} => req[t].now \in Times /\ req[t].now <= clock
    /\ pc[t] = "commit" /\ req[t].op = "claim" =>
          \E i \in Ids : owner[i] = t /\ rows[i] = None
    /\ \A i, j \in Ids : /\ owner[i] = t /\ owner[j] = t
                         /\ rows[i] = None /\ rows[j] = None
                         => i = j

Lawful(t) == StageOK(t) /\ \A i \in Ids : owner[i] = t => PendingOK(t, i)

CallsLawful == \A t \in Txns : Lawful(t)

-----------------------------------------------------------------------------
(* A step of one call leaves the others alone.                             *)

OthersKept(t) ==
    \A u \in Txns \ {t} :
        /\ pc'[u] = pc[u] /\ req'[u] = req[u]
        /\ \A i \in Ids : /\ owner'[i] = u <=> owner[i] = u
                          /\ owner[i] = u => pend'[i] = pend[i] /\ rows'[i] = rows[i]

\* What a call has pending stays lawful while its locks, rows and stage stay
\* and time goes on.
LEMMA KeptIsLawful ==
    ASSUME TypeOK, NEW u \in Txns, Lawful(u), pc'[u] = pc[u], req'[u] = req[u],
           clock' \in Int, clock' >= clock,
           \A i \in Ids : /\ owner'[i] = u <=> owner[i] = u
                          /\ owner[i] = u => pend'[i] = pend[i] /\ rows'[i] = rows[i]
    PROVE  Lawful(u)'
  <1>1. ASSUME NEW i \in Ids, owner'[i] = u
        PROVE  PendingOK(u, i)'
    <2>1. /\ PendingOK(u, i) /\ pend'[i] = pend[i] /\ rows'[i] = rows[i]
          /\ owner[i] = u
      BY <1>1 DEF Lawful
    <2>2. clock \in Int /\ EvictAfter \in Int /\ DeadAfter \in Int
      BY ConstantsAssumption DEF TypeOK, Times
    <2>3. rows[i] # None => rows[i].lastActive \in Int /\ rows[i].claimedAt \in Int
      BY DEF TypeOK, Assignment, Times
    <2>4. rows[i] # None /\ Silent(rows[i]) => Silent(rows[i])'
      BY <2>1, <2>2, <2>3 DEF Silent
    <2>5. rows[i] # None /\ Overdue(rows[i]) => Overdue(rows[i])'
      BY <2>1, <2>2, <2>3 DEF Overdue
    <2> QED
      BY <2>1, <2>4, <2>5 DEF PendingOK, Live, LastIs, EndsBy
  <1>2. StageOK(u)'
    <2>1. clock \in Int /\ StageOK(u) /\ req[u].now \in Int
      BY DEF TypeOK, Times, Lawful, Request, NoTime
    <2> QED
      BY <2>1 DEF StageOK
  <1> QED
    BY <1>1, <1>2 DEF Lawful

\* So a step of t is lawful if what it leaves t with is.
LEMMA StepIsLawful ==
    ASSUME TypeOK, TypeOK', CallsLawful, NEW t \in Txns,
           OthersKept(t), clock' = clock, Lawful(t)'
    PROVE  CallsLawful'
  <1>1. ASSUME NEW u \in Txns \ {t} PROVE Lawful(u)'
    <2>1. Lawful(u) /\ clock' \in Int /\ clock' >= clock
      BY DEF CallsLawful, TypeOK, Times
    <2> QED
      BY <2>1, KeptIsLawful DEF OthersKept
  <1> QED
    BY <1>1 DEF CallsLawful

\* A call that ends has no lock left.
LEMMA EndIsLawful ==
    ASSUME TypeOK, TypeOK', CallsLawful, NEW t \in Txns, Discard(t) \/ Commit(t)
    PROVE  CallsLawful'
  <1>1. OthersKept(t) /\ clock' = clock
    BY ConstantsAssumption DEF OthersKept, Discard, Commit, End, TypeOK, View
  <1>2. pc'[t] = "idle" /\ req'[t] = NoRequest /\ \A i \in Ids : owner'[i] # t
    BY ConstantsAssumption DEF Discard, Commit, End, TypeOK
  <1>3. Lawful(t)'
    BY <1>2 DEF Lawful, StageOK, NoRequest
  <1> QED
    BY <1>1, <1>3, StepIsLawful

\* A call that begins has none yet.
LEMMA BeginIsLawful ==
    ASSUME TypeOK, TypeOK', CallsLawful, NEW t \in Txns, pc[t] = "idle",
           NEW p, NEW q, pc' = [pc EXCEPT ![t] = p], req' = [req EXCEPT ![t] = q],
           UNCHANGED <<clock, rows, owner, pend>>,
           \/ p \in {"insert", "evict"} /\ q.op = "claim"
           \/ p = "release" /\ q.op = "release"
           \/ p = "beat" /\ q.op = "heartbeat"
           \/ p \in {"stamp", "commit"} /\ q.op = "tool_calls"
           \/ p = "take" /\ q.op = "takeover"
           \/ p = "sweep" /\ q.op = "sweep",
           p \in {"evict", "take"} => q.now = clock
    PROVE  CallsLawful'
  <1>1. OthersKept(t) /\ pc'[t] = p /\ req'[t] = q
    BY DEF OthersKept, TypeOK
  <1>2. \A i \in Ids : owner'[i] # t
    BY DEF CallsLawful, Lawful, StageOK
  <1>3. clock \in Times /\ clock <= clock
    BY DEF TypeOK, Times
  <1>4. StageOK(t)'
    BY <1>1, <1>2, <1>3 DEF StageOK
  <1> QED
    BY <1>1, <1>2, <1>4, StepIsLawful DEF Lawful

\* The first statement of every operation is lawful.
LEMMA StartIsLawful ==
    ASSUME TypeOK, TypeOK', CallsLawful, NEW t \in Txns, Start(t)
    PROVE  CallsLawful'
  <1>1. CASE StartSweep(t)
    <2> DEFINE p == "sweep"
               q == [NoRequest EXCEPT !.todo = Moves, !.op = "sweep"]
    <2>1. pc' = [pc EXCEPT ![t] = p] /\ req' = [req EXCEPT ![t] = q] /\ pc[t] = "idle"
      BY <1>1 DEF StartSweep, Begin, NoRequest
    <2>2. UNCHANGED <<clock, rows, owner, pend>>
      BY <1>1 DEF StartSweep, ReadOnly
    <2>3. q.op = "sweep" /\ (p \in {"evict", "take"} => q.now = clock)
      BY DEF NoRequest
    <2> QED
      BY <2>1, <2>2, <2>3, BeginIsLawful
  <1>2. ASSUME NEW s \in Sessions, NEW item \in Items, NEW role \in Roles,
               StartClaim(t, s, item, role)
        PROVE  CallsLawful'
    <2> DEFINE p == IF SameCrew(t, item, s) THEN "insert" ELSE "evict"
               q == [NoRequest EXCEPT
                       !.item = item, !.session = s, !.role = role, !.at = clock,
                       !.now = IF SameCrew(t, item, s) THEN NoTime ELSE clock,
                       !.op = "claim"]
    <2>1. pc' = [pc EXCEPT ![t] = p] /\ req' = [req EXCEPT ![t] = q] /\ pc[t] = "idle"
      BY <1>2 DEF StartClaim, Begin, NoRequest
    <2>2. UNCHANGED <<clock, rows, owner, pend>>
      BY <1>2 DEF StartClaim, ReadOnly
    <2>3. q.op = "claim" /\ (p \in {"evict", "take"} => q.now = clock)
      BY DEF NoRequest
    <2> QED
      BY <2>1, <2>2, <2>3, BeginIsLawful
  <1>3. ASSUME NEW s \in Sessions, NEW i \in Ids, StartRelease(t, s, i)
        PROVE  CallsLawful'
    <2> DEFINE p == "release"
               q == [NoRequest EXCEPT !.session = s, !.row = i, !.op = "release"]
    <2>1. pc' = [pc EXCEPT ![t] = p] /\ req' = [req EXCEPT ![t] = q] /\ pc[t] = "idle"
      BY <1>3 DEF StartRelease, Begin, NoRequest
    <2>2. UNCHANGED <<clock, rows, owner, pend>>
      BY <1>3 DEF StartRelease, ReadOnly
    <2>3. q.op = "release" /\ (p \in {"evict", "take"} => q.now = clock)
      BY DEF NoRequest
    <2> QED
      BY <2>1, <2>2, <2>3, BeginIsLawful
  <1>4. ASSUME NEW s \in Sessions, NEW i \in Ids, StartHeartbeat(t, s, i)
        PROVE  CallsLawful'
    <2> DEFINE p == "beat"
               q == [NoRequest EXCEPT !.session = s, !.row = i, !.at = clock,
                                      !.op = "heartbeat"]
    <2>1. pc' = [pc EXCEPT ![t] = p] /\ req' = [req EXCEPT ![t] = q] /\ pc[t] = "idle"
      BY <1>4 DEF StartHeartbeat, Begin, NoRequest
    <2>2. UNCHANGED <<clock, rows, owner, pend>>
      BY <1>4 DEF StartHeartbeat, ReadOnly
    <2>3. q.op = "heartbeat" /\ (p \in {"evict", "take"} => q.now = clock)
      BY DEF NoRequest
    <2> QED
      BY <2>1, <2>2, <2>3, BeginIsLawful
  <1>5. ASSUME NEW s \in Sessions, NEW ts \in 1..clock, StartToolCalls(t, s, ts)
        PROVE  CallsLawful'
    <2>0. PICK i \in NewestLive(s) \cup {None} :
            Begin(t, "tool_calls", IF i = None THEN "commit" ELSE "stamp",
                  [NoRequest EXCEPT !.session = s, !.row = i, !.at = clock,
                                    !.call = ts])
      BY <1>5 DEF StartToolCalls
    <2> DEFINE p == IF i = None THEN "commit" ELSE "stamp"
               q == [NoRequest EXCEPT !.session = s, !.row = i, !.at = clock,
                                      !.call = ts, !.op = "tool_calls"]
    <2>1. pc' = [pc EXCEPT ![t] = p] /\ req' = [req EXCEPT ![t] = q] /\ pc[t] = "idle"
      BY <2>0 DEF Begin, NoRequest
    <2>2. UNCHANGED <<clock, rows, owner, pend>>
      BY <1>5 DEF StartToolCalls, ReadOnly
    <2>3. q.op = "tool_calls" /\ (p \in {"evict", "take"} => q.now = clock)
      BY DEF NoRequest
    <2> QED
      BY <2>1, <2>2, <2>3, BeginIsLawful
  <1>6. ASSUME NEW by \in Sessions, NEW from \in Sessions, NEW item \in Items,
               NEW force \in BOOLEAN, StartTakeover(t, by, from, item, force)
        PROVE  CallsLawful'
    <2>0. PICK i \in LatestOf(item, from) :
            Begin(t, "takeover", "take",
                  [NoRequest EXCEPT !.session = by, !.row = i, !.now = clock,
                                    !.force = force])
      BY <1>6 DEF StartTakeover
    <2> DEFINE p == "take"
               q == [NoRequest EXCEPT !.session = by, !.row = i, !.now = clock,
                                      !.force = force, !.op = "takeover"]
    <2>1. pc' = [pc EXCEPT ![t] = p] /\ req' = [req EXCEPT ![t] = q] /\ pc[t] = "idle"
      BY <2>0 DEF Begin, NoRequest
    <2>2. UNCHANGED <<clock, rows, owner, pend>>
      BY <1>6 DEF StartTakeover, ReadOnly
    <2>3. q.op = "takeover" /\ (p \in {"evict", "take"} => q.now = clock)
      BY DEF NoRequest
    <2> QED
      BY <2>1, <2>2, <2>3, BeginIsLawful
  <1> QED
    BY <1>1, <1>2, <1>3, <1>4, <1>5, <1>6 DEF Start

-----------------------------------------------------------------------------
(* The statements, one by one.                                             *)

\* A row gets its lock and a new version, and the call goes on to p.
Wrote(t, i, r, p) ==
    /\ Write(t, i, r) /\ pc' = [pc EXCEPT ![t] = p]
    /\ UNCHANGED <<clock, rows>>
    /\ \A u \in Txns \ {t} : req'[u] = req[u]
    /\ req'[t].op = req[t].op /\ req'[t].item = req[t].item
    /\ req'[t].row = req[t].row /\ req'[t].force = req[t].force

\* It concerns that call and that row alone.
LEMMA WroteKeeps ==
    ASSUME TypeOK, NEW t \in Txns, NEW i \in Ids, NEW r, NEW p, Wrote(t, i, r, p)
    PROVE  /\ OthersKept(t) /\ clock' = clock /\ pc'[t] = p
           /\ owner[i] \in {None, t} /\ owner'[i] = t /\ pend'[i] = r
           /\ \A j \in Ids \ {i} : owner'[j] = owner[j] /\ pend'[j] = pend[j]
  BY ConstantsAssumption DEF Wrote, Write, Free, OthersKept, TypeOK

\* The other locked rows of a call that is no claim stay lawful.
LEMMA WriteIsLawful ==
    ASSUME TypeOK, TypeOK', CallsLawful, NEW t \in Txns, NEW i \in Ids, NEW r,
           NEW p \in {"commit", "sweep"}, Wrote(t, i, r, p),
           req[t].op # "claim", p = "sweep" => req[t].op = "sweep",
           rows[i] # None, r # None,
           r.ended = rows[i].ended \/ LastIs(r.ended, EndsBy(req[t].op)),
           req[t].op = "takeover" => /\ req[t].row = i
                                     /\ req[t].force \/ Overdue(rows[i])
    PROVE  CallsLawful'
  <1>1. Lawful(t) /\ rows' = rows /\ clock' = clock
    BY DEF CallsLawful, Wrote
  <1>2. /\ OthersKept(t) /\ pc'[t] = p
        /\ owner'[i] = t /\ pend'[i] = r
        /\ \A j \in Ids \ {i} : owner'[j] = owner[j] /\ pend'[j] = pend[j]
    BY WroteKeeps
  <1>3. /\ req'[t].op = req[t].op /\ req'[t].item = req[t].item
        /\ req'[t].row = req[t].row /\ req'[t].force = req[t].force
    BY DEF Wrote
  <1>4. ASSUME NEW j \in Ids, owner'[j] = t
        PROVE  PendingOK(t, j)' /\ rows[j] # None
    <2>1. CASE j = i
      BY <1>1, <1>2, <1>3, <2>1 DEF PendingOK, Overdue
    <2>2. CASE j # i
      <3>1. PendingOK(t, j) /\ pend'[j] = pend[j]
        BY <1>1, <1>2, <1>4, <2>2 DEF Lawful
      <3> QED
        BY <1>1, <1>3, <3>1 DEF PendingOK, Overdue
    <2> QED
      BY <2>1, <2>2
  <1>5. StageOK(t)'
    BY <1>1, <1>2, <1>3, <1>4 DEF StageOK
  <1> QED
    BY <1>1, <1>2, <1>4, <1>5, StepIsLawful DEF Lawful

\* The version a write finds.
LEMMA FoundVersion ==
    ASSUME IInv, CallsLawful, NEW t \in Txns, NEW i \in Ids,
           owner[i] \in {None, t}, rows[i] # None
    PROVE  /\ pend[i] \in Assignment /\ rows[i] \in Assignment
           /\ \/ pend[i].ended = rows[i].ended
              \/ LastIs(pend[i].ended, EndsBy(req[t].op))
           /\ owner[i] = None => pend[i] = rows[i]
           /\ owner[i] = t => PendingOK(t, i)
  <1>1. pend[i] \in Assignment /\ rows[i] \in Assignment
    BY PendingIsRow DEF IInv, TypeOK
  <1>2. owner[i] = None => pend[i] = rows[i]
    BY DEF IInv, VersionsOK
  <1>3. owner[i] = t => PendingOK(t, i)
    BY DEF CallsLawful, Lawful
  <1> QED
    BY <1>1, <1>2, <1>3 DEF PendingOK

\* What an event ends with.
LEMMA LastOfAppend ==
    ASSUME NEW s \in Seq(EndKinds), NEW kind \in EndKinds
    PROVE  LastIs(Append(s, kind), kind)
  BY DEF LastIs

\* The three writes that end a hold at once record how.
LEMMA LastOfEnded ==
    ASSUME NEW r \in Assignment, NEW by
    PROVE  /\ LastIs(Evicted(r).ended, "evict")
           /\ LastIs(Superseded(r, by).ended, "takeover")
           /\ LastIs([r EXCEPT !.released = TRUE, !.ended = Append(@, "release")].ended,
                     "release")
  <1>1. r.ended \in Seq(EndKinds)
    BY DEF Assignment
  <1>2. Evicted(r).ended = Append(r.ended, "evict")
    BY DEF Evicted, Assignment
  <1>3. Superseded(r, by).ended = Append(r.ended, "takeover")
    BY DEF Superseded, Assignment
  <1>4. [r EXCEPT !.released = TRUE, !.ended = Append(@, "release")].ended
        = Append(r.ended, "release")
    BY DEF Assignment
  <1> QED
    BY <1>1, <1>2, <1>3, <1>4, LastOfAppend DEF EndKinds

\* The insert of a claim,
LEMMA InsertIsLawful ==
    ASSUME IInv, TypeOK', CallsLawful, NEW t \in Txns, NEW i \in Ids, ClaimInsert(t, i)
    PROVE  CallsLawful'
  <1>1. TypeOK /\ Lawful(t) /\ rows' = rows /\ req' = req /\ clock' = clock
    BY DEF CallsLawful, ClaimInsert, IInv
  <1>2. pc[t] \in {"insert", "reinsert"} /\ req[t].op = "claim" /\ rows[i] = None
    BY <1>1 DEF ClaimInsert, Lawful, StageOK
  <1>3. Wrote(t, i, NewRow(t), "commit")
    BY DEF Wrote, ClaimInsert, At
  <1>4. /\ OthersKept(t) /\ pc'[t] = "commit" /\ owner'[i] = t /\ pend'[i] = NewRow(t)
        /\ \A j \in Ids \ {i} : owner'[j] = owner[j] /\ pend'[j] = pend[j]
    BY <1>1, <1>3, WroteKeeps
  <1>5. Live(NewRow(t)) /\ NewRow(t).item = req[t].item
    <2>1. NewRow(t) \in Assignment
      BY <1>2 DEF IInv, RequestsOK, RequestOK
    <2> QED
      BY <2>1, ConstantsAssumption DEF Live, NewRow
  <1>6. ASSUME NEW j \in Ids, j # i, owner'[j] = t
        PROVE  PendingOK(t, j)' /\ rows[j] # None
    <2>1. PendingOK(t, j) /\ pend'[j] = pend[j]
      BY <1>1, <1>4, <1>6 DEF Lawful
    <2> QED
      BY <1>1, <1>2, <2>1 DEF PendingOK, Silent, Overdue
  <1>7. PendingOK(t, i)'
    BY <1>1, <1>2, <1>4, <1>5 DEF PendingOK, Live
  <1>8. StageOK(t)'
    BY <1>1, <1>2, <1>4, <1>6 DEF StageOK
  <1> QED
    BY <1>1, <1>4, <1>6, <1>7, <1>8, StepIsLawful DEF Lawful

\* the lock of a holder's row,
LEMMA LockIsLawful ==
    ASSUME IInv, TypeOK', CallsLawful, NEW t \in Txns, NEW i \in Ids, LockHolder(t, i)
    PROVE  CallsLawful'
  <1>1. /\ TypeOK /\ Lawful(t) /\ UNCHANGED <<clock, rows, pend, pc, req>>
        /\ pc[t] = "evict" /\ owner[i] = None /\ pend[i] = rows[i]
    BY DEF CallsLawful, LockHolder, IInv, VersionsOK
  <1>2. Live(rows[i]) /\ rows[i].item = req[t].item
    BY <1>1, ConstantsAssumption DEF LockHolder, LiveOn, View
  <1>3. OthersKept(t) /\ owner'[i] = t /\ \A j \in Ids \ {i} : owner'[j] = owner[j]
    BY <1>1, ConstantsAssumption DEF LockHolder, OthersKept, TypeOK
  <1>4. ASSUME NEW j \in Ids, owner'[j] = t
        PROVE  PendingOK(t, j)' /\ rows[j] # None
    <2>1. CASE j = i
      <3>1. req[t].op = "claim"
        BY <1>1 DEF Lawful, StageOK
      <3> QED
        BY <1>1, <1>2, <2>1, <3>1 DEF PendingOK, Live
    <2>2. CASE j # i
      BY <1>1, <1>3, <1>4, <2>2 DEF Lawful, PendingOK, Silent, Overdue
    <2> QED
      BY <2>1, <2>2
  <1>5. StageOK(t)'
    BY <1>1, <1>4 DEF StageOK, Lawful
  <1> QED
    BY <1>1, <1>3, <1>4, <1>5, StepIsLawful DEF Lawful

\* the eviction,
LEMMA EvictIsLawful ==
    ASSUME IInv, TypeOK', CallsLawful, NEW t \in Txns, ClaimEvict(t)
    PROVE  CallsLawful'
  <1> DEFINE holders == LiveOn(t, req[t].item)
             stale == {i \in holders : Evictable(View(t, i), req[t].now)}
  <1>0. TypeOK
    BY DEF IInv
  <1>1. CASE stale = {}
    BY <1>0, <1>1, EndIsLawful DEF ClaimEvict
  <1>2. CASE stale # {}
    <2>1. /\ At(t, "evict", "recheck")
          /\ \A i \in holders : owner[i] = t
          /\ pend' = [i \in Ids |->
                IF i \in stale THEN Evicted(View(t, i)) ELSE pend[i]]
          /\ UNCHANGED <<clock, rows, owner, toolAt, req>>
      BY <1>2 DEF ClaimEvict
    <2>2. /\ pc[t] = "evict" /\ pc'[t] = "recheck" /\ req[t].op = "claim"
          /\ req[t].now \in Times /\ req[t].now <= clock /\ Lawful(t)
      BY <1>0, <2>1 DEF At, TypeOK, CallsLawful, Lawful, StageOK
    <2>3. ASSUME NEW i \in stale
          PROVE  /\ owner[i] = t /\ View(t, i) = pend[i] /\ Live(pend[i])
                 /\ pend[i] \in Assignment /\ PendingOK(t, i) /\ rows[i] # None
                 /\ pend'[i] = Evicted(pend[i]) /\ Evictable(pend[i], req[t].now)
      <3>1. i \in Ids /\ owner[i] = t /\ View(t, i) = pend[i] /\ Live(pend[i])
        BY <2>1 DEF LiveOn, View
      <3>2. pend[i] \in Assignment
        BY <1>0, <3>1 DEF TypeOK, Live
      <3>3. PendingOK(t, i) /\ rows[i] # None
        BY <2>2, <3>1 DEF Lawful, PendingOK
      <3> QED
        BY <2>1, <3>1, <3>2, <3>3
    <2>4. OthersKept(t)
      <3>1. \A i \in stale : owner[i] = t
        BY <2>3
      <3> QED
        BY <1>0, <2>1, <3>1 DEF OthersKept, At, TypeOK
    <2>5. ASSUME NEW i \in Ids, owner'[i] = t
          PROVE  PendingOK(t, i)' /\ rows[i] # None
      <3>1. CASE i \in stale
        <4>1. LastIs(pend'[i].ended, "evict") /\ pend'[i] # None
          BY <2>3, <3>1, LastOfEnded, EvictedRow, ConstantsAssumption
        <4>2. Silent(rows[i])
          <5>1. CASE pend[i] = rows[i]
            <6>1. /\ req[t].now - rows[i].lastActive >= EvictAfter
                  /\ req[t].now - rows[i].claimedAt >= EvictAfter
              BY <2>3, <3>1, <5>1 DEF Evictable
            <6>2. /\ rows[i].lastActive \in Int /\ rows[i].claimedAt \in Int
                  /\ clock \in Int /\ EvictAfter \in Int /\ req[t].now \in Int
              BY <1>0, <2>2, <2>3, <3>1, <5>1, ConstantsAssumption
              DEF TypeOK, Times, Assignment
            <6> QED
              BY <2>2, <6>1, <6>2 DEF Silent
          <5> QED
            BY <2>2, <2>3, <3>1, <5>1 DEF PendingOK
        <4>3. EndsBy(req[t].op) = "evict" /\ rows[i].item = req[t].item
          BY <2>2, <2>3, <3>1 DEF EndsBy, PendingOK
        <4> QED
          BY <2>1, <2>2, <2>3, <3>1, <4>1, <4>2, <4>3 DEF PendingOK, Silent
      <3>2. CASE i \notin stale
        <4>1. PendingOK(t, i) /\ pend'[i] = pend[i]
          BY <2>1, <2>2, <2>5, <3>2 DEF Lawful
        <4> QED
          BY <2>1, <2>2, <4>1 DEF PendingOK, Silent, Overdue
      <3> QED
        BY <3>1, <3>2
    <2>6. StageOK(t)'
      BY <2>1, <2>2, <2>5 DEF StageOK
    <2> QED
      BY <1>0, <2>1, <2>4, <2>5, <2>6, StepIsLawful DEF Lawful
  <1> QED
    BY <1>1, <1>2

\* the steps of a claim that write nothing,
LEMMA WaitIsLawful ==
    ASSUME IInv, TypeOK', CallsLawful, NEW t \in Txns,
           ClaimConflict(t) \/ ClaimRecheck(t)
    PROVE  CallsLawful'
  <1>0. TypeOK
    BY DEF IInv
  <1>1. CASE Discard(t)
    BY <1>0, <1>1, EndIsLawful
  <1>2. CASE ~Discard(t)
    <2>1. /\ UNCHANGED <<clock, rows, owner, pend>>
          /\ pc[t] \in {"insert", "recheck"}
          /\ \E p \in {"evict", "reinsert"} : pc' = [pc EXCEPT ![t] = p]
          /\ pc'[t] = "evict" => req' = [req EXCEPT ![t].now = clock]
          /\ pc'[t] = "reinsert" => req' = req
      BY <1>0, <1>2 DEF ClaimConflict, ClaimRecheck, At, ReadOnly, TypeOK
    <2>2. /\ req'[t].op = req[t].op /\ req'[t].item = req[t].item
          /\ req'[t].row = req[t].row /\ req'[t].force = req[t].force
          /\ pc'[t] = "evict" => req'[t].now = clock
          /\ OthersKept(t) /\ pc'[t] \in {"evict", "reinsert"}
      BY <1>0, <2>1 DEF TypeOK, Request, OthersKept
    <2>3. Lawful(t) /\ clock \in Times /\ clock <= clock
      BY <1>0 DEF CallsLawful, TypeOK, Times
    <2>4. req[t].op = "claim" /\ StageOK(t)'
      BY <2>1, <2>2, <2>3 DEF Lawful, StageOK, PendingOK
    <2>5. ASSUME NEW i \in Ids, owner'[i] = t PROVE PendingOK(t, i)'
      <3>1. PendingOK(t, i)
        BY <2>1, <2>3, <2>5 DEF Lawful
      <3> QED
        BY <2>1, <2>2, <3>1 DEF PendingOK, Silent, Overdue
    <2> QED
      BY <1>0, <2>1, <2>2, <2>4, <2>5, StepIsLawful DEF Lawful
  <1> QED
    BY <1>1, <1>2

\* the update of a release,
LEMMA ReleaseIsLawful ==
    ASSUME IInv, TypeOK', CallsLawful, NEW t \in Txns, Release(t)
    PROVE  CallsLawful'
  <1> DEFINE i == req[t].row
             r == [pend[i] EXCEPT !.released = TRUE, !.ended = Append(@, "release")]
  <1>1. pc[t] = "release" /\ Wrote(t, i, r, "commit") /\ TypeOK
    BY DEF Release, At, Wrote, IInv
  <1>2. i \in Ids /\ rows[i] # None /\ pend[i] \in Assignment
    BY <1>1, ChosenRow
  <1>3. req[t].op = "release"
    BY <1>1 DEF CallsLawful, Lawful, StageOK
  <1>4. LastIs(r.ended, "release") /\ r # None
    BY <1>2, LastOfEnded, ReleasedRow, ConstantsAssumption
  <1> QED
    BY <1>1, <1>2, <1>3, <1>4, WriteIsLawful DEF EndsBy

\* a stamp of a call or of a heartbeat,
LEMMA StampIsLawful ==
    ASSUME IInv, TypeOK', CallsLawful, NEW t \in Txns, Stamp(t) \/ Heartbeat(t)
    PROVE  CallsLawful'
  <1> DEFINE i == req[t].row
             r == [pend[i] EXCEPT !.lastActive = req[t].at]
  <1>0. TypeOK
    BY DEF IInv
  <1>1. CASE Discard(t)
    BY <1>0, <1>1, EndIsLawful
  <1>2. CASE ~Discard(t)
    <2>1. pc[t] \in {"stamp", "beat"} /\ Wrote(t, i, r, "commit")
      BY <1>2 DEF Stamp, Heartbeat, At, Wrote
    <2>2. i \in Ids /\ rows[i] # None /\ pend[i] \in Assignment /\ req[t].at \in Times
      BY <2>1, ChosenRow
    <2>3. req[t].op \in {"heartbeat", "tool_calls"}
      BY <2>1 DEF CallsLawful, Lawful, StageOK
    <2>4. owner[i] \in {None, t}
      BY <2>1 DEF Wrote, Write, Free
    <2>5. \/ pend[i].ended = rows[i].ended
          \/ LastIs(pend[i].ended, EndsBy(req[t].op))
      BY <2>2, <2>4, FoundVersion
    <2>6. r.ended = pend[i].ended /\ r # None
      BY <2>2, StampedRow, ConstantsAssumption DEF Assignment
    <2> QED
      BY <1>0, <2>1, <2>2, <2>3, <2>5, <2>6, WriteIsLawful
  <1> QED
    BY <1>1, <1>2

\* of a takeover
LEMMA TakeoverIsLawful ==
    ASSUME IInv, TypeOK', CallsLawful, NEW t \in Txns, Takeover(t)
    PROVE  CallsLawful'
  <1> DEFINE i == req[t].row
             r == Superseded(View(t, i), req[t].session)
  <1>0. TypeOK
    BY DEF IInv
  <1>1. CASE Discard(t)
    BY <1>0, <1>1, EndIsLawful
  <1>2. CASE ~Discard(t)
    <2>1. /\ pc[t] = "take" /\ Wrote(t, i, r, "commit")
          /\ HolderDead(View(t, i), req[t].now) \/ req[t].force
      BY <1>2 DEF Takeover, At, Wrote
    <2>2. /\ i \in Ids /\ rows[i] # None /\ pend[i] \in Assignment
          /\ req[t].session \in Sessions
      BY <2>1, ChosenRow
    <2>3. /\ req[t].op = "takeover" /\ req[t].now \in Times /\ req[t].now <= clock
          /\ owner[i] \in {None, t}
      BY <2>1 DEF CallsLawful, Lawful, StageOK, Wrote, Write, Free
    <2>4. View(t, i) = pend[i]
      BY <2>2, <2>3, FoundVersion DEF View
    <2>5. LastIs(r.ended, EndsBy(req[t].op)) /\ r # None
      <3>1. LastIs(r.ended, "takeover") /\ r \in Assignment
        BY <2>2, <2>4, LastOfEnded, SupersededRow
      <3> QED
        BY <2>3, <3>1, ConstantsAssumption DEF EndsBy
    <2>6. req[t].force \/ Overdue(rows[i])
      <3>1. CASE owner[i] = t
        BY <2>2, <2>3, <3>1, FoundVersion DEF PendingOK
      <3>2. CASE owner[i] = None
        <4>1. pend[i] = rows[i] /\ rows[i] \in Assignment
          BY <2>2, <3>2, FoundVersion
        <4>2. /\ clock \in Int /\ DeadAfter \in Int /\ req[t].now \in Int
              /\ rows[i].lastActive \in Int
          BY <1>0, <2>3, <4>1, ConstantsAssumption DEF TypeOK, Times, Assignment
        <4> QED
          BY <2>1, <2>3, <2>4, <4>1, <4>2 DEF HolderDead, LadderRung, Overdue
      <3> QED
        BY <2>3, <3>1, <3>2
    <2> QED
      BY <1>0, <2>1, <2>2, <2>3, <2>5, <2>6, WriteIsLawful
  <1> QED
    BY <1>1, <1>2

\* and of the sweep keep every call lawful.
LEMMA SweepIsLawful ==
    ASSUME IInv, TypeOK', CallsLawful, NEW t \in Txns, NEW m \in req[t].todo,
           SweepRow(t, m)
    PROVE  CallsLawful'
  <1> DEFINE p == IF req[t].todo = {m} THEN "commit" ELSE "sweep"
             i == m.row
             r == Swept(t, m)
  <1>0. TypeOK
    BY DEF IInv
  <1>1. m \in Move /\ i \in Ids /\ rows[i] # None /\ req[t] \in Request
    BY <1>0 DEF TypeOK, Request, Move, IInv, RequestsOK, RequestOK
  <1>2. pc[t] = "sweep" /\ Wrote(t, i, r, p)
    BY <1>0, <1>1 DEF SweepRow, At, Wrote, TypeOK, Request
  <1>3. req[t].op = "sweep" /\ owner[i] \in {None, t}
    BY <1>2 DEF CallsLawful, Lawful, StageOK, Wrote, Write, Free
  <1>4. /\ pend[i] \in Assignment
        /\ pend[i].ended = rows[i].ended \/ LastIs(pend[i].ended, EndsBy(req[t].op))
    BY <1>1, <1>3, FoundVersion
  <1>5. r \in Assignment /\ r # None
    BY <1>1, <1>4, SweptRow, ConstantsAssumption
  <1>6. r.ended = rows[i].ended \/ LastIs(r.ended, EndsBy(req[t].op))
    <2>1. CASE m.to = "dead"
      <3>1. r.ended = Append(pend[i].ended, "sweep")
        BY <1>4, <2>1 DEF Swept, Assignment
      <3>2. pend[i].ended \in Seq(EndKinds)
        BY <1>4 DEF Assignment
      <3> QED
        BY <1>3, <3>1, <3>2, LastOfAppend DEF EndsBy, EndKinds
    <2>2. CASE m.to # "dead"
      <3>1. r.ended = pend[i].ended
        BY <1>4, <2>2 DEF Swept, Assignment
      <3> QED
        BY <1>4, <3>1
    <2> QED
      BY <2>1, <2>2
  <1> QED
    BY <1>0, <1>1, <1>2, <1>3, <1>5, <1>6, WriteIsLawful

\* What every call has pending is lawful, whatever the others do.
THEOREM Lawfulness == Spec => []CallsLawful
  <1>1. Init => CallsLawful
    BY ConstantsAssumption DEF Init, CallsLawful, Lawful, StageOK, NoRequest
  <1>2. ASSUME IInv, IInv', CallsLawful, Next PROVE CallsLawful'
    <2>0. TypeOK /\ TypeOK'
      BY <1>2 DEF IInv
    <2>1. CASE Tick
      <3>1. /\ UNCHANGED <<rows, owner, pend, pc, req>>
            /\ clock' \in Int /\ clock' >= clock
        BY <2>0, <2>1 DEF Tick, TypeOK, Times
      <3>2. ASSUME NEW u \in Txns PROVE Lawful(u)'
        BY <1>2, <2>0, <3>1, KeptIsLawful DEF CallsLawful
      <3> QED
        BY <3>2 DEF CallsLawful
    <2>2. ASSUME NEW t \in Txns, Start(t) PROVE CallsLawful'
      BY <1>2, <2>0, <2>2, StartIsLawful
    <2>3. ASSUME NEW t \in Txns, Abort(t) PROVE CallsLawful'
      BY <1>2, <2>0, <2>3, EndIsLawful DEF Abort
    <2>4. ASSUME NEW t \in Txns, Step(t) PROVE CallsLawful'
      BY <1>2, <2>0, <2>4, EndIsLawful, InsertIsLawful, LockIsLawful,
         EvictIsLawful, WaitIsLawful, ReleaseIsLawful, StampIsLawful,
         TakeoverIsLawful, SweepIsLawful DEF Step
    <2> QED
      BY <1>2, <2>1, <2>2, <2>3, <2>4 DEF Next
  <1>3. ASSUME CallsLawful, UNCHANGED vars PROVE CallsLawful'
    BY <1>3 DEF vars, CallsLawful, Lawful, StageOK, PendingOK, Live, LastIs,
                EndsBy, Silent, Overdue
  <1>4. IInv /\ IInv' /\ CallsLawful /\ [Next]_vars => CallsLawful'
    BY <1>2, <1>3
  <1> QED
    BY <1>1, <1>4, Invariance, PTL DEF Spec

-----------------------------------------------------------------------------
(* What the commits of lawful calls show.                                  *)

\* A hold ends by the commit of the call that had its row locked.
LEMMA EndedByCommit ==
    ASSUME IInv, CallsLawful, Next, NEW i \in Ids, NEW kind \in EndKinds, Ends(i, kind)
    PROVE  \E t \in Txns : /\ Commit(t) /\ owner[i] = t /\ PendingOK(t, i)
                           /\ rows' = [j \in Ids |-> View(t, j)]
                           /\ rows'[i] = pend[i] /\ EndsBy(req[t].op) = kind
  <1>1. PICK t \in Txns : Commit(t)
    BY OnlyCommits DEF Ends, Held, Live
  <1>2. rows' = [j \in Ids |-> View(t, j)]
    BY <1>1 DEF Commit
  <1>3. owner[i] = t /\ rows'[i] = pend[i]
    BY <1>2 DEF Ends, Held, Live, View
  <1>4. PendingOK(t, i) /\ rows[i] # None
    BY <1>3 DEF CallsLawful, Lawful, Ends, Held, Live
  <1>5. rows[i].ended \in Seq(EndKinds) /\ pend[i].ended = Append(rows[i].ended, kind)
    BY <1>3, <1>4 DEF Ends, IInv, TypeOK, Assignment
  <1>6. pend[i].ended # rows[i].ended /\ LastIs(pend[i].ended, kind)
    BY <1>5, LastOfAppend
  <1>7. EndsBy(req[t].op) = kind
    BY <1>4, <1>6 DEF PendingOK, LastIs
  <1> QED
    BY <1>1, <1>2, <1>3, <1>4, <1>7

\* A refused or failed claim takes nobody's item: whoever was evicted was so
\* by a claim that got the item (claim.ts rolls the eviction back).
THEOREM EvictionsServe == Spec => EvictionServesAClaim
  <1>1. ASSUME IInv, CallsLawful, Next, NEW i \in Ids, Ends(i, "evict")
        PROVE  \E j \in Ids : /\ rows[j] = None /\ Live(rows'[j])
                              /\ rows'[j].item = rows[i].item
    <2>1. PICK t \in Txns : /\ Commit(t) /\ owner[i] = t /\ PendingOK(t, i)
                            /\ rows' = [j \in Ids |-> View(t, j)]
                            /\ rows'[i] = pend[i] /\ EndsBy(req[t].op) = "evict"
      BY <1>1, EndedByCommit DEF EndKinds
    <2>2. req[t].op = "claim" /\ rows[i] # None /\ pc[t] = "commit"
      BY <1>1, <2>1 DEF EndsBy, Ends, Held, Live, Commit
    <2>3. PICK j \in Ids : owner[j] = t /\ rows[j] = None
      BY <1>1, <2>2 DEF CallsLawful, Lawful, StageOK
    <2>4. PendingOK(t, j) /\ rows'[j] = pend[j]
      BY <1>1, <2>1, <2>3 DEF CallsLawful, Lawful, View
    <2> QED
      BY <2>1, <2>2, <2>3, <2>4 DEF PendingOK
  <1>2. IInv /\ CallsLawful /\ [Next]_vars =>
            [\A i \in Ids : Ends(i, "evict") =>
                \E j \in Ids : /\ rows[j] = None /\ Live(rows'[j])
                               /\ rows'[j].item = rows[i].item]_vars
    BY <1>1
  <1> QED
    BY <1>2, Invariance, Lawfulness, PTL DEF Spec, EvictionServesAClaim

\* No holder is evicted that was heard from lately, whatever signal races the
\* eviction (evictStaleHolders judges the row it has locked).
THEOREM EvictedWasSilent == Spec => EvictedHolderWasSilent
  <1>1. ASSUME IInv, CallsLawful, Next, NEW i \in Ids, Ends(i, "evict")
        PROVE  /\ clock - rows[i].lastActive >= EvictAfter
               /\ clock - rows[i].claimedAt >= EvictAfter
    <2>1. PICK t \in Txns : /\ PendingOK(t, i) /\ rows'[i] = pend[i]
                            /\ EndsBy(req[t].op) = "evict"
      BY <1>1, EndedByCommit DEF EndKinds
    <2>2. req[t].op = "claim" /\ rows[i] # None /\ ~rows[i].released /\ rows'[i].released
      BY <1>1, <2>1 DEF EndsBy, Ends, Held, Live
    <2>3. Silent(rows[i])
      BY <2>1, <2>2 DEF PendingOK
    <2> QED
      BY <2>3 DEF Silent
  <1>2. IInv /\ CallsLawful /\ [Next]_vars =>
            [\A i \in Ids : Ends(i, "evict") =>
                /\ clock - rows[i].lastActive >= EvictAfter
                /\ clock - rows[i].claimedAt >= EvictAfter]_vars
    BY <1>1
  <1> QED
    BY <1>2, Invariance, Lawfulness, PTL DEF Spec, EvictedHolderWasSilent

\* A takeover without force is of a holder that was dead by the clock or by
\* its row (takeoverAssignment judges the row it has locked).
THEOREM UnforcedOfTheDead == Spec => UnforcedTakeoverOnlyOfTheDead
  <1>1. ASSUME IInv, CallsLawful, Next, NEW i \in Ids, Ends(i, "takeover")
        PROVE  \/ rows[i].liveness = "dead"
               \/ clock - rows[i].lastActive >= DeadAfter
               \/ \E t \in Txns : req[t].row = i /\ req[t].force
    <2>1. PICK t \in Txns : PendingOK(t, i) /\ EndsBy(req[t].op) = "takeover"
      BY <1>1, EndedByCommit DEF EndKinds
    <2>2. req[t].op = "takeover" /\ rows[i] # None
      BY <1>1, <2>1 DEF EndsBy, Ends, Held, Live
    <2> QED
      BY <2>1, <2>2 DEF PendingOK, Overdue
  <1>2. IInv /\ CallsLawful /\ [Next]_vars =>
            [\A i \in Ids : Ends(i, "takeover") =>
                \/ rows[i].liveness = "dead"
                \/ clock - rows[i].lastActive >= DeadAfter
                \/ \E t \in Txns : req[t].row = i /\ req[t].force]_vars
    BY <1>1
  <1> QED
    BY <1>2, Invariance, Lawfulness, PTL DEF Spec, UnforcedTakeoverOnlyOfTheDead

-----------------------------------------------------------------------------
(* Who the sweep spares.  Its judgement is of a row it did not lock, and   *)
(* the row is written later: what it found must be of a kind that does not *)
(* pass.  A hook, a tool call and the age of a claim do not; a heartbeat   *)
(* may, as one that began earlier and waited may set lastActive back to    *)
(* the moment of the claim.  So this is of sessions that signal by their   *)
(* tool calls.                                                             *)

\* What keeps a row from being exempt, whatever else is written to it.
Unspared(r) ==
    \/ r.session \in Hooked
    \/ toolAt[r.session] # NoTime
    \/ clock - r.claimedAt >= SignalLessMax

Moved(r) == r.lastActive > r.claimedAt

\* A row stamped since it was claimed is of a session that called a tool.
RowsSigned ==
    \A i \in Ids : rows[i] # None /\ Moved(rows[i]) => toolAt[rows[i].session] # NoTime

\* What t has pending on row i: a stamp comes with the tool call it is for, and
\* a sweep ends no row but one it found unspared.
PendingSigned(t, i) ==
    /\ Moved(pend[i]) => \/ toolAt[pend[i].session] # NoTime
                         \/ req[t].session = pend[i].session /\ req[t].call # NoTime
    /\ rows[i] # None =>
          /\ pend[i].claimedAt = rows[i].claimedAt
          /\ req[t].op = "sweep" /\ pend[i].ended # rows[i].ended => Unspared(rows[i])

Signed(t) ==
    /\ pc[t] # "beat"
    /\ pc[t] = "stamp" => /\ rows[req[t].row].session = req[t].session
                          /\ req[t].call # NoTime
    /\ \A m \in req[t].todo : m.to = "dead" => Unspared(rows[m.row])
    /\ \A i \in Ids : owner[i] = t => PendingSigned(t, i)

CallsSigned == \A t \in Txns : Signed(t)

SignalInv == IInv /\ CallsLawful /\ RowsSigned /\ CallsSigned

\* The rows of a call on its way exist and keep their session and their age.
SameClaims ==
    \A i \in Ids : rows[i] # None =>
        /\ rows'[i].session = rows[i].session /\ rows'[i].claimedAt = rows[i].claimedAt

SignalsStay == \A s \in Sessions : toolAt[s] # NoTime => toolAt'[s] # NoTime

\* So what was found of one of them stays true as time goes on.
LEMMA UnsparedStays ==
    ASSUME TypeOK, NEW i \in Ids, rows[i] # None, Unspared(rows[i]),
           SameClaims, SignalsStay, clock' \in Int, clock' >= clock
    PROVE  Unspared(rows[i])'
  <1>1. /\ clock \in Int /\ rows[i].claimedAt \in Int /\ rows[i].session \in Sessions
        /\ SignalLessMax \in Int
    BY ConstantsAssumption DEF TypeOK, Times, Assignment
  <1>2. rows'[i].session = rows[i].session /\ rows'[i].claimedAt = rows[i].claimedAt
    BY DEF SameClaims
  <1> QED
    BY <1>1, <1>2 DEF Unspared, SignalsStay

\* What a call knows stays true while others step.
LEMMA KeptIsSigned ==
    ASSUME IInv, CallsLawful, NEW u \in Txns, Signed(u), pc'[u] = pc[u], req'[u] = req[u],
           clock' \in Int, clock' >= clock, SameClaims, SignalsStay,
           \A i \in Ids : /\ owner'[i] = u <=> owner[i] = u
                          /\ owner[i] = u => pend'[i] = pend[i] /\ rows'[i] = rows[i]
    PROVE  Signed(u)'
  <1>1. TypeOK /\ RequestOK(u) /\ req[u] \in Request
    BY DEF IInv, RequestsOK, TypeOK
  <1>2. ASSUME NEW m \in req[u].todo, m.to = "dead" PROVE Unspared(rows[m.row])'
    <2>1. m.row \in Ids /\ rows[m.row] # None /\ Unspared(rows[m.row])
      BY <1>1, <1>2 DEF Signed, RequestOK, Request, Move
    <2> HIDE DEF Unspared
    <2>2. Unspared(rows[m.row])'
      BY <1>1, <2>1, UnsparedStays
    <2> QED
      BY <2>2
  <1>3. ASSUME NEW i \in Ids, owner'[i] = u PROVE PendingSigned(u, i)'
    <2>1. /\ PendingSigned(u, i) /\ pend'[i] = pend[i] /\ rows'[i] = rows[i]
          /\ pend[i] \in Assignment \cup {None}
      BY <1>1, <1>3 DEF Signed, TypeOK
    <2>2. rows[i] # None /\ Unspared(rows[i]) => Unspared(rows[i])'
      BY <1>1, UnsparedStays
    <2>3. pend[i] # None
      BY <1>3 DEF CallsLawful, Lawful, PendingOK
    <2>4. toolAt[pend[i].session] # NoTime => toolAt'[pend[i].session] # NoTime
      BY <2>1, <2>3 DEF SignalsStay, Assignment
    <2> QED
      BY <2>1, <2>2, <2>4 DEF PendingSigned, Moved
  <1>4. pc[u] = "stamp" => rows'[req[u].row].session = rows[req[u].row].session
    BY <1>1 DEF RequestOK, SameClaims
  <1> QED
    BY <1>2, <1>3, <1>4 DEF Signed

\* So a step of t that commits nothing is right if what it leaves t with is.
LEMMA StepIsSigned ==
    ASSUME SignalInv, NEW t \in Txns, OthersKept(t), Signed(t)',
           UNCHANGED <<clock, rows, toolAt>>
    PROVE  RowsSigned' /\ CallsSigned'
  <1>1. RowsSigned'
    BY DEF SignalInv, RowsSigned, Moved
  <1>2. ASSUME NEW u \in Txns \ {t} PROVE Signed(u)'
    <2>1. /\ IInv /\ CallsLawful /\ Signed(u) /\ SameClaims /\ SignalsStay
          /\ clock' \in Int /\ clock' >= clock
      BY DEF SignalInv, CallsSigned, SameClaims, SignalsStay, IInv, TypeOK, Times
    <2> QED
      BY <2>1, KeptIsSigned DEF OthersKept
  <1> QED
    BY <1>1, <1>2 DEF CallsSigned

\* A call that fails has nothing left,
LEMMA DiscardIsSigned ==
    ASSUME SignalInv, NEW t \in Txns, Discard(t)
    PROVE  RowsSigned' /\ CallsSigned'
  <1>1. OthersKept(t) /\ UNCHANGED <<clock, rows, toolAt>>
    BY ConstantsAssumption DEF OthersKept, Discard, End, SignalInv, IInv, TypeOK
  <1>2. pc'[t] = "idle" /\ req'[t] = NoRequest /\ \A i \in Ids : owner'[i] # t
    BY ConstantsAssumption DEF Discard, End, SignalInv, IInv, TypeOK
  <1>3. Signed(t)'
    BY <1>2 DEF Signed, NoRequest
  <1> QED
    BY <1>1, <1>3, StepIsSigned

\* nor has one that commits, and its tool call is in by then.
LEMMA CommitIsSigned ==
    ASSUME SignalInv, NEW t \in Txns, Commit(t)
    PROVE  RowsSigned' /\ CallsSigned'
  <1>0. IInv /\ TypeOK /\ VersionsOK /\ CallsLawful
    BY DEF SignalInv, IInv
  <1>1. /\ \A i \in Ids : rows'[i] = IF owner[i] = t THEN pend[i] ELSE rows[i]
        /\ pc' = [pc EXCEPT ![t] = "idle"] /\ req' = [req EXCEPT ![t] = NoRequest]
        /\ owner' = [i \in Ids |-> IF owner[i] = t THEN None ELSE owner[i]]
        /\ UNCHANGED <<clock, pend>>
    BY DEF Commit, End, View
  <1>2. ASSUME NEW s \in Sessions
        PROVE  /\ toolAt[s] # NoTime => toolAt'[s] # NoTime
               /\ s = req[t].session /\ req[t].call # NoTime => toolAt'[s] # NoTime
    <2>1. /\ toolAt'[s] = IF s = req[t].session /\ req[t].call > toolAt[s]
                          THEN req[t].call ELSE toolAt[s]
          /\ toolAt[s] \in Int /\ toolAt[s] >= 0
          /\ req[t].call \in Int /\ req[t].call >= 0
      BY <1>0 DEF Commit, TypeOK, Times, NoTime, Request
    <2> QED
      BY <2>1 DEF NoTime
  <1>3. SignalsStay
    BY <1>2 DEF SignalsStay
  <1>4. SameClaims
    <2> SUFFICES ASSUME NEW i \in Ids, rows[i] # None, owner[i] = t
                 PROVE  /\ pend[i].session = rows[i].session
                        /\ pend[i].claimedAt = rows[i].claimedAt
      BY <1>1 DEF SameClaims
    <2>1. PendingSigned(t, i)
      BY DEF SignalInv, CallsSigned, Signed
    <2> QED
      BY <1>0, <2>1 DEF VersionsOK, SameKey, PendingSigned
  <1>5. RowsSigned'
    <2> SUFFICES ASSUME NEW i \in Ids, rows'[i] # None, Moved(rows'[i])
                 PROVE  toolAt'[rows'[i].session] # NoTime
      BY DEF RowsSigned, Moved
    <2>1. CASE owner[i] = t
      <3>1. PendingSigned(t, i) /\ rows'[i] = pend[i] /\ pend[i] \in Assignment
        BY <1>0, <1>1, <2>1 DEF SignalInv, CallsSigned, Signed, TypeOK
      <3>2. pend[i].session \in Sessions
        BY <3>1 DEF Assignment
      <3> QED
        BY <1>2, <3>1, <3>2 DEF PendingSigned
    <2>2. CASE owner[i] # t
      <3>1. rows'[i] = rows[i] /\ rows[i] \in Assignment
        BY <1>0, <1>1, <2>2 DEF TypeOK
      <3>2. rows[i].session \in Sessions
        BY <3>1 DEF Assignment
      <3> QED
        BY <1>2, <3>1, <3>2 DEF SignalInv, RowsSigned
    <2> QED
      BY <2>1, <2>2
  <1>6. Signed(t)'
    <2>1. pc'[t] = "idle" /\ req'[t] = NoRequest /\ \A i \in Ids : owner'[i] # t
      BY <1>0, <1>1, ConstantsAssumption DEF TypeOK
    <2> QED
      BY <2>1 DEF Signed, NoRequest
  <1>7. ASSUME NEW u \in Txns \ {t} PROVE Signed(u)'
    <2>1. Signed(u) /\ clock' \in Int /\ clock' >= clock
      BY <1>0, <1>1 DEF SignalInv, CallsSigned, TypeOK, Times
    <2>2. pc'[u] = pc[u] /\ req'[u] = req[u]
      BY <1>0, <1>1 DEF TypeOK
    <2>3. \A i \in Ids : /\ owner'[i] = u <=> owner[i] = u
                         /\ owner[i] = u => pend'[i] = pend[i] /\ rows'[i] = rows[i]
      BY <1>0, <1>1, ConstantsAssumption DEF TypeOK
    <2> QED
      BY <1>0, <1>3, <1>4, <2>1, <2>2, <2>3, KeptIsSigned
  <1> QED
    BY <1>5, <1>6, <1>7 DEF CallsSigned

\* A call that begins has nothing yet; a sweep names whom it does not spare.
LEMMA StartIsSigned ==
    ASSUME SignalInv, NEW t \in Txns, Start(t), "heartbeat" \notin Ops
    PROVE  RowsSigned' /\ CallsSigned'
  <1>0. TypeOK /\ UNCHANGED <<clock, rows, toolAt, owner, pend>> /\ pc[t] = "idle"
    BY DEF SignalInv, IInv, Start, StartSweep, StartClaim, StartRelease,
           StartHeartbeat, StartToolCalls, StartTakeover, ReadOnly, Begin
  <1>1. ASSUME NEW p, NEW op, NEW q, Begin(t, op, p, q)
        PROVE  OthersKept(t) /\ pc'[t] = p /\ req'[t] = [q EXCEPT !.op = op]
    BY <1>0, <1>1 DEF Begin, OthersKept, TypeOK
  <1>2. \A i \in Ids : owner'[i] # t
    BY <1>0 DEF SignalInv, CallsLawful, Lawful, StageOK
  <1>3. CASE StartSweep(t)
    <2>1. /\ pc'[t] = "sweep" /\ OthersKept(t)
          /\ req'[t] = [[NoRequest EXCEPT !.todo = Moves] EXCEPT !.op = "sweep"]
      BY <1>1, <1>3 DEF StartSweep
    <2>2. req'[t].todo = Moves
      BY <2>1 DEF NoRequest
    <2>3. ASSUME NEW m \in Moves, m.to = "dead" PROVE Unspared(rows[m.row])
      <3>1. PICK i \in Ids : /\ m = [row |-> i, to |-> SweepRung(rows[i], clock)]
                             /\ Live(rows[i])
        BY DEF Moves
      <3>2. m.row = i /\ SweepRung(rows[i], clock) = "dead" /\ rows[i] # None
        BY <2>3, <3>1 DEF Live
      <3>3. ~ExemptFromRelease(rows[i], clock)
        BY <3>2 DEF SweepRung
      <3>4. /\ clock \in Int /\ SignalLessMax \in Int /\ rows[i].claimedAt \in Int
            /\ rows[i].lastActive \in Int
        BY <1>0, <3>2, ConstantsAssumption DEF TypeOK, Times, Assignment
      <3> QED
        BY <3>2, <3>3, <3>4
           DEF ExemptFromRelease, NeverSignalled, Unspared, SignalInv, RowsSigned,
               Moved
    <2>4. \A m \in req'[t].todo : m.to = "dead" => Unspared(rows[m.row])'
      BY <1>0, <2>2, <2>3 DEF Unspared
    <2>5. Signed(t)'
      BY <1>2, <2>1, <2>4 DEF Signed
    <2> QED
      BY <1>0, <2>1, <2>5, StepIsSigned
  <1>4. ASSUME OthersKept(t), pc'[t] \notin {"beat", "stamp"}, req'[t].todo = {}
        PROVE  RowsSigned' /\ CallsSigned'
    <2>1. Signed(t)'
      BY <1>2, <1>4 DEF Signed
    <2> QED
      BY <1>0, <1>4, <2>1, StepIsSigned
  <1>5. ASSUME NEW s \in Sessions, NEW item \in Items, NEW role \in Roles,
               StartClaim(t, s, item, role)
        PROVE  RowsSigned' /\ CallsSigned'
    <2> DEFINE q == [NoRequest EXCEPT
                       !.item = item, !.session = s, !.role = role, !.at = clock,
                       !.now = IF SameCrew(t, item, s) THEN NoTime ELSE clock]
    <2>1. /\ OthersKept(t) /\ pc'[t] \in {"insert", "evict"}
          /\ req'[t] = [q EXCEPT !.op = "claim"]
      BY <1>1, <1>5 DEF StartClaim
    <2>2. req'[t].todo = {}
      BY <2>1 DEF NoRequest
    <2> QED
      BY <1>4, <2>1, <2>2
  <1>6. ASSUME NEW s \in Sessions, NEW i \in Ids, StartRelease(t, s, i)
        PROVE  RowsSigned' /\ CallsSigned'
    <2> DEFINE q == [NoRequest EXCEPT !.session = s, !.row = i]
    <2>1. /\ OthersKept(t) /\ pc'[t] = "release"
          /\ req'[t] = [q EXCEPT !.op = "release"]
      BY <1>1, <1>6 DEF StartRelease
    <2>2. req'[t].todo = {}
      BY <2>1 DEF NoRequest
    <2> QED
      BY <1>4, <2>1, <2>2
  <1>7. ASSUME NEW s \in Sessions, NEW i \in Ids, StartHeartbeat(t, s, i)
        PROVE  FALSE
    BY <1>7 DEF StartHeartbeat, Begin
  <1>8. ASSUME NEW s \in Sessions, NEW ts \in 1..clock, StartToolCalls(t, s, ts)
        PROVE  RowsSigned' /\ CallsSigned'
    <2>1. PICK i \in NewestLive(s) \cup {None} :
             Begin(t, "tool_calls", IF i = None THEN "commit" ELSE "stamp",
                   [NoRequest EXCEPT !.session = s, !.row = i, !.at = clock,
                                     !.call = ts])
      BY <1>8 DEF StartToolCalls
    <2> DEFINE q == [NoRequest EXCEPT !.session = s, !.row = i, !.at = clock,
                                      !.call = ts]
    <2>2. /\ OthersKept(t) /\ pc'[t] = IF i = None THEN "commit" ELSE "stamp"
          /\ req'[t] = [q EXCEPT !.op = "tool_calls"]
      BY <1>1, <2>1
    <2>3. req'[t].todo = {} /\ req'[t].row = i /\ req'[t].session = s /\ req'[t].call = ts
      BY <2>2 DEF NoRequest
    <2>4. ts # NoTime /\ (i # None => rows[i].session = s)
      BY <1>0 DEF NoTime, TypeOK, Times, NewestLive
    <2>5. Signed(t)'
      BY <1>0, <1>2, <2>2, <2>3, <2>4 DEF Signed
    <2> QED
      BY <1>0, <2>2, <2>5, StepIsSigned
  <1>9. ASSUME NEW by \in Sessions, NEW from \in Sessions, NEW item \in Items,
               NEW force \in BOOLEAN, StartTakeover(t, by, from, item, force)
        PROVE  RowsSigned' /\ CallsSigned'
    <2>1. PICK i \in LatestOf(item, from) :
             Begin(t, "takeover", "take",
                   [NoRequest EXCEPT !.session = by, !.row = i, !.now = clock,
                                     !.force = force])
      BY <1>9 DEF StartTakeover
    <2> DEFINE q == [NoRequest EXCEPT !.session = by, !.row = i, !.now = clock,
                                      !.force = force]
    <2>2. /\ OthersKept(t) /\ pc'[t] = "take"
          /\ req'[t] = [q EXCEPT !.op = "takeover"]
      BY <1>1, <2>1
    <2>3. req'[t].todo = {}
      BY <2>2 DEF NoRequest
    <2> QED
      BY <1>4, <2>2, <2>3
  <1> QED
    BY <1>3, <1>5, <1>6, <1>7, <1>8, <1>9 DEF Start

\* The version a write finds of a row that exists.
LEMMA FoundSigned ==
    ASSUME SignalInv, NEW t \in Txns, NEW i \in Ids,
           owner[i] \in {None, t}, rows[i] # None
    PROVE  /\ pend[i] \in Assignment /\ rows[i] \in Assignment
           /\ pend[i].session = rows[i].session /\ PendingSigned(t, i)
  <1>1. /\ IInv /\ CallsLawful /\ pend[i] \in Assignment /\ rows[i] \in Assignment
        /\ owner[i] = None => pend[i] = rows[i]
    BY FoundVersion DEF SignalInv
  <1>2. pend[i].session = rows[i].session
    BY <1>1 DEF IInv, VersionsOK, SameKey
  <1>3. CASE owner[i] = t
    BY <1>1, <1>2, <1>3 DEF SignalInv, CallsSigned, Signed
  <1>4. CASE owner[i] = None
    BY <1>1, <1>4 DEF SignalInv, RowsSigned, PendingSigned
  <1> QED
    BY <1>1, <1>2, <1>3, <1>4

\* An update by id of a row that exists: of its stamp, if at all, with the tool
\* call it is for, and by the sweep only as it found it.
LEMMA WriteIsSigned ==
    ASSUME SignalInv, NEW t \in Txns, NEW i \in Ids, NEW r \in Assignment,
           NEW p \in {"commit", "sweep"}, Wrote(t, i, r, p), toolAt' = toolAt,
           req'[t].session = req[t].session, req'[t].call = req[t].call,
           req'[t].todo \subseteq req[t].todo, rows[i] # None,
           r.session = pend[i].session, r.claimedAt = pend[i].claimedAt,
           \/ r.lastActive = pend[i].lastActive
           \/ req[t].session = pend[i].session /\ req[t].call # NoTime,
           req[t].op = "sweep" => r.ended = pend[i].ended \/ Unspared(rows[i])
    PROVE  RowsSigned' /\ CallsSigned'
  <1>0. TypeOK /\ Signed(t) /\ UNCHANGED <<clock, rows, toolAt>> /\ req'[t].op = req[t].op
    BY DEF SignalInv, IInv, CallsSigned, Wrote
  <1>1. /\ OthersKept(t) /\ pc'[t] = p
        /\ owner[i] \in {None, t} /\ owner'[i] = t /\ pend'[i] = r
        /\ \A j \in Ids \ {i} : owner'[j] = owner[j] /\ pend'[j] = pend[j]
    BY <1>0, WroteKeeps
  <1>2. PendingSigned(t, i)
    BY <1>1, FoundSigned
  <1>3. PendingSigned(t, i)'
    BY <1>0, <1>1, <1>2 DEF PendingSigned, Moved, Unspared
  <1>4. ASSUME NEW j \in Ids \ {i}, owner'[j] = t PROVE PendingSigned(t, j)'
    BY <1>0, <1>1, <1>4 DEF Signed, PendingSigned, Moved, Unspared
  <1>5. \A m \in req'[t].todo : m.to = "dead" => Unspared(rows[m.row])'
    BY <1>0 DEF Signed, Unspared
  <1>6. Signed(t)'
    BY <1>1, <1>3, <1>4, <1>5 DEF Signed
  <1> QED
    BY <1>0, <1>1, <1>6, StepIsSigned

\* So are a release, a stamp, a takeover and the sweep.
LEMMA UpdateIsSigned ==
    ASSUME SignalInv, NEW t \in Txns,
           \/ Release(t) \/ Stamp(t) \/ Heartbeat(t) \/ Takeover(t)
           \/ \E m \in req[t].todo : SweepRow(t, m)
    PROVE  RowsSigned' /\ CallsSigned'
  <1>0. IInv /\ TypeOK /\ Lawful(t) /\ Signed(t) /\ StageOK(t)
    BY DEF SignalInv, IInv, CallsLawful, CallsSigned, Lawful
  <1> DEFINE i == req[t].row
  <1>1. CASE Release(t)
    <2> DEFINE r == [pend[i] EXCEPT !.released = TRUE, !.ended = Append(@, "release")]
    <2>1. pc[t] = "release" /\ Wrote(t, i, r, "commit") /\ req' = req /\ toolAt' = toolAt
      BY <1>1 DEF Release, At, Wrote
    <2>2. i \in Ids /\ rows[i] # None /\ pend[i] \in Assignment /\ req[t].op = "release"
      BY <1>0, <2>1, ChosenRow DEF StageOK
    <2>3. /\ r \in Assignment /\ r.session = pend[i].session
          /\ r.claimedAt = pend[i].claimedAt /\ r.lastActive = pend[i].lastActive
      BY <2>2, ReleasedRow DEF Assignment
    <2> QED
      BY <2>1, <2>2, <2>3, WriteIsSigned
  <1>2. CASE Stamp(t)
    <2> DEFINE r == [pend[i] EXCEPT !.lastActive = req[t].at]
    <2>1. pc[t] = "stamp" /\ Wrote(t, i, r, "commit") /\ req' = req /\ toolAt' = toolAt
      BY <1>2 DEF Stamp, At, Wrote
    <2>2. /\ i \in Ids /\ rows[i] # None /\ pend[i] \in Assignment
          /\ req[t].at \in Times /\ req[t].op = "tool_calls"
      BY <1>0, <2>1, ChosenRow DEF StageOK
    <2>3. /\ r \in Assignment /\ r.session = pend[i].session
          /\ r.claimedAt = pend[i].claimedAt
      BY <2>2, StampedRow DEF Assignment
    <2>4. req[t].session = pend[i].session /\ req[t].call # NoTime
      <3>1. owner[i] \in {None, t}
        BY <2>1 DEF Wrote, Write, Free
      <3> QED
        BY <1>0, <2>1, <2>2, <3>1, FoundSigned DEF Signed
    <2> QED
      BY <2>1, <2>2, <2>3, <2>4, WriteIsSigned
  <1>3. CASE Heartbeat(t)
    BY <1>0, <1>3 DEF Heartbeat, Signed
  <1>4. CASE Takeover(t)
    <2> DEFINE r == Superseded(View(t, i), req[t].session)
    <2>1. CASE Discard(t)
      BY <2>1, DiscardIsSigned
    <2>2. CASE ~Discard(t)
      <3>1. pc[t] = "take" /\ Wrote(t, i, r, "commit") /\ req' = req /\ toolAt' = toolAt
        BY <1>4, <2>2 DEF Takeover, At, Wrote
      <3>2. /\ i \in Ids /\ rows[i] # None /\ pend[i] \in Assignment
            /\ req[t].session \in Sessions /\ req[t].op = "takeover"
        BY <1>0, <3>1, ChosenRow DEF StageOK
      <3>3. View(t, i) = pend[i]
        <4>1. owner[i] \in {None, t}
          BY <3>1 DEF Wrote, Write, Free
        <4> QED
          BY <1>0, <3>2, <4>1, FoundVersion DEF View, SignalInv
      <3>4. /\ r \in Assignment /\ r.session = pend[i].session
            /\ r.claimedAt = pend[i].claimedAt /\ r.lastActive = pend[i].lastActive
        BY <3>2, <3>3, SupersededRow DEF Superseded, Assignment
      <3> QED
        BY <3>1, <3>2, <3>4, WriteIsSigned
    <2> QED
      BY <2>1, <2>2
  <1>5. ASSUME NEW m \in req[t].todo, SweepRow(t, m)
        PROVE  RowsSigned' /\ CallsSigned'
    <2> DEFINE p == IF req[t].todo = {m} THEN "commit" ELSE "sweep"
               k == m.row
               r == Swept(t, m)
    <2>1. m \in Move /\ k \in Ids /\ rows[k] # None /\ req[t] \in Request
      BY <1>0 DEF TypeOK, Request, Move, IInv, RequestsOK, RequestOK
    <2>2. /\ Wrote(t, k, r, p) /\ p \in {"commit", "sweep"} /\ toolAt' = toolAt
          /\ req'[t] = [req[t] EXCEPT !.todo = @ \ {m}]
      BY <1>0, <1>5, <2>1 DEF SweepRow, At, Wrote, TypeOK, Request
    <2>3. /\ req'[t].session = req[t].session /\ req'[t].call = req[t].call
          /\ req'[t].todo \subseteq req[t].todo
      BY <2>1, <2>2 DEF Request
    <2>4. pend[k] \in Assignment
      BY <1>0, <2>1, PendingIsRow DEF IInv
    <2>5. /\ r \in Assignment /\ r.session = pend[k].session
          /\ r.claimedAt = pend[k].claimedAt /\ r.lastActive = pend[k].lastActive
          /\ m.to # "dead" => r.ended = pend[k].ended
      BY <2>1, <2>4, SweptRow DEF Swept, Assignment
    <2>6. m.to = "dead" => Unspared(rows[k])
      BY <1>0 DEF Signed
    <2> QED
      BY <2>1, <2>2, <2>3, <2>5, <2>6, WriteIsSigned
  <1> QED
    BY <1>1, <1>2, <1>3, <1>4, <1>5

\* The insert of a claim stamps it with the moment it is made.
LEMMA InsertIsSigned ==
    ASSUME SignalInv, NEW t \in Txns, NEW i \in Ids, ClaimInsert(t, i)
    PROVE  RowsSigned' /\ CallsSigned'
  <1>1. /\ TypeOK /\ Signed(t) /\ rows[i] = None
        /\ pc[t] \in {"insert", "reinsert"} /\ NewRow(t) \in Assignment
        /\ UNCHANGED <<clock, rows, toolAt, req>> /\ Wrote(t, i, NewRow(t), "commit")
    BY DEF SignalInv, IInv, CallsSigned, ClaimInsert, Wrote, At, RequestsOK, RequestOK
  <1>2. /\ OthersKept(t) /\ pc'[t] = "commit" /\ pend'[i] = NewRow(t)
        /\ \A j \in Ids \ {i} : owner'[j] = owner[j] /\ pend'[j] = pend[j]
    BY <1>1, WroteKeeps
  <1>3. ~Moved(NewRow(t))
    BY <1>1 DEF Moved, NewRow, Assignment, Times
  <1>4. PendingSigned(t, i)'
    BY <1>1, <1>2, <1>3 DEF PendingSigned, Moved
  <1>5. ASSUME NEW j \in Ids \ {i}, owner'[j] = t PROVE PendingSigned(t, j)'
    BY <1>1, <1>2, <1>5 DEF Signed, PendingSigned, Moved, Unspared
  <1>6. Signed(t)'
    BY <1>1, <1>2, <1>4, <1>5 DEF Signed, Unspared
  <1> QED
    BY <1>1, <1>2, <1>6, StepIsSigned

\* A lock is of the row as it is committed.
LEMMA LockIsSigned ==
    ASSUME SignalInv, NEW t \in Txns, NEW i \in Ids, LockHolder(t, i)
    PROVE  RowsSigned' /\ CallsSigned'
  <1>1. /\ TypeOK /\ Signed(t) /\ UNCHANGED <<clock, rows, pend, toolAt, pc, req>>
        /\ owner[i] = None /\ pend[i] = rows[i] /\ Live(rows[i])
    BY ConstantsAssumption
       DEF SignalInv, IInv, CallsSigned, LockHolder, VersionsOK, LiveOn, View
  <1>2. OthersKept(t) /\ owner'[i] = t /\ \A j \in Ids \ {i} : owner'[j] = owner[j]
    BY <1>1, ConstantsAssumption DEF LockHolder, OthersKept, TypeOK
  <1>3. rows[i] # None /\ PendingSigned(t, i)
    BY <1>1, FoundSigned DEF Live
  <1>4. ASSUME NEW j \in Ids, owner'[j] = t PROVE PendingSigned(t, j)'
    BY <1>1, <1>2, <1>3, <1>4 DEF Signed, PendingSigned, Moved, Unspared
  <1>5. Signed(t)'
    BY <1>1, <1>4 DEF Signed, Unspared
  <1> QED
    BY <1>1, <1>2, <1>5, StepIsSigned

\* An eviction is no sweep, and stamps nothing.
LEMMA EvictIsSigned ==
    ASSUME SignalInv, NEW t \in Txns, ClaimEvict(t)
    PROVE  RowsSigned' /\ CallsSigned'
  <1> DEFINE holders == LiveOn(t, req[t].item)
             stale == {i \in holders : Evictable(View(t, i), req[t].now)}
  <1>1. CASE stale = {}
    BY <1>1, DiscardIsSigned DEF ClaimEvict
  <1>2. CASE stale # {}
    <2>1. /\ At(t, "evict", "recheck")
          /\ \A i \in holders : owner[i] = t
          /\ pend' = [i \in Ids |->
                IF i \in stale THEN Evicted(View(t, i)) ELSE pend[i]]
          /\ UNCHANGED <<clock, rows, owner, toolAt, req>>
      BY <1>2 DEF ClaimEvict
    <2>2. TypeOK /\ Signed(t) /\ pc'[t] = "recheck" /\ req[t].op = "claim"
      BY <2>1 DEF SignalInv, IInv, CallsSigned, CallsLawful, Lawful, StageOK, At, TypeOK
    <2>3. ASSUME NEW i \in Ids, owner'[i] = t PROVE PendingSigned(t, i)'
      <3>1. PendingSigned(t, i)
        BY <2>1, <2>2, <2>3 DEF Signed
      <3>2. CASE i \in stale
        <4>1. pend[i] \in Assignment /\ pend'[i] = Evicted(pend[i])
          BY <2>1, <2>2, <2>3, <3>2 DEF LiveOn, Live, View, TypeOK
        <4>2. /\ pend'[i].session = pend[i].session
              /\ pend'[i].claimedAt = pend[i].claimedAt
              /\ pend'[i].lastActive = pend[i].lastActive
          BY <4>1 DEF Evicted, Assignment
        <4> QED
          BY <2>1, <2>2, <3>1, <4>2 DEF PendingSigned, Moved
      <3>3. CASE i \notin stale
        BY <2>1, <2>2, <3>1, <3>3 DEF PendingSigned, Moved
      <3> QED
        BY <3>2, <3>3
    <2>4. Signed(t)'
      BY <2>1, <2>2, <2>3 DEF Signed, Unspared
    <2>5. OthersKept(t)
      <3>1. \A i \in stale : owner[i] = t
        BY <2>1
      <3> QED
        BY <2>1, <2>2, <3>1 DEF OthersKept, At, TypeOK
    <2> QED
      BY <2>1, <2>4, <2>5, StepIsSigned
  <1> QED
    BY <1>1, <1>2

\* The steps of a claim that write nothing.
LEMMA WaitIsSigned ==
    ASSUME SignalInv, NEW t \in Txns, ClaimConflict(t) \/ ClaimRecheck(t)
    PROVE  RowsSigned' /\ CallsSigned'
  <1>1. CASE Discard(t)
    BY <1>1, DiscardIsSigned
  <1>2. CASE ~Discard(t)
    <2>0. TypeOK /\ Signed(t)
      BY DEF SignalInv, IInv, CallsSigned
    <2>1. /\ UNCHANGED <<clock, rows, owner, pend, toolAt>>
          /\ \E p \in {"evict", "reinsert"} : pc' = [pc EXCEPT ![t] = p]
          /\ req' = req \/ req' = [req EXCEPT ![t].now = clock]
      BY <2>0, <1>2 DEF ClaimConflict, ClaimRecheck, At, ReadOnly
    <2>2. /\ req'[t].op = req[t].op /\ req'[t].todo = req[t].todo
          /\ req'[t].session = req[t].session /\ req'[t].call = req[t].call
          /\ OthersKept(t) /\ pc'[t] \in {"evict", "reinsert"}
      BY <2>0, <2>1 DEF TypeOK, Request, OthersKept
    <2>3. ASSUME NEW i \in Ids, owner'[i] = t PROVE PendingSigned(t, i)'
      BY <2>0, <2>1, <2>2, <2>3 DEF Signed, PendingSigned, Moved, Unspared
    <2>4. Signed(t)'
      BY <2>0, <2>1, <2>2, <2>3 DEF Signed, Unspared
    <2> QED
      BY <2>1, <2>2, <2>4, StepIsSigned
  <1> QED
    BY <1>1, <1>2

\* Where sessions signal by tool calls and not by heartbeats, a sweep releases
\* no session without a hook that never signalled, before the ceiling, however
\* long ago the sweep read the row it writes (runLivenessSweep, liveness.ts).
THEOREM SignalLessSpared ==
    ASSUME "heartbeat" \notin Ops
    PROVE  Spec => SignalLessHolderKept
  <1> DEFINE Inv == RowsSigned /\ CallsSigned
  <1>1. Init => Inv
    BY ConstantsAssumption
       DEF Init, RowsSigned, CallsSigned, Signed, NoRequest
  <1>2. ASSUME IInv, CallsLawful, Inv, Next PROVE Inv'
    <2>0. SignalInv
      BY <1>2 DEF SignalInv
    <2>1. CASE Tick
      <3>1. /\ UNCHANGED <<rows, owner, pend, toolAt, pc, req>>
            /\ clock' \in Int /\ clock' >= clock
        BY <1>2, <2>1 DEF Tick, IInv, TypeOK, Times
      <3>2. SameClaims /\ SignalsStay
        BY <3>1 DEF SameClaims, SignalsStay
      <3>3. ASSUME NEW u \in Txns PROVE Signed(u)'
        BY <1>2, <3>1, <3>2, KeptIsSigned DEF CallsSigned
      <3> QED
        BY <1>2, <3>1, <3>3 DEF RowsSigned, CallsSigned, Moved
    <2>2. ASSUME NEW t \in Txns, Start(t) PROVE Inv'
      BY <2>0, <2>2, StartIsSigned
    <2>3. ASSUME NEW t \in Txns, Abort(t) PROVE Inv'
      BY <2>0, <2>3, DiscardIsSigned DEF Abort
    <2>4. ASSUME NEW t \in Txns, Step(t) PROVE Inv'
      BY <2>0, <2>4, CommitIsSigned, InsertIsSigned, LockIsSigned, EvictIsSigned,
         WaitIsSigned, UpdateIsSigned DEF Step
    <2> QED
      BY <1>2, <2>1, <2>2, <2>3, <2>4 DEF Next
  <1>3. ASSUME Inv, UNCHANGED vars PROVE Inv'
    BY <1>3 DEF vars, RowsSigned, CallsSigned, Signed, PendingSigned, Moved, Unspared
  <1>4. IInv /\ CallsLawful /\ Inv /\ [Next]_vars => Inv'
    BY <1>2, <1>3
  <1>5. ASSUME IInv, CallsLawful, Inv, Next, NEW i \in Ids, Ends(i, "sweep")
        PROVE  ~ExemptFromRelease(rows[i], clock)
    <2>1. PICK t \in Txns : /\ owner[i] = t /\ rows'[i] = pend[i]
                            /\ EndsBy(req[t].op) = "sweep"
      BY <1>5, EndedByCommit DEF EndKinds
    <2>2. req[t].op = "sweep" /\ rows[i] # None /\ rows[i] \in Assignment
      BY <1>5, <2>1 DEF EndsBy, Ends, Held, Live, IInv, TypeOK
    <2>3. pend[i].ended # rows[i].ended
      <3>1. rows[i].ended \in Seq(EndKinds)
        BY <2>2 DEF Assignment
      <3>2. pend[i].ended = Append(rows[i].ended, "sweep")
        BY <1>5, <2>1 DEF Ends
      <3> QED
        BY <3>1, <3>2
    <2>4. Unspared(rows[i])
      BY <1>5, <2>1, <2>2, <2>3 DEF CallsSigned, Signed, PendingSigned
    <2>5. clock \in Int /\ SignalLessMax \in Int /\ rows[i].claimedAt \in Int
      BY <1>5, <2>2, ConstantsAssumption DEF IInv, TypeOK, Times, Assignment
    <2> QED
      BY <2>4, <2>5 DEF Unspared, ExemptFromRelease, NeverSignalled
  <1>6. IInv /\ CallsLawful /\ Inv /\ [Next]_vars =>
            [\A i \in Ids : Ends(i, "sweep") => ~ExemptFromRelease(rows[i], clock)]_vars
    BY <1>5
  <1> QED
    BY <1>1, <1>4, <1>6, Invariance, Lawfulness, PTL DEF Spec, SignalLessHolderKept

-----------------------------------------------------------------------------
(* Claims implements Ownership.                                            *)

HoldOf(r) == [item |-> r.item, session |-> r.session, role |-> r.role]

Holders == {HoldOf(rows[i]) : i \in {j \in Ids : Held(j)}}

\* The unique indexes are the two rules of Ownership.
LEMMA HoldersWellFormed ==
    ASSUME IInv
    PROVE  Promise!WellFormed(Holders)
  <1> SUFFICES ASSUME NEW i \in Ids, NEW j \in Ids, Held(i), Held(j),
                      rows[i].item = rows[j].item,
                      \/ rows[i].session = rows[j].session
                      \/ rows[i].role = "orchestrator" /\ rows[j].role = "orchestrator"
               PROVE  i = j
    BY DEF Promise!WellFormed, Holders, HoldOf
  <1> QED
    BY DEF IInv, IndexesOK, Held, Clash, Conflicts

\* A commit grants a claim, or gives holds up.
LEMMA CommitPromised ==
    ASSUME IInv, IInv', CallsLawful, NEW t \in Txns, Commit(t)
    PROVE  \/ \E h \in Promise!Hold, evicted \in SUBSET Holders :
                /\ \A g \in evicted : g.item = h.item
                /\ Holders' = (Holders \ evicted) \cup {h}
           \/ \E ended \in SUBSET Holders : Holders' = Holders \ ended
  <1> DEFINE Kept == {i \in Ids : Held(i) /\ Live(rows'[i])}
             New == {i \in Ids : rows[i] = None /\ Live(rows'[i])}
             Stay == {HoldOf(rows[i]) : i \in Kept}
             Come == {HoldOf(rows'[i]) : i \in New}
  <1>1. rows' = [i \in Ids |-> View(t, i)]
    BY DEF Commit
  <1>2. \A i \in Ids : Live(rows'[i]) =>
            \/ rows[i] = None
            \/ Held(i) /\ HoldOf(rows'[i]) = HoldOf(rows[i])
    <2> SUFFICES ASSUME NEW i \in Ids, Live(rows'[i]), rows[i] # None
                 PROVE  Held(i) /\ HoldOf(rows'[i]) = HoldOf(rows[i])
      OBVIOUS
    <2>1. /\ pend[i] # None /\ SameKey(pend[i], rows[i])
          /\ Live(pend[i]) => Live(rows[i])
      BY DEF IInv, VersionsOK
    <2>2. rows'[i] \in {rows[i], pend[i]}
      BY <1>1 DEF View
    <2> QED
      BY <2>1, <2>2 DEF Held, HoldOf, SameKey
  <1>3. Holders' = Stay \cup Come
    <2>1. Holders' = {HoldOf(rows'[i]) : i \in {j \in Ids : Live(rows'[j])}}
      BY DEF Holders, Held
    <2>2. {j \in Ids : Live(rows'[j])} = Kept \cup New
      BY <1>2 DEF Held, Live
    <2>3. \A i \in Kept : HoldOf(rows'[i]) = HoldOf(rows[i])
      BY <1>2 DEF Held, Live
    <2> QED
      BY <2>1, <2>2, <2>3
  <1>4. Stay \subseteq Holders
    BY DEF Holders
  <1>5. \A i \in New : owner[i] = t /\ PendingOK(t, i) /\ rows'[i] = pend[i]
    BY <1>1 DEF CallsLawful, Lawful, View, Live
  <1>6. CASE New = {}
    <2>1. Holders' = Holders \ (Holders \ Stay)
      BY <1>3, <1>4, <1>6
    <2> QED
      BY <2>1
  <1>7. CASE New # {}
    <2>1. PICK n \in New : TRUE
      BY <1>7
    <2>2. New = {n}
      BY <1>5, <2>1 DEF CallsLawful, Lawful, StageOK
    <2>3. /\ req[t].op = "claim" /\ rows'[n].item = req[t].item
          /\ rows'[n] \in Assignment
      BY <1>5, <2>1 DEF PendingOK, IInv, TypeOK, Live
    <2> DEFINE h == HoldOf(rows'[n])
               evicted == Holders \ Stay
    <2>4. h \in Promise!Hold
      BY <2>3 DEF HoldOf, Promise!Hold, Assignment
    <2>5. Holders' = (Holders \ evicted) \cup {h}
      <3>1. Come = {h}
        BY <2>2
      <3> QED
        BY <1>3, <1>4, <3>1
    <2>6. ASSUME NEW g \in evicted PROVE g.item = h.item
      <3>1. PICK i \in Ids : Held(i) /\ g = HoldOf(rows[i])
        BY DEF Holders
      <3>2. ~Live(rows'[i])
        BY <2>6, <3>1
      <3>3. owner[i] = t /\ rows[i] # None
        BY <1>1, <3>1, <3>2 DEF View, Held, Live
      <3>4. rows[i].item = req[t].item
        BY <2>3, <3>3 DEF CallsLawful, Lawful, PendingOK
      <3> QED
        BY <2>3, <3>1, <3>4 DEF HoldOf
    <2> QED
      BY <2>4, <2>5, <2>6
  <1> QED
    BY <1>6, <1>7

\* Claim, release, takeover and sweep keep the promise that Ownership states
\* of atomic ones: every committed step is a grant under the two uniqueness
\* rules, a hold given up, or nothing that a holder sees.
THEOREM Implements == Spec => ImplementsOwnership
  <1>1. Init => Promise!Init
    BY DEF Init, Promise!Init, Held, Live
  <1>0. IInv => Promise!WellFormed(Holders)
    BY HoldersWellFormed
  <1>2. ASSUME IInv, IInv', CallsLawful, Promise!WellFormed(Holders)', [Next]_vars
        PROVE  [Promise!Next]_Holders
    <2>1. CASE rows' = rows
      BY <2>1 DEF Holders, Held, Live
    <2>2. ASSUME NEW t \in Txns, Commit(t)
          PROVE  Promise!Next
      <3>1. Promise!WellFormed(Holders')
        BY <1>2
      <3>2. CASE \E h \in Promise!Hold, evicted \in SUBSET Holders :
                    /\ \A g \in evicted : g.item = h.item
                    /\ Holders' = (Holders \ evicted) \cup {h}
        BY <3>1, <3>2 DEF Promise!Next, Promise!Grant, Holders, HoldOf
      <3>3. CASE \E ended \in SUBSET Holders : Holders' = Holders \ ended
        BY <3>3 DEF Promise!Next, Promise!Relinquish, Holders, HoldOf
      <3> QED
        BY <1>2, <2>2, <3>2, <3>3, CommitPromised
    <2>3. CASE UNCHANGED vars
      BY <2>1, <2>3 DEF vars
    <2> QED
      BY <1>2, <2>1, <2>2, <2>3, OnlyCommits
  <1>3. /\ IInv /\ IInv' /\ CallsLawful /\ Promise!WellFormed(Holders)'
        /\ [Next]_vars
        => [Promise!Next]_Holders
    BY <1>2
  <1> QED
    BY <1>0, <1>1, <1>3, Invariance, Lawfulness, PTL
    DEF Spec, ImplementsOwnership, Promise!Spec, Holders, HoldOf
=============================================================================
