--------------------------- MODULE PaperworkProofs ---------------------------
(***************************************************************************)
(* The paperwork of an item.  The revisions of its document form one chain *)
(* and ifRev protects what its author has not seen, for any number of      *)
(* authors, keys and revisions; and its merge, whatever is recorded while  *)
(* it is evaluated, is let through in silence only on evidence that is on  *)
(* the item, for any commits, rows and hops.                               *)
(***************************************************************************)
EXTENDS Documents, Evidence, SequenceTheorems, WellFoundedInduction, TLAPS

\* Whoever is patching has the document's lock and its newest revision.
PatcherHasLock ==
    \A w \in Authors : author[w] = "patch" => docLock = w /\ baseRev[w] = docRev

\* A patch in progress was allowed to be asked for.
PatchIsAsked ==
    \A w \in Authors : author[w] = "patch" => Asks(w, patch[w])

\* No entry is newer than the document.
EntriesAreOld ==
    \A k \in Keys : entry[k] # Blank => entry[k].rev <= docRev

\* An author whose read is complete has seen every entry that is no newer than
\* the revision it was given, although the entries were read later.
ReadIsComplete ==
    \A w \in Authors : author[w] # "get" =>
        \A k \in Keys : entry[k] # Blank /\ entry[k].rev <= readRev[w] =>
            readEntry[w][k] = entry[k]

\* And no revision it was given is in the future.
ReadIsOld == \A w \in Authors : readRev[w] <= docRev

\* One of the events that name a key is the last.
LastExists ==
    \A k \in Keys : Naming(k) # {} =>
        \E n \in Naming(k) : \A m \in Naming(k) : m <= n

DocInv ==
    /\ DocTypeOK
    /\ PatcherHasLock /\ PatchIsAsked
    /\ EntriesAreOld /\ ReadIsComplete /\ ReadIsOld
    /\ RevisionsChain
    /\ EntriesFollowTheLedger /\ LastExists

LEMMA NoPatchType == NoPatch \in Patch /\ NoEntries \in Content
BY DocAssumption DEF NoPatch, Patch, Ahead, Revs, NoEntries, Content

LEMMA DocInitInv == DocInit => DocInv
<1> SUFFICES ASSUME DocInit
             PROVE  DocInv
  OBVIOUS
<1>1. DocTypeOK
  BY DocAssumption, NoPatchType DEF DocAssumption, DocInit, DocTypeOK, Revs
<1>2. PatcherHasLock /\ PatchIsAsked
  BY DEF DocInit, PatcherHasLock, PatchIsAsked
<1>3. EntriesAreOld /\ ReadIsComplete /\ ReadIsOld
  BY DEF DocInit, EntriesAreOld, ReadIsComplete, ReadIsOld, NoEntries
<1>4. RevisionsChain
  BY DEF DocInit, RevisionsChain
<1>5. EntriesFollowTheLedger /\ LastExists
  <2>1. \A k \in Keys : Naming(k) = {}
    BY DEF DocInit, Naming
  <2> QED
    BY <2>1 DEF DocInit, EntriesFollowTheLedger, LastExists, NoEntries
<1> QED
  BY <1>1, <1>2, <1>3, <1>4, <1>5 DEF DocInv

-----------------------------------------------------------------------------
\* What the events say of a key depends on the events alone.
LEMMA SameEvents ==
    ASSUME DocInv, UNCHANGED <<changes, entry, docRev>>
    PROVE  RevisionsChain' /\ EntriesFollowTheLedger' /\ LastExists'
<1>1. RevisionsChain'
  BY DEF DocInv, RevisionsChain
<1>2. \A k : Naming(k)' = Naming(k)
  BY DEF Naming
<1>3. \A k : LastNaming(k)' = LastNaming(k)
  BY <1>2 DEF LastNaming
<1>4. EntriesFollowTheLedger'
  BY <1>2, <1>3 DEF DocInv, EntriesFollowTheLedger
<1>5. LastExists'
  BY <1>2 DEF DocInv, LastExists
<1> QED
  BY <1>1, <1>4, <1>5

\* The two statements of a read.
LEMMA ReadKeeps ==
    ASSUME DocInv, NEW w \in Authors, GetRev(w) \/ GetEntries(w)
    PROVE  DocInv'
<1>1. DocTypeOK'
  BY DEF DocInv, DocTypeOK, GetRev, GetEntries, AuthorAt
<1>2. PatcherHasLock' /\ PatchIsAsked'
  BY DEF DocInv, DocTypeOK, PatcherHasLock, PatchIsAsked, Asks, GetRev,
         GetEntries, AuthorAt
<1>3. EntriesAreOld' /\ ReadIsOld'
  <2>1. EntriesAreOld'
    BY DEF DocInv, EntriesAreOld, GetRev, GetEntries
  <2>2. docRev \in Int /\ \A v \in Authors : readRev[v] \in Int
    BY DocAssumption DEF DocInv, DocTypeOK, Revs, DocAssumption
  <2>3. \A v \in Authors : readRev'[v] \in {readRev[v], docRev} /\ docRev' = docRev
    BY DEF DocInv, DocTypeOK, GetRev, GetEntries
  <2> QED
    BY <2>1, <2>2, <2>3 DEF DocInv, ReadIsOld
<1>5. ReadIsComplete'
  <2>1. CASE GetRev(w)
    BY <2>1 DEF DocInv, DocTypeOK, ReadIsComplete, GetRev, AuthorAt
  <2>2. CASE GetEntries(w)
    BY <2>2 DEF DocInv, DocTypeOK, ReadIsComplete, GetEntries, AuthorAt
  <2> QED
    BY <2>1, <2>2
<1>4. RevisionsChain' /\ EntriesFollowTheLedger' /\ LastExists'
  BY SameEvents DEF GetRev, GetEntries
<1> QED
  BY <1>1, <1>2, <1>3, <1>4, <1>5 DEF DocInv

LEMMA StartKeeps ==
    ASSUME DocInv, NEW w \in Authors, NEW p \in Patch, StartPatch(w, p)
    PROVE  DocInv'
<1>1. DocTypeOK'
  BY DEF DocInv, DocTypeOK, StartPatch, AuthorAt
<1>2. \A v \in Authors : author[v] # "patch"
  BY DocAssumption DEF DocInv, PatcherHasLock, StartPatch, DocAssumption
<1>3. PatcherHasLock' /\ PatchIsAsked'
  BY <1>2 DEF DocInv, DocTypeOK, PatcherHasLock, PatchIsAsked, Asks, StartPatch,
         AuthorAt
<1>4. EntriesAreOld' /\ ReadIsComplete' /\ ReadIsOld'
  BY DEF DocInv, DocTypeOK, EntriesAreOld, ReadIsComplete, ReadIsOld, StartPatch,
         AuthorAt
<1>5. RevisionsChain' /\ EntriesFollowTheLedger' /\ LastExists'
  BY SameEvents DEF StartPatch
<1> QED
  BY <1>1, <1>3, <1>4, <1>5 DEF DocInv

LEMMA LeaveKeeps ==
    ASSUME DocInv, NEW w \in Authors, LeaveAlone(w)
    PROVE  DocInv'
<1>1. DocTypeOK'
  BY NoPatchType, DocAssumption
     DEF DocInv, DocTypeOK, LeaveAlone, EndPatch, AuthorAt, Revs, DocAssumption
<1>2. \A v \in Authors \ {w} : author[v] # "patch"
  BY DEF DocInv, PatcherHasLock, LeaveAlone
<1>3. PatcherHasLock' /\ PatchIsAsked'
  BY <1>2 DEF DocInv, DocTypeOK, PatcherHasLock, PatchIsAsked, LeaveAlone,
         EndPatch, AuthorAt
<1>4. EntriesAreOld' /\ ReadIsComplete' /\ ReadIsOld'
  BY DEF DocInv, DocTypeOK, EntriesAreOld, ReadIsComplete, ReadIsOld, LeaveAlone,
         EndPatch, AuthorAt
<1>5. RevisionsChain' /\ EntriesFollowTheLedger' /\ LastExists'
  BY SameEvents DEF LeaveAlone
<1> QED
  BY <1>1, <1>3, <1>4, <1>5 DEF DocInv

-----------------------------------------------------------------------------
Change == [rev : Revs, previousRev : Revs,
           written : SUBSET Keys, deleted : SUBSET Keys]

LEMMA AppendOne ==
    ASSUME NEW s \in Seq(Change), NEW e \in Change
    PROVE  /\ Append(s, e) \in Seq(Change)
           /\ Len(Append(s, e)) = Len(s) + 1 /\ Len(s) \in Nat
           /\ \A n \in 1..Len(s) : Append(s, e)[n] = s[n]
           /\ Append(s, e)[Len(s) + 1] = e
OBVIOUS

\* The event of a patch.
Told(w) == [rev |-> docRev + 1, previousRev |-> docRev,
            written |-> Writes(w), deleted |-> Deletes(w)]

\* A patch that commits: what it writes, and under which revision.
LEMMA CommitWrites ==
    ASSUME DocInv, NEW w \in Authors, CommitPatch(w)
    PROVE  /\ docRev' = docRev + 1 /\ docRev + 1 \in Revs
           /\ Len(changes) = docRev
           /\ changes' \in Seq(Change)
           /\ Len(changes') = docRev + 1 /\ docRev \in Nat
           /\ \A n \in 1..docRev : changes'[n] = changes[n]
           /\ changes'[docRev + 1] = Told(w)
           /\ \A k \in Writes(w) :
                 entry'[k] # Blank /\ entry'[k].rev = docRev + 1
           /\ \A k \in Deletes(w) : entry'[k] = Blank
           /\ \A k \in Keys \ (Writes(w) \cup Deletes(w)) : entry'[k] = entry[k]
           /\ Writes(w) \cap Deletes(w) = {}
           /\ Writes(w) \subseteq Keys /\ Deletes(w) \subseteq Keys
<1>1. baseRev[w] = docRev /\ Asks(w, patch[w]) /\ patch[w] \in Patch /\ docRev \in Revs
  BY DEF DocInv, PatcherHasLock, PatchIsAsked, DocTypeOK, CommitPatch
<1>2. docRev + 1 \in Revs /\ docRev' = docRev + 1
  BY <1>1, DocAssumption DEF CommitPatch, Revs, DocAssumption
<1>3. Len(changes) = docRev
  BY DEF DocInv, RevisionsChain
<1>4. /\ Writes(w) \subseteq Keys /\ Deletes(w) \subseteq Keys
      /\ Writes(w) \cap Deletes(w) = {}
  BY <1>1 DEF Writes, Deletes, Asks, Patch
<1>5. entry' = [k \in Keys |->
         IF k \in Writes(w) THEN Put(w, k, docRev + 1)
         ELSE IF k \in Deletes(w) THEN Blank ELSE entry[k]]
  BY <1>1 DEF CommitPatch
<1>6. \A k \in Writes(w) : Put(w, k, docRev + 1) \in Entry
  BY <1>1, <1>2 DEF Put, Entry, Writes, Patch
<1>7. \A k \in Writes(w) : entry'[k] # Blank /\ entry'[k].rev = docRev + 1
  <2> SUFFICES ASSUME NEW k \in Writes(w)
               PROVE  Put(w, k, docRev + 1) # Blank
    BY <1>4, <1>5 DEF Put
  <2> QED
    BY <1>6, DocAssumption DEF Entry, Revs, DocAssumption
<1>8. /\ changes' \in Seq(Change)
      /\ Len(changes') = docRev + 1 /\ docRev \in Nat
      /\ \A n \in 1..docRev : changes'[n] = changes[n]
      /\ changes'[docRev + 1] = Told(w)
  <2>1. changes' = Append(changes, Told(w))
    BY <1>1 DEF CommitPatch, Told
  <2>2. Told(w) \in Change
    BY <1>1, <1>2, <1>4 DEF Told, Change
  <2>3. changes \in Seq(Change)
    BY DEF DocInv, DocTypeOK, Change
  <2> QED
    BY <1>3, <2>1, <2>2, <2>3, AppendOne
<1> QED
  BY <1>2, <1>3, <1>4, <1>5, <1>7, <1>8

LEMMA CommitTypes ==
    ASSUME DocInv, NEW w \in Authors, CommitPatch(w)
    PROVE  DocTypeOK'
<1>1. patch[w] \in Patch /\ docRev \in Revs /\ docRev + 1 \in Revs
  BY CommitWrites DEF DocInv, DocTypeOK
<1>2. entry' \in Content
  BY <1>1, CommitWrites
     DEF DocInv, DocTypeOK, CommitPatch, Content, Entry, Put, Writes, Patch,
         PatcherHasLock
<1>3. docRev' \in Revs /\ changes' \in Seq(Change)
  BY <1>1, CommitWrites
<1>4. /\ docLock' \in Authors \cup {Blank}
      /\ author' \in [Authors -> {"idle", "get", "patch"}]
      /\ readRev' \in [Authors -> Revs] /\ readEntry' \in [Authors -> Content]
      /\ patch' \in [Authors -> Patch]
  BY NoPatchType DEF DocInv, DocTypeOK, CommitPatch, EndPatch, AuthorAt
<1>5. baseRev' \in [Authors -> Revs]
  BY DocAssumption
     DEF DocInv, DocTypeOK, CommitPatch, EndPatch, Revs, DocAssumption
<1> QED
  BY <1>2, <1>3, <1>4, <1>5 DEF DocTypeOK, Change

\* The lock keeps the revision of whoever is patching the newest one.
LEMMA CommitFrees ==
    ASSUME DocInv, NEW w \in Authors, CommitPatch(w)
    PROVE  PatcherHasLock' /\ PatchIsAsked'
<1>1. \A v \in Authors \ {w} : author[v] # "patch"
  BY DEF DocInv, PatcherHasLock, CommitPatch
<1> QED
  BY <1>1 DEF DocInv, DocTypeOK, PatcherHasLock, PatchIsAsked, CommitPatch,
              EndPatch, AuthorAt

\* What is written is newer than anything an author was given.
LEMMA CommitIsNew ==
    ASSUME DocInv, NEW w \in Authors, CommitPatch(w)
    PROVE  EntriesAreOld' /\ ReadIsComplete' /\ ReadIsOld'
<1>1. /\ docRev \in Int /\ \A v \in Authors : readRev[v] \in Int
      /\ \A k \in Keys : entry[k] # Blank => entry[k].rev \in Int
  BY DocAssumption DEF DocInv, DocTypeOK, Content, Entry, Revs, DocAssumption
<1>2. UNCHANGED <<readRev, readEntry>>
  BY DEF CommitPatch, EndPatch
<1>3. \A v \in Authors : author'[v] # "get" => author[v] # "get"
  BY DEF DocInv, DocTypeOK, CommitPatch, EndPatch, AuthorAt
<1>4. \A k \in Keys : \/ entry'[k] = Blank
                      \/ entry'[k] # Blank /\ entry'[k].rev = docRev + 1
                      \/ entry'[k] = entry[k]
  BY CommitWrites
<1>5. EntriesAreOld'
  BY <1>1, <1>4, CommitWrites DEF DocInv, EntriesAreOld
<1>6. ReadIsOld'
  BY <1>1, <1>2, CommitWrites DEF DocInv, ReadIsOld
<1>7. ReadIsComplete'
  <2> SUFFICES ASSUME NEW v \in Authors, author'[v] # "get", NEW k \in Keys,
                      entry'[k] # Blank, entry'[k].rev <= readRev[v]
               PROVE  readEntry[v][k] = entry'[k]
    BY <1>2 DEF ReadIsComplete
  <2>1. readRev[v] <= docRev
    BY DEF DocInv, ReadIsOld
  <2>2. entry'[k] = entry[k]
    BY <1>1, <1>4, <2>1
  <2> QED
    BY <1>3, <2>2 DEF DocInv, ReadIsComplete
<1> QED
  BY <1>5, <1>6, <1>7

LEMMA CommitChains ==
    ASSUME DocInv, NEW w \in Authors, CommitPatch(w)
    PROVE  RevisionsChain'
<1>2. Len(changes') = docRev + 1 /\ docRev \in Nat
  BY CommitWrites
<1>3. changes'[docRev + 1].rev = docRev + 1
      /\ changes'[docRev + 1].previousRev = docRev
  <2>1. changes'[docRev + 1] = Told(w)
    BY CommitWrites
  <2> QED
    BY <2>1 DEF Told
<1>4. \A n \in 1..docRev : changes'[n] = changes[n]
  BY CommitWrites
<1> QED
  BY <1>2, <1>3, <1>4, CommitWrites DEF DocInv, RevisionsChain

\* The last event that names a key is the new one for the keys it names, and
\* the one it was for the others.
LEMMA CommitTells ==
    ASSUME DocInv, NEW w \in Authors, CommitPatch(w)
    PROVE  EntriesFollowTheLedger' /\ LastExists'
<1>2. Len(changes') = docRev + 1 /\ docRev \in Nat
  BY CommitWrites
<1>3. changes'[docRev + 1].written = Writes(w)
      /\ changes'[docRev + 1].deleted = Deletes(w)
  <2>1. changes'[docRev + 1] = Told(w)
    BY CommitWrites
  <2> QED
    BY <2>1 DEF Told
<1>4. \A n \in 1..docRev : changes'[n] = changes[n]
  BY CommitWrites
<1> SUFFICES ASSUME NEW k \in Keys
             PROVE  /\ Naming(k)' # {} =>
                          \E n \in Naming(k)' : \A m \in Naming(k)' : m <= n
                    /\ IF Naming(k)' = {} \/ k \in changes'[LastNaming(k)'].deleted
                       THEN entry'[k] = Blank
                       ELSE entry'[k] # Blank /\ entry'[k].rev = LastNaming(k)'
  BY DEF EntriesFollowTheLedger, LastExists
<1>5. CASE k \in Writes(w) \cup Deletes(w)
  <2>1. docRev + 1 \in Naming(k)' /\ \A m \in Naming(k)' : m <= docRev + 1
    BY <1>2, <1>3, <1>5 DEF Naming
  <2>2. LastNaming(k)' = docRev + 1
    <3>1. \A n \in Naming(k)' : n \in Int
      BY <1>2 DEF Naming
    <3> QED
      BY <2>1, <3>1, <1>2 DEF LastNaming
  <2> QED
    BY <1>3, <1>5, <2>1, <2>2, CommitWrites
<1>6. CASE k \notin Writes(w) \cup Deletes(w)
  <2>1. Naming(k)' = Naming(k)
    BY <1>2, <1>3, <1>4, <1>6, CommitWrites DEF Naming
  <2>2. LastNaming(k)' = LastNaming(k)
    BY <2>1 DEF LastNaming
  <2>3. entry'[k] = entry[k]
    BY <1>6, CommitWrites
  <2>4. CASE Naming(k) = {}
    BY <2>1, <2>3, <2>4 DEF DocInv, EntriesFollowTheLedger
  <2>5. CASE Naming(k) # {}
    <3>1. LastNaming(k) \in 1..docRev
      <4>1. \E n \in Naming(k) : \A m \in Naming(k) : m <= n
        BY <2>5 DEF DocInv, LastExists
      <4> QED
        BY <4>1, CommitWrites DEF LastNaming, Naming
    <3>2. changes'[LastNaming(k)] = changes[LastNaming(k)]
      BY <3>1, <1>4
    <3> QED
      BY <2>1, <2>2, <2>3, <3>2 DEF DocInv, EntriesFollowTheLedger, LastExists
  <2> QED
    BY <2>4, <2>5
<1> QED
  BY <1>5, <1>6

LEMMA CommitKeeps ==
    ASSUME DocInv, NEW w \in Authors, CommitPatch(w)
    PROVE  DocInv'
BY CommitTypes, CommitFrees, CommitIsNew, CommitChains, CommitTells DEF DocInv

-----------------------------------------------------------------------------
LEMMA DocStep ==
    ASSUME DocInv, [DocNext]_docVars
    PROVE  DocInv'
<1>1. CASE DocNext
  BY <1>1, ReadKeeps, StartKeeps, LeaveKeeps, CommitKeeps DEF DocNext
<1>2. CASE UNCHANGED docVars
  <2>1. RevisionsChain' /\ EntriesFollowTheLedger' /\ LastExists'
    BY <1>2, SameEvents DEF docVars
  <2>2. DocTypeOK' /\ PatcherHasLock' /\ PatchIsAsked'
    BY <1>2 DEF DocInv, docVars, DocTypeOK, PatcherHasLock, PatchIsAsked, Asks
  <2>3. EntriesAreOld' /\ ReadIsComplete' /\ ReadIsOld'
    BY <1>2 DEF DocInv, docVars, EntriesAreOld, ReadIsComplete, ReadIsOld
  <2> QED
    BY <2>1, <2>2, <2>3 DEF DocInv
<1> QED
  BY <1>1, <1>2

THEOREM DocInvariance == DocSpec => []DocInv
BY DocInitInv, DocStep, PTL DEF DocSpec

\* The revisions form one chain: each is told of by one event, without a gap
\* or a fork, however many authors patch at once.
THEOREM OneChain == DocSpec => []RevisionsChain
<1>1. DocInv => RevisionsChain
  BY DEF DocInv
<1> QED
  BY <1>1, DocInvariance, PTL

\* The ledger's last word on a key is what the document holds.
THEOREM LedgerTellsEntries == DocSpec => []EntriesFollowTheLedger
<1>1. DocInv => EntriesFollowTheLedger
  BY DEF DocInv
<1> QED
  BY <1>1, DocInvariance, PTL

\* A patch with ifRev replaces nothing its author has not seen.
THEOREM UnseenIsKept == DocSpec => NoUnseenOverwrite
<1>1. ASSUME DocInv, NEW w \in Authors, CommitPatch(w), patch[w].ifRev # Blank,
             NEW k \in Named(patch[w]), entry[k] # Blank
      PROVE  entry[k] = readEntry[w][k]
  <2>1. /\ author[w] = "patch" /\ baseRev[w] = docRev /\ Asks(w, patch[w])
        /\ patch[w] \in Patch /\ k \in Keys /\ readRev[w] \in Revs
        /\ entry[k] \in Entry
    BY <1>1 DEF DocInv, DocTypeOK, CommitPatch, PatcherHasLock, PatchIsAsked,
                Named, Patch, Content
  <2>2. patch[w].ifRev <= docRev
    <3>1. /\ patch[w].ifRev \in Revs \cup {Ahead} /\ docRev \in Revs
          /\ ~(patch[w].ifRev > baseRev[w])
      BY <1>1, <2>1 DEF CommitPatch, Rejected, Patch, DocInv, DocTypeOK
    <3> QED
      BY <2>1, <3>1, DocAssumption DEF Revs, Ahead, DocAssumption
  <2>3. patch[w].ifRev = readRev[w]
    <3>1. docRev < Ahead
      BY <1>1, DocAssumption DEF DocInv, DocTypeOK, Revs, Ahead, DocAssumption
    <3>2. docRev \in Int /\ Ahead \in Int
      BY <1>1, DocAssumption DEF DocInv, DocTypeOK, Revs, Ahead, DocAssumption
    <3> QED
      BY <1>1, <2>1, <2>2, <3>1, <3>2 DEF Asks
  <2>4. entry[k].rev <= readRev[w]
    <3>1. entry[k].rev \in Int /\ readRev[w] \in Int
      BY <2>1, DocAssumption DEF Entry, Revs, DocAssumption
    <3>2. ~(entry[k].rev > patch[w].ifRev)
      BY <1>1 DEF CommitPatch, Rejected, ClashingKeys
    <3> QED
      BY <2>3, <3>1, <3>2
  <2> QED
    BY <1>1, <2>1, <2>4 DEF DocInv, ReadIsComplete
<1>2. DocInv /\ [DocNext]_docVars =>
        [\A w \in Authors :
            CommitPatch(w) /\ patch[w].ifRev # Blank =>
                \A k \in Named(patch[w]) :
                    entry[k] # Blank => entry[k] = readEntry[w][k]]_docVars
  BY <1>1
<1> QED
  BY <1>2, DocInvariance, PTL DEF DocSpec, NoUnseenOverwrite

-----------------------------------------------------------------------------
(* The evidence of a merge: first, numbers and their greatest.             *)

\* One of some numbers is the least.
LEMMA LeastExists ==
    ASSUME NEW S \in SUBSET Nat, S # {}
    PROVE  \E x \in S : \A y \in S : x <= y
<1>1. PICK x \in S : \A y \in S : ~(<<y, x>> \in OpToRel(<, Nat))
  BY NatLessThanWellFounded, WFMin
<1>2. \A y \in S : ~(y < x)
  BY <1>1 DEF OpToRel
<1> QED
  BY <1>2

\* And the greatest of some bounded numbers.
LEMMA MaxIsOneOf ==
    ASSUME NEW S \in SUBSET Nat, S # {}, NEW b \in Nat, \A x \in S : x <= b
    PROVE  Max(S) \in S /\ \A x \in S : x <= Max(S)
<1> DEFINE below == {b - x : x \in S}
<1>1. below \in SUBSET Nat /\ below # {}
  <2>1. \A x \in S : b - x \in Nat
    OBVIOUS
  <2> QED
    BY <2>1
<1>2. PICK d \in below : \A y \in below : d <= y
  <2> HIDE DEF below
  <2> QED
    BY <1>1, LeastExists
<1>3. PICK x \in S : d = b - x
  OBVIOUS
<1>4. \A y \in S : x >= y
  BY <1>2, <1>3
<1> QED
  BY <1>4 DEF Max

-----------------------------------------------------------------------------
(* Walks.                                                                  *)

IsWalk(w, from, links, n) ==
    /\ \E m \in 1 .. n + 1 : w \in [1 .. m -> Shas]
    /\ w[1] = from
    /\ \A k \in 1 .. Len(w) - 1 : <<w[k], w[k + 1]>> \in links

LEMMA ReachByWalks ==
    ASSUME NEW from, NEW links, NEW n \in Nat
    PROVE  \A s : s \in Reach(from, links, n)
                  <=> \E w : IsWalk(w, from, links, n) /\ s = w[Len(w)]
BY DEF Reach, IsWalk

LEMMA WalkLength ==
    ASSUME NEW m \in Nat, NEW w \in [1 .. m -> Shas]
    PROVE  w \in Seq(Shas) /\ Len(w) = m
OBVIOUS

LEMMA ReachInShas ==
    ASSUME NEW from, NEW links, NEW n \in Nat
    PROVE  /\ Reach(from, links, n) \subseteq Shas
           /\ from \notin Shas => Reach(from, links, n) = {}
<1>1. ASSUME NEW w, IsWalk(w, from, links, n)
      PROVE  w[Len(w)] \in Shas /\ from \in Shas
  <2>1. PICK m \in 1 .. n + 1 : w \in [1 .. m -> Shas]
    BY <1>1 DEF IsWalk
  <2>2. Len(w) = m
    BY <2>1, WalkLength
  <2> QED
    BY <1>1, <2>1, <2>2 DEF IsWalk
<1> QED
  BY <1>1, ReachByWalks

LEMMA ReachSelf ==
    ASSUME NEW from \in Shas, NEW links, NEW n \in Nat
    PROVE  from \in Reach(from, links, n)
<1> DEFINE w == [k \in 1 .. 1 |-> from]
<1>1. w \in [1 .. 1 -> Shas] /\ Len(w) = 1
  BY WalkLength
<1>2. IsWalk(w, from, links, n)
  BY <1>1 DEF IsWalk
<1> QED
  BY <1>1, <1>2, ReachByWalks

\* More links, or more of them allowed, reach no less.
LEMMA ReachGrows ==
    ASSUME NEW from, NEW fewer, NEW more, fewer \subseteq more,
           NEW m \in Nat, NEW n \in Nat, m <= n
    PROVE  Reach(from, fewer, m) \subseteq Reach(from, more, n)
<1>1. \A w : IsWalk(w, from, fewer, m) => IsWalk(w, from, more, n)
  BY DEF IsWalk
<1> QED
  BY <1>1, ReachByWalks

LEMMA ReachOneMore ==
    ASSUME NEW from, NEW links, NEW n \in Nat,
           NEW a \in Reach(from, links, n), NEW b \in Shas, <<a, b>> \in links
    PROVE  b \in Reach(from, links, n + 1)
<1>1. PICK w : IsWalk(w, from, links, n) /\ a = w[Len(w)]
  BY ReachByWalks
<1>2. PICK m \in 1 .. n + 1 : w \in [1 .. m -> Shas]
  BY <1>1 DEF IsWalk
<1>3. Len(w) = m
  BY <1>2, WalkLength
<1> DEFINE v == [k \in 1 .. m + 1 |-> IF k = m + 1 THEN b ELSE w[k]]
<1>4. v \in [1 .. m + 1 -> Shas] /\ Len(v) = m + 1
  <2>1. v \in [1 .. m + 1 -> Shas]
    BY <1>2
  <2> HIDE DEF v
  <2> QED
    BY <2>1, WalkLength
<1>5. \A k \in 1 .. m : v[k] = w[k]
  OBVIOUS
<1>6. v[m + 1] = b
  OBVIOUS
<1>7. \A k \in 1 .. m : <<v[k], v[k + 1]>> \in links
  <2> TAKE k \in 1 .. m
  <2>1. CASE k = m
    BY <2>1, <1>1, <1>3, <1>5, <1>6
  <2>2. CASE k # m
    <3>1. k + 1 \in 1 .. m /\ k \in 1 .. m - 1
      BY <2>2
    <3> QED
      BY <3>1, <1>1, <1>3, <1>5 DEF IsWalk
  <2> QED
    BY <2>1, <2>2
<1> HIDE DEF v
<1>8. IsWalk(v, from, links, n + 1)
  BY <1>1, <1>4, <1>5, <1>7 DEF IsWalk
<1> QED
  BY <1>4, <1>6, <1>8, ReachByWalks

\* A walk of one link more ends where a shorter one does, or one link on.
LEMMA ReachLast ==
    ASSUME NEW from, NEW links, NEW n \in Nat, NEW b \in Reach(from, links, n + 1)
    PROVE  b = from \/ \E a \in Reach(from, links, n) : <<a, b>> \in links
<1>1. PICK w : IsWalk(w, from, links, n + 1) /\ b = w[Len(w)]
  BY ReachByWalks
<1>2. PICK m \in 1 .. n + 2 : w \in [1 .. m -> Shas]
  BY <1>1 DEF IsWalk
<1>3. Len(w) = m
  BY <1>2, WalkLength
<1>4. CASE m = 1
  BY <1>1, <1>3, <1>4 DEF IsWalk
<1>5. CASE m # 1
  <2> DEFINE v == [k \in 1 .. m - 1 |-> w[k]]
  <2>1. v \in [1 .. m - 1 -> Shas] /\ m - 1 \in 1 .. n + 1
    BY <1>2, <1>5
  <2>2. Len(v) = m - 1 /\ \A k \in 1 .. m - 1 : v[k] = w[k]
    BY <2>1, WalkLength
  <2> HIDE DEF v
  <2>3. IsWalk(v, from, links, n)
    BY <1>1, <1>3, <2>1, <2>2 DEF IsWalk
  <2>4. <<w[m - 1], w[m]>> \in links
    <3>1. m - 1 \in 1 .. Len(w) - 1 /\ (m - 1) + 1 = m
      BY <1>3, <1>5
    <3> QED
      BY <3>1, <1>1 DEF IsWalk
  <2>5. v[Len(v)] \in Reach(from, links, n)
    BY <2>3, ReachByWalks
  <2>6. v[Len(v)] = w[m - 1] /\ b = w[m]
    BY <1>1, <1>3, <1>5, <2>1, <2>2
  <2> QED
    BY <2>4, <2>5, <2>6
<1> QED
  BY <1>4, <1>5

\* What a walk passes is where a shorter one ends.
LEMMA ReachPassed ==
    ASSUME NEW from, NEW links, NEW n \in Nat,
           NEW w, IsWalk(w, from, links, n), NEW k \in 1 .. Len(w)
    PROVE  w[k] \in Reach(from, links, n)
<1>1. PICK m \in 1 .. n + 1 : w \in [1 .. m -> Shas]
  BY DEF IsWalk
<1>2. Len(w) = m
  BY <1>1, WalkLength
<1> DEFINE v == [j \in 1 .. k |-> w[j]]
<1>3. v \in [1 .. k -> Shas] /\ k \in 1 .. n + 1
  BY <1>1, <1>2
<1>4. Len(v) = k /\ \A j \in 1 .. k : v[j] = w[j]
  BY <1>3, WalkLength
<1> HIDE DEF v
<1>5. IsWalk(v, from, links, n)
  BY <1>2, <1>3, <1>4 DEF IsWalk
<1> QED
  BY <1>3, <1>4, <1>5, ReachByWalks

\* A set that no link leaves holds every walk that begins in it.
LEMMA ReachStaysIn ==
    ASSUME NEW links, NEW n \in Nat, NEW S, NEW from \in S,
           \A a \in S, b \in Shas : <<a, b>> \in links => b \in S
    PROVE  Reach(from, links, n) \subseteq S
<1> SUFFICES ASSUME NEW w, IsWalk(w, from, links, n)
             PROVE  w[Len(w)] \in S
  BY ReachByWalks
<1>1. PICK m \in 1 .. n + 1 : w \in [1 .. m -> Shas]
  BY DEF IsWalk
<1>2. Len(w) = m
  BY <1>1, WalkLength
<1> DEFINE outside == {k \in 1 .. m : w[k] \notin S}
<1>3. SUFFICES ASSUME outside # {}
               PROVE  FALSE
  BY <1>2
<1>4. PICK k \in outside : \A j \in outside : k <= j
  <2>1. outside \in SUBSET Nat
    OBVIOUS
  <2> HIDE DEF outside
  <2> QED
    BY <1>3, <2>1, LeastExists
<1>5. k # 1
  BY DEF IsWalk
<1>6. w[k - 1] \in S /\ k - 1 \in 1 .. Len(w) - 1
  BY <1>2, <1>4, <1>5
<1>7. <<w[k - 1], w[k]>> \in links
  <2>1. (k - 1) + 1 = k
    OBVIOUS
  <2> QED
    BY <1>6, <2>1 DEF IsWalk
<1> QED
  BY <1>1, <1>6, <1>7

-----------------------------------------------------------------------------
(* The queries.                                                            *)

LEMMA RowFields ==
    /\ \A row \in Commits : /\ row.kind = "commit" /\ row.sha \in Shas
                            /\ row.supersedes \in Shas \cup {NoSha} /\ row.round \in Rounds
    /\ \A row \in Reviews : /\ row.kind = "code_review" /\ row.sha \in Shas \cup {NoSha}
                            /\ row.verdict \in Verdicts /\ row.round \in Rounds
    /\ \A row \in Overrides : /\ row.kind = "override" /\ row.sha \in Shas \cup {NoSha}
                              /\ row.round \in Rounds
    /\ \A row \in OtherRows : row.kind = "check_run" /\ row.round \in Rounds
BY DEF Commits, Reviews, Overrides, OtherRows

\* What is of a kind, as the places say.
LEMMA KindsOfRows ==
    ASSUME NEW arts \in Seq(Rows)
    PROVE  /\ \A kind : Of(arts, kind) \in SUBSET (1 .. Len(arts))
           /\ \A n \in Of(arts, "commit") : arts[n] \in Commits
           /\ \A n \in Of(arts, "code_review") : arts[n] \in Reviews
           /\ \A n \in Of(arts, "override") : arts[n] \in Overrides
<1>1. DOMAIN arts = 1 .. Len(arts) /\ \A n \in DOMAIN arts : arts[n] \in Rows
  OBVIOUS
<1> QED
  BY <1>1, RowFields DEF Of, Rows

LEMMA NewestPlace ==
    ASSUME NEW m \in Nat, NEW places \in SUBSET (1 .. m), places # {}
    PROVE  Max(places) \in places /\ \A n \in places : n <= Max(places)
<1>1. places \in SUBSET Nat /\ \A n \in places : n <= m
  OBVIOUS
<1> QED
  BY <1>1, MaxIsOneOf

LEMMA TipIsSha ==
    ASSUME NEW arts \in Seq(Rows)
    PROVE  Tip(arts) \in Shas \cup {NoSha}
<1> DEFINE commits == Of(arts, "commit")
<1>1. Len(arts) \in Nat /\ commits \in SUBSET (1 .. Len(arts))
  BY KindsOfRows
<1>2. commits # {} => arts[Max(commits)] \in Commits
  BY <1>1, KindsOfRows, NewestPlace
<1> QED
  BY <1>2, RowFields DEF Tip

\* A hop follows a link that some row declares.
LEMMA HopIsDeclared ==
    ASSUME NEW arts \in Seq(Rows), NEW sha
    PROVE  /\ Rewritten(arts, sha) \in Shas \cup {NoSha}
           /\ Rewritten(arts, sha) # NoSha => <<sha, Rewritten(arts, sha)>> \in Declared(arts)
<1> DEFINE links == {n \in Of(arts, "commit") : arts[n].sha = sha /\ arts[n].supersedes # NoSha}
<1>1. Len(arts) \in Nat /\ links \in SUBSET (1 .. Len(arts))
  BY KindsOfRows
<1>2. CASE links = {}
  BY <1>2 DEF Rewritten
<1>3. CASE links # {}
  <2> DEFINE n == Max(links)
  <2>1. n \in links
    BY <1>1, <1>3, NewestPlace
  <2>2. Rewritten(arts, sha) = arts[n].supersedes
    BY <1>3 DEF Rewritten
  <2>3. n \in {k \in DOMAIN arts : arts[k].kind = "commit"} /\ arts[n].sha = sha
    BY <2>1 DEF Of
  <2>4. arts[n] \in Commits
    BY <2>1, KindsOfRows
  <2> QED
    BY <2>2, <2>3, <2>4, RowFields DEF Declared
<1> QED
  BY <1>2, <1>3

LEMMA RoundIsRound ==
    ASSUME NEW arts \in Seq(Rows)
    PROVE  Round(arts) \in Rounds
<1> DEFINE rounds == {1} \cup {arts[n].round : n \in DOMAIN arts}
<1>1. \A n \in DOMAIN arts : arts[n].round \in Rounds
  BY RowFields DEF Rows
<1>2. rounds \in SUBSET Rounds /\ rounds # {}
  BY <1>1, EvidenceAssumption DEF EvidenceAssumption, Rounds
<1>3. rounds \in SUBSET Nat /\ MaxRound \in Nat /\ \A r \in rounds : r <= MaxRound
  <2> HIDE DEF rounds
  <2> QED
    BY <1>2, EvidenceAssumption DEF EvidenceAssumption, Rounds
<1>4. Max(rounds) \in rounds
  <2> HIDE DEF rounds
  <2> QED
    BY <1>2, <1>3, MaxIsOneOf
<1> QED
  BY <1>2, <1>4 DEF Round

\* Rows by their places, as a search has them in hand.
Found(rows, m) == DOMAIN rows \subseteq 1 .. m /\ rows \in [DOMAIN rows -> Reviews \cup Overrides]

LEMMA NewestIsOneOf ==
    ASSUME NEW m \in Nat, NEW rows, Found(rows, m), NEW tip, NEW lineage
    PROVE  LET row == NewestCovering(rows, tip, lineage)
           IN /\ row = NoRow \/ \E n \in DOMAIN rows : row = rows[n] /\ Covers(row.sha, tip, lineage)
              /\ row = NoRow <=> \A n \in DOMAIN rows : ~Covers(rows[n].sha, tip, lineage)
<1> DEFINE covering == {n \in DOMAIN rows : Covers(rows[n].sha, tip, lineage)}
<1>1. covering \in SUBSET (1 .. m)
  BY DEF Found
<1>2. CASE covering = {}
  BY <1>2 DEF NewestCovering
<1>3. CASE covering # {}
  <2>1. Max(covering) \in covering
    BY <1>1, <1>3, NewestPlace
  <2>2. NewestCovering(rows, tip, lineage) = rows[Max(covering)]
    BY <1>3 DEF NewestCovering
  <2>3. rows[Max(covering)] # NoRow
    BY <2>1, EvidenceAssumption DEF Found, EvidenceAssumption, Rows
  <2> QED
    BY <2>1, <2>2, <2>3
<1> QED
  BY <1>2, <1>3

\* Approvals by their places, as a search has them in hand.
ApprovalsIn(arts) == UNION {[places -> Reviews] : places \in SUBSET DOMAIN arts}

LEMMA ApprovalsFound ==
    ASSUME NEW arts \in Seq(Rows), NEW round
    PROVE  /\ DOMAIN ApprovedAt(arts, round)
                = {n \in Of(arts, "code_review") : arts[n].round = round}
           /\ ApprovedAt(arts, round) \in ApprovalsIn(arts)
           /\ \A n \in DOMAIN ApprovedAt(arts, round) :
                 /\ n \in DOMAIN arts
                 /\ ApprovedAt(arts, round)[n] = arts[n]
                 /\ arts[n] \in Reviews /\ arts[n].round = round
           /\ Found(ApprovedAt(arts, round), Len(arts))
<1> DEFINE places == {n \in Of(arts, "code_review") : arts[n].round = round}
           rows == [n \in places |-> arts[n]]
<1>1. ApprovedAt(arts, round) = rows
  BY DEF ApprovedAt, Restrict
<1>2. places \in SUBSET (1 .. Len(arts)) /\ \A n \in places : arts[n] \in Reviews
  BY KindsOfRows
<1>3. DOMAIN rows = places /\ rows \in [places -> Reviews]
  BY <1>2
<1>4. DOMAIN arts = 1 .. Len(arts)
  OBVIOUS
<1>5. Found(rows, Len(arts))
  BY <1>2, <1>3 DEF Found
<1>6. rows \in ApprovalsIn(arts)
  BY <1>2, <1>3, <1>4 DEF ApprovalsIn
<1> QED
  BY <1>1, <1>2, <1>3, <1>4, <1>5, <1>6

LEMMA OverridesFound ==
    ASSUME NEW arts \in Seq(Rows)
    PROVE  /\ \A n \in DOMAIN Restrict(arts, Of(arts, "override")) :
                 /\ n \in DOMAIN arts
                 /\ Restrict(arts, Of(arts, "override"))[n] = arts[n]
                 /\ arts[n] \in Overrides
           /\ Found(Restrict(arts, Of(arts, "override")), Len(arts))
<1> DEFINE places == Of(arts, "override")
           rows == [n \in places |-> arts[n]]
<1>1. Restrict(arts, places) = rows
  BY DEF Restrict
<1>2. places \in SUBSET (1 .. Len(arts)) /\ \A n \in places : arts[n] \in Overrides
  BY KindsOfRows
<1>3. DOMAIN rows = places /\ rows \in [places -> Overrides]
  BY <1>2
<1>4. DOMAIN arts = 1 .. Len(arts)
  OBVIOUS
<1>5. Found(rows, Len(arts))
  BY <1>2, <1>3 DEF Found
<1> QED
  BY <1>1, <1>2, <1>3, <1>4, <1>5

-----------------------------------------------------------------------------
(* The inductive invariant.                                                *)

Judgements ==
    [at : {"begun", "tip", "lineage", "hop", "decide", "any", "round", "rows", "deferred", "merged"},
     clause : {"override", "review", "followUp"},
     tip : Shas \cup {NoSha}, lineage : SUBSET Shas, cursor : Shas \cup {NoSha},
     hops : 0 .. MaxHops, round : Rounds, rests : Rows \cup {NoRow},
     rows : ApprovalsIn(artifacts),
     warned : SUBSET {"review", "followUp"},
     changes : Nat, tips : SUBSET (Shas \cup {NoSha}), rounds : SUBSET Rounds]

EvTypeOK ==
    /\ artifacts \in Seq(Rows)
    /\ followUp \in {"open", "closed"}
    /\ merge \in Judgements

\* Where each clause can be.
ClausesInOrder ==
    /\ merge.at = "begun" => merge = Unasked
    /\ merge.at \in {"deferred", "merged"} => merge.clause = "followUp"
    /\ merge.at = "any" => merge.clause = "review"
    /\ merge.at \in {"round", "rows"} => merge.clause # "override"
    /\ merge.at = "lineage" => merge.lineage = {} /\ merge.hops = 0
    /\ merge.at = "hop" => merge.hops < MaxHops /\ merge.cursor \in merge.lineage

\* The tips and rounds of the evaluation include today's,
TodayIsKept ==
    merge.at # "begun" => Tip(artifacts) \in merge.tips /\ Round(artifacts) \in merge.rounds

Searching == merge.at \in {"lineage", "hop", "decide"}

\* and those that it has read.
ReadWasToday ==
    /\ Searching => merge.tip \in merge.tips
    /\ merge.at = "rows" => merge.round \in merge.rounds

\* The approvals in hand are on the item, and of a round that was current.
ApprovalsAreRows ==
    \A n \in DOMAIN merge.rows :
        /\ merge.rows[n].round \in merge.rounds
        /\ \E m \in DOMAIN artifacts : artifacts[m] = merge.rows[n]

\* One of the tips was declared a rewrite of everything in the lineage.
LineageIsDeclared ==
    merge.at \in {"hop", "decide"} =>
        \E tip \in merge.tips : merge.lineage \subseteq Reach(tip, Declared(artifacts), merge.hops)

\* What a silent review clause rests on.
Reviewed ==
    /\ \E n \in DOMAIN artifacts : artifacts[n] = merge.rests
    /\ \/ merge.rests.kind = "override"
       \/ /\ merge.rests.kind = "code_review" /\ ~Blocking(merge.rests)
          /\ merge.rests.round \in merge.rounds
    /\ \E tip \in merge.tips :
          \/ tip = NoSha /\ merge.rests.sha = NoSha
          \/ tip # NoSha /\ Replaces(tip, merge.rests.sha, artifacts)

RestsOnEvidence ==
    merge.clause = "followUp" /\ "review" \notin merge.warned => Reviewed

\* While nothing is recorded: what each search has in hand is what it would find
\* at once,
TrueSearch ==
    /\ Searching => merge.tip = Tip(artifacts)
    /\ merge.at = "hop" =>
          /\ merge.lineage = Within(artifacts, merge.hops)
          /\ \A sha \in merge.lineage \ {merge.cursor} : Rewritten(artifacts, sha) \in merge.lineage
    /\ merge.at = "decide" => merge.lineage = Within(artifacts, MaxHops)

TrueRows ==
    /\ merge.at = "rows" => merge.round = Round(artifacts)
    /\ (Searching \/ merge.at = "tip") /\ merge.clause # "override" =>
          merge.rows = ApprovedAt(artifacts, Round(artifacts))

\* and so is what the clauses have said so far.
Approved(arts) ==
    Overridden(arts) \/ (Approval(arts, MaxHops) # NoRow /\ ~Blocking(Approval(arts, MaxHops)))

TrueVerdict ==
    /\ merge.clause = "review" => ~Overridden(artifacts)
    /\ merge.clause = "followUp" /\ merge.at # "merged" =>
          /\ merge.warned \subseteq {"review"}
          /\ merge.warned = {} <=> Approved(artifacts)
    /\ merge.at = "deferred" =>
          /\ Approval(artifacts, MaxHops) # NoRow
          /\ Approval(artifacts, MaxHops).verdict = "lgtm_with_followups"
    /\ merge.at = "merged" => (merge.warned = {} <=> Sound(artifacts))

Undisturbed ==
    merge.at # "begun" /\ merge.changes = 0 => TrueSearch /\ TrueRows /\ TrueVerdict

EvInv ==
    /\ EvTypeOK
    /\ ClausesInOrder
    /\ TodayIsKept /\ ReadWasToday
    /\ ApprovalsAreRows /\ LineageIsDeclared
    /\ RestsOnEvidence
    /\ Undisturbed

-----------------------------------------------------------------------------
(* The evaluation.                                                         *)

LEMMA NoRowsInHand ==
    /\ DOMAIN <<>> = {}
    /\ \A arts : <<>> \in ApprovalsIn(arts)
<1>1. DOMAIN <<>> = {}
  OBVIOUS
<1>2. <<>> \in [{} -> Reviews]
  OBVIOUS
<1>3. \A arts : {} \in SUBSET DOMAIN arts
  OBVIOUS
<1> QED
  BY <1>1, <1>2, <1>3 DEF ApprovalsIn

LEMMA GoOnFields ==
    ASSUME NEW at, NEW clause, NEW warned, NEW rests
    PROVE  LET next == GoOn(at, clause, warned, rests)
           IN /\ next = [at |-> at, clause |-> clause, tip |-> NoSha, lineage |-> {},
                         cursor |-> NoSha, hops |-> 0, rows |-> <<>>, round |-> 1,
                         rests |-> rests, warned |-> warned, changes |-> merge.changes,
                         tips |-> merge.tips, rounds |-> merge.rounds]
<1> DEFINE start == [at |-> "begun", clause |-> "override", tip |-> NoSha, lineage |-> {},
                     cursor |-> NoSha, hops |-> 0, rows |-> <<>>, round |-> 1, rests |-> NoRow,
                     warned |-> {}, changes |-> 0, tips |-> {}, rounds |-> {}]
<1>1. Unasked = start
  BY Zenon DEF Unasked
<1>2. GoOn(at, clause, warned, rests)
        = [start EXCEPT !.at = at, !.clause = clause, !.warned = warned, !.rests = rests,
             !.changes = merge.changes, !.tips = merge.tips, !.rounds = merge.rounds]
  BY <1>1, Zenon DEF GoOn
<1> QED
  BY <1>2

LEMMA EvInitInv == EvInit => EvInv
<1> SUFFICES ASSUME EvInit
             PROVE  EvInv
  OBVIOUS
<1> USE DEF EvInit
<1>1. EvTypeOK
  <2>1. merge = [at |-> "begun", clause |-> "override", tip |-> NoSha, lineage |-> {},
                 cursor |-> NoSha, hops |-> 0, rows |-> <<>>, round |-> 1, rests |-> NoRow,
                 warned |-> {}, changes |-> 0, tips |-> {}, rounds |-> {}]
    BY DEF Unasked
  <2>2. 0 \in 0 .. MaxHops /\ 1 \in Rounds
    BY EvidenceAssumption DEF EvidenceAssumption, Rounds
  <2> QED
    BY <2>1, <2>2, NoRowsInHand DEF EvTypeOK, Judgements
<1>2. /\ merge.at = "begun" /\ merge.clause = "override" /\ merge.rows = <<>>
      /\ merge = Unasked
  BY DEF Unasked
<1>3. ClausesInOrder /\ TodayIsKept /\ ReadWasToday
  BY <1>2 DEF ClausesInOrder, TodayIsKept, ReadWasToday, Searching
<1>4. ApprovalsAreRows /\ LineageIsDeclared /\ RestsOnEvidence /\ Undisturbed
  BY <1>2, NoRowsInHand DEF ApprovalsAreRows, LineageIsDeclared, RestsOnEvidence, Undisturbed
<1> QED
  BY <1>1, <1>3, <1>4 DEF EvInv

\* A step from one search to another, or to the merge.
LEMMA GoOnKeeps ==
    ASSUME EvInv, artifacts' = artifacts, followUp' = followUp, merge.at # "begun",
           NEW at \in {"any", "round", "deferred", "merged"}, NEW clause \in {"review", "followUp"},
           at \in {"deferred", "merged"} => clause = "followUp",
           at = "any" => clause = "review",
           NEW warned \in SUBSET {"review", "followUp"}, NEW rests \in Rows \cup {NoRow},
           merge' = GoOn(at, clause, warned, rests),
           clause = "followUp" /\ "review" \notin warned => Reviewed',
           merge.changes = 0 => TrueVerdict'
    PROVE  EvInv'
<1>1. merge' = [at |-> at, clause |-> clause, tip |-> NoSha, lineage |-> {}, cursor |-> NoSha,
                hops |-> 0, rows |-> <<>>, round |-> 1, rests |-> rests, warned |-> warned,
                changes |-> merge.changes, tips |-> merge.tips, rounds |-> merge.rounds]
  BY GoOnFields
<1>2. EvTypeOK'
  <2>1. 0 \in 0 .. MaxHops /\ 1 \in Rounds
    BY EvidenceAssumption DEF EvidenceAssumption, Rounds
  <2>2. /\ merge.changes \in Nat /\ merge.tips \in SUBSET (Shas \cup {NoSha})
        /\ merge.rounds \in SUBSET Rounds
    BY DEF EvInv, EvTypeOK, Judgements
  <2>3. <<>> \in ApprovalsIn(artifacts)
    BY NoRowsInHand
  <2>4. merge' \in Judgements
    BY <1>1, <2>1, <2>2, <2>3 DEF Judgements
  <2> QED
    BY <2>4 DEF EvInv, EvTypeOK, Judgements
<1>3. /\ merge'.at = at /\ merge'.clause = clause /\ merge'.rows = <<>>
      /\ merge'.warned = warned /\ merge'.changes = merge.changes
      /\ merge'.tips = merge.tips /\ merge'.rounds = merge.rounds
  BY <1>1
<1>4. ClausesInOrder'
  BY <1>3 DEF ClausesInOrder
<1>5. TodayIsKept' /\ ReadWasToday'
  BY <1>3 DEF EvInv, TodayIsKept, ReadWasToday, Searching
<1>6. ApprovalsAreRows' /\ LineageIsDeclared'
  BY <1>3, NoRowsInHand DEF ApprovalsAreRows, LineageIsDeclared
<1>7. RestsOnEvidence'
  BY <1>3 DEF RestsOnEvidence
<1>8. Undisturbed'
  BY <1>3 DEF Undisturbed, TrueSearch, TrueRows, Searching
<1> QED
  BY <1>2, <1>4, <1>5, <1>6, <1>7, <1>8 DEF EvInv

\* A step within a search: what has been said stands.
LEMMA SearchOn ==
    ASSUME EvInv, artifacts' = artifacts, followUp' = followUp,
           merge.at \notin {"begun", "merged"}, merge'.at \notin {"deferred", "merged"},
           merge'.clause = merge.clause, merge'.warned = merge.warned,
           merge'.rests = merge.rests, merge'.changes = merge.changes,
           merge'.tips = merge.tips, merge'.rounds = merge.rounds
    PROVE  /\ TodayIsKept' /\ RestsOnEvidence'
           /\ merge.changes = 0 => TrueVerdict'
<1>1. TodayIsKept'
  BY DEF EvInv, TodayIsKept
<1>2. RestsOnEvidence'
  BY DEF EvInv, RestsOnEvidence, Reviewed
<1>3. merge.changes = 0 => TrueVerdict'
  BY DEF EvInv, Undisturbed, TrueVerdict
<1> QED
  BY <1>1, <1>2, <1>3

LEMMA AskKeeps ==
    ASSUME EvInv, Ask, artifacts' = artifacts, followUp' = followUp
    PROVE  EvInv'
<1> DEFINE today == Tip(artifacts)
           round == Round(artifacts)
<1>1. today \in Shas \cup {NoSha} /\ round \in Rounds
  BY TipIsSha, RoundIsRound DEF EvInv, EvTypeOK
<1>2. merge' = [merge EXCEPT !.at = "tip", !.tips = {today}, !.rounds = {round}]
  BY DEF Ask
<1>3. merge.clause = "override" /\ merge.rows = <<>>
  BY DEF Ask, EvInv, ClausesInOrder, Unasked
<1>4. /\ merge'.at = "tip" /\ merge'.clause = merge.clause /\ merge'.rows = merge.rows
      /\ merge'.tips = {today} /\ merge'.rounds = {round}
      /\ merge' \in Judgements
  <2> HIDE DEF today, round
  <2> QED
    BY <1>1, <1>2 DEF EvInv, EvTypeOK, Judgements
<1>5. EvTypeOK'
  BY <1>4 DEF EvInv, EvTypeOK, Judgements
<1>6. ClausesInOrder' /\ ReadWasToday' /\ LineageIsDeclared' /\ RestsOnEvidence'
  BY <1>3, <1>4 DEF ClausesInOrder, ReadWasToday, Searching, LineageIsDeclared, RestsOnEvidence
<1>7. TodayIsKept'
  BY <1>4 DEF TodayIsKept
<1>8. ApprovalsAreRows'
  BY <1>3, <1>4, NoRowsInHand DEF ApprovalsAreRows
<1>9. Undisturbed'
  BY <1>3, <1>4 DEF Undisturbed, TrueSearch, TrueRows, TrueVerdict, Searching
<1> QED
  BY <1>5, <1>6, <1>7, <1>8, <1>9 DEF EvInv

\* Without a tip no walk begins.
LEMMA NoTipNoWalk ==
    ASSUME NEW arts \in Seq(Rows), NEW n \in Nat, Tip(arts) = NoSha
    PROVE  Within(arts, n) = {}
BY ReachInShas, EvidenceAssumption DEF Within, EvidenceAssumption

LEMMA ReadTipKeeps ==
    ASSUME EvInv, ReadTip, artifacts' = artifacts, followUp' = followUp
    PROVE  EvInv'
<1> DEFINE today == Tip(artifacts)
           to == IF merge.clause = "override" /\ today = NoSha THEN "decide" ELSE "lineage"
<1>1. today \in Shas \cup {NoSha} /\ 0 \in 0 .. MaxHops /\ MaxHops \in Nat
  BY TipIsSha, EvidenceAssumption DEF EvInv, EvTypeOK, EvidenceAssumption
<1>2. merge' = [merge EXCEPT !.tip = today, !.lineage = {}, !.hops = 0, !.at = to]
  BY DEF ReadTip
<1>3. to \in {"lineage", "decide"} /\ (to = "decide" => merge.clause = "override" /\ today = NoSha)
  OBVIOUS
<1>4. /\ merge'.at = to /\ merge'.tip = today /\ merge'.lineage = {} /\ merge'.hops = 0
      /\ merge'.clause = merge.clause /\ merge'.rows = merge.rows
      /\ merge'.warned = merge.warned /\ merge'.rests = merge.rests
      /\ merge'.changes = merge.changes /\ merge'.tips = merge.tips /\ merge'.rounds = merge.rounds
      /\ merge' \in Judgements
  <2> HIDE DEF today, to
  <2> QED
    BY <1>1, <1>2, <1>3 DEF EvInv, EvTypeOK, Judgements
<1>5. merge.at = "tip"
  BY DEF ReadTip
<1>6. EvTypeOK'
  BY <1>4 DEF EvInv, EvTypeOK, Judgements
<1>7. TodayIsKept' /\ RestsOnEvidence' /\ (merge.changes = 0 => TrueVerdict')
  BY <1>3, <1>4, <1>5, SearchOn
<1>8. ClausesInOrder'
  BY <1>3, <1>4 DEF ClausesInOrder
<1>9. ReadWasToday' /\ ApprovalsAreRows'
  BY <1>3, <1>4, <1>5 DEF EvInv, ReadWasToday, ApprovalsAreRows, TodayIsKept
<1>10. LineageIsDeclared'
  BY <1>3, <1>4, <1>5 DEF EvInv, LineageIsDeclared, TodayIsKept
<1>11. Undisturbed'
  <2> SUFFICES ASSUME merge.changes = 0
               PROVE  TrueSearch' /\ TrueRows'
    BY <1>4, <1>7 DEF Undisturbed
  <2>1. to = "decide" => Within(artifacts, MaxHops) = {}
    BY <1>1, <1>3, NoTipNoWalk DEF EvInv, EvTypeOK
  <2>2. TrueSearch'
    BY <1>3, <1>4, <2>1 DEF TrueSearch
  <2>3. TrueRows'
    BY <1>3, <1>4, <1>5 DEF EvInv, Undisturbed, TrueRows, Searching
  <2> QED
    BY <2>2, <2>3
<1> QED
  BY <1>6, <1>7, <1>8, <1>9, <1>10, <1>11 DEF EvInv

LEMMA StartLineageKeeps ==
    ASSUME EvInv, StartLineage, artifacts' = artifacts, followUp' = followUp
    PROVE  EvInv'
<1> DEFINE today == Tip(artifacts)
<1>1. today \in Shas \cup {NoSha} /\ MaxHops \in Nat \ {0} /\ NoSha \notin Shas
  BY TipIsSha, EvidenceAssumption DEF EvInv, EvTypeOK, EvidenceAssumption
<1>2. IF today = NoSha THEN merge' = [merge EXCEPT !.at = "decide"]
      ELSE merge' = [merge EXCEPT !.at = "hop", !.lineage = {today}, !.cursor = today]
  BY DEF StartLineage
<1>3. merge.at = "lineage"
  BY DEF StartLineage
<1>4. /\ merge'.at = IF today = NoSha THEN "decide" ELSE "hop"
      /\ merge'.lineage = IF today = NoSha THEN merge.lineage ELSE {today}
      /\ today # NoSha => merge'.cursor = today
      /\ merge'.tip = merge.tip /\ merge'.hops = merge.hops
      /\ merge'.clause = merge.clause /\ merge'.rows = merge.rows
      /\ merge'.warned = merge.warned /\ merge'.rests = merge.rests
      /\ merge'.changes = merge.changes /\ merge'.tips = merge.tips /\ merge'.rounds = merge.rounds
      /\ merge' \in Judgements
  <2> HIDE DEF today
  <2>1. CASE today = NoSha
    BY <1>2, <2>1 DEF EvInv, EvTypeOK, Judgements
  <2>2. CASE today # NoSha
    <3>1. today \in Shas /\ {today} \in SUBSET Shas
      BY <1>1, <2>2
    <3>2. merge' = [merge EXCEPT !.at = "hop", !.lineage = {today}, !.cursor = today]
      BY <1>2, <2>2
    <3>3. merge' \in Judgements
      BY <3>1, <3>2 DEF EvInv, EvTypeOK, Judgements
    <3> QED
      BY <2>2, <3>2, <3>3 DEF EvInv, EvTypeOK, Judgements
  <2> QED
    BY <2>1, <2>2
<1>5. merge.lineage = {} /\ merge.hops = 0
  BY <1>3 DEF EvInv, ClausesInOrder
<1>6. EvTypeOK'
  BY <1>4 DEF EvInv, EvTypeOK, Judgements
<1>7. TodayIsKept' /\ RestsOnEvidence' /\ (merge.changes = 0 => TrueVerdict')
  BY <1>3, <1>4, SearchOn
<1>8. ClausesInOrder'
  BY <1>1, <1>4, <1>5 DEF ClausesInOrder
<1>9. ReadWasToday' /\ ApprovalsAreRows'
  BY <1>3, <1>4 DEF EvInv, ReadWasToday, Searching, ApprovalsAreRows
<1>10. today # NoSha => \A links : {today} \subseteq Reach(today, links, 0)
  BY <1>1, ReachSelf
<1>11. LineageIsDeclared'
  <2>1. today \in merge.tips
    BY <1>3 DEF EvInv, TodayIsKept
  <2>2. merge'.lineage \subseteq Reach(today, Declared(artifacts), merge'.hops)
    BY <1>4, <1>5, <1>10
  <2> QED
    BY <1>4, <2>1, <2>2 DEF LineageIsDeclared
<1>12. Undisturbed'
  <2> SUFFICES ASSUME merge.changes = 0
               PROVE  TrueSearch' /\ TrueRows'
    BY <1>4, <1>7 DEF Undisturbed
  <2>1. CASE today = NoSha
    <3>1. Within(artifacts, MaxHops) = {}
      BY <1>1, <2>1, NoTipNoWalk DEF EvInv, EvTypeOK
    <3> QED
      BY <1>3, <1>4, <1>5, <2>1, <3>1 DEF EvInv, Undisturbed, TrueSearch, TrueRows, Searching
  <2>2. CASE today # NoSha
    <3>1. Within(artifacts, 0) = {today}
      <4>1. Within(artifacts, 0) \subseteq {today}
        <5>1. ASSUME NEW w, IsWalk(w, today, Links(artifacts), 0)
              PROVE  w[Len(w)] = today
          <6>1. PICK m \in 1 .. 0 + 1 : w \in [1 .. m -> Shas]
            BY <5>1 DEF IsWalk
          <6>2. m = 1 /\ Len(w) = m
            BY <6>1, WalkLength
          <6> QED
            BY <5>1, <6>2 DEF IsWalk
        <5> QED
          BY <5>1, ReachByWalks DEF Within
      <4> QED
        BY <1>10, <2>2, <4>1 DEF Within
    <3> QED
      BY <1>3, <1>4, <1>5, <2>2, <3>1 DEF EvInv, Undisturbed, TrueSearch, TrueRows, Searching
  <2> QED
    BY <2>1, <2>2
<1> QED
  BY <1>6, <1>7, <1>8, <1>9, <1>11, <1>12 DEF EvInv

LEMMA ReadRoundKeeps ==
    ASSUME EvInv, ReadRound, artifacts' = artifacts, followUp' = followUp
    PROVE  EvInv'
<1> DEFINE today == Round(artifacts)
<1>1. today \in Rounds
  BY RoundIsRound DEF EvInv, EvTypeOK
<1>2. merge.at = "round" /\ merge' = [merge EXCEPT !.at = "rows", !.round = today]
  BY DEF ReadRound
<1>3. /\ merge'.at = "rows" /\ merge'.round = today
      /\ merge'.clause = merge.clause /\ merge'.rows = merge.rows
      /\ merge'.warned = merge.warned /\ merge'.rests = merge.rests
      /\ merge'.changes = merge.changes /\ merge'.tips = merge.tips /\ merge'.rounds = merge.rounds
      /\ merge' \in Judgements
  <2> HIDE DEF today
  <2> QED
    BY <1>1, <1>2 DEF EvInv, EvTypeOK, Judgements
<1>4. EvTypeOK'
  BY <1>3 DEF EvInv, EvTypeOK, Judgements
<1>5. TodayIsKept' /\ RestsOnEvidence' /\ (merge.changes = 0 => TrueVerdict')
  BY <1>2, <1>3, SearchOn
<1>6. ClausesInOrder'
  BY <1>2, <1>3 DEF EvInv, ClausesInOrder
<1>7. ReadWasToday' /\ ApprovalsAreRows' /\ LineageIsDeclared'
  BY <1>2, <1>3 DEF EvInv, ReadWasToday, Searching, ApprovalsAreRows, TodayIsKept,
                    LineageIsDeclared
<1>8. Undisturbed'
  BY <1>2, <1>3, <1>5 DEF Undisturbed, TrueSearch, TrueRows, Searching
<1> QED
  BY <1>4, <1>5, <1>6, <1>7, <1>8 DEF EvInv

\* Without an approving review, of any round, there is none of this one.
LEMMA NoReviewNoApproval ==
    ASSUME NEW arts \in Seq(Rows), DOMAIN ApprovedAt(arts, Round(arts)) = {}
    PROVE  Approval(arts, MaxHops) = NoRow
<1>1. Found(ApprovedAt(arts, Round(arts)), Len(arts))
  BY ApprovalsFound, Zenon
<1>2. Len(arts) \in Nat
  OBVIOUS
<1> QED
  BY <1>1, <1>2, NewestIsOneOf DEF Approval

LEMMA AnyApprovalKeeps ==
    ASSUME EvInv, AnyApproval, artifacts' = artifacts, followUp' = followUp
    PROVE  EvInv'
<1>1. merge.at = "any" /\ merge.clause = "review"
  BY DEF AnyApproval, EvInv, ClausesInOrder
<1>2. CASE Of(artifacts, "code_review") # {}
  <2>1. merge' = [merge EXCEPT !.at = "round"]
    BY <1>2 DEF AnyApproval
  <2>2. /\ merge'.at = "round"
        /\ merge'.clause = merge.clause /\ merge'.rows = merge.rows
        /\ merge'.warned = merge.warned /\ merge'.rests = merge.rests
        /\ merge'.changes = merge.changes /\ merge'.tips = merge.tips
        /\ merge'.rounds = merge.rounds /\ merge' \in Judgements
    BY <2>1 DEF EvInv, EvTypeOK, Judgements
  <2>3. EvTypeOK'
    BY <2>2 DEF EvInv, EvTypeOK, Judgements
  <2>4. TodayIsKept' /\ RestsOnEvidence' /\ (merge.changes = 0 => TrueVerdict')
    BY <1>1, <2>2, SearchOn
  <2>5. ClausesInOrder'
    BY <1>1, <2>2 DEF ClausesInOrder
  <2>6. ReadWasToday' /\ ApprovalsAreRows' /\ LineageIsDeclared'
    BY <1>1, <2>2 DEF EvInv, ReadWasToday, Searching, ApprovalsAreRows, LineageIsDeclared
  <2>7. Undisturbed'
    BY <1>1, <2>2, <2>4 DEF Undisturbed, TrueSearch, TrueRows, Searching
  <2> QED
    BY <2>3, <2>4, <2>5, <2>6, <2>7 DEF EvInv
<1>3. CASE Of(artifacts, "code_review") = {}
  <2>1. merge' = GoOn("round", "followUp", {"review"}, NoRow)
    BY <1>3 DEF AnyApproval
  <2>2. merge'.at = "round" /\ merge'.clause = "followUp" /\ merge'.warned = {"review"}
    BY <2>1, GoOnFields
  <2>3. DOMAIN ApprovedAt(artifacts, Round(artifacts)) = {}
    BY <1>3, ApprovalsFound DEF EvInv, EvTypeOK
  <2>4. Approval(artifacts, MaxHops) = NoRow
    BY <2>3, NoReviewNoApproval DEF EvInv, EvTypeOK
  <2>5. merge.changes = 0 => TrueVerdict'
    BY <1>1, <2>2, <2>4 DEF EvInv, Undisturbed, TrueVerdict, Approved
  <2> QED
    BY <1>1, <2>1, <2>5, GoOnKeeps
<1> QED
  BY <1>2, <1>3

LEMMA ReadApprovalsKeeps ==
    ASSUME EvInv, ReadApprovals, artifacts' = artifacts, followUp' = followUp
    PROVE  EvInv'
<1> DEFINE rows == ApprovedAt(artifacts, merge.round)
<1>1. merge.at = "rows" /\ merge.clause \in {"review", "followUp"}
  BY DEF ReadApprovals, EvInv, ClausesInOrder, EvTypeOK, Judgements
<1>2. artifacts \in Seq(Rows)
  BY DEF EvInv, EvTypeOK
<1>3. merge.changes = 0 => merge.round = Round(artifacts)
  BY <1>1 DEF EvInv, Undisturbed, TrueRows
<1>4. CASE DOMAIN rows # {}
  <2>1. merge' = [merge EXCEPT !.at = "tip", !.rows = rows]
    BY <1>4 DEF ReadApprovals
  <2>2. /\ rows \in ApprovalsIn(artifacts)
        /\ \A n \in DOMAIN rows : /\ n \in DOMAIN artifacts /\ rows[n] = artifacts[n]
                                  /\ rows[n].round = merge.round
    <3>1. rows \in ApprovalsIn(artifacts)
      BY <1>2, ApprovalsFound, Zenon
    <3>2. \A n \in DOMAIN ApprovedAt(artifacts, merge.round) :
             /\ n \in DOMAIN artifacts
             /\ ApprovedAt(artifacts, merge.round)[n] = artifacts[n]
             /\ artifacts[n] \in Reviews /\ artifacts[n].round = merge.round
      BY <1>2, ApprovalsFound, Zenon
    <3> QED
      BY <3>1, <3>2
  <2> HIDE DEF rows
  <2>3. /\ merge'.at = "tip" /\ merge'.rows = rows /\ merge'.clause = merge.clause
        /\ merge'.warned = merge.warned /\ merge'.rests = merge.rests
        /\ merge'.changes = merge.changes /\ merge'.tips = merge.tips
        /\ merge'.rounds = merge.rounds /\ merge' \in Judgements
    BY <2>1, <2>2 DEF EvInv, EvTypeOK, Judgements
  <2>4. EvTypeOK'
    BY <2>3 DEF EvInv, EvTypeOK, Judgements
  <2>5. TodayIsKept' /\ RestsOnEvidence' /\ (merge.changes = 0 => TrueVerdict')
    BY <1>1, <2>3, SearchOn
  <2>6. ClausesInOrder'
    BY <1>1, <2>3 DEF ClausesInOrder
  <2>7. ReadWasToday' /\ LineageIsDeclared'
    BY <2>3 DEF ReadWasToday, Searching, LineageIsDeclared
  <2>8. ApprovalsAreRows'
    BY <1>1, <2>2, <2>3 DEF EvInv, ReadWasToday, ApprovalsAreRows
  <2>9. Undisturbed'
    BY <1>3, <2>3, <2>5 DEF rows, Undisturbed, TrueSearch, TrueRows, Searching
  <2> QED
    BY <2>4, <2>5, <2>6, <2>7, <2>8, <2>9 DEF EvInv
<1>5. ASSUME DOMAIN rows = {}, merge.changes = 0
      PROVE  Approval(artifacts, MaxHops) = NoRow
  BY <1>2, <1>3, <1>5, NoReviewNoApproval
<1>6. CASE DOMAIN rows = {} /\ merge.clause = "review"
  <2>1. merge' = GoOn("round", "followUp", {"review"}, NoRow)
    BY <1>6 DEF ReadApprovals
  <2>2. merge'.at = "round" /\ merge'.clause = "followUp" /\ merge'.warned = {"review"}
    BY <2>1, GoOnFields
  <2>3. merge.changes = 0 => TrueVerdict'
    BY <1>1, <1>5, <1>6, <2>2 DEF EvInv, Undisturbed, TrueVerdict, Approved
  <2> QED
    BY <1>1, <2>1, <2>3, GoOnKeeps
<1>7. CASE DOMAIN rows = {} /\ merge.clause = "followUp"
  <2>1. merge' = GoOn("merged", "followUp", merge.warned, merge.rests)
    BY <1>7 DEF ReadApprovals
  <2>2. /\ merge'.at = "merged" /\ merge'.clause = "followUp" /\ merge'.warned = merge.warned
        /\ merge'.rests = merge.rests /\ merge'.tips = merge.tips /\ merge'.rounds = merge.rounds
    BY <2>1, GoOnFields
  <2>3. merge.changes = 0 => TrueVerdict'
    <3> SUFFICES ASSUME merge.changes = 0
                 PROVE  TrueVerdict'
      OBVIOUS
    <3>1. Sound(artifacts)' <=> Approved(artifacts)
      BY <1>5, <1>7 DEF Sound, Approved
    <3>2. merge.warned = {} <=> Approved(artifacts)
      BY <1>1, <1>7 DEF EvInv, Undisturbed, TrueVerdict
    <3> QED
      BY <2>2, <3>1, <3>2 DEF TrueVerdict
  <2>4. "review" \notin merge.warned => Reviewed'
    BY <1>7, <2>2 DEF EvInv, RestsOnEvidence, Reviewed
  <2>5. merge.warned \in SUBSET {"review", "followUp"} /\ merge.rests \in Rows \cup {NoRow}
    BY DEF EvInv, EvTypeOK, Judgements
  <2> QED
    BY <1>1, <2>1, <2>3, <2>4, <2>5, GoOnKeeps
<1> QED
  BY <1>1, <1>4, <1>6, <1>7

LEMMA LinksAreDeclared ==
    ASSUME NEW arts \in Seq(Rows)
    PROVE  Links(arts) \subseteq Declared(arts)
<1> SUFFICES ASSUME NEW a \in Shas, NEW b \in Shas, b = Rewritten(arts, a)
             PROVE  <<a, b>> \in Declared(arts)
  BY DEF Links
<1>1. Rewritten(arts, a) # NoSha
  BY EvidenceAssumption DEF EvidenceAssumption
<1> QED
  BY <1>1, HopIsDeclared

\* One hop more goes on from the cursor alone, once the rest of the lineage goes
\* nowhere new.
LEMMA OneHopMore ==
    ASSUME NEW arts \in Seq(Rows), NEW n \in Nat, NEW lineage, NEW cursor \in lineage,
           lineage = Within(arts, n),
           \A sha \in lineage \ {cursor} : Rewritten(arts, sha) \in lineage
    PROVE  LET next == Rewritten(arts, cursor)
           IN  /\ next \in Shas => Within(arts, n + 1) = lineage \cup {next}
               /\ next = NoSha \/ next \in lineage =>
                     \A m \in Nat : m >= n => Within(arts, m) = lineage
<1> DEFINE next == Rewritten(arts, cursor)
           from == Tip(arts)
           links == Links(arts)
<1>1. lineage = Reach(from, links, n) /\ lineage \subseteq Shas /\ from \in lineage
  <2>1. lineage = Reach(from, links, n)
    BY DEF Within
  <2>2. lineage \subseteq Shas /\ from \in Shas
    BY <2>1, ReachInShas
  <2> QED
    BY <2>1, <2>2, ReachSelf
<1>2. \A a \in lineage, b \in Shas : <<a, b>> \in links => b \in lineage \/ b = next
  BY DEF Links
<1>3. ASSUME next \in Shas
      PROVE  Within(arts, n + 1) = lineage \cup {next}
  <2>1. <<cursor, next>> \in links
    BY <1>1, <1>3 DEF Links
  <2>2. lineage \subseteq Reach(from, links, n + 1)
    BY <1>1, ReachGrows
  <2>3. next \in Reach(from, links, n + 1)
    BY <1>1, <1>3, <2>1, ReachOneMore
  <2>4. ASSUME NEW b \in Reach(from, links, n + 1)
        PROVE  b \in lineage \cup {next}
    <3>1. b \in Shas
      BY ReachInShas
    <3>2. b = from \/ \E a \in lineage : <<a, b>> \in links
      BY <1>1, ReachLast
    <3> QED
      BY <1>1, <1>2, <3>1, <3>2
  <2> QED
    BY <2>2, <2>3, <2>4 DEF Within
<1>4. ASSUME next = NoSha \/ next \in lineage, NEW m \in Nat, m >= n
      PROVE  Within(arts, m) = lineage
  <2>1. \A a \in lineage, b \in Shas : <<a, b>> \in links => b \in lineage
    BY <1>2, <1>4, EvidenceAssumption DEF EvidenceAssumption
  <2>2. Reach(from, links, m) \subseteq lineage
    BY <1>1, <2>1, ReachStaysIn
  <2>3. lineage \subseteq Reach(from, links, m)
    BY <1>1, <1>4, ReachGrows
  <2> QED
    BY <2>2, <2>3 DEF Within
<1> QED
  BY <1>3, <1>4

LEMMA HopKeeps ==
    ASSUME EvInv, Hop, artifacts' = artifacts, followUp' = followUp
    PROVE  EvInv'
<1> DEFINE next == Rewritten(artifacts, merge.cursor)
           ends == next = NoSha \/ next \in merge.lineage
<1>1. /\ artifacts \in Seq(Rows) /\ merge.at = "hop" /\ merge.cursor \in merge.lineage
      /\ merge.hops \in Nat /\ MaxHops \in Nat /\ merge.hops < MaxHops
      /\ merge.lineage \subseteq Shas
  BY EvidenceAssumption
     DEF Hop, EvInv, EvTypeOK, ClausesInOrder, Judgements, EvidenceAssumption
<1>2. /\ next \in Shas \cup {NoSha}
      /\ next # NoSha => <<merge.cursor, next>> \in Declared(artifacts)
  BY <1>1, HopIsDeclared
<1>3. CASE ends
  <2>1. merge' = [merge EXCEPT !.at = "decide"]
    BY <1>3 DEF Hop
  <2>2. /\ merge'.at = "decide" /\ merge'.lineage = merge.lineage /\ merge'.hops = merge.hops
        /\ merge'.tip = merge.tip /\ merge'.clause = merge.clause /\ merge'.rows = merge.rows
        /\ merge'.warned = merge.warned /\ merge'.rests = merge.rests
        /\ merge'.changes = merge.changes /\ merge'.tips = merge.tips
        /\ merge'.rounds = merge.rounds /\ merge' \in Judgements
    BY <2>1 DEF EvInv, EvTypeOK, Judgements
  <2>3. EvTypeOK'
    BY <2>2 DEF EvInv, EvTypeOK, Judgements
  <2>4. TodayIsKept' /\ RestsOnEvidence' /\ (merge.changes = 0 => TrueVerdict')
    BY <1>1, <2>2, SearchOn
  <2>5. ClausesInOrder'
    BY <2>2 DEF ClausesInOrder
  <2>6. ReadWasToday' /\ ApprovalsAreRows' /\ LineageIsDeclared'
    BY <1>1, <2>2 DEF EvInv, ReadWasToday, Searching, ApprovalsAreRows, LineageIsDeclared
  <2>7. Undisturbed'
    <3> SUFFICES ASSUME merge.changes = 0
                 PROVE  TrueSearch' /\ TrueRows'
      BY <2>2, <2>4 DEF Undisturbed
    <3>1. TrueSearch /\ TrueRows
      BY <1>1 DEF EvInv, Undisturbed
    <3>2. Within(artifacts, MaxHops) = merge.lineage
      <4>1. MaxHops >= merge.hops
        BY <1>1
      <4> QED
        BY <1>1, <1>3, <3>1, <4>1, OneHopMore DEF TrueSearch
    <3> QED
      BY <1>1, <2>2, <3>1, <3>2 DEF TrueSearch, TrueRows, Searching
  <2> QED
    BY <2>3, <2>4, <2>5, <2>6, <2>7 DEF EvInv
<1>4. CASE ~ends
  <2> DEFINE to == IF merge.hops + 1 = MaxHops THEN "decide" ELSE "hop"
             longer == merge.lineage \cup {next}
  <2>1. merge' = [merge EXCEPT !.lineage = longer, !.cursor = next, !.hops = merge.hops + 1,
                     !.at = to]
    BY <1>4 DEF Hop
  <2>2. next \in Shas /\ longer \in SUBSET Shas /\ merge.hops + 1 \in 0 .. MaxHops
    BY <1>1, <1>2, <1>4
  <2>3. to \in {"decide", "hop"} /\ (to = "decide" <=> merge.hops + 1 = MaxHops)
    OBVIOUS
  <2>4. /\ merge'.at = to /\ merge'.lineage = longer /\ merge'.cursor = next
        /\ merge'.hops = merge.hops + 1
        /\ merge'.tip = merge.tip /\ merge'.clause = merge.clause /\ merge'.rows = merge.rows
        /\ merge'.warned = merge.warned /\ merge'.rests = merge.rests
        /\ merge'.changes = merge.changes /\ merge'.tips = merge.tips
        /\ merge'.rounds = merge.rounds /\ merge' \in Judgements
    <3> HIDE DEF to, longer, next
    <3> QED
      BY <2>1, <2>2, <2>3 DEF EvInv, EvTypeOK, Judgements
  <2>5. EvTypeOK'
    BY <2>4 DEF EvInv, EvTypeOK, Judgements
  <2>6. TodayIsKept' /\ RestsOnEvidence' /\ (merge.changes = 0 => TrueVerdict')
    BY <1>1, <2>3, <2>4, SearchOn
  <2>7. ClausesInOrder'
    BY <1>1, <2>3, <2>4 DEF ClausesInOrder
  <2>8. ReadWasToday' /\ ApprovalsAreRows'
    BY <1>1, <2>3, <2>4 DEF EvInv, ReadWasToday, Searching, ApprovalsAreRows
  <2>9. LineageIsDeclared'
    <3>1. PICK tip \in merge.tips :
             merge.lineage \subseteq Reach(tip, Declared(artifacts), merge.hops)
      BY <1>1 DEF EvInv, LineageIsDeclared
    <3>2. merge.lineage \subseteq Reach(tip, Declared(artifacts), merge.hops + 1)
      BY <1>1, <3>1, ReachGrows
    <3>3. next \in Reach(tip, Declared(artifacts), merge.hops + 1)
      BY <1>1, <1>2, <1>4, <2>2, <3>1, ReachOneMore
    <3> QED
      BY <2>4, <3>1, <3>2, <3>3 DEF LineageIsDeclared
  <2>10. Undisturbed'
    <3> SUFFICES ASSUME merge.changes = 0
                 PROVE  TrueSearch' /\ TrueRows'
      BY <2>4, <2>6 DEF Undisturbed
    <3>1. TrueSearch /\ TrueRows
      BY <1>1 DEF EvInv, Undisturbed
    <3>2. Within(artifacts, merge.hops + 1) = longer
      BY <1>1, <2>2, <3>1, OneHopMore DEF TrueSearch
    <3>3. \A sha \in longer \ {next} : Rewritten(artifacts, sha) \in longer
      BY <1>1, <3>1 DEF TrueSearch
    <3>4. TrueSearch'
      <4>1. Searching /\ merge.tip = Tip(artifacts)
        BY <1>1, <3>1 DEF TrueSearch, Searching
      <4> HIDE DEF longer, next, to
      <4> QED
        BY <2>3, <2>4, <3>2, <3>3, <4>1 DEF TrueSearch
    <3>5. TrueRows'
      BY <1>1, <2>3, <2>4, <3>1 DEF TrueRows, Searching
    <3> QED
      BY <3>4, <3>5
  <2> QED
    BY <2>5, <2>6, <2>7, <2>8, <2>9, <2>10 DEF EvInv
<1> QED
  BY <1>3, <1>4

\* A row that covers was declared, if it names a commit, by the tip or by one
\* that was the tip.
LEMMA CoveringWasDeclared ==
    ASSUME EvInv, merge.at = "decide",
           NEW row, Covers(row.sha, merge.tip, merge.lineage)
    PROVE  \E tip \in merge.tips :
              \/ tip = NoSha /\ row.sha = NoSha
              \/ tip # NoSha /\ Replaces(tip, row.sha, artifacts)
<1>1. merge.tip \in merge.tips
  BY DEF EvInv, ReadWasToday, Searching
<1>2. CASE merge.tip = NoSha
  BY <1>1, <1>2 DEF Covers
<1>3. CASE merge.tip # NoSha
  <2>1. row.sha \in {merge.tip} \cup merge.lineage
    BY <1>3 DEF Covers
  <2>2. MaxHops \in Nat /\ merge.hops \in Nat /\ merge.hops <= MaxHops
        /\ merge.tip \in Shas /\ NoSha \notin Shas
    BY <1>3, EvidenceAssumption DEF EvidenceAssumption, EvInv, EvTypeOK, Judgements
  <2>3. CASE row.sha = merge.tip
    BY <1>1, <1>3, <2>2, <2>3, ReachSelf DEF Replaces
  <2>4. CASE row.sha \in merge.lineage
    <3>1. PICK tip \in merge.tips :
             merge.lineage \subseteq Reach(tip, Declared(artifacts), merge.hops)
      BY DEF EvInv, LineageIsDeclared
    <3>2. row.sha \in Reach(tip, Declared(artifacts), MaxHops)
      BY <2>2, <2>4, <3>1, ReachGrows
    <3>3. tip # NoSha
      BY <2>2, <3>2, ReachInShas
    <3> QED
      BY <3>2, <3>3 DEF Replaces
  <2> QED
    BY <2>1, <2>3, <2>4
<1> QED
  BY <1>2, <1>3

LEMMA FindOverrideKeeps ==
    ASSUME EvInv, FindOverride, artifacts' = artifacts, followUp' = followUp
    PROVE  EvInv'
<1> DEFINE overrides == Restrict(artifacts, Of(artifacts, "override"))
           row == NewestCovering(overrides, merge.tip, merge.lineage)
<1>1. merge.at = "decide" /\ merge.clause = "override" /\ artifacts \in Seq(Rows)
  BY DEF FindOverride, EvInv, EvTypeOK
<1>2. /\ merge' = IF row = NoRow THEN GoOn("any", "review", {}, NoRow)
                  ELSE GoOn("round", "followUp", {}, row)
  BY DEF FindOverride
<1>3. Found(overrides, Len(artifacts)) /\ Len(artifacts) \in Nat
  <2>1. Found(overrides, Len(artifacts))
    BY <1>1, OverridesFound, Zenon
  <2> QED
    BY <1>1, <2>1
<1>4. row = NoRow \/ \E n \in DOMAIN overrides :
                        row = overrides[n] /\ Covers(row.sha, merge.tip, merge.lineage)
  <2> HIDE DEF overrides
  <2> QED
    BY <1>3, NewestIsOneOf
<1>5. merge.changes = 0 => (Overridden(artifacts) <=> row # NoRow)
  BY <1>1 DEF EvInv, Undisturbed, TrueSearch, Searching, Overridden
<1>6. CASE row = NoRow
  <2>1. merge' = GoOn("any", "review", {}, NoRow)
    BY <1>2, <1>6
  <2>2. merge'.at = "any" /\ merge'.clause = "review" /\ merge'.warned = {}
    BY <2>1, GoOnFields
  <2>3. merge.changes = 0 => TrueVerdict'
    BY <1>5, <1>6, <2>2 DEF TrueVerdict
  <2> QED
    BY <1>1, <2>1, <2>3, GoOnKeeps
<1>7. CASE row # NoRow
  <2>1. merge' = GoOn("round", "followUp", {}, row)
    BY <1>2, <1>7
  <2>2. /\ merge'.at = "round" /\ merge'.clause = "followUp" /\ merge'.warned = {}
        /\ merge'.rests = row /\ merge'.tips = merge.tips /\ merge'.rounds = merge.rounds
    <3> HIDE DEF row
    <3> QED
      BY <2>1, GoOnFields
  <2>3. PICK n \in DOMAIN overrides :
           row = overrides[n] /\ Covers(row.sha, merge.tip, merge.lineage)
    BY <1>4, <1>7
  <2>4. /\ n \in DOMAIN artifacts /\ row = artifacts[n] /\ row \in Overrides
    <3>1. \A k \in DOMAIN Restrict(artifacts, Of(artifacts, "override")) :
             /\ k \in DOMAIN artifacts
             /\ Restrict(artifacts, Of(artifacts, "override"))[k] = artifacts[k]
             /\ artifacts[k] \in Overrides
      BY <1>1, OverridesFound, Zenon
    <3> QED
      BY <2>3, <3>1
  <2> HIDE DEF row, overrides
  <2>5. Reviewed'
    <3>1. row.kind = "override"
      BY <2>4, RowFields
    <3>2. \E tip \in merge.tips :
             \/ tip = NoSha /\ row.sha = NoSha
             \/ tip # NoSha /\ Replaces(tip, row.sha, artifacts)
      BY <1>1, <2>3, CoveringWasDeclared
    <3> QED
      BY <2>2, <2>4, <3>1, <3>2 DEF Reviewed
  <2>6. merge.changes = 0 => TrueVerdict'
    BY <1>5, <1>7, <2>2 DEF TrueVerdict, Approved
  <2>7. row \in Rows \cup {NoRow}
    BY <2>4 DEF Rows
  <2> QED
    BY <1>1, <2>1, <2>5, <2>6, <2>7, GoOnKeeps
<1> QED
  BY <1>6, <1>7

\* What the resolution of the approval comes to.
LEMMA ApprovalInHand ==
    ASSUME EvInv, merge.at = "decide", merge.clause # "override",
           NEW row, row = NewestCovering(merge.rows, merge.tip, merge.lineage)
    PROVE  /\ row # NoRow =>
                 /\ row \in Reviews /\ row.round \in merge.rounds
                 /\ \E n \in DOMAIN artifacts : artifacts[n] = row
                 /\ Covers(row.sha, merge.tip, merge.lineage)
           /\ merge.changes = 0 => row = Approval(artifacts, MaxHops)
<1>1. artifacts \in Seq(Rows) /\ merge.rows \in ApprovalsIn(artifacts)
  BY DEF EvInv, EvTypeOK, Judgements
<1>2. Found(merge.rows, Len(artifacts)) /\ Len(artifacts) \in Nat
  BY <1>1 DEF Found, ApprovalsIn
<1>3. \A n \in DOMAIN merge.rows : merge.rows[n] \in Reviews
  BY <1>1 DEF ApprovalsIn
<1>4. row = NoRow \/ \E n \in DOMAIN merge.rows :
                        row = merge.rows[n] /\ Covers(row.sha, merge.tip, merge.lineage)
  BY <1>2, NewestIsOneOf
<1>5. row # NoRow =>
         /\ row \in Reviews /\ row.round \in merge.rounds
         /\ \E n \in DOMAIN artifacts : artifacts[n] = row
         /\ Covers(row.sha, merge.tip, merge.lineage)
  BY <1>3, <1>4 DEF EvInv, ApprovalsAreRows
<1>6. merge.changes = 0 => row = Approval(artifacts, MaxHops)
  BY DEF EvInv, Undisturbed, TrueSearch, TrueRows, Searching, Approval
<1> QED
  BY <1>5, <1>6

LEMMA JudgeReviewKeeps ==
    ASSUME EvInv, JudgeReview, artifacts' = artifacts, followUp' = followUp
    PROVE  EvInv'
<1> DEFINE row == NewestCovering(merge.rows, merge.tip, merge.lineage)
           says == IF row = NoRow \/ Blocking(row) THEN {"review"} ELSE {}
<1>1. merge.at = "decide" /\ merge.clause = "review"
  BY DEF JudgeReview
<1>2. merge' = GoOn("round", "followUp", says, row)
  BY DEF JudgeReview
<1>3. /\ row # NoRow =>
            /\ row \in Reviews /\ row.round \in merge.rounds
            /\ \E n \in DOMAIN artifacts : artifacts[n] = row
            /\ Covers(row.sha, merge.tip, merge.lineage)
      /\ merge.changes = 0 => row = Approval(artifacts, MaxHops)
  BY <1>1, ApprovalInHand
<1> HIDE DEF row
<1>4. /\ merge'.at = "round" /\ merge'.clause = "followUp" /\ merge'.warned = says
      /\ merge'.rests = row /\ merge'.tips = merge.tips /\ merge'.rounds = merge.rounds
  <2> HIDE DEF says
  <2> QED
    BY <1>2, GoOnFields
<1>5. "review" \notin says => Reviewed'
  <2> SUFFICES ASSUME row # NoRow, ~Blocking(row)
               PROVE  Reviewed'
    OBVIOUS
  <2>1. row.kind = "code_review"
    BY <1>3, RowFields
  <2>2. \E tip \in merge.tips :
           \/ tip = NoSha /\ row.sha = NoSha
           \/ tip # NoSha /\ Replaces(tip, row.sha, artifacts)
    BY <1>1, <1>3, CoveringWasDeclared
  <2> HIDE DEF says
  <2> QED
    BY <1>3, <1>4, <2>1, <2>2 DEF Reviewed
<1>6. merge.changes = 0 => TrueVerdict'
  <2> SUFFICES ASSUME merge.changes = 0
               PROVE  TrueVerdict'
    OBVIOUS
  <2>1. ~Overridden(artifacts)
    BY <1>1 DEF EvInv, Undisturbed, TrueVerdict
  <2>2. says = {} <=> Approved(artifacts)
    BY <1>3, <2>1 DEF Approved
  <2>3. says \subseteq {"review"}
    OBVIOUS
  <2> HIDE DEF says
  <2> QED
    BY <1>4, <2>2, <2>3 DEF TrueVerdict
<1>7. says \in SUBSET {"review", "followUp"} /\ row \in Rows \cup {NoRow}
  BY <1>3 DEF Rows
<1> HIDE DEF says
<1> QED
  BY <1>1, <1>2, <1>5, <1>6, <1>7, GoOnKeeps

LEMMA JudgeDeferralKeeps ==
    ASSUME EvInv, JudgeDeferral, artifacts' = artifacts, followUp' = followUp
    PROVE  EvInv'
<1> DEFINE row == NewestCovering(merge.rows, merge.tip, merge.lineage)
           defers == row # NoRow /\ row.verdict = "lgtm_with_followups"
           to == IF defers THEN "deferred" ELSE "merged"
<1>1. merge.at = "decide" /\ merge.clause = "followUp"
  BY DEF JudgeDeferral
<1>2. merge' = GoOn(to, "followUp", merge.warned, merge.rests)
  BY DEF JudgeDeferral
<1>3. merge.changes = 0 => row = Approval(artifacts, MaxHops)
  BY <1>1, ApprovalInHand
<1> HIDE DEF row
<1>4. /\ merge'.at = to /\ merge'.clause = "followUp" /\ merge'.warned = merge.warned
      /\ merge'.rests = merge.rests /\ merge'.tips = merge.tips /\ merge'.rounds = merge.rounds
  <2> HIDE DEF to
  <2> QED
    BY <1>2, GoOnFields
<1>5. "review" \notin merge.warned => Reviewed'
  BY <1>1, <1>4 DEF EvInv, RestsOnEvidence, Reviewed
<1>6. merge.changes = 0 => TrueVerdict'
  <2> SUFFICES ASSUME merge.changes = 0
               PROVE  TrueVerdict'
    OBVIOUS
  <2>1. merge.warned \subseteq {"review"} /\ (merge.warned = {} <=> Approved(artifacts))
    BY <1>1 DEF EvInv, Undisturbed, TrueVerdict
  <2>2. row = Approval(artifacts, MaxHops)
    BY <1>3
  <2>3. ~defers => (Sound(artifacts)' <=> Approved(artifacts))
    BY <2>2 DEF Sound, Approved
  <2> QED
    BY <1>4, <2>1, <2>2, <2>3 DEF TrueVerdict
<1>7. merge.warned \in SUBSET {"review", "followUp"} /\ merge.rests \in Rows \cup {NoRow}
  BY DEF EvInv, EvTypeOK, Judgements
<1>8. to \in {"deferred", "merged"}
  OBVIOUS
<1> HIDE DEF to
<1> QED
  BY <1>1, <1>2, <1>5, <1>6, <1>7, <1>8, GoOnKeeps

LEMMA ReadFollowUpKeeps ==
    ASSUME EvInv, ReadFollowUp, artifacts' = artifacts, followUp' = followUp
    PROVE  EvInv'
<1> DEFINE says == IF followUp = "closed" THEN merge.warned \cup {"followUp"} ELSE merge.warned
<1>1. merge.at = "deferred" /\ merge.clause = "followUp"
  BY DEF ReadFollowUp, EvInv, ClausesInOrder
<1>2. merge' = [merge EXCEPT !.at = "merged", !.warned = says]
  BY DEF ReadFollowUp
<1>3. merge.warned \in SUBSET {"review", "followUp"} /\ says \in SUBSET {"review", "followUp"}
      /\ ("review" \in says <=> "review" \in merge.warned)
      /\ followUp \in {"open", "closed"}
  BY DEF EvInv, EvTypeOK, Judgements
<1>4. /\ merge'.at = "merged" /\ merge'.warned = says
      /\ merge'.clause = merge.clause /\ merge'.rows = merge.rows
      /\ merge'.rests = merge.rests /\ merge'.changes = merge.changes
      /\ merge'.tips = merge.tips /\ merge'.rounds = merge.rounds /\ merge' \in Judgements
  <2> HIDE DEF says
  <2> QED
    BY <1>2, <1>3 DEF EvInv, EvTypeOK, Judgements
<1>5. EvTypeOK'
  BY <1>4 DEF EvInv, EvTypeOK, Judgements
<1>6. ClausesInOrder' /\ TodayIsKept' /\ ReadWasToday' /\ ApprovalsAreRows' /\ LineageIsDeclared'
  BY <1>1, <1>4 DEF EvInv, ClausesInOrder, TodayIsKept, ReadWasToday, Searching,
                    ApprovalsAreRows, LineageIsDeclared
<1>7. RestsOnEvidence'
  <2> HIDE DEF says
  <2> QED
    BY <1>1, <1>3, <1>4 DEF EvInv, RestsOnEvidence, Reviewed
<1>8. Undisturbed'
  <2> SUFFICES ASSUME merge.changes = 0
               PROVE  TrueVerdict'
    BY <1>4 DEF Undisturbed, TrueSearch, TrueRows, Searching
  <2>1. /\ merge.warned \subseteq {"review"} /\ (merge.warned = {} <=> Approved(artifacts))
        /\ Approval(artifacts, MaxHops) # NoRow
        /\ Approval(artifacts, MaxHops).verdict = "lgtm_with_followups"
    BY <1>1 DEF EvInv, Undisturbed, TrueVerdict
  <2>2. Sound(artifacts)' <=> Approved(artifacts) /\ followUp = "open"
    BY <2>1 DEF Sound, Approved
  <2>3. says = {} <=> Sound(artifacts)'
    BY <1>3, <2>1, <2>2
  <2> HIDE DEF says
  <2> QED
    BY <1>1, <1>4, <2>3 DEF TrueVerdict
<1> QED
  BY <1>5, <1>6, <1>7, <1>8 DEF EvInv

-----------------------------------------------------------------------------
(* What others do meanwhile.                                               *)

\* What a concatenation holds where.
LEMMA Joined ==
    ASSUME NEW S, NEW s \in Seq(S), NEW t \in Seq(S)
    PROVE  /\ s \o t \in Seq(S)
           /\ Len(s \o t) = Len(s) + Len(t)
           /\ \A n \in 1 .. Len(s) : (s \o t)[n] = s[n]
           /\ \A n \in 1 .. Len(t) : (s \o t)[Len(s) + n] = t[n]
OBVIOUS

\* Two sequences with one element between them.
IsJoined(u, s, x, t) ==
    /\ u = s \o <<x>> \o t
    /\ Len(u) = Len(s) + 1 + Len(t)
    /\ \A n \in 1 .. Len(s) : u[n] = s[n]
    /\ \A n \in 1 .. Len(t) : u[Len(s) + 1 + n] = t[n]

LEMMA JoinedByOne ==
    ASSUME NEW s \in Seq(Rows), NEW x \in Rows, NEW t \in Seq(Rows)
    PROVE  \E u \in Seq(Rows) : IsJoined(u, s, x, t)
<1>1. PICK one \in Seq(Rows) : one = <<x>> /\ Len(one) = 1
  <2>1. <<x>> \in Seq(Rows) /\ Len(<<x>>) = 1
    OBVIOUS
  <2> QED
    BY <2>1, Zenon
<1>2. PICK upto \in Seq(Rows) : /\ upto = s \o one /\ Len(upto) = Len(s) + Len(one)
                                /\ \A n \in 1 .. Len(s) : upto[n] = s[n]
  <2>1. /\ s \o one \in Seq(Rows) /\ Len(s \o one) = Len(s) + Len(one)
        /\ \A n \in 1 .. Len(s) : (s \o one)[n] = s[n]
    BY Joined, Zenon
  <2> QED
    BY <2>1, Zenon
<1>3. PICK u \in Seq(Rows) : /\ u = upto \o t /\ Len(u) = Len(upto) + Len(t)
                             /\ \A n \in 1 .. Len(upto) : u[n] = upto[n]
                             /\ \A n \in 1 .. Len(t) : u[Len(upto) + n] = t[n]
  <2>1. /\ upto \o t \in Seq(Rows) /\ Len(upto \o t) = Len(upto) + Len(t)
        /\ \A n \in 1 .. Len(upto) : (upto \o t)[n] = upto[n]
    BY Joined, Zenon
  <2>2. \A n \in 1 .. Len(t) : (upto \o t)[Len(upto) + n] = t[n]
    OBVIOUS
  <2> QED
    BY <2>1, <2>2, Zenon
<1>4. Len(upto) = Len(s) + 1 /\ Len(s) \in Nat
  BY <1>1, <1>2
<1>5. u = s \o <<x>> \o t
  BY <1>1, <1>2, <1>3, Zenon
<1>6. \A n \in 1 .. Len(s) : u[n] = s[n]
  <2>1. 1 .. Len(s) \subseteq 1 .. Len(upto)
    BY <1>4
  <2> QED
    BY <1>2, <1>3, <2>1, Zenon
<1>7. \A n \in 1 .. Len(t) : u[Len(s) + 1 + n] = t[n]
  BY <1>3, <1>4
<1>8. Len(u) = Len(s) + 1 + Len(t)
  BY <1>3, <1>4
<1> QED
  BY <1>5, <1>6, <1>7, <1>8 DEF IsJoined

\* The two halves of a sequence.
LEMMA Halves ==
    ASSUME NEW S, NEW s \in Seq(S), NEW m \in 0 .. Len(s)
    PROVE  /\ SubSeq(s, 1, m) \in Seq(S) /\ Len(SubSeq(s, 1, m)) = m
           /\ \A n \in 1 .. m : SubSeq(s, 1, m)[n] = s[n]
           /\ SubSeq(s, m + 1, Len(s)) \in Seq(S) /\ Len(SubSeq(s, m + 1, Len(s))) = Len(s) - m
           /\ \A n \in 1 .. Len(s) - m : SubSeq(s, m + 1, Len(s))[n] = s[m + n]
OBVIOUS

LEMMA InsertionKeepsRows ==
    ASSUME NEW arts \in Seq(Rows), NEW row \in Rows, NEW before \in 0 .. Len(arts)
    PROVE  \E more \in Seq(Rows) :
              /\ more = SubSeq(arts, 1, before) \o <<row>> \o SubSeq(arts, before + 1, Len(arts))
              /\ DOMAIN arts \subseteq DOMAIN more
              /\ \A n \in DOMAIN arts : \E m \in DOMAIN more : more[m] = arts[n]
<1>1. PICK first \in Seq(Rows) : /\ first = SubSeq(arts, 1, before) /\ Len(first) = before
                                 /\ \A n \in 1 .. before : first[n] = arts[n]
  <2>1. /\ SubSeq(arts, 1, before) \in Seq(Rows) /\ Len(SubSeq(arts, 1, before)) = before
        /\ \A n \in 1 .. before : SubSeq(arts, 1, before)[n] = arts[n]
    BY Halves
  <2> QED
    BY <2>1, Zenon
<1>10. PICK last \in Seq(Rows) : /\ last = SubSeq(arts, before + 1, Len(arts))
                                /\ Len(last) = Len(arts) - before
                                /\ \A n \in 1 .. Len(arts) - before : last[n] = arts[before + n]
  <2>1. /\ SubSeq(arts, before + 1, Len(arts)) \in Seq(Rows)
        /\ Len(SubSeq(arts, before + 1, Len(arts))) = Len(arts) - before
        /\ \A n \in 1 .. Len(arts) - before :
              SubSeq(arts, before + 1, Len(arts))[n] = arts[before + n]
    BY Halves
  <2> QED
    BY <2>1, Zenon
<1>2. before \in Nat /\ Len(arts) \in Nat /\ before <= Len(arts)
  OBVIOUS
<1>3. PICK more \in Seq(Rows) : IsJoined(more, first, row, last)
  BY JoinedByOne, Zenon
<1>4. DOMAIN more = 1 .. Len(arts) + 1 /\ DOMAIN arts = 1 .. Len(arts)
  <2>1. Len(more) = before + 1 + (Len(arts) - before)
    BY <1>1, <1>10, <1>3 DEF IsJoined
  <2>2. Len(more) = Len(arts) + 1
    BY <1>2, <2>1
  <2> QED
    BY <2>2
<1>5. \A n \in 1 .. before : more[n] = arts[n]
  BY <1>1, <1>3 DEF IsJoined
<1>6. \A n \in 1 .. Len(arts) - before : more[before + 1 + n] = arts[before + n]
  BY <1>1, <1>10, <1>3 DEF IsJoined
<1>7. ASSUME NEW n \in 1 .. Len(arts)
      PROVE  \E m \in 1 .. Len(arts) + 1 : more[m] = arts[n]
  <2>1. CASE n <= before
    <3>1. n \in 1 .. before /\ n \in 1 .. Len(arts) + 1
      BY <1>2, <2>1
    <3> QED
      BY <1>5, <3>1, Zenon
  <2>2. CASE n > before
    <3>1. n - before \in 1 .. Len(arts) - before
      BY <1>2, <2>2
    <3>2. before + 1 + (n - before) = n + 1 /\ before + (n - before) = n
      BY <1>2
    <3>3. more[n + 1] = arts[n]
      BY <1>6, <3>1, <3>2
    <3>4. n + 1 \in 1 .. Len(arts) + 1
      BY <1>2
    <3> QED
      BY <3>3, <3>4
  <2> QED
    BY <1>2, <2>1, <2>2
<1>8. DOMAIN arts \subseteq DOMAIN more
  BY <1>2, <1>4
<1>9. \A n \in DOMAIN arts : \E m \in DOMAIN more : more[m] = arts[n]
  BY <1>4, <1>7, Zenon
<1> QED
  BY <1>1, <1>10, <1>3, <1>8, <1>9, Zenon DEF IsJoined

\* More rows declare no less and approve no less.
LEMMA MoreRows ==
    ASSUME NEW arts \in Seq(Rows), NEW more \in Seq(Rows),
           DOMAIN arts \subseteq DOMAIN more,
           \A n \in DOMAIN arts : \E m \in DOMAIN more : more[m] = arts[n]
    PROVE  /\ Declared(arts) \subseteq Declared(more)
           /\ ApprovalsIn(arts) \subseteq ApprovalsIn(more)
<1>1. ASSUME NEW link \in Declared(arts)
      PROVE  link \in Declared(more)
  <2>1. PICK n \in {m \in DOMAIN arts : arts[m].kind = "commit"} :
           link = <<arts[n].sha, arts[n].supersedes>>
    BY DEF Declared
  <2>2. PICK m \in DOMAIN more : more[m] = arts[n]
    OBVIOUS
  <2> QED
    BY <2>1, <2>2 DEF Declared
<1> QED
  BY <1>1 DEF ApprovalsIn

\* Whatever is committed meanwhile leaves the evaluation where it was, and what it
\* has relied on where it is.
LEMMA MeanwhileKeeps ==
    ASSUME EvInv, merge.at # "merged",
           artifacts' \in Seq(Rows), followUp' \in {"open", "closed"},
           DOMAIN artifacts \subseteq DOMAIN artifacts',
           \A n \in DOMAIN artifacts : \E m \in DOMAIN artifacts' : artifacts'[m] = artifacts[n],
           merge' = Meanwhile(artifacts')
    PROVE  EvInv'
<1> DEFINE today == Tip(artifacts')
           round == Round(artifacts')
<1>1. today \in Shas \cup {NoSha} /\ round \in Rounds /\ artifacts \in Seq(Rows)
  BY TipIsSha, RoundIsRound DEF EvInv, EvTypeOK
<1>2. Declared(artifacts) \subseteq Declared(artifacts')
      /\ ApprovalsIn(artifacts) \subseteq ApprovalsIn(artifacts')
  BY <1>1, MoreRows
<1>3. CASE merge.at = "begun"
  <2>1. merge' = merge
    BY <1>3 DEF Meanwhile
  <2>2. merge \in Judgements'
    BY <1>2 DEF EvInv, EvTypeOK, Judgements
  <2>3. EvTypeOK'
    BY <2>1, <2>2 DEF EvTypeOK
  <2>4. merge.rows = <<>> /\ merge.clause = "override" /\ ClausesInOrder'
    BY <1>3, <2>1 DEF EvInv, ClausesInOrder, Unasked
  <2> QED
    BY <1>3, <2>1, <2>3, <2>4, NoRowsInHand
       DEF EvInv, TodayIsKept, ReadWasToday, Searching, ApprovalsAreRows, LineageIsDeclared,
           RestsOnEvidence, Undisturbed
<1>4. CASE merge.at # "begun"
  <2>1. merge' = [merge EXCEPT !.changes = merge.changes + 1, !.tips = merge.tips \cup {today},
                     !.rounds = merge.rounds \cup {round}]
    BY <1>4 DEF Meanwhile
  <2> HIDE DEF today, round
  <2> DEFINE tips == merge.tips \cup {today}
             rounds == merge.rounds \cup {round}
             count == merge.changes + 1
  <2>10. /\ merge \in Judgements /\ merge.changes \in Nat /\ count \in Nat
        /\ tips \in SUBSET (Shas \cup {NoSha}) /\ rounds \in SUBSET Rounds
    BY <1>1 DEF EvInv, EvTypeOK, Judgements
  <2>11. merge' \in Judgements
    <3> DEFINE next == [merge EXCEPT !.changes = count, !.tips = tips, !.rounds = rounds]
    <3>1. merge' = next
      BY <2>1
    <3> HIDE DEF count, tips, rounds
    <3>2. next \in Judgements
      BY <2>10 DEF Judgements
    <3> QED
      BY <3>1, <3>2
  <2>2. /\ merge' \in Judgements
        /\ merge'.changes = merge.changes + 1 /\ merge.changes \in Nat
        /\ merge'.tips = merge.tips \cup {today} /\ merge'.rounds = merge.rounds \cup {round}
        /\ merge'.at = merge.at /\ merge'.clause = merge.clause /\ merge'.tip = merge.tip
        /\ merge'.lineage = merge.lineage /\ merge'.cursor = merge.cursor
        /\ merge'.hops = merge.hops /\ merge'.rows = merge.rows /\ merge'.round = merge.round
        /\ merge'.rests = merge.rests /\ merge'.warned = merge.warned
    BY <2>1, <2>10, <2>11 DEF Judgements
  <2>3. EvTypeOK'
    <3>1. merge' \in Judgements'
      BY <1>2, <2>2 DEF Judgements
    <3> QED
      BY <3>1 DEF EvTypeOK
  <2>4. ClausesInOrder'
    BY <1>4, <2>2 DEF EvInv, ClausesInOrder
  <2>5. TodayIsKept'
    BY <2>2 DEF TodayIsKept, today, round
  <2>6. ReadWasToday' /\ ApprovalsAreRows'
    BY <2>2 DEF EvInv, ReadWasToday, Searching, ApprovalsAreRows
  <2>7. LineageIsDeclared'
    <3> SUFFICES ASSUME merge.at \in {"hop", "decide"}
                 PROVE  LineageIsDeclared'
      BY <2>2 DEF LineageIsDeclared
    <3>1. PICK tip \in merge.tips :
             merge.lineage \subseteq Reach(tip, Declared(artifacts), merge.hops)
      BY DEF EvInv, LineageIsDeclared
    <3>2. merge.hops \in Nat
      BY EvidenceAssumption DEF EvidenceAssumption, EvInv, EvTypeOK, Judgements
    <3>3. merge.lineage \subseteq Reach(tip, Declared(artifacts'), merge.hops)
      BY <1>2, <3>1, <3>2, ReachGrows
    <3> QED
      BY <2>2, <3>1, <3>3 DEF LineageIsDeclared
  <2>8. RestsOnEvidence'
    <3> SUFFICES ASSUME Reviewed
                 PROVE  Reviewed'
      BY <2>2 DEF EvInv, RestsOnEvidence
    <3>1. \E n \in DOMAIN artifacts' : artifacts'[n] = merge.rests
      BY DEF Reviewed
    <3>2. \A new, old : Replaces(new, old, artifacts) => Replaces(new, old, artifacts')
      BY <1>2, ReachGrows, EvidenceAssumption DEF Replaces, EvidenceAssumption
    <3>3. PICK tip \in merge.tips : \/ tip = NoSha /\ merge.rests.sha = NoSha
                                    \/ tip # NoSha /\ Replaces(tip, merge.rests.sha, artifacts)
      BY DEF Reviewed
    <3>4. tip \in merge'.tips /\ (\/ tip = NoSha /\ merge'.rests.sha = NoSha
                                  \/ tip # NoSha /\ Replaces(tip, merge'.rests.sha, artifacts'))
      BY <2>2, <3>2, <3>3
    <3>5. \/ merge'.rests.kind = "override"
          \/ /\ merge'.rests.kind = "code_review" /\ ~Blocking(merge'.rests)
             /\ merge'.rests.round \in merge'.rounds
      BY <2>2 DEF Reviewed
    <3>6. \E n \in DOMAIN artifacts' : artifacts'[n] = merge'.rests
      BY <2>2, <3>1
    <3> QED
      BY <3>4, <3>5, <3>6 DEF Reviewed
  <2>9. Undisturbed'
    BY <2>2 DEF Undisturbed
  <2> QED
    BY <2>3, <2>4, <2>5, <2>6, <2>7, <2>8, <2>9 DEF EvInv
<1> QED
  BY <1>3, <1>4

LEMMA RecordKeeps ==
    ASSUME EvInv, NEW row \in Rows, Record(row)
    PROVE  EvInv'
<1>1. artifacts \in Seq(Rows) /\ followUp \in {"open", "closed"}
  BY DEF EvInv, EvTypeOK
<1>2. PICK before \in Max({0, Len(artifacts) - Overlap}) .. Len(artifacts) :
         artifacts' = SubSeq(artifacts, 1, before) \o <<row>>
                      \o SubSeq(artifacts, before + 1, Len(artifacts))
  BY DEF Record
<1>3. before \in 0 .. Len(artifacts)
  <2> DEFINE early == {0, Len(artifacts) - Overlap}
  <2>1. Len(artifacts) \in Nat /\ Overlap \in Nat
    BY <1>1, EvidenceAssumption DEF EvidenceAssumption
  <2>2. Max(early) \in early /\ \A x \in early : Max(early) >= x
    <3>1. \E m \in early : \A x \in early : m >= x
      BY <2>1
    <3> HIDE DEF early
    <3> QED
      BY <3>1 DEF Max
  <2>3. Max(early) \in Int /\ Max(early) >= 0
    BY <2>1, <2>2
  <2> QED
    BY <2>1, <2>3
<1>4. /\ artifacts' \in Seq(Rows) /\ DOMAIN artifacts \subseteq DOMAIN artifacts'
      /\ \A n \in DOMAIN artifacts : \E m \in DOMAIN artifacts' : artifacts'[m] = artifacts[n]
  <2>1. PICK more \in Seq(Rows) :
           /\ more = SubSeq(artifacts, 1, before) \o <<row>>
                     \o SubSeq(artifacts, before + 1, Len(artifacts))
           /\ DOMAIN artifacts \subseteq DOMAIN more
           /\ \A n \in DOMAIN artifacts : \E m \in DOMAIN more : more[m] = artifacts[n]
    BY <1>1, <1>3, InsertionKeepsRows, Zenon
  <2>2. artifacts' = more
    BY <1>2, <2>1, Zenon
  <2> QED
    BY <2>1, <2>2, Zenon
<1> QED
  BY <1>1, <1>4, MeanwhileKeeps DEF Record

LEMMA CloseFollowUpKeeps == EvInv /\ CloseFollowUp => EvInv'
<1> SUFFICES ASSUME EvInv, CloseFollowUp
             PROVE  EvInv'
  OBVIOUS
<1>1. artifacts \in Seq(Rows)
  BY DEF EvInv, EvTypeOK
<1>2. artifacts' = artifacts /\ followUp' = "closed" /\ merge' = Meanwhile(artifacts')
      /\ merge.at # "merged"
  BY DEF CloseFollowUp
<1> QED
  BY <1>1, <1>2, MeanwhileKeeps

LEMMA EvStutterKeeps == EvInv /\ UNCHANGED evVars => EvInv'
<1> SUFFICES ASSUME EvInv, artifacts' = artifacts, followUp' = followUp, merge' = merge
             PROVE  EvInv'
  BY DEF evVars
<1>1. EvTypeOK' /\ ClausesInOrder' /\ TodayIsKept' /\ ReadWasToday'
  BY DEF EvInv, EvTypeOK, Judgements, ClausesInOrder, TodayIsKept, ReadWasToday, Searching
<1>2. ApprovalsAreRows' /\ LineageIsDeclared' /\ RestsOnEvidence'
  BY DEF EvInv, ApprovalsAreRows, LineageIsDeclared, RestsOnEvidence, Reviewed
<1>3. Undisturbed'
  BY DEF EvInv, Undisturbed, TrueSearch, TrueRows, TrueVerdict, Searching, Sound
<1> QED
  BY <1>1, <1>2, <1>3 DEF EvInv

LEMMA EvNextInv == EvInv /\ [EvNext]_evVars => EvInv'
<1> SUFFICES ASSUME EvInv, [EvNext]_evVars
             PROVE  EvInv'
  OBVIOUS
<1>1. CASE \E row \in Rows : Record(row)
  BY <1>1, RecordKeeps
<1>2. CASE CloseFollowUp
  BY <1>2, CloseFollowUpKeeps
<1>3. CASE Judge
  <2>1. artifacts' = artifacts /\ followUp' = followUp
    BY <1>3 DEF Judge
  <2>2. CASE Ask
    BY <2>1, <2>2, AskKeeps
  <2>3. CASE ReadTip
    BY <2>1, <2>3, ReadTipKeeps
  <2>4. CASE StartLineage
    BY <2>1, <2>4, StartLineageKeeps
  <2>5. CASE Hop
    BY <2>1, <2>5, HopKeeps
  <2>6. CASE FindOverride
    BY <2>1, <2>6, FindOverrideKeeps
  <2>7. CASE AnyApproval
    BY <2>1, <2>7, AnyApprovalKeeps
  <2>8. CASE ReadRound
    BY <2>1, <2>8, ReadRoundKeeps
  <2>9. CASE ReadApprovals
    BY <2>1, <2>9, ReadApprovalsKeeps
  <2>10. CASE JudgeReview
    BY <2>1, <2>10, JudgeReviewKeeps
  <2>11. CASE JudgeDeferral
    BY <2>1, <2>11, JudgeDeferralKeeps
  <2>12. CASE ReadFollowUp
    BY <2>1, <2>12, ReadFollowUpKeeps
  <2> QED
    BY <1>3, <2>2, <2>3, <2>4, <2>5, <2>6, <2>7, <2>8, <2>9, <2>10, <2>11, <2>12 DEF Judge
<1>4. CASE UNCHANGED evVars
  BY <1>4, EvStutterKeeps
<1> QED
  BY <1>1, <1>2, <1>3, <1>4 DEF EvNext

\* The invariant of the merge's evaluation: whatever is recorded between its
\* queries, what it has in hand was on the item, of a round and for a tip that
\* were current; and while nothing is recorded it is what one look would find.
THEOREM EvidenceInvariance == EvSpec => []EvInv
<1>1. EvInit => EvInv
  BY EvInitInv
<1>2. EvInv /\ [EvNext]_evVars => EvInv'
  BY EvNextInv
<1> QED
  BY <1>1, <1>2, PTL DEF EvSpec

\* A merge that the review clause lets through in silence rests on a row that is
\* on the item and covers a tip there was; undisturbed, both clauses are silent
\* exactly when the evidence is sound (guards/merge.ts).
THEOREM SilentMerges == EvSpec => []SilentMergeWasReviewed
<1>1. EvInv => SilentMergeWasReviewed
  <2> SUFFICES ASSUME EvInv, merge.at = "merged"
               PROVE  /\ "review" \notin merge.warned => Reviewed
                      /\ merge.changes = 0 => (merge.warned = {} <=> Sound(artifacts))
    BY DEF SilentMergeWasReviewed, Reviewed
  <2>1. merge.clause = "followUp"
    BY DEF EvInv, ClausesInOrder
  <2> QED
    BY <2>1 DEF EvInv, RestsOnEvidence, Undisturbed, TrueVerdict
<1> QED
  BY <1>1, EvidenceInvariance, PTL

-----------------------------------------------------------------------------
(* A rewrite of the tip, recorded last.                                    *)

LEMMA MaxIs ==
    ASSUME NEW S \in SUBSET Nat, NEW x \in S, \A y \in S : y <= x
    PROVE  Max(S) = x
<1>1. \E y \in S : \A z \in S : y >= z
  OBVIOUS
<1>2. Max(S) \in S /\ \A z \in S : Max(S) >= z
  BY <1>1 DEF Max
<1>3. Max(S) \in Nat /\ x \in Nat /\ Max(S) >= x /\ Max(S) <= x
  BY <1>2
<1> QED
  BY <1>3

\* A walk with one sha put before it.
LEMMA ReachFrom ==
    ASSUME NEW from \in Shas, NEW links, NEW more, NEW n \in Nat, NEW m, n = m + 1, m \in Nat,
           NEW to \in Shas, <<from, to>> \in more,
           \A a \in Reach(to, links, m) : \A b : <<a, b>> \in links => <<a, b>> \in more
    PROVE  Reach(to, links, m) \subseteq Reach(from, more, n)
<1> SUFFICES ASSUME NEW w, IsWalk(w, to, links, m)
             PROVE  w[Len(w)] \in Reach(from, more, n)
  BY ReachByWalks
<1>1. PICK k \in 1 .. m + 1 : w \in [1 .. k -> Shas]
  BY DEF IsWalk
<1>2. Len(w) = k
  BY <1>1, WalkLength
<1> DEFINE v == [j \in 1 .. k + 1 |-> IF j = 1 THEN from ELSE w[j - 1]]
<1>3. v \in [1 .. k + 1 -> Shas]
  BY <1>1
<1>4. Len(v) = k + 1
  <2> HIDE DEF v
  <2> QED
    BY <1>3, WalkLength
<1>5. v[1] = from /\ \A j \in 1 .. k : v[j + 1] = w[j]
  OBVIOUS
<1> HIDE DEF v
<1>6. \A j \in 1 .. k - 1 : <<w[j], w[j + 1]>> \in more
  <2> TAKE j \in 1 .. k - 1
  <2>1. j \in 1 .. Len(w) /\ j \in 1 .. Len(w) - 1
    BY <1>2
  <2>2. w[j] \in Reach(to, links, m)
    BY <2>1, ReachPassed
  <2>3. <<w[j], w[j + 1]>> \in links
    BY <2>1 DEF IsWalk
  <2> QED
    BY <2>2, <2>3
<1>7. \A j \in 1 .. k : <<v[j], v[j + 1]>> \in more
  <2> TAKE j \in 1 .. k
  <2>1. CASE j = 1
    BY <1>5, <2>1 DEF IsWalk
  <2>2. CASE j # 1
    <3>1. j - 1 \in 1 .. k - 1 /\ j - 1 \in 1 .. k /\ (j - 1) + 1 = j
      BY <2>2
    <3>2. v[j] = w[j - 1] /\ v[j + 1] = w[j]
      BY <1>5, <3>1
    <3>3. <<w[j - 1], w[j]>> \in more
      BY <1>6, <3>1
    <3> QED
      BY <3>2, <3>3
  <2> QED
    BY <2>1, <2>2
<1>8. k + 1 \in 1 .. n + 1 /\ (k + 1) - 1 = k
  OBVIOUS
<1>9. IsWalk(v, from, more, n)
  BY <1>3, <1>4, <1>5, <1>7, <1>8 DEF IsWalk
<1>10. v[Len(v)] = w[Len(w)]
  BY <1>2, <1>4, <1>5
<1> QED
  BY <1>9, <1>10, ReachByWalks

\* What a commit recorded last, in a round there was, changes and leaves.
IsCarriedOn(more, arts, row) ==
    /\ more \in Seq(Rows)
    /\ Tip(more) = row.sha
    /\ Rewritten(more, row.sha) = row.supersedes
    /\ \A sha : sha # row.sha => Rewritten(more, sha) = Rewritten(arts, sha)
    /\ Round(more) = Round(arts)
    /\ \A round : ApprovedAt(more, round) = ApprovedAt(arts, round)

LEMMA CommitRecordedLast ==
    ASSUME NEW arts \in Seq(Rows), NEW row \in Commits, row.supersedes # NoSha,
           row.round <= Round(arts), NEW more, more = Append(arts, row)
    PROVE  IsCarriedOn(more, arts, row)
<1> DEFINE m == Len(arts)
<1>1. row \in Rows /\ row.kind = "commit"
  BY RowFields DEF Rows
<1>2. /\ m \in Nat /\ more \in Seq(Rows) /\ DOMAIN more = 1 .. m + 1 /\ DOMAIN arts = 1 .. m
      /\ \A n \in 1 .. m : more[n] = arts[n]
      /\ more[m + 1] = row
  BY <1>1
<1> HIDE DEF m
<1>3. Of(more, "commit") = Of(arts, "commit") \cup {m + 1}
  BY <1>1, <1>2 DEF Of
<1>4. Of(more, "code_review") = Of(arts, "code_review")
  BY <1>1, <1>2 DEF Of
<1>5. \A kind : Of(arts, kind) \subseteq 1 .. m
  BY KindsOfRows DEF m
<1>6. Tip(more) = row.sha
  <2>1. Max(Of(more, "commit")) = m + 1
    <3>1. Of(more, "commit") \in SUBSET Nat /\ m + 1 \in Of(more, "commit")
          /\ \A n \in Of(more, "commit") : n <= m + 1
      BY <1>2, <1>3, <1>5
    <3> QED
      BY <3>1, MaxIs
  <2> QED
    BY <1>2, <1>3, <2>1 DEF Tip
<1>7. Rewritten(more, row.sha) = row.supersedes
  <2> DEFINE links == {n \in Of(more, "commit") : more[n].sha = row.sha /\ more[n].supersedes # NoSha}
  <2>1. links \in SUBSET Nat /\ m + 1 \in links /\ \A n \in links : n <= m + 1
    BY <1>2, <1>3, <1>5
  <2>2. Max(links) = m + 1
    <3> HIDE DEF links
    <3> QED
      BY <2>1, MaxIs
  <2>3. links # {} /\ more[Max(links)] = row
    BY <1>2, <2>1, <2>2
  <2> QED
    BY <2>3 DEF Rewritten
<1>8. ASSUME NEW sha, sha # row.sha
      PROVE  Rewritten(more, sha) = Rewritten(arts, sha)
  <2> DEFINE links == {n \in Of(arts, "commit") : arts[n].sha = sha /\ arts[n].supersedes # NoSha}
             after == {n \in Of(more, "commit") : more[n].sha = sha /\ more[n].supersedes # NoSha}
  <2>1. \A n \in Of(arts, "commit") : more[n] = arts[n]
    BY <1>2, <1>5
  <2>2. more[m + 1].sha # sha
    BY <1>2, <1>8
  <2>3. after = links
    BY <1>3, <2>1, <2>2
  <2>4. links # {} => more[Max(links)] = arts[Max(links)]
    <3>1. links \in SUBSET (1 .. m)
      BY <1>5
    <3>2. links # {} => Max(links) \in links
      <4> HIDE DEF links
      <4> QED
        BY <1>2, <3>1, NewestPlace
    <3> QED
      BY <2>1, <3>2
  <2> QED
    BY <2>3, <2>4 DEF Rewritten
<1>9. Round(more) = Round(arts)
  <2> DEFINE rounds == {1} \cup {arts[n].round : n \in DOMAIN arts}
             after == {1} \cup {more[n].round : n \in DOMAIN more}
  <2>1. after = rounds \cup {row.round}
    BY <1>2
  <2>2. rounds \in SUBSET Rounds /\ 1 \in rounds
    <3>1. \A n \in DOMAIN arts : arts[n].round \in Rounds
      BY RowFields DEF Rows
    <3> QED
      BY <3>1, EvidenceAssumption DEF EvidenceAssumption, Rounds
  <2>3. Round(arts) = Max(rounds) /\ Round(more) = Max(after)
    BY DEF Round
  <2> HIDE DEF rounds, after
  <2>4. rounds \in SUBSET Nat /\ MaxRound \in Nat /\ \A r \in rounds : r <= MaxRound
    BY <2>2, EvidenceAssumption DEF EvidenceAssumption, Rounds
  <2>5. Max(rounds) \in rounds /\ \A r \in rounds : r <= Max(rounds)
    BY <2>2, <2>4, MaxIsOneOf
  <2>6. row.round \in Nat
    BY RowFields, EvidenceAssumption DEF EvidenceAssumption, Rounds
  <2>7. after \in SUBSET Nat /\ Max(rounds) \in after /\ \A r \in after : r <= Max(rounds)
    BY <2>1, <2>3, <2>4, <2>5, <2>6
  <2> QED
    BY <2>3, <2>7, MaxIs
<1>10. ASSUME NEW round
       PROVE  ApprovedAt(more, round) = ApprovedAt(arts, round)
  <2>1. \A n \in Of(arts, "code_review") : more[n] = arts[n]
    BY <1>2, <1>5
  <2> QED
    BY <1>4, <2>1 DEF ApprovedAt, Restrict
<1> QED
  BY <1>2, <1>6, <1>7, <1>8, <1>9, <1>10 DEF IsCarriedOn

LEMMA ApprovalCarried ==
    ASSUME NEW arts \in Seq(Rows), NEW row \in Commits,
           Tip(arts) # NoSha, row.supersedes = Tip(arts),
           row.sha \notin Within(arts, MaxHops), row.round <= Round(arts),
           Approval(arts, MaxHops - 1) # NoRow
    PROVE  Approval(Append(arts, row), MaxHops) # NoRow
<1>1. PICK more : more = Append(arts, row)
  OBVIOUS
<1>2. /\ more \in Seq(Rows)
      /\ Tip(more) = row.sha
      /\ Rewritten(more, row.sha) = Tip(arts)
      /\ \A sha : sha # row.sha => Rewritten(more, sha) = Rewritten(arts, sha)
      /\ Round(more) = Round(arts)
      /\ \A round : ApprovedAt(more, round) = ApprovedAt(arts, round)
  <2>1. row.supersedes # NoSha
    OBVIOUS
  <2>2. IsCarriedOn(more, arts, row)
    BY <1>1, <2>1, CommitRecordedLast
  <2> QED
    BY <2>2 DEF IsCarriedOn
<1>3. /\ Tip(arts) \in Shas /\ row.sha \in Shas /\ row.sha # NoSha
      /\ MaxHops \in Nat /\ MaxHops - 1 \in Nat /\ MaxHops = (MaxHops - 1) + 1
  BY TipIsSha, RowFields, EvidenceAssumption DEF EvidenceAssumption
<1>4. Within(arts, MaxHops - 1) \subseteq Within(more, MaxHops)
  <2>1. <<row.sha, Tip(arts)>> \in Links(more)
    BY <1>2, <1>3 DEF Links
  <2>2. \A a \in Reach(Tip(arts), Links(arts), MaxHops - 1) : a # row.sha
    <3>1. Reach(Tip(arts), Links(arts), MaxHops - 1) \subseteq Within(arts, MaxHops)
      BY <1>3, ReachGrows DEF Within
    <3> QED
      BY <3>1
  <2>3. \A a \in Reach(Tip(arts), Links(arts), MaxHops - 1) : \A b :
           <<a, b>> \in Links(arts) => <<a, b>> \in Links(more)
    BY <1>2, <2>2 DEF Links
  <2> QED
    BY <1>2, <1>3, <2>1, <2>3, ReachFrom DEF Within
<1> DEFINE rows == ApprovedAt(arts, Round(arts))
<1>5. Found(rows, Len(arts)) /\ Len(arts) \in Nat
  <2>1. Found(rows, Len(arts))
    BY ApprovalsFound, Zenon
  <2> QED
    BY <2>1
<1> HIDE DEF rows
<1>6. Approval(arts, MaxHops - 1) = NewestCovering(rows, Tip(arts), Within(arts, MaxHops - 1))
      /\ Approval(more, MaxHops) = NewestCovering(rows, Tip(more), Within(more, MaxHops))
  BY <1>2 DEF Approval, rows
<1>7. PICK n \in DOMAIN rows : Covers(rows[n].sha, Tip(arts), Within(arts, MaxHops - 1))
  BY <1>5, <1>6, NewestIsOneOf
<1>8. Tip(arts) \in Within(arts, MaxHops - 1)
  BY <1>3, ReachSelf DEF Within
<1>9. Covers(rows[n].sha, Tip(more), Within(more, MaxHops))
  BY <1>2, <1>3, <1>4, <1>7, <1>8 DEF Covers
<1> QED
  BY <1>1, <1>5, <1>6, <1>9, NewestIsOneOf

\* A squash, a rebase or an amend of the tip, recorded last as one and in a round
\* there was, never costs the approval, if its chain had a hop left
\* (tipCommitLineage; guards/merge.ts).
THEOREM RewritesKeepApprovals == EvSpec => RewriteKeepsApproval
<1> DEFINE kept(row) ==
        (/\ artifacts' = Append(artifacts, row)
         /\ Tip(artifacts) # NoSha /\ row.supersedes = Tip(artifacts)
         /\ row.sha \notin Within(artifacts, MaxHops)
         /\ row.round <= Round(artifacts)
         /\ Approval(artifacts, MaxHops - 1) # NoRow)
        => Approval(artifacts', MaxHops) # NoRow
<1>1. EvInv => \A row \in Commits : kept(row)
  BY ApprovalCarried DEF EvInv, EvTypeOK
<1>2. EvInv /\ [EvNext]_evVars => [\A row \in Commits : kept(row)]_evVars
  BY <1>1
<1> QED
  BY <1>2, EvidenceInvariance, PTL DEF EvSpec, RewriteKeepsApproval
=============================================================================
