----------------------------- MODULE Documents ------------------------------
(***************************************************************************)
(* One document of an item: keyed entries, a revision, and the patches of  *)
(* parallel sessions (doc-patch.ts, doc-get.ts).                           *)
(*                                                                         *)
(* A session reads the document, then patches some keys, saying or not     *)
(* which revision it read at.  Each call is one READ COMMITTED transaction *)
(* and one statement is one action, but that a patch holds the document's  *)
(* row from its first look at it: no other patch moves the entries from    *)
(* there on, and what it reads and writes of them is one action.           *)
(***************************************************************************)
EXTENDS Integers, Sequences

CONSTANTS
    Keys, Values,
    Authors,     \* sessions that read and patch
    MaxRev,      \* bounds the patches that change something
    Blank

VARIABLES
    docRev,      \* ItemDoc.rev
    entry,       \* the ItemDocEntry rows, Blank where there is none
    docLock,     \* who has the document's row FOR UPDATE
    author,      \* where each author is
    readRev,     \* the revision its last doc_get returned
    readEntry,   \* and the entries
    patch,       \* the patch it is making
    baseRev,     \* the revision its patch has read
    changes      \* the doc_change events, in order

docVars == <<docRev, entry, docLock, author, readRev, readEntry, patch, baseRev, changes>>

ASSUME DocAssumption ==
    /\ MaxRev \in Nat
    /\ Blank \notin Authors \cup Values \cup Nat
    /\ Blank \notin [value : Values, rev : Nat]

-----------------------------------------------------------------------------
Revs == 0..MaxRev
Ahead == MaxRev + 1
Entry == [value : Values, rev : Revs]
Content == [Keys -> Entry \cup {Blank}]

\* set gives a key its value, delete names others; ifRev may be left out.
Patch == [set : [Keys -> Values \cup {Blank}], delete : SUBSET Keys,
          ifRev : Revs \cup {Ahead, Blank}]
NoPatch == [set |-> [k \in Keys |-> Blank], delete |-> {}, ifRev |-> Blank]

NoEntries == [k \in Keys |-> Blank]

Named(p) == {k \in Keys : p.set[k] # Blank} \cup p.delete

AuthorAt(w, next) == author' = [author EXCEPT ![w] = next]

-----------------------------------------------------------------------------
(* doc_get: the revision first, the entries after.                         *)

GetRev(w) ==
    /\ author[w] = "idle"
    /\ AuthorAt(w, "get")
    /\ readRev' = [readRev EXCEPT ![w] = docRev]
    /\ UNCHANGED <<docRev, entry, docLock, readEntry, patch, baseRev, changes>>

GetEntries(w) ==
    /\ author[w] = "get"
    /\ AuthorAt(w, "idle")
    /\ readEntry' = [readEntry EXCEPT ![w] = entry]
    /\ UNCHANGED <<docRev, entry, docLock, readRev, patch, baseRev, changes>>

-----------------------------------------------------------------------------
(* doc_patch.                                                              *)

\* What a call may ask for: a key at least, and none both ways.
Asks(w, p) ==
    /\ p.ifRev \in {readRev[w], Ahead, Blank}
    /\ \A k \in p.delete : p.set[k] = Blank
    /\ Named(p) # {}

\* Bug: the row is read without FOR UPDATE.
StartUnlocked(w, p) ==
    /\ author[w] = "idle" /\ Asks(w, p)
    /\ AuthorAt(w, "patch")
    /\ patch' = [patch EXCEPT ![w] = p]
    /\ baseRev' = [baseRev EXCEPT ![w] = docRev]
    /\ UNCHANGED <<docRev, entry, docLock, readRev, readEntry, changes>>

\* The row is put in if need be, locked, and its revision read.  A call that
\* waits for it has read nothing yet: it might as well not have begun.
StartPatch(w, p) ==
    /\ author[w] = "idle" /\ docLock = Blank
    /\ Asks(w, p)
    /\ docLock' = w
    /\ AuthorAt(w, "patch")
    /\ patch' = [patch EXCEPT ![w] = p]
    /\ baseRev' = [baseRev EXCEPT ![w] = docRev]
    /\ UNCHANGED <<docRev, entry, readRev, readEntry, changes>>

\* Bug: the bound on what the caller has seen is off by one.
ClashingLate(w) ==
    {k \in Named(patch[w]) : entry[k] # Blank /\ entry[k].rev > patch[w].ifRev + 1}

\* A key the patch names was written after the revision the caller read at.
ClashingKeys(w) ==
    {k \in Named(patch[w]) : entry[k] # Blank /\ entry[k].rev > patch[w].ifRev}

Rejected(w) ==
    patch[w].ifRev # Blank /\ (patch[w].ifRev > baseRev[w] \/ ClashingKeys(w) # {})

\* A key that holds its new value already is left alone.
Writes(w) ==
    {k \in Keys : /\ patch[w].set[k] # Blank
                  /\ \/ entry[k] = Blank
                     \/ entry[k].value # patch[w].set[k]}

Deletes(w) == {k \in patch[w].delete : entry[k] # Blank}

\* Bug: a row that is there keeps the revision it had.
PutKeepingRev(w, k, rev) ==
    [value |-> patch[w].set[k],
     rev |-> IF entry[k] = Blank THEN rev ELSE entry[k].rev]

\* The upsert of one entry.
Put(w, k, rev) == [value |-> patch[w].set[k], rev |-> rev]

EndPatch(w) ==
    /\ AuthorAt(w, "idle")
    /\ docLock' = IF docLock = w THEN Blank ELSE docLock
    /\ patch' = [patch EXCEPT ![w] = NoPatch]
    /\ baseRev' = [baseRev EXCEPT ![w] = 0]
    /\ UNCHANGED <<readRev, readEntry>>

\* Rejected, or nothing changes, or the call fails: nothing is written.
LeaveAlone(w) ==
    /\ author[w] = "patch"
    /\ EndPatch(w)
    /\ UNCHANGED <<docRev, entry, changes>>

\* The revision goes up by one, the entries are written and deleted, the event
\* says what changed, and the transaction commits.
CommitPatch(w) ==
    LET rev == baseRev[w] + 1
    IN  /\ author[w] = "patch"
        /\ ~Rejected(w) /\ Writes(w) \cup Deletes(w) # {}
        /\ rev <= MaxRev
        /\ docRev' = rev
        /\ entry' = [k \in Keys |->
              IF k \in Writes(w) THEN Put(w, k, rev)
              ELSE IF k \in Deletes(w) THEN Blank ELSE entry[k]]
        /\ changes' = Append(changes,
              [rev |-> rev, previousRev |-> baseRev[w],
               written |-> Writes(w), deleted |-> Deletes(w)])
        /\ EndPatch(w)

-----------------------------------------------------------------------------
DocInit ==
    /\ docRev = 0 /\ entry = NoEntries /\ docLock = Blank
    /\ author = [w \in Authors |-> "idle"]
    /\ readRev = [w \in Authors |-> 0] /\ readEntry = [w \in Authors |-> NoEntries]
    /\ patch = [w \in Authors |-> NoPatch] /\ baseRev = [w \in Authors |-> 0]
    /\ changes = << >>

DocNext ==
    \E w \in Authors :
        \/ GetRev(w) \/ GetEntries(w)
        \/ \E p \in Patch : StartPatch(w, p)
        \/ LeaveAlone(w) \/ CommitPatch(w)

DocSpec == DocInit /\ [][DocNext]_docVars

-----------------------------------------------------------------------------
(* Correctness.                                                            *)

DocTypeOK ==
    /\ docRev \in Revs /\ entry \in Content
    /\ docLock \in Authors \cup {Blank}
    /\ author \in [Authors -> {"idle", "get", "patch"}]
    /\ readRev \in [Authors -> Revs] /\ readEntry \in [Authors -> Content]
    /\ patch \in [Authors -> Patch] /\ baseRev \in [Authors -> Revs]
    /\ changes \in Seq([rev : Revs, previousRev : Revs,
                        written : SUBSET Keys, deleted : SUBSET Keys])

\* Every revision is told of by one event, and the events follow each other
\* without a gap or a fork, whoever patches at once (doc-patch.ts: the row is
\* locked before its revision is read).
RevisionsChain ==
    /\ Len(changes) = docRev
    /\ \A n \in 1..Len(changes) :
          changes[n].rev = n /\ changes[n].previousRev = n - 1

\* The events that name a key, and the last of them.
Naming(k) ==
    {n \in 1..Len(changes) : k \in changes[n].written \cup changes[n].deleted}

LastNaming(k) == CHOOSE n \in Naming(k) : \A m \in Naming(k) : m <= n

\* The events name exactly what happened to each key: an entry carries the
\* revision of the last event that names it, and none is there after the last
\* one deleted it (doc-patch.ts).
EntriesFollowTheLedger ==
    \A k \in Keys :
        IF Naming(k) = {} \/ k \in changes[LastNaming(k)].deleted
        THEN entry[k] = Blank
        ELSE entry[k] # Blank /\ entry[k].rev = LastNaming(k)

\* A patch that says which revision its author read at replaces no entry its
\* author has not seen, though the read took two statements and others wrote
\* before, between and after them (doc-patch.ts: what ifRev protects).
NoUnseenOverwrite ==
    [][\A w \in Authors :
          CommitPatch(w) /\ patch[w].ifRev # Blank =>
              \A k \in Named(patch[w]) :
                  entry[k] # Blank => entry[k] = readEntry[w][k]]_docVars
=============================================================================
