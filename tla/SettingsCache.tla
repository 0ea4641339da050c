--------------------------- MODULE SettingsCache ----------------------------
(***************************************************************************)
(* One server process's snapshot of the settings, and how it follows the   *)
(* revision counter in the database (settings/cache.ts, service/live.ts).  *)
(*                                                                         *)
(* A process runs one piece of JavaScript at a time, so an action here is  *)
(* what runs between two awaits, or the database statement an await waits  *)
(* for.  Every write commits its rows and one step of the counter          *)
(* together, so what the rows say is named by the revision that put them   *)
(* there.  What a setting means is left out.                               *)
(***************************************************************************)
EXTENDS Integers

CONSTANTS
    Gets,        \* the calls of this process that may ask at once
    MaxRevision, \* bounds the writes
    Unset

VARIABLES
    revision,    \* settings_revision, and with it what settings holds
    snapshot,    \* #snapshot: the rows it was built of and its stamp
    fresh,       \* less than the interval has passed since #checkedAt
    inFlight,    \* #inFlight: whose load it is
    getAt,       \* where each get is
    got,         \* what it has read so far
    unreturned,  \* writes of this process that committed and whose call has
                 \* not returned yet
    seen         \* the newest write of this process that it has promised to
                 \* show from now on

cacheVars == <<revision, snapshot, fresh, inFlight, getAt, got, unreturned, seen>>

ASSUME CacheAssumption ==
    /\ MaxRevision \in Nat
    /\ Unset \notin Gets /\ Unset \notin Nat

-----------------------------------------------------------------------------
Revisions == 0..MaxRevision
Snapshot == [rows : Revisions, stamp : Revisions]
Got == [cached : Snapshot \cup {Unset}, rows : Revisions, stamp : Revisions,
        of : Gets \cup {Unset}]
NothingGot == [cached |-> Unset, rows |-> 0, stamp |-> 0, of |-> Unset]

Loading == {g \in Gets : getAt[g] \in {"rows", "stamp", "land"}}

CacheStep(g, next, what) ==
    /\ getAt' = [getAt EXCEPT ![g] = next]
    /\ got' = [got EXCEPT ![g] = what]

Unwritten == UNCHANGED <<revision, unreturned, seen>>

-----------------------------------------------------------------------------
(* get().                                                                  *)

\* A load is under way: await it.
Join(g) ==
    /\ getAt[g] = "idle" /\ inFlight # Unset
    /\ CacheStep(g, "join", [NothingGot EXCEPT !.of = inFlight])
    /\ UNCHANGED <<snapshot, fresh, inFlight>> /\ Unwritten

\* The interval has passed: await the revision.
Recheck(g) ==
    /\ getAt[g] = "idle" /\ inFlight = Unset
    /\ snapshot # Unset /\ ~fresh
    /\ CacheStep(g, "revision", [NothingGot EXCEPT !.cached = snapshot])
    /\ UNCHANGED <<snapshot, fresh, inFlight>> /\ Unwritten

\* Nothing is held: load.
LoadFirst(g) ==
    /\ getAt[g] = "idle" /\ inFlight = Unset /\ snapshot = Unset
    /\ CacheStep(g, "rows", NothingGot)
    /\ inFlight' = g
    /\ UNCHANGED <<snapshot, fresh>> /\ Unwritten

ReadRevision(g) ==
    /\ getAt[g] = "revision"
    /\ CacheStep(g, "compare", [got[g] EXCEPT !.stamp = revision])
    /\ UNCHANGED <<snapshot, fresh, inFlight>> /\ Unwritten

\* The counter stands where it stood, or it moved: load, whether or not
\* another get has started a load meanwhile.
Compare(g) ==
    /\ getAt[g] = "compare"
    /\ fresh' = TRUE
    /\ IF got[g].stamp = got[g].cached.stamp
       THEN CacheStep(g, "idle", NothingGot) /\ UNCHANGED inFlight
       ELSE CacheStep(g, "rows", NothingGot) /\ inFlight' = g
    /\ UNCHANGED snapshot /\ Unwritten

-----------------------------------------------------------------------------
(* load(): readOverrides is a transaction of two statements at the         *)
(* database's default isolation, READ COMMITTED, so each sees what is      *)
(* committed when it runs.                                                 *)

ReadRows(g) ==
    /\ getAt[g] = "rows"
    /\ CacheStep(g, "stamp", [got[g] EXCEPT !.rows = revision])
    /\ UNCHANGED <<snapshot, fresh, inFlight>> /\ Unwritten

ReadStamp(g) ==
    /\ getAt[g] = "stamp"
    /\ CacheStep(g, "land", [got[g] EXCEPT !.stamp = revision])
    /\ UNCHANGED <<snapshot, fresh, inFlight>> /\ Unwritten

\* The load is over, and whoever awaits it goes on.
SettleLoad(g) ==
    /\ getAt' = [h \in Gets |->
          IF h = g \/ (getAt[h] = "join" /\ got[h].of = g) THEN "idle" ELSE getAt[h]]
    /\ got' = [h \in Gets |->
          IF h = g \/ (getAt[h] = "join" /\ got[h].of = g) THEN NothingGot ELSE got[h]]

\* Bug: what is held already is kept, should another load have landed.
LandUnlessHeld(g) ==
    /\ getAt[g] = "land"
    /\ snapshot' = IF snapshot = Unset
                   THEN [rows |-> got[g].rows, stamp |-> got[g].stamp]
                   ELSE snapshot
    /\ fresh' = TRUE /\ inFlight' = Unset
    /\ SettleLoad(g) /\ Unwritten

Land(g) ==
    /\ getAt[g] = "land"
    /\ snapshot' = [rows |-> got[g].rows, stamp |-> got[g].stamp]
    /\ fresh' = TRUE /\ inFlight' = Unset
    /\ SettleLoad(g) /\ Unwritten

\* The source rejects: finally clears the promise, the error goes to all.
FailLoad(g) ==
    /\ g \in Loading
    /\ inFlight' = Unset
    /\ SettleLoad(g)
    /\ UNCHANGED <<snapshot, fresh>> /\ Unwritten

FailCheck(g) ==
    /\ getAt[g] = "revision"
    /\ CacheStep(g, "idle", NothingGot)
    /\ UNCHANGED <<snapshot, fresh, inFlight>> /\ Unwritten

-----------------------------------------------------------------------------
(* Writes: put, patch, delete of settings, and intervention levels.        *)

\* bumpRevision, and the commit.
WriteSetting(here) ==
    /\ revision < MaxRevision
    /\ revision' = revision + 1
    /\ unreturned' = IF here THEN unreturned \cup {revision + 1} ELSE unreturned
    /\ UNCHANGED <<snapshot, fresh, inFlight, getAt, got, seen>>

\* Bug: the snapshot is only due for a check.
InvalidateAge(w) ==
    /\ w \in unreturned
    /\ unreturned' = unreturned \ {w}
    /\ fresh' = FALSE
    /\ seen' = IF Loading = {} /\ w > seen THEN w ELSE seen
    /\ UNCHANGED <<snapshot, revision, inFlight, getAt, got>>

\* The call returns: invalidate().  A load that is under way is not stopped.
Invalidate(w) ==
    /\ w \in unreturned
    /\ unreturned' = unreturned \ {w}
    /\ snapshot' = Unset /\ fresh' = FALSE
    /\ seen' = IF Loading = {} /\ w > seen THEN w ELSE seen
    /\ UNCHANGED <<revision, inFlight, getAt, got>>

\* The revalidation interval passes.
Lapse ==
    /\ fresh
    /\ fresh' = FALSE
    /\ UNCHANGED <<snapshot, inFlight, getAt, got>> /\ Unwritten

-----------------------------------------------------------------------------
CacheInit ==
    /\ revision = 0
    /\ snapshot = Unset /\ fresh = FALSE /\ inFlight = Unset
    /\ getAt = [g \in Gets |-> "idle"]
    /\ got = [g \in Gets |-> NothingGot]
    /\ unreturned = {} /\ seen = 0

Ask(g) == Join(g) \/ Recheck(g) \/ LoadFirst(g)

CacheNext ==
    \/ \E g \in Gets : \/ Ask(g) \/ ReadRevision(g) \/ Compare(g)
                       \/ ReadRows(g) \/ ReadStamp(g) \/ Land(g)
                       \/ FailLoad(g) \/ FailCheck(g)
    \/ \E here \in BOOLEAN : WriteSetting(here)
    \/ \E w \in unreturned : Invalidate(w)
    \/ Lapse

CacheSpec == CacheInit /\ [][CacheNext]_cacheVars

\* Some call asks, again and again the database answers some call, a write's
\* call returns and time passes.
CacheFairness ==
    /\ WF_cacheVars(\E g \in Gets : Ask(g)) /\ WF_cacheVars(\E g \in Gets : Compare(g))
    /\ SF_cacheVars(\E g \in Gets : ReadRevision(g))
    /\ SF_cacheVars(\E g \in Gets : ReadRows(g))
    /\ SF_cacheVars(\E g \in Gets : ReadStamp(g))
    /\ SF_cacheVars(\E g \in Gets : Land(g))
    /\ WF_cacheVars(\E w \in unreturned : Invalidate(w))
    /\ WF_cacheVars(Lapse)

-----------------------------------------------------------------------------
(* Correctness.                                                            *)

CacheTypeOK ==
    /\ revision \in Revisions /\ seen \in Revisions
    /\ snapshot \in Snapshot \cup {Unset} /\ fresh \in BOOLEAN
    /\ inFlight \in Gets \cup {Unset}
    /\ getAt \in [Gets -> {"idle", "join", "revision", "compare", "rows",
                           "stamp", "land"}]
    /\ got \in [Gets -> Got]
    /\ unreturned \subseteq Revisions

\* A process shows its own change from the moment the write has returned
\* (SettingsInvalidatingRuntime), also through loads that fail, overlap or
\* land late; only a load under way at that moment can hide it.
OwnWriteShown == snapshot # Unset => snapshot.rows >= seen

\* Once the writes are over, the snapshot ends up with the last revision as
\* its stamp, for any order in which overlapping loads land and though loads
\* fail (cache.ts: the inFlight promise is never left latched).
RevisionReached == <>[](snapshot # Unset => snapshot.stamp = revision)

\* cache.ts: the snapshot is stamped with the revision its rows were read at.
StampedWithItsRows == snapshot # Unset => snapshot.rows = snapshot.stamp
=============================================================================
