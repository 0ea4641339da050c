---------------------------- MODULE MCFollowers -----------------------------
(***************************************************************************)
(* What follows the database at its own pace, side by side: a reader of    *)
(* the ledger, a server's copy of the settings, and the spool of a         *)
(* machine's hooks.  They share no variable, so a behaviour is one of      *)
(* theirs with the others at rest, under the fairness of that one.         *)
(***************************************************************************)
EXTENDS EventLedger, SettingsCache, HookSpool

CONSTANTS h1, h2

VARIABLE part

CallsOfHooks == (h1 :> 1) @@ (h2 :> 1)

FollowersInit ==
    /\ part \in {"ledger", "settings", "spool"}
    /\ Init /\ CacheInit /\ SpoolInit

FollowersNext ==
    \/ part = "ledger" /\ Next /\ UNCHANGED <<part, cacheVars, spoolVars>>
    \/ part = "settings" /\ CacheNext /\ UNCHANGED <<part, vars, spoolVars>>
    \/ part = "spool" /\ SpoolNext /\ UNCHANGED <<part, vars, cacheVars>>

FollowersSpec ==
    /\ FollowersInit /\ [][FollowersNext]_<<part, vars, cacheVars, spoolVars>>
    /\ \/ part = "ledger" /\ LedgerFairness
       \/ part = "settings" /\ CacheFairness
       \/ part = "spool" /\ SpoolFairness
=============================================================================
