------------------------------ MODULE MCStores ------------------------------
(***************************************************************************)
(* What several callers write at once, side by side: the crew names, the   *)
(* item tree, the archive, the loose ends of an item and the spool of a    *)
(* machine's hooks.  They share no variable, so a behaviour is one of      *)
(* theirs with the others at rest.                                         *)
(***************************************************************************)
EXTENDS CrewNames, Hierarchy, Archiving, OpenLoops, HookSpool

CONSTANTS i1, i2, i3, i4, h1, h2

VARIABLE part

OrderOfThings == (i1 :> 1) @@ (i2 :> 2) @@ (i3 :> 3) @@ (i4 :> 4)
CallsOfHooks == (h1 :> 2) @@ (h2 :> 1)
Alike == Permutations(Sessions) \cup Permutations(Callers) \cup Permutations(Rows)

\* A tree at rest has no items.
StoresInit ==
    /\ part \in {"names", "tree", "archive", "loops", "spool"}
    /\ IF part = "tree" THEN TreeInit
       ELSE NoCalls /\ tree = [i \in Things |-> Nothing] /\ overlap = {}
    /\ Init /\ ArchiveInit /\ LoopInit /\ SpoolInit

\* What is checked of the spool asks for nothing once a record may be lost.
NothingLost == "lost" \notin excuse

StoresNext ==
    \/ /\ part = "names" /\ Next
       /\ UNCHANGED <<part, treeVars, archiveVars, loopVars, spoolVars>>
    \/ /\ part = "tree" /\ TreeNext
       /\ UNCHANGED <<part, vars, archiveVars, loopVars, spoolVars>>
    \/ /\ part = "archive" /\ ArchiveNext
       /\ UNCHANGED <<part, vars, treeVars, loopVars, spoolVars>>
    \/ /\ part = "loops" /\ LoopNext
       /\ UNCHANGED <<part, vars, treeVars, archiveVars, spoolVars>>
    \/ /\ part = "spool" /\ NothingLost /\ SpoolNext
       /\ UNCHANGED <<part, vars, treeVars, archiveVars, loopVars>>

StoresSpec ==
    /\ StoresInit
    /\ [][StoresNext]_<<part, vars, treeVars, archiveVars, loopVars, spoolVars>>
=============================================================================
