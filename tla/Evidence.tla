------------------------------ MODULE Evidence ------------------------------
(***************************************************************************)
(* The evidence an item carries (its Artifact rows) and the two clauses of *)
(* the merge that read it: is there an approving code review of this round *)
(* and this commit, or an override of the lack of one; and if that review  *)
(* deferred its findings, is the item they were deferred to still open.    *)
(* Neither clause refuses: the merge is applied, with a warning or without.*)
(*                                                                         *)
(* No row is locked and the transaction is READ COMMITTED, so every        *)
(* statement of an evaluation reads what is committed by then: a recording *)
(* may land between any two of them.                                       *)
(***************************************************************************)
EXTENDS Integers, Sequences, FiniteSetsExt

CONSTANTS
    Shas,           \* full commit shas: the same one is always spelled alike
    NoSha,          \* no commit named (null)
    NoRow,          \* no artifact matched (null)
    MaxHops,        \* rewrites followed (10 in the code)
    MaxRound,       \* bound: review rounds
    MaxArtifacts,   \* bound: rows on the item when the merge is asked for
    Overlap,        \* bound: rows that others record while one recording is open
    MaxChanges      \* bound: recordings and closings during the evaluation

VARIABLES
    artifacts,      \* the item's rows in the order of ("createdAt", "seq")
    followUp,       \* the item a review defers its findings to: open or closed
    merge           \* one call that moves the item to merged

evVars == <<artifacts, followUp, merge>>

Rounds == 1 .. MaxRound

(* "lgtm" stands for every approval without conditions; a "lgtm_with_nits" *)
(* here records a finding of medium or worse among its nits; a review that *)
(* asks for changes counts, as any other kind does, by its round alone,    *)
(* which at round 1 is nothing.  An override is either of the two kinds.   *)
Verdicts == {"lgtm", "lgtm_with_nits", "lgtm_with_followups"}

Commits == [kind : {"commit"}, sha : Shas, supersedes : Shas \cup {NoSha}, round : Rounds]
Reviews == [kind : {"code_review"}, sha : Shas \cup {NoSha}, verdict : Verdicts, round : Rounds]
Overrides == [kind : {"override"}, sha : Shas \cup {NoSha}, round : Rounds]
OtherRows == [kind : {"check_run"}, round : Rounds \ {1}]
Rows == Commits \cup Reviews \cup Overrides \cup OtherRows

ASSUME EvidenceAssumption ==
    /\ NoSha \notin Shas /\ NoRow \notin Rows
    /\ MaxHops \in Nat \ {0}
    /\ MaxRound \in Nat \ {0}
    /\ MaxArtifacts \in Nat
    /\ Overlap \in Nat
    /\ MaxChanges \in Nat

-----------------------------------------------------------------------------
(* The queries, each of one statement; rows are named by their places, of  *)
(* which the highest is the newest.                                        *)

Of(arts, kind) == {n \in DOMAIN arts : arts[n].kind = kind}

(* currentTipCommitSha: the newest commit row's. *)
Tip(arts) ==
    LET commits == Of(arts, "commit")
    IN IF commits = {} THEN NoSha ELSE arts[Max(commits)].sha

\* Bug: the link is followed the wrong way.
RewrittenAs(arts, sha) ==
    LET links == {n \in Of(arts, "commit") : arts[n].supersedes = sha}
    IN IF links = {} THEN NoSha ELSE arts[Max(links)].sha

(* One hop of tipCommitLineage: what the newest row that says so declares  *)
(* this sha to be a rewrite of.                                            *)
Rewritten(arts, sha) ==
    LET links == {n \in Of(arts, "commit") : arts[n].sha = sha /\ arts[n].supersedes # NoSha}
    IN IF links = {} THEN NoSha ELSE arts[Max(links)].supersedes

(* currentReviewRound: of every kind. *)
Round(arts) == Max({1} \cup {arts[n].round : n \in DOMAIN arts})

\* Bug: an approval of any round.
ApprovedEver(arts, round) == Restrict(arts, Of(arts, "code_review"))

(* approvingArtifactsAtRound. *)
ApprovedAt(arts, round) ==
    Restrict(arts, {n \in Of(arts, "code_review") : arts[n].round = round})

(* shaMatchesTipOrLineage. *)
Covers(sha, tip, lineage) ==
    IF tip = NoSha THEN sha = NoSha ELSE sha # NoSha /\ sha \in {tip} \cup lineage

(* rows.find over the rows, newest first. *)
NewestCovering(rows, tip, lineage) ==
    LET covering == {n \in DOMAIN rows : Covers(rows[n].sha, tip, lineage)}
    IN IF covering = {} THEN NoRow ELSE rows[Max(covering)]

(* blockingFindings. *)
Blocking(row) == row.verdict = "lgtm_with_nits"

-----------------------------------------------------------------------------
(* record_artifact, and the deferred work being finished or dropped. *)

(* What the evaluation lives through, if it is under way. *)
Meanwhile(arts) ==
    IF merge.at = "begun" THEN merge
    ELSE [merge EXCEPT !.changes = @ + 1, !.tips = @ \cup {Tip(arts)}, !.rounds = @ \cup {Round(arts)}]

(* A row's createdAt is when its transaction began, so it comes before the *)
(* rows of transactions that began later and have committed already.       *)
Record(row) ==
    /\ merge.at # "merged" /\ merge.changes < MaxChanges
    /\ merge.at = "begun" => Len(artifacts) < MaxArtifacts
    /\ \E before \in Max({0, Len(artifacts) - Overlap}) .. Len(artifacts) :
          artifacts' = SubSeq(artifacts, 1, before) \o <<row>>
                       \o SubSeq(artifacts, before + 1, Len(artifacts))
    /\ merge' = Meanwhile(artifacts')
    /\ UNCHANGED followUp

CloseFollowUp ==
    /\ merge.at # "merged" /\ merge.changes < MaxChanges
    /\ followUp = "open" /\ followUp' = "closed"
    /\ merge' = Meanwhile(artifacts)
    /\ UNCHANGED artifacts

-----------------------------------------------------------------------------
(* The evaluation.  "clause" says which of the three searches is under way:*)
(* for an override, for the review, and for the review once more in the    *)
(* follow-up clause.  rests is the row the review clause came to rest on.  *)
(* Of changes, tips and rounds the code knows nothing: they count what was *)
(* committed meanwhile and keep the tips and rounds there were.            *)

Unasked == [at |-> "begun", clause |-> "override", tip |-> NoSha, lineage |-> {}, cursor |-> NoSha,
            hops |-> 0, rows |-> <<>>, round |-> 1, rests |-> NoRow, warned |-> {},
            changes |-> 0, tips |-> {}, rounds |-> {}]

(* On to another search, or to the merge: what this one read is dropped. *)
GoOn(at, clause, warned, rests) ==
    [Unasked EXCEPT !.at = at, !.clause = clause, !.warned = warned, !.rests = rests,
        !.changes = merge.changes, !.tips = merge.tips, !.rounds = merge.rounds]

EvInit ==
    /\ artifacts = <<>>
    /\ followUp = "open"
    /\ merge = Unasked

Ask ==
    /\ merge.at = "begun"
    /\ merge' = [merge EXCEPT !.at = "tip", !.tips = {Tip(artifacts)}, !.rounds = {Round(artifacts)}]

ReadTip ==
    /\ merge.at = "tip"
    /\ merge' = [merge EXCEPT !.tip = Tip(artifacts), !.lineage = {}, !.hops = 0,
                    !.at = IF merge.clause = "override" /\ Tip(artifacts) = NoSha
                           THEN "decide" ELSE "lineage"]

(* tipCommitLineage reads the tip for itself. *)
StartLineage ==
    /\ merge.at = "lineage"
    /\ LET tip == Tip(artifacts)
       IN merge' = IF tip = NoSha THEN [merge EXCEPT !.at = "decide"]
                   ELSE [merge EXCEPT !.at = "hop", !.lineage = {tip}, !.cursor = tip]

Hop ==
    /\ merge.at = "hop"
    /\ LET next == Rewritten(artifacts, merge.cursor)
       IN merge' = IF next = NoSha \/ next \in merge.lineage THEN [merge EXCEPT !.at = "decide"]
                   ELSE [merge EXCEPT !.lineage = @ \cup {next}, !.cursor = next, !.hops = @ + 1,
                            !.at = IF merge.hops + 1 = MaxHops THEN "decide" ELSE "hop"]

(* reviewEvidenceOverrideSatisfies: the rows are read last. *)
FindOverride ==
    /\ merge.at = "decide" /\ merge.clause = "override"
    /\ LET overrides == Restrict(artifacts, Of(artifacts, "override"))
           row == NewestCovering(overrides, merge.tip, merge.lineage)
       IN merge' = IF row = NoRow THEN GoOn("any", "review", {}, NoRow)
                   ELSE GoOn("round", "followUp", {}, row)

(* hasApproval: of any round, at any commit. *)
AnyApproval ==
    /\ merge.at = "any"
    /\ merge' = IF Of(artifacts, "code_review") # {} THEN [merge EXCEPT !.at = "round"]
                ELSE GoOn("round", "followUp", {"review"}, NoRow)

(* resolveApprovingArtifactAtCurrentRoundAndTip: round, rows, tip, lineage.*)
ReadRound ==
    /\ merge.at = "round"
    /\ merge' = [merge EXCEPT !.at = "rows", !.round = Round(artifacts)]

ReadApprovals ==
    /\ merge.at = "rows"
    /\ LET rows == ApprovedAt(artifacts, merge.round)
       IN merge' = IF DOMAIN rows # {} THEN [merge EXCEPT !.at = "tip", !.rows = rows]
                   ELSE IF merge.clause = "review" THEN GoOn("round", "followUp", {"review"}, NoRow)
                   ELSE GoOn("merged", "followUp", merge.warned, merge.rests)

(* The rest of the review clause, on the row it found. *)
JudgeReview ==
    /\ merge.at = "decide" /\ merge.clause = "review"
    /\ LET row == NewestCovering(merge.rows, merge.tip, merge.lineage)
       IN merge' = GoOn("round", "followUp",
                        IF row = NoRow \/ Blocking(row) THEN {"review"} ELSE {}, row)

(* The rest of the follow-up clause: no row, or none that defers anything, *)
(* and it has nothing to say.                                              *)
JudgeDeferral ==
    /\ merge.at = "decide" /\ merge.clause = "followUp"
    /\ LET row == NewestCovering(merge.rows, merge.tip, merge.lineage)
           defers == row # NoRow /\ row.verdict = "lgtm_with_followups"
       IN merge' = GoOn(IF defers THEN "deferred" ELSE "merged", "followUp", merge.warned, merge.rests)

ReadFollowUp ==
    /\ merge.at = "deferred"
    /\ merge' = [merge EXCEPT !.at = "merged",
                    !.warned = IF followUp = "closed" THEN @ \cup {"followUp"} ELSE @]

Judge ==
    /\ \/ Ask \/ ReadTip \/ StartLineage \/ Hop \/ FindOverride \/ AnyApproval \/ ReadRound
       \/ ReadApprovals \/ JudgeReview \/ JudgeDeferral \/ ReadFollowUp
    /\ UNCHANGED <<artifacts, followUp>>

EvNext ==
    \/ \E row \in Rows : Record(row)
    \/ CloseFollowUp
    \/ Judge

EvSpec == EvInit /\ [][EvNext]_evVars

-----------------------------------------------------------------------------
(* What the clauses are for, read off the rows at once. *)

(* The ends of the walks from a sha of at most n links. *)
Reach(from, links, n) ==
    LET walks == {w \in UNION {[1 .. m -> Shas] : m \in 1 .. n + 1} :
                     /\ w[1] = from
                     /\ \A k \in 1 .. Len(w) - 1 : <<w[k], w[k + 1]>> \in links}
    IN {w[Len(w)] : w \in walks}

(* The shas that n hops from the tip pass, wherever they end. *)
Links(arts) == {link \in Shas \X Shas : link[2] = Rewritten(arts, link[1])}
Within(arts, n) == Reach(Tip(arts), Links(arts), n)

Approval(arts, n) ==
    NewestCovering(ApprovedAt(arts, Round(arts)), Tip(arts), Within(arts, n))

Overridden(arts) ==
    NewestCovering(Restrict(arts, Of(arts, "override")), Tip(arts), Within(arts, MaxHops)) # NoRow

Sound(arts) ==
    LET row == Approval(arts, MaxHops)
    IN /\ Overridden(arts) \/ (row # NoRow /\ ~Blocking(row))
       /\ row # NoRow /\ row.verdict = "lgtm_with_followups" => followUp = "open"

(* Every sha some row, newest or not, declares the given one a rewrite of, *)
(* directly or through others.                                             *)
Declared(arts) ==
    {<<arts[n].sha, arts[n].supersedes>> : n \in {m \in DOMAIN arts : arts[m].kind = "commit"}}

Replaces(new, old, arts) == old \in Reach(new, Declared(arts), MaxHops)

(* A merge the review clause let through in silence rests on a row that is *)
(* on the item: an override, or an approval, without grave findings, of a  *)
(* round that was current at a moment of the evaluation.  Its commit was   *)
(* the tip at such a moment, or is one that tip was declared to be a       *)
(* rewrite of; it names none only when there was no tip to name.  So no    *)
(* recording that lands between the clause's queries (the tip is read twice*)
(* in each search, the round and the rows before it) lets a merge rest on  *)
(* nothing.  And if nothing was recorded meanwhile, both clauses are silent*)
(* exactly when the rows, read at once, are sound (merge.ts: "an approving *)
(* code_review artifact at the item's current review round and tip         *)
(* commit").                                                               *)
SilentMergeWasReviewed ==
    merge.at = "merged" =>
        /\ "review" \notin merge.warned =>
              /\ \E n \in DOMAIN artifacts : artifacts[n] = merge.rests
              /\ \/ merge.rests.kind = "override"
                 \/ /\ merge.rests.kind = "code_review" /\ ~Blocking(merge.rests)
                    /\ merge.rests.round \in merge.rounds
              /\ \E tip \in merge.tips :
                    \/ tip = NoSha /\ merge.rests.sha = NoSha
                    \/ tip # NoSha /\ Replaces(tip, merge.rests.sha, artifacts)
        /\ merge.changes = 0 => (merge.warned = {} <=> Sound(artifacts))

(* A squash, a rebase or an amend costs no new review (merge.ts, the       *)
(* warning of a moved commit: "record the landed commit artifact with      *)
(* `supersedesSha` set to the reviewed sha, and this approval carries      *)
(* forward"): recorded last, in the round the item is in, as a rewrite of  *)
(* the tip, a sha the item has not seen leaves the approval where it was.  *)
(* It takes one of the hops; an approval that was MaxHops away is lost.    *)
RewriteKeepsApproval ==
    [][\A row \in Commits :
          LET before == Approval(artifacts, MaxHops - 1)
          IN (/\ artifacts' = Append(artifacts, row)
              /\ Tip(artifacts) # NoSha /\ row.supersedes = Tip(artifacts)
              /\ row.sha \notin Within(artifacts, MaxHops)
              /\ row.round <= Round(artifacts)
              /\ before # NoRow)
             => Approval(artifacts', MaxHops) # NoRow]_evVars
=============================================================================
