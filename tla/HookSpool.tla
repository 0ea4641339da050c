----------------------------- MODULE HookSpool ------------------------------
(***************************************************************************)
(* The file the hooks of one machine spool their tool calls to, and the    *)
(* drains that send it to the server (hook/flush.ts, cli/spool-file.ts).   *)
(*                                                                         *)
(* Every tool call runs a hook, a short-lived process that appends one     *)
(* record; a Stop, or the flush command, sends what is spooled.  The       *)
(* processes share the file and nothing keeps them apart.  One file        *)
(* operation is one action; a rewrite is two, since it empties the file    *)
(* before it writes.                                                       *)
(***************************************************************************)
EXTENDS Integers, FiniteSets, SequencesExt

CONSTANTS
    Hooks,       \* the sessions of the machine; each runs one hook at a time
    Refused,     \* those whose batches the server turns down for good
    CallsOf,     \* bounds the tool calls of each session
    MaxRecords,  \* the ceiling
    BatchSize,
    Torn         \* a line that is no record

VARIABLES
    spool,       \* the lines of the file
    spooled,     \* how many calls of each session have been appended
    hook,        \* where each hook is
    text,        \* the lines it has read
    acked,       \* the places in it that the server has acknowledged
    abandoned,   \* the sessions whose batch failed in this drain
    kept,        \* the lines it writes back
    stored,      \* the records the server has stored,
    twice,       \* those it has stored more than once
    trimmed,     \* the records the ceiling has passed over
    excuse       \* what may have happened to records: "lost", "repeated", "reordered"

spoolVars == <<spool, spooled, hook, text, acked, abandoned, kept, stored, twice,
               trimmed, excuse>>

ASSUME SpoolAssumption ==
    /\ Refused \subseteq Hooks
    /\ CallsOf \in [Hooks -> Nat]
    /\ MaxRecords \in Nat \ {0} /\ BatchSize \in Nat \ {0}
    /\ Torn \notin Hooks \X Nat

-----------------------------------------------------------------------------
Records == UNION {{h} \X (1..CallsOf[h]) : h \in Hooks}
SessionOf(r) == r[1]

\* The lines at some of the places, in their order.
Picked(lines, places) ==
    [n \in 1..Cardinality(places) |->
        lines[CHOOSE k \in places : Cardinality({j \in places : j <= k}) = n]]

\* readSpool: lines that do not parse are left out.
ReadSpool(lines) == Picked(lines, {k \in DOMAIN lines : lines[k] # Torn})

\* trimSpool: the newest ones stay.
Excess(records) == IF Len(records) > MaxRecords THEN Len(records) - MaxRecords ELSE 0
TrimSpool(records) == SubSeq(records, Excess(records) + 1, Len(records))

\* Those it passes over.
PassedOver(records) == ToSet(SubSeq(records, 1, Excess(records)))

At(h, next) == hook' = [hook EXCEPT ![h] = next]

-----------------------------------------------------------------------------
(* A tool call: spoolEvent.                                                *)

\* The record goes in, and the ceiling may be due to be looked at.
AppendRecord(h, due) ==
    /\ hook[h] = "idle" /\ spooled[h] < CallsOf[h]
    /\ spool' = Append(spool, <<h, spooled[h] + 1>>)
    /\ spooled' = [spooled EXCEPT ![h] = @ + 1]
    /\ At(h, IF due THEN "ceiling" ELSE "idle")
    /\ UNCHANGED <<text, acked, abandoned, kept, stored, twice, trimmed, excuse>>

\* enforceCeiling.
EnforceCeiling(h) ==
    /\ hook[h] = "ceiling"
    /\ IF Excess(ReadSpool(spool)) = 0
       THEN At(h, "idle") /\ UNCHANGED <<text, kept>>
       ELSE /\ At(h, "replace")
            /\ text' = [text EXCEPT ![h] = spool]
            /\ kept' = [kept EXCEPT ![h] = TrimSpool(ReadSpool(spool))]
    /\ trimmed' = trimmed \cup PassedOver(ReadSpool(spool))
    /\ UNCHANGED <<spool, spooled, acked, abandoned, stored, twice, excuse>>

-----------------------------------------------------------------------------
(* A drain: flushSpool between a read and a rewrite.                       *)

Draining(h) == hook[h] = "send"

StartDrain(h) ==
    /\ hook[h] = "idle" /\ spool # << >>
    /\ At(h, "send")
    /\ text' = [text EXCEPT ![h] = spool]
    /\ excuse' = excuse
          \cup (IF \E g \in Hooks : hook[g] \in {"send", "replace", "write"}
                THEN {"repeated"} ELSE {})
          \cup (IF \E g \in Hooks : hook[g] = "write" THEN {"reordered"} ELSE {})
    /\ trimmed' = trimmed \cup PassedOver(ReadSpool(spool))
    /\ UNCHANGED <<spool, spooled, acked, abandoned, kept, stored, twice>>

ToSend(h) == TrimSpool(ReadSpool(text[h]))

\* The places still to be sent, session by session.
Unsent(h) ==
    LET records == ToSend(h)
    IN  {k \in DOMAIN records : /\ k \notin acked[h]
                                /\ SessionOf(records[k]) \notin abandoned[h]}

\* Those of the session that comes first in the file, which is this one,
CurrentSession(h) ==
    LET unsent == Unsent(h)
    IN  SessionOf(ToSend(h)[CHOOSE k \in unsent : \A j \in unsent : k <= j])

OfCurrent(h) ==
    LET records == ToSend(h)
        session == CurrentSession(h)
    IN  {k \in Unsent(h) : SessionOf(records[k]) = session}

\* Bug: a session's newest records go first.
LastBatch(h) ==
    LET mine == OfCurrent(h)
    IN  {k \in mine : Cardinality({j \in mine : j >= k}) <= BatchSize}

\* and its next batch.
NextBatch(h) ==
    LET mine == OfCurrent(h)
    IN  {k \in mine : Cardinality({j \in mine : j <= k}) <= BatchSize}

\* One transaction stores the batch.
StoreBatch(h) ==
    LET records == ToSend(h)
        batch == NextBatch(h)
        Copies(r) == {k \in batch : records[k] = r}
    IN  /\ stored' = stored \cup {r \in Records : Copies(r) # {}}
        /\ twice' = twice \cup
              {r \in Records : \/ r \in stored /\ Copies(r) # {}
                               \/ Cardinality(Copies(r)) > 1}

\* The server takes the batch and says so.
SendAccepted(h) ==
    /\ Draining(h) /\ Unsent(h) # {}
    /\ CurrentSession(h) \notin Refused
    /\ StoreBatch(h)
    /\ acked' = [acked EXCEPT ![h] = @ \cup NextBatch(h)]
    /\ UNCHANGED <<spool, spooled, hook, text, abandoned, kept, trimmed, excuse>>

\* Bug: one session's failure ends the whole flush.
AbandonAll(h) ==
    /\ abandoned' = [abandoned EXCEPT ![h] = Hooks]
    /\ UNCHANGED acked

\* Bug: what has been sent is done with, whatever the answer.
CountAsSent(h) ==
    /\ acked' = [acked EXCEPT ![h] = @ \cup NextBatch(h)]
    /\ UNCHANGED abandoned

Abandon(h) ==
    /\ abandoned' = [abandoned EXCEPT ![h] = @ \cup {CurrentSession(h)}]
    /\ UNCHANGED acked

\* It turns this session's batches down,
SendRefused(h) ==
    /\ Draining(h) /\ Unsent(h) # {}
    /\ CurrentSession(h) \in Refused
    /\ Abandon(h)
    /\ UNCHANGED <<spool, spooled, hook, text, kept, stored, twice, trimmed, excuse>>

\* or cannot be reached,
SendFailed(h) ==
    /\ Draining(h) /\ Unsent(h) # {}
    /\ CurrentSession(h) \notin Refused
    /\ Abandon(h)
    /\ UNCHANGED <<spool, spooled, hook, text, kept, stored, twice, trimmed, excuse>>

\* or takes it and the answer is lost or late.
SendUnanswered(h) ==
    /\ Draining(h) /\ Unsent(h) # {}
    /\ CurrentSession(h) \notin Refused
    /\ StoreBatch(h)
    /\ Abandon(h)
    /\ excuse' = excuse \cup {"repeated"}
    /\ UNCHANGED <<spool, spooled, hook, text, kept, trimmed>>

\* Bug: of what was acknowledged, the first record alone comes off.
RemainingAfterOne(h) ==
    IF 1 \in acked[h] THEN SubSeq(ToSend(h), 2, Len(ToSend(h))) ELSE ToSend(h)

\* What was not acknowledged.
Remaining(h) == Picked(ToSend(h), DOMAIN ToSend(h) \ acked[h])

\* The file is rewritten if something was sent, dropped or skipped.
EndDrain(h) ==
    /\ Draining(h) /\ Unsent(h) = {}
    /\ IF acked[h] = {} /\ ToSend(h) = text[h]
       THEN /\ At(h, "idle")
            /\ text' = [text EXCEPT ![h] = << >>] /\ UNCHANGED kept
       ELSE /\ At(h, "replace")
            /\ kept' = [kept EXCEPT ![h] = Remaining(h)] /\ UNCHANGED text
    /\ acked' = [acked EXCEPT ![h] = {}]
    /\ abandoned' = [abandoned EXCEPT ![h] = {}]
    /\ UNCHANGED <<spool, spooled, stored, twice, trimmed, excuse>>

-----------------------------------------------------------------------------
(* replace: writeFileSync empties the file,                                *)

Empty(h) ==
    /\ hook[h] = "replace"
    /\ spool' = << >>
    /\ excuse' = IF spool = text[h] THEN excuse ELSE excuse \cup {"lost"}
    /\ At(h, "write")
    /\ UNCHANGED <<spooled, text, acked, abandoned, kept, stored, twice, trimmed>>

\* and writes from its start over what another process has put there since:
\* whole lines of that may be left, and a piece of one.  Where a piece stands,
\* and how many there are, makes no difference to a reader.
WriteBack(h) ==
    /\ hook[h] = "write"
    /\ IF kept[h] = << >> \/ spool = << >>
       THEN spool' = kept[h] \o spool /\ UNCHANGED excuse
       ELSE /\ \E over \in 1..Len(spool), piece \in {<< >>, <<Torn>>} :
                  spool' = piece \o kept[h]
                           \o ReadSpool(SubSeq(spool, over + 1, Len(spool)))
            /\ excuse' = excuse \cup {"lost"}
    /\ At(h, "idle")
    /\ text' = [text EXCEPT ![h] = << >>]
    /\ kept' = [kept EXCEPT ![h] = << >>]
    /\ UNCHANGED <<spooled, acked, abandoned, stored, twice, trimmed>>

\* The process is killed: its session has ended, or its time is up.
Kill(h) ==
    /\ hook[h] # "idle"
    /\ At(h, "idle")
    /\ text' = [text EXCEPT ![h] = << >>]
    /\ kept' = [kept EXCEPT ![h] = << >>]
    /\ acked' = [acked EXCEPT ![h] = {}]
    /\ abandoned' = [abandoned EXCEPT ![h] = {}]
    /\ excuse' = excuse
          \cup (IF hook[h] = "write" THEN {"lost"} ELSE {})
          \cup (IF acked[h] # {} \/ hook[h] = "replace" THEN {"repeated"} ELSE {})
    /\ UNCHANGED <<spool, spooled, stored, twice, trimmed>>

-----------------------------------------------------------------------------
SpoolInit ==
    /\ spool = << >>
    /\ spooled = [h \in Hooks |-> 0]
    /\ hook = [h \in Hooks |-> "idle"]
    /\ text = [h \in Hooks |-> << >>] /\ kept = [h \in Hooks |-> << >>]
    /\ acked = [h \in Hooks |-> {}] /\ abandoned = [h \in Hooks |-> {}]
    /\ stored = {} /\ twice = {}
    /\ trimmed = {} /\ excuse = {}

Send(h) ==
    SendAccepted(h) \/ SendRefused(h) \/ SendFailed(h) \/ SendUnanswered(h)

HookStep(h) ==
    \/ \E due \in BOOLEAN : AppendRecord(h, due)
    \/ EnforceCeiling(h)
    \/ StartDrain(h) \/ Send(h) \/ EndDrain(h)
    \/ Empty(h) \/ WriteBack(h)

SpoolNext == \E h \in Hooks : HookStep(h) \/ Kill(h)

SpoolSpec == SpoolInit /\ [][SpoolNext]_spoolVars

\* Drains keep being run, the server can be reached again
\* and again, and in the end no hook is killed any more.
SpoolFairness ==
    /\ \A h \in Hooks :
          /\ SF_spoolVars(StartDrain(h)) /\ SF_spoolVars(SendAccepted(h))
          /\ WF_spoolVars(Send(h)) /\ WF_spoolVars(EndDrain(h))
          /\ WF_spoolVars(Empty(h)) /\ WF_spoolVars(WriteBack(h))
          /\ WF_spoolVars(EnforceCeiling(h))
    /\ <>[][\E h \in Hooks : HookStep(h)]_spoolVars

-----------------------------------------------------------------------------
(* Correctness.                                                            *)

Lines == Records \cup {Torn}

SpoolTypeOK ==
    /\ spool \in Seq(Lines) /\ spooled \in [Hooks -> Nat]
    /\ hook \in [Hooks -> {"idle", "ceiling", "send", "replace", "write"}]
    /\ text \in [Hooks -> Seq(Lines)] /\ kept \in [Hooks -> Seq(Records)]
    /\ acked \in [Hooks -> SUBSET (Nat \ {0})]
    /\ abandoned \in [Hooks -> SUBSET Hooks]
    /\ stored \subseteq Records /\ twice \subseteq stored
    /\ trimmed \subseteq Records
    /\ excuse \subseteq {"lost", "repeated", "reordered"}

Spooled == {r \in Records : r[2] <= spooled[SessionOf(r)]}

\* In the file, or about to be written back to it.
OnDisk(r) ==
    \/ r \in ToSet(spool)
    \/ \E h \in Hooks : hook[h] = "write" /\ r \in ToSet(kept[h])

\* flush.ts: nothing leaves the spool until the server has taken it, or the
\* ceiling is reached.
NothingVanishes == \A r \in Spooled \ (stored \cup trimmed) : OnDisk(r)

\* What does hold: a record vanishes only where a hook rewrote the file over
\* what another had put there since it was read, or was killed in the rewrite.
LossNeedsAnOverwrite == "lost" \in excuse \/ NothingVanishes

\* The server stores a record twice only after an answer was lost, a hook was
\* killed between a send and its rewrite, or two hooks met over the file: at
\* least once, and once while nothing goes wrong (flush.ts).
TwiceNeedsAFault == twice # {} => excuse # {}

\* The calls of a session are stored in their order, though batches fail and
\* are sent again later: what a drain retains is contiguous (flush.ts).
StoredInOrder ==
    "lost" \in excuse \/ "reordered" \in excuse \/
    \A r \in stored, q \in Spooled :
        SessionOf(q) = SessionOf(r) /\ q[2] < r[2] => q \in stored \cup trimmed

\* A record of a session the server takes does not stay on the spool, though
\* another session's are refused for good and sit before it (flush.ts).
SpoolDrains ==
    \A r \in Records : SessionOf(r) \notin Refused =>
        (r \in ToSet(spool)) ~> (r \notin ToSet(spool))
=============================================================================
