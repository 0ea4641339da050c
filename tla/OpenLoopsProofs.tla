-------------------------- MODULE OpenLoopsProofs ---------------------------
(***************************************************************************)
(* The status of a loop only advances, for any number of loops, callers    *)
(* and events: the fold asks what there is, and events are never taken     *)
(* back.  And an id is given out once, unless two calls gave it out        *)
(* together: whoever is adding it found no event that names it, and every  *)
(* other event follows an opening.                                         *)
(***************************************************************************)
EXTENDS OpenLoops, WellFoundedInduction, TLAPS

\* No step takes an event out of the ledger.
LEMMA EventsStay ==
    [LoopNext]_loopVars => recorded \subseteq recorded'
BY DEF LoopNext, loopVars, Fold, AppendLoopEvent, CommitLoopEvent, AbandonLoop

\* Whatever events are added, in whatever order of ids, a loop's status moves
\* forward only.
LEMMA MoreEventsAdvance ==
    ASSUME recorded \subseteq recorded', NEW loop
    PROVE  Stage(Status(loop)) <= Stage(Status(loop)')
<1>1. \A type : Of(loop, type) # {} => Of(loop, type)' # {}
  BY DEF Of
<1> QED
  BY <1>1 DEF Status, Stage

\* A closed loop is never open again and a deleted one never comes back,
\* however adds, closes, edits and deletes interleave.
THEOREM StatusAdvances == LoopSpec => NeverReopened
<1>1. [LoopNext]_loopVars =>
        [\A loop \in Loops : Stage(Status(loop)) <= Stage(Status(loop)')]_loopVars
  BY EventsStay, MoreEventsAdvance
<1> QED
  BY <1>1, PTL DEF LoopSpec, NeverReopened

-----------------------------------------------------------------------------
EditorsFit ==
    /\ editor \in [Editors -> {Resting} \cup [at : {"append", "commit"}, event : LoopEvent]]
    /\ lastId \in 0..MaxEvents

\* Who closes, edits or deletes a loop folded its opening.
OthersFollow ==
    \A p \in Editors : editor[p].at # "idle" /\ editor[p].event.type # "open_loop" =>
        Of(editor[p].event.loop, "open_loop") # {}

\* Who adds a loop is alone in it, and nothing names the loop yet.
AddersAreAlone ==
    \A loop \in Loops \ clash : \A p \in Adding(loop) :
        ~Used(loop) /\ \A q \in Adding(loop) : q = p

LoopInv == EditorsFit /\ OthersFollow /\ AddersAreAlone

LEMMA LoopInitially == LoopInit => LoopInv
BY LoopAssumption DEF LoopInit, LoopInv, EditorsFit, OthersFollow, AddersAreAlone, Adding, Resting

LEMMA FoldKeeps ==
    ASSUME LoopInv, NEW p \in Editors, NEW type \in Types, NEW loop \in Loops,
           NEW kind \in Kinds \cup {NoLoop}, Fold(p, type, loop, kind)
    PROVE  LoopInv'
<1> DEFINE event == [id |-> 0, type |-> type, loop |-> loop, kind |-> kind]
<1>1. /\ editor' = [editor EXCEPT ![p] = [at |-> "append", event |-> event]]
      /\ recorded' = recorded /\ lastId' = lastId
      /\ editor[p].at = "idle" /\ Allowed(type, loop)
      /\ clash' = IF type = "open_loop" /\ Adding(loop) # {} THEN clash \cup {loop} ELSE clash
  BY DEF Fold
<1>2. event \in LoopEvent
  BY LoopAssumption DEF LoopEvent
<1>3. EditorsFit'
  BY <1>1, <1>2 DEF LoopInv, EditorsFit
<1>4. \A q \in Editors : editor'[q] = IF q = p THEN [at |-> "append", event |-> event] ELSE editor[q]
  BY <1>1 DEF LoopInv, EditorsFit
<1>5. type # "open_loop" => Of(loop, "open_loop") # {}
  BY <1>1 DEF Allowed, Status, Types
<1>6. OthersFollow'
  BY <1>1, <1>4, <1>5 DEF LoopInv, OthersFollow, Of
<1>7. ASSUME NEW l \in Loops \ clash', NEW a \in Adding(l)'
      PROVE  ~Used(l)' /\ \A q \in Adding(l)' : q = a
  <2>1. l \notin clash /\ Used(l)' = Used(l)
    BY <1>1, <1>7 DEF Used
  <2>2. CASE type = "open_loop" /\ l = loop
    <3>1. Adding(loop) = {} /\ ~Used(loop)
      BY <1>1, <2>2 DEF Allowed
    <3> QED
      BY <1>4, <2>1, <2>2, <3>1 DEF Adding
  <2>3. CASE ~(type = "open_loop" /\ l = loop)
    <3>1. Adding(l)' = Adding(l)
      BY <1>1, <1>4, <2>3 DEF Adding
    <3> QED
      BY <1>7, <2>1, <3>1 DEF LoopInv, AddersAreAlone
  <2> QED
    BY <2>2, <2>3
<1> QED
  BY <1>3, <1>6, <1>7 DEF LoopInv, AddersAreAlone

LEMMA AppendKeeps ==
    ASSUME LoopInv, NEW p \in Editors, AppendLoopEvent(p)
    PROVE  LoopInv'
<1>1. PICK event : event = [editor[p].event EXCEPT !.id = lastId + 1]
  OBVIOUS
<1>2. /\ editor' = [editor EXCEPT ![p] = [at |-> "commit", event |-> event]]
      /\ lastId' = lastId + 1 /\ lastId < MaxEvents
      /\ recorded' = recorded /\ clash' = clash /\ editor[p].at = "append"
  BY <1>1 DEF AppendLoopEvent
<1>3. editor[p].event \in LoopEvent /\ lastId + 1 \in 0..MaxEvents
  BY <1>2, LoopAssumption DEF LoopInv, EditorsFit, Resting
<1>4. /\ event \in LoopEvent
      /\ event.type = editor[p].event.type /\ event.loop = editor[p].event.loop
  BY <1>1, <1>3 DEF LoopEvent
<1>5. EditorsFit'
  BY <1>2, <1>3, <1>4 DEF LoopInv, EditorsFit
<1>6. \A q \in Editors : editor'[q] = IF q = p THEN [at |-> "commit", event |-> event] ELSE editor[q]
  BY <1>2 DEF LoopInv, EditorsFit
<1>7. OthersFollow'
  BY <1>2, <1>4, <1>6 DEF LoopInv, OthersFollow, Of
<1>8. \A l \in Loops : Adding(l)' = Adding(l) /\ Used(l)' = Used(l)
  BY <1>2, <1>4, <1>6 DEF Adding, Used
<1> QED
  BY <1>2, <1>5, <1>7, <1>8 DEF LoopInv, AddersAreAlone

LEMMA CommitKeeps ==
    ASSUME LoopInv, NEW p \in Editors, CommitLoopEvent(p)
    PROVE  LoopInv'
<1>1. /\ editor' = [editor EXCEPT ![p] = Resting] /\ lastId' = lastId /\ clash' = clash
      /\ recorded' = recorded \cup {editor[p].event} /\ editor[p].at = "commit"
  BY DEF CommitLoopEvent
<1>2. \A q \in Editors : editor'[q] = IF q = p THEN Resting ELSE editor[q]
  BY <1>1 DEF LoopInv, EditorsFit
<1>3. EditorsFit'
  BY <1>1 DEF LoopInv, EditorsFit
<1>4. OthersFollow'
  BY <1>1, <1>2 DEF LoopInv, OthersFollow, Of, Resting
<1>5. ASSUME NEW l \in Loops \ clash', NEW a \in Adding(l)'
      PROVE  ~Used(l)' /\ \A q \in Adding(l)' : q = a
  <2>1. l \notin clash /\ a \in Adding(l) /\ a # p /\ Adding(l)' \subseteq Adding(l)
    BY <1>1, <1>2, <1>5 DEF Adding, Resting
  <2>2. ~Used(l) /\ \A q \in Adding(l) : q = a
    BY <2>1 DEF LoopInv, AddersAreAlone
  <2>3. editor[p].event.loop # l
    <3>1. CASE editor[p].event.type = "open_loop"
      BY <1>1, <2>1, <2>2, <3>1 DEF Adding
    <3>2. CASE editor[p].event.type # "open_loop"
      BY <1>1, <2>2, <3>2 DEF LoopInv, OthersFollow, Of, Used
    <3> QED
      BY <3>1, <3>2
  <2> QED
    BY <1>1, <2>1, <2>2, <2>3 DEF Used
<1> QED
  BY <1>3, <1>4, <1>5 DEF LoopInv, AddersAreAlone

LEMMA AbandonKeeps ==
    ASSUME LoopInv, NEW p \in Editors, AbandonLoop(p)
    PROVE  LoopInv'
<1>1. /\ editor' = [editor EXCEPT ![p] = Resting]
      /\ recorded' = recorded /\ lastId' = lastId /\ clash' = clash
  BY DEF AbandonLoop
<1>2. \A q \in Editors : editor'[q] = IF q = p THEN Resting ELSE editor[q]
  BY <1>1 DEF LoopInv, EditorsFit
<1>3. EditorsFit'
  BY <1>1 DEF LoopInv, EditorsFit
<1>4. OthersFollow'
  BY <1>1, <1>2 DEF LoopInv, OthersFollow, Of, Resting
<1>5. \A l \in Loops : Adding(l)' \subseteq Adding(l) /\ Used(l)' = Used(l)
  BY <1>1, <1>2 DEF Adding, Used, Resting
<1> QED
  BY <1>1, <1>3, <1>4, <1>5 DEF LoopInv, AddersAreAlone

LEMMA LoopStep == LoopInv /\ [LoopNext]_loopVars => LoopInv'
<1> SUFFICES ASSUME LoopInv, [LoopNext]_loopVars PROVE LoopInv'
  OBVIOUS
<1>1. CASE UNCHANGED loopVars
  BY <1>1 DEF loopVars, LoopInv, EditorsFit, OthersFollow, AddersAreAlone, Adding, Used, Of
<1>2. CASE LoopNext
  BY <1>2, FoldKeeps, AppendKeeps, CommitKeeps, AbandonKeeps DEF LoopNext
<1> QED
  BY <1>1, <1>2

\* The inductive invariant of the calls under way.
THEOREM LoopInvariance == LoopSpec => []LoopInv
  BY LoopInitially, LoopStep, PTL DEF LoopSpec

\* An add that was alone in its id finds the id unused to the end, and leaves
\* the loop open: no retired id is given out again (loop_add).
THEOREM AddsAreNew == LoopSpec => AddedLoopIsOpen
<1>1. ASSUME LoopInv, NEW p \in Editors, NEW loop \in Loops \ clash, CommitLoopEvent(p),
             editor[p].event.loop = loop, editor[p].event.type = "open_loop"
      PROVE  Status(loop) = "none" /\ Status(loop)' = "open"
  <2>1. p \in Adding(loop)
    BY <1>1 DEF CommitLoopEvent, Adding
  <2>2. ~Used(loop)
    BY <1>1, <2>1 DEF LoopInv, AddersAreAlone
  <2>3. recorded' = recorded \cup {editor[p].event}
    BY <1>1 DEF CommitLoopEvent
  <2>4. \A type : Of(loop, type) = {} /\ Of(loop, type)' = {e \in {editor[p].event} : e.type = type}
    BY <1>1, <2>2, <2>3 DEF Of, Used
  <2> QED
    BY <1>1, <2>4 DEF Status
<1>2. LoopInv /\ [LoopNext]_loopVars =>
        [\A p \in Editors, loop \in Loops \ clash :
            /\ CommitLoopEvent(p)
            /\ editor[p].event.loop = loop /\ editor[p].event.type = "open_loop"
            => Status(loop) = "none" /\ Status(loop)' = "open"]_loopVars
  BY <1>1
<1> QED
  BY <1>2, LoopInvariance, PTL DEF LoopSpec, AddedLoopIsOpen

-----------------------------------------------------------------------------
\* Every event has an id of its own that was drawn.
IdsAreDrawn ==
    /\ recorded \subseteq LoopEvent
    /\ \A e \in recorded : e.id <= lastId /\ \A d \in recorded : d.id = e.id => d = e
    /\ \A p \in Editors : editor[p].at = "commit" =>
          /\ editor[p].event.id <= lastId
          /\ \A e \in recorded : e.id # editor[p].event.id
          /\ \A q \in Editors \ {p} : editor[q].at = "commit" =>
                editor[q].event.id # editor[p].event.id

LEMMA IdsStep == LoopInv /\ IdsAreDrawn /\ [LoopNext]_loopVars => IdsAreDrawn'
<1> SUFFICES ASSUME LoopInv, IdsAreDrawn, [LoopNext]_loopVars PROVE IdsAreDrawn'
  OBVIOUS
<1>1. CASE UNCHANGED loopVars
  BY <1>1 DEF loopVars, IdsAreDrawn
<1>2. ASSUME NEW p \in Editors, NEW type \in Types, NEW loop \in Loops,
             NEW kind \in Kinds \cup {NoLoop}, Fold(p, type, loop, kind)
      PROVE  IdsAreDrawn'
  <2>1. \A q \in Editors : editor'[q].at = "commit" => q # p /\ editor'[q] = editor[q]
    BY <1>2 DEF Fold, LoopInv, EditorsFit
  <2> QED
    BY <1>2, <2>1 DEF Fold, IdsAreDrawn
<1>3. ASSUME NEW p \in Editors, AppendLoopEvent(p)
      PROVE  IdsAreDrawn'
  <2>1. /\ recorded' = recorded /\ lastId' = lastId + 1 /\ lastId \in Nat
        /\ \A e \in recorded : e.id \in Nat
    BY <1>3, LoopAssumption DEF AppendLoopEvent, LoopInv, EditorsFit, IdsAreDrawn, LoopEvent
  <2>2. editor[p].event \in LoopEvent
    BY <1>3 DEF AppendLoopEvent, LoopInv, EditorsFit, Resting
  <2>3. [editor[p].event EXCEPT !.id = lastId + 1].id = lastId + 1
    BY <2>2 DEF LoopEvent
  <2>4. \A q \in Editors : q # p => editor'[q] = editor[q]
    BY <1>3 DEF AppendLoopEvent, LoopInv, EditorsFit
  <2>5. editor'[p].event.id = lastId + 1
    BY <1>3, <2>3 DEF AppendLoopEvent, LoopInv, EditorsFit
  <2>6. \A q \in Editors : editor[q].at = "commit" => editor[q].event.id \in Nat
    BY LoopAssumption DEF LoopInv, EditorsFit, Resting, LoopEvent
  <2> QED
    BY <2>1, <2>4, <2>5, <2>6 DEF IdsAreDrawn
<1>4. ASSUME NEW p \in Editors, CommitLoopEvent(p)
      PROVE  IdsAreDrawn'
  <2>1. /\ recorded' = recorded \cup {editor[p].event} /\ lastId' = lastId
        /\ editor[p].at = "commit" /\ editor[p].event \in LoopEvent
    BY <1>4 DEF CommitLoopEvent, LoopInv, EditorsFit, Resting
  <2>2. \A q \in Editors : editor'[q].at = "commit" => q # p /\ editor'[q] = editor[q]
    BY <1>4 DEF CommitLoopEvent, LoopInv, EditorsFit, Resting
  <2> QED
    BY <2>1, <2>2 DEF IdsAreDrawn
<1>5. ASSUME NEW p \in Editors, AbandonLoop(p)
      PROVE  IdsAreDrawn'
  <2>1. \A q \in Editors : editor'[q].at = "commit" => q # p /\ editor'[q] = editor[q]
    BY <1>5 DEF AbandonLoop, LoopInv, EditorsFit, Resting
  <2> QED
    BY <1>5, <2>1 DEF AbandonLoop, IdsAreDrawn
<1> QED
  BY <1>1, <1>2, <1>3, <1>4, <1>5 DEF LoopNext

\* One of the recorded events of a set has the highest id.
LEMMA HighestId ==
    ASSUME NEW E, E \subseteq LoopEvent, E # {}
    PROVE  \E e \in E : \A d \in E : d.id <= e.id
<1> DEFINE below == {MaxEvents - e.id : e \in E}
<1>1. below \subseteq Nat /\ below # {} /\ \A e \in E : e.id \in 0..MaxEvents
  BY LoopAssumption DEF LoopEvent
<1>2. PICK x \in below : \A y \in below : ~(<<y, x>> \in OpToRel(<, Nat))
  <2> HIDE DEF below
  <2> QED
    BY <1>1, NatLessThanWellFounded, WFMin
<1>3. \A y \in below : ~(y < x)
  BY <1>1, <1>2 DEF OpToRel
<1>4. PICK e \in E : x = MaxEvents - e.id
  OBVIOUS
<1>5. \A d \in E : d.id <= e.id
  BY <1>1, <1>3, <1>4, LoopAssumption
<1> QED
  BY <1>5

\* The edits of a loop that name a kind.
Naming(loop) == {e \in Of(loop, "open_loop_edited") : e.kind # NoLoop}

\* The kind as a function of the two sets it is read from.
KindFrom(edits, openings) ==
    IF edits # {} THEN (CHOOSE e \in edits : \A d \in edits : d.id <= e.id).kind
    ELSE (CHOOSE e \in openings : \A d \in openings : e.id <= d.id).kind

LEMMA KindDependsOn ==
    ASSUME NEW loop \in Loops
    PROVE  /\ KindOf(loop) = KindFrom(Naming(loop), Of(loop, "open_loop"))
           /\ KindOf(loop)' = KindFrom(Naming(loop)', Of(loop, "open_loop")')
BY DEF KindOf, KindFrom, Naming, Opening

\* What an edit does to the kind of the loop it is about: it leaves it, or the
\* kind is the one it names.
LEMMA EditNames ==
    ASSUME LoopInv, IdsAreDrawn, NEW p \in Editors, CommitLoopEvent(p), NEW loop \in Loops,
           editor[p].event.loop = loop, editor[p].event.type = "open_loop_edited",
           KindOf(loop)' # KindOf(loop)
    PROVE  editor[p].event.kind = KindOf(loop)' /\ editor[p].event.kind # NoLoop
<1>1. PICK event \in LoopEvent : /\ event = editor[p].event /\ recorded' = recorded \cup {event}
                                 /\ \A e \in recorded : e.id # event.id
  BY DEF CommitLoopEvent, LoopInv, EditorsFit, IdsAreDrawn, Resting
<1> DEFINE edits == Naming(loop)
           Last(E) == CHOOSE e \in E : \A d \in E : d.id <= e.id
<1>2. /\ edits \subseteq LoopEvent /\ edits' \subseteq LoopEvent
      /\ \A d, e \in edits' : d.id = e.id => d = e
      /\ edits' = IF event.kind = NoLoop THEN edits ELSE edits \cup {event}
  BY <1>1 DEF IdsAreDrawn, Naming, Of
<1>3. Of(loop, "open_loop")' = Of(loop, "open_loop")
  BY <1>1 DEF Of
<1>4. event.kind # NoLoop
  BY <1>2, <1>3, KindDependsOn
<1>5. edits' # {} /\ KindOf(loop)' = Last(edits').kind
  BY <1>2, <1>4, KindDependsOn DEF KindFrom
<1>6. Last(edits') \in edits' /\ \A d \in edits' : d.id <= Last(edits').id
  BY <1>2, <1>5, HighestId
<1>7. CASE Last(edits') = event
  BY <1>1, <1>4, <1>5, <1>7
<1>8. CASE Last(edits') # event
  <2>1. Last(edits') \in edits /\ \A d \in edits : d.id <= Last(edits').id
    BY <1>2, <1>4, <1>6, <1>8
  <2>2. Last(edits) \in edits /\ \A d \in edits : d.id <= Last(edits).id
    BY <1>2, <2>1, HighestId
  <2>3. \A e \in edits : e.id \in Nat
    BY <1>2, LoopAssumption DEF LoopEvent
  <2>4. Last(edits).id = Last(edits').id
    BY <2>1, <2>2, <2>3
  <2>5. Last(edits) = Last(edits')
    BY <1>2, <1>4, <2>1, <2>2, <2>4
  <2>6. KindOf(loop) = Last(edits).kind
    BY <2>1, KindDependsOn DEF KindFrom
  <2> QED
    BY <1>5, <2>5, <2>6
<1> QED
  BY <1>7, <1>8

\* Only an edit that names a kind changes the kind of a loop that one add made.
THEOREM KindsStick == LoopSpec => KindSticks
<1>1. LoopInit => IdsAreDrawn
  BY LoopAssumption DEF LoopInit, IdsAreDrawn, Resting
<1>2. ASSUME LoopInv, IdsAreDrawn, LoopNext, NEW loop \in Loops \ clash,
             Status(loop) # "none", KindOf(loop)' # KindOf(loop)
      PROVE  \E p \in Editors : /\ CommitLoopEvent(p)
                                /\ editor[p].event.loop = loop
                                /\ editor[p].event.type = "open_loop_edited"
                                /\ editor[p].event.kind = KindOf(loop)'
                                /\ editor[p].event.kind # NoLoop
  <2> DEFINE Same == /\ Naming(loop)' = Naming(loop)
                      /\ Of(loop, "open_loop")' = Of(loop, "open_loop")
  <2>0. ~Same
    BY <1>2, KindDependsOn
  <2>1. recorded' # recorded
    BY <2>0 DEF Naming, Of
  <2>2. PICK p \in Editors : CommitLoopEvent(p)
    BY <1>2, <2>1 DEF LoopNext, Fold, AppendLoopEvent, AbandonLoop
  <2>3. recorded' = recorded \cup {editor[p].event}
    BY <2>2 DEF CommitLoopEvent
  <2>4. editor[p].event.loop = loop
    BY <2>0, <2>3 DEF Naming, Of
  <2>5. Used(loop)
    BY <1>2 DEF Status, Used, Of
  <2>6. editor[p].event.type # "open_loop"
    BY <1>2, <2>2, <2>4, <2>5 DEF LoopInv, AddersAreAlone, Adding, CommitLoopEvent
  <2>7. editor[p].event.type = "open_loop_edited"
    BY <2>0, <2>3, <2>6 DEF Naming, Of
  <2> QED
    BY <1>2, <2>2, <2>4, <2>7, EditNames
<1>3. LoopInv /\ IdsAreDrawn /\ [LoopNext]_loopVars =>
        [\A loop \in Loops \ clash :
          Status(loop) # "none" /\ KindOf(loop)' # KindOf(loop) =>
              \E p \in Editors : /\ CommitLoopEvent(p)
                                 /\ editor[p].event.loop = loop
                                 /\ editor[p].event.type = "open_loop_edited"
                                 /\ editor[p].event.kind = KindOf(loop)'
                                 /\ editor[p].event.kind # NoLoop]_loopVars
  BY <1>2
<1> QED
  BY <1>1, <1>3, IdsStep, LoopInvariance, PTL DEF LoopSpec, KindSticks
=============================================================================
