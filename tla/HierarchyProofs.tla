-------------------------- MODULE HierarchyProofs ---------------------------
(***************************************************************************)
(* What creations and moves leave of the item tree, for any number of      *)
(* items and of calls under way.                                           *)
(***************************************************************************)
EXTENDS Hierarchy, FiniteSetTheorems, TLAPS

-----------------------------------------------------------------------------
(* Walks along the parents, for any rows whose parents are rows.           *)

Whole(rows) == Closed(rows, Known(rows))

LEMMA NothingIsNoThing ==
    /\ Nothing \notin Things /\ Nothing \notin Movers
    /\ Nothing \notin [parent : Things \cup {Nothing}, depth : 0..MaxDepth]
BY TreeAssumption DEF TreeAssumption

LEMMA AboveLeast ==
    ASSUME NEW rows, NEW i, NEW S \in SUBSET Known(rows), i \in S, Closed(rows, S)
    PROVE  Above(rows, i) \subseteq S
BY DEF Above

LEMMA AboveClosed ==
    ASSUME NEW rows, Whole(rows), NEW i \in Known(rows)
    PROVE  /\ Above(rows, i) \in SUBSET Known(rows) /\ i \in Above(rows, i)
           /\ Closed(rows, Above(rows, i))
<1>1. Above(rows, i) \in SUBSET Known(rows) /\ i \in Above(rows, i)
  BY DEF Above
<1>2. ASSUME NEW j \in Above(rows, i), rows[j].parent # Nothing
      PROVE  rows[j].parent \in Above(rows, i)
  <2>1. rows[j].parent \in Known(rows)
    BY <1>1, <1>2 DEF Whole, Closed
  <2>2. ASSUME NEW S \in SUBSET Known(rows), i \in S, Closed(rows, S)
        PROVE  rows[j].parent \in S
    <3>1. j \in S
      BY <2>2, AboveLeast
    <3> QED
      BY <3>1, <2>2, <1>2 DEF Closed
  <2> QED
    BY <2>1, <2>2 DEF Above
<1> QED
  BY <1>1, <1>2 DEF Closed

LEMMA AboveTransitive ==
    ASSUME NEW rows, Whole(rows), NEW i \in Known(rows), NEW k \in Above(rows, i)
    PROVE  k \in Known(rows) /\ Above(rows, k) \subseteq Above(rows, i)
BY AboveClosed, AboveLeast

LEMMA AboveStep ==
    ASSUME NEW rows, Whole(rows), NEW i \in Known(rows)
    PROVE  /\ rows[i].parent = Nothing => Above(rows, i) = {i}
           /\ rows[i].parent # Nothing =>
                 /\ rows[i].parent \in Known(rows)
                 /\ Above(rows, i) = {i} \cup Above(rows, rows[i].parent)
<1> DEFINE p == rows[i].parent
<1>1. i \in Above(rows, i) /\ Closed(rows, Above(rows, i))
  BY AboveClosed
<1>2. CASE p = Nothing
  <2>1. {i} \in SUBSET Known(rows) /\ Closed(rows, {i})
    BY <1>2 DEF Closed
  <2>2. Above(rows, i) \subseteq {i}
    BY <2>1, AboveLeast
  <2> QED
    BY <2>2, <1>1, <1>2
<1>3. CASE p # Nothing
  <2>1. p \in Known(rows) /\ p \in Above(rows, i)
    BY <1>3, <1>1 DEF Whole, Closed
  <2>2. Above(rows, p) \subseteq Above(rows, i)
    BY <2>1, AboveTransitive
  <2>3. /\ Above(rows, p) \in SUBSET Known(rows) /\ p \in Above(rows, p)
        /\ Closed(rows, Above(rows, p))
    BY <2>1, AboveClosed
  <2>4. Closed(rows, {i} \cup Above(rows, p))
    BY <2>3 DEF Closed
  <2>5. Above(rows, i) \subseteq {i} \cup Above(rows, p)
    BY <2>3, <2>4, AboveLeast
  <2> QED
    BY <2>1, <2>2, <2>5, <1>1, <1>3
<1> QED
  BY <1>2, <1>3

\* Two items above a third are one above the other.
LEMMA AboveIsALine ==
    ASSUME NEW rows, Whole(rows), NEW j \in Known(rows),
           NEW a \in Above(rows, j), NEW b \in Above(rows, j)
    PROVE  a \in Above(rows, b) \/ b \in Above(rows, a)
<1> DEFINE S == {k \in Above(rows, j) : a \in Above(rows, k)} \cup Above(rows, a)
<1>1. /\ Above(rows, j) \in SUBSET Known(rows) /\ j \in Above(rows, j)
      /\ Closed(rows, Above(rows, j))
  BY AboveClosed
<1>2. /\ Above(rows, a) \in SUBSET Known(rows) /\ Closed(rows, Above(rows, a))
  BY <1>1, AboveClosed
<1>3. ASSUME NEW k \in S
      PROVE  rows[k].parent \in S \cup {Nothing}
  <2>1. CASE k \in Above(rows, a)
    BY <2>1, <1>2 DEF Closed
  <2>2. CASE k \notin Above(rows, a)
    <3>1. k \in Above(rows, j) /\ a \in Above(rows, k) /\ k # a
      BY <2>2, <1>1, AboveClosed
    <3>2. rows[k].parent \in Above(rows, j) \cup {Nothing}
      BY <3>1, <1>1 DEF Closed
    <3>3. rows[k].parent # Nothing => a \in Above(rows, rows[k].parent)
      BY <3>1, <1>1, AboveStep
    <3> QED
      BY <3>2, <3>3
  <2> QED
    BY <2>1, <2>2
<1>4. S \in SUBSET Known(rows) /\ j \in S
  BY <1>1, <1>2
<1>5. Above(rows, j) \subseteq S
  BY <1>3, <1>4, AboveLeast DEF Closed
<1> QED
  BY <1>5

\* Two items above each other are one, unless they are on a cycle.
LEMMA AboveIsAnOrder ==
    ASSUME NEW rows, Whole(rows), NEW i \in Known(rows), ~OnCycle(rows, i),
           NEW k \in Above(rows, i), i \in Above(rows, k)
    PROVE  k = i
<1> SUFFICES ASSUME k # i
             PROVE  FALSE
  OBVIOUS
<1>1. /\ rows[i].parent # Nothing /\ rows[i].parent \in Known(rows)
      /\ k \in Above(rows, rows[i].parent)
  BY AboveStep
<1>2. i \in Above(rows, rows[i].parent)
  BY <1>1, AboveTransitive
<1> QED
  BY <1>1, <1>2 DEF OnCycle

\* What ends is on no cycle.
LEMMA RootedIsOnNoCycle ==
    ASSUME NEW rows, Whole(rows), NEW i \in Known(rows), HasRoot(rows, i)
    PROVE  ~OnCycle(rows, i)
<1> SUFFICES ASSUME OnCycle(rows, i)
             PROVE  FALSE
  OBVIOUS
<1> DEFINE C == {j \in Above(rows, i) : i \in Above(rows, j)}
<1>1. /\ Above(rows, i) \in SUBSET Known(rows) /\ i \in Above(rows, i)
      /\ Closed(rows, Above(rows, i))
  BY AboveClosed
<1>2. ASSUME NEW j \in C
      PROVE  rows[j].parent \in C \cup {Nothing}
  <2>1. rows[j].parent \in Above(rows, i) \cup {Nothing}
    BY <1>1 DEF Closed
  <2>2. CASE j = i
    BY <2>1, <2>2 DEF OnCycle
  <2>3. CASE j # i
    BY <2>1, <2>3, <1>1, AboveStep
  <2> QED
    BY <2>2, <2>3
<1>3. C \in SUBSET Known(rows) /\ i \in C
  BY <1>1
<1>4. Above(rows, i) \subseteq C
  BY <1>2, <1>3, AboveLeast DEF Closed
<1>5. PICK r \in Above(rows, i) : rows[r].parent = Nothing
  BY DEF HasRoot
<1>6. Above(rows, r) = {r}
  BY <1>1, <1>5, AboveStep
<1> QED
  BY <1>4, <1>5, <1>6 DEF OnCycle
-----------------------------------------------------------------------------
(* Walks in rows that differ.                                              *)

LEMMA AboveAgrees ==
    ASSUME NEW rows, NEW rows2, Whole(rows), Whole(rows2), NEW i \in Known(rows),
           \A j \in Above(rows, i) :
               j \in Known(rows2) /\ rows2[j].parent = rows[j].parent
    PROVE  Above(rows2, i) = Above(rows, i)
<1> DEFINE A == Above(rows, i)
           B == Above(rows2, i)
<1>1. A \in SUBSET Known(rows) /\ i \in A /\ Closed(rows, A)
  BY AboveClosed
<1>2. B \in SUBSET Known(rows2) /\ i \in B /\ Closed(rows2, B)
  BY <1>1, AboveClosed
<1>3. A \in SUBSET Known(rows2) /\ Closed(rows2, A)
  BY <1>1 DEF Closed
<1>4. B \subseteq A
  BY <1>1, <1>3, AboveLeast
<1>5. A \cap B \in SUBSET Known(rows) /\ Closed(rows, A \cap B)
  BY <1>1, <1>2 DEF Closed
<1>6. A \subseteq A \cap B
  BY <1>1, <1>2, <1>5, AboveLeast
<1> QED
  BY <1>4, <1>6

\* The depths stored play no part.
SameParents(rows, rows2) ==
    /\ Whole(rows) /\ Whole(rows2) /\ Known(rows2) = Known(rows)
    /\ \A i \in Known(rows) : rows2[i].parent = rows[i].parent

LEMMA SameWalks ==
    ASSUME NEW rows, NEW rows2, SameParents(rows, rows2), NEW i \in Known(rows)
    PROVE  /\ Above(rows2, i) = Above(rows, i) /\ DepthOf(rows2, i) = DepthOf(rows, i)
           /\ HasRoot(rows2, i) <=> HasRoot(rows, i)
           /\ OnCycle(rows2, i) <=> OnCycle(rows, i)
           /\ Subtree(rows2, i) = Subtree(rows, i)
<1>1. \A j \in Known(rows) : Above(rows2, j) = Above(rows, j)
  <2> SUFFICES ASSUME NEW j \in Known(rows)
               PROVE  Above(rows2, j) = Above(rows, j)
    OBVIOUS
  <2>1. Above(rows, j) \in SUBSET Known(rows)
    BY AboveClosed DEF SameParents
  <2> QED
    BY <2>1, AboveAgrees DEF SameParents
<1>2. Above(rows, i) \in SUBSET Known(rows)
  BY AboveClosed DEF SameParents
<1>3. rows[i].parent # Nothing => rows[i].parent \in Known(rows)
  BY DEF SameParents, Whole, Closed
<1>4. HasRoot(rows2, i) <=> HasRoot(rows, i)
  BY <1>1, <1>2 DEF HasRoot, SameParents
<1>5. OnCycle(rows2, i) <=> OnCycle(rows, i)
  BY <1>1, <1>3 DEF OnCycle, SameParents
<1> QED
  BY <1>1, <1>4, <1>5 DEF DepthOf, Subtree, SameParents

\* i is new, and nothing is under it yet.
LeafAdded(rows, rows2, i) ==
    /\ Whole(rows) /\ i \in Things \ Known(rows) /\ Known(rows2) = Known(rows) \cup {i}
    /\ rows2[i].parent \in Known(rows) \cup {Nothing}
    /\ \A j \in Known(rows) : rows2[j] = rows[j]

LEMMA LeafChangesNoWalk ==
    ASSUME NEW rows, NEW rows2, NEW i, LeafAdded(rows, rows2, i)
    PROVE  /\ Whole(rows2)
           /\ \A j \in Known(rows) :
                 /\ Above(rows2, j) = Above(rows, j) /\ DepthOf(rows2, j) = DepthOf(rows, j)
                 /\ HasRoot(rows2, j) <=> HasRoot(rows, j)
<1>1. Whole(rows2)
  BY DEF LeafAdded, Whole, Closed
<1>2. ASSUME NEW j \in Known(rows)
      PROVE  /\ Above(rows, j) \in SUBSET Known(rows)
             /\ Above(rows2, j) = Above(rows, j)
  <2>1. Above(rows, j) \in SUBSET Known(rows)
    BY AboveClosed DEF LeafAdded
  <2> QED
    BY <2>1, <1>1, AboveAgrees DEF LeafAdded
<1> QED
  BY <1>1, <1>2 DEF DepthOf, HasRoot, LeafAdded

\* Only i got another parent, one that is not under it.
Moved(rows, rows2, i) ==
    /\ Whole(rows) /\ Whole(rows2) /\ Known(rows2) = Known(rows) /\ i \in Known(rows)
    /\ \A j \in Known(rows) \ {i} : rows2[j].parent = rows[j].parent
    /\ rows2[i].parent # Nothing => NotBelow(rows, i, rows2[i].parent)

\* What was not under i keeps its way up, and so does the way up from i's new
\* parent.
LEMMA MovedLeavesTheRest ==
    ASSUME NEW rows, NEW rows2, NEW i, Moved(rows, rows2, i),
           NEW j \in Known(rows), i \notin Above(rows, j)
    PROVE  Above(rows2, j) = Above(rows, j) /\ DepthOf(rows2, j) = DepthOf(rows, j)
<1>1. Above(rows, j) \in SUBSET Known(rows)
  BY AboveClosed DEF Moved
<1>2. \A k \in Above(rows, j) : k \in Known(rows2) /\ rows2[k].parent = rows[k].parent
  BY <1>1 DEF Moved
<1>3. Above(rows2, j) = Above(rows, j)
  BY <1>2, AboveAgrees DEF Moved
<1> QED
  BY <1>3 DEF DepthOf

LEMMA MovedItself ==
    ASSUME NEW rows, NEW rows2, NEW i, Moved(rows, rows2, i)
    PROVE  LET onto == rows2[i].parent
           IN  /\ onto = Nothing => Above(rows2, i) = {i}
               /\ onto # Nothing =>
                     /\ onto \in Known(rows) /\ i \notin Above(rows, onto)
                     /\ Above(rows2, i) = {i} \cup Above(rows, onto)
<1> DEFINE onto == rows2[i].parent
<1>1. onto = Nothing => Above(rows2, i) = {i}
  BY AboveStep DEF Moved
<1>2. CASE onto # Nothing
  <2>1. onto \in Known(rows) /\ Above(rows2, i) = {i} \cup Above(rows2, onto)
    BY <1>2, AboveStep DEF Moved
  <2>2. i \notin Above(rows, onto)
    BY <2>1, <1>2 DEF Moved, NotBelow, Subtree
  <2> QED
    BY <2>1, <2>2, <1>2, MovedLeavesTheRest
<1> QED
  BY <1>1, <1>2

\* What was under i gets i's new way up in the place of the old one.
LEMMA MovedAlong ==
    ASSUME NEW rows, NEW rows2, NEW i, Moved(rows, rows2, i), ~OnCycle(rows, i),
           NEW j \in Subtree(rows, i)
    PROVE  /\ Above(rows2, j) = (Above(rows, j) \ Above(rows, i)) \cup Above(rows2, i)
           /\ (Above(rows, j) \ Above(rows, i)) \cap Above(rows2, i) = {}
<1> DEFINE A == Above(rows, j)
           D == Above(rows, j) \ Above(rows, i)
           N == Above(rows2, i)
           B == Above(rows2, j)
<1>1. j \in Known(rows) /\ i \in Known(rows) /\ i \in A /\ Whole(rows) /\ Whole(rows2)
  BY DEF Subtree, Moved
<1>2. A \in SUBSET Known(rows) /\ j \in A /\ Closed(rows, A)
  BY <1>1, AboveClosed
<1>3. /\ Above(rows, i) \in SUBSET Known(rows) /\ i \in Above(rows, i)
      /\ Closed(rows, Above(rows, i))
  BY <1>1, AboveClosed
<1>4. N \in SUBSET Known(rows) /\ i \in N /\ Closed(rows2, N)
  BY <1>1, AboveClosed DEF Moved
<1>5. B \in SUBSET Known(rows) /\ j \in B /\ Closed(rows2, B)
  BY <1>1, AboveClosed DEF Moved
<1>6. ASSUME NEW k \in D
      PROVE  /\ k # i /\ i \in Above(rows, k) /\ rows2[k].parent = rows[k].parent
             /\ rows[k].parent \in Known(rows) /\ rows[k].parent # Nothing
             /\ i \in Above(rows, rows[k].parent)
  <2>1. k # i /\ i \in Above(rows, k) /\ k \in Known(rows)
    BY <1>1, <1>2, <1>3, AboveIsALine
  <2> QED
    BY <2>1, <1>1, AboveStep DEF Moved
<1>7. B \subseteq D \cup N
  <2>1. j \in D \cup N
    <3>1. CASE j \in Above(rows, i)
      BY <3>1, <1>1, <1>4, AboveIsAnOrder
    <3> QED
      BY <3>1, <1>2
  <2>2. ASSUME NEW k \in D
        PROVE  rows2[k].parent \in D \cup N
    <3>1. rows[k].parent \in A
      BY <1>6, <1>2 DEF Closed
    <3>2. CASE rows[k].parent \in Above(rows, i)
      BY <3>2, <1>1, <1>4, <1>6, AboveIsAnOrder
    <3> QED
      BY <3>1, <3>2, <1>6
  <2>3. D \cup N \in SUBSET Known(rows2) /\ Closed(rows2, D \cup N)
    BY <2>2, <1>2, <1>4 DEF Closed, Moved
  <2> QED
    BY <2>1, <2>3, AboveLeast
<1>8. D \subseteq B
  <2>1. ASSUME NEW k \in B \cup Above(rows, i)
        PROVE  rows[k].parent \in B \cup Above(rows, i) \cup {Nothing}
    BY <1>3, <1>5 DEF Closed, Moved
  <2>2. B \cup Above(rows, i) \in SUBSET Known(rows) /\ Closed(rows, B \cup Above(rows, i))
    BY <2>1, <1>3, <1>5 DEF Closed
  <2>3. A \subseteq B \cup Above(rows, i)
    BY <2>2, <1>5, AboveLeast
  <2> QED
    BY <2>3
<1>9. i \in B
  <2> SUFFICES ASSUME i \notin B
               PROVE  FALSE
    OBVIOUS
  <2>1. Closed(rows, B)
    BY <1>5 DEF Closed, Moved
  <2>2. A \subseteq B
    BY <2>1, <1>5, AboveLeast
  <2> QED
    BY <2>2, <1>1
<1>10. N \subseteq B
  BY <1>1, <1>5, <1>9, AboveTransitive DEF Moved
<1>11. D \cap N = {}
  <2> SUFFICES ASSUME NEW k \in D, k \in N
               PROVE  FALSE
    OBVIOUS
  <2>1. k # i /\ i \in Above(rows, k)
    BY <1>6
  <2>2. rows2[i].parent # Nothing /\ rows2[i].parent \in Known(rows)
        /\ k \in Above(rows, rows2[i].parent) /\ i \notin Above(rows, rows2[i].parent)
    BY <2>1, MovedItself
  <2> QED
    BY <2>1, <2>2, <1>1, AboveTransitive
<1> QED
  BY <1>7, <1>8, <1>10, <1>11

\* A forest stays one.
LEMMA MovedKeepsRoots ==
    ASSUME NEW rows, NEW rows2, NEW i, Moved(rows, rows2, i),
           \A j \in Known(rows) : HasRoot(rows, j)
    PROVE  \A j \in Known(rows2) : HasRoot(rows2, j)
<1>1. ASSUME NEW j \in Known(rows), i \notin Above(rows, j)
      PROVE  HasRoot(rows2, j)
  <2>1. Above(rows2, j) = Above(rows, j) /\ Above(rows, j) \in SUBSET Known(rows)
    BY <1>1, MovedLeavesTheRest, AboveClosed DEF Moved
  <2> QED
    BY <2>1, <1>1 DEF HasRoot, Moved
<1>2. HasRoot(rows2, i)
  <2>1. i \in Above(rows2, i)
    BY AboveClosed DEF Moved
  <2>2. CASE rows2[i].parent = Nothing
    BY <2>1, <2>2 DEF HasRoot
  <2>3. CASE rows2[i].parent # Nothing
    <3>1. /\ rows2[i].parent \in Known(rows) /\ i \notin Above(rows, rows2[i].parent)
          /\ Above(rows2, i) = {i} \cup Above(rows, rows2[i].parent)
      BY <2>3, MovedItself
    <3>2. Above(rows, rows2[i].parent) = Above(rows2, rows2[i].parent)
      BY <3>1, MovedLeavesTheRest
    <3> QED
      BY <3>1, <3>2, <1>1 DEF HasRoot
  <2> QED
    BY <2>2, <2>3
<1>3. ASSUME NEW j \in Known(rows), i \in Above(rows, j)
      PROVE  HasRoot(rows2, j)
  <2>1. ~OnCycle(rows, i)
    BY RootedIsOnNoCycle DEF Moved
  <2>2. Above(rows2, i) \subseteq Above(rows2, j)
    BY <1>3, <2>1, MovedAlong DEF Subtree
  <2> QED
    BY <2>2, <1>2 DEF HasRoot
<1> QED
  BY <1>1, <1>3 DEF Moved

-----------------------------------------------------------------------------
(* Depths.                                                                 *)

LEMMA AboveIsFinite ==
    ASSUME NEW rows, NEW i
    PROVE  /\ IsFiniteSet(Above(rows, i)) /\ IsFiniteSet(Above(rows, i) \ {i})
           /\ DepthOf(rows, i) \in Nat
           /\ \A k : Distance(rows, i, k) \in Nat
<1>1. \A k : IsFiniteSet(Above(rows, k))
  BY TreeAssumption, FS_Subset DEF TreeAssumption, Above, Known
<1>2. /\ IsFiniteSet(Above(rows, i) \ {i})
      /\ \A k : IsFiniteSet(Above(rows, k) \ Above(rows, i))
  BY <1>1, FS_Difference
<1> QED
  BY <1>1, <1>2, FS_CardinalityType DEF DepthOf, Distance

\* The depth an item has under onto.
DepthUnder(rows, onto) == IF onto = Nothing THEN 0 ELSE DepthOf(rows, onto) + 1

LEMMA UnderIsDeeper ==
    ASSUME NEW rows, NEW onto, Whole(rows), onto = Nothing \/ onto \in Known(rows)
    PROVE  /\ DepthUnder(rows, onto) \in Nat
           /\ onto # Nothing => DepthUnder(rows, onto) = Cardinality(Above(rows, onto))
<1>1. CASE onto = Nothing
  BY <1>1 DEF DepthUnder
<1>2. CASE onto # Nothing
  <2>1. onto \in Above(rows, onto)
    BY <1>2, AboveClosed
  <2>2. Cardinality(Above(rows, onto) \ {onto}) = Cardinality(Above(rows, onto)) - 1
    BY <2>1, AboveIsFinite, FS_RemoveElement
  <2>3. Cardinality(Above(rows, onto)) \in Nat /\ DepthOf(rows, onto) \in Nat
    BY AboveIsFinite, FS_CardinalityType
  <2> QED
    BY <2>2, <2>3, <1>2 DEF DepthUnder, DepthOf
<1> QED
  BY <1>1, <1>2

LEMMA LeafDepth ==
    ASSUME NEW rows, NEW rows2, NEW i, LeafAdded(rows, rows2, i)
    PROVE  DepthOf(rows2, i) = DepthUnder(rows, rows2[i].parent)
<1>1. Whole(rows2) /\ i \in Known(rows2)
  BY LeafChangesNoWalk DEF LeafAdded
<1>2. CASE rows2[i].parent = Nothing
  BY <1>1, <1>2, AboveStep, FS_EmptySet DEF DepthOf, DepthUnder
<1>3. CASE rows2[i].parent # Nothing
  <2>1. rows2[i].parent \in Known(rows)
    BY <1>3 DEF LeafAdded
  <2>2. /\ Above(rows2, rows2[i].parent) = Above(rows, rows2[i].parent)
        /\ Above(rows, rows2[i].parent) \in SUBSET Known(rows)
    BY <2>1, LeafChangesNoWalk, AboveClosed DEF LeafAdded
  <2>3. Above(rows2, i) \ {i} = Above(rows, rows2[i].parent)
    BY <2>2, <1>1, <1>3, AboveStep DEF LeafAdded
  <2> QED
    BY <2>1, <2>3, <1>3, UnderIsDeeper DEF DepthOf, LeafAdded
<1> QED
  BY <1>2, <1>3

LEMMA MovedDepth ==
    ASSUME NEW rows, NEW rows2, NEW i, Moved(rows, rows2, i)
    PROVE  DepthOf(rows2, i) = DepthUnder(rows, rows2[i].parent)
<1>1. CASE rows2[i].parent = Nothing
  BY <1>1, MovedItself, FS_EmptySet DEF DepthOf, DepthUnder
<1>2. CASE rows2[i].parent # Nothing
  <2>1. /\ rows2[i].parent \in Known(rows)
        /\ Above(rows2, i) \ {i} = Above(rows, rows2[i].parent)
    BY <1>2, MovedItself
  <2> QED
    BY <2>1, <1>2, UnderIsDeeper DEF DepthOf, Moved
<1> QED
  BY <1>1, <1>2

\* What applyMove writes below the moved item is the true depth there.
LEMMA MovedDepths ==
    ASSUME NEW rows, NEW rows2, NEW i, Moved(rows, rows2, i), ~OnCycle(rows, i),
           NEW j \in Subtree(rows, i)
    PROVE  /\ DepthOf(rows2, j) = DepthUnder(rows, rows2[i].parent) + Distance(rows, i, j)
           /\ Distance(rows, i, j) \in Nat
           /\ Distance(rows, i, j) = 0 => j = i
<1> DEFINE D == Above(rows, j) \ Above(rows, i)
           N == Above(rows2, i)
<1>1. /\ j \in Known(rows) /\ i \in Known(rows) /\ i \in Above(rows, j)
      /\ Whole(rows) /\ Whole(rows2) /\ Known(rows2) = Known(rows)
  BY DEF Subtree, Moved
<1>2. Above(rows2, j) = D \cup N /\ D \cap N = {}
  BY MovedAlong
<1>3. IsFiniteSet(D) /\ IsFiniteSet(N) /\ IsFiniteSet(D \cup N)
  BY AboveIsFinite, FS_Difference, FS_Union
<1>4. Cardinality(D) \in Nat /\ Cardinality(N) \in Nat
  BY <1>3, FS_CardinalityType
<1>5. Cardinality(D \cup N) = Cardinality(D) + Cardinality(N)
  <2>1. Cardinality(D \cup N) = Cardinality(D) + Cardinality(N) - Cardinality(D \cap N)
    BY <1>3, FS_Union
  <2>2. Cardinality(D \cap N) = 0
    BY <1>2, FS_EmptySet
  <2> QED
    BY <2>1, <2>2, <1>4
<1>6. /\ DepthOf(rows2, j) = Cardinality(D \cup N) - 1
      /\ DepthOf(rows2, i) = Cardinality(N) - 1
  <2>1. j \in D \cup N /\ i \in N
    BY <1>1, <1>2, AboveClosed
  <2>2. /\ Cardinality((D \cup N) \ {j}) = Cardinality(D \cup N) - 1
        /\ Cardinality(N \ {i}) = Cardinality(N) - 1
    <3> HIDE DEF D, N
    <3> QED
      BY <2>1, <1>3, FS_RemoveElement
  <2> QED
    BY <2>2, <1>2 DEF DepthOf
<1>7. DepthOf(rows2, j) = DepthOf(rows2, i) + Distance(rows, i, j)
  BY <1>4, <1>5, <1>6 DEF Distance
<1>8. Distance(rows, i, j) = 0 => j = i
  <2> SUFFICES ASSUME Cardinality(D) = 0
               PROVE  j = i
    BY DEF Distance
  <2>1. j \in Above(rows, i)
    BY <1>1, <1>3, AboveClosed, FS_EmptySet
  <2> QED
    BY <2>1, <1>1, AboveIsAnOrder
<1> QED
  BY <1>4, <1>7, <1>8, MovedDepth DEF Distance
-----------------------------------------------------------------------------
(* What each call knows while it is under way.                             *)

TreeRow == [parent : Things \cup {Nothing}, depth : 0..MaxDepth]
ReadRow == [item : Things, depth : Nat, far : Nat]
Call == [kind : MoveKinds \cup {"create", Nothing}, item : Things \cup {Nothing},
         onto : Things \cup {Nothing}, depth : Nat, todo : SUBSET Things,
         below : SUBSET ReadRow]
MoveSteps == {"depth", "update", "below", "next"}

Moving(c) == step[c] \in MoveSteps

\* The item that is to move is chosen, and its new parent has been judged.
Placing(s, m) == s = "update" \/ (s = "depth" /\ m.kind # "repair")

\* A call m at the step s is about rows that are known, and what it is about
\* to write fits.
CallFits(known, s, m) ==
    /\ s = "insert" => m.kind = "create" /\ m.depth <= MaxDepth
    /\ s \in MoveSteps => m.kind \in MoveKinds /\ m.todo \subseteq known
    /\ s # "idle" => m.onto \in known \cup {Nothing}
    /\ s \in {"depth", "next"} => m.onto \in known
    /\ Placing(s, m) \/ s = "below" =>
          m.item \in known /\ \A b \in m.below : b.item \in known
    /\ Placing(s, m) /\ s = "depth" => \E b \in m.below : b.far = 0
    /\ s \in {"update", "below"} => m.depth <= MaxDepth /\ Fits(m.below, m.depth)
    /\ m.todo # {} => m.onto # Nothing

CallsFit ==
    /\ step \in [Movers -> {"idle", "insert"} \cup MoveSteps]
    /\ move \in [Movers -> Call]
    /\ \A c \in Movers : CallFits(Known(tree), step[c], move[c])

\* Only a move that writes has rows locked, and it leaves rows there.
LocksAreOfMoves ==
    \A i \in Things : treeLock[i] # Nothing =>
        /\ step[treeLock[i]] \in {"update", "below"}
        /\ i \in Known(tree)
        /\ treePend[i] # Nothing /\ treePend[i].parent \in Known(tree) \cup {Nothing}

TreeInv == TreeTypeOK /\ CallsFit /\ LocksAreOfMoves

\* The history tells who has company.
CompanyIsKept ==
    /\ {"move"} \notin overlap =>
          \A c, d \in Movers : Moving(c) /\ Moving(d) => c = d
    /\ \A c \in Active : company[c] = {} => Active = {c}
    /\ overlap = {} => \A c \in Active : company[c] = {}

Rooted(rows) == \A i \in Known(rows) : HasRoot(rows, i)

\* The call sees a forest, and what it judged to be no descendant of the item
\* is none.
SeesForest(s, m, rows) ==
    /\ Rooted(rows)
    /\ Placing(s, m) /\ m.onto # Nothing => NotBelow(rows, m.item, m.onto)

\* So does a move that no other move overlapped.
ForestIsSeen ==
    {"move"} \notin overlap =>
        /\ Acyclic
        /\ \A c \in Movers : Moving(c) => SeesForest(step[c], move[c], SeenBy(c))

\* All of S have the true depth or are still to be written, and what is to be
\* written is true.
Mended(rows, S, m) ==
    /\ \A j \in S : rows[j].depth = DepthOf(rows, j) \/ \E b \in m.below : b.item = j
    /\ \A b \in m.below : m.depth + b.far = DepthOf(rows, b.item)

\* What the call has read is still so.
ReadsHold(s, m, rows) ==
    /\ Placing(s, m) =>
          /\ ~OnCycle(rows, m.item)
          /\ m.onto # Nothing => NotBelow(rows, m.item, m.onto)
    /\ Placing(s, m) /\ s = "depth" => m.below = ReadBelow(rows, m.item)
    /\ s \in {"next", "update", "below"} => m.depth = DepthUnder(rows, m.onto)
    /\ s = "update" => m.below = Stale(ReadBelow(rows, m.item), m.depth)
    /\ s = "below" => Mended(rows, Subtree(rows, m.item), m)

AloneReadsHold ==
    \A c \in Movers : Moving(c) /\ company[c] = {} =>
        ReadsHold(step[c], move[c], SeenBy(c))

Exact(rows) == \A i \in Known(rows) : rows[i].depth = DepthOf(rows, i)

\* The depths the call sees are the true ones, but for those it has yet to
\* write.
SeesExact(s, m, rows) ==
    /\ s = "insert" => m.depth = DepthUnder(rows, m.onto)
    /\ s \in {"depth", "next", "update"} => Exact(rows)
    /\ s = "below" => Mended(rows, Known(rows), m)

DepthsAreExact ==
    overlap = {} =>
        Exact(tree) /\ \A c \in Movers : SeesExact(step[c], move[c], SeenBy(c))

ForestInv ==
    TreeInv /\ CompanyIsKept /\ ForestIsSeen /\ AloneReadsHold /\ DepthsAreExact
-----------------------------------------------------------------------------
(* Types.                                                                  *)

LEMMA RowsSeen ==
    ASSUME TreeInv, NEW c \in Movers
    PROVE  /\ Whole(tree) /\ tree \in [Things -> TreeRow \cup {Nothing}]
           /\ SeenBy(c) \in [Things -> TreeRow \cup {Nothing}]
           /\ Known(SeenBy(c)) = Known(tree) /\ Whole(SeenBy(c))
           /\ step[c] \notin {"update", "below"} => SeenBy(c) = tree
<1>1. Whole(tree) /\ tree \in [Things -> TreeRow \cup {Nothing}]
  BY DEF TreeInv, TreeTypeOK, TreeRow, Whole, Closed
<1>2. SeenBy(c) \in [Things -> TreeRow \cup {Nothing}]
  BY DEF TreeInv, TreeTypeOK, TreeRow, SeenBy
<1>3. ASSUME NEW i \in Things
      PROVE  /\ SeenBy(c)[i] # Nothing <=> tree[i] # Nothing
             /\ i \in Known(tree) => SeenBy(c)[i].parent \in Known(tree) \cup {Nothing}
  <2>1. SeenBy(c)[i] = IF treeLock[i] = c THEN treePend[i] ELSE tree[i]
    BY DEF SeenBy
  <2>2. treeLock[i] = c => treePend[i] # Nothing /\ i \in Known(tree)
                           /\ treePend[i].parent \in Known(tree) \cup {Nothing}
    BY NothingIsNoThing DEF TreeInv, LocksAreOfMoves
  <2> QED
    BY <2>1, <2>2, <1>1 DEF Known, Whole, Closed
<1>4. Known(SeenBy(c)) = Known(tree)
  BY <1>3 DEF Known
<1>5. Whole(SeenBy(c))
  BY <1>3, <1>4 DEF Whole, Closed, Known
<1>6. ASSUME step[c] \notin {"update", "below"}
      PROVE  SeenBy(c) = tree
  <2>1. \A i \in Things : treeLock[i] # c
    BY <1>6, NothingIsNoThing DEF TreeInv, LocksAreOfMoves
  <2>2. SeenBy(c) = [i \in Things |-> tree[i]]
    BY <2>1 DEF SeenBy
  <2> QED
    BY <2>2, <1>1
<1> QED
  BY <1>1, <1>2, <1>4, <1>5, <1>6

LEMMA ReadIsTyped ==
    ASSUME NEW rows \in [Things -> TreeRow \cup {Nothing}], Whole(rows),
           NEW i \in Known(rows)
    PROVE  /\ ReadBelow(rows, i) \in SUBSET ReadRow
           /\ \A b \in ReadBelow(rows, i) : b.item \in Known(rows)
           /\ \E b \in ReadBelow(rows, i) : b.far = 0
<1>1. /\ Subtree(rows, i) \subseteq Known(rows)
      /\ i \in Subtree(rows, i) /\ Known(rows) \subseteq Things
  BY AboveClosed DEF Subtree, Known
<1>2. ASSUME NEW b \in ReadBelow(rows, i)
      PROVE  b \in ReadRow /\ b.item \in Known(rows)
  <2>1. PICK j \in Subtree(rows, i) :
           b = [item |-> j, depth |-> rows[j].depth, far |-> Distance(rows, i, j)]
    BY DEF ReadBelow
  <2>2. rows[j] \in TreeRow /\ j \in Known(rows)
    BY <1>1 DEF Known
  <2>3. rows[j].depth \in Nat
    BY <2>2, TreeAssumption DEF TreeRow, TreeAssumption
  <2>4. Distance(rows, i, j) \in Nat
    BY AboveIsFinite
  <2> QED
    BY <2>1, <2>2, <2>3, <2>4, <1>1 DEF ReadRow
<1>3. PICK b \in ReadBelow(rows, i) : b.far = 0
  <2>1. Distance(rows, i, i) = 0
    <3>1. Above(rows, i) \ Above(rows, i) = {}
      OBVIOUS
    <3> QED
      BY <3>1, FS_EmptySet DEF Distance
  <2>2. [item |-> i, depth |-> rows[i].depth, far |-> Distance(rows, i, i)]
           \in ReadBelow(rows, i)
    BY <1>1 DEF ReadBelow
  <2> QED
    BY <2>1, <2>2
<1> QED
  BY <1>2, <1>3

\* The item itself is among what is read, so it fits as well.
LEMMA FitsWhole ==
    ASSUME NEW read \in SUBSET ReadRow, NEW depth \in Nat, Fits(read, depth),
           \E b \in read : b.far = 0
    PROVE  /\ depth <= MaxDepth
           /\ Stale(read, depth) \in SUBSET read /\ Fits(Stale(read, depth), depth)
BY TreeAssumption DEF Fits, Stale, ReadRow, TreeAssumption

\* A call that reads.
LEMMA ReadingKeepsTypes ==
    ASSUME TreeInv, NEW c \in Movers, NEW s \in {"idle", "insert"} \cup MoveSteps,
           NEW m \in Call, CallFits(Known(tree), s, m),
           step[c] \notin {"update", "below"} \/ s \in {"update", "below"},
           step' = [step EXCEPT ![c] = s], move' = [move EXCEPT ![c] = m],
           UNCHANGED <<tree, treeLock, treePend>>
    PROVE  TreeInv'
<1>1. TreeTypeOK'
  BY DEF TreeInv, TreeTypeOK, Known
<1>2. CallsFit'
  BY DEF TreeInv, CallsFit, Known
<1>3. LocksAreOfMoves'
  BY NothingIsNoThing DEF TreeInv, LocksAreOfMoves, CallsFit, TreeTypeOK, Known
<1> QED
  BY <1>1, <1>2, <1>3 DEF TreeInv

\* A move that writes a row.
LEMMA WritingKeepsTypes ==
    ASSUME TreeInv, NEW c \in Movers, step[c] \in {"update", "below"},
           NEW m \in Call, CallFits(Known(tree), "below", m),
           NEW i \in Known(tree), NEW r \in TreeRow,
           r.parent \in Known(tree) \cup {Nothing},
           step' = [step EXCEPT ![c] = "below"], move' = [move EXCEPT ![c] = m],
           treeLock' = [treeLock EXCEPT ![i] = c],
           treePend' = [treePend EXCEPT ![i] = r], UNCHANGED tree
    PROVE  TreeInv'
<1>1. i \in Things /\ r # Nothing
  BY NothingIsNoThing DEF Known, TreeRow
<1>2. TreeTypeOK'
  BY <1>1 DEF TreeInv, TreeTypeOK, TreeRow, Known
<1>3. CallsFit'
  BY DEF TreeInv, CallsFit, Known, MoveSteps
<1>4. LocksAreOfMoves'
  BY <1>1, NothingIsNoThing DEF TreeInv, LocksAreOfMoves, CallsFit, TreeTypeOK, Known
<1> QED
  BY <1>2, <1>3, <1>4 DEF TreeInv

LEMMA NoMoveFits == NoMove \in Call /\ \A known : CallFits(known, "idle", NoMove)
BY DEF NoMove, Call, CallFits, Placing, MoveSteps

LEMMA EndingKeepsTypes ==
    ASSUME TreeInv, NEW c \in Movers, EndCall(c),
           tree' \in [Things -> TreeRow \cup {Nothing}], Whole(tree'),
           Known(tree) \subseteq Known(tree')
    PROVE  TreeInv'
<1>1. /\ step' = [step EXCEPT ![c] = "idle"] /\ move' = [move EXCEPT ![c] = NoMove]
      /\ treeLock' = [i \in Things |-> IF treeLock[i] = c THEN Nothing ELSE treeLock[i]]
      /\ treePend' = [i \in Things |-> IF treeLock[i] = c THEN Nothing ELSE treePend[i]]
  BY DEF EndCall, Proceed
<1>2. TreeTypeOK'
  BY <1>1 DEF TreeInv, TreeTypeOK, TreeRow, Whole, Closed
<1>3. CallsFit'
  <2>1. ASSUME NEW d \in Movers
        PROVE  CallFits(Known(tree'), step'[d], move'[d])
    <3>1. CASE d = c
      BY <3>1, <1>1, NoMoveFits DEF TreeInv, CallsFit
    <3>2. CASE d # c
      <4>1. step'[d] = step[d] /\ move'[d] = move[d]
        BY <3>2, <1>1 DEF TreeInv, CallsFit
      <4>2. CallFits(Known(tree), step[d], move[d])
        BY DEF TreeInv, CallsFit
      <4> QED
        BY <4>1, <4>2 DEF CallFits
    <3> QED
      BY <3>1, <3>2
  <2> QED
    BY <2>1, <1>1, NoMoveFits DEF TreeInv, CallsFit
<1>4. LocksAreOfMoves'
  BY <1>1 DEF TreeInv, LocksAreOfMoves, CallsFit, TreeTypeOK
<1> QED
  BY <1>2, <1>3, <1>4 DEF TreeInv
-----------------------------------------------------------------------------
(* A step of one call among the others.                                    *)

LEMMA BeginningKeeps ==
    ASSUME ForestInv, NEW c \in Movers, NEW s \in {"insert", "depth", "update"},
           NEW m \in Call, MayBegin(c), BeginMove(c, s, m), CallFits(Known(tree), s, m),
           s = "insert" => m.depth = DepthUnder(tree, m.onto),
           s # "insert" => ReadsHold(s, m, tree)
    PROVE  ForestInv'
<1>1. /\ step[c] = "idle" /\ TreeInv
      /\ step' = [step EXCEPT ![c] = s] /\ move' = [move EXCEPT ![c] = m]
      /\ UNCHANGED <<tree, treeLock, treePend>>
  BY DEF MayBegin, BeginMove, ForestInv
<1>2. /\ step'[c] = s /\ move'[c] = m
      /\ \A d \in Movers \ {c} : step'[d] = step[d] /\ move'[d] = move[d]
  BY <1>1 DEF TreeInv, CallsFit
<1>3. TreeInv'
  BY <1>1, ReadingKeepsTypes DEF MoveSteps
<1>4. c \notin Active /\ Active' = Active \cup {c}
  BY <1>1, <1>2 DEF Active
<1>5. /\ company'[c] = {Family(move[v].kind) : v \in Active}
      /\ \A u \in Active : company'[u] = company[u] \cup {Family(m.kind)}
      /\ overlap' = overlap \cup {{Family(m.kind), Family(move[v].kind)} : v \in Active}
  BY <1>4 DEF BeginMove, Active
<1>6. \A d \in Movers : SeenBy(d)' = SeenBy(d)
  BY <1>1 DEF SeenBy
<1>7. SeenBy(c) = tree
  BY <1>1, RowsSeen
<1>8. overlap \subseteq overlap' /\ (overlap' = {} => Active = {})
  <2>1. \A v \in Active : {Family(m.kind), Family(move[v].kind)} \in overlap'
    BY <1>5
  <2> QED
    BY <2>1, <1>5
<1>9. CompanyIsKept'
  <2>1. ASSUME {"move"} \notin overlap', NEW d \in Movers, NEW e \in Movers,
               Moving(d)', Moving(e)'
        PROVE  d = e
    <3>1. CASE d # c /\ e # c
      BY <3>1, <2>1, <1>2, <1>8 DEF ForestInv, CompanyIsKept, Moving
    <3>2. ASSUME NEW u \in Movers, u # c, Moving(u)', Moving(c)'
          PROVE  FALSE
      <4>1. Moving(u) /\ s \in MoveSteps
        BY <3>2, <1>2 DEF Moving
      <4>2. u \in Active /\ Family(move[u].kind) = "move" /\ Family(m.kind) = "move"
        BY <4>1 DEF ForestInv, TreeInv, CallsFit, CallFits, Moving, MoveSteps, Active, Family
      <4> QED
        BY <4>2, <1>5, <2>1
    <3> QED
      BY <3>1, <3>2, <2>1
  <2>2. ASSUME NEW u \in Active', company'[u] = {}
        PROVE  Active' = {u}
    BY <2>2, <1>4, <1>5
  <2>3. ASSUME overlap' = {}, NEW u \in Active'
        PROVE  company'[u] = {}
    BY <2>3, <1>4, <1>5, <1>8
  <2> QED
    BY <2>1, <2>2, <2>3 DEF CompanyIsKept
<1>10. ForestIsSeen'
  <2> SUFFICES ASSUME {"move"} \notin overlap'
               PROVE  /\ Acyclic'
                      /\ \A d \in Movers :
                            Moving(d)' => SeesForest(step'[d], move'[d], SeenBy(d)')
    BY DEF ForestIsSeen
  <2>1. Acyclic /\ Rooted(tree)
    BY <1>8 DEF ForestInv, ForestIsSeen, Acyclic, Rooted
  <2>2. Acyclic'
    BY <2>1, <1>1 DEF Acyclic, Known
  <2>3. ASSUME NEW d \in Movers, d # c, Moving(d)'
        PROVE  SeesForest(step'[d], move'[d], SeenBy(d)')
    BY <2>3, <1>2, <1>6, <1>8 DEF ForestInv, ForestIsSeen, Moving
  <2>4. Moving(c)' => SeesForest(s, m, tree)
    BY <2>1, <1>2 DEF Moving, MoveSteps, SeesForest, ReadsHold
  <2> QED
    BY <2>2, <2>3, <2>4, <1>2, <1>6, <1>7
<1>11. AloneReadsHold'
  <2> SUFFICES ASSUME NEW d \in Movers, Moving(d)', company'[d] = {}
               PROVE  ReadsHold(step'[d], move'[d], SeenBy(d)')
    BY DEF AloneReadsHold
  <2>1. CASE d = c
    BY <2>1, <1>2, <1>6, <1>7 DEF Moving, MoveSteps
  <2>2. CASE d # c
    <3>1. d \in Active
      BY <2>2, <1>2 DEF Moving, MoveSteps, Active
    <3> QED
      BY <3>1, <1>5
  <2> QED
    BY <2>1, <2>2
<1>12. DepthsAreExact'
  <2> SUFFICES ASSUME overlap' = {}
               PROVE  /\ Exact(tree')
                      /\ \A d \in Movers : SeesExact(step'[d], move'[d], SeenBy(d)')
    BY DEF DepthsAreExact
  <2>1. Exact(tree)
    BY <1>8 DEF ForestInv, DepthsAreExact
  <2>2. SeesExact(s, m, tree)
    BY <2>1 DEF SeesExact
  <2>3. ASSUME NEW d \in Movers, d # c
        PROVE  SeesExact(step'[d], move'[d], SeenBy(d)')
    BY <2>3, <1>2, <1>6, <1>8 DEF ForestInv, DepthsAreExact
  <2> QED
    BY <2>1, <2>2, <2>3, <1>1, <1>2, <1>6, <1>7
<1> QED
  BY <1>3, <1>9, <1>10, <1>11, <1>12 DEF ForestInv

LEMMA OwnStepKeeps ==
    ASSUME ForestInv, TreeInv', NEW c \in Movers, Moving(c),
           NEW s \in MoveSteps \cup {"idle"}, NEW m,
           step' = [step EXCEPT ![c] = s], move' = [move EXCEPT ![c] = m],
           UNCHANGED <<company, overlap>>,
           {"move"} \notin overlap =>
               Acyclic' /\ (s # "idle" => SeesForest(s, m, SeenBy(c)')),
           company[c] = {} /\ s # "idle" => ReadsHold(s, m, SeenBy(c)'),
           overlap = {} => Exact(tree') /\ SeesExact(s, m, SeenBy(c)')
    PROVE  ForestInv'
<1>1. /\ step'[c] = s /\ move'[c] = m
      /\ \A d \in Movers \ {c} : step'[d] = step[d] /\ move'[d] = move[d]
  BY DEF ForestInv, TreeInv, CallsFit
<1>2. /\ c \in Active /\ Active' \subseteq Active
      /\ \A d \in Movers : Moving(d)' => Moving(d)
      /\ Moving(c)' => s # "idle"
  BY <1>1 DEF Active, Moving, MoveSteps
<1>3. CompanyIsKept'
  BY <1>2 DEF ForestInv, CompanyIsKept
<1>4. ForestIsSeen'
  BY <1>1, <1>2 DEF ForestInv, CompanyIsKept, ForestIsSeen
<1>5. ASSUME company[c] # {}
      PROVE  overlap # {}
  BY <1>5, <1>2 DEF ForestInv, CompanyIsKept
<1>6. AloneReadsHold'
  <2> SUFFICES ASSUME NEW d \in Movers, Moving(d)', company[d] = {}
               PROVE  ReadsHold(step'[d], move'[d], SeenBy(d)')
    BY DEF AloneReadsHold
  <2>1. d \in Active
    BY <1>2 DEF Active, Moving, MoveSteps
  <2>2. d = c
    BY <2>1, <1>2 DEF ForestInv, CompanyIsKept
  <2> QED
    BY <2>2, <1>1, <1>2
<1>7. DepthsAreExact'
  <2> SUFFICES ASSUME overlap = {}
               PROVE  /\ Exact(tree')
                      /\ \A d \in Movers : SeesExact(step'[d], move'[d], SeenBy(d)')
    BY DEF DepthsAreExact
  <2>1. Active = {c}
    BY <1>2, <1>5 DEF ForestInv, CompanyIsKept
  <2>2. ASSUME NEW d \in Movers, d # c
        PROVE  SeesExact(step'[d], move'[d], SeenBy(d)')
    <3>1. step'[d] = "idle"
      BY <2>1, <2>2, <1>1 DEF Active
    <3> QED
      BY <3>1 DEF SeesExact
  <2> QED
    BY <2>2, <1>1
<1> QED
  BY <1>3, <1>4, <1>6, <1>7 DEF ForestInv
-----------------------------------------------------------------------------
(* Calls that begin.                                                       *)

LEMMA StartMoveKeeps ==
    ASSUME ForestInv, NEW c \in Movers, NEW i \in Things, NEW onto \in Things \cup {Nothing},
           NEW kind \in {"move", "retype"}, StartMove(c, kind, i, onto)
    PROVE  ForestInv'
<1> DEFINE read == ReadBelow(tree, i)
           all == [NoMove EXCEPT !.kind = kind, !.item = i, !.onto = onto, !.below = read]
           stale == [all EXCEPT !.below = Stale(all.below, 0)]
<1>1. /\ MayBegin(c) /\ i \in Known(tree) /\ ~OnCycle(tree, i)
      /\ onto = Nothing =>
            Fits(all.below, 0) /\ BeginMove(c, "update", stale)
      /\ onto # Nothing =>
            /\ onto \in Known(tree) /\ NotBelow(tree, i, onto)
            /\ BeginMove(c, "depth", all)
  BY DEF StartMove
<1>2. /\ read \in SUBSET ReadRow /\ \A b \in read : b.item \in Known(tree)
      /\ \E b \in read : b.far = 0
  BY <1>1, RowsSeen, ReadIsTyped DEF ForestInv
<1> HIDE DEF read
<1>3. /\ all \in Call /\ all.kind = kind /\ all.item = i /\ all.onto = onto
      /\ all.todo = {} /\ all.below = read
  BY <1>2 DEF Call, NoMove, MoveKinds
<1>4. CASE onto = Nothing
  <2>1. Stale(read, 0) \in SUBSET read /\ Fits(Stale(read, 0), 0) /\ 0 <= MaxDepth
    BY <1>1, <1>2, <1>3, <1>4, FitsWhole
  <2>2. /\ stale \in Call /\ stale.kind = kind /\ stale.item = i /\ stale.onto = onto
        /\ stale.todo = {} /\ stale.depth = 0 /\ stale.below = Stale(read, 0)
    BY <2>1, <1>2 DEF Call, NoMove, MoveKinds
  <2>3. BeginMove(c, "update", stale)
    BY <1>1, <1>4
  <2> HIDE DEF all, stale
  <2>4. CallFits(Known(tree), "update", stale)
    BY <2>1, <2>2, <1>1, <1>2, <1>4 DEF CallFits, Placing, MoveKinds, MoveSteps
  <2>5. ReadsHold("update", stale, tree)
    BY <2>2, <1>1, <1>4 DEF ReadsHold, Placing, DepthUnder, read
  <2> QED
    BY <2>2, <2>3, <2>4, <2>5, <1>1, BeginningKeeps
<1>5. CASE onto # Nothing
  <2>1. BeginMove(c, "depth", all)
    BY <1>1, <1>5
  <2> HIDE DEF all
  <2>2. CallFits(Known(tree), "depth", all)
    BY <1>1, <1>2, <1>3, <1>5 DEF CallFits, Placing, MoveKinds, MoveSteps
  <2>3. ReadsHold("depth", all, tree)
    BY <1>1, <1>3, <1>5 DEF ReadsHold, Placing, read
  <2> QED
    BY <2>1, <2>2, <2>3, <1>1, <1>3, BeginningKeeps
<1> QED
  BY <1>4, <1>5

LEMMA StartRepairKeeps ==
    ASSUME ForestInv, NEW c \in Movers, NEW onto \in Things, NEW found \in SUBSET Things,
           StartRepair(c, onto, found)
    PROVE  ForestInv'
<1> DEFINE m == [NoMove EXCEPT !.kind = "repair", !.onto = onto, !.todo = found]
<1>1. /\ MayBegin(c) /\ onto \in Known(tree) /\ found \subseteq Known(tree)
      /\ BeginMove(c, "depth", m)
  BY DEF StartRepair
<1>2. m \in Call /\ m.kind = "repair" /\ m.onto = onto /\ m.todo = found
  BY DEF Call, NoMove, MoveKinds
<1> HIDE DEF m
<1>3. CallFits(Known(tree), "depth", m)
  BY <1>1, <1>2, NothingIsNoThing DEF CallFits, Placing, MoveKinds, MoveSteps, Known
<1>4. ReadsHold("depth", m, tree)
  BY <1>2 DEF ReadsHold, Placing
<1> QED
  BY <1>1, <1>2, <1>3, <1>4, BeginningKeeps

LEMMA StartCreateKeeps ==
    ASSUME ForestInv, NEW c \in Movers, NEW onto \in Things \cup {Nothing},
           NEW kind, StartCreate(c, kind, onto)
    PROVE  ForestInv'
<1> DEFINE depth == DepthUnder(tree, onto)
           m == [NoMove EXCEPT !.kind = "create", !.onto = onto, !.depth = depth]
<1>1. /\ MayBegin(c) /\ (onto # Nothing => onto \in Known(tree))
      /\ depth <= MaxDepth /\ BeginMove(c, "insert", m)
  BY DEF StartCreate, DepthUnder
<1>2. depth \in Nat
  BY <1>1, RowsSeen, UnderIsDeeper DEF ForestInv
<1> HIDE DEF depth
<1>3. /\ m \in Call /\ m.kind = "create" /\ m.onto = onto /\ m.depth = depth
      /\ m.todo = {}
  BY <1>2 DEF Call, NoMove
<1> HIDE DEF m
<1>4. CallFits(Known(tree), "insert", m)
  BY <1>1, <1>3 DEF CallFits, Placing, MoveSteps
<1> QED
  BY <1>1, <1>3, <1>4, BeginningKeeps DEF depth

-----------------------------------------------------------------------------
(* Moves that read.                                                        *)

LEMMA ReadDepthKeeps ==
    ASSUME ForestInv, NEW c \in Movers, ReadDepth(c)
    PROVE  ForestInv'
<1> DEFINE m == move[c]
           depth == DepthUnder(tree, m.onto)
           m2 == [m EXCEPT !.depth = depth, !.below = Stale(m.below, depth)]
<1>1. /\ m \in Call /\ CallFits(Known(tree), "depth", m) /\ Whole(tree)
      /\ step[c] = "depth" /\ m.kind # "repair" /\ SeenBy(c) = tree
  BY RowsSeen DEF ReadDepth, ForestInv, TreeInv, CallsFit
<1>2. m.onto \in Known(tree) /\ m.onto # Nothing
  BY <1>1, NothingIsNoThing DEF CallFits, Known
<1>3. /\ Fits(m.below, depth) /\ depth \in Nat
      /\ step' = [step EXCEPT ![c] = "update"] /\ move' = [move EXCEPT ![c] = m2]
      /\ UNCHANGED <<tree, treeLock, treePend>> /\ UNCHANGED <<company, overlap>>
  BY <1>1, <1>2, UnderIsDeeper DEF ReadDepth, Proceed, DepthUnder
<1>4. m.below \in SUBSET ReadRow /\ \E b \in m.below : b.far = 0
  BY <1>1 DEF Call, CallFits, Placing
<1>5. /\ depth <= MaxDepth
      /\ Stale(m.below, depth) \in SUBSET m.below /\ Fits(Stale(m.below, depth), depth)
  BY <1>3, <1>4, FitsWhole
<1> HIDE DEF depth
<1>6. /\ m2 \in Call /\ m2.kind = m.kind /\ m2.item = m.item /\ m2.onto = m.onto
      /\ m2.todo = m.todo /\ m2.depth = depth /\ m2.below = Stale(m.below, depth)
  BY <1>1, <1>3, <1>4, <1>5 DEF Call
<1> HIDE DEF m, m2
<1>7. CallFits(Known(tree), "update", m2)
  BY <1>1, <1>5, <1>6 DEF CallFits, Placing, MoveSteps
<1>8. TreeInv'
  BY <1>1, <1>3, <1>6, <1>7, ReadingKeepsTypes DEF ForestInv, MoveSteps
<1>9. Moving(c) /\ SeenBy(c)' = tree /\ tree' = tree
  BY <1>1, <1>3 DEF Moving, MoveSteps, SeenBy
<1>10. {"move"} \notin overlap => Acyclic' /\ SeesForest("update", m2, tree)
  BY <1>1, <1>3, <1>6, <1>9
     DEF m, ForestInv, ForestIsSeen, SeesForest, Placing, Acyclic, Known
<1>11. company[c] = {} => ReadsHold("update", m2, tree)
  <2> SUFFICES ASSUME company[c] = {}
               PROVE  ReadsHold("update", m2, tree)
    OBVIOUS
  <2>1. ReadsHold("depth", m, tree)
    BY <1>1, <1>9 DEF m, ForestInv, AloneReadsHold
  <2> QED
    BY <2>1, <1>1, <1>6 DEF ReadsHold, Placing, depth
<1>12. overlap = {} => Exact(tree) /\ SeesExact("update", m2, tree)
  BY DEF ForestInv, DepthsAreExact, SeesExact
<1> QED
  BY <1>3, <1>8, <1>9, <1>10, <1>11, <1>12, OwnStepKeeps DEF MoveSteps

LEMMA ReadRepairDepthKeeps ==
    ASSUME ForestInv, NEW c \in Movers, ReadRepairDepth(c)
    PROVE  ForestInv'
<1> DEFINE m == move[c]
           depth == DepthUnder(tree, m.onto)
           m2 == [m EXCEPT !.depth = depth]
<1>1. /\ m \in Call /\ CallFits(Known(tree), "depth", m) /\ Whole(tree)
      /\ step[c] = "depth" /\ m.kind = "repair" /\ SeenBy(c) = tree
  BY RowsSeen DEF ReadRepairDepth, ForestInv, TreeInv, CallsFit
<1>2. m.onto \in Known(tree) /\ m.onto # Nothing
  BY <1>1, NothingIsNoThing DEF CallFits, Known
<1>3. /\ depth \in Nat
      /\ step' = [step EXCEPT ![c] = "next"] /\ move' = [move EXCEPT ![c] = m2]
      /\ UNCHANGED <<tree, treeLock, treePend>> /\ UNCHANGED <<company, overlap>>
  BY <1>1, <1>2, UnderIsDeeper DEF ReadRepairDepth, Proceed, DepthUnder
<1> HIDE DEF depth
<1>4. /\ m2 \in Call /\ m2.kind = m.kind /\ m2.onto = m.onto
      /\ m2.todo = m.todo /\ m2.depth = depth
  BY <1>1, <1>3 DEF Call
<1> HIDE DEF m, m2
<1>5. CallFits(Known(tree), "next", m2)
  BY <1>1, <1>4 DEF CallFits, Placing, MoveSteps
<1>6. TreeInv'
  BY <1>1, <1>3, <1>4, <1>5, ReadingKeepsTypes DEF ForestInv, MoveSteps
<1>7. Moving(c) /\ SeenBy(c)' = tree /\ tree' = tree
  BY <1>1, <1>3 DEF Moving, MoveSteps, SeenBy
<1>8. {"move"} \notin overlap => Acyclic' /\ SeesForest("next", m2, tree)
  BY <1>1, <1>3, <1>7 DEF ForestInv, ForestIsSeen, SeesForest, Placing, Acyclic, Known
<1>9. ReadsHold("next", m2, tree)
  BY <1>4 DEF ReadsHold, Placing, depth
<1>10. overlap = {} => Exact(tree) /\ SeesExact("next", m2, tree)
  BY DEF ForestInv, DepthsAreExact, SeesExact
<1> QED
  BY <1>3, <1>6, <1>7, <1>8, <1>9, <1>10, OwnStepKeeps DEF MoveSteps

LEMMA NextStuckKeeps ==
    ASSUME ForestInv, NEW c \in Movers, NEW i \in Things, NextStuck(c, i)
    PROVE  ForestInv'
<1> DEFINE m == move[c]
           rows == SeenBy(c)
           read == ReadBelow(rows, i)
           m2 == [m EXCEPT !.item = i, !.todo = @ \ {i}, !.below = Stale(read, m.depth)]
<1>1. /\ step[c] \in {"next", "below"} /\ (step[c] = "below" => m.below = {})
      /\ i \in m.todo /\ ~OnCycle(rows, i) /\ NotBelow(rows, i, m.onto)
      /\ Fits(read, m.depth)
      /\ step' = [step EXCEPT ![c] = "update"] /\ move' = [move EXCEPT ![c] = m2]
      /\ UNCHANGED <<tree, treeLock, treePend>> /\ UNCHANGED <<company, overlap>>
  BY DEF NextStuck, Proceed
<1>2. /\ m \in Call /\ CallFits(Known(tree), step[c], m)
      /\ rows \in [Things -> TreeRow \cup {Nothing}] /\ Whole(rows)
      /\ Known(rows) = Known(tree)
  BY RowsSeen DEF ForestInv, TreeInv, CallsFit
<1>3. /\ i \in Known(tree) /\ m.kind \in MoveKinds /\ m.onto \in Known(tree) /\ m.onto # Nothing
      /\ m.todo \subseteq Known(tree)
  BY <1>1, <1>2, NothingIsNoThing DEF CallFits, MoveSteps, Known
<1>4. /\ read \in SUBSET ReadRow /\ \A b \in read : b.item \in Known(tree)
      /\ \E b \in read : b.far = 0
  BY <1>2, <1>3, ReadIsTyped
<1> HIDE DEF rows, read
<1>5. /\ m.depth \in Nat /\ m.depth <= MaxDepth
      /\ Stale(read, m.depth) \in SUBSET read /\ Fits(Stale(read, m.depth), m.depth)
  BY <1>1, <1>2, <1>4, FitsWhole DEF Call
<1>6. /\ m2 \in Call /\ m2.kind = m.kind /\ m2.item = i /\ m2.onto = m.onto
      /\ m2.todo \subseteq m.todo /\ m2.depth = m.depth /\ m2.below = Stale(read, m.depth)
  BY <1>2, <1>4, <1>5 DEF Call
<1> HIDE DEF m, m2
<1>7. CallFits(Known(tree), "update", m2)
  BY <1>3, <1>4, <1>5, <1>6 DEF CallFits, Placing, MoveSteps
<1>8. TreeInv'
  BY <1>1, <1>6, <1>7, ReadingKeepsTypes DEF ForestInv, MoveSteps
<1>9. Moving(c) /\ SeenBy(c)' = rows /\ tree' = tree
  BY <1>1 DEF Moving, MoveSteps, SeenBy, rows
<1>10. {"move"} \notin overlap => Acyclic' /\ SeesForest("update", m2, rows)
  BY <1>1, <1>6, <1>9 DEF rows, ForestInv, ForestIsSeen, SeesForest, Acyclic, Known
<1>11. company[c] = {} => ReadsHold("update", m2, rows)
  <2> SUFFICES ASSUME company[c] = {}
               PROVE  ReadsHold("update", m2, rows)
    OBVIOUS
  <2>1. m.depth = DepthUnder(rows, m.onto)
    BY <1>1, <1>9 DEF m, rows, ForestInv, AloneReadsHold, ReadsHold
  <2> QED
    BY <2>1, <1>1, <1>6 DEF ReadsHold, read
<1>12. overlap = {} => Exact(tree) /\ SeesExact("update", m2, rows)
  <2> SUFFICES ASSUME overlap = {}
               PROVE  Exact(tree) /\ Exact(rows)
    BY DEF SeesExact
  <2>1. Exact(tree) /\ SeesExact(step[c], m, rows)
    BY DEF ForestInv, DepthsAreExact, m, rows
  <2> QED
    BY <2>1, <1>1 DEF SeesExact, Mended, Exact
<1> QED
  BY <1>1, <1>8, <1>9, <1>10, <1>11, <1>12, OwnStepKeeps DEF MoveSteps
-----------------------------------------------------------------------------
(* Moves that write.                                                       *)

LEMMA AloneWithoutOverlap ==
    ASSUME ForestInv, NEW c \in Movers, Moving(c), overlap = {}
    PROVE  company[c] = {}
BY DEF ForestInv, CompanyIsKept, Active, Moving, MoveSteps

\* Once the item is written, its descendants have their depth or are to get it.
LEMMA MovedIsMended ==
    ASSUME NEW rows, NEW rows2, NEW m, Moved(rows, rows2, m.item),
           ~OnCycle(rows, m.item),
           rows2[m.item].parent = m.onto, rows2[m.item].depth = m.depth,
           \A j \in Known(rows) \ {m.item} : rows2[j] = rows[j],
           m.depth = DepthUnder(rows, m.onto),
           m.below = Stale(ReadBelow(rows, m.item), m.depth)
    PROVE  /\ Mended(rows2, Subtree(rows, m.item), m)
           /\ Subtree(rows2, m.item) \subseteq Subtree(rows, m.item)
           /\ m.depth = DepthUnder(rows2, m.onto)
           /\ Exact(rows) => Mended(rows2, Known(rows), m)
<1> DEFINE i == m.item
<1>1. /\ Known(rows2) = Known(rows) /\ i \in Known(rows) /\ Whole(rows)
      /\ Subtree(rows, i) \subseteq Known(rows)
  BY DEF Moved, Subtree
<1>2. ASSUME NEW j \in Subtree(rows, i)
      PROVE  /\ DepthOf(rows2, j) = m.depth + Distance(rows, i, j)
             /\ Distance(rows, i, j) \in Nat
             /\ Distance(rows, i, j) = 0 => j = i
  BY MovedDepths
<1>3. DepthOf(rows2, i) = m.depth
  BY MovedDepth
<1>4. m.depth \in Nat
  <2>1. m.onto = Nothing \/ m.onto \in Known(rows)
    BY MovedItself
  <2> QED
    BY <2>1, <1>1, UnderIsDeeper
<1>5. ASSUME NEW j \in Subtree(rows, i)
      PROVE  rows2[j].depth = DepthOf(rows2, j) \/ \E b \in m.below : b.item = j
  <2>1. CASE j = i
    BY <2>1, <1>3
  <2>2. CASE j # i
    <3> DEFINE b == [item |-> j, depth |-> rows[j].depth, far |-> Distance(rows, i, j)]
    <3>1. rows2[j] = rows[j]
      BY <2>2, <1>1
    <3>2. b \in ReadBelow(rows, i)
      BY DEF ReadBelow
    <3>3. b.far > 0 /\ b.item = j /\ b.depth = rows[j].depth
      BY <2>2, <1>2
    <3>4. b.depth # m.depth + b.far => b \in m.below
      BY <3>2, <3>3 DEF Stale
    <3> QED
      BY <3>1, <3>3, <3>4, <1>2
  <2> QED
    BY <2>1, <2>2
<1>6. ASSUME NEW b \in m.below
      PROVE  m.depth + b.far = DepthOf(rows2, b.item)
  <2>1. PICK j \in Subtree(rows, i) :
           b = [item |-> j, depth |-> rows[j].depth, far |-> Distance(rows, i, j)]
    BY DEF Stale, ReadBelow
  <2> QED
    BY <2>1, <1>2
<1>7. Mended(rows2, Subtree(rows, i), m)
  BY <1>5, <1>6 DEF Mended
<1>8. ASSUME NEW j \in Known(rows), j \notin Subtree(rows, i)
      PROVE  /\ Above(rows2, j) = Above(rows, j) /\ DepthOf(rows2, j) = DepthOf(rows, j)
             /\ i \notin Above(rows, j) /\ j # i
  <2>1. i \notin Above(rows, j)
    BY <1>8 DEF Subtree
  <2>2. j # i
    BY <2>1, <1>1, AboveClosed
  <2> QED
    BY <2>1, <2>2, MovedLeavesTheRest
<1>9. Subtree(rows2, i) \subseteq Subtree(rows, i)
  BY <1>1, <1>8 DEF Subtree
<1>10. m.depth = DepthUnder(rows2, m.onto)
  <2>1. CASE m.onto = Nothing
    BY <2>1 DEF DepthUnder
  <2>2. CASE m.onto # Nothing
    <3>1. m.onto \in Known(rows) /\ i \notin Above(rows, m.onto)
      BY <2>2, MovedItself
    <3>2. DepthOf(rows2, m.onto) = DepthOf(rows, m.onto)
      BY <3>1, MovedLeavesTheRest
    <3> QED
      BY <3>2, <2>2 DEF DepthUnder
  <2> QED
    BY <2>1, <2>2
<1>11. ASSUME Exact(rows)
       PROVE  Mended(rows2, Known(rows), m)
  <2>1. ASSUME NEW j \in Known(rows), j \notin Subtree(rows, i)
        PROVE  rows2[j].depth = DepthOf(rows2, j)
    BY <2>1, <1>8, <1>11 DEF Exact
  <2> QED
    BY <2>1, <1>5, <1>6 DEF Mended
<1> QED
  BY <1>7, <1>9, <1>10, <1>11

LEMMA UpdateMovedKeeps ==
    ASSUME ForestInv, NEW c \in Movers, UpdateMoved(c)
    PROVE  ForestInv'
<1> DEFINE m == move[c]
           i == m.item
           r == [parent |-> m.onto, depth |-> m.depth]
           rows == SeenBy(c)
           rows2 == SeenBy(c)'
<1>1. /\ step[c] = "update"
      /\ treeLock' = [treeLock EXCEPT ![i] = c] /\ treePend' = [treePend EXCEPT ![i] = r]
      /\ step' = [step EXCEPT ![c] = "below"] /\ move' = [move EXCEPT ![c] = m]
      /\ tree' = tree /\ UNCHANGED <<company, overlap>>
  BY DEF UpdateMoved, Proceed
<1>2. /\ m \in Call /\ CallFits(Known(tree), "update", m)
      /\ Whole(rows) /\ Known(rows) = Known(tree) /\ rows \in [Things -> TreeRow \cup {Nothing}]
  BY <1>1, RowsSeen DEF ForestInv, TreeInv, CallsFit
<1>3. /\ i \in Known(tree) /\ i \in Things /\ m.onto \in Known(tree) \cup {Nothing}
      /\ m.depth \in 0..MaxDepth
  BY <1>2, TreeAssumption DEF CallFits, Placing, Known, Call, TreeAssumption
<1>4. r \in TreeRow /\ r.parent = m.onto /\ r.depth = m.depth /\ r # Nothing
  BY <1>2, <1>3, NothingIsNoThing DEF Call, TreeRow
<1> HIDE DEF m, r
<1>5. CallFits(Known(tree), "below", m)
  BY <1>2, <1>3 DEF CallFits, Placing, MoveSteps
<1>6. TreeInv'
  BY <1>1, <1>2, <1>3, <1>4, <1>5, WritingKeepsTypes DEF ForestInv
<1>7. \A j \in Things : rows2[j] = IF j = i THEN r ELSE rows[j]
  BY <1>1, <1>3 DEF SeenBy, ForestInv, TreeInv, TreeTypeOK
<1> HIDE DEF rows, rows2
<1>8. Known(rows2) = Known(rows) /\ Known(rows) \subseteq Things
  BY <1>2, <1>3, <1>4, <1>7 DEF Known
<1>9. Whole(rows2)
  BY <1>2, <1>3, <1>4, <1>7, <1>8 DEF Whole, Closed
<1>10. (m.onto # Nothing => NotBelow(rows, i, m.onto)) => Moved(rows, rows2, i)
  BY <1>2, <1>3, <1>4, <1>7, <1>8, <1>9 DEF Moved
<1>11. Moving(c)
  BY <1>1 DEF Moving, MoveSteps
<1>12. {"move"} \notin overlap => Acyclic' /\ SeesForest("below", m, rows2)
  <2> SUFFICES ASSUME {"move"} \notin overlap
               PROVE  Acyclic' /\ SeesForest("below", m, rows2)
    OBVIOUS
  <2>1. Acyclic /\ SeesForest("update", m, rows)
    BY <1>1, <1>11 DEF ForestInv, ForestIsSeen, m, rows
  <2>2. Moved(rows, rows2, i)
    BY <2>1, <1>10 DEF SeesForest, Placing
  <2>3. Rooted(rows2)
    BY <2>1, <2>2, MovedKeepsRoots DEF SeesForest, Rooted
  <2> QED
    BY <2>1, <2>3, <1>1 DEF SeesForest, Placing, Acyclic, Known
<1>13. ASSUME company[c] = {}
       PROVE  /\ ReadsHold("below", m, rows2)
              /\ Exact(rows) => Mended(rows2, Known(rows), m)
  <2>1. ReadsHold("update", m, rows)
    BY <1>1, <1>11, <1>13 DEF ForestInv, AloneReadsHold, m, rows
  <2>2. Moved(rows, rows2, i) /\ ~OnCycle(rows, i)
    BY <2>1, <1>10 DEF ReadsHold, Placing
  <2>3. /\ rows2[i].parent = m.onto /\ rows2[i].depth = m.depth
        /\ \A j \in Known(rows) \ {i} : rows2[j] = rows[j]
    BY <1>3, <1>4, <1>7, <1>8
  <2>4. m.depth = DepthUnder(rows, m.onto) /\ m.below = Stale(ReadBelow(rows, i), m.depth)
    BY <2>1 DEF ReadsHold
  <2>5. /\ Mended(rows2, Subtree(rows, i), m) /\ Subtree(rows2, i) \subseteq Subtree(rows, i)
        /\ m.depth = DepthUnder(rows2, m.onto)
        /\ Exact(rows) => Mended(rows2, Known(rows), m)
    BY <2>2, <2>3, <2>4, MovedIsMended
  <2> QED
    BY <2>5 DEF ReadsHold, Placing, Mended
<1>14. overlap = {} => Exact(tree') /\ SeesExact("below", m, rows2)
  <2> SUFFICES ASSUME overlap = {}
               PROVE  Exact(tree') /\ SeesExact("below", m, rows2)
    OBVIOUS
  <2>1. Exact(tree) /\ SeesExact("update", m, rows)
    BY <1>1 DEF ForestInv, DepthsAreExact, m, rows
  <2>2. Mended(rows2, Known(rows2), m)
    BY <2>1, <1>8, <1>11, <1>13, AloneWithoutOverlap DEF SeesExact
  <2> QED
    BY <2>1, <2>2, <1>1 DEF SeesExact
<1> QED
  BY <1>1, <1>6, <1>11, <1>12, <1>13, <1>14, OwnStepKeeps DEF MoveSteps, rows2

\* One more descendant has its depth.
LEMMA OneMoreMended ==
    ASSUME NEW rows, NEW rows2, SameParents(rows, rows2), NEW m \in Call, NEW m2,
           NEW b \in m.below, NEW S \in SUBSET Known(rows), Mended(rows, S, m),
           m2.below = m.below \ {b}, m2.depth = m.depth, b.item \in Known(rows),
           rows2[b.item].depth = m.depth + b.far,
           \A j \in Known(rows) \ {b.item} : rows2[j] = rows[j],
           \A d \in m.below : d.item \in Known(rows)
    PROVE  Mended(rows2, S, m2)
<1>1. \A j \in Known(rows) : DepthOf(rows2, j) = DepthOf(rows, j)
  BY SameWalks
<1>2. ASSUME NEW j \in S
      PROVE  rows2[j].depth = DepthOf(rows2, j) \/ \E d \in m2.below : d.item = j
  BY <1>1 DEF Mended
<1>3. ASSUME NEW d \in m2.below
      PROVE  m2.depth + d.far = DepthOf(rows2, d.item)
  BY <1>1 DEF Mended
<1> QED
  BY <1>2, <1>3 DEF Mended

LEMMA UpdateBelowKeeps ==
    ASSUME ForestInv, NEW c \in Movers, NEW b \in move[c].below, UpdateBelow(c, b)
    PROVE  ForestInv'
<1> DEFINE m == move[c]
           m2 == [m EXCEPT !.below = @ \ {b}]
           i == b.item
           rows == SeenBy(c)
           rows2 == SeenBy(c)'
           r == [rows[i] EXCEPT !.depth = m.depth + b.far]
<1>1. /\ step[c] = "below"
      /\ treeLock' = [treeLock EXCEPT ![i] = c] /\ treePend' = [treePend EXCEPT ![i] = r]
      /\ step' = [step EXCEPT ![c] = "below"] /\ move' = [move EXCEPT ![c] = m2]
      /\ tree' = tree /\ UNCHANGED <<company, overlap>>
  BY DEF UpdateBelow, Proceed
<1>2. /\ m \in Call /\ CallFits(Known(tree), "below", m) /\ b \in m.below
      /\ Whole(rows) /\ Known(rows) = Known(tree) /\ rows \in [Things -> TreeRow \cup {Nothing}]
  BY <1>1, RowsSeen DEF ForestInv, TreeInv, CallsFit
<1>3. /\ i \in Known(tree) /\ i \in Things /\ \A d \in m.below : d.item \in Known(rows)
      /\ m.depth + b.far \in 0..MaxDepth
  <2>1. b \in ReadRow /\ m.depth \in Nat
    BY <1>2 DEF Call
  <2>2. m.depth + b.far <= MaxDepth
    BY <1>2 DEF CallFits, Fits
  <2> QED
    BY <2>1, <2>2, <1>2, TreeAssumption DEF CallFits, Known, ReadRow, TreeAssumption
<1> HIDE DEF rows
<1>4. rows[i] \in TreeRow /\ rows[i].parent \in Known(rows) \cup {Nothing}
  BY <1>2, <1>3 DEF Whole, Closed, Known
<1>5. r \in TreeRow /\ r.parent = rows[i].parent /\ r.depth = m.depth + b.far /\ r # Nothing
  BY <1>3, <1>4, NothingIsNoThing DEF TreeRow
<1>6. /\ m2 \in Call /\ m2.kind = m.kind /\ m2.item = m.item /\ m2.onto = m.onto
      /\ m2.todo = m.todo /\ m2.depth = m.depth /\ m2.below = m.below \ {b}
  BY <1>2 DEF Call
<1> HIDE DEF m, m2, r
<1>7. CallFits(Known(tree), "below", m2)
  BY <1>2, <1>6 DEF CallFits, Placing, MoveSteps, Fits
<1>8. TreeInv'
  BY <1>1, <1>2, <1>3, <1>4, <1>5, <1>6, <1>7, WritingKeepsTypes DEF ForestInv
<1>9. \A j \in Things : rows2[j] = IF j = i THEN r ELSE rows[j]
  BY <1>1, <1>3 DEF SeenBy, rows, ForestInv, TreeInv, TreeTypeOK
<1> HIDE DEF rows2
<1>10. Known(rows2) = Known(rows) /\ Known(rows) \subseteq Things
  BY <1>2, <1>3, <1>5, <1>9 DEF Known
<1>11. \A j \in Known(rows) : rows2[j].parent = rows[j].parent
  BY <1>5, <1>9, <1>10
<1>12. SameParents(rows, rows2)
  BY <1>2, <1>10, <1>11 DEF SameParents, Whole, Closed
<1>13. Moving(c)
  BY <1>1 DEF Moving, MoveSteps
<1>14. {"move"} \notin overlap => Acyclic' /\ SeesForest("below", m2, rows2)
  <2> SUFFICES ASSUME {"move"} \notin overlap
               PROVE  Acyclic' /\ SeesForest("below", m2, rows2)
    OBVIOUS
  <2>1. Acyclic /\ Rooted(rows)
    BY <1>13 DEF ForestInv, ForestIsSeen, SeesForest, rows
  <2>2. Rooted(rows2)
    BY <2>1, <1>10, <1>12, SameWalks DEF Rooted
  <2> QED
    BY <2>1, <2>2, <1>1 DEF SeesForest, Placing, Acyclic, Known
<1>15. ASSUME NEW S \in SUBSET Known(rows), Mended(rows, S, m)
       PROVE  Mended(rows2, S, m2)
  <2>1. /\ rows2[i].depth = m.depth + b.far
        /\ \A j \in Known(rows) \ {i} : rows2[j] = rows[j]
    BY <1>3, <1>5, <1>9, <1>10
  <2> QED
    BY <2>1, <1>2, <1>3, <1>6, <1>12, <1>15, OneMoreMended
<1>16. company[c] = {} => ReadsHold("below", m2, rows2)
  <2> SUFFICES ASSUME company[c] = {}
               PROVE  ReadsHold("below", m2, rows2)
    OBVIOUS
  <2>1. ReadsHold("below", m, rows)
    BY <1>1, <1>13 DEF ForestInv, AloneReadsHold, m, rows
  <2>2. Mended(rows2, Subtree(rows, m.item), m2)
    BY <2>1, <1>15 DEF ReadsHold, Subtree
  <2>3. Subtree(rows2, m.item) = Subtree(rows, m.item)
    BY <1>2, <1>12, SameWalks DEF CallFits
  <2>4. m2.depth = DepthUnder(rows2, m2.onto)
    BY <2>1, <1>2, <1>6, <1>12, SameWalks DEF ReadsHold, DepthUnder, CallFits
  <2> QED
    BY <2>2, <2>3, <2>4, <1>6 DEF ReadsHold, Placing
<1>17. overlap = {} => Exact(tree') /\ SeesExact("below", m2, rows2)
  <2> SUFFICES ASSUME overlap = {}
               PROVE  Exact(tree') /\ SeesExact("below", m2, rows2)
    OBVIOUS
  <2>1. Exact(tree) /\ Mended(rows, Known(rows), m)
    BY <1>1 DEF ForestInv, DepthsAreExact, SeesExact, m, rows
  <2>2. Mended(rows2, Known(rows2), m2)
    BY <2>1, <1>10, <1>15
  <2> QED
    BY <2>1, <2>2, <1>1 DEF SeesExact
<1> QED
  BY <1>1, <1>8, <1>13, <1>14, <1>16, <1>17, OwnStepKeeps DEF MoveSteps, rows2
-----------------------------------------------------------------------------
(* Calls that end.                                                         *)

LEMMA CommitKeeps ==
    ASSUME ForestInv, NEW c \in Movers, CommitMoved(c)
    PROVE  ForestInv'
<1> DEFINE m == move[c]
           rows == SeenBy(c)
<1>1. /\ step[c] = "below" /\ m.below = {} /\ tree' = rows /\ EndCall(c)
      /\ step' = [step EXCEPT ![c] = "idle"] /\ move' = [move EXCEPT ![c] = NoMove]
      /\ UNCHANGED <<company, overlap>>
  BY DEF CommitMoved, EndCall, Proceed
<1>2. /\ Whole(rows) /\ Known(rows) = Known(tree) /\ rows \in [Things -> TreeRow \cup {Nothing}]
  BY <1>1, RowsSeen DEF ForestInv
<1> HIDE DEF rows
<1>3. TreeInv'
  BY <1>1, <1>2, EndingKeepsTypes DEF ForestInv
<1>4. Moving(c)
  BY <1>1 DEF Moving, MoveSteps
<1>5. {"move"} \notin overlap => Acyclic'
  <2>1. {"move"} \notin overlap => Rooted(rows)
    BY <1>4 DEF ForestInv, ForestIsSeen, SeesForest, rows
  <2> QED
    BY <2>1, <1>1 DEF Acyclic, Rooted
<1>6. overlap = {} => Exact(tree') /\ SeesExact("idle", NoMove, SeenBy(c)')
  <2>1. overlap = {} => Mended(rows, Known(rows), m)
    BY <1>1 DEF ForestInv, DepthsAreExact, SeesExact, rows
  <2> QED
    BY <2>1, <1>1 DEF Exact, Mended, SeesExact
<1> QED
  BY <1>1, <1>3, <1>4, <1>5, <1>6, OwnStepKeeps

LEMMA AbandonedMoveKeeps ==
    ASSUME ForestInv, NEW c \in Movers, AbandonMove(c), Moving(c)
    PROVE  ForestInv'
<1>1. /\ tree' = tree /\ EndCall(c)
      /\ step' = [step EXCEPT ![c] = "idle"] /\ move' = [move EXCEPT ![c] = NoMove]
      /\ UNCHANGED <<company, overlap>>
  BY DEF AbandonMove, EndCall, Proceed
<1>2. TreeInv'
  BY <1>1, RowsSeen, EndingKeepsTypes DEF ForestInv
<1>3. {"move"} \notin overlap => Acyclic'
  BY <1>1 DEF ForestInv, ForestIsSeen, Acyclic, Known
<1>4. overlap = {} => Exact(tree') /\ SeesExact("idle", NoMove, SeenBy(c)')
  BY <1>1 DEF ForestInv, DepthsAreExact, SeesExact
<1> QED
  BY <1>1, <1>2, <1>3, <1>4, OwnStepKeeps

LEMMA LeafIsRooted ==
    ASSUME NEW rows, NEW rows2, NEW i, LeafAdded(rows, rows2, i), Rooted(rows)
    PROVE  Rooted(rows2)
<1>1. Whole(rows2) /\ Known(rows2) = Known(rows) \cup {i} /\ i \in Above(rows2, i)
  BY LeafChangesNoWalk, AboveClosed DEF LeafAdded
<1>2. HasRoot(rows2, i)
  <2>1. CASE rows2[i].parent = Nothing
    BY <2>1, <1>1 DEF HasRoot
  <2>2. CASE rows2[i].parent # Nothing
    <3>1. HasRoot(rows2, rows2[i].parent)
      BY <2>2, LeafChangesNoWalk DEF LeafAdded, Rooted
    <3> QED
      BY <3>1, <2>2, <1>1, AboveStep DEF HasRoot
  <2> QED
    BY <2>1, <2>2
<1> QED
  BY <1>1, <1>2, LeafChangesNoWalk DEF Rooted

\* A creation ends, with a new row or with none.
LEMMA CreationKeeps ==
    ASSUME ForestInv, TreeInv', NEW c \in Movers, step[c] = "insert", EndCall(c),
           \/ tree' = tree
           \/ \E i \in Things :
                 /\ LeafAdded(tree, tree', i)
                 /\ overlap = {} => tree'[i].depth = DepthUnder(tree, tree'[i].parent)
    PROVE  ForestInv'
<1>1. /\ step' = [step EXCEPT ![c] = "idle"] /\ move' = [move EXCEPT ![c] = NoMove]
      /\ treeLock' = [i \in Things |-> IF treeLock[i] = c THEN Nothing ELSE treeLock[i]]
      /\ treePend' = [i \in Things |-> IF treeLock[i] = c THEN Nothing ELSE treePend[i]]
      /\ UNCHANGED <<company, overlap>>
  BY DEF EndCall, Proceed
<1>2. /\ step'[c] = "idle" /\ c \in Active /\ ~Moving(c)
      /\ \A d \in Movers \ {c} : step'[d] = step[d] /\ move'[d] = move[d]
  BY <1>1 DEF ForestInv, TreeInv, CallsFit, Active, Moving, MoveSteps
<1>3. Active' \subseteq Active /\ \A d \in Movers : Moving(d)' => Moving(d) /\ d # c
  BY <1>2 DEF Active, Moving, MoveSteps
<1>4. \A i \in Things : treeLock[i] # c
  BY NothingIsNoThing DEF ForestInv, TreeInv, LocksAreOfMoves
<1>5. \A i \in Things : treeLock'[i] = treeLock[i] /\ treePend'[i] = treePend[i]
  BY <1>1, <1>4
<1>6. \A d \in Movers, i \in Things :
         /\ SeenBy(d)[i] = IF treeLock[i] = d THEN treePend[i] ELSE tree[i]
         /\ SeenBy(d)'[i] = IF treeLock[i] = d THEN treePend[i] ELSE tree'[i]
  BY <1>5 DEF SeenBy
<1>7. CompanyIsKept'
  BY <1>1, <1>3 DEF ForestInv, CompanyIsKept
<1>8. AloneReadsHold'
  <2> SUFFICES ASSUME NEW d \in Movers, Moving(d)', company[d] = {}
               PROVE  FALSE
    BY <1>1 DEF AloneReadsHold
  <2>1. Moving(d) /\ d # c /\ d \in Active
    BY <1>3 DEF Active, Moving, MoveSteps
  <2> QED
    BY <2>1, <1>2 DEF ForestInv, CompanyIsKept
<1>9. ForestIsSeen'
  <2> SUFFICES ASSUME {"move"} \notin overlap
               PROVE  /\ Acyclic'
                      /\ \A d \in Movers :
                            Moving(d)' => SeesForest(step'[d], move'[d], SeenBy(d)')
    BY <1>1 DEF ForestIsSeen
  <2>1. Rooted(tree)
    BY DEF ForestInv, ForestIsSeen, Acyclic, Rooted
  <2>2. Rooted(tree')
    BY <2>1, LeafIsRooted
  <2>3. ASSUME NEW d \in Movers, Moving(d)'
        PROVE  SeesForest(step'[d], move'[d], SeenBy(d)')
    <3> DEFINE m == move[d]
               rows == SeenBy(d)
               rows2 == SeenBy(d)'
    <3>1. Moving(d) /\ d # c /\ step'[d] = step[d] /\ move'[d] = m
      BY <2>3, <1>2, <1>3
    <3>2. SeesForest(step[d], m, rows) /\ CallFits(Known(tree), step[d], m)
      BY <3>1 DEF ForestInv, ForestIsSeen, TreeInv, CallsFit
    <3>3. Whole(rows) /\ Known(rows) = Known(tree)
      BY RowsSeen DEF ForestInv
    <3>4. CASE tree' = tree
      <4>1. SeenBy(d)' = SeenBy(d)
        BY <3>4, <1>5 DEF SeenBy
      <4> QED
        BY <4>1, <3>1, <3>2
    <3>5. ASSUME NEW i \in Things, LeafAdded(tree, tree', i)
          PROVE  SeesForest(step[d], m, rows2)
      <4>1. i \notin Known(tree) /\ treeLock[i] # d
        BY <3>5, <3>1, NothingIsNoThing DEF LeafAdded, ForestInv, TreeInv, LocksAreOfMoves
      <4>2. /\ Known(tree') = Known(tree) \cup {i}
            /\ \A j \in Known(tree) : tree'[j] = tree[j]
            /\ tree'[i].parent \in Known(tree) \cup {Nothing}
        BY <3>5 DEF LeafAdded
      <4>3. /\ \A j \in Known(tree) : rows2[j] = rows[j]
            /\ rows2[i] = tree'[i]
        BY <4>1, <4>2, <1>6 DEF Known
      <4>4. Known(rows2) = Known(tree) \cup {i}
        <5>1. ASSUME NEW j \in Things
              PROVE  rows2[j] # Nothing <=> j \in Known(tree) \cup {i}
          <6>1. rows[j] # Nothing <=> j \in Known(tree)
            BY <3>3 DEF Known
          <6>2. tree'[j] # Nothing <=> j \in Known(tree) \cup {i}
            BY <4>2 DEF Known
          <6>3. treeLock[j] = d => j \in Known(tree)
            BY NothingIsNoThing DEF ForestInv, TreeInv, LocksAreOfMoves
          <6> QED
            BY <6>1, <6>2, <6>3, <4>3, <1>6
        <5> QED
          BY <5>1, <4>2 DEF Known
      <4> HIDE DEF rows, rows2
      <4>5. LeafAdded(rows, rows2, i)
        BY <3>3, <4>1, <4>2, <4>3, <4>4 DEF LeafAdded
      <4>6. Rooted(rows2)
        BY <3>2, <4>5, LeafIsRooted DEF SeesForest
      <4>7. ASSUME Placing(step[d], m), m.onto # Nothing
            PROVE  NotBelow(rows2, m.item, m.onto)
        <5>1. NotBelow(rows, m.item, m.onto)
          BY <3>2, <4>7 DEF SeesForest
        <5>2. m.onto \in Known(rows)
          BY <3>1, <3>2, <3>3, <4>7 DEF CallFits, Moving, MoveSteps
        <5>3. Above(rows2, m.onto) = Above(rows, m.onto)
          BY <4>5, <5>2, LeafChangesNoWalk
        <5> QED
          BY <5>1, <5>2, <5>3 DEF NotBelow, Subtree
      <4> QED
        BY <4>6, <4>7 DEF SeesForest
    <3> QED
      BY <3>1, <3>4, <3>5
  <2> QED
    BY <2>2, <2>3 DEF Acyclic, Rooted
<1>10. DepthsAreExact'
  <2> SUFFICES ASSUME overlap = {}
               PROVE  /\ Exact(tree')
                      /\ \A d \in Movers : SeesExact(step'[d], move'[d], SeenBy(d)')
    BY <1>1 DEF DepthsAreExact
  <2>1. Exact(tree)
    BY DEF ForestInv, DepthsAreExact
  <2>2. Exact(tree')
    <3>1. ASSUME NEW i \in Things, LeafAdded(tree, tree', i),
                 tree'[i].depth = DepthUnder(tree, tree'[i].parent)
          PROVE  Exact(tree')
      <4>1. tree'[i].depth = DepthOf(tree', i)
        BY <3>1, LeafDepth
      <4>2. \A j \in Known(tree) : tree'[j] = tree[j] /\ DepthOf(tree', j) = DepthOf(tree, j)
        BY <3>1, LeafChangesNoWalk DEF LeafAdded
      <4>3. Known(tree') = Known(tree) \cup {i}
        BY <3>1 DEF LeafAdded
      <4> QED
        BY <4>1, <4>2, <4>3, <2>1 DEF Exact
    <3> QED
      BY <3>1, <2>1
  <2>3. ASSUME NEW d \in Movers
        PROVE  step'[d] = "idle"
    <3>1. Active = {c}
      BY <1>2 DEF ForestInv, CompanyIsKept
    <3> QED
      BY <3>1, <1>2 DEF Active
  <2> QED
    BY <2>2, <2>3 DEF SeesExact
<1> QED
  BY <1>7, <1>8, <1>9, <1>10 DEF ForestInv

LEMMA InsertThingKeeps ==
    ASSUME ForestInv, NEW c \in Movers, NEW i \in Things, InsertThing(c, i)
    PROVE  ForestInv'
<1> DEFINE m == move[c]
           r == [parent |-> m.onto, depth |-> m.depth]
<1>1. /\ step[c] = "insert" /\ i \notin Known(tree) /\ EndCall(c)
      /\ tree' = [tree EXCEPT ![i] = r]
  BY DEF InsertThing
<1>2. /\ Whole(tree) /\ tree \in [Things -> TreeRow \cup {Nothing}]
      /\ SeenBy(c) = tree
  BY <1>1, RowsSeen DEF ForestInv
<1>3. m \in Call /\ m.onto \in Known(tree) \cup {Nothing} /\ m.depth <= MaxDepth
  BY <1>1 DEF ForestInv, TreeInv, CallsFit, CallFits
<1>4. /\ r \in TreeRow /\ r # Nothing /\ r.parent = m.onto /\ r.depth = m.depth
  BY <1>3, NothingIsNoThing, TreeAssumption DEF Call, TreeRow, TreeAssumption
<1> HIDE DEF r
<1>5. /\ tree'[i] = r /\ \A j \in Things \ {i} : tree'[j] = tree[j]
      /\ tree' \in [Things -> TreeRow \cup {Nothing}]
  BY <1>1, <1>2, <1>4
<1>6. Known(tree') = Known(tree) \cup {i}
  BY <1>1, <1>4, <1>5 DEF Known
<1>7. LeafAdded(tree, tree', i)
  BY <1>1, <1>2, <1>3, <1>4, <1>5, <1>6 DEF LeafAdded, Known
<1>8. TreeInv'
  BY <1>1, <1>5, <1>6, <1>7, LeafChangesNoWalk, EndingKeepsTypes DEF ForestInv
<1>9. overlap = {} => tree'[i].depth = DepthUnder(tree, tree'[i].parent)
  BY <1>1, <1>2, <1>4, <1>5 DEF ForestInv, DepthsAreExact, SeesExact
<1> QED
  BY <1>1, <1>7, <1>8, <1>9, CreationKeeps

LEMMA AbandonKeeps ==
    ASSUME ForestInv, NEW c \in Movers, AbandonMove(c)
    PROVE  ForestInv'
<1>1. CASE Moving(c)
  BY <1>1, AbandonedMoveKeeps
<1>2. CASE ~Moving(c)
  <2>1. step[c] = "insert" /\ tree' = tree /\ EndCall(c)
    BY <1>2 DEF AbandonMove, Moving, MoveSteps, ForestInv, TreeInv, CallsFit
  <2>2. TreeInv'
    BY <2>1, RowsSeen, EndingKeepsTypes DEF ForestInv
  <2> QED
    BY <2>1, <2>2, CreationKeeps
<1> QED
  BY <1>1, <1>2

-----------------------------------------------------------------------------
(* The tree.                                                               *)

LEMMA LowestExists ==
    ASSUME NEW S \in SUBSET Things, S # {}
    PROVE  \E i \in S : \A j \in S : Order[i] <= Order[j]
<1> DEFINE N == {Order[i] : i \in S}
<1>1. N \subseteq Nat /\ N # {}
  BY TreeAssumption DEF TreeAssumption
<1>2. PICK n \in N : \A k \in N : ~(<<k, n>> \in OpToRel(<, Nat))
  BY <1>1, NatLessThanWellFounded, WFMin
<1>3. ASSUME NEW k \in N
      PROVE  n <= k
  <2>1. n \in Nat /\ k \in Nat
    BY <1>1
  <2>2. ~(<<k, n>> \in OpToRel(<, Nat))
    BY <1>2
  <2>3. ~(k < n)
    BY <2>1, <2>2 DEF OpToRel
  <2> QED
    BY <2>1, <2>3
<1> QED
  BY <1>2, <1>3

\* The ids are in the order in which the rows were made.
LEMMA PlantedIsRooted ==
    ASSUME NEW rows, Whole(rows),
           \A i \in Known(rows) :
               rows[i].parent # Nothing => Order[rows[i].parent] < Order[i]
    PROVE  Rooted(rows)
<1> SUFFICES ASSUME NEW i \in Known(rows)
             PROVE  HasRoot(rows, i)
  BY DEF Rooted
<1>1. /\ Above(rows, i) \in SUBSET Known(rows) /\ i \in Above(rows, i)
      /\ Closed(rows, Above(rows, i)) /\ Known(rows) \subseteq Things
  BY AboveClosed DEF Known
<1>2. PICK r \in Above(rows, i) : \A j \in Above(rows, i) : Order[r] <= Order[j]
  BY <1>1, LowestExists
<1>3. rows[r].parent = Nothing
  <2> SUFFICES ASSUME rows[r].parent # Nothing
               PROVE  FALSE
    OBVIOUS
  <2>1. rows[r].parent \in Above(rows, i) /\ Order[rows[r].parent] < Order[r]
    BY <1>1 DEF Closed
  <2>2. Order[rows[r].parent] \in Nat /\ Order[r] \in Nat
    BY <2>1, <1>1, TreeAssumption DEF TreeAssumption
  <2> QED
    BY <2>1, <2>2, <1>2
<1> QED
  BY <1>3 DEF HasRoot
LEMMA ForestInit == TreeInit => ForestInv
<1> SUFFICES ASSUME TreeInit
             PROVE  ForestInv
  OBVIOUS
<1> DEFINE first == {i \in Things : Order[i] <= Planted}
           bare(up) == [i \in Things |->
              IF i \in first THEN [parent |-> up[i], depth |-> 0] ELSE Nothing]
           rows(up) == [i \in Things |->
              IF i \in first THEN [parent |-> up[i], depth |-> DepthOf(bare(up), i)]
              ELSE Nothing]
<1>1. PICK up \in [first -> first \cup {Nothing}] :
         /\ \A i \in first : up[i] # Nothing => Order[up[i]] < Order[i]
         /\ \A i \in first : rows(up)[i].depth <= MaxDepth
         /\ \/ tree = rows(up) /\ overlap = {}
            \/ /\ \E i \in first, wrong \in 1..MaxDepth :
                     tree = [rows(up) EXCEPT ![i].depth = wrong]
               /\ overlap = {{"move", "create"}}
  BY DEF TreeInit, PlantedForest
<1>2. /\ treeLock = [i \in Things |-> Nothing] /\ treePend = [i \in Things |-> Nothing]
      /\ step = [c \in Movers |-> "idle"] /\ move = [c \in Movers |-> NoMove]
  BY DEF TreeInit, NoCalls
<1>3. ASSUME NEW p \in first \cup {Nothing}, NEW d \in 0..MaxDepth
      PROVE  [parent |-> p, depth |-> d] \in TreeRow /\ [parent |-> p, depth |-> d] # Nothing
  BY <1>3, NothingIsNoThing DEF TreeRow
<1>4. \A i \in first : up[i] \in first \cup {Nothing}
  OBVIOUS
<1>5. /\ Known(bare(up)) = first
      /\ \A i \in first : bare(up)[i].parent = up[i]
  BY <1>3, <1>4, TreeAssumption DEF Known, TreeAssumption
<1>6. Whole(bare(up))
  BY <1>4, <1>5 DEF Whole, Closed
<1>7. \A i \in first : DepthOf(bare(up), i) \in 0..MaxDepth
  <2> SUFFICES ASSUME NEW i \in first
               PROVE  DepthOf(bare(up), i) \in 0..MaxDepth
    OBVIOUS
  <2>1. rows(up)[i].depth = DepthOf(bare(up), i) /\ rows(up)[i].depth <= MaxDepth
    BY <1>1
  <2> HIDE DEF bare, rows
  <2>2. DepthOf(bare(up), i) \in Nat
    BY AboveIsFinite
  <2> QED
    BY <2>1, <2>2, TreeAssumption DEF TreeAssumption
<1> HIDE DEF bare
<1>8. /\ \A i \in first : /\ tree[i] \in TreeRow /\ tree[i] # Nothing
                          /\ tree[i].parent = up[i]
                          /\ overlap = {} => tree[i].depth = DepthOf(bare(up), i)
      /\ \A i \in Things \ first : tree[i] = Nothing
      /\ DOMAIN tree = Things /\ tree = [i \in Things |-> tree[i]]
  <2>1. /\ \A i \in first : /\ rows(up)[i] \in TreeRow /\ rows(up)[i] # Nothing
                            /\ rows(up)[i].parent = up[i]
                            /\ rows(up)[i].depth = DepthOf(bare(up), i)
        /\ \A i \in Things \ first : rows(up)[i] = Nothing
        /\ DOMAIN rows(up) = Things
    BY <1>3, <1>4, <1>7
  <2>2. CASE tree = rows(up)
    BY <2>1, <2>2
  <2>3. ASSUME NEW k \in first, NEW wrong \in 1..MaxDepth,
               tree = [rows(up) EXCEPT ![k].depth = wrong],
               overlap = {{"move", "create"}}
        PROVE  <1>8!:
    <3>1. /\ tree[k] = [rows(up)[k] EXCEPT !.depth = wrong]
          /\ \A i \in Things \ {k} : tree[i] = rows(up)[i]
          /\ DOMAIN tree = Things /\ tree = [i \in Things |-> tree[i]]
      BY <2>3
    <3>2. /\ tree[k] = [parent |-> up[k], depth |-> wrong]
      BY <2>3
    <3>3. wrong \in 0..MaxDepth /\ overlap # {}
      BY <2>3
    <3>4. tree[k] \in TreeRow /\ tree[k] # Nothing /\ tree[k].parent = up[k]
      BY <3>2, <3>3, <1>3, <1>4
    <3> HIDE DEF rows
    <3> QED
      BY <3>1, <3>3, <3>4, <2>1
  <2> QED
    BY <2>2, <2>3, <1>1
<1> HIDE DEF rows
<1>9. Known(tree) = first
  BY <1>8 DEF Known
<1>10. SameParents(bare(up), tree)
  BY <1>4, <1>5, <1>6, <1>8, <1>9 DEF SameParents, Whole, Closed
<1>11. {"move"} \notin overlap
  BY <1>1
<1>12. Rooted(tree)
  BY <1>1, <1>8, <1>9, <1>10, PlantedIsRooted DEF SameParents
<1>13. Exact(tree) \/ overlap # {}
  BY <1>5, <1>8, <1>9, <1>10, SameWalks DEF Exact
<1>14. TreeInv
  <2>1. tree \in [Things -> TreeRow \cup {Nothing}]
    BY <1>8
  <2>2. TreeTypeOK
    BY <2>1, <1>2, <1>4, <1>8, <1>9 DEF TreeTypeOK, TreeRow
  <2>3. CallsFit
    BY <1>2, NoMoveFits DEF CallsFit
  <2> QED
    BY <2>2, <2>3, <1>2 DEF TreeInv, LocksAreOfMoves
<1>15. \A c \in Movers : step[c] = "idle" /\ ~Moving(c) /\ c \notin Active
  BY <1>2 DEF Moving, MoveSteps, Active
<1> QED
  BY <1>12, <1>13, <1>14, <1>15
     DEF ForestInv, CompanyIsKept, ForestIsSeen, AloneReadsHold, DepthsAreExact,
         SeesExact, Acyclic, Rooted, Active

LEMMA ForestNext == ForestInv /\ [TreeNext]_treeVars => ForestInv'
<1> SUFFICES ASSUME ForestInv, [TreeNext]_treeVars
             PROVE  ForestInv'
  OBVIOUS
<1>1. CASE UNCHANGED treeVars
  <2>1. /\ UNCHANGED <<tree, treeLock, treePend>> /\ UNCHANGED <<step, move>>
        /\ UNCHANGED <<company, overlap>>
    BY <1>1 DEF treeVars
  <2>2. TreeInv'
    BY <2>1 DEF ForestInv, TreeInv, TreeTypeOK, CallsFit, LocksAreOfMoves, Known
  <2>3. \A c \in Movers : SeenBy(c)' = SeenBy(c) /\ (Moving(c)' <=> Moving(c))
    BY <2>1 DEF SeenBy, Moving
  <2>4. CompanyIsKept'
    BY <2>1, <2>3 DEF ForestInv, CompanyIsKept, Active
  <2>5. ForestIsSeen' /\ AloneReadsHold' /\ DepthsAreExact'
    BY <2>1, <2>3 DEF ForestInv, ForestIsSeen, AloneReadsHold, DepthsAreExact, Acyclic, Known
  <2> QED
    BY <2>2, <2>4, <2>5 DEF ForestInv
<1>2. ASSUME NEW c \in Movers, NEW i \in Things, NEW onto \in Things \cup {Nothing},
             NEW kind \in {"move", "retype"}, StartMove(c, kind, i, onto)
      PROVE  ForestInv'
  BY <1>2, StartMoveKeeps
<1>3. ASSUME NEW c \in Movers, NEW onto \in Things, NEW found \in SUBSET Things,
             StartRepair(c, onto, found)
      PROVE  ForestInv'
  BY <1>3, StartRepairKeeps
<1>4. ASSUME NEW c \in Movers, NEW onto \in Things \cup {Nothing},
             NEW kind \in {"project", "task", "subtask", "item"},
             StartCreate(c, kind, onto)
      PROVE  ForestInv'
  BY <1>4, StartCreateKeeps
<1>5. ASSUME NEW c \in Movers, NEW i \in Things, NextStuck(c, i) \/ InsertThing(c, i)
      PROVE  ForestInv'
  BY <1>5, NextStuckKeeps, InsertThingKeeps
<1>6. ASSUME NEW c \in Movers, NEW b \in move[c].below, UpdateBelow(c, b)
      PROVE  ForestInv'
  BY <1>6, UpdateBelowKeeps
<1>7. ASSUME NEW c \in Movers,
             ReadDepth(c) \/ ReadRepairDepth(c) \/ UpdateMoved(c) \/ CommitMoved(c)
             \/ AbandonMove(c)
      PROVE  ForestInv'
  BY <1>7, ReadDepthKeeps, ReadRepairDepthKeeps, UpdateMovedKeeps, CommitKeeps, AbandonKeeps
<1> QED
  BY <1>1, <1>2, <1>3, <1>4, <1>5, <1>6, <1>7 DEF TreeNext

\* Every call sees a tree that its reads still describe, unless another move
\* came between: the invariant the results below follow from.
THEOREM ForestInvariance == TreeSpec => []ForestInv
<1> QED
  BY ForestInit, ForestNext, PTL DEF TreeSpec

\* Every row has its type, and no stored depth is ever past items.max_depth,
\* whatever calls overlapped.
THEOREM TreeIsTyped == TreeSpec => []TreeTypeOK
<1>1. ForestInv => TreeTypeOK
  BY DEF ForestInv, TreeInv
<1> QED
  BY <1>1, ForestInvariance, PTL

\* Only two moves that overlap can close a cycle: a creation beside a move, or
\* a move beside a creation, never does.
THEOREM OnlyMovesCloseCycles == TreeSpec => []CycleNeedsTwoMoves
<1>1. ForestInv => CycleNeedsTwoMoves
  BY DEF ForestInv, ForestIsSeen, CycleNeedsTwoMoves
<1> QED
  BY <1>1, ForestInvariance, PTL

\* Calls one after the other keep a forest in which every stored depth is the
\* number of ancestors.
THEOREM OnlyOverlapDrifts == TreeSpec => []DriftNeedsOverlap
<1>1. ForestInv => DriftNeedsOverlap
  BY DEF ForestInv, ForestIsSeen, DepthsAreExact, Exact, DriftNeedsOverlap
<1> QED
  BY <1>1, ForestInvariance, PTL
\* A move that ran alone leaves its whole subtree with the true depths, whatever
\* depths were stored before and even where the rest is no forest.
THEOREM MovesRepairDepths == TreeSpec => MoveRepairsDepth
<1>1. ForestInv /\ [TreeNext]_treeVars =>
         [\A c \in Movers :
             step[c] = "below" /\ step'[c] = "idle" /\ company[c] = {} /\ tree' # tree =>
                \A j \in Subtree(tree', move[c].item) :
                   tree'[j].depth = DepthOf(tree', j)]_treeVars
  <2> SUFFICES ASSUME ForestInv, TreeNext, NEW c \in Movers, step[c] = "below",
                      step'[c] = "idle", company[c] = {}, tree' # tree
               PROVE  \A j \in Subtree(tree', move[c].item) :
                         tree'[j].depth = DepthOf(tree', j)
    OBVIOUS
  <2>1. CommitMoved(c)
    <3>1. /\ step \in [Movers -> {"idle", "insert"} \cup MoveSteps]
          /\ \A d \in Movers : \A s, m : Proceed(d, s, m) /\ d # c => step'[c] = step[c]
      BY DEF ForestInv, TreeInv, CallsFit, Proceed
    <3>2. ASSUME NEW d \in Movers, MayBegin(d), NEW s, NEW m, BeginMove(d, s, m)
          PROVE  FALSE
      BY <3>1, <3>2 DEF MayBegin, BeginMove
    <3>3. ASSUME NEW d \in Movers, d # c, EndCall(d)
          PROVE  FALSE
      BY <3>1, <3>3 DEF EndCall
    <3>4. \A d \in Movers : ~AbandonMove(d)
      BY DEF AbandonMove
    <3>5. \A d \in Movers, i \in Things : ~InsertThing(d, i)
      BY <3>3 DEF InsertThing
    <3>6. \A d \in Movers : CommitMoved(d) => d = c
      BY <3>3 DEF CommitMoved
    <3>7. \A d \in Movers : ~ReadDepth(d) /\ ~ReadRepairDepth(d) /\ ~UpdateMoved(d)
      BY DEF ReadDepth, ReadRepairDepth, UpdateMoved
    <3>8. /\ \A d \in Movers, i \in Things : ~NextStuck(d, i)
          /\ \A d \in Movers : \A b \in move[d].below : ~UpdateBelow(d, b)
      BY DEF NextStuck, UpdateBelow
    <3>9. \A d \in Movers, i \in Things, onto \in Things \cup {Nothing},
             kind \in {"move", "retype"} : ~StartMove(d, kind, i, onto)
      BY <3>2 DEF StartMove
    <3>10. \A d \in Movers, onto \in Things, found \in SUBSET Things :
              ~StartRepair(d, onto, found)
      BY <3>2 DEF StartRepair
    <3>11. \A d \in Movers, onto \in Things \cup {Nothing},
              kind \in {"project", "task", "subtask", "item"} : ~StartCreate(d, kind, onto)
      BY <3>2 DEF StartCreate
    <3> QED
      BY <3>4, <3>5, <3>6, <3>7, <3>8, <3>9, <3>10, <3>11 DEF TreeNext
  <2>2. tree' = SeenBy(c) /\ move[c].below = {}
    BY <2>1 DEF CommitMoved
  <2>3. Mended(SeenBy(c), Subtree(SeenBy(c), move[c].item), move[c])
    BY DEF ForestInv, AloneReadsHold, ReadsHold, Moving, MoveSteps
  <2> QED
    BY <2>2, <2>3 DEF Mended
<1> QED
  BY <1>1, ForestInvariance, PTL DEF TreeSpec, MoveRepairsDepth

=============================================================================
