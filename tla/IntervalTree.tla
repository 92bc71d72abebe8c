----------------------------- MODULE IntervalTree -----------------------------
(***************************************************************************)
(* The red-black tree of libcextract/IntervalTree.hh.  A node holds every  *)
(* interval of one lower bound, ordered by the upper bound; lowest and     *)
(* highest are the bounds of its subtree, which the searches prune by.     *)
(* TextModifications::Solve inserts into it and searches it; the rest of   *)
(* its interface is modelled as well.                                      *)
(*                                                                         *)
(* One action per call.  A new node is called by the lower bound of its    *)
(* interval; a node that takes over the intervals of another one changes   *)
(* its name (Renamed), because addresses can not be observed.              *)
(***************************************************************************)
EXTENDS Integers, FiniteSets, SequencesExt

CONSTANTS
  Intervals,    \* the intervals that calls may mention
  QueryPoints   \* the ends of the intervals that are searched for

\* The constructor orders the ends.
Interval(a, b) == [low |-> Min({a, b}), high |-> Max({a, b}), value |-> 0]

\* A location is never below that of m_nill, the default (SourceLocation(),
\* which is invalid).
ASSUME IntervalsOK ==
  \A iv \in Intervals : /\ iv.low \in Nat \ {0}
                        /\ iv.high \in Nat
                        /\ iv.low <= iv.high

VARIABLES
  tree,         \* m_root, and the fields of each node
  size          \* m_size
vars == <<tree, size>>

Nil == 0        \* m_nill
Null == -1
Lows == {iv.low : iv \in Intervals}

\* m_nill, and in this model also a place where no node is.
Blank == [color |-> "Black", parent |-> Null, left |-> Null, right |-> Null,
          high |-> 0, lowest |-> 0, highest |-> 0, intervals |-> <<>>]
NewNode(iv, col) ==
  [color |-> col, parent |-> Nil, left |-> Nil, right |-> Nil,
   high |-> iv.high, lowest |-> iv.low, highest |-> iv.high, intervals |-> <<iv>>]
Empty == [root |-> Nil, node |-> [n \in Lows \cup {Nil} |-> Blank]]

\* intervals.front().low: an error for a node without intervals.
Low(t, n) == Head(t.node[n].intervals).low
Set(t, n, field, v) == [t EXCEPT !.node[n][field] = v]

-----------------------------------------------------------------------------
(* Links and rotations *)

nodePosition(t, n) == IF t.node[t.node[n].parent].left = n THEN "left" ELSE "right"
Other(pos) == IF pos = "left" THEN "right" ELSE "left"
siblingNode(t, n) == t.node[t.node[n].parent][Other(nodePosition(t, n))]

setChildNode(t, n, child, pos) ==
  [t EXCEPT !.node[n][pos] = child,
            !.node[child].parent = IF child = Nil THEN @ ELSE n]

\* The parent of n gets child in its place; n keeps its own parent.
swapRelations(t, n, child) ==
  IF t.node[n].parent = Nil
  THEN [t EXCEPT !.root = child,
                 !.node[child].parent = IF child = Nil THEN @ ELSE Nil]
  ELSE setChildNode(t, t.node[n].parent, child, nodePosition(t, n))

isNodeAboutToBeDestroyed(t, n) == n # Nil /\ t.node[n].intervals = <<>>
Larger(a, b) == IF a < b THEN b ELSE a

\* The child that counts for the limits.
LiveChild(t, n, pos) ==
  IF isNodeAboutToBeDestroyed(t, t.node[n][pos]) THEN Nil ELSE t.node[n][pos]
updateNodeLimits(t, n) ==
  [t EXCEPT
     !.node[n].lowest = LET l == LiveChild(t, n, "left")
                        IN  IF l # Nil THEN t.node[l].lowest ELSE Low(t, n),
     !.node[n].highest = Max({t.node[n].high,
                              t.node[LiveChild(t, n, "left")].highest,
                              t.node[LiveChild(t, n, "right")].highest})]

\* n and its child, which came up, exchange their colours, and the child takes
\* the limits of both.
ExchangeColors(t, n, child) ==
  [t EXCEPT !.node[n].color = t.node[child].color,
            !.node[child].color = t.node[n].color,
            !.node[child].highest = Larger(@, t.node[n].highest),
            !.node[child].lowest = Min({@, t.node[n].lowest})]
rotateCommon(t, n, child) == ExchangeColors(updateNodeLimits(t, n), n, child)

\* rotateLeft, rotateRight: n goes down to the given side, its child comes up.
Rotated(t, n, down) ==
  LET child == t.node[n][Other(down)]
      inner == t.node[child][down]
  IN  rotateCommon(
        setChildNode(setChildNode(swapRelations(t, n, child), n, inner, Other(down)),
                     child, n, down),
        n, child)
\* n comes up.
rotate(t, n) == Rotated(t, t.node[n].parent, Other(nodePosition(t, n)))

-----------------------------------------------------------------------------
(* Insertion *)

RECURSIVE findNode(_, _, _)
findNode(t, n, low) ==
  LET child == IF low < Low(t, n) THEN t.node[n].left
               ELSE IF Low(t, n) < low THEN t.node[n].right ELSE Nil
  IN  IF child = Nil THEN n ELSE findNode(t, child, low)

RECURSIVE insertionFixNodeLimits(_, _)
insertionFixNodeLimits(t, n) ==
  LET p == t.node[n].parent
      hi == t.node[p].highest < t.node[n].highest
      lo == t.node[n].lowest < t.node[p].lowest
      t1 == IF hi THEN Set(t, p, "highest", t.node[n].highest) ELSE t
      t2 == IF lo THEN Set(t1, p, "lowest", t.node[n].lowest) ELSE t1
  IN  IF p = Nil \/ (~hi /\ ~lo) THEN t ELSE insertionFixNodeLimits(t2, p)

RECURSIVE insertionFix(_, _)
insertionFix(t, n) ==
  LET p == t.node[n].parent
      uncle == siblingNode(t, p)
      grand == t.node[p].parent
      inner == nodePosition(t, n) # nodePosition(t, p)
      t1 == IF inner THEN rotate(t, n) ELSE t
      top == IF inner THEN n ELSE p
  IN  IF t.node[n].color = "Red" /\ t.node[p].color = "Red"
      THEN IF t.node[uncle].color = "Red"
           THEN insertionFix([t EXCEPT !.node[uncle].color = "Black",
                                       !.node[p].color = "Black",
                                       !.node[grand].color = "Red"], grand)
           ELSE insertionFix(rotate(t1, top), top)
      ELSE IF p = Nil THEN Set(t, n, "color", "Black") ELSE t

createChildNode(t, parent, iv, pos) ==
  LET t1 == [t EXCEPT !.node[iv.low] = NewNode(iv, "Red")]
      t2 == setChildNode(t1, parent, iv.low, pos)
  IN  insertionFix(insertionFixNodeLimits(t2, iv.low), iv.low)

\* std::lower_bound by the upper bound.
InsertByHigh(s, iv) ==
  LET Before(x) == x.high < iv.high
      After(x) == ~(x.high < iv.high)
  IN  SelectSeq(s, Before) \o <<iv>> \o SelectSeq(s, After)

AddToNode_NoLimits(t, n, iv) ==           \* mutant: highest is not passed up
  [t EXCEPT !.node[n].high = Larger(@, iv.high),
            !.node[n].intervals = InsertByHigh(@, iv)]
AddToNode(t, n, iv) ==
  LET t1 == Set(t, n, "high", Larger(t.node[n].high, iv.high))
      t2 == IF t1.node[n].highest < t1.node[n].high
            THEN insertionFixNodeLimits(Set(t1, n, "highest", t1.node[n].high), n)
            ELSE t1
  IN  [t2 EXCEPT !.node[n].intervals = InsertByHigh(@, iv)]

isNodeHasInterval(t, n, iv) == iv \in Range(t.node[n].intervals)
contains(t, iv) ==
  t.root # Nil /\ isNodeHasInterval(t, findNode(t, t.root, iv.low), iv)

\* The tree after insert(iv), for an interval that is not in it.
Inserted(t, iv) ==
  LET n == findNode(t, t.root, iv.low)
  IN  IF t.root = Nil
      THEN [root |-> iv.low, node |-> [t.node EXCEPT ![iv.low] = NewNode(iv, "Black")]]
      ELSE IF iv.low < Low(t, n) THEN createChildNode(t, n, iv, "left")
      ELSE IF Low(t, n) < iv.low THEN createChildNode(t, n, iv, "right")
      ELSE AddToNode(t, n, iv)

-----------------------------------------------------------------------------
(* Removal *)

\* Goes up from n: a parent that already has the limits of its child ends it,
\* if more than minRange nodes have been done.
RECURSIVE FixLimitsUp(_, _, _, _)
FixLimitsUp(t, n, minRange, range) ==
  LET u == updateNodeLimits(t, n)
      p == t.node[n].parent
      finish == /\ minRange < range
                /\ u.node[n].highest = u.node[p].highest
                /\ u.node[n].lowest = u.node[p].lowest
  IN  IF n = Nil THEN t
      ELSE IF finish THEN u ELSE FixLimitsUp(u, p, minRange, range + 1)
removeFixNodeLimits(t, n, minRange) == FixLimitsUp(t, n, minRange, 0)

\* n lacks a black node, and its sibling s is black.
RECURSIVE removeFix(_, _)
FixNext(t, n) == removeFix(t, siblingNode(t, t.node[n].parent))
FixWithBlackSibling(t, n, s) ==
  LET side == nodePosition(t, s)
      BlackChild(pos) == t.node[t.node[s][pos]].color = "Black"
  IN  IF BlackChild("left") /\ BlackChild("right")
      THEN removeFix(Set(t, s, "color", "Red"), t.node[n].parent)
      ELSE IF BlackChild(side)
      THEN FixNext(rotate(Rotated(t, s, side), t.node[s][Other(side)]), n)
      ELSE FixNext(rotate(t, s), n)
FixSibling(t, n) == FixWithBlackSibling(t, n, siblingNode(t, n))
removeFix(t, n) ==
  IF t.node[n].color = "Black" /\ t.node[n].parent # Nil
  THEN IF t.node[siblingNode(t, n)].color = "Red"
       THEN FixSibling(rotate(t, siblingNode(t, n)), n)
       ELSE FixSibling(t, n)
  ELSE Set(t, n, "color", "Black")

\* The child takes the place of the red or black node; it is black then.
Blackened(t, n) == IF t.node[n].color = "Red" THEN Set(t, n, "color", "Black") ELSE t
CutOff(t, n) ==
  IF t.node[n].parent = Nil THEN t
  ELSE setChildNode(t, t.node[n].parent, Nil, nodePosition(t, n))

Detached_KeepsRed(t, dying, child) ==     \* mutant: the child is not recoloured
  IF "Red" \in {t.node[dying].color, t.node[child].color}
  THEN swapRelations(t, dying, child)
  ELSE CutOff(IF child = Nil THEN removeFix(t, dying)
              ELSE removeFix(swapRelations(t, dying, child), child), dying)
\* The node without intervals that dying is leaves the tree; child takes its
\* place, if there is one.
Detached(t, dying, child) ==
  IF "Red" \in {t.node[dying].color, t.node[child].color}
  THEN Blackened(swapRelations(t, dying, child), child)
  ELSE CutOff(IF child = Nil THEN removeFix(t, dying)
              ELSE removeFix(swapRelations(t, dying, child), child), dying)

LimitsAbove(t, n, minRange) ==
  IF t.node[n].parent = Nil THEN t ELSE removeFixNodeLimits(t, t.node[n].parent, minRange)
Unlinked_OneLevel(t, dying, child) ==     \* mutant: stops at the parent
  IF child = Nil /\ t.node[dying].parent = Nil THEN swapRelations(t, dying, child)
  ELSE LET u == Detached(t, dying, child)
       IN  IF u.node[dying].parent = Nil THEN u
           ELSE updateNodeLimits(u, u.node[dying].parent)
Unlinked(t, dying, child) ==
  IF child = Nil /\ t.node[dying].parent = Nil THEN swapRelations(t, dying, child)
  ELSE LimitsAbove(Detached(t, dying, child), dying, 1)

RECURSIVE Leftmost(_, _)
Leftmost(t, n) == IF t.node[n].left = Nil THEN n ELSE Leftmost(t, t.node[n].left)

\* The node called n is from now on called m, and m is deleted.
Renamed(t, n, m) ==
  LET New(x) == IF x = n THEN m ELSE x
      f(r) == [r EXCEPT !.parent = New(@), !.left = New(@), !.right = New(@)]
  IN  [root |-> New(t.root),
       node |-> [x \in DOMAIN t.node |->
                   IF x = m THEN f(t.node[n]) ELSE IF x = n THEN Blank ELSE f(t.node[x])]]

NodeRemoved_DropsChild(t, n) ==           \* mutant: forgets the child of next
  LET l == t.node[n].left
      r == t.node[n].right
      next == Leftmost(t, r)
      taken == [t EXCEPT !.node[n].intervals = t.node[next].intervals,
                         !.node[n].high = t.node[next].high,
                         !.node[next].intervals = <<>>]
  IN  IF l # Nil /\ r # Nil
      THEN Renamed(Unlinked(removeFixNodeLimits(taken, n, 0), next, Nil), n, next)
      ELSE [Unlinked(t, n, IF r = Nil THEN l ELSE r) EXCEPT !.node[n] = Blank]
\* remove() for a node whose only interval is removed.
NodeRemoved(t, n) ==
  LET l == t.node[n].left
      r == t.node[n].right
      next == Leftmost(t, r)
      taken == [t EXCEPT !.node[n].intervals = t.node[next].intervals,
                         !.node[n].high = t.node[next].high,
                         !.node[next].intervals = <<>>]
  IN  IF l # Nil /\ r # Nil
      THEN Renamed(Unlinked(removeFixNodeLimits(taken, n, 0), next, t.node[next].right),
                   n, next)
      ELSE [Unlinked(t, n, IF r = Nil THEN l ELSE r) EXCEPT !.node[n] = Blank]

findHighest(intervals) == Max({iv.high : iv \in intervals})

\* remove() for a node that keeps other intervals.
IntervalRemoved(t, n, iv) ==
  LET t1 == IF iv.high = t.node[n].high
            THEN Set(t, n, "high", findHighest(Range(t.node[n].intervals))) ELSE t
  IN  IF iv.high = t.node[n].highest THEN removeFixNodeLimits(t1, n, 0) ELSE t1

\* The tree after remove(iv), for an interval that is in it.
Removed(t, iv) ==
  LET n == findNode(t, t.root, iv.low)
      t1 == [t EXCEPT !.node[n].intervals = LET Else(x) == x # iv
                                            IN  SelectSeq(@, Else)]
  IN  IF isNodeAboutToBeDestroyed(t1, n) THEN NodeRemoved(t1, n)
      ELSE IntervalRemoved(t1, n, iv)

-----------------------------------------------------------------------------
(* Searches: what reaches the callback, in order *)

Upto(a, b, boundary) == IF boundary THEN a <= b ELSE a < b

RECURSIVE subtreeIntervals(_, _)
subtreeIntervals(t, n) ==
  IF n = Nil THEN <<>>
  ELSE subtreeIntervals(t, t.node[n].left) \o t.node[n].intervals
         \o subtreeIntervals(t, t.node[n].right)

\* Overlapping, outer and point searches differ only in the bounds: intervals
\* that begin up to `to' and reach `from'.  A loop over the intervals of a
\* node stops at the first one that does not reach, as the rest is lower.
RECURSIVE Reaching(_, _, _, _, _)
Reaching(t, n, from, to, boundary) ==
  LET Reaches(iv) == Upto(from, iv.high, boundary)
      l == t.node[n].left
      prune == l = Nil \/ ~Upto(from, t.node[l].highest, boundary)
  IN  IF n = Nil THEN <<>>
      ELSE (IF prune THEN <<>> ELSE Reaching(t, l, from, to, boundary))
           \o (IF Upto(Low(t, n), to, boundary)
               THEN SelectSeq(Reverse(t.node[n].intervals), Reaches)
                      \o Reaching(t, t.node[n].right, from, to, boundary)
               ELSE <<>>)

subtreeOverlappingIntervals(t, n, q, boundary) == Reaching(t, n, q.low, q.high, boundary)
subtreeOuterIntervals(t, n, q, boundary) == Reaching(t, n, q.high, q.low, boundary)
subtreeIntervalsContainPoint(t, n, p, boundary) == Reaching(t, n, p, p, boundary)

RECURSIVE subtreeInnerIntervals(_, _, _, _)
subtreeInnerIntervals(t, n, q, boundary) ==
  LET Ends(iv) == Upto(iv.high, q.high, boundary)
      r == t.node[n].right
      prune == r = Nil \/ ~Upto(t.node[r].lowest, q.high, boundary)
  IN  IF n = Nil THEN <<>>
      ELSE (IF Upto(q.low, Low(t, n), boundary)
            THEN subtreeInnerIntervals(t, t.node[n].left, q, boundary)
                   \o SelectSeq(t.node[n].intervals, Ends)
            ELSE <<>>)
           \o (IF prune THEN <<>> ELSE subtreeInnerIntervals(t, r, q, boundary))

Content == Range(subtreeIntervals(tree, tree.root))     \* intervals()
findOverlappingIntervals(q, boundary) == subtreeOverlappingIntervals(tree, tree.root, q, boundary)
findInnerIntervals(q, boundary) == subtreeInnerIntervals(tree, tree.root, q, boundary)
findOuterIntervals(q, boundary) == subtreeOuterIntervals(tree, tree.root, q, boundary)
findIntervalsContainPoint(p, boundary) == subtreeIntervalsContainPoint(tree, tree.root, p, boundary)

-----------------------------------------------------------------------------
Init == tree = Empty /\ size = 0

insert(iv) ==
  /\ ~contains(tree, iv)          \* otherwise the call returns false
  /\ tree' = Inserted(tree, iv)
  /\ size' = size + 1

remove(iv) ==
  /\ contains(tree, iv)
  /\ tree' = Removed(tree, iv)
  /\ size' = size - 1

clear == tree' = Empty /\ size' = 0

Next == (\E iv \in Intervals : insert(iv) \/ remove(iv)) \/ clear
Spec == Init /\ [][Next]_vars

-----------------------------------------------------------------------------
(* Properties *)


Nodes == {n \in Lows : tree.node[n].intervals # <<>>}

\* TypeOK: a name is that of the intervals the node holds, and what is not in
\* the tree is blank.
TypeOK ==
  /\ size \in Nat
  /\ tree.root \in Nodes \cup {Nil}
  /\ tree.node[Nil] = Blank
  /\ \A n \in Lows \ Nodes : tree.node[n] = Blank
  /\ \A n \in Nodes :
       LET r == tree.node[n]
       IN  /\ {r.parent, r.left, r.right} \subseteq Nodes \cup {Nil}
           /\ r.color \in {"Red", "Black"}
           /\ {iv.low : iv \in Range(r.intervals)} = {n}

\* The calls implement the abstract set: nothing is lost or doubled, however
\* nodes are rotated, unlinked, or take over the intervals of others, and
\* size() counts intervals, not nodes.
Promise == INSTANCE IntervalSet WITH set <- Content
ImplementsSet == Promise!Spec

\* Every limit that a search prunes by is that of the subtree as it is: after
\* insertions that pass a limit up only while it changes, and removals that
\* stop going up when a parent agrees with its child.
LimitsAreTight ==
  LET Below[n \in Nodes \cup {Nil}] ==
        IF n = Nil THEN {}
        ELSE Range(tree.node[n].intervals)
               \cup Below[tree.node[n].left] \cup Below[tree.node[n].right]
  IN  \A n \in Nodes :
        /\ tree.node[n].lowest = Min({iv.low : iv \in Below[n]})
        /\ tree.node[n].highest = findHighest(Below[n])
        /\ tree.node[n].high = findHighest(Range(tree.node[n].intervals))

\* The tree stays a tree, and balanced: the root is black, no red node has a red child,
\* and each way down passes the same number of black nodes (-1: they differ).
Balanced ==
  LET Blacks[n \in Nodes \cup {Nil}] ==
        IF n = Nil THEN 0
        ELSE LET l == Blacks[tree.node[n].left]
                 r == Blacks[tree.node[n].right]
             IN  IF l = -1 \/ l # r THEN -1
                 ELSE IF tree.node[n].color = "Black" THEN l + 1 ELSE l
  IN  /\ TypeOK
      /\ Blacks[tree.root] # -1
      /\ tree.node[tree.root].color = "Black"
      /\ \A n \in Nodes : tree.node[n].color = "Red" =>
           tree.node[tree.node[n].parent].color = "Black"

\* Each search reports exactly the intervals it is defined by, each once, in
\* the order of their lower bounds.  TextModifications::Solve relies on the
\* order: it only looks at the first result.
InOrder(s) == \A i, j \in DOMAIN s : i < j => s[i].low <= s[j].low /\ s[i] # s[j]
SearchesAreExact ==
  \A b \in BOOLEAN : \A lo \in QueryPoints : \A hi \in QueryPoints :
    LET q == Interval(hi, lo)
        overlapping == findOverlappingIntervals(q, b)
        inner == findInnerIntervals(q, b)
        outer == findOuterIntervals(q, b)
    IN  lo <= hi =>
          /\ InOrder(overlapping) /\ InOrder(inner) /\ InOrder(outer)
          /\ Range(overlapping) = {iv \in Content : Promise!Overlaps(iv, q, b)}
          /\ Range(inner) = {iv \in Content : Promise!Inside(iv, q, b)}
          /\ Range(outer) = {iv \in Content : Promise!Around(iv, q, b)}
          /\ lo = hi => findIntervalsContainPoint(lo, b) = outer
=============================================================================
