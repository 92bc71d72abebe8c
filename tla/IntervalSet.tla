----------------------------- MODULE IntervalSet -----------------------------
(***************************************************************************)
(* What IntervalTree of libcextract/IntervalTree.hh promises: a set of     *)
(* intervals and its size.  Two intervals are the same if both ends and    *)
(* the value are (Interval::operator==).                                   *)
(***************************************************************************)
EXTENDS Integers, FiniteSets

CONSTANT Intervals        \* records [low, high, value]

VARIABLES set, size
setvars == <<set, size>>

Init == set = {} /\ size = 0

\* An operation leaves a set, and the size is that of the set.
Becomes(S) == set' = S /\ size' = Cardinality(S)

Insert(iv) == Becomes(set \cup {iv})
Remove(iv) == Becomes(set \ {iv})
Clear == Becomes({})

Next == (\E iv \in Intervals : Insert(iv) \/ Remove(iv)) \/ Clear
Spec == Init /\ [][Next]_setvars

-----------------------------------------------------------------------------
(* The four searches.  With `boundary' an end that coincides counts.       *)

Upto(a, b, boundary) == IF boundary THEN a <= b ELSE a < b

Overlaps(iv, q, boundary) ==
  Upto(iv.low, q.high, boundary) /\ Upto(q.low, iv.high, boundary)
Inside(iv, q, boundary) ==
  Upto(q.low, iv.low, boundary) /\ Upto(iv.high, q.high, boundary)
Around(iv, q, boundary) ==
  Upto(iv.low, q.low, boundary) /\ Upto(q.high, iv.high, boundary)
=============================================================================
