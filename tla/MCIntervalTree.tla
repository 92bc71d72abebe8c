--------------------------- MODULE MCIntervalTree ---------------------------
(***************************************************************************)
(* Eight lower bounds, so that a tree has up to four levels and a removal  *)
(* can rotate above the node it started from.                              *)
(***************************************************************************)
EXTENDS IntervalTree

MCIntervals ==
  {Interval(1, 7), Interval(2, 2), Interval(9, 3), Interval(4, 5),
   Interval(4, 8), Interval(5, 6), Interval(6, 6), Interval(7, 8), Interval(8, 9)}
MCQueryPoints == {1, 2, 5, 7, 9}
=============================================================================
