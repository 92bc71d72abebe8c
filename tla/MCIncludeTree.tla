---------------------------- MODULE MCIncludeTree ----------------------------
(***************************************************************************)
(* Two headers that may include each other and themselves, reachable or    *)
(* not, requested or not, one of them on the not-expand list.  What the    *)
(* policy asks to expand gets the same flag as what the user asks:         *)
(* IncludeAttrs varies it freely, here it is left out.                     *)
(***************************************************************************)
EXTENDS IncludeTree

CONSTANTS a, b
MCHeaders == {a, b}
MCNotExpand == {b}
MCVerdicts == {"keep", "deny"}
=============================================================================
