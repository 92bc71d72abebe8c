--------------------------- MODULE MCPassManager ---------------------------
(***************************************************************************)
(* Two symbols: enough for one to be extracted and the other externalized, *)
(* for a list that names one symbol twice, and for every combination of    *)
(* the options.                                                            *)
(***************************************************************************)
EXTENDS PassManager, TLC

CONSTANTS f, g
const_Symbols == {f, g}
Symmetric == Permutations(const_Symbols)
=============================================================================
