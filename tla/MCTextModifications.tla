------------------------- MODULE MCTextModifications -------------------------
(***************************************************************************)
(* Two declarations, the second right behind the first:                    *)
(*                                                                         *)
(*   0 1 2 3     specifiers, a gap, a name, and the rest up to the end     *)
(*   4 5         the specifiers of the second one, and its rest            *)
(*                                                                         *)
(* 0..3 and 0..4 are two declarators of one declaration, 3..4 a body.      *)
(* Removing leaves nothing, a new name or text is three cells long, so     *)
(* that no edit of a token keeps the length.                               *)
(***************************************************************************)
EXTENDS TextModifications

MCBoundaries == {0, 4}
MCDeclarators == {[lo |-> 0, hi |-> 3], [lo |-> 0, hi |-> 4], [lo |-> 3, hi |-> 4],
                  [lo |-> 4, hi |-> 6]}
MCIdentifiers == {0, 2, 4}
MCTexts == {<<>>, <<-101, -102, -103>>}
=============================================================================
