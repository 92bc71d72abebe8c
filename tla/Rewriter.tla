------------------------------ MODULE Rewriter ------------------------------
(***************************************************************************)
(* clang's RewriteBuffer, as TextModifications uses it: InsertText and     *)
(* ReplaceText give positions of the original source, which the buffer     *)
(* maps through the changes made so far.  External to the repository.      *)
(*                                                                         *)
(* A buffer is [cells, deltas].  A cell is a position of the original or a *)
(* piece of new text; a delta says that the buffer grew by "by" cells at   *)
(* index 2*p (an insertion before p) or 2*p + 1 (a replacement at p).      *)
(***************************************************************************)
EXTENDS Integers, Sequences, SequencesExt

OriginalBuffer(len) == [cells |-> [p \in 1..len |-> p - 1], deltas |-> <<>>]

\* getMappedOffset: insertions before the position count, AddInserts = true.
Mapped(buf, pos) ==
  LET upTo[n \in 0..Len(buf.deltas)] ==
        IF n = 0 THEN pos
        ELSE upTo[n - 1] + IF buf.deltas[n].at < 2 * pos + 1 THEN buf.deltas[n].by ELSE 0
  IN upTo[Len(buf.deltas)]

Splice(cells, at, len, text) ==
  SubSeq(cells, 1, at) \o text \o SubSeq(cells, at + len + 1, Len(cells))

InsertText(buf, pos, text) ==
  [cells |-> Splice(buf.cells, Mapped(buf, pos), 0, text),
   deltas |-> Append(buf.deltas, [at |-> 2 * pos, by |-> Len(text)])]

ReplaceText(buf, pos, len, text) ==
  [cells |-> Splice(buf.cells, Mapped(buf, pos), len, text),
   deltas |-> IF Len(text) = len THEN buf.deltas
              ELSE Append(buf.deltas, [at |-> 2 * pos + 1, by |-> Len(text) - len])]
=============================================================================
