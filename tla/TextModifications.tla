-------------------------- MODULE TextModifications --------------------------
(***************************************************************************)
(* TextModifications of libcextract/SymbolExternalizer.{hh,cpp}: requests  *)
(* to replace a range of the source arrive with a priority, Solve() keeps  *)
(* a set of ranges without intersections, and Commit() hands these to      *)
(* clang's Rewriter.  SymbolExternalizer::Insert_Text goes to the Rewriter *)
(* at once.                                                                *)
(*                                                                         *)
(* A range lo..hi is what Get_Range_For_Rewriter returns: hi is the        *)
(* location after the last token, so the text is positions lo .. hi-1.     *)
(***************************************************************************)
EXTENDS Rewriter

CONSTANTS
  Length,       \* the source is the positions 0 .. Length-1
  Boundaries,   \* where declarations start: only there Insert_Text inserts
  Declarators,  \* ranges that are removed or rewritten: what getSourceRange says
                \* of a declarator (several share their specifiers), of a body
                \* or of an initializer
  Identifiers,  \* positions of the identifiers and keywords that are renamed
  Texts,        \* replacement texts, sequences of negative cells
  MaxDeltas, MaxInserts    \* bounds on the requests

Position == 0..(Length - 1)
\* A declaration starts at no position inside a range.
InOneDeclaration(r) == \A b \in Boundaries : ~(r.lo < b /\ b < r.hi)

ASSUME LengthOK == Length \in Nat
ASSUME BoundariesOK == Boundaries \subseteq Position
ASSUME DeclaratorsOK ==
  /\ Declarators \subseteq [lo : 0..Length, hi : 0..Length]
  /\ \A r \in Declarators : r.lo < r.hi /\ InOneDeclaration(r)
ASSUME IdentifiersOK ==
  /\ Identifiers \subseteq Position
  /\ \A p \in Identifiers : p + 1 \notin Identifiers   \* two never touch
ASSUME TextsOK == Texts \subseteq Seq(Int)
ASSUME BoundsOK == MaxDeltas \in Nat /\ MaxInserts \in Nat

VARIABLES
  DeltaList,    \* the requests, in order of arrival
  inserts,      \* positions given to Insert_Text, in order
  buffer,       \* the edit buffer of RW
  todo,         \* indexes Solve has not looked at
  newArr,       \* new_arr: the indexes Solve keeps, in order
  committed,    \* how many of them Commit has handed to the Rewriter
  status        \* "collect", "solve", "error" (throw), "commit", "done"

vars == <<DeltaList, inserts, buffer, todo, newArr, committed, status>>

\* 1000 removes or rewrites a declarator, 100 renames a declaration or a use,
\* 10 renames in a macro or drops `static'.
Priorities == {10, 100, 1000}
Delta == [lo : 0..Length, hi : 0..Length, text : Texts, prio : Priorities]

Removal(r, text) == [lo |-> r.lo, hi |-> r.hi, text |-> text, prio |-> 1000]
Renaming(p, text, prio) == [lo |-> p, hi |-> p + 1, text |-> text, prio |-> prio]

\* IntervalTree::findOverlappingIntervals with its default, boundary = true:
\* ranges that only touch overlap too.
Overlap(a, b) == a.lo <= b.hi /\ b.lo <= a.hi
SameText(a, b) == a.lo < b.hi /\ b.lo < a.hi
Is_Same_Change(a, b) == a.lo = b.lo /\ a.hi = b.hi /\ a.text = b.text

\* The text of the k-th Insert_Text: a declaration of two cells.  Cells of new
\* text are negative, those of the source are its positions.
NewDecl(k) == <<-2 * k, -2 * k - 1>>

Kept == {newArr[k] : k \in 1..Len(newArr)}
Overlapping_Open(i) ==        \* mutant: ranges that touch do not count
  {k \in Kept : SameText(DeltaList[k], DeltaList[i])}
Overlapping_AtStart(i) ==     \* mutant: only where the new range starts
  {k \in Kept : DeltaList[k].lo <= DeltaList[i].lo /\ DeltaList[i].lo <= DeltaList[k].hi}
Overlapping_Before(i) ==      \* mutant: half of the test
  {k \in Kept : DeltaList[k].lo <= DeltaList[i].hi}
Overlapping(i) == {k \in Kept : Overlap(DeltaList[k], DeltaList[i])}

-----------------------------------------------------------------------------
Init ==
  /\ DeltaList = <<>> /\ inserts = <<>>
  /\ buffer = OriginalBuffer(Length)
  /\ todo = {} /\ newArr = <<>> /\ committed = 0
  /\ status = "collect"

\* Replace_Text and Remove_Text.
Insert(d) ==
  /\ status = "collect" /\ Len(DeltaList) < MaxDeltas
  /\ DeltaList' = Append(DeltaList, d)
  /\ UNCHANGED <<inserts, buffer, todo, newArr, committed, status>>

Insert_Text(loc) ==
  /\ status = "collect" /\ Len(inserts) < MaxInserts
  /\ inserts' = Append(inserts, loc)
  /\ buffer' = InsertText(buffer, loc, NewDecl(Len(inserts) + 1))
  /\ UNCHANGED <<DeltaList, todo, newArr, committed, status>>

Requests == 1..Len(DeltaList)

\* Commit() calls Solve(), which sorts first.
StartSolve ==
  /\ status = "collect"
  /\ todo' = Requests
  /\ status' = IF DeltaList = <<>> THEN "commit" ELSE "solve"
  /\ UNCHANGED <<DeltaList, inserts, buffer, newArr, committed>>

(***************************************************************************)
(* One iteration of the loop of Solve().  Sort() orders by descending      *)
(* priority only, and std::sort is not stable: any index of the highest    *)
(* priority left may come next.  overlap[0] is the overlapping interval    *)
(* with the lowest start.                                                  *)
(***************************************************************************)
Next_In_Sort_Order(i) == i \in todo /\ \A j \in todo : DeltaList[j].prio <= DeltaList[i].prio
IsFirstOverlap(i, k) ==
  k \in Overlapping(i) /\ \A m \in Overlapping(i) : DeltaList[k].lo <= DeltaList[m].lo
Ignored(a, b) == a.prio <= b.prio \/ Is_Same_Change(a, b)

SolveOne(i) ==
  /\ status = "solve"
  /\ Next_In_Sort_Order(i)
  /\ todo' = todo \ {i}
  /\ LET end == IF todo = {i} THEN "commit" ELSE "solve"
     IN \/ /\ Overlapping(i) = {}
           /\ newArr' = Append(newArr, i)
           /\ status' = end
        \/ \E k \in Overlapping(i) :
             /\ IsFirstOverlap(i, k)
             /\ status' = IF Ignored(DeltaList[i], DeltaList[k]) THEN end ELSE "error"
             /\ UNCHANGED newArr
  /\ UNCHANGED <<DeltaList, inserts, buffer, committed>>

\* The loop of Commit().
CommitOne ==
  /\ status = "commit" /\ committed < Len(newArr)
  /\ LET a == DeltaList[newArr[committed + 1]]
     IN buffer' = ReplaceText(buffer, a.lo, a.hi - a.lo, a.text)
  /\ committed' = committed + 1
  /\ UNCHANGED <<DeltaList, inserts, todo, newArr, status>>

CommitDone ==
  /\ status = "commit" /\ committed = Len(newArr)
  /\ status' = "done"
  /\ UNCHANGED <<DeltaList, inserts, buffer, todo, newArr, committed>>

Next ==
  \/ \E r \in Declarators, text \in Texts : Insert(Removal(r, text))
  \/ \E p \in Identifiers, text \in Texts, prio \in {10, 100} :
       Insert(Renaming(p, text, prio))
  \/ \E loc \in Boundaries : Insert_Text(loc)
  \/ StartSolve
  \/ \E i \in todo : SolveOne(i)
  \/ CommitOne
  \/ CommitDone

Spec == Init /\ [][Next]_vars

-----------------------------------------------------------------------------
Solved == status \in {"commit", "done"}

\* Variables have their types, and the loop splits the requests into those it
\* has looked at and those it has not.
TypeOK ==
  /\ DeltaList \in Seq(Delta)
  /\ \A i \in 1..Len(DeltaList) : DeltaList[i].lo < DeltaList[i].hi
  /\ inserts \in Seq(Boundaries)
  /\ todo \subseteq 1..Len(DeltaList)
  /\ newArr \in Seq(1..Len(DeltaList))
  /\ Kept \cap todo = {}
  /\ committed \in 0..Len(newArr)
  /\ status \in {"collect", "solve", "error", "commit", "done"}

\* The Rewriter "expects that every modifications is commutative": two ranges
\* that are kept never share text, nor do they touch.
KeptAreDisjoint ==
  \A k, m \in 1..Len(newArr) :
    k # m => ~Overlap(DeltaList[newArr[k]], DeltaList[newArr[m]])

\* A request is only given up for one that is kept and at least as important.
DroppedForAWinner ==
  Solved => \A i \in 1..Len(DeltaList) : i \in Kept \/
    \E k \in Kept : /\ Overlap(DeltaList[i], DeltaList[k])
                    /\ DeltaList[i].prio <= DeltaList[k].prio

\* "Every modifications is commutative, that means A + B = B + A": at any time
\* the buffer is the source with the ranges committed so far replaced and the
\* insertions in place, whatever the order was; in particular no inserted
\* declaration is lost, though Insert_Text reached the Rewriter before Solve knew
\* what would be removed.
Committed == {newArr[k] : k \in 1..committed}
Covered(p) == \E k \in Committed : DeltaList[k].lo <= p /\ p < DeltaList[k].hi
InsertedAt(p) ==
  FlattenSeq([k \in 1..Len(inserts) |-> IF inserts[k] = p THEN NewDecl(k) ELSE <<>>])
NewTextAt(p) == {DeltaList[k].text : k \in {m \in Committed : DeltaList[m].lo = p}}
OutputAt(p) ==
  InsertedAt(p) \o
    CASE NewTextAt(p) # {} -> CHOOSE text \in NewTextAt(p) : TRUE
      [] Covered(p) /\ NewTextAt(p) = {} -> <<>>
      [] ~Covered(p) /\ NewTextAt(p) = {} -> <<p>>
OutputText == FlattenSeq([p \in 1..Length |-> OutputAt(p - 1)])
EditsCommute == buffer.cells = OutputText

NoConflicts ==
  \A i, j \in 1..Len(DeltaList) :
    LET a == DeltaList[i]
        b == DeltaList[j]
    IN i # j /\ a.prio = b.prio => ~Overlap(a, b) \/ Is_Same_Change(a, b)

\* What the kept requests are when they are taken one priority at a time, the
\* highest first: those that overlap nothing accepted at a higher priority.
Accepted[p \in Priorities] ==
  LET above == UNION {Accepted[q] : q \in {r \in Priorities : r > p}}
  IN {a \in {DeltaList[i] : i \in 1..Len(DeltaList)} :
        a.prio = p /\ \A b \in above : ~Overlap(a, b)}

\* Without conflicts at one priority the instability of std::sort is harmless:
\* the text that comes out is the same for every order.
SortOrderIrrelevant ==
  Solved /\ NoConflicts =>
    {DeltaList[k] : k \in Kept} = UNION {Accepted[p] : p \in Priorities}
=============================================================================
