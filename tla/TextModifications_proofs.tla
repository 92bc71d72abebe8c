---------------------- MODULE TextModifications_proofs ----------------------
(***************************************************************************)
(* Proofs about TextModifications: first Solve, for any number of          *)
(* requests, then what the Rewriter's buffer holds after any sequence of   *)
(* insertions and commits.                                                 *)
(***************************************************************************)
EXTENDS TextModifications, SequenceTheorems, WellFoundedInduction, TLAPS

\* Solve has not started, or has looked at what is not in todo: nothing left
\* has a higher priority than anything kept, and what was not kept lost to
\* something kept.
SolveInv ==
  /\ status = "collect" => newArr = <<>> /\ todo = {}
  /\ Solved => todo = {}
  /\ \A i \in todo : \A k \in Kept : DeltaList[i].prio <= DeltaList[k].prio
  /\ status # "collect" /\ status # "error" =>
       \A i \in 1..Len(DeltaList) : \/ i \in todo
                                    \/ i \in Kept
                                    \/ \E k \in Kept : /\ Overlap(DeltaList[i], DeltaList[k])
                                                       /\ DeltaList[i].prio <= DeltaList[k].prio

IInv == TypeOK /\ SolveInv /\ KeptAreDisjoint

-----------------------------------------------------------------------------
\* Touching ranges overlap from either side.
LEMMA OverlapSymmetric ==
  \A a, b : Overlap(a, b) <=> Overlap(b, a)
BY DEF Overlap

\* Appending to new_arr adds one index to those kept.
LEMMA KeptAppend ==
  ASSUME TypeOK, NEW i \in 1..Len(DeltaList), newArr' = Append(newArr, i)
  PROVE  /\ Kept' = Kept \cup {i}
         /\ newArr' \in Seq(1..Len(DeltaList)) /\ Len(newArr') = Len(newArr) + 1
         /\ \A k \in 1..Len(newArr) : newArr'[k] = newArr[k]
         /\ newArr'[Len(newArr) + 1] = i
<1>1. newArr \in Seq(1..Len(DeltaList)) /\ Len(newArr) \in Nat
  BY DEF TypeOK
<1>2. /\ newArr' \in Seq(1..Len(DeltaList)) /\ Len(newArr') = Len(newArr) + 1
      /\ \A k \in 1..Len(newArr) : newArr'[k] = newArr[k]
      /\ newArr'[Len(newArr) + 1] = i
  BY <1>1
<1>3. 1..Len(newArr') = (1..Len(newArr)) \cup {Len(newArr) + 1}
  BY <1>1, <1>2
<1>4. Kept' = Kept \cup {i}
  BY <1>2, <1>3 DEF Kept
<1>5. QED
  BY <1>2, <1>4

\* Nothing is requested yet.
LEMMA InitIInv == Init => IInv
<1> SUFFICES ASSUME Init PROVE IInv
  OBVIOUS
<1>1. Len(newArr) = 0 /\ Len(DeltaList) = 0 /\ Kept = {}
  BY DEF Init, Kept
<1>2. TypeOK
  BY <1>1 DEF Init, TypeOK
<1>3. SolveInv /\ KeptAreDisjoint
  BY <1>1 DEF Init, SolveInv, KeptAreDisjoint, Solved
<1>4. QED
  BY <1>2, <1>3 DEF IInv

\* A request arrives before Solve starts.
LEMMA InsertIInv ==
  ASSUME IInv, NEW d \in Delta, d.lo < d.hi, Insert(d)
  PROVE  IInv'
<1>1. /\ DeltaList \in Seq(Delta) /\ newArr = <<>> /\ todo = {} /\ status = "collect"
      /\ DeltaList' = Append(DeltaList, d)
      /\ newArr' = <<>> /\ todo' = {} /\ status' = "collect" /\ inserts' = inserts
      /\ committed' = committed
  BY DEF IInv, TypeOK, SolveInv, Insert
<1>2. Kept = {} /\ Kept' = {} /\ Len(newArr') = 0 /\ Len(newArr) = 0
  BY <1>1 DEF Kept
<1>3. TypeOK'
  <2>1. DeltaList' \in Seq(Delta) /\ Len(DeltaList') = Len(DeltaList) + 1
    BY <1>1
  <2>2. \A i \in 1..Len(DeltaList') : DeltaList'[i].lo < DeltaList'[i].hi
    BY <1>1, <2>1 DEF IInv, TypeOK
  <2>3. QED
    BY <1>1, <1>2, <2>1, <2>2 DEF IInv, TypeOK
<1>4. SolveInv' /\ KeptAreDisjoint'
  BY <1>1, <1>2 DEF SolveInv, KeptAreDisjoint, Solved
<1>5. QED
  BY <1>3, <1>4 DEF IInv

\* Steps that leave the requests, and what Solve knows of them, alone.
LEMMA FrameIInv ==
  ASSUME IInv,
         UNCHANGED <<DeltaList, todo, newArr>>, inserts' \in Seq(Boundaries),
         committed' \in 0..Len(newArr),
         \/ status' = status
         \/ Solved /\ status' \in {"commit", "done"}
  PROVE  IInv'
<1>1. Kept' = Kept
  BY DEF Kept
<1>2. TypeOK'
  BY <1>1 DEF IInv, TypeOK, Solved
<1>3. SolveInv'
  BY <1>1 DEF IInv, SolveInv, Solved
<1>4. KeptAreDisjoint'
  BY DEF IInv, KeptAreDisjoint
<1>5. QED
  BY <1>2, <1>3, <1>4 DEF IInv

\* Solve begins with every request to look at.
LEMMA StartSolveIInv == IInv /\ StartSolve => IInv'
<1> SUFFICES ASSUME IInv, StartSolve PROVE IInv'
  OBVIOUS
<1>1. /\ newArr = <<>> /\ newArr' = <<>> /\ DeltaList' = DeltaList /\ inserts' = inserts
      /\ committed' = committed /\ todo' = 1..Len(DeltaList)
      /\ status' = IF DeltaList = <<>> THEN "commit" ELSE "solve"
  BY DEF IInv, SolveInv, StartSolve, Requests
<1>2. Kept = {} /\ Kept' = {} /\ Len(newArr') = 0
  BY <1>1 DEF Kept
<1>3. TypeOK'
  BY <1>1, <1>2 DEF IInv, TypeOK
<1>4. KeptAreDisjoint'
  BY <1>2 DEF KeptAreDisjoint
<1>5. SolveInv'
  <2>1. status' = "commit" => todo' = {}
    BY <1>1
  <2>2. QED
    BY <1>1, <1>2, <2>1 DEF SolveInv, Solved
<1>6. QED
  BY <1>3, <1>4, <1>5 DEF IInv

-----------------------------------------------------------------------------
\* The loop of Solve: the next request is kept when nothing kept overlaps it,
\* and otherwise loses to one that was sorted before it.
LEMMA SolveOneIInv ==
  ASSUME IInv, NEW i \in todo, SolveOne(i)
  PROVE  IInv'
<1>1. /\ i \in 1..Len(DeltaList) /\ DeltaList \in Seq(Delta)
      /\ newArr \in Seq(1..Len(DeltaList)) /\ Len(newArr) \in Nat
      /\ DeltaList' = DeltaList /\ inserts' = inserts /\ committed' = committed
      /\ todo' = todo \ {i} /\ status = "solve"
      /\ \A j \in todo : DeltaList[j].prio <= DeltaList[i].prio
  BY DEF IInv, TypeOK, SolveOne, Next_In_Sort_Order
<1>2. Kept \subseteq 1..Len(DeltaList) /\ Kept \cap todo = {}
  BY <1>1 DEF Kept, IInv, TypeOK
<1>3. \A k \in Kept : DeltaList[i].prio <= DeltaList[k].prio
  BY DEF IInv, SolveInv
<1>4. CASE Overlapping(i) = {} /\ newArr' = Append(newArr, i)
              /\ status' = IF todo = {i} THEN "commit" ELSE "solve"
  <2>1. /\ Kept' = Kept \cup {i} /\ newArr' \in Seq(1..Len(DeltaList))
        /\ Len(newArr') = Len(newArr) + 1
        /\ \A k \in 1..Len(newArr) : newArr'[k] = newArr[k]
        /\ newArr'[Len(newArr) + 1] = i
    BY <1>1, <1>4, KeptAppend DEF IInv
  <2>2. \A k \in Kept : ~Overlap(DeltaList[k], DeltaList[i]) /\ ~Overlap(DeltaList[i], DeltaList[k])
    BY <1>4, OverlapSymmetric DEF Overlapping
  <2>3. KeptAreDisjoint'
    <3> SUFFICES ASSUME NEW k \in 1..Len(newArr'), NEW m \in 1..Len(newArr'), k # m
                 PROVE  ~Overlap(DeltaList[newArr'[k]], DeltaList[newArr'[m]])
      BY <1>1 DEF KeptAreDisjoint, Overlap
    <3>1. CASE k \in 1..Len(newArr) /\ m \in 1..Len(newArr)
      BY <3>1, <2>1 DEF IInv, KeptAreDisjoint
    <3>2. CASE k = Len(newArr) + 1 /\ m \in 1..Len(newArr)
      BY <3>2, <2>1, <2>2 DEF Kept
    <3>3. CASE k \in 1..Len(newArr) /\ m = Len(newArr) + 1
      BY <3>3, <2>1, <2>2 DEF Kept
    <3>4. QED
      BY <1>1, <2>1, <3>1, <3>2, <3>3
  <2>4. SolveInv'
    <3>1. \A j \in todo' : \A k \in Kept' : DeltaList[j].prio <= DeltaList[k].prio
      BY <1>1, <2>1 DEF IInv, SolveInv
    <3>2. \A j \in 1..Len(DeltaList) :
             \/ j \in todo'
             \/ j \in Kept'
             \/ \E k \in Kept' : /\ Overlap(DeltaList[j], DeltaList[k])
                                 /\ DeltaList[j].prio <= DeltaList[k].prio
      BY <1>1, <2>1 DEF IInv, SolveInv
    <3>3. QED
      BY <1>1, <1>4, <3>1, <3>2 DEF SolveInv, Solved, Overlap
  <2>5. TypeOK'
    <3>1. committed \in 0..Len(newArr')
      BY <1>1, <2>1 DEF IInv, TypeOK
    <3>2. QED
      BY <1>1, <1>2, <1>4, <2>1, <3>1 DEF IInv, TypeOK
  <2>6. QED
    BY <2>3, <2>4, <2>5 DEF IInv
<1>5. ASSUME NEW k \in Overlapping(i), newArr' = newArr,
             status' = IF Ignored(DeltaList[i], DeltaList[k])
                       THEN IF todo = {i} THEN "commit" ELSE "solve"
                       ELSE "error"
      PROVE  IInv'
  <2>1. k \in Kept /\ Overlap(DeltaList[i], DeltaList[k]) /\ Kept' = Kept
    BY <1>5, OverlapSymmetric DEF Overlapping, Kept
  <2>2. DeltaList[i].prio <= DeltaList[k].prio
    BY <1>3, <2>1
  <2>3. status' = IF todo = {i} THEN "commit" ELSE "solve"
    BY <1>5, <2>2 DEF Ignored
  <2>4. TypeOK'
    BY <1>1, <1>2, <1>5, <2>1, <2>3 DEF IInv, TypeOK
  <2>5. KeptAreDisjoint'
    BY <1>1, <1>5 DEF IInv, KeptAreDisjoint
  <2>6. SolveInv'
    <3>1. \A j \in todo' : \A m \in Kept' : DeltaList[j].prio <= DeltaList[m].prio
      BY <1>1, <2>1 DEF IInv, SolveInv
    <3>2. \A j \in 1..Len(DeltaList) :
             \/ j \in todo'
             \/ j \in Kept'
             \/ \E m \in Kept' : /\ Overlap(DeltaList[j], DeltaList[m])
                                 /\ DeltaList[j].prio <= DeltaList[m].prio
      BY <1>1, <2>1, <2>2 DEF IInv, SolveInv
    <3>3. QED
      BY <1>1, <2>3, <3>1, <3>2 DEF SolveInv, Solved, Overlap
  <2>7. QED
    BY <2>4, <2>5, <2>6 DEF IInv
<1>6. QED
  BY <1>4, <1>5 DEF SolveOne

\* Solve never reaches its error branch: a request that overlaps a kept one
\* never has the higher priority.
LEMMA SolveOneNoError ==
  ASSUME IInv, NEW i \in todo, SolveOne(i)
  PROVE  status' # "error"
<1>1. \A k \in Overlapping(i) : Ignored(DeltaList[i], DeltaList[k])
  BY DEF IInv, SolveInv, Overlapping, Ignored
<1>2. QED
  BY <1>1 DEF SolveOne

-----------------------------------------------------------------------------
\* The strengthened invariant of Solve and Commit.
THEOREM Inductive == Spec => []IInv
<1>1. ASSUME IInv, [Next]_vars PROVE IInv'
  <2>1. ASSUME NEW r \in Declarators, NEW text \in Texts, Insert(Removal(r, text))
        PROVE  IInv'
    <3>1. Removal(r, text) \in Delta /\ Removal(r, text).lo < Removal(r, text).hi
      BY DeclaratorsOK DEF Removal, Delta, Priorities
    <3>2. QED
      BY <1>1, <2>1, <3>1, InsertIInv
  <2>2. ASSUME NEW p \in Identifiers, NEW text \in Texts, NEW prio \in {10, 100},
               Insert(Renaming(p, text, prio))
        PROVE  IInv'
    <3>1. p \in 0..Length /\ p + 1 \in 0..Length /\ p < p + 1
      BY IdentifiersOK, LengthOK DEF Position
    <3>2. /\ Renaming(p, text, prio) \in Delta
          /\ Renaming(p, text, prio).lo < Renaming(p, text, prio).hi
      BY <3>1 DEF Renaming, Delta, Priorities
    <3>3. QED
      BY <1>1, <2>2, <3>2, InsertIInv
  <2>3. ASSUME NEW loc \in Boundaries, Insert_Text(loc) PROVE IInv'
    <3>1. inserts' \in Seq(Boundaries)
      BY <1>1, <2>3 DEF IInv, TypeOK, Insert_Text
    <3>2. committed' \in 0..Len(newArr)
      BY <1>1, <2>3 DEF IInv, TypeOK, Insert_Text
    <3>3. QED
      BY <1>1, <2>3, <3>1, <3>2, FrameIInv DEF Insert_Text
  <2>4. CASE StartSolve
    BY <1>1, <2>4, StartSolveIInv
  <2>5. ASSUME NEW i \in todo, SolveOne(i) PROVE IInv'
    BY <1>1, <2>5, SolveOneIInv
  <2>6. CASE CommitOne
    <3>1. inserts' \in Seq(Boundaries) /\ committed' \in 0..Len(newArr)
      BY <1>1, <2>6 DEF IInv, TypeOK, CommitOne
    <3>2. QED
      BY <1>1, <2>6, <3>1, FrameIInv DEF CommitOne
  <2>7. CASE CommitDone
    <3>1. inserts' \in Seq(Boundaries) /\ committed' \in 0..Len(newArr)
      BY <1>1, <2>7 DEF IInv, TypeOK, CommitDone
    <3>2. QED
      BY <1>1, <2>7, <3>1, FrameIInv DEF CommitDone, Solved
  <2>8. CASE UNCHANGED vars
    <3>1. inserts' \in Seq(Boundaries) /\ committed' \in 0..Len(newArr)
      BY <1>1, <2>8 DEF IInv, TypeOK, vars
    <3>2. QED
      BY <1>1, <2>8, <3>1, FrameIInv DEF vars
  <2>9. QED
    BY <1>1, <2>1, <2>2, <2>3, <2>4, <2>5, <2>6, <2>7, <2>8 DEF Next
<1>2. QED
  BY <1>1, InitIInv, PTL DEF Spec

\* Whatever was requested, the ranges handed to clang's Rewriter are pairwise
\* disjoint, and do not even touch.
THEOREM KeptAreDisjointHolds == Spec => []KeptAreDisjoint
<1>1. IInv => KeptAreDisjoint
  BY DEF IInv
<1>2. QED
  BY <1>1, Inductive, PTL

\* No request is given up unless one of at least its priority that overlaps it
\* is committed.
THEOREM DroppedForAWinnerHolds == Spec => []DroppedForAWinner
<1>1. IInv => DroppedForAWinner
  BY DEF IInv, SolveInv, DroppedForAWinner, Solved
<1>2. QED
  BY <1>1, Inductive, PTL

\* The error branch of Solve, "Rewriter ranges with same priority intersects",
\* is dead code.
NoThrow == status # "error"

THEOREM SolveNeverThrows == Spec => []NoThrow
<1>1. Init => NoThrow
  BY DEF Init, NoThrow
<1>2. IInv /\ NoThrow /\ [Next]_vars => NoThrow'
  <2> SUFFICES ASSUME IInv, NoThrow, [Next]_vars PROVE NoThrow'
    OBVIOUS
  <2>1. ASSUME NEW i \in todo, SolveOne(i) PROVE NoThrow'
    BY <2>1, SolveOneNoError DEF NoThrow
  <2>2. QED
    BY <2>1 DEF Next, vars, Insert, Insert_Text, StartSolve, CommitOne, CommitDone, NoThrow
<1>3. QED
  BY <1>1, <1>2, Inductive, PTL DEF Spec

-----------------------------------------------------------------------------
(***************************************************************************)
(* The result is the one that the priorities determine.                    *)
(***************************************************************************)
Asked == {DeltaList[i] : i \in 1..Len(DeltaList)}
KeptDeltas == {DeltaList[k] : k \in Kept}
FreeOf(S, p) == {a \in Asked : a.prio = p /\ \A b \in S : ~Overlap(a, b)}
AcceptedAbove(p) == UNION {Accepted[q] : q \in {r \in Priorities : r > p}}

\* Accepted is a recursive function over three priorities: it exists, and its
\* values are what its definition says.
LEMMA AcceptedEq ==
  \A p \in Priorities : Accepted[p] = FreeOf(AcceptedAbove(p), p)
<1> DEFINE Is(f) == f = [p \in Priorities |->
                           LET above == UNION {f[q] : q \in {r \in Priorities : r > p}}
                           IN {a \in Asked : a.prio = p /\ \A b \in above : ~Overlap(a, b)}]
           Top == FreeOf({}, 1000)
           Mid == FreeOf(Top, 100)
           Low == FreeOf(Top \cup Mid, 10)
           f == [p \in Priorities |-> IF p = 1000 THEN Top ELSE IF p = 100 THEN Mid ELSE Low]
<1>1. /\ UNION {f[q] : q \in {r \in Priorities : r > 1000}} = {}
      /\ UNION {f[q] : q \in {r \in Priorities : r > 100}} = Top
      /\ UNION {f[q] : q \in {r \in Priorities : r > 10}} = Top \cup Mid
  <2>1. /\ {r \in Priorities : r > 1000} = {} /\ {r \in Priorities : r > 100} = {1000}
        /\ {r \in Priorities : r > 10} = {100, 1000}
    BY DEF Priorities
  <2>2. f[1000] = Top /\ f[100] = Mid
    BY DEF Priorities
  <2> HIDE DEF f, Top, Mid
  <2>3. QED
    BY <2>1, <2>2
<1>2. f[1000] = Top /\ f[100] = Mid /\ f[10] = Low /\ DOMAIN f = Priorities
  BY DEF Priorities
<1>3. \A p \in Priorities : f[p] = FreeOf(UNION {f[q] : q \in {r \in Priorities : r > p}}, p)
  <2> HIDE DEF f
  <2>1. QED
    BY <1>1, <1>2 DEF Priorities
<1>4. f = [p \in Priorities |-> FreeOf(UNION {f[q] : q \in {r \in Priorities : r > p}}, p)]
  <2> SUFFICES \A p \in Priorities : f[p] = FreeOf(UNION {f[q] : q \in {r \in Priorities : r > p}}, p)
    OBVIOUS
  <2>1. QED
    BY <1>3
<1> HIDE DEF f
<1>5. Is(f)
  BY <1>4 DEF FreeOf
<1>6. Is(Accepted)
  BY <1>5 DEF Accepted, Asked
<1>7. QED
  BY <1>6 DEF FreeOf, AcceptedAbove

\* If the result is right for the higher priorities, it is right for p.
LEMMA AcceptedStep ==
  ASSUME IInv, Solved, NoConflicts, NEW p \in Priorities, NEW S,
         \A a : a \in S <=> a \in KeptDeltas /\ a.prio > p
  PROVE  \A a : a \in FreeOf(S, p) <=> a \in KeptDeltas /\ a.prio = p
<1>1. /\ DeltaList \in Seq(Delta) /\ Kept \subseteq 1..Len(DeltaList)
      /\ \A i \in 1..Len(DeltaList) : DeltaList[i] \in Delta /\ DeltaList[i].lo < DeltaList[i].hi
  <2>1. /\ DeltaList \in Seq(Delta) /\ newArr \in Seq(1..Len(DeltaList))
        /\ \A i \in 1..Len(DeltaList) : DeltaList[i].lo < DeltaList[i].hi
    BY DEF IInv, TypeOK
  <2>2. \A i \in 1..Len(DeltaList) : DeltaList[i] \in Delta
    BY <2>1
  <2>3. \A k \in 1..Len(newArr) : newArr[k] \in 1..Len(DeltaList)
    BY <2>1
  <2>4. Kept \subseteq 1..Len(DeltaList)
    BY <2>3 DEF Kept
  <2>5. QED
    BY <2>1, <2>2, <2>4
<1>2. \A k, m \in Kept : k # m => ~Overlap(DeltaList[k], DeltaList[m])
  BY DEF IInv, KeptAreDisjoint, Kept
<1>3. ASSUME NEW a \in KeptDeltas, a.prio = p PROVE a \in FreeOf(S, p)
  <2>1. PICK i \in Kept : a = DeltaList[i]
    BY DEF KeptDeltas
  <2>2. ASSUME NEW b \in S PROVE ~Overlap(a, b)
    <3>1. PICK k \in Kept : b = DeltaList[k]
      BY <2>2 DEF KeptDeltas
    <3>2. b.prio > p /\ p \in Nat
      BY <2>2 DEF Priorities
    <3>3. i # k
      BY <1>3, <2>1, <3>1, <3>2
    <3>4. QED
      BY <2>1, <3>1, <3>3, <1>2
  <2>3. QED
    BY <2>1, <2>2, <1>1, <1>3 DEF FreeOf, Asked
<1>4. ASSUME NEW a \in FreeOf(S, p) PROVE a \in KeptDeltas /\ a.prio = p
  <2>1. PICK i \in 1..Len(DeltaList) : a = DeltaList[i] /\ a.prio = p /\ \A b \in S : ~Overlap(a, b)
    BY DEF FreeOf, Asked
  <2>2. CASE i \in Kept
    BY <2>1, <2>2 DEF KeptDeltas
  <2>3. CASE i \notin Kept
    <3>1. PICK k \in Kept : Overlap(DeltaList[i], DeltaList[k]) /\ DeltaList[i].prio <= DeltaList[k].prio
      BY <2>3 DEF IInv, SolveInv, Solved
    <3>2. k \in 1..Len(DeltaList) /\ DeltaList[k] \in Delta /\ DeltaList[i] \in Delta
      BY <1>1
    <3>3. DeltaList[k] \in KeptDeltas
      BY DEF KeptDeltas
    <3>4. DeltaList[k].prio \in Priorities
      BY <3>2 DEF Delta
    <3>5. ~(DeltaList[k].prio > p)
      BY <2>1, <3>1, <3>3
    <3>6. DeltaList[k].prio = p
      BY <2>1, <3>1, <3>4, <3>5 DEF Priorities
    <3>7. Is_Same_Change(DeltaList[i], DeltaList[k])
      BY <2>1, <2>3, <3>1, <3>2, <3>6 DEF NoConflicts
    <3>8. DeltaList[i] = DeltaList[k]
      BY <2>1, <3>2, <3>6, <3>7 DEF Is_Same_Change, Delta
    <3>9. QED
      BY <2>1, <3>3, <3>8
  <2>4. QED
    BY <2>2, <2>3
<1>5. QED
  BY <1>3, <1>4

\* std::sort is not stable, and requests of one priority may reach Solve in any
\* order.  Where no two of these are in conflict the same set is kept.
THEOREM SortOrderIrrelevantHolds == Spec => []SortOrderIrrelevant
<1>1. IInv => SortOrderIrrelevant
  <2> SUFFICES ASSUME IInv, Solved, NoConflicts
               PROVE  KeptDeltas = UNION {Accepted[p] : p \in Priorities}
    BY DEF SortOrderIrrelevant, KeptDeltas
  <2> DEFINE Right(p) == \A a : a \in Accepted[p] <=> a \in KeptDeltas /\ a.prio = p
  <2>1. \A a \in KeptDeltas : a.prio \in Priorities
    <3>1. newArr \in Seq(1..Len(DeltaList)) /\ DeltaList \in Seq(Delta)
      BY DEF IInv, TypeOK
    <3>2. \A k \in 1..Len(newArr) : DeltaList[newArr[k]] \in Delta
      BY <3>1
    <3>3. \A a \in KeptDeltas : a \in Delta
      BY <3>2 DEF KeptDeltas, Kept
    <3>4. QED
      BY <3>3 DEF Delta
  <2>2. ASSUME NEW p \in Priorities, \A q \in Priorities : q > p => Right(q)
        PROVE  Right(p)
    <3>1. \A a : a \in AcceptedAbove(p) <=> a \in KeptDeltas /\ a.prio > p
      BY <2>1, <2>2 DEF AcceptedAbove
    <3>2. \A a : a \in FreeOf(AcceptedAbove(p), p) <=> a \in KeptDeltas /\ a.prio = p
      BY <3>1, AcceptedStep
    <3>3. QED
      BY <3>2, AcceptedEq
  <2> HIDE DEF Right
  <2>3. Right(1000)
    BY <2>2 DEF Priorities
  <2>4. Right(100)
    BY <2>2, <2>3 DEF Priorities
  <2>5. Right(10)
    BY <2>2, <2>3, <2>4 DEF Priorities
  <2>6. QED
    BY <2>1, <2>3, <2>4, <2>5 DEF Right, Priorities
<1>2. QED
  BY <1>1, Inductive, PTL

-----------------------------------------------------------------------------
(***************************************************************************)
(* Texts one after the other: FlattenSeq of the community modules.         *)
(***************************************************************************)
\* Texts are sequences of cells.
Cells == Seq(Int)
\* Concatenation, as one more operator: most proofs need only that it is associative.
Cat(a, b) == a \o b
\* The first n texts, one after the other.
Prefix(s, n) == FlattenSeq([i \in 1..n |-> s[i]])

\* Induction over the naturals, for a set of them.
LEMMA SetInduction ==
  ASSUME NEW S, 0 \in S, \A n \in Nat : n \in S => n + 1 \in S
  PROVE  \A n \in Nat : n \in S
<1> DEFINE Less == OpToRel(<, Nat)
           T == Nat \ S
<1>1. \A x, y \in Nat : y < x => <<y, x>> \in Less
  BY DEF OpToRel
<1>2. IsWellFoundedOn(Less, Nat)
  BY NatLessThanWellFounded
<1> HIDE DEF Less
<1> SUFFICES ASSUME T # {} PROVE FALSE
  OBVIOUS
<1>3. PICK x \in T : \A y \in T : ~ (<<y, x>> \in Less)
  BY <1>2, WFMin
<1>4. x \in Nat /\ x # 0 /\ x - 1 \in Nat /\ x - 1 < x /\ (x - 1) + 1 = x
  BY <1>3
<1>5. x - 1 \in S
  BY <1>1, <1>3, <1>4
<1>6. QED
  BY <1>3, <1>4, <1>5

\* The same up to a bound, from some number on.
LEMMA SetInductionTo ==
  ASSUME NEW lo \in Nat, NEW hi \in Nat, NEW S, lo \in S,
         \A n \in lo..hi : n \in S /\ n < hi => n + 1 \in S
  PROVE  \A n \in lo..hi : n \in S
<1> DEFINE T == {k \in Nat : lo + k <= hi => lo + k \in S}
<1>1. 0 \in T
  OBVIOUS
<1>2. \A n \in Nat : n \in T => n + 1 \in T
  <2> SUFFICES ASSUME NEW n \in T, lo + (n + 1) <= hi PROVE lo + (n + 1) \in S
    OBVIOUS
  <2>1. lo + n \in lo..hi /\ lo + n \in S /\ lo + n < hi /\ lo + (n + 1) = (lo + n) + 1
    OBVIOUS
  <2>2. QED
    BY <2>1
<1> HIDE DEF T
<1>3. \A n \in Nat : n \in T
  BY <1>1, <1>2, SetInduction
<1>4. ASSUME NEW n \in lo..hi PROVE n \in S
  <2>1. n - lo \in Nat /\ lo + (n - lo) = n
    OBVIOUS
  <2>2. QED
    BY <1>3, <2>1 DEF T
<1>5. QED
  BY <1>4

-----------------------------------------------------------------------------
\* Running(s, f): f[n] is what the first n texts give.
Running(s, n, f) ==
  /\ f \in [0..n -> Cells] /\ f[0] = <<>>
  /\ \A i \in 1..n : f[i] = f[i - 1] \o s[i]

\* The length of a concatenation.
LEMMA ConcatType ==
  ASSUME NEW a \in Cells, NEW b \in Cells
  PROVE  a \o b \in Cells /\ Len(a \o b) = Len(a) + Len(b) /\ Len(a) \in Nat /\ Len(b) \in Nat
BY DEF Cells

\* The concatenation of the first n texts exists for every n.
LEMMA RunningExists ==
  ASSUME NEW s \in Seq(Cells)
  PROVE  \A n \in 0..Len(s) : \E f : Running(s, n, f)
<1> DEFINE S == {n \in 0..Len(s) : \E f : Running(s, n, f)}
<1>1. 0 \in S
  <2> DEFINE f == [i \in 0..0 |-> <<>>]
  <2>1. <<>> \in Cells
    BY DEF Cells
  <2>2. Running(s, 0, f)
    BY <2>1 DEF Running
  <2>3. QED
    BY <2>2
<1>2. ASSUME NEW n \in 0..Len(s), n \in S, n < Len(s) PROVE n + 1 \in S
  <2>1. PICK f : Running(s, n, f)
    BY <1>2
  <2> DEFINE g == [i \in 0..(n + 1) |-> IF i = n + 1 THEN f[n] \o s[n + 1] ELSE f[i]]
  <2>2. n \in Nat /\ n + 1 \in 1..Len(s) /\ s[n + 1] \in Cells
    BY <1>2
  <2>3. f[n] \in Cells /\ f[n] \o s[n + 1] \in Cells
    BY <2>1, <2>2, ConcatType DEF Running
  <2>4. \A i \in 0..(n + 1) : g[i] \in Cells
    BY <2>1, <2>2, <2>3 DEF Running
  <2>5. \A i \in 1..(n + 1) : g[i] = g[i - 1] \o s[i]
    <3> SUFFICES ASSUME NEW i \in 1..(n + 1) PROVE g[i] = g[i - 1] \o s[i]
      OBVIOUS
    <3>1. CASE i = n + 1
      <4>1. i - 1 = n /\ i - 1 # n + 1 /\ i - 1 \in 0..(n + 1) /\ i \in 0..(n + 1)
        BY <2>2, <3>1
      <4>2. g[i] = f[n] \o s[n + 1] /\ g[i - 1] = f[i - 1]
        BY <3>1, <4>1
      <4> HIDE DEF g
      <4>3. QED
        BY <3>1, <4>1, <4>2
    <3>2. CASE i # n + 1
      <4>1. i \in 1..n /\ i - 1 \in 0..n /\ i - 1 # n + 1
        BY <2>2, <3>2
      <4>2. g[i] = f[i] /\ g[i - 1] = f[i - 1]
        BY <4>1, <3>2, <2>2
      <4>3. f[i] = f[i - 1] \o s[i]
        BY <2>1, <4>1 DEF Running
      <4>4. QED
        BY <4>2, <4>3
    <3>3. QED
      BY <3>1, <3>2
  <2>6. g[0] = <<>>
    BY <2>1, <2>2 DEF Running
  <2>7. g \in [0..(n + 1) -> Cells]
    BY <2>4
  <2> HIDE DEF g
  <2>8. Running(s, n + 1, g)
    BY <2>5, <2>6, <2>7 DEF Running
  <2>9. QED
    BY <2>2, <2>8
<1> HIDE DEF S
<1>3. \A n \in 0..Len(s) : n \in S
  <2>1. 0 \in Nat /\ Len(s) \in Nat
    OBVIOUS
  <2>2. QED
    BY <2>1, <1>1, <1>2, SetInductionTo
<1>4. QED
  BY <1>3 DEF S

\* FlattenSeq of the community modules, unfolded once.
LEMMA PrefixIsRunning ==
  ASSUME NEW s \in Seq(Cells), NEW n \in 0..Len(s), NEW f, Running(s, n, f)
  PROVE  Prefix(s, n) = f[n]
<1> DEFINE u == [i \in 1..n |-> s[i]]
           Is(g) == g = [i \in 1..n |-> IF i = 1 THEN u[i] ELSE g[i - 1] \o u[i]]
           flatten == CHOOSE g : Is(g)
<1>0. n \in Nat /\ Len(s) \in Nat
  OBVIOUS
<1>1. Len(u) = n
  BY <1>0
<1>2. CASE n = 0
  <2>1. FlattenSeq(u) = u /\ u = <<>>
    BY <1>1, <1>2 DEF FlattenSeq
  <2>2. QED
    BY <1>2, <2>1 DEF Prefix, Running
<1>3. CASE n # 0
  <2>1. FlattenSeq(u) = flatten[n]
    BY <1>1, <1>3 DEF FlattenSeq
  <2>2. \A i \in 1..n : f[i] = IF i = 1 THEN u[i] ELSE f[i - 1] \o u[i]
    <3> SUFFICES ASSUME NEW i \in 1..n PROVE f[i] = IF i = 1 THEN u[i] ELSE f[i - 1] \o u[i]
      OBVIOUS
    <3>1. f[i] = f[i - 1] \o s[i] /\ u[i] = s[i] /\ s[i] \in Cells
      BY DEF Running
    <3>2. <<>> \o s[i] = s[i]
      BY <3>1 DEF Cells
    <3>3. f[0] = <<>> /\ i \in 0..n /\ i - 1 \in 0..n
      BY <1>0 DEF Running
    <3> HIDE DEF u
    <3>4. CASE i = 1
      <4>1. i - 1 = 0
        BY <3>4
      <4>2. QED
        BY <3>1, <3>2, <3>3, <3>4, <4>1
    <3>5. CASE i # 1
      BY <3>1, <3>5
    <3>6. QED
      BY <3>4, <3>5
  <2> DEFINE g == [i \in 1..n |-> f[i]]
  <2>3. \A i \in 1..n : g[i] = IF i = 1 THEN u[i] ELSE g[i - 1] \o u[i]
    <3> SUFFICES ASSUME NEW i \in 1..n PROVE g[i] = IF i = 1 THEN u[i] ELSE g[i - 1] \o u[i]
      OBVIOUS
    <3>1. i # 1 => i - 1 \in 1..n
      BY <1>0
    <3>2. QED
      BY <2>2, <3>1
  <2> HIDE DEF u
  <2>4. Is(g)
    <3>1. g = [i \in 1..n |-> g[i]]
      OBVIOUS
    <3> HIDE DEF g
    <3>2. QED
      BY <2>3, <3>1
  <2>5. Is(flatten)
    <3> HIDE DEF Is, g
    <3>1. QED
      BY <2>4
  <2>6. \A i \in 1..n : flatten[i] = IF i = 1 THEN u[i] ELSE flatten[i - 1] \o u[i]
    <3> HIDE DEF flatten
    <3>1. QED
      BY <2>5
  <2> HIDE DEF flatten
  <2> DEFINE S == {k \in 1..n : flatten[k] = f[k]}
  <2>7. 1 \in S
    BY <1>0, <1>3, <2>2, <2>6
  <2>8. \A k \in 1..n : k \in S /\ k < n => k + 1 \in S
    <3> SUFFICES ASSUME NEW k \in S, k < n PROVE k + 1 \in S
      OBVIOUS
    <3>1. k + 1 \in 1..n /\ k + 1 # 1 /\ (k + 1) - 1 = k
      BY <1>0
    <3>2. flatten[k + 1] = flatten[k] \o u[k + 1] /\ f[k + 1] = f[k] \o u[k + 1]
      BY <2>2, <2>6, <3>1
    <3>3. QED
      BY <3>1, <3>2
  <2> HIDE DEF S
  <2>9. \A k \in 1..n : k \in S
    <3>1. 1 \in Nat
      OBVIOUS
    <3>2. QED
      BY <1>0, <2>7, <2>8, <3>1, SetInductionTo
  <2>10. flatten[n] = f[n]
    BY <1>0, <1>3, <2>9 DEF S
  <2>11. QED
    BY <2>1, <2>10 DEF Prefix, u
<1>4. QED
  BY <1>2, <1>3

\* Cat is a concatenation of cells.
LEMMA CatType ==
  ASSUME NEW a \in Cells, NEW b \in Cells
  PROVE  Cat(a, b) \in Cells /\ Len(Cat(a, b)) = Len(a) + Len(b) /\ Len(a) \in Nat /\ Len(b) \in Nat
BY ConcatType DEF Cat

\* Texts are put together in any grouping.
LEMMA CatAssoc ==
  ASSUME NEW a \in Cells, NEW b \in Cells, NEW c \in Cells
  PROVE  Cat(Cat(a, b), c) = Cat(a, Cat(b, c))
BY ConcatAssociative DEF Cells, Cat

\* The empty text adds nothing, and no other text has its length.
LEMMA CatEmpty ==
  ASSUME NEW a \in Cells
  PROVE  Cat(a, <<>>) = a /\ Cat(<<>>, a) = a /\ <<>> \in Cells /\ Len(<<>>) = 0
         /\ (Len(a) = 0 => a = <<>>)
BY ConcatEmptySeq, EmptySeq DEF Cells, Cat

\* Text after text: what FlattenSeq does, one text at a time.
LEMMA PrefixStep ==
  ASSUME NEW s \in Seq(Cells)
  PROVE  /\ Prefix(s, 0) = <<>>
         /\ \A n \in 0..Len(s) : Prefix(s, n) \in Cells
         /\ \A n \in 1..Len(s) : Prefix(s, n) = Cat(Prefix(s, n - 1), s[n])
<1>0. Len(s) \in Nat
  OBVIOUS
<1>1. PICK f : Running(s, Len(s), f)
  BY <1>0, RunningExists
<1>2. ASSUME NEW n \in 0..Len(s) PROVE Prefix(s, n) = f[n] /\ f[n] \in Cells
  <2> DEFINE g == [i \in 0..n |-> f[i]]
  <2>1. Running(s, n, g)
    <3>1. \A i \in 0..n : i \in 0..Len(s) /\ f[i] \in Cells
      BY <1>0, <1>1 DEF Running
    <3>2. g \in [0..n -> Cells]
      BY <3>1
    <3>3. \A i \in 1..n : i \in 1..Len(s) /\ i \in 0..n /\ i - 1 \in 0..n
      BY <1>0
    <3>4. \A i \in 1..n : g[i] = g[i - 1] \o s[i]
      BY <1>1, <3>3 DEF Running
    <3>5. g[0] = <<>>
      BY <1>1 DEF Running
    <3> HIDE DEF g
    <3>6. QED
      BY <3>2, <3>4, <3>5 DEF Running
  <2>2. Prefix(s, n) = g[n]
    <3> HIDE DEF g
    <3>1. QED
      BY <2>1, PrefixIsRunning
  <2>3. QED
    BY <1>1, <2>2 DEF Running
<1>3. ASSUME NEW n \in 1..Len(s) PROVE Prefix(s, n) = Cat(Prefix(s, n - 1), s[n])
  <2>1. n \in 0..Len(s) /\ n - 1 \in 0..Len(s)
    BY <1>0
  <2>2. QED
    BY <1>1, <1>2, <2>1 DEF Running, Cat
<1>4. Prefix(s, 0) = <<>>
  BY <1>0, <1>1, <1>2 DEF Running
<1>5. QED
  BY <1>2, <1>3, <1>4

-----------------------------------------------------------------------------
\* What is before a position does not depend on what is behind it.
LEMMA PrefixSame ==
  ASSUME NEW s, NEW t, NEW n \in Nat, \A i \in 1..n : s[i] = t[i]
  PROVE  Prefix(s, n) = Prefix(t, n)
<1>1. [i \in 1..n |-> s[i]] = [i \in 1..n |-> t[i]]
  OBVIOUS
<1>2. QED
  BY <1>1 DEF Prefix

\* Where two sequences of texts agree from some position on, the same follows.
LEMMA SuffixSame ==
  ASSUME NEW s \in Seq(Cells), NEW t \in Seq(Cells), NEW N \in Nat, Len(s) = N, Len(t) = N,
         NEW hi \in 0..N, \A i \in (hi + 1)..N : s[i] = t[i]
  PROVE  \A n \in hi..N : \E d \in Cells : /\ Prefix(s, n) = Cat(Prefix(s, hi), d)
                                           /\ Prefix(t, n) = Cat(Prefix(t, hi), d)
<1> DEFINE R(n, d) == Prefix(s, n) = Cat(Prefix(s, hi), d) /\ Prefix(t, n) = Cat(Prefix(t, hi), d)
           S == {n \in hi..N : \E d \in Cells : R(n, d)}
<1>0. /\ \A n \in 0..N : Prefix(s, n) \in Cells /\ Prefix(t, n) \in Cells
      /\ \A n \in 1..N : /\ Prefix(s, n) = Cat(Prefix(s, n - 1), s[n])
                         /\ Prefix(t, n) = Cat(Prefix(t, n - 1), t[n])
      /\ \A n \in 1..N : s[n] \in Cells
  <2>1. \A n \in 1..N : s[n] \in Cells
    BY ElementOfSeq
  <2>2. QED
    BY <2>1, PrefixStep
<1>1. hi \in S
  <2>1. hi \in 0..N /\ hi \in hi..N /\ Prefix(s, hi) \in Cells /\ Prefix(t, hi) \in Cells
    BY <1>0
  <2>2. <<>> \in Cells /\ R(hi, <<>>)
    BY <2>1, CatEmpty
  <2> HIDE DEF R
  <2>3. QED
    BY <2>1, <2>2
<1>2. ASSUME NEW n \in hi..N, n \in S, n < N PROVE n + 1 \in S
  <2>1. PICK d \in Cells : R(n, d)
    BY <1>2
  <2>2. /\ n + 1 \in (hi + 1)..N /\ n + 1 \in 1..N /\ (n + 1) - 1 = n /\ n \in 0..N
        /\ n + 1 \in hi..N
    BY <1>2
  <2> DEFINE x == s[n + 1]
             p == Prefix(s, hi)
             q == Prefix(t, hi)
  <2>3. p \in Cells /\ q \in Cells /\ x \in Cells /\ t[n + 1] = x
    BY <1>0, <2>2
  <2>4. /\ Prefix(s, n) = Cat(p, d) /\ Prefix(s, n + 1) = Cat(Prefix(s, n), x)
        /\ Prefix(t, n) = Cat(q, d) /\ Prefix(t, n + 1) = Cat(Prefix(t, n), t[n + 1])
    BY <1>0, <2>1, <2>2
  <2> HIDE DEF x, p, q
  <2>5. Cat(d, x) \in Cells /\ Cat(Cat(p, d), x) = Cat(p, Cat(d, x)) /\ Cat(Cat(q, d), x) = Cat(q, Cat(d, x))
    <3>1. Cat(d, x) \in Cells
      BY <2>3, CatType
    <3>2. Cat(Cat(p, d), x) = Cat(p, Cat(d, x))
      BY <2>3, CatAssoc
    <3>3. Cat(Cat(q, d), x) = Cat(q, Cat(d, x))
      BY <2>3, CatAssoc
    <3>4. QED
      BY <3>1, <3>2, <3>3
  <2>6. Prefix(s, n + 1) = Cat(p, Cat(d, x)) /\ Prefix(t, n + 1) = Cat(q, Cat(d, x))
    BY <2>3, <2>4, <2>5
  <2>7. R(n + 1, Cat(d, x))
    BY <2>6 DEF p, q
  <2> HIDE DEF R
  <2>8. QED
    BY <2>2, <2>5, <2>7
<1> HIDE DEF S
<1>3. \A n \in hi..N : n \in S
  <2>1. hi \in Nat
    OBVIOUS
  <2>2. \A n \in hi..N : n \in S /\ n < N => n + 1 \in S
    BY <1>2
  <2>3. QED
    BY <1>1, <2>1, <2>2, SetInductionTo
<1>4. QED
  BY <1>3 DEF S

\* Texts of one cell each, or of none.
LEMMA MiddleLength ==
  ASSUME NEW s \in Seq(Cells), NEW lo \in Nat, NEW hi \in Nat, lo <= hi, hi <= Len(s),
         NEW c \in {0, 1}, \A i \in (lo + 1)..hi : Len(s[i]) = c
  PROVE  \E b \in Cells : /\ Prefix(s, hi) = Cat(Prefix(s, lo), b)
                          /\ Len(b) = IF c = 0 THEN 0 ELSE hi - lo
<1> DEFINE R(n, b) == Prefix(s, n) = Cat(Prefix(s, lo), b) /\ Len(b) = IF c = 0 THEN 0 ELSE n - lo
           S == {n \in lo..hi : \E b \in Cells : R(n, b)}
<1>0. /\ Len(s) \in Nat
      /\ \A n \in lo..hi : Prefix(s, n) \in Cells
      /\ \A n \in (lo + 1)..hi : Prefix(s, n) = Cat(Prefix(s, n - 1), s[n])
      /\ \A n \in (lo + 1)..hi : s[n] \in Cells
  <2>1. Len(s) \in Nat /\ \A n \in lo..hi : n \in 0..Len(s)
    OBVIOUS
  <2>2. \A n \in (lo + 1)..hi : n \in 1..Len(s)
    BY <2>1
  <2>3. \A n \in 1..Len(s) : s[n] \in Cells
    BY ElementOfSeq
  <2>4. QED
    BY <2>1, <2>2, <2>3, PrefixStep
<1>1. lo \in S
  <2>1. lo \in lo..hi /\ Prefix(s, lo) \in Cells
    BY <1>0
  <2>2. <<>> \in Cells /\ R(lo, <<>>)
    BY <2>1, CatEmpty
  <2> HIDE DEF R
  <2>3. QED
    BY <2>1, <2>2
<1>2. ASSUME NEW n \in lo..hi, n \in S, n < hi PROVE n + 1 \in S
  <2>1. PICK b \in Cells : R(n, b)
    BY <1>2
  <2>2. n + 1 \in (lo + 1)..hi /\ (n + 1) - 1 = n /\ n + 1 \in lo..hi /\ lo \in lo..hi
    BY <1>2
  <2> DEFINE x == s[n + 1]
             p == Prefix(s, lo)
  <2>3. p \in Cells /\ x \in Cells /\ Len(x) = c
    BY <1>0, <2>2
  <2>4. Prefix(s, n) = Cat(p, b) /\ Prefix(s, n + 1) = Cat(Prefix(s, n), x)
    BY <1>0, <2>1, <2>2
  <2>5. Len(b) = IF c = 0 THEN 0 ELSE n - lo
    BY <2>1
  <2> HIDE DEF x, p
  <2>6. Cat(b, x) \in Cells /\ Len(Cat(b, x)) = Len(b) + c /\ Cat(Cat(p, b), x) = Cat(p, Cat(b, x))
    <3>1. Cat(b, x) \in Cells /\ Len(Cat(b, x)) = Len(b) + Len(x)
      BY <2>3, CatType
    <3>2. Cat(Cat(p, b), x) = Cat(p, Cat(b, x))
      BY <2>3, CatAssoc
    <3>3. QED
      BY <2>3, <3>1, <3>2
  <2>7. Len(Cat(b, x)) = IF c = 0 THEN 0 ELSE (n + 1) - lo
    BY <2>2, <2>5, <2>6
  <2>8. Prefix(s, n + 1) = Cat(p, Cat(b, x))
    BY <2>3, <2>4, <2>6
  <2>9. R(n + 1, Cat(b, x))
    BY <2>7, <2>8 DEF p
  <2> HIDE DEF R
  <2>10. QED
    BY <2>2, <2>6, <2>9
<1> HIDE DEF S
<1>3. \A n \in lo..hi : n \in S
  BY <1>1, <1>2, SetInductionTo
<1>4. QED
  BY <1>3 DEF S

\* The cells that an edit replaces are where it says.
LEMMA SpliceConcat ==
  ASSUME NEW a \in Cells, NEW b \in Cells, NEW d \in Cells, NEW text \in Cells
  PROVE  Splice(Cat(a, Cat(b, d)), Len(a), Len(b), text) = Cat(a, Cat(text, d))
<1> DEFINE all == a \o (b \o d)
<1>1. /\ all \in Cells /\ Len(all) = Len(a) + Len(b) + Len(d)
      /\ Len(a) \in Nat /\ Len(b) \in Nat /\ Len(d) \in Nat
  BY ConcatType
<1>2. /\ \A i \in 1..Len(a) : all[i] = a[i]
      /\ \A i \in 1..Len(d) : all[Len(a) + Len(b) + i] = d[i]
  <2>1. /\ b \o d \in Seq(Int) /\ a \in Seq(Int) /\ Len(b \o d) = Len(b) + Len(d)
        /\ \A i \in 1..Len(d) : (b \o d)[Len(b) + i] = d[i]
    BY <1>1 DEF Cells
  <2>2. \A i \in 1..Len(a) : all[i] = a[i]
    BY <1>1, <2>1
  <2>3. ASSUME NEW i \in 1..Len(d) PROVE all[Len(a) + Len(b) + i] = d[i]
    <3>1. Len(b) + i \in 1..Len(b \o d) /\ Len(a) + Len(b) + i = Len(a) + (Len(b) + i)
      BY <1>1, <2>1
    <3>2. all[Len(a) + (Len(b) + i)] = (b \o d)[Len(b) + i]
      BY <1>1, <2>1, <3>1
    <3>3. QED
      BY <2>1, <3>1, <3>2
  <2>4. QED
    BY <2>2, <2>3
<1> HIDE DEF all
<1>3. SubSeq(all, 1, Len(a)) = a
  <2>1. /\ SubSeq(all, 1, Len(a)) \in Seq(Int) /\ Len(SubSeq(all, 1, Len(a))) = Len(a)
        /\ \A i \in 1..Len(a) : SubSeq(all, 1, Len(a))[i] = all[i]
    BY <1>1 DEF Cells
  <2>2. QED
    BY <1>1, <1>2, <2>1, SeqEqual DEF Cells
<1>4. SubSeq(all, Len(a) + Len(b) + 1, Len(all)) = d
  <2> DEFINE r == SubSeq(all, Len(a) + Len(b) + 1, Len(all))
  <2>1. /\ r \in Seq(Int) /\ Len(r) = Len(d)
        /\ \A i \in 1..Len(d) : r[i] = all[Len(a) + Len(b) + i]
    <3> DEFINE m == Len(a) + Len(b) + 1
               n == Len(all)
    <3>1. all \in Seq(Int) /\ m \in 1..(n + 1) /\ n \in Nat /\ n - m + 1 = Len(d)
          /\ n = Len(all) /\ 1 <= m /\ m \in Nat
      BY <1>1 DEF Cells
    <3>2. \A i \in 1..Len(d) : m + i - 1 = Len(a) + Len(b) + i
      BY <1>1
    <3> HIDE DEF m, n
    <3>3. /\ SubSeq(all, m, n) \in Seq(Int)
          /\ Len(SubSeq(all, m, n)) = IF m <= n THEN n - m + 1 ELSE 0
          /\ \A i \in 1..(n - m + 1) : SubSeq(all, m, n)[i] = all[m + i - 1]
      <4>1. m \in Int /\ n \in Int /\ \A i \in m..n : all[i] \in Int
        BY <3>1, ElementOfSeq
      <4>2. QED
        BY <4>1, SubSeqProperties
    <3>4. r = SubSeq(all, m, n)
      BY DEF m, n
    <3>5. m \in Int /\ n \in Int /\ (m <= n \/ n - m + 1 = 0)
      BY <3>1
    <3> HIDE DEF r
    <3>6. QED
      BY <3>1, <3>2, <3>3, <3>4, <3>5
  <2> HIDE DEF r
  <2>2. r = d
    BY <1>1, <1>2, <2>1, SeqEqual DEF Cells
  <2>3. QED
    BY <2>2 DEF r
<1>5. Splice(all, Len(a), Len(b), text) = (a \o text) \o d
  BY <1>3, <1>4 DEF Splice
<1>6. (a \o text) \o d = a \o (text \o d)
  BY CatAssoc DEF Cat
<1>7. Cat(a, Cat(b, d)) = all /\ Cat(a, Cat(text, d)) = (a \o text) \o d
  BY <1>6 DEF all, Cat
<1>8. QED
  BY <1>5, <1>7

-----------------------------------------------------------------------------
(***************************************************************************)
(* getMappedOffset: where a position of the source is after some changes.  *)
(***************************************************************************)
\* The deltas of a buffer, and what one of them does to a position.
BufferDelta == [at : Int, by : Int]
Shift(d, pos) == IF d.at < 2 * pos + 1 THEN d.by ELSE 0
\* Shifting(ds, pos, n, f): f[k] is where pos is after the first k deltas.
Shifting(ds, pos, n, f) ==
  /\ f \in [0..n -> Int] /\ f[0] = pos
  /\ \A i \in 1..n : f[i] = f[i - 1] + Shift(ds[i], pos)

\* A delta moves a position by a number.
LEMMA ShiftType ==
  ASSUME NEW d \in BufferDelta, NEW pos \in Int
  PROVE  Shift(d, pos) \in Int
BY DEF Shift, BufferDelta

\* The positions after each delta exist.
LEMMA ShiftingExists ==
  ASSUME NEW ds \in Seq(BufferDelta), NEW pos \in Int
  PROVE  \A n \in 0..Len(ds) : \E f : Shifting(ds, pos, n, f)
<1> DEFINE S == {n \in 0..Len(ds) : \E f : Shifting(ds, pos, n, f)}
<1>1. 0 \in S
  <2> DEFINE f == [i \in 0..0 |-> pos]
  <2>1. Shifting(ds, pos, 0, f)
    BY DEF Shifting
  <2>2. QED
    BY <2>1
<1>2. ASSUME NEW n \in 0..Len(ds), n \in S, n < Len(ds) PROVE n + 1 \in S
  <2>1. PICK f : Shifting(ds, pos, n, f)
    BY <1>2
  <2> DEFINE g == [i \in 0..(n + 1) |-> IF i = n + 1 THEN f[n] + Shift(ds[n + 1], pos) ELSE f[i]]
  <2>2. n \in Nat /\ n + 1 \in 1..Len(ds) /\ ds[n + 1] \in BufferDelta /\ n + 1 \in 0..Len(ds)
    BY <1>2
  <2>3. f[n] \in Int /\ f[n] + Shift(ds[n + 1], pos) \in Int
    <3>1. f[n] \in Int
      BY <2>1, <2>2 DEF Shifting
    <3>2. Shift(ds[n + 1], pos) \in Int
      BY <2>2, ShiftType
    <3>3. QED
      BY <3>1, <3>2
  <2>4. \A i \in 0..(n + 1) : g[i] \in Int
    BY <2>1, <2>2, <2>3 DEF Shifting
  <2>5. \A i \in 1..(n + 1) : g[i] = g[i - 1] + Shift(ds[i], pos)
    <3> SUFFICES ASSUME NEW i \in 1..(n + 1) PROVE g[i] = g[i - 1] + Shift(ds[i], pos)
      OBVIOUS
    <3>1. CASE i = n + 1
      <4>1. i - 1 = n /\ i - 1 # n + 1 /\ i - 1 \in 0..(n + 1) /\ i \in 0..(n + 1)
        BY <2>2, <3>1
      <4>2. g[i] = f[n] + Shift(ds[n + 1], pos) /\ g[i - 1] = f[i - 1]
        BY <3>1, <4>1
      <4> HIDE DEF g
      <4>3. QED
        BY <3>1, <4>1, <4>2
    <3>2. CASE i # n + 1
      <4>1. i \in 1..n /\ i - 1 \in 0..n /\ i - 1 # n + 1
        BY <2>2, <3>2
      <4>2. g[i] = f[i] /\ g[i - 1] = f[i - 1]
        BY <4>1, <3>2, <2>2
      <4>3. f[i] = f[i - 1] + Shift(ds[i], pos)
        BY <2>1, <4>1 DEF Shifting
      <4> HIDE DEF g
      <4>4. QED
        BY <4>2, <4>3
    <3>3. QED
      BY <3>1, <3>2
  <2>6. g[0] = pos
    BY <2>1, <2>2 DEF Shifting
  <2>7. g \in [0..(n + 1) -> Int]
    BY <2>4
  <2> HIDE DEF g
  <2>8. Shifting(ds, pos, n + 1, g)
    BY <2>5, <2>6, <2>7 DEF Shifting
  <2>9. QED
    BY <2>2, <2>8
<1> HIDE DEF S
<1>3. \A n \in 0..Len(ds) : n \in S
  <2>1. 0 \in Nat /\ Len(ds) \in Nat
    OBVIOUS
  <2>2. QED
    BY <2>1, <1>1, <1>2, SetInductionTo
<1>4. QED
  BY <1>3 DEF S

\* The recursive function of Mapped.
LEMMA MappedIsShifting ==
  ASSUME NEW buf, buf.deltas \in Seq(BufferDelta), NEW pos \in Int, NEW f,
         Shifting(buf.deltas, pos, Len(buf.deltas), f)
  PROVE  Mapped(buf, pos) = f[Len(buf.deltas)]
<1> DEFINE n == Len(buf.deltas)
           Is(g) == g = [k \in 0..n |->
                           IF k = 0 THEN pos
                           ELSE g[k - 1] + IF buf.deltas[k].at < 2 * pos + 1 THEN buf.deltas[k].by ELSE 0]
           upTo == CHOOSE g : Is(g)
<1>0. n \in Nat
  OBVIOUS
<1>1. Mapped(buf, pos) = upTo[n]
  BY DEF Mapped
<1>2. Is(f)
  <2>1. f = [k \in 0..n |-> f[k]]
    BY DEF Shifting
  <2>2. \A k \in 0..n : f[k] = IF k = 0 THEN pos
           ELSE f[k - 1] + IF buf.deltas[k].at < 2 * pos + 1 THEN buf.deltas[k].by ELSE 0
    <3> SUFFICES ASSUME NEW k \in 0..n, k # 0
                 PROVE f[k] = f[k - 1] + IF buf.deltas[k].at < 2 * pos + 1 THEN buf.deltas[k].by ELSE 0
      BY DEF Shifting
    <3>1. k \in 1..n
      BY <1>0
    <3>2. QED
      BY <3>1 DEF Shifting, Shift
  <2> HIDE DEF n
  <2>3. QED
    BY <2>1, <2>2
<1>3. Is(upTo)
  <2> HIDE DEF Is
  <2>1. QED
    BY <1>2
<1>4. /\ upTo[0] = pos
      /\ \A k \in 1..n : upTo[k] = upTo[k - 1] + Shift(buf.deltas[k], pos)
  <2> HIDE DEF upTo
  <2>1. \A k \in 0..n : upTo[k] = IF k = 0 THEN pos
           ELSE upTo[k - 1] + IF buf.deltas[k].at < 2 * pos + 1 THEN buf.deltas[k].by ELSE 0
    BY <1>3
  <2> HIDE DEF n, Is
  <2>2. \A k \in 1..n : k \in 0..n /\ k # 0
    BY <1>0
  <2>3. QED
    BY <1>0, <2>1, <2>2 DEF Shift
<1> HIDE DEF upTo, Is
<1> DEFINE S == {k \in 0..n : upTo[k] = f[k]}
<1>5. 0 \in S
  BY <1>0, <1>4 DEF Shifting
<1>6. \A k \in 0..n : k \in S /\ k < n => k + 1 \in S
  <2> SUFFICES ASSUME NEW k \in S, k < n PROVE k + 1 \in S
    OBVIOUS
  <2>1. k + 1 \in 1..n /\ (k + 1) - 1 = k /\ k + 1 \in 0..n
    BY <1>0
  <2>2. /\ upTo[k + 1] = upTo[k] + Shift(buf.deltas[k + 1], pos)
        /\ f[k + 1] = f[k] + Shift(buf.deltas[k + 1], pos)
    BY <1>4, <2>1 DEF Shifting
  <2>3. QED
    BY <2>1, <2>2
<1> HIDE DEF S
<1>7. \A k \in 0..n : k \in S
  <2>1. 0 \in Nat
    OBVIOUS
  <2> HIDE DEF n
  <2>2. QED
    BY <1>0, <1>5, <1>6, <2>1, SetInductionTo
<1>8. upTo[n] = f[n]
  BY <1>0, <1>7 DEF S
<1>9. QED
  BY <1>1, <1>8

\* A position is mapped to a number.
LEMMA MappedType ==
  ASSUME NEW buf, buf.deltas \in Seq(BufferDelta), NEW pos \in Int
  PROVE  Mapped(buf, pos) \in Int
<1>1. Len(buf.deltas) \in Nat /\ Len(buf.deltas) \in 0..Len(buf.deltas)
  OBVIOUS
<1>2. PICK f : Shifting(buf.deltas, pos, Len(buf.deltas), f)
  BY <1>1, ShiftingExists
<1>3. Mapped(buf, pos) = f[Len(buf.deltas)]
  BY <1>2, MappedIsShifting
<1>4. QED
  BY <1>1, <1>2, <1>3 DEF Shifting

\* A change moves what is behind it.
LEMMA MappedStep ==
  ASSUME NEW buf, buf.deltas \in Seq(BufferDelta), NEW d \in BufferDelta, NEW pos \in Int,
         NEW new, new.deltas = Append(buf.deltas, d)
  PROVE  Mapped(new, pos) = Mapped(buf, pos) + Shift(d, pos)
<1> DEFINE n == Len(buf.deltas)
           ds == new.deltas
<1>1. /\ n \in Nat /\ ds \in Seq(BufferDelta) /\ Len(ds) = n + 1
      /\ \A i \in 1..n : ds[i] = buf.deltas[i]
      /\ ds[n + 1] = d
  OBVIOUS
<1>2. PICK f : Shifting(ds, pos, n + 1, f)
  <2>1. n + 1 \in 0..Len(ds)
    BY <1>1
  <2> HIDE DEF ds, n
  <2>2. QED
    BY <1>1, <2>1, ShiftingExists
<1> HIDE DEF ds, n
<1>3. Mapped(new, pos) = f[n + 1]
  BY <1>1, <1>2, MappedIsShifting DEF ds
<1> DEFINE g == [i \in 0..n |-> f[i]]
<1>4. Shifting(buf.deltas, pos, n, g)
  <2>1. \A i \in 0..n : i \in 0..(n + 1) /\ f[i] \in Int
    BY <1>1, <1>2 DEF Shifting
  <2>2. g \in [0..n -> Int]
    BY <2>1
  <2>3. \A i \in 1..n : i \in 1..(n + 1) /\ i \in 0..n /\ i - 1 \in 0..n
    BY <1>1
  <2>4. \A i \in 1..n : g[i] = g[i - 1] + Shift(buf.deltas[i], pos)
    BY <1>1, <1>2, <2>3 DEF Shifting
  <2>5. g[0] = pos
    BY <1>1, <1>2 DEF Shifting
  <2> HIDE DEF g
  <2>6. QED
    BY <2>2, <2>4, <2>5 DEF Shifting
<1>5. Mapped(buf, pos) = g[n]
  <2> HIDE DEF g
  <2>1. QED
    BY <1>4, MappedIsShifting DEF n
<1>6. g[n] = f[n] /\ f[n + 1] = f[n] + Shift(d, pos)
  <2>1. n + 1 \in 1..(n + 1) /\ (n + 1) - 1 = n /\ n \in 0..n
    BY <1>1
  <2>2. f[n + 1] = f[(n + 1) - 1] + Shift(ds[n + 1], pos)
    BY <1>2, <2>1 DEF Shifting
  <2>3. QED
    BY <1>1, <2>1, <2>2
<1>7. QED
  BY <1>3, <1>5, <1>6

\* Without changes a position stays where it is.
LEMMA MappedNothing ==
  ASSUME NEW buf, buf.deltas = <<>>, NEW pos \in Int
  PROVE  Mapped(buf, pos) = pos
<1>1. buf.deltas \in Seq(BufferDelta) /\ Len(buf.deltas) = 0
  OBVIOUS
<1>2. PICK f : Shifting(buf.deltas, pos, 0, f)
  <2>1. 0 \in 0..Len(buf.deltas)
    BY <1>1
  <2>2. QED
    BY <1>1, <2>1, ShiftingExists
<1>3. Shifting(buf.deltas, pos, Len(buf.deltas), f)
  BY <1>1, <1>2
<1>4. Mapped(buf, pos) = f[Len(buf.deltas)]
  BY <1>1, <1>3, MappedIsShifting
<1>5. QED
  BY <1>1, <1>2, <1>4 DEF Shifting

-----------------------------------------------------------------------------
\* What an edit of the texts lo+1 .. hi is: before stays, x and the texts behind
\* it up to hi become y, and what is behind hi moves by the difference.
Edited(s, t, N, lo, hi, before, x, y) ==
  /\ \E m \in Cells, d \in Cells :
       /\ Len(m) = Len(x) + (hi - lo - 1)
       /\ hi = lo + 1 => m = x
       /\ Prefix(s, N) = Cat(Cat(Prefix(s, lo), before), Cat(m, d))
       /\ Prefix(t, N) = Cat(Cat(Prefix(s, lo), before), Cat(y, d))
  /\ \A pos \in 0..lo : Prefix(t, pos) = Prefix(s, pos)
  /\ \A pos \in hi..N : Len(Prefix(t, pos))
                          = Len(Prefix(s, pos)) + Len(y) - Len(x) - (hi - lo - 1)

\* An edit of the texts lo+1 .. hi, which keeps what is before x.
LEMMA EditTexts ==
  ASSUME NEW s \in Seq(Cells), NEW t \in Seq(Cells), NEW N \in Nat, Len(s) = N, Len(t) = N,
         NEW lo \in 0..N, NEW hi \in 0..N, lo < hi,
         NEW before \in Cells, NEW x \in Cells, NEW y \in Cells,
         s[lo + 1] = Cat(before, x), t[lo + 1] = Cat(before, y),
         \A i \in (lo + 2)..hi : Len(s[i]) = 1 /\ Len(t[i]) = 0,
         \A i \in 1..N : i <= lo \/ hi < i => s[i] = t[i]
  PROVE  Edited(s, t, N, lo, hi, before, x, y)
<1> DEFINE p == Prefix(s, lo)
<1>1. \A n \in 0..N : Prefix(s, n) \in Cells /\ Prefix(t, n) \in Cells
  BY PrefixStep
<1>2. \A pos \in 0..lo : Prefix(t, pos) = Prefix(s, pos)
  <2> SUFFICES ASSUME NEW pos \in 0..lo PROVE Prefix(t, pos) = Prefix(s, pos)
    OBVIOUS
  <2>1. pos \in Nat /\ \A i \in 1..pos : i \in 1..N /\ i <= lo
    OBVIOUS
  <2>2. \A i \in 1..pos : t[i] = s[i]
    BY <2>1
  <2>3. QED
    BY <2>1, <2>2, PrefixSame
<1>3. lo + 1 \in 1..N /\ lo + 1 \in Nat /\ hi \in Nat /\ lo + 1 <= hi /\ (lo + 1) - 1 = lo
      /\ (lo + 1) + 1 = lo + 2 /\ hi - (lo + 1) = hi - lo - 1 /\ lo \in Nat
      /\ hi <= Len(s) /\ hi <= Len(t) /\ 0 \in {0, 1} /\ 1 \in {0, 1}
      /\ lo \in 0..N /\ hi \in 0..N /\ lo + 1 \in 0..N /\ N \in hi..N
  OBVIOUS
<1>4. /\ Prefix(s, lo + 1) = Cat(p, Cat(before, x))
      /\ Prefix(t, lo + 1) = Cat(p, Cat(before, y))
  <2>1. /\ Prefix(s, lo + 1) = Cat(Prefix(s, lo), s[lo + 1])
        /\ Prefix(t, lo + 1) = Cat(Prefix(t, lo), t[lo + 1])
    <3>1. Prefix(s, lo + 1) = Cat(Prefix(s, lo), s[lo + 1])
      <4>1. \A n \in 1..N : Prefix(s, n) = Cat(Prefix(s, n - 1), s[n])
        BY PrefixStep
      <4>2. Prefix(s, lo + 1) = Cat(Prefix(s, (lo + 1) - 1), s[lo + 1])
        BY <1>3, <4>1
      <4>3. QED
        BY <1>3, <4>2
    <3>2. Prefix(t, lo + 1) = Cat(Prefix(t, lo), t[lo + 1])
      <4>1. \A n \in 1..N : Prefix(t, n) = Cat(Prefix(t, n - 1), t[n])
        BY PrefixStep
      <4>2. Prefix(t, lo + 1) = Cat(Prefix(t, (lo + 1) - 1), t[lo + 1])
        BY <1>3, <4>1
      <4>3. QED
        BY <1>3, <4>2
    <3>3. QED
      BY <3>1, <3>2
  <2>2. Prefix(t, lo) = p
    <3>1. lo \in 0..lo
      OBVIOUS
    <3>2. QED
      BY <1>2, <3>1
  <2>3. QED
    BY <2>1, <2>2
<1>5. PICK b \in Cells : Prefix(s, hi) = Cat(Prefix(s, lo + 1), b) /\ Len(b) = hi - lo - 1
  <2>1. \A i \in (lo + 1 + 1)..hi : Len(s[i]) = 1
    BY <1>3
  <2>2. PICK c \in Cells : /\ Prefix(s, hi) = Cat(Prefix(s, lo + 1), c)
                         /\ Len(c) = IF 1 = 0 THEN 0 ELSE hi - (lo + 1)
    BY <1>3, <2>1, MiddleLength
  <2>3. Len(c) = hi - lo - 1
    BY <1>3, <2>2
  <2>4. QED
    BY <2>2, <2>3, Zenon
<1>6. Prefix(t, hi) = Prefix(t, lo + 1)
  <2>1. \A i \in (lo + 1 + 1)..hi : Len(t[i]) = 0
    BY <1>3
  <2>2. PICK e \in Cells : /\ Prefix(t, hi) = Cat(Prefix(t, lo + 1), e)
                           /\ Len(e) = IF 0 = 0 THEN 0 ELSE hi - (lo + 1)
    BY <1>3, <2>1, MiddleLength
  <2>3. e = <<>>
    BY <2>2, CatEmpty
  <2>4. lo + 1 \in 0..N
    BY <1>3
  <2>5. Prefix(t, lo + 1) \in Cells
    BY <1>1, <2>4
  <2>6. QED
    BY <2>2, <2>3, <2>5, CatEmpty
<1>7. p \in Cells
  BY <1>1
<1>8. PICK q \in Cells : q = Cat(p, before)
  BY <1>7, CatType
<1>9. PICK m \in Cells : /\ Prefix(s, hi) = Cat(q, m) /\ Prefix(t, hi) = Cat(q, y)
                         /\ Len(m) = Len(x) + (hi - lo - 1)
                         /\ hi = lo + 1 => m = x
  <2>1. Cat(p, Cat(before, x)) = Cat(q, x) /\ Cat(p, Cat(before, y)) = Cat(q, y)
    BY <1>7, <1>8, CatAssoc, Zenon
  <2> HIDE DEF p
  <2>2. Cat(Cat(q, x), b) = Cat(q, Cat(x, b))
    BY <1>5, <1>8, CatAssoc
  <2>3. Cat(x, b) \in Cells /\ Len(Cat(x, b)) = Len(x) + Len(b) /\ Len(x) \in Nat
    BY <1>5, CatType
  <2>4. hi = lo + 1 => Cat(x, b) = x
    <3> SUFFICES ASSUME hi = lo + 1 PROVE Cat(x, b) = x
      OBVIOUS
    <3>1. Len(b) = 0
      BY <1>3, <1>5
    <3>2. b = <<>>
      BY <1>5, <3>1, CatEmpty
    <3>3. QED
      BY <3>2, CatEmpty
  <2>5. Prefix(s, hi) = Cat(q, Cat(x, b)) /\ Prefix(t, hi) = Cat(q, y)
    BY <1>4, <1>5, <1>6, <2>1, <2>2
  <2>6. Len(Cat(x, b)) = Len(x) + (hi - lo - 1)
    BY <1>5, <2>3
  <2>7. QED
    BY <2>3, <2>4, <2>5, <2>6
<1> HIDE DEF p
<1>10. \A n \in hi..N : \E d \in Cells : /\ Prefix(s, n) = Cat(q, Cat(m, d))
                                         /\ Prefix(t, n) = Cat(q, Cat(y, d))
  <2> SUFFICES ASSUME NEW n \in hi..N
               PROVE  \E d \in Cells : /\ Prefix(s, n) = Cat(q, Cat(m, d))
                                       /\ Prefix(t, n) = Cat(q, Cat(y, d))
    OBVIOUS
  <2>1. \A i \in (hi + 1)..N : s[i] = t[i]
    OBVIOUS
  <2>2. PICK d \in Cells : Prefix(s, n) = Cat(Prefix(s, hi), d) /\ Prefix(t, n) = Cat(Prefix(t, hi), d)
    BY <2>1, SuffixSame
  <2>3. q \in Cells /\ m \in Cells /\ y \in Cells /\ d \in Cells
    BY <1>8, <1>9, <2>2
  <2>4. Cat(Cat(q, m), d) = Cat(q, Cat(m, d))
    BY <2>3, CatAssoc
  <2>5. Cat(Cat(q, y), d) = Cat(q, Cat(y, d))
    BY <2>3, CatAssoc
  <2>6. Prefix(s, n) = Cat(q, Cat(m, d)) /\ Prefix(t, n) = Cat(q, Cat(y, d))
    <3>1. Prefix(s, hi) = Cat(q, m) /\ Prefix(t, hi) = Cat(q, y)
      BY <1>9
    <3>2. Prefix(s, n) = Cat(Prefix(s, hi), d) /\ Prefix(t, n) = Cat(Prefix(t, hi), d)
      BY <2>2
    <3>3. QED
      BY <3>1, <3>2, <2>4, <2>5, Zenon
  <2>7. QED
    BY <2>2, <2>6
<1>11. \A pos \in hi..N : Len(Prefix(t, pos))
                            = Len(Prefix(s, pos)) + Len(y) - Len(x) - (hi - lo - 1)
  <2> SUFFICES ASSUME NEW pos \in hi..N
               PROVE  Len(Prefix(t, pos)) = Len(Prefix(s, pos)) + Len(y) - Len(x) - (hi - lo - 1)
    OBVIOUS
  <2>1. PICK d \in Cells : Prefix(s, pos) = Cat(q, Cat(m, d)) /\ Prefix(t, pos) = Cat(q, Cat(y, d))
    BY <1>10
  <2>2. /\ q \in Cells /\ m \in Cells /\ y \in Cells /\ d \in Cells /\ x \in Cells
        /\ Len(q) \in Nat /\ Len(m) \in Nat /\ Len(d) \in Nat /\ Len(y) \in Nat /\ Len(x) \in Nat
    BY <1>8, <1>9, <2>1, CatType
  <2>3. Cat(m, d) \in Cells /\ Len(Cat(m, d)) = Len(m) + Len(d)
    BY <2>2, CatType
  <2>4. Cat(y, d) \in Cells /\ Len(Cat(y, d)) = Len(y) + Len(d)
    BY <2>2, CatType
  <2>5. Len(Cat(q, Cat(m, d))) = Len(q) + Len(Cat(m, d))
    BY <2>2, <2>3, CatType
  <2>6. Len(Cat(q, Cat(y, d))) = Len(q) + Len(Cat(y, d))
    BY <2>2, <2>4, CatType
  <2>7. QED
    <3>1. Len(m) = Len(x) + (hi - lo - 1)
      BY <1>9
    <3>2. /\ Len(Prefix(s, pos)) = Len(q) + (Len(m) + Len(d))
          /\ Len(Prefix(t, pos)) = Len(q) + (Len(y) + Len(d))
      BY <2>1, <2>3, <2>4, <2>5, <2>6
    <3>3. QED
      BY <2>2, <3>1, <3>2
<1>12. \E d \in Cells : Prefix(s, N) = Cat(q, Cat(m, d)) /\ Prefix(t, N) = Cat(q, Cat(y, d))
  BY <1>3, <1>10
<1>13. \E d \in Cells : /\ Prefix(s, N) = Cat(Cat(Prefix(s, lo), before), Cat(m, d))
                        /\ Prefix(t, N) = Cat(Cat(Prefix(s, lo), before), Cat(y, d))
  BY <1>8, <1>12, Zenon DEF p
<1>14. /\ m \in Cells /\ Len(m) = Len(x) + (hi - lo - 1)
       /\ hi = lo + 1 => m = x
  BY <1>9
<1>15. QED
  BY <1>2, <1>11, <1>13, <1>14, Zenon DEF Edited

-----------------------------------------------------------------------------
(***************************************************************************)
(* The buffer as the concatenation of what stands at each position.        *)
(***************************************************************************)
\* What stands at each position, and what each Insert_Text put at one.
Out == [p \in 1..Length |-> OutputAt(p - 1)]
Ins(p) == [k \in 1..Len(inserts) |-> IF inserts[k] = p THEN NewDecl(k) ELSE <<>>]

\* No committed range begins before the position and ends behind it.
Outside(pos) == \A k \in Committed : ~(DeltaList[k].lo < pos /\ pos < DeltaList[k].hi)

\* The inductive invariant of the buffer: it holds the output, and maps each position
\* that is inside no committed range behind what precedes it and what was
\* inserted there.
BufferInv ==
  /\ ~Solved => committed = 0
  /\ \A i \in 1..Len(DeltaList) : InOneDeclaration(DeltaList[i])
  /\ EditsCommute
  /\ buffer.deltas \in Seq(BufferDelta)
  /\ \A pos \in Position : Outside(pos) =>
       Mapped(buffer, pos) = Len(Prefix(Out, pos)) + Len(InsertedAt(pos))

\* A new declaration has two cells.
LEMMA NewDeclType ==
  ASSUME NEW k \in Nat
  PROVE  NewDecl(k) \in Cells /\ Len(NewDecl(k)) = 2
<1>1. -2 * k \in Int /\ -2 * k - 1 \in Int
  OBVIOUS
<1>2. QED
  BY <1>1 DEF NewDecl, Cells

\* The insertions as a concatenation.
LEMMA InsertedIsPrefix ==
  ASSUME inserts \in Seq(Boundaries), NEW p
  PROVE  /\ Ins(p) \in Seq(Cells) /\ Len(Ins(p)) = Len(inserts) /\ Len(inserts) \in Nat
         /\ \A k \in 1..Len(inserts) : Ins(p)[k] = IF inserts[k] = p THEN NewDecl(k) ELSE <<>>
         /\ InsertedAt(p) = Prefix(Ins(p), Len(inserts))
         /\ InsertedAt(p) \in Cells
<1> DEFINE n == Len(inserts)
<1>0. n \in Nat
  OBVIOUS
<1> HIDE DEF n
<1>1. \A k \in 1..n : (IF inserts[k] = p THEN NewDecl(k) ELSE <<>>) \in Cells
  <2>1. \A k \in 1..n : k \in Nat
    BY <1>0
  <2>2. <<>> \in Cells
    BY DEF Cells
  <2>3. QED
    BY <2>1, <2>2, NewDeclType
<1>2. /\ Ins(p) \in Seq(Cells) /\ Len(Ins(p)) = n
      /\ \A k \in 1..n : Ins(p)[k] = IF inserts[k] = p THEN NewDecl(k) ELSE <<>>
  <2>1. Ins(p) = [k \in 1..n |-> IF inserts[k] = p THEN NewDecl(k) ELSE <<>>]
    BY DEF Ins, n
  <2>2. Ins(p) \in [1..n -> Cells]
    BY <1>1, <2>1
  <2>3. Ins(p) \in Seq(Cells) /\ Len(Ins(p)) = n
    BY <1>0, <2>2
  <2>4. QED
    BY <2>1, <2>3
<1>3. InsertedAt(p) = Prefix(Ins(p), n)
  <2>1. [k \in 1..n |-> Ins(p)[k]] = [k \in 1..n |-> IF inserts[k] = p THEN NewDecl(k) ELSE <<>>]
    BY <1>2
  <2>2. QED
    BY <2>1 DEF InsertedAt, Prefix, n
<1>4. InsertedAt(p) \in Cells
  <2>1. n \in 0..Len(Ins(p))
    BY <1>0, <1>2
  <2>2. QED
    BY <1>2, <1>3, <2>1, PrefixStep
<1>5. QED
  BY <1>0, <1>2, <1>3, <1>4 DEF n

\* Where nothing was inserted, there is nothing.
LEMMA InsertedNothing ==
  ASSUME inserts \in Seq(Boundaries), NEW p, p \notin Boundaries
  PROVE  InsertedAt(p) = <<>>
<1>1. /\ Ins(p) \in Seq(Cells) /\ Len(Ins(p)) = Len(inserts) /\ Len(inserts) \in Nat
      /\ \A k \in 1..Len(inserts) : Ins(p)[k] = <<>>
      /\ InsertedAt(p) = Prefix(Ins(p), Len(inserts))
  <2>1. \A k \in 1..Len(inserts) : inserts[k] # p
    OBVIOUS
  <2>2. QED
    BY <2>1, InsertedIsPrefix
<1>2. PICK b \in Cells : /\ Prefix(Ins(p), Len(inserts)) = Cat(Prefix(Ins(p), 0), b)
                         /\ Len(b) = IF 0 = 0 THEN 0 ELSE Len(inserts) - 0
  <2>1. /\ 0 \in Nat /\ 0 <= Len(inserts) /\ Len(inserts) <= Len(Ins(p)) /\ 0 \in {0, 1}
        /\ \A k \in (0 + 1)..Len(inserts) : Len(Ins(p)[k]) = 0
    BY <1>1
  <2>2. QED
    BY <1>1, <2>1, MiddleLength
<1>3. b = <<>> /\ Prefix(Ins(p), 0) = <<>>
  BY <1>1, <1>2, CatEmpty, PrefixStep
<1>4. Cat(<<>>, <<>>) = <<>>
  BY CatEmpty
<1>5. QED
  BY <1>1, <1>2, <1>3, <1>4

\* What stands at a position.
LEMMA OutputCases ==
  ASSUME TypeOK, NEW p \in Position
  PROVE  /\ InsertedAt(p) \in Cells
         /\ OutputAt(p) \in Cells
         /\ ~Covered(p) /\ NewTextAt(p) = {} => OutputAt(p) = Cat(InsertedAt(p), <<p>>)
         /\ Covered(p) /\ NewTextAt(p) = {} => OutputAt(p) = InsertedAt(p)
         /\ \A text : NewTextAt(p) = {text} => OutputAt(p) = Cat(InsertedAt(p), text)
<1>1. InsertedAt(p) \in Cells
  BY InsertedIsPrefix DEF TypeOK
<1>2. <<p>> \in Cells /\ <<>> \in Cells
  BY LengthOK DEF Position, Cells
<1>3. NewTextAt(p) \subseteq Cells
  <2>1. /\ DeltaList \in Seq(Delta) /\ newArr \in Seq(1..Len(DeltaList))
        /\ committed \in 0..Len(newArr)
    BY DEF TypeOK
  <2>2. \A k \in Committed : k \in 1..Len(DeltaList)
    BY <2>1 DEF Committed
  <2>3. \A k \in 1..Len(DeltaList) : DeltaList[k].text \in Texts
    <3>1. \A k \in 1..Len(DeltaList) : DeltaList[k] \in Delta
      BY <2>1
    <3>2. QED
      BY <3>1 DEF Delta
  <2>4. QED
    BY <2>2, <2>3, TextsOK DEF NewTextAt, Cells
<1> DEFINE after ==
      CASE NewTextAt(p) # {} -> CHOOSE text \in NewTextAt(p) : TRUE
        [] Covered(p) /\ NewTextAt(p) = {} -> <<>>
        [] ~Covered(p) /\ NewTextAt(p) = {} -> <<p>>
<1>4. OutputAt(p) = Cat(InsertedAt(p), after)
  BY DEF OutputAt, Cat
<1>5. CASE NewTextAt(p) # {}
  <2>1. after \in NewTextAt(p)
    BY <1>5
  <2> HIDE DEF after
  <2>2. after \in Cells /\ \A text : NewTextAt(p) = {text} => after = text
    BY <1>3, <2>1
  <2>3. OutputAt(p) \in Cells
    BY <1>1, <1>4, <2>2, CatType
  <2>4. QED
    BY <1>1, <1>4, <1>5, <2>2, <2>3
<1>6. CASE NewTextAt(p) = {} /\ Covered(p)
  <2>1. after = <<>>
    BY <1>6
  <2>2. OutputAt(p) = InsertedAt(p)
    BY <1>1, <1>4, <2>1, CatEmpty
  <2>3. QED
    BY <1>1, <1>6, <2>2
<1>7. CASE NewTextAt(p) = {} /\ ~Covered(p)
  <2>1. after = <<p>>
    BY <1>7
  <2>2. OutputAt(p) = Cat(InsertedAt(p), <<p>>)
    BY <1>4, <2>1
  <2>3. OutputAt(p) \in Cells
    BY <1>1, <1>2, <2>2, CatType
  <2>4. QED
    BY <1>1, <1>7, <2>2, <2>3
<1>8. QED
  BY <1>5, <1>6, <1>7

\* The output has one text for each position of the source.
LEMMA OutType ==
  ASSUME TypeOK
  PROVE  /\ Out \in Seq(Cells) /\ Len(Out) = Length
         /\ \A i \in 1..Length : Out[i] = OutputAt(i - 1)
         /\ OutputText = Prefix(Out, Length)
<1>1. \A i \in 1..Length : i - 1 \in Position
  BY LengthOK DEF Position
<1>2. Out \in [1..Length -> Cells]
  BY <1>1, OutputCases DEF Out
<1>3. Out \in Seq(Cells) /\ Len(Out) = Length
  BY <1>2, LengthOK
<1>4. \A i \in 1..Length : Out[i] = OutputAt(i - 1)
  BY DEF Out
<1>5. OutputText = Prefix(Out, Length)
  <2>1. [i \in 1..Length |-> Out[i]] = [p \in 1..Length |-> OutputAt(p - 1)]
    BY <1>4
  <2>2. QED
    BY <2>1 DEF OutputText, Prefix
<1>6. QED
  BY <1>3, <1>4, <1>5

-----------------------------------------------------------------------------
\* What the lemmas above say of every position.
InsertedFacts ==
  \A p : /\ Ins(p) \in Seq(Cells) /\ Len(Ins(p)) = Len(inserts) /\ Len(inserts) \in Nat
         /\ \A k \in 1..Len(inserts) : Ins(p)[k] = IF inserts[k] = p THEN NewDecl(k) ELSE <<>>
         /\ InsertedAt(p) = Prefix(Ins(p), Len(inserts))
         /\ InsertedAt(p) \in Cells
         /\ p \notin Boundaries => InsertedAt(p) = <<>>
OutputFacts ==
  \A p \in Position :
     /\ OutputAt(p) \in Cells
     /\ ~Covered(p) /\ NewTextAt(p) = {} => OutputAt(p) = Cat(InsertedAt(p), <<p>>)
     /\ Covered(p) /\ NewTextAt(p) = {} => OutputAt(p) = InsertedAt(p)
     /\ \A text : NewTextAt(p) = {text} => OutputAt(p) = Cat(InsertedAt(p), text)
OutFacts ==
  /\ Out \in Seq(Cells) /\ Len(Out) = Length
  /\ \A i \in 1..Length : Out[i] = OutputAt(i - 1)
  /\ OutputText = Prefix(Out, Length)
Facts == InsertedFacts /\ OutputFacts /\ OutFacts

\* What the lemmas above say, as one state predicate: its primed form then holds
\* of the state after a step.
LEMMA TypeGivesFacts == TypeOK => Facts
<1> SUFFICES ASSUME TypeOK PROVE Facts
  OBVIOUS
<1>1. inserts \in Seq(Boundaries)
  BY DEF TypeOK
<1>2. InsertedFacts
  BY <1>1, InsertedIsPrefix, InsertedNothing DEF InsertedFacts
<1>3. OutputFacts
  BY OutputCases DEF OutputFacts
<1>4. OutFacts
  BY OutType DEF OutFacts
<1>5. QED
  BY <1>2, <1>3, <1>4 DEF Facts

\* Steps that change neither the buffer nor what it is the result of.
LEMMA BufferFrame ==
  ASSUME BufferInv, inserts' = inserts, buffer' = buffer, Committed' = Committed,
         \A k \in Committed : DeltaList'[k] = DeltaList[k],
         ~Solved' => committed' = 0,
         \A i \in 1..Len(DeltaList') : InOneDeclaration(DeltaList'[i])
  PROVE  BufferInv'
<1>1. \A p : InsertedAt(p)' = InsertedAt(p)
  BY DEF InsertedAt
<1>2. \A p : (Covered(p)' <=> Covered(p)) /\ NewTextAt(p)' = NewTextAt(p)
  BY DEF Covered, NewTextAt
<1>3. \A p : OutputAt(p)' = OutputAt(p)
  BY <1>1, <1>2 DEF OutputAt
<1>4. Out' = Out /\ OutputText' = OutputText
  BY <1>3 DEF Out, OutputText
<1>5. EditsCommute'
  BY <1>4 DEF BufferInv, EditsCommute
<1>6. \A pos : Outside(pos)' <=> Outside(pos)
  BY DEF Outside
<1>7. (\A pos \in Position : Outside(pos) =>
         Mapped(buffer, pos) = Len(Prefix(Out, pos)) + Len(InsertedAt(pos)))'
  BY <1>1, <1>4, <1>6 DEF BufferInv
<1>8. QED
  BY <1>5, <1>7 DEF BufferInv

\* Before Commit nothing is committed.
LEMMA NothingCommitted ==
  ASSUME committed = 0
  PROVE  Committed = {} /\ \A p : ~Covered(p) /\ NewTextAt(p) = {} /\ Outside(p)
<1>1. Committed = {}
  BY DEF Committed
<1>2. QED
  BY <1>1 DEF Covered, NewTextAt, Outside

-----------------------------------------------------------------------------
\* Insert_Text adds a declaration behind those that are inserted at the position.
LEMMA InsertedGrows ==
  ASSUME TypeOK, TypeOK', NEW loc \in Boundaries, inserts' = Append(inserts, loc), NEW p
  PROVE  InsertedAt(p)' = IF p = loc THEN Cat(InsertedAt(p), NewDecl(Len(inserts) + 1))
                                     ELSE InsertedAt(p)
<1> DEFINE n == Len(inserts)
           s == Ins(p)
           t == Ins(p)'
<1>1. Facts
  BY TypeGivesFacts
<1>2. TypeOK' => Facts'
  BY TypeGivesFacts, PTL
<1>3. /\ inserts \in Seq(Boundaries) /\ n \in Nat /\ Len(inserts') = n + 1
      /\ \A k \in 1..n : inserts'[k] = inserts[k]
      /\ inserts'[n + 1] = loc
  BY DEF TypeOK
<1>4. /\ t \in Seq(Cells) /\ Len(t) = n + 1
      /\ \A k \in 1..(n + 1) : t[k] = IF inserts'[k] = p THEN NewDecl(k) ELSE <<>>
      /\ InsertedAt(p)' = Prefix(t, n + 1)
  BY <1>2, <1>3 DEF Facts, InsertedFacts
<1>5. /\ \A k \in 1..n : s[k] = IF inserts[k] = p THEN NewDecl(k) ELSE <<>>
      /\ InsertedAt(p) = Prefix(s, n) /\ InsertedAt(p) \in Cells
  BY <1>1 DEF Facts, InsertedFacts
<1> HIDE DEF s, t, n
<1>6. Prefix(t, n) = Prefix(s, n)
  <2>1. \A k \in 1..n : k \in 1..(n + 1)
    BY <1>3
  <2>2. \A k \in 1..n : t[k] = s[k]
    BY <1>3, <1>4, <1>5, <2>1
  <2>3. QED
    BY <1>3, <2>2, PrefixSame
<1>7. Prefix(t, n + 1) = Cat(Prefix(t, n), t[n + 1])
  <2>1. n + 1 \in 1..Len(t) /\ (n + 1) - 1 = n
    BY <1>3, <1>4
  <2>2. Prefix(t, n + 1) = Cat(Prefix(t, (n + 1) - 1), t[n + 1])
    BY <1>4, <2>1, PrefixStep
  <2>3. QED
    BY <2>1, <2>2
<1>8. t[n + 1] = IF loc = p THEN NewDecl(n + 1) ELSE <<>>
  <2>1. n + 1 \in 1..(n + 1)
    BY <1>3
  <2>2. QED
    BY <1>3, <1>4, <2>1
<1>9. InsertedAt(p)' = Cat(InsertedAt(p), t[n + 1])
  BY <1>4, <1>5, <1>6, <1>7
<1>10. CASE p = loc
  BY <1>8, <1>9, <1>10 DEF n
<1>11. CASE p # loc
  <2>1. InsertedAt(p)' = Cat(InsertedAt(p), <<>>)
    BY <1>8, <1>9, <1>11
  <2>2. QED
    BY <1>5, <1>11, <2>1, CatEmpty
<1>12. QED
  BY <1>10, <1>11

-----------------------------------------------------------------------------
\* Insert_Text reaches the buffer at the end of what was inserted at the position.
LEMMA InsertTextBuffer ==
  ASSUME TypeOK, TypeOK', BufferInv, NEW loc \in Boundaries, Insert_Text(loc)
  PROVE  BufferInv'
<1> DEFINE n == Len(inserts)
           nd == NewDecl(n + 1)
           I == InsertedAt(loc)
           A == Prefix(Out, loc)
<1>1. /\ inserts' = Append(inserts, loc)
      /\ buffer' = InsertText(buffer, loc, nd)
      /\ DeltaList' = DeltaList /\ committed' = committed /\ status' = status
      /\ committed = 0 /\ committed' = 0
  BY DEF Insert_Text, BufferInv, Solved
<1>2. /\ Committed = {}
      /\ \A p : ~Covered(p) /\ NewTextAt(p) = {} /\ Outside(p)
  BY <1>1, NothingCommitted
<1>3. \A p : ~Covered(p)' /\ NewTextAt(p)' = {} /\ Outside(p)'
  <2>1. Committed' = {}
    BY <1>1 DEF Committed
  <2>2. QED
    BY <2>1 DEF Covered, NewTextAt, Outside
<1>4. Facts
  BY TypeGivesFacts
<1>5. TypeOK' => Facts'
  BY TypeGivesFacts, PTL
<1>6. n \in Nat /\ loc \in Position /\ loc \in Nat /\ loc + 1 \in 0..Length /\ loc \in 0..Length
  <2>1. n \in Nat
    BY DEF TypeOK
  <2>2. QED
    BY <2>1, LengthOK, BoundariesOK DEF Position
<1>7. nd \in Cells /\ Len(nd) = 2
  BY <1>6, NewDeclType
<1>8. \A p : InsertedAt(p)' = IF p = loc THEN Cat(InsertedAt(p), nd) ELSE InsertedAt(p)
  BY <1>1, InsertedGrows
<1> HIDE DEF nd
<1>9. \A p \in Position : /\ InsertedAt(p) \in Cells /\ <<p>> \in Cells
                          /\ OutputAt(p) = Cat(InsertedAt(p), <<p>>)
                          /\ OutputAt(p)' = Cat(InsertedAt(p)', <<p>>)
  <2>1. \A p \in Position : <<p>> \in Cells
    BY LengthOK DEF Position, Cells
  <2>2. \A p \in Position : InsertedAt(p) \in Cells /\ OutputAt(p) = Cat(InsertedAt(p), <<p>>)
    BY <1>2, <1>4 DEF Facts, InsertedFacts, OutputFacts
  <2>3. \A p \in Position : OutputAt(p)' = Cat(InsertedAt(p)', <<p>>)
    BY <1>3, <1>5 DEF Facts, OutputFacts
  <2>4. QED
    BY <2>1, <2>2, <2>3
<1> DEFINE x == <<loc>>
           y == Cat(nd, x)
           s == Out
           t == Out'
<1>10. I \in Cells /\ x \in Cells /\ y \in Cells /\ Len(x) = 1 /\ Len(y) = 3
  <2>1. I \in Cells /\ x \in Cells
    BY <1>6, <1>9
  <2>2. Len(x) = 1
    OBVIOUS
  <2> HIDE DEF x
  <2>3. Cat(nd, x) \in Cells /\ Len(Cat(nd, x)) = Len(nd) + Len(x)
    BY <1>7, <2>1, CatType
  <2>4. QED
    BY <1>7, <2>1, <2>2, <2>3
<1>11. /\ s \in Seq(Cells) /\ t \in Seq(Cells) /\ Len(s) = Length /\ Len(t) = Length
       /\ \A i \in 1..Length : s[i] = OutputAt(i - 1) /\ t[i] = OutputAt(i - 1)'
       /\ OutputText = Prefix(s, Length) /\ OutputText' = Prefix(t, Length)
  BY <1>4, <1>5 DEF Facts, OutFacts
<1>12. s[loc + 1] = Cat(I, x) /\ t[loc + 1] = Cat(I, y)
  <2>1. loc + 1 \in 1..Length /\ (loc + 1) - 1 = loc
    BY <1>6, LengthOK DEF Position
  <2>2. s[loc + 1] = OutputAt(loc) /\ t[loc + 1] = OutputAt(loc)'
    BY <1>11, <2>1
  <2>3. OutputAt(loc) = Cat(I, x) /\ OutputAt(loc)' = Cat(Cat(I, nd), x)
    BY <1>6, <1>8, <1>9
  <2>4. Cat(Cat(I, nd), x) = Cat(I, Cat(nd, x))
    BY <1>7, <1>10, CatAssoc
  <2>5. QED
    BY <2>2, <2>3, <2>4
<1>13. \A i \in 1..Length : i <= loc \/ loc + 1 < i => s[i] = t[i]
  <2> SUFFICES ASSUME NEW i \in 1..Length, i <= loc \/ loc + 1 < i PROVE s[i] = t[i]
    OBVIOUS
  <2>1. i - 1 \in Position /\ i - 1 # loc
    BY <1>6, LengthOK DEF Position
  <2>2. OutputAt(i - 1)' = OutputAt(i - 1)
    BY <1>8, <1>9, <2>1
  <2>3. QED
    BY <1>11, <2>2
<1> HIDE DEF I, x, y, s, t
<1>14. /\ \E m \in Cells, d \in Cells :
             /\ Len(m) = Len(x) + ((loc + 1) - loc - 1)
             /\ loc + 1 = loc + 1 => m = x
             /\ Prefix(s, Length) = Cat(Cat(Prefix(s, loc), I), Cat(m, d))
             /\ Prefix(t, Length) = Cat(Cat(Prefix(s, loc), I), Cat(y, d))
       /\ \A pos \in 0..loc : Prefix(t, pos) = Prefix(s, pos)
       /\ \A pos \in (loc + 1)..Length :
            Len(Prefix(t, pos)) = Len(Prefix(s, pos)) + Len(y) - Len(x) - ((loc + 1) - loc - 1)
  <2>1. PICK hi \in 0..Length : hi = loc + 1
    BY <1>6
  <2>2. loc < hi /\ \A i \in (loc + 2)..hi : Len(s[i]) = 1 /\ Len(t[i]) = 0
    BY <1>6, <2>1
  <2>3. \A i \in 1..Length : i <= loc \/ hi < i => s[i] = t[i]
    BY <1>13, <2>1
  <2>4. /\ s \in Seq(Cells) /\ t \in Seq(Cells) /\ Len(s) = Length /\ Len(t) = Length
        /\ loc \in 0..Length /\ hi \in 0..Length /\ Length \in Nat
    BY <1>6, <1>11, <2>1, LengthOK
  <2>5. Edited(s, t, Length, loc, hi, I, x, y)
    BY <1>10, <1>12, <2>2, <2>3, <2>4, EditTexts
  <2>6. QED
    BY <2>1, <2>5 DEF Edited
<1>15. PICK d \in Cells : /\ Prefix(s, Length) = Cat(Cat(A, I), Cat(x, d))
                          /\ Prefix(t, Length) = Cat(Cat(A, I), Cat(y, d))
  BY <1>14 DEF s
<1>16. A \in Cells /\ Cat(A, I) \in Cells /\ Len(Cat(A, I)) = Len(A) + Len(I)
  <2>1. A \in Cells
    BY <1>6, <1>11, PrefixStep DEF s
  <2>2. QED
    BY <1>10, <2>1, CatType
<1>17. Mapped(buffer, loc) = Len(A) + Len(I)
  BY <1>2, <1>6 DEF BufferInv, I
<1>18. buffer.cells = Cat(Cat(A, I), Cat(<<>>, Cat(x, d)))
  <2>1. buffer.cells = Prefix(s, Length)
    BY <1>11 DEF BufferInv, EditsCommute
  <2>2. Cat(x, d) \in Cells
    BY <1>10, <1>15, CatType
  <2>3. Cat(<<>>, Cat(x, d)) = Cat(x, d)
    BY <2>2, CatEmpty
  <2>4. QED
    BY <1>15, <2>1, <2>3
<1>19. buffer'.cells = Prefix(t, Length)
  <2>1. <<>> \in Cells /\ Len(<<>>) = 0 /\ Cat(x, d) \in Cells
    BY <1>10, <1>15, CatEmpty, CatType
  <2>2. Splice(Cat(Cat(A, I), Cat(<<>>, Cat(x, d))), Len(Cat(A, I)), Len(<<>>), nd)
          = Cat(Cat(A, I), Cat(nd, Cat(x, d)))
    BY <1>7, <1>16, <2>1, SpliceConcat
  <2>3. buffer'.cells = Splice(buffer.cells, Mapped(buffer, loc), 0, nd)
    BY <1>1 DEF InsertText
  <2>4. Cat(nd, Cat(x, d)) = Cat(Cat(nd, x), d)
    BY <1>7, <1>10, <1>15, CatAssoc
  <2>5. Mapped(buffer, loc) = Len(Cat(A, I))
    BY <1>16, <1>17
  <2>6. buffer'.cells = Cat(Cat(A, I), Cat(nd, Cat(x, d)))
    BY <1>18, <2>1, <2>2, <2>3, <2>5
  <2>7. QED
    BY <1>15, <2>4, <2>6 DEF y
<1>20. EditsCommute'
  BY <1>11, <1>19 DEF EditsCommute
<1> DEFINE delta == [at |-> 2 * loc, by |-> Len(nd)]
<1>21. delta \in BufferDelta /\ buffer'.deltas = Append(buffer.deltas, delta)
       /\ buffer'.deltas \in Seq(BufferDelta)
  <2>1. buffer'.deltas = Append(buffer.deltas, delta)
    BY <1>1 DEF InsertText
  <2>2. delta \in BufferDelta
    BY <1>6, <1>7 DEF BufferDelta
  <2> HIDE DEF delta
  <2>3. QED
    BY <2>1, <2>2 DEF BufferInv
<1>22. ASSUME NEW pos \in Position
       PROVE  Mapped(buffer', pos) = Len(Prefix(t, pos)) + Len(InsertedAt(pos)')
  <2>1. pos \in Nat /\ pos \in 0..Length /\ pos < Length /\ pos \in Int
    BY LengthOK DEF Position
  <2>2. Mapped(buffer', pos) = Mapped(buffer, pos) + Shift(delta, pos)
    <3> HIDE DEF delta
    <3>1. QED
      BY <1>21, <2>1, MappedStep DEF BufferInv
  <2>3. Shift(delta, pos) = IF loc <= pos THEN 2 ELSE 0
    BY <1>6, <1>7, <2>1 DEF Shift
  <2>4. Mapped(buffer, pos) = Len(Prefix(s, pos)) + Len(InsertedAt(pos))
    BY <1>2 DEF BufferInv, s
  <2>5. /\ Prefix(s, pos) \in Cells /\ Len(Prefix(s, pos)) \in Nat
        /\ InsertedAt(pos) \in Cells /\ Len(InsertedAt(pos)) \in Nat
    <3>1. Prefix(s, pos) \in Cells /\ InsertedAt(pos) \in Cells
      BY <1>9, <1>11, <2>1, PrefixStep
    <3>2. QED
      BY <3>1, CatType
  <2>6. CASE pos < loc
    <3>1. pos \in 0..loc /\ pos # loc
      BY <1>6, <2>1, <2>6
    <3>2. Prefix(t, pos) = Prefix(s, pos) /\ InsertedAt(pos)' = InsertedAt(pos)
      BY <1>8, <1>14, <3>1
    <3>3. QED
      BY <1>6, <2>1, <2>2, <2>3, <2>4, <2>5, <2>6, <3>2
  <2>7. CASE pos = loc
    <3>1. pos \in 0..loc
      BY <1>6, <2>1, <2>7
    <3>2. Prefix(t, pos) = Prefix(s, pos) /\ InsertedAt(pos)' = Cat(InsertedAt(pos), nd)
      BY <1>8, <1>14, <2>7, <3>1
    <3>3. Len(InsertedAt(pos)') = Len(InsertedAt(pos)) + 2
      BY <1>7, <2>5, <3>2, CatType
    <3>4. QED
      BY <1>6, <2>1, <2>2, <2>3, <2>4, <2>5, <2>7, <3>2, <3>3
  <2>8. CASE loc < pos
    <3>1. pos \in (loc + 1)..Length /\ pos # loc
      BY <1>6, <2>1, <2>8
    <3>2. Len(Prefix(t, pos)) = Len(Prefix(s, pos)) + Len(y) - Len(x) - ((loc + 1) - loc - 1)
      BY <1>14, <3>1
    <3>3. Len(Prefix(t, pos)) = Len(Prefix(s, pos)) + 2
      BY <1>6, <1>10, <2>5, <3>2
    <3>4. InsertedAt(pos)' = InsertedAt(pos)
      BY <1>8, <3>1
    <3>5. QED
      BY <1>6, <2>1, <2>2, <2>3, <2>4, <2>5, <2>8, <3>3, <3>4
  <2>9. QED
    BY <1>6, <2>1, <2>6, <2>7, <2>8
<1>23. QED
  BY <1>1, <1>20, <1>21, <1>22 DEF BufferInv, t

-----------------------------------------------------------------------------
\* A range that is about to be committed is still as in the source.
LEMMA CommitRange ==
  ASSUME IInv, BufferInv, status = "commit", committed < Len(newArr),
         NEW i, i = newArr[committed + 1]
  PROVE  /\ committed \in Nat /\ i \in 1..Len(DeltaList)
         /\ DeltaList[i] \in Delta /\ DeltaList[i].lo < DeltaList[i].hi
         /\ DeltaList[i].lo \in Nat /\ DeltaList[i].hi \in Nat /\ DeltaList[i].hi <= Length
         /\ DeltaList[i].text \in Cells
         /\ \A k \in Committed : /\ k \in 1..Len(DeltaList)
                                 /\ DeltaList[k].lo \in Nat /\ DeltaList[k].hi \in Nat
                                 /\ DeltaList[k].lo < DeltaList[k].hi
                                 /\ \/ DeltaList[k].hi < DeltaList[i].lo
                                    \/ DeltaList[i].hi < DeltaList[k].lo
         /\ {newArr[k] : k \in 1..(committed + 1)} = Committed \cup {i}
<1>1. /\ DeltaList \in Seq(Delta) /\ newArr \in Seq(1..Len(DeltaList))
      /\ committed \in 0..Len(newArr) /\ Len(newArr) \in Nat
      /\ \A j \in 1..Len(DeltaList) : DeltaList[j].lo < DeltaList[j].hi
  BY DEF IInv, TypeOK
<1>2. /\ committed \in Nat /\ committed + 1 \in 1..Len(newArr)
      /\ \A j \in 1..committed : j \in 1..Len(newArr) /\ j # committed + 1
  BY <1>1
<1>3. \A j \in 1..Len(newArr) : newArr[j] \in 1..Len(DeltaList)
  BY <1>1
<1>4. i \in 1..Len(DeltaList)
  BY <1>2, <1>3
<1>5. \A j \in 1..Len(DeltaList) :
        /\ DeltaList[j] \in Delta /\ DeltaList[j].lo < DeltaList[j].hi
        /\ DeltaList[j].lo \in Nat /\ DeltaList[j].hi \in Nat /\ DeltaList[j].hi <= Length
        /\ DeltaList[j].text \in Texts
  <2>1. \A j \in 1..Len(DeltaList) : DeltaList[j] \in Delta
    BY <1>1
  <2>2. \A d \in Delta : /\ d.lo \in Nat /\ d.hi \in Nat /\ d.hi <= Length /\ d.text \in Texts
    BY LengthOK DEF Delta
  <2>3. QED
    BY <1>1, <2>1, <2>2
<1>6. ASSUME NEW k \in Committed
      PROVE  /\ k \in 1..Len(DeltaList)
             /\ \/ DeltaList[k].hi < DeltaList[i].lo
                \/ DeltaList[i].hi < DeltaList[k].lo
  <2>1. PICK j \in 1..committed : k = newArr[j]
    BY DEF Committed
  <2>2. ~Overlap(DeltaList[newArr[j]], DeltaList[newArr[committed + 1]])
    BY <1>2 DEF IInv, KeptAreDisjoint
  <2>3. k \in 1..Len(DeltaList)
    BY <1>2, <1>3, <2>1
  <2>4. QED
    BY <1>4, <1>5, <2>1, <2>2, <2>3 DEF Overlap
<1>7. {newArr[k] : k \in 1..(committed + 1)} = Committed \cup {i}
  <2>1. 1..(committed + 1) = (1..committed) \cup {committed + 1}
    BY <1>2
  <2>2. QED
    BY <2>1 DEF Committed
<1>8. DeltaList[i].text \in Cells
  BY <1>4, <1>5, TextsOK DEF Cells
<1>9. QED
  BY <1>2, <1>4, <1>5, <1>6, <1>7, <1>8

\* What a commit changes, position by position.
LEMMA CommitTexts ==
  ASSUME IInv, TypeOK', BufferInv, CommitOne,
         NEW a, a = DeltaList[newArr[committed + 1]]
  PROVE  /\ \A p : InsertedAt(p)' = InsertedAt(p)
         /\ a.lo \in Position
         /\ OutputAt(a.lo) = Cat(InsertedAt(a.lo), <<a.lo>>)
         /\ OutputAt(a.lo)' = Cat(InsertedAt(a.lo), a.text)
         /\ \A p \in Position : a.lo < p /\ p < a.hi =>
              Len(OutputAt(p)) = 1 /\ Len(OutputAt(p)') = 0
         /\ \A p \in Position : p < a.lo \/ a.hi <= p => OutputAt(p)' = OutputAt(p)
         /\ Outside(a.lo)
         /\ \A p \in Position : Outside(p)' => Outside(p) /\ (p <= a.lo \/ a.hi <= p)
<1> DEFINE i == newArr[committed + 1]
<1>1. /\ status = "commit" /\ committed < Len(newArr) /\ committed' = committed + 1
      /\ DeltaList' = DeltaList /\ inserts' = inserts /\ newArr' = newArr /\ TypeOK
  <2>1. /\ status = "commit" /\ committed < Len(newArr) /\ committed' = committed + 1
        /\ DeltaList' = DeltaList /\ inserts' = inserts /\ newArr' = newArr
    BY DEF CommitOne
  <2>2. committed \in 0..Len(newArr) /\ Len(newArr) \in Nat /\ TypeOK
    BY DEF IInv, TypeOK
  <2>3. QED
    BY <2>1, <2>2
<1>2. a = DeltaList[i]
  OBVIOUS
<1>3. /\ committed \in Nat /\ i \in 1..Len(DeltaList)
      /\ a.lo < a.hi /\ a.lo \in Nat /\ a.hi \in Nat /\ a.hi <= Length
      /\ \A k \in Committed : /\ DeltaList[k].lo \in Nat /\ DeltaList[k].hi \in Nat
                              /\ DeltaList[k].lo < DeltaList[k].hi
                              /\ DeltaList[k].hi < a.lo \/ a.hi < DeltaList[k].lo
      /\ {newArr[k] : k \in 1..(committed + 1)} = Committed \cup {i}
  BY <1>1, CommitRange
<1>4. Committed' = Committed \cup {i}
  BY <1>1, <1>3 DEF Committed
<1> HIDE DEF i
<1>5. \A p : InsertedAt(p)' = InsertedAt(p)
  BY <1>1 DEF InsertedAt
<1>6. Facts
  BY <1>1, TypeGivesFacts
<1>7. TypeOK' => Facts'
  BY TypeGivesFacts, PTL
<1>8. a.lo \in Position /\ \A p \in Position : p \in Nat
  BY <1>3, LengthOK DEF Position
<1>9. \A p \in Position : a.lo <= p /\ p < a.hi => ~Covered(p) /\ NewTextAt(p) = {}
  <2> SUFFICES ASSUME NEW p \in Position, a.lo <= p, p < a.hi
               PROVE  ~Covered(p) /\ NewTextAt(p) = {}
    OBVIOUS
  <2>1. p \in Nat
    BY <1>8
  <2>2. \A k \in Committed : /\ ~(DeltaList[k].lo <= p /\ p < DeltaList[k].hi)
                             /\ DeltaList[k].lo # p
    <3> SUFFICES ASSUME NEW k \in Committed
                 PROVE  /\ ~(DeltaList[k].lo <= p /\ p < DeltaList[k].hi)
                        /\ DeltaList[k].lo # p
      OBVIOUS
    <3>1. /\ DeltaList[k].lo \in Nat /\ DeltaList[k].hi \in Nat
          /\ DeltaList[k].lo < DeltaList[k].hi
          /\ DeltaList[k].hi < a.lo \/ a.hi < DeltaList[k].lo
      BY <1>3
    <3>2. a.lo \in Nat /\ a.hi \in Nat
      BY <1>3
    <3>3. QED
      BY <2>1, <3>1, <3>2
  <2>3. {m \in Committed : DeltaList[m].lo = p} = {}
    BY <2>2
  <2>4. QED
    BY <2>2, <2>3 DEF Covered, NewTextAt
<1>10. \A p \in Position : p # a.lo => NewTextAt(p)' = NewTextAt(p)
  <2> SUFFICES ASSUME NEW p \in Position, p # a.lo PROVE NewTextAt(p)' = NewTextAt(p)
    OBVIOUS
  <2>1. {m \in Committed' : DeltaList'[m].lo = p} = {m \in Committed : DeltaList[m].lo = p}
    BY <1>1, <1>2, <1>4
  <2>2. QED
    BY <1>1, <2>1 DEF NewTextAt
<1>11. NewTextAt(a.lo)' = {a.text}
  <2>1. {k \in Committed' : DeltaList[k].lo = a.lo} = {i}
    BY <1>2, <1>3, <1>4
  <2>2. QED
    BY <1>1, <1>2, <2>1 DEF NewTextAt
<1>12. \A p \in Position : Covered(p)' <=> Covered(p) \/ (a.lo <= p /\ p < a.hi)
  BY <1>1, <1>2, <1>4 DEF Covered
<1>13. OutputAt(a.lo) = Cat(InsertedAt(a.lo), <<a.lo>>)
  BY <1>3, <1>6, <1>8, <1>9 DEF Facts, OutputFacts
<1>14. OutputAt(a.lo)' = Cat(InsertedAt(a.lo), a.text)
  <2>1. OutputAt(a.lo)' = Cat(InsertedAt(a.lo)', a.text)
    BY <1>7, <1>8, <1>11 DEF Facts, OutputFacts
  <2>2. QED
    BY <1>5, <2>1
<1>15. ASSUME NEW p \in Position, a.lo < p, p < a.hi
       PROVE  Len(OutputAt(p)) = 1 /\ Len(OutputAt(p)') = 0
  <2>1. p \notin Boundaries
    BY <1>2, <1>3, <1>15 DEF BufferInv, InOneDeclaration
  <2>2. InsertedAt(p) = <<>>
    BY <1>6, <2>1 DEF Facts, InsertedFacts
  <2>3. OutputAt(p) = Cat(<<>>, <<p>>)
    BY <1>3, <1>6, <1>8, <1>9, <1>15, <2>2 DEF Facts, OutputFacts
  <2>4. OutputAt(p)' = <<>>
    <3>1. Covered(p)' /\ NewTextAt(p)' = {}
      BY <1>3, <1>8, <1>9, <1>10, <1>12, <1>15
    <3>2. OutputAt(p)' = InsertedAt(p)'
      BY <1>7, <3>1 DEF Facts, OutputFacts
    <3>3. QED
      BY <1>5, <2>2, <3>2
  <2>5. <<p>> \in Cells /\ Len(<<p>>) = 1
    BY <1>8 DEF Cells
  <2>6. Cat(<<>>, <<p>>) = <<p>>
    BY <2>5, CatEmpty
  <2>7. Len(OutputAt(p)) = 1
    BY <2>3, <2>5, <2>6
  <2>8. QED
    BY <2>4, <2>7
<1>16. ASSUME NEW p \in Position, p < a.lo \/ a.hi <= p
       PROVE  OutputAt(p)' = OutputAt(p)
  <2>1. (Covered(p)' <=> Covered(p)) /\ NewTextAt(p)' = NewTextAt(p)
    BY <1>3, <1>8, <1>10, <1>12, <1>16
  <2>2. QED
    BY <1>5, <2>1 DEF OutputAt
<1>17. Outside(a.lo)
  BY <1>3 DEF Outside
<1>18. \A p \in Position : Outside(p)' => Outside(p) /\ (p <= a.lo \/ a.hi <= p)
  BY <1>1, <1>2, <1>3, <1>4, <1>8 DEF Outside
<1>19. QED
  BY <1>5, <1>8, <1>13, <1>14, <1>15, <1>16, <1>17, <1>18

\* A commit finds the text of its range where getMappedOffset says, and replaces it.
LEMMA CommitOneBuffer ==
  ASSUME IInv, TypeOK', BufferInv, CommitOne
  PROVE  BufferInv'
<1>1. PICK a : a = DeltaList[newArr[committed + 1]]
  OBVIOUS
<1>2. /\ status = "commit" /\ committed < Len(newArr) /\ status' = status
      /\ DeltaList' = DeltaList /\ TypeOK
      /\ buffer' = ReplaceText(buffer, a.lo, a.hi - a.lo, a.text)
  <2>1. /\ status = "commit" /\ committed < Len(newArr) /\ status' = status
        /\ DeltaList' = DeltaList
        /\ buffer' = ReplaceText(buffer, a.lo, a.hi - a.lo, a.text)
    BY <1>1 DEF CommitOne
  <2>2. TypeOK
    BY DEF IInv
  <2>3. QED
    BY <2>1, <2>2
<1>3. /\ a.lo < a.hi /\ a.lo \in Nat /\ a.hi \in Nat /\ a.hi <= Length /\ a.text \in Cells
      /\ a.lo + 1 \in 1..Length /\ a.lo \in 0..Length /\ a.hi \in 0..Length /\ Length \in Nat
  <2>1. /\ a.lo < a.hi /\ a.lo \in Nat /\ a.hi \in Nat /\ a.hi <= Length /\ a.text \in Cells
    BY <1>1, <1>2, CommitRange
  <2>2. QED
    BY <2>1, LengthOK
<1>4. PICK lo \in Nat, hi \in Nat, text \in Cells : lo = a.lo /\ hi = a.hi /\ text = a.text
  BY <1>3
<1>5. /\ \A p : InsertedAt(p)' = InsertedAt(p)
      /\ lo \in Position
      /\ OutputAt(lo) = Cat(InsertedAt(lo), <<lo>>)
      /\ OutputAt(lo)' = Cat(InsertedAt(lo), text)
      /\ \A p \in Position : lo < p /\ p < hi =>
           Len(OutputAt(p)) = 1 /\ Len(OutputAt(p)') = 0
      /\ \A p \in Position : p < lo \/ hi <= p => OutputAt(p)' = OutputAt(p)
      /\ Outside(lo)
      /\ \A p \in Position : Outside(p)' => Outside(p) /\ (p <= lo \/ hi <= p)
  BY <1>1, <1>4, CommitTexts
<1>6. /\ lo < hi /\ hi <= Length /\ lo + 1 \in 1..Length /\ lo \in 0..Length
      /\ hi \in 0..Length /\ Length \in Nat /\ lo \in Int /\ hi \in Int
      /\ buffer' = ReplaceText(buffer, lo, hi - lo, text)
      /\ Len(text) \in Nat
  <2>1. Len(text) \in Nat
    BY <1>4, CatType
  <2>2. QED
    BY <1>2, <1>3, <1>4, <2>1
<1>7. TypeOK => Facts
  BY TypeGivesFacts
<1>8. TypeOK' => Facts'
  BY TypeGivesFacts, PTL
<1> DEFINE I == InsertedAt(lo)
           x == <<lo>>
           s == Out
           t == Out'
           A == Prefix(s, lo)
<1>9. I \in Cells /\ x \in Cells /\ Len(x) = 1 /\ text \in Cells
  <2>1. I \in Cells
    BY <1>2, <1>7 DEF Facts, InsertedFacts
  <2>2. x \in Cells
    BY <1>6 DEF Cells
  <2>3. QED
    BY <1>4, <2>1, <2>2
<1>10. /\ s \in Seq(Cells) /\ t \in Seq(Cells) /\ Len(s) = Length /\ Len(t) = Length
       /\ \A i \in 1..Length : s[i] = OutputAt(i - 1) /\ t[i] = OutputAt(i - 1)'
       /\ OutputText = Prefix(s, Length) /\ OutputText' = Prefix(t, Length)
  BY <1>2, <1>7, <1>8 DEF Facts, OutFacts
<1>11. s[lo + 1] = Cat(I, x) /\ t[lo + 1] = Cat(I, text)
  <2>1. (lo + 1) - 1 = lo
    BY <1>6
  <2>2. s[lo + 1] = OutputAt(lo) /\ t[lo + 1] = OutputAt(lo)'
    BY <1>6, <1>10, <2>1
  <2>3. QED
    BY <1>5, <2>2
<1>12. \A i \in (lo + 2)..hi : Len(s[i]) = 1 /\ Len(t[i]) = 0
  <2> SUFFICES ASSUME NEW i \in (lo + 2)..hi PROVE Len(s[i]) = 1 /\ Len(t[i]) = 0
    OBVIOUS
  <2>1. i \in 1..Length /\ i - 1 \in Position /\ lo < i - 1 /\ i - 1 < hi
    BY <1>6 DEF Position
  <2>2. Len(OutputAt(i - 1)) = 1 /\ Len(OutputAt(i - 1)') = 0
    BY <1>5, <2>1
  <2>3. QED
    BY <1>10, <2>1, <2>2
<1>13. \A i \in 1..Length : i <= lo \/ hi < i => s[i] = t[i]
  <2> SUFFICES ASSUME NEW i \in 1..Length, i <= lo \/ hi < i PROVE s[i] = t[i]
    OBVIOUS
  <2>1. i - 1 \in Position /\ (i - 1 < lo \/ hi <= i - 1)
    BY <1>6 DEF Position
  <2>2. OutputAt(i - 1)' = OutputAt(i - 1)
    BY <1>5, <2>1
  <2>3. QED
    BY <1>10, <2>2
<1> HIDE DEF I, x, s, t, A
<1>14. Edited(s, t, Length, lo, hi, I, x, text)
  <2>1. /\ s \in Seq(Cells) /\ t \in Seq(Cells) /\ Len(s) = Length /\ Len(t) = Length
        /\ lo \in 0..Length /\ hi \in 0..Length /\ Length \in Nat /\ lo < hi
    BY <1>6, <1>10
  <2>2. QED
    BY <1>9, <1>11, <1>12, <1>13, <2>1, EditTexts
<1>15. PICK m \in Cells, d \in Cells :
          /\ Len(m) = Len(x) + (hi - lo - 1)
          /\ Prefix(s, Length) = Cat(Cat(A, I), Cat(m, d))
          /\ Prefix(t, Length) = Cat(Cat(A, I), Cat(text, d))
  BY <1>14 DEF Edited, A
<1>16. A \in Cells /\ Cat(A, I) \in Cells /\ Len(Cat(A, I)) = Len(A) + Len(I)
  <2>1. A \in Cells
    BY <1>6, <1>10, PrefixStep DEF A
  <2>2. QED
    BY <1>9, <2>1, CatType
<1>17. Mapped(buffer, lo) = Len(Cat(A, I))
  BY <1>5, <1>16 DEF BufferInv, I, A, s
<1>18. buffer'.cells = Prefix(t, Length)
  <2>1. Splice(Cat(Cat(A, I), Cat(m, d)), Len(Cat(A, I)), Len(m), text)
          = Cat(Cat(A, I), Cat(text, d))
    BY <1>9, <1>15, <1>16, SpliceConcat
  <2>2. buffer'.cells = Splice(buffer.cells, Mapped(buffer, lo), hi - lo, text)
    BY <1>6 DEF ReplaceText
  <2>3. buffer.cells = Cat(Cat(A, I), Cat(m, d))
    BY <1>10, <1>15 DEF BufferInv, EditsCommute
  <2>4. Len(m) = hi - lo
    BY <1>6, <1>9, <1>15
  <2>5. QED
    BY <1>15, <1>17, <2>1, <2>2, <2>3, <2>4
<1>19. EditsCommute'
  BY <1>10, <1>18 DEF EditsCommute
<1> DEFINE delta == [at |-> 2 * lo + 1, by |-> Len(text) - (hi - lo)]
<1>20. delta \in BufferDelta /\ buffer.deltas \in Seq(BufferDelta)
       /\ buffer'.deltas = IF Len(text) = hi - lo THEN buffer.deltas
                           ELSE Append(buffer.deltas, delta)
  BY <1>6 DEF ReplaceText, BufferDelta, BufferInv
<1>21. buffer'.deltas \in Seq(BufferDelta)
  <2> HIDE DEF delta
  <2>1. QED
    BY <1>20
<1>22. ASSUME NEW pos \in Position
       PROVE  Mapped(buffer', pos) =
                Mapped(buffer, pos) + IF lo < pos THEN Len(text) - (hi - lo) ELSE 0
  <2>1. pos \in Int /\ pos \in Nat
    BY LengthOK DEF Position
  <2>2. Mapped(buffer, pos) \in Int
    BY <1>20, <2>1, MappedType
  <2>3. CASE Len(text) = hi - lo
    <3>1. Mapped(buffer', pos) = Mapped(buffer, pos)
      BY <1>20, <2>3 DEF Mapped
    <3>2. QED
      BY <1>6, <2>2, <2>3, <3>1
  <2>4. CASE Len(text) # hi - lo
    <3>1. Mapped(buffer', pos) = Mapped(buffer, pos) + Shift(delta, pos)
      <4> HIDE DEF delta
      <4>1. QED
        BY <1>20, <2>1, <2>4, MappedStep
    <3>2. Shift(delta, pos) = IF lo < pos THEN Len(text) - (hi - lo) ELSE 0
      BY <1>6, <2>1 DEF Shift
    <3>3. QED
      BY <3>1, <3>2
  <2>5. QED
    BY <2>3, <2>4
<1>23. ASSUME NEW pos \in Position, Outside(pos)'
       PROVE  Mapped(buffer', pos) = Len(Prefix(t, pos)) + Len(InsertedAt(pos)')
  <2>1. pos \in Nat /\ pos \in 0..Length
    BY LengthOK DEF Position
  <2>2. Outside(pos) /\ (pos <= lo \/ hi <= pos)
    BY <1>5, <1>23
  <2>3. Mapped(buffer, pos) = Len(Prefix(s, pos)) + Len(InsertedAt(pos))
    BY <2>2 DEF BufferInv, s
  <2>4. /\ Len(Prefix(s, pos)) \in Nat /\ Len(InsertedAt(pos)) \in Nat
        /\ InsertedAt(pos)' = InsertedAt(pos)
    <3>1. Prefix(s, pos) \in Cells /\ InsertedAt(pos) \in Cells
      BY <1>2, <1>7, <1>10, <2>1, PrefixStep DEF Facts, InsertedFacts
    <3>2. QED
      BY <1>5, <3>1, CatType
  <2>5. CASE pos <= lo
    <3>1. Prefix(t, pos) = Prefix(s, pos)
      BY <1>6, <1>14, <2>1, <2>5 DEF Edited
    <3>2. QED
      BY <1>6, <1>22, <2>1, <2>3, <2>4, <2>5, <3>1
  <2>6. CASE hi <= pos
    <3>1. pos \in hi..Length
      BY <1>6, <2>1, <2>6
    <3>2. Len(Prefix(t, pos)) = Len(Prefix(s, pos)) + Len(text) - Len(x) - (hi - lo - 1)
      BY <1>14, <3>1 DEF Edited
    <3>3. QED
      BY <1>6, <1>9, <1>22, <2>1, <2>3, <2>4, <2>6, <3>2
  <2>7. QED
    BY <2>2, <2>5, <2>6
<1>24. ~Solved' => committed' = 0
  BY <1>2 DEF Solved
<1>25. QED
  BY <1>2, <1>19, <1>21, <1>23, <1>24 DEF BufferInv, t

-----------------------------------------------------------------------------
\* The source, position by position, is what no request leaves.
LEMMA Unchanged ==
  ASSUME NEW s \in Seq(Cells), NEW n \in Nat, Len(s) = n,
         \A i \in 1..n : s[i] = <<i - 1>>
  PROVE  \A k \in 0..n : /\ Prefix(s, k) = [p \in 1..k |-> p - 1]
                         /\ Len(Prefix(s, k)) = k
<1> DEFINE Source(k) == [p \in 1..k |-> p - 1]
           S == {k \in 0..n : Prefix(s, k) = Source(k)}
<1>1. 0 \in S
  <2>1. Prefix(s, 0) = <<>> /\ Source(0) = <<>>
    BY PrefixStep
  <2> HIDE DEF Source
  <2>2. QED
    BY <2>1
<1>2. \A k \in 0..n : k \in S /\ k < n => k + 1 \in S
  <2> SUFFICES ASSUME NEW k \in S, k < n PROVE k + 1 \in S
    OBVIOUS
  <2>1. k \in Nat /\ k + 1 \in 1..n /\ k + 1 \in 0..n /\ (k + 1) - 1 = k
    OBVIOUS
  <2>2. Prefix(s, k + 1) = Cat(Source(k), <<k>>)
    <3>1. Prefix(s, k + 1) = Cat(Prefix(s, (k + 1) - 1), s[k + 1])
      BY <2>1, PrefixStep
    <3>2. Prefix(s, k) = Source(k)
      OBVIOUS
    <3> HIDE DEF S, Source
    <3>3. QED
      BY <2>1, <3>1, <3>2
  <2>3. Cat(Source(k), <<k>>) = Source(k + 1)
    <3>1. Source(k) \in Seq(Int) /\ Len(Source(k)) = k
      BY <2>1
    <3>2. <<k>> \in Seq(Int) /\ Len(<<k>>) = 1
      BY <2>1
    <3>3. Source(k + 1) \in Seq(Int) /\ Len(Source(k + 1)) = k + 1
      BY <2>1
    <3>4. \A p \in 1..(k + 1) : (Source(k) \o <<k>>)[p] = Source(k + 1)[p]
      <4> SUFFICES ASSUME NEW p \in 1..(k + 1)
                   PROVE  (Source(k) \o <<k>>)[p] = Source(k + 1)[p]
        OBVIOUS
      <4>1. Source(k + 1)[p] = p - 1
        OBVIOUS
      <4>2. p <= k => Source(k)[p] = p - 1
        BY <2>1
      <4> HIDE DEF Source
      <4>3. QED
        BY <2>1, <3>1, <3>2, <4>1, <4>2
    <3> HIDE DEF Source
    <3>5. Source(k) \o <<k>> \in Seq(Int) /\ Len(Source(k) \o <<k>>) = k + 1
      BY <2>1, <3>1, <3>2
    <3>6. QED
      BY <3>3, <3>4, <3>5, SeqEqual DEF Cat
  <2>4. QED
    BY <2>1, <2>2, <2>3
<1> HIDE DEF S
<1>3. \A k \in 0..n : k \in S
  <2>1. 0 \in Nat
    OBVIOUS
  <2>2. QED
    BY <1>1, <1>2, <2>1, SetInductionTo
<1>4. \A k \in 0..n : Len(Source(k)) = k
  OBVIOUS
<1>5. QED
  BY <1>3, <1>4 DEF S

\* Before the first request the buffer holds the source.
LEMMA InitBuffer == Init => BufferInv
<1> SUFFICES ASSUME Init PROVE BufferInv
  OBVIOUS
<1>1. /\ committed = 0 /\ DeltaList = <<>> /\ inserts = <<>>
      /\ buffer = OriginalBuffer(Length)
  BY DEF Init
<1>2. Facts
  BY InitIInv, TypeGivesFacts DEF IInv
<1>3. \A p : InsertedAt(p) = <<>>
  <2>1. \A p : InsertedAt(p) = Prefix(Ins(p), 0) /\ Ins(p) \in Seq(Cells)
    BY <1>1, <1>2 DEF Facts, InsertedFacts
  <2>2. QED
    BY <2>1, PrefixStep
<1>4. \A p \in Position : OutputAt(p) = <<p>>
  <2> SUFFICES ASSUME NEW p \in Position PROVE OutputAt(p) = <<p>>
    OBVIOUS
  <2>1. OutputAt(p) = Cat(<<>>, <<p>>)
    BY <1>1, <1>2, <1>3, NothingCommitted DEF Facts, OutputFacts
  <2>2. <<p>> \in Cells
    BY LengthOK DEF Position, Cells
  <2>3. QED
    BY <2>1, <2>2, CatEmpty
<1>5. \A i \in 1..Length : Out[i] = <<i - 1>>
  <2>1. \A i \in 1..Length : i - 1 \in Position
    BY LengthOK DEF Position
  <2>2. QED
    BY <1>2, <1>4, <2>1 DEF Facts, OutFacts
<1>6. \A k \in 0..Length : /\ Prefix(Out, k) = [p \in 1..k |-> p - 1]
                           /\ Len(Prefix(Out, k)) = k
  <2>1. Out \in Seq(Cells) /\ Len(Out) = Length
    BY <1>2 DEF Facts, OutFacts
  <2>2. QED
    BY <1>5, <2>1, LengthOK, Unchanged
<1>7. buffer.cells = [p \in 1..Length |-> p - 1] /\ buffer.deltas = <<>>
  BY <1>1 DEF OriginalBuffer
<1>8. EditsCommute
  <2>1. OutputText = Prefix(Out, Length) /\ Length \in 0..Length
    BY <1>2, LengthOK DEF Facts, OutFacts
  <2>2. QED
    BY <1>6, <1>7, <2>1 DEF EditsCommute
<1>9. ASSUME NEW pos \in Position
      PROVE  Mapped(buffer, pos) = Len(Prefix(Out, pos)) + Len(InsertedAt(pos))
  <2>1. pos \in Int /\ pos \in 0..Length
    BY LengthOK DEF Position
  <2>2. Mapped(buffer, pos) = pos
    BY <1>7, <2>1, MappedNothing
  <2>3. Len(InsertedAt(pos)) = 0 /\ Len(Prefix(Out, pos)) = pos
    BY <1>3, <1>6, <2>1
  <2>4. QED
    BY <2>1, <2>2, <2>3
<1>10. buffer.deltas \in Seq(BufferDelta)
  BY <1>7
<1>11. \A i \in 1..Len(DeltaList) : InOneDeclaration(DeltaList[i])
  BY <1>1
<1>12. QED
  BY <1>1, <1>8, <1>9, <1>10, <1>11 DEF BufferInv

\* A request changes nothing yet.
LEMMA InsertBuffer ==
  ASSUME IInv, BufferInv, NEW d, InOneDeclaration(d), d \in Delta, Insert(d)
  PROVE  BufferInv'
<1>1. /\ DeltaList' = Append(DeltaList, d) /\ DeltaList \in Seq(Delta)
      /\ inserts' = inserts /\ buffer' = buffer /\ committed' = committed
      /\ status = "collect" /\ newArr' = newArr
  BY DEF Insert, IInv, TypeOK
<1>2. committed = 0
  BY <1>1 DEF BufferInv, Solved
<1>3. Committed = {} /\ Committed' = {}
  BY <1>1, <1>2 DEF Committed
<1>4. \A i \in 1..Len(DeltaList') : InOneDeclaration(DeltaList'[i])
  <2>1. \A i \in 1..Len(DeltaList') :
          \/ i \in 1..Len(DeltaList) /\ DeltaList'[i] = DeltaList[i]
          \/ DeltaList'[i] = d
    BY <1>1
  <2>2. \A i \in 1..Len(DeltaList) : InOneDeclaration(DeltaList[i])
    BY DEF BufferInv
  <2> SUFFICES ASSUME NEW i \in 1..Len(DeltaList') PROVE InOneDeclaration(DeltaList'[i])
    OBVIOUS
  <2>3. CASE DeltaList'[i] = d
    BY <2>3 DEF InOneDeclaration
  <2>4. CASE i \in 1..Len(DeltaList) /\ DeltaList'[i] = DeltaList[i]
    BY <2>2, <2>4 DEF InOneDeclaration
  <2>5. QED
    BY <2>1, <2>3, <2>4
<1>5. QED
  BY <1>1, <1>2, <1>3, <1>4, BufferFrame

\* Steps after which the same ranges are committed.
LEMMA SolveBuffer ==
  ASSUME BufferInv, DeltaList' = DeltaList, inserts' = inserts, buffer' = buffer,
         committed' = committed,
         newArr' = newArr \/ committed = 0,
         Solved => Solved'
  PROVE  BufferInv'
<1>1. Committed' = Committed
  <2>1. CASE committed = 0
    BY <2>1 DEF Committed
  <2>2. CASE newArr' = newArr
    BY <2>2 DEF Committed
  <2>3. QED
    BY <2>1, <2>2
<1>2. ~Solved' => committed' = 0
  BY DEF BufferInv
<1>3. \A i \in 1..Len(DeltaList') : InOneDeclaration(DeltaList'[i])
  BY DEF BufferInv, InOneDeclaration
<1>4. QED
  BY <1>1, <1>2, <1>3, BufferFrame

\* At every step the buffer is the output for what was inserted and committed: the
\* kept ranges touch no other and contain the start of no declaration, so the
\* position of each edit is one whose offset is known.
THEOREM BufferInvariant == Spec => []BufferInv
<1>1. ASSUME IInv, IInv', BufferInv, [Next]_vars PROVE BufferInv'
  <2>0. TypeOK /\ (IInv' => TypeOK')
    BY <1>1 DEF IInv
  <2>1. ASSUME NEW r \in Declarators, NEW text \in Texts, Insert(Removal(r, text))
        PROVE  BufferInv'
    <3>1. Removal(r, text) \in Delta /\ InOneDeclaration(Removal(r, text))
      BY DeclaratorsOK DEF Removal, Delta, Priorities, InOneDeclaration
    <3>2. QED
      BY <1>1, <2>1, <3>1, InsertBuffer
  <2>2. ASSUME NEW p \in Identifiers, NEW text \in Texts, NEW prio \in {10, 100},
               Insert(Renaming(p, text, prio))
        PROVE  BufferInv'
    <3>1. p \in 0..Length /\ p + 1 \in 0..Length
      BY IdentifiersOK, LengthOK DEF Position
    <3>2. Renaming(p, text, prio) \in Delta
      BY <3>1 DEF Renaming, Delta, Priorities
    <3>3. InOneDeclaration(Renaming(p, text, prio))
      <4>1. \A b \in Boundaries : b \in Int
        BY BoundariesOK, LengthOK DEF Position
      <4>2. QED
        BY <3>1, <4>1 DEF Renaming, InOneDeclaration
    <3>4. QED
      BY <1>1, <2>2, <3>2, <3>3, InsertBuffer
  <2>3. ASSUME NEW loc \in Boundaries, Insert_Text(loc) PROVE BufferInv'
    BY <1>1, <2>0, <2>3, InsertTextBuffer
  <2>4. CASE StartSolve
    <3>1. committed = 0 /\ ~Solved
      BY <1>1, <2>4 DEF StartSolve, BufferInv, Solved
    <3>2. QED
      BY <1>1, <2>4, <3>1, SolveBuffer DEF StartSolve
  <2>5. ASSUME NEW i \in todo, SolveOne(i) PROVE BufferInv'
    <3>1. committed = 0 /\ ~Solved
      BY <1>1, <2>5 DEF SolveOne, BufferInv, Solved
    <3>2. QED
      BY <1>1, <2>5, <3>1, SolveBuffer DEF SolveOne
  <2>6. CASE CommitOne
    BY <1>1, <2>0, <2>6, CommitOneBuffer
  <2>7. CASE CommitDone
    <3>1. Solved'
      BY <2>7 DEF CommitDone, Solved
    <3>2. QED
      BY <1>1, <2>7, <3>1, SolveBuffer DEF CommitDone
  <2>8. CASE UNCHANGED vars
    <3>1. Solved' <=> Solved
      BY <2>8 DEF vars, Solved
    <3>2. QED
      BY <1>1, <2>8, <3>1, SolveBuffer DEF vars
  <2>9. QED
    BY <1>1, <2>1, <2>2, <2>3, <2>4, <2>5, <2>6, <2>7, <2>8 DEF Next
<1>2. QED
  BY <1>1, InitBuffer, Inductive, PTL DEF Spec

\* "Every modifications is commutative, that means A + B = B + A": for a source of
\* any length and any sequence of requests, what clang's Rewriter holds depends on
\* the set of ranges committed and the declarations inserted, not on the order of
\* the two; no insertion is lost and no replacement lands at a wrong offset.
THEOREM EditsCommuteHolds == Spec => []EditsCommute
<1>1. BufferInv => EditsCommute
  BY DEF BufferInv
<1>2. QED
  BY <1>1, BufferInvariant, PTL
=============================================================================
