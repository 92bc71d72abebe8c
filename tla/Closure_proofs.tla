--------------------------- MODULE Closure_proofs ---------------------------
(***************************************************************************)
(* The visitor computes the least set of declarations that has the         *)
(* requested ones and all that its members refer to, whatever the unit and *)
(* the order of the calls (ClosureIsLeast).  Of what is printed in the end *)
(* nothing is printed twice (NothingTwiceHolds), and nothing is missing    *)
(* (UsesAreAvailableHolds): all that is printed uses what was analyzed     *)
(* (Served), of all that was analyzed or marked something is left that     *)
(* says the same in the place of what is printed (SurvivorsInvariant), and *)
(* the bodies that Print_Decl does not remove are enough                   *)
(* (RequiredInvariant, NeedsAreThere).                                     *)
(***************************************************************************)
EXTENDS FunctionDepsFinder, WellFoundedInduction, TLAPS

\* What d refers to, whoever asks.
Refs(d) == Calls(d, 0)

Requested(d) == d \in Decls /\ unit[d].parent = 0 /\ unit[d].name \in Names

\* A set that the visitor might compute.
Closed(S) == /\ \A d \in Decls : Requested(d) => d \in S
             /\ \A d \in S : Refs(d) \subseteq S

Frames == [decl : Decls, todo : SUBSET Decls]

VisitorTypeOK ==
    /\ unit \in Units
    /\ sweep \in 0 .. Len(unit)
    /\ stack \in Seq(Frames)
    /\ AnalyzedDecls \subseteq Decls

\* Whose calls are active was analyzed.
StackIsAnalyzed == \A i \in 1 .. Len(stack) : stack[i].decl \in AnalyzedDecls

\* What an analyzed declaration refers to was analyzed or has its call to come.
Pending(d, t) == \E i \in 1 .. Len(stack) : stack[i].decl = d /\ t \in stack[i].todo
RefsAreFollowed == \A d \in AnalyzedDecls : \A t \in Refs(d) : t \in AnalyzedDecls \/ Pending(d, t)

SweptAreAnalyzed == \A d \in 1 .. sweep : Requested(d) => d \in AnalyzedDecls

\* Nothing else is analyzed, or will be.
NothingElse ==
    \A S \in SUBSET Decls : Closed(S) =>
        /\ AnalyzedDecls \subseteq S
        /\ \A i \in 1 .. Len(stack) : stack[i].todo \subseteq S

MarksOfAnalyzed == Closure = UNION {Marks(d) : d \in AnalyzedDecls}

IInv == /\ VisitorTypeOK
        /\ StackIsAnalyzed
        /\ RefsAreFollowed
        /\ SweptAreAnalyzed
        /\ NothingElse
        /\ MarksOfAnalyzed

-----------------------------------------------------------------------------
(* What the assumption on units says of the unit.                          *)
LEMMA UnitFacts ==
    ASSUME unit \in Units
    PROVE  /\ Len(unit) \in Nat
           /\ Decls = 1 .. Len(unit)
           /\ \A d \in Decls : /\ unit[d].parent \in 0 .. Len(unit)
                               /\ unit[d].uses \subseteq Decls
<1>1. Len(unit) \in Nat /\ \A d \in DeclsOf(unit) : unit[d] \in DeclType(Len(unit))
  BY UnitsAssumption
<1>2. ASSUME NEW d \in Decls
      PROVE  unit[d].parent \in 0 .. Len(unit) /\ unit[d].uses \subseteq Decls
  BY <1>1, <1>2 DEF Decls, DeclsOf, DeclType
<1> QED BY <1>1, <1>2 DEF Decls, DeclsOf

(* A sequence without its last element.                                    *)
LEMMA ButLast ==
    ASSUME NEW S, NEW s \in Seq(S), s # <<>>
    PROVE  /\ SubSeq(s, 1, Len(s) - 1) \in Seq(S)
           /\ Len(SubSeq(s, 1, Len(s) - 1)) = Len(s) - 1
           /\ \A i \in 1 .. Len(s) - 1 : SubSeq(s, 1, Len(s) - 1)[i] = s[i]
<1> DEFINE k == Len(s) - 1
<1>1. k \in Nat /\ \A i \in 1 .. k : s[i] \in S
  OBVIOUS
<1> HIDE DEF k
<1>2. SubSeq(s, 1, k) \in Seq(S)
  BY <1>1
<1>3. Len(SubSeq(s, 1, k)) = k
  BY <1>1
<1>4. \A i \in 1 .. k : SubSeq(s, 1, k)[i] = s[i]
  BY <1>1
<1> QED BY <1>2, <1>3, <1>4 DEF k

(* The calls made for a declaration are for declarations of the unit.      *)
LEMMA CallsAreDecls ==
    ASSUME unit \in Units, NEW d \in Decls, NEW from
    PROVE  Calls(d, from) \subseteq Decls
<1>1. \A e \in Decls : Meant(e) \subseteq Decls
  BY DEF Meant, Definitions, Prevs
<1>2. UNION {Meant(e) : e \in unit[d].uses} \subseteq Decls
  BY <1>1, UnitFacts
<1>3. Members(d) \subseteq Decls
  BY DEF Members
<1>4. \A t : SameBeginloc(t) \subseteq Decls
  BY DEF SameBeginloc, Get_Toplev_Decls_With_Same_Beginloc, Decls
<1>5. FuncCalls(d) \subseteq Decls
  BY DEF FuncCalls, WithPrevs, ToMark, Definitions, Prevs
<1>6. TagCalls(d, from) \subseteq Decls
  <2>1. Prevs(d) \subseteq Decls
    BY DEF Prevs
  <2>2. unit[d].parent # 0 => unit[d].parent \in Decls
    BY UnitFacts
  <2> QED BY <1>4, <2>1, <2>2 DEF TagCalls, ParentToo
<1> QED BY <1>2, <1>3, <1>4, <1>5, <1>6 DEF Calls

(* Who asks matters for one call only, and that one is for the asker.      *)
LEMMA CallsAndRefs ==
    ASSUME NEW d, NEW from
    PROVE  Calls(d, from) \subseteq Refs(d) /\ Refs(d) \subseteq Calls(d, from) \cup {from}
<1>1. TagCalls(d, from) \subseteq TagCalls(d, 0) /\ TagCalls(d, 0) \subseteq TagCalls(d, from) \cup {from}
  BY DEF TagCalls, ParentToo
<1> QED BY <1>1 DEF Refs, Calls

(* A step leaves the unit alone, and with it all that is read from it.     *)
LEMMA SameUnit ==
    ASSUME unit' = unit
    PROVE  /\ Decls' = Decls
           /\ \A d, from : Calls(d, from)' = Calls(d, from)
           /\ \A d : Refs(d)' = Refs(d) /\ Marks(d)' = Marks(d)
           /\ \A d : Requested(d)' <=> Requested(d)
           /\ \A d : Meant(d)' = Meant(d)
           /\ \A S : Closed(S)' <=> Closed(S)
<1>1. Decls' = Decls
  BY DEF Decls
<1>2. \A d, e : SameEntity(d, e)' <=> SameEntity(d, e)
  BY DEF SameEntity, OneEntity
<1>3. \A d : Prevs(d)' = Prevs(d) /\ Definitions(d)' = Definitions(d) /\ Members(d)' = Members(d)
  BY <1>1, <1>2 DEF Prevs, Definitions, Members
<1>4. \A d : Meant(d)' = Meant(d)
  BY <1>3 DEF Meant
<1>5. \A d : TypedefForAnon(d)' = TypedefForAnon(d)
  BY <1>1 DEF TypedefForAnon, NamesTag
<1>6. \A d : SameBeginloc(d)' = SameBeginloc(d)
  BY DEF SameBeginloc
<1>7. \A S : WithPrevs(S)' = WithPrevs(S)
  BY <1>3 DEF WithPrevs
<1>8. \A d : ToMark(d)' = ToMark(d)
  BY <1>3 DEF ToMark
<1>9. \A d : FuncCalls(d)' = FuncCalls(d)
  BY <1>7, <1>8 DEF FuncCalls
<1>10. \A d, from : TagCalls(d, from)' = TagCalls(d, from)
  BY <1>3, <1>5, <1>6 DEF TagCalls, ParentToo
<1>11. \A d, from : Calls(d, from)' = Calls(d, from)
  BY <1>3, <1>4, <1>6, <1>9, <1>10 DEF Calls
<1>12. \A d : Refs(d)' = Refs(d)
  BY <1>11 DEF Refs
<1>13. \A d : Marks(d)' = Marks(d)
  BY <1>5, <1>7, <1>8 DEF Marks
<1>14. \A d : Requested(d)' <=> Requested(d)
  BY <1>1 DEF Requested
<1>15. \A S : Closed(S)' <=> Closed(S)
  BY <1>1, <1>12, <1>14 DEF Closed
<1> QED BY <1>1, <1>4, <1>11, <1>12, <1>13, <1>14, <1>15
-----------------------------------------------------------------------------
\* Before the first call nothing is analyzed.
LEMMA InitInv == VisitorInit => IInv
<1> SUFFICES ASSUME VisitorInit PROVE IInv
  OBVIOUS
<1> USE DEF VisitorInit
<1>1. VisitorTypeOK
  BY UnitFacts DEF VisitorTypeOK
<1>2. MarksOfAnalyzed
  BY DEF MarksOfAnalyzed
<1>3. StackIsAnalyzed /\ RefsAreFollowed /\ SweptAreAnalyzed /\ NothingElse
  BY DEF StackIsAnalyzed, RefsAreFollowed, SweptAreAnalyzed, NothingElse
<1> QED BY <1>1, <1>2, <1>3 DEF IInv

\* The active calls without the one for d, which is made now.
WithoutCall(s, d) ==
    /\ s \in Seq(Frames)
    /\ Len(s) = Len(stack)
    /\ \A i \in 1 .. Len(s) : /\ s[i].decl = stack[i].decl
                              /\ s[i].todo \subseteq stack[i].todo
                              /\ stack[i].todo \subseteq s[i].todo \cup {d}

\* What holds of the calls while the visitor is at work, whoever started it.
TraversingOnly == /\ unit \in Units /\ stack \in Seq(Frames) /\ AnalyzedDecls \subseteq Decls
                  /\ StackIsAnalyzed /\ RefsAreFollowed

Traversing == TraversingOnly /\ MarksOfAnalyzed

\* The calls that are to come are those that were, and those of d.
NoOtherCalls(s, d) ==
    \A i \in 1 .. Len(stack') : \/ i \in 1 .. Len(s) /\ stack'[i] = s[i]
                               \/ stack'[i].todo = Calls(d, Caller)

(* Entering d.                                                             *)
LEMMA EnterFollows ==
    ASSUME Traversing, unit' = unit,
           NEW d \in Decls, NEW s, WithoutCall(s, d),
           Enter(d, s)
    PROVE  /\ AnalyzedDecls' = AnalyzedDecls \cup {d}
           /\ Traversing'
           /\ NoOtherCalls(s, d)
<1> USE SameUnit
<1>0. /\ unit \in Units /\ stack \in Seq(Frames) /\ AnalyzedDecls \subseteq Decls
      /\ StackIsAnalyzed /\ RefsAreFollowed /\ MarksOfAnalyzed
      /\ s \in Seq(Frames) /\ Len(s) = Len(stack)
      /\ \A i \in 1 .. Len(s) : /\ s[i].decl = stack[i].decl
                                /\ s[i].todo \subseteq stack[i].todo
                                /\ stack[i].todo \subseteq s[i].todo \cup {d}
  BY DEF Traversing, TraversingOnly, WithoutCall
<1>00. Frames' = Frames
  BY DEF Frames
<1>1. CASE d \in AnalyzedDecls
  <2>1. stack' = s /\ AnalyzedDecls' = AnalyzedDecls /\ Closure' = Closure
    BY <1>1 DEF Enter
  <2>2. StackIsAnalyzed'
    BY <1>0, <2>1 DEF StackIsAnalyzed
  <2>3. RefsAreFollowed'
    <3> SUFFICES ASSUME NEW a \in AnalyzedDecls, NEW t \in Refs(a), t \notin AnalyzedDecls
                 PROVE  Pending(a, t)'
      BY <2>1 DEF RefsAreFollowed
    <3>1. PICK i \in 1 .. Len(stack) : stack[i].decl = a /\ t \in stack[i].todo
      BY <1>0 DEF RefsAreFollowed, Pending
    <3>2. t # d
      BY <1>1
    <3> QED BY <1>0, <2>1, <3>1, <3>2 DEF Pending
  <2>4. NoOtherCalls(s, d)
    BY <2>1 DEF NoOtherCalls
  <2>5. MarksOfAnalyzed'
    BY <1>0, <2>1 DEF MarksOfAnalyzed
  <2>6. Traversing'
    BY <1>0, <1>00, <2>1, <2>2, <2>3, <2>5 DEF Traversing, TraversingOnly
  <2> QED BY <1>1, <2>1, <2>4, <2>6
<1>2. CASE d \notin AnalyzedDecls
  <2> DEFINE f == [decl |-> d, todo |-> Calls(d, Caller)]
  <2>1. /\ stack' = Append(s, f)
        /\ AnalyzedDecls' = AnalyzedDecls \cup {d}
        /\ Closure' = Closure \cup Marks(d)
    BY <1>2 DEF Enter
  <2>2. f \in Frames
    BY <1>0, CallsAreDecls DEF Frames
  <2> HIDE DEF f
  <2>3. /\ stack' \in Seq(Frames)
        /\ Len(stack') = Len(s) + 1
        /\ stack'[Len(s) + 1] = f
        /\ \A i \in 1 .. Len(s) : stack'[i] = s[i]
    BY <1>0, <2>1, <2>2
  <2>4. Len(s) \in Nat
    BY <1>0
  <2>5. StackIsAnalyzed'
    <3> SUFFICES ASSUME NEW i \in 1 .. Len(s) + 1
                 PROVE  stack'[i].decl \in AnalyzedDecls'
      BY <2>3 DEF StackIsAnalyzed
    <3>1. CASE i = Len(s) + 1
      BY <2>1, <2>3, <3>1 DEF f
    <3>2. CASE i \in 1 .. Len(s)
      BY <1>0, <2>1, <2>3, <3>2 DEF StackIsAnalyzed
    <3> QED BY <2>4, <3>1, <3>2
  <2>6. RefsAreFollowed'
    <3> SUFFICES ASSUME NEW a \in AnalyzedDecls', NEW t \in Refs(a), t \notin AnalyzedDecls'
                 PROVE  Pending(a, t)'
      BY DEF RefsAreFollowed
    <3>1. CASE a = d
      <4>1. Caller = 0 \/ Caller \in AnalyzedDecls
        <5>1. CASE stack = <<>>
          BY <5>1 DEF Caller
        <5>2. CASE stack # <<>>
          <6>1. Len(stack) \in 1 .. Len(stack)
            BY <1>0, <5>2
          <6> QED BY <1>0, <5>2, <6>1 DEF Caller, StackIsAnalyzed
        <5> QED BY <5>1, <5>2
      <4>2. \A b \in Calls(d, Caller) : b \in Decls
        BY <1>0, CallsAreDecls
      <4>3. Refs(d) \subseteq Decls
        BY <1>0, CallsAreDecls DEF Refs
      <4>4. t \in Calls(d, Caller) \/ t = Caller
        BY <3>1, CallsAndRefs
      <4>5. 0 \notin Decls
        BY <1>0, UnitFacts
      <4>6. t \in f.todo
        BY <2>1, <3>1, <4>1, <4>3, <4>4, <4>5 DEF f
      <4>7. Len(s) + 1 \in 1 .. Len(stack')
        BY <2>3, <2>4
      <4>8. f.decl = d
        BY DEF f
      <4> QED BY <2>3, <3>1, <4>6, <4>7, <4>8 DEF Pending
    <3>2. CASE a \in AnalyzedDecls
      <4>1. PICK i \in 1 .. Len(stack) : stack[i].decl = a /\ t \in stack[i].todo
        BY <1>0, <2>1, <3>2 DEF RefsAreFollowed, Pending
      <4>2. t # d
        BY <2>1
      <4>3. stack'[i].decl = a /\ t \in stack'[i].todo
        BY <1>0, <2>3, <4>1, <4>2
      <4>4. i \in 1 .. Len(stack')
        BY <1>0, <2>3, <2>4, <4>1
      <4> QED BY <4>3, <4>4 DEF Pending
    <3> QED BY <2>1, <3>1, <3>2
  <2>7. NoOtherCalls(s, d)
    <3>1. ASSUME NEW i \in 1 .. Len(s) + 1
          PROVE  (i \in 1 .. Len(s) /\ stack'[i] = s[i]) \/ stack'[i].todo = Calls(d, Caller)
      <4>1. CASE i = Len(s) + 1
        <5>1. f.todo = Calls(d, Caller)
          BY DEF f
        <5> QED BY <2>3, <4>1, <5>1
      <4>2. CASE i \in 1 .. Len(s)
        BY <2>3, <4>2
      <4> QED BY <2>4, <4>1, <4>2
    <3> QED BY <2>3, <3>1 DEF NoOtherCalls
  <2>8. MarksOfAnalyzed'
    BY <1>0, <2>1 DEF MarksOfAnalyzed
  <2>9. Traversing'
    BY <1>0, <1>00, <2>1, <2>3, <2>5, <2>6, <2>8 DEF Traversing, TraversingOnly
  <2> QED BY <2>1, <2>7, <2>9
<1> QED BY <1>1, <1>2

(* The innermost traversal calls TraverseDecl(d): its frame loses d.       *)
LEMMA CallIsMade ==
    ASSUME stack \in Seq(Frames), TraverseDecl
    PROVE  \E d \in Decls, s \in Seq(Frames) :
               /\ WithoutCall(s, d) /\ Enter(d, s)
               /\ \E i \in 1 .. Len(stack) : d \in stack[i].todo
<1>1. Len(stack) \in 1 .. Len(stack)
  BY DEF TraverseDecl
<1>2. PICK d \in stack[Len(stack)].todo :
          Enter(d, [stack EXCEPT ![Len(stack)].todo = @ \ {d}])
  BY DEF TraverseDecl
<1> DEFINE s == [stack EXCEPT ![Len(stack)].todo = @ \ {d}]
<1>3. stack[Len(stack)] \in Frames
  BY <1>1
<1>4. d \in Decls
  BY <1>3 DEF Frames
<1>5. s \in Seq(Frames) /\ Len(s) = Len(stack)
  <2>1. [stack[Len(stack)] EXCEPT !.todo = @ \ {d}] \in Frames
    BY <1>3 DEF Frames
  <2>2. s = [stack EXCEPT ![Len(stack)] = [stack[Len(stack)] EXCEPT !.todo = @ \ {d}]]
    OBVIOUS
  <2> QED BY <1>1, <2>1, <2>2
<1>6. \A i \in 1 .. Len(s) : /\ s[i].decl = stack[i].decl
                             /\ s[i].todo \subseteq stack[i].todo
                             /\ stack[i].todo \subseteq s[i].todo \cup {d}
  <2> SUFFICES ASSUME NEW i \in 1 .. Len(stack)
               PROVE  /\ s[i].decl = stack[i].decl
                      /\ s[i].todo \subseteq stack[i].todo
                      /\ stack[i].todo \subseteq s[i].todo \cup {d}
    BY <1>5
  <2>1. stack[i] \in Frames
    OBVIOUS
  <2>2. CASE i = Len(stack)
    <3>0. i \in DOMAIN stack
      OBVIOUS
    <3>1. s[i] = [stack[i] EXCEPT !.todo = @ \ {d}]
      BY <2>2, <3>0, Zenon
    <3>2. s[i].decl = stack[i].decl /\ s[i].todo = stack[i].todo \ {d}
      BY <2>1, <3>1 DEF Frames
    <3> QED BY <3>2
  <2>3. CASE i # Len(stack)
    <3>1. s[i] = stack[i]
      BY <2>3
    <3> QED BY <3>1
  <2> QED BY <2>2, <2>3
<1> HIDE DEF s
<1>7. WithoutCall(s, d)
  BY <1>5, <1>6 DEF WithoutCall
<1>8. Enter(d, s)
  BY <1>2 DEF s
<1>9. d \in stack[Len(stack)].todo
  OBVIOUS
<1> QED BY <1>1, <1>4, <1>5, <1>7, <1>8, <1>9

(* What returns leaves no call behind.                                     *)
LEMMA ReturnFollows ==
    ASSUME Traversing, Return
    PROVE  /\ unit' = unit /\ sweep' = sweep /\ AnalyzedDecls' = AnalyzedDecls /\ Closure' = Closure
           /\ Traversing'
           /\ \A i \in 1 .. Len(stack') : i \in 1 .. Len(stack) /\ stack'[i] = stack[i]
<1>0. /\ unit \in Units /\ stack \in Seq(Frames) /\ AnalyzedDecls \subseteq Decls
      /\ StackIsAnalyzed /\ RefsAreFollowed /\ MarksOfAnalyzed
  BY DEF Traversing, TraversingOnly
<1> DEFINE n == Len(stack)
<1>1. /\ unit' = unit /\ sweep' = sweep /\ AnalyzedDecls' = AnalyzedDecls /\ Closure' = Closure
      /\ stack # <<>> /\ stack[n].todo = {} /\ stack' = SubSeq(stack, 1, n - 1)
  BY DEF Return
<1>2. n \in Nat /\ n >= 1
  BY <1>0, <1>1
<1>3. /\ stack' \in Seq(Frames) /\ Len(stack') = n - 1
      /\ \A i \in 1 .. n - 1 : stack'[i] = stack[i]
  <2>1. /\ SubSeq(stack, 1, n - 1) \in Seq(Frames)
        /\ Len(SubSeq(stack, 1, n - 1)) = n - 1
        /\ \A i \in 1 .. n - 1 : SubSeq(stack, 1, n - 1)[i] = stack[i]
    BY <1>0, <1>1, ButLast
  <2> QED BY <1>1, <2>1
<1> HIDE DEF n
<1>4. MarksOfAnalyzed'
  BY <1>0, <1>1, SameUnit DEF MarksOfAnalyzed
<1>5. StackIsAnalyzed'
  BY <1>0, <1>1, <1>2, <1>3 DEF StackIsAnalyzed, n
<1>6. RefsAreFollowed'
  <2> SUFFICES ASSUME NEW a \in AnalyzedDecls, NEW t \in Refs(a), t \notin AnalyzedDecls
               PROVE  Pending(a, t)'
    BY <1>1, SameUnit DEF RefsAreFollowed
  <2>1. PICK i \in 1 .. n : stack[i].decl = a /\ t \in stack[i].todo
    BY <1>0 DEF RefsAreFollowed, Pending, n
  <2>2. i # n
    BY <1>1, <2>1
  <2>3. i \in 1 .. n - 1
    BY <1>2, <2>2
  <2> QED BY <1>3, <2>1, <2>3 DEF Pending
<1>7. Traversing'
  BY <1>0, <1>1, <1>3, <1>4, <1>5, <1>6, SameUnit DEF Traversing, TraversingOnly, Frames
<1>8. ASSUME NEW i \in 1 .. Len(stack')
      PROVE  i \in 1 .. Len(stack) /\ stack'[i] = stack[i]
  <2>1. i \in 1 .. n - 1
    BY <1>3
  <2>2. i \in 1 .. n
    BY <1>2, <2>1
  <2> QED BY <1>3, <2>1, <2>2 DEF n
<1> QED BY <1>1, <1>7, <1>8

(* Nothing but what closed sets have is entered.                           *)
LEMMA NothingElseEnters ==
    ASSUME Traversing, NothingElse, unit' = unit,
           NEW d \in Decls, NEW s, WithoutCall(s, d), NoOtherCalls(s, d),
           \A S \in SUBSET Decls : Closed(S) => d \in S,
           AnalyzedDecls' = AnalyzedDecls \cup {d}
    PROVE  NothingElse'
<1> USE SameUnit
<1> SUFFICES ASSUME NEW S \in SUBSET Decls, Closed(S)
             PROVE  /\ AnalyzedDecls' \subseteq S
                    /\ \A i \in 1 .. Len(stack') : stack'[i].todo \subseteq S
  BY DEF NothingElse
<1>1. d \in S /\ AnalyzedDecls \subseteq S /\ \A i \in 1 .. Len(stack) : stack[i].todo \subseteq S
  BY DEF NothingElse
<1>2. Calls(d, Caller) \subseteq S
  BY <1>1, CallsAndRefs DEF Closed
<1>3. ASSUME NEW i \in 1 .. Len(stack')
      PROVE  stack'[i].todo \subseteq S
  BY <1>1, <1>2 DEF NoOtherCalls, WithoutCall
<1> QED BY <1>1, <1>3

\* Each step of the visitor keeps the invariant.
LEMMA NextInv == IInv /\ [VisitorNext]_visitorVars => IInv'
<1> SUFFICES ASSUME IInv, [VisitorNext]_visitorVars PROVE IInv'
  OBVIOUS
<1>0. /\ unit \in Units /\ stack \in Seq(Frames) /\ AnalyzedDecls \subseteq Decls
      /\ sweep \in 0 .. Len(unit) /\ Len(unit) \in Nat /\ Decls = 1 .. Len(unit)
      /\ Traversing /\ NothingElse /\ SweptAreAnalyzed
  BY UnitFacts DEF IInv, VisitorTypeOK, Traversing, TraversingOnly
<1>1. CASE Compute_Closure_Of_Symbols
  <2>1. /\ unit' = unit /\ sweep' = sweep + 1 /\ sweep < Len(unit) /\ sweep + 1 \in Decls
    BY <1>0, <1>1 DEF Compute_Closure_Of_Symbols
  <2>2. CASE unit[sweep'].parent = 0 /\ unit[sweep'].name \in Names
    <3>1. Enter(sweep + 1, stack) /\ Requested(sweep + 1)
      BY <1>1, <2>1, <2>2 DEF Compute_Closure_Of_Symbols, Requested
    <3>2. \A S \in SUBSET Decls : Closed(S) => sweep + 1 \in S
      BY <2>1, <3>1 DEF Closed
    <3>3. WithoutCall(stack, sweep + 1)
      BY <1>0 DEF WithoutCall
    <3>31. /\ AnalyzedDecls' = AnalyzedDecls \cup {sweep + 1} /\ Traversing'
           /\ NoOtherCalls(stack, sweep + 1)
      BY <1>0, <2>1, <3>1, <3>3, EnterFollows
    <3>32. NothingElse'
      BY <1>0, <2>1, <3>2, <3>3, <3>31, NothingElseEnters
    <3>4. VisitorTypeOK'
      BY <1>0, <2>1, <3>31, SameUnit DEF VisitorTypeOK, Traversing, TraversingOnly
    <3>5. SweptAreAnalyzed'
      BY <1>0, <2>1, <3>31, SameUnit DEF SweptAreAnalyzed
    <3> QED BY <3>31, <3>32, <3>4, <3>5 DEF IInv, Traversing, TraversingOnly
  <2>3. CASE ~(unit[sweep'].parent = 0 /\ unit[sweep'].name \in Names)
    <3>1. stack' = stack /\ AnalyzedDecls' = AnalyzedDecls /\ Closure' = Closure /\ ~Requested(sweep + 1)
      BY <1>1, <2>1, <2>3 DEF Compute_Closure_Of_Symbols, Requested
    <3>2. VisitorTypeOK'
      BY <1>0, <2>1, <3>1, SameUnit DEF VisitorTypeOK, Frames
    <3>3. SweptAreAnalyzed'
      BY <1>0, <2>1, <3>1, SameUnit DEF SweptAreAnalyzed
    <3>4. StackIsAnalyzed' /\ RefsAreFollowed'
      BY <1>0, <2>1, <3>1, SameUnit DEF Traversing, TraversingOnly, StackIsAnalyzed, RefsAreFollowed, Pending
    <3>5. NothingElse' /\ MarksOfAnalyzed'
      BY <1>0, <2>1, <3>1, SameUnit DEF Traversing, TraversingOnly, NothingElse, MarksOfAnalyzed
    <3> QED BY <3>2, <3>3, <3>4, <3>5 DEF IInv
  <2> QED BY <2>2, <2>3
<1>2. CASE TraverseDecl
  <2>1. unit' = unit /\ sweep' = sweep
    BY <1>2 DEF TraverseDecl
  <2>2. PICK d \in Decls, s \in Seq(Frames) :
            /\ WithoutCall(s, d) /\ Enter(d, s)
            /\ \E i \in 1 .. Len(stack) : d \in stack[i].todo
    BY <1>0, <1>2, CallIsMade
  <2>3. /\ AnalyzedDecls' = AnalyzedDecls \cup {d} /\ Traversing' /\ NoOtherCalls(s, d)
    BY <1>0, <2>1, <2>2, EnterFollows
  <2>4. \A S \in SUBSET Decls : Closed(S) => d \in S
    BY <1>0, <2>2 DEF NothingElse
  <2>5. NothingElse'
    BY <1>0, <2>1, <2>2, <2>3, <2>4, NothingElseEnters
  <2>6. VisitorTypeOK'
    BY <1>0, <2>1, <2>3, SameUnit DEF VisitorTypeOK, Traversing, TraversingOnly
  <2>7. SweptAreAnalyzed'
    BY <1>0, <2>1, <2>3, SameUnit DEF SweptAreAnalyzed
  <2> QED BY <2>3, <2>5, <2>6, <2>7 DEF IInv, Traversing, TraversingOnly
<1>3. CASE Return
  <2>1. /\ unit' = unit /\ sweep' = sweep /\ AnalyzedDecls' = AnalyzedDecls /\ Closure' = Closure
        /\ Traversing'
        /\ \A i \in 1 .. Len(stack') : i \in 1 .. Len(stack) /\ stack'[i] = stack[i]
    BY <1>0, <1>3, ReturnFollows
  <2>2. VisitorTypeOK'
    BY <1>0, <2>1, SameUnit DEF VisitorTypeOK, Traversing, TraversingOnly
  <2>3. SweptAreAnalyzed'
    BY <1>0, <2>1, SameUnit DEF SweptAreAnalyzed
  <2>4. NothingElse'
    BY <1>0, <2>1, SameUnit DEF NothingElse
  <2> QED BY <2>1, <2>2, <2>3, <2>4 DEF IInv, Traversing, TraversingOnly
<1>4. CASE UNCHANGED visitorVars
  <2>1. unit' = unit /\ sweep' = sweep /\ stack' = stack /\ AnalyzedDecls' = AnalyzedDecls /\ Closure' = Closure
    BY <1>4 DEF visitorVars
  <2>2. VisitorTypeOK' /\ SweptAreAnalyzed' /\ MarksOfAnalyzed'
    BY <1>0, <2>1, SameUnit DEF Traversing, TraversingOnly, VisitorTypeOK, Frames, SweptAreAnalyzed, MarksOfAnalyzed
  <2>3. StackIsAnalyzed' /\ RefsAreFollowed' /\ NothingElse'
    BY <1>0, <2>1, SameUnit DEF Traversing, TraversingOnly, StackIsAnalyzed, RefsAreFollowed, Pending, NothingElse
  <2> QED BY <2>2, <2>3 DEF IInv
<1> QED BY <1>1, <1>2, <1>3, <1>4 DEF VisitorNext

(* The inductive invariant holds of the visitor.                           *)
THEOREM VisitorInvariant == VisitorSpec => []IInv
<1> QED BY InitInv, NextInv, PTL DEF VisitorSpec

-----------------------------------------------------------------------------
(* What the visitor has computed when it ends: a set that has what was     *)
(* requested and all that its members refer to, no such set is smaller,    *)
(* and what is marked is what the members of that set mark.                *)
IsLeastClosure ==
    Visited => /\ Closed(AnalyzedDecls)
               /\ \A S \in SUBSET Decls : Closed(S) => AnalyzedDecls \subseteq S
               /\ Closure = UNION {Marks(d) : d \in AnalyzedDecls}

(* TraverseDecl visits a declaration once and Compute_Closure_Of_Symbols   *)
(* calls it in the order of the file; the result does not depend on it.    *)
THEOREM ClosureIsLeast == VisitorSpec => []IsLeastClosure
<1>1. IInv => IsLeastClosure
  <2> SUFFICES ASSUME IInv, Visited
               PROVE  /\ Closed(AnalyzedDecls)
                      /\ \A S \in SUBSET Decls : Closed(S) => AnalyzedDecls \subseteq S
                      /\ Closure = UNION {Marks(d) : d \in AnalyzedDecls}
    BY DEF IsLeastClosure
  <2>1. stack = <<>> /\ sweep = Len(unit) /\ Decls = 1 .. Len(unit)
    BY UnitFacts DEF Visited, IInv, VisitorTypeOK
  <2>2. \A d \in Decls : Requested(d) => d \in AnalyzedDecls
    BY <2>1 DEF IInv, SweptAreAnalyzed
  <2>3. \A d, t : ~Pending(d, t)
    BY <2>1 DEF Pending
  <2>4. \A d \in AnalyzedDecls : Refs(d) \subseteq AnalyzedDecls
    BY <2>3 DEF IInv, RefsAreFollowed
  <2> QED BY <2>2, <2>4 DEF IInv, NothingElse, MarksOfAnalyzed, Closed
<1> QED BY <1>1, VisitorInvariant, PTL

-----------------------------------------------------------------------------
(* The second loop of Remove_Redundant_Decls.  prev is the last marked     *)
(* declaration so far, and no earlier one is in the text of another.       *)
Loops == {"ranges", "print"}

LoopStarts == phase \notin Loops => at = 0 /\ prev = 0

LastIsPrev ==
    phase = "ranges" =>
        /\ at \in 0 .. Len(unit) /\ prev \in 0 .. at
        /\ prev # 0 => prev \in TopLevel \cap Closure
        /\ \A m \in TopLevel \cap Closure : m <= at => m <= prev

NoneInside ==
    phase \in Loops =>
        \A e, d \in TopLevel \cap Closure :
            e < d /\ (d <= at \/ phase = "print") /\ HasText(e) /\ HasText(d)
                => ~ Contains_From_LineCol(d, e)

\* Of the declarators of one declaration all have a text or none has, and each
\* has in its range what the ones before it have.  It is not so where a macro holds
\* only some of them, or where two tags are written one behind the other: the loop
\* compares with the last marked declaration only.
OneText ==
    \A e, m, d \in TopLevel :
        e < m /\ m < d /\ HasText(e) /\ HasText(d) /\ Contains_From_LineCol(d, e)
            => HasText(m) /\ Contains_From_LineCol(m, e)

RangesInv == unit \in Units /\ (OneText => LoopStarts /\ LastIsPrev /\ NoneInside)

\* Ranges of top-level declarations are disjoint, or the later has the earlier.
LEMMA RangeFacts ==
    ASSUME unit \in Units, NEW e \in TopLevel, NEW d \in TopLevel
    PROVE  /\ e \in Nat /\ e > 0 /\ d \in Nat /\ d <= Len(unit)
           /\ unit[d].begin \in Nat /\ unit[d].end \in Nat /\ unit[d].begin <= unit[d].end
           /\ unit[e].begin \in Nat /\ unit[e].end \in Nat /\ unit[e].begin <= unit[e].end
           /\ e < d => unit[e].end < unit[d].begin \/ Contains_From_LineCol(d, e)
<1>1. Decls = 1 .. Len(unit) /\ Len(unit) \in Nat
  BY UnitFacts
<1>2. d \in DeclsOf(unit) /\ e \in DeclsOf(unit) /\ unit[d].parent = 0 /\ unit[e].parent = 0
  BY DEF TopLevel, Decls
<1>3. unit[d] \in DeclType(Len(unit)) /\ unit[e] \in DeclType(Len(unit))
  BY <1>2, UnitsAssumption
<1>4. /\ unit[d].begin \in Nat /\ unit[d].end \in Nat
      /\ unit[e].begin \in Nat /\ unit[e].end \in Nat
  BY <1>3 DEF DeclType
<1>5. /\ unit[d].begin <= unit[d].end /\ unit[e].begin <= unit[e].end
      /\ e < d => unit[e].end < unit[d].begin \/ Contains_From_LineCol(d, e)
  BY <1>2, OrderAssumption DEF Contains_From_LineCol, Within
<1> QED BY <1>1, <1>4, <1>5 DEF TopLevel

\* What is inside the text of d, and is marked, is prev.
LEMMA InsideIsPrev ==
    ASSUME RangesInv, OneText, phase = "ranges",
           NEW d \in TopLevel \cap Closure, d = at + 1,
           NEW e \in TopLevel \cap Closure, e < d,
           HasText(e), HasText(d), Contains_From_LineCol(d, e)
    PROVE  InTextOf(d) /\ e = prev
<1>1. unit \in Units /\ e \in Nat /\ e > 0 /\ d \in Nat /\ at \in Nat /\ prev \in Nat /\ prev <= at
  BY RangeFacts DEF RangesInv, LastIsPrev
<1>2. e <= prev /\ prev # 0 /\ prev \in TopLevel \cap Closure /\ prev < d
  BY <1>1, RangeFacts DEF RangesInv, LastIsPrev
<1>3. CASE e = prev
  BY <1>2, <1>3 DEF InTextOf
<1>4. CASE e < prev
  <2>1. HasText(prev) /\ Contains_From_LineCol(prev, e)
    BY <1>2, <1>4 DEF OneText
  <2>2. ~ Contains_From_LineCol(prev, e)
    BY <1>1, <1>2, <1>4, <2>1 DEF RangesInv, NoneInside, Loops
  <2> QED BY <2>1, <2>2
<1> QED BY <1>1, <1>2, <1>3, <1>4

\* A step of the second loop leaves no marked declaration in another's text.
LEMMA RemoveContainedRanges ==
    ASSUME RangesInv, OneText, RemoveContained
    PROVE  LastIsPrev' /\ NoneInside'
<1>1. /\ phase = "ranges" /\ phase' = "ranges" /\ unit' = unit /\ at' = at + 1 /\ at < Len(unit)
      /\ unit \in Units /\ Len(unit) \in Nat /\ at \in Nat /\ prev \in 0 .. at
      /\ TopLevel' = TopLevel /\ TopLevel \subseteq Nat
  BY UnitFacts DEF RemoveContained, RangesInv, LastIsPrev, TopLevel, Decls
<1>2. CASE at' \notin TopLevel \cap Closure
  <2>1. prev' = prev /\ Closure' = Closure
    BY <1>2 DEF RemoveContained
  <2>2. \A m \in TopLevel \cap Closure : m <= at' => m <= at
    BY <1>1, <1>2
  <2>3. LastIsPrev'
    BY <1>1, <2>1, <2>2 DEF RangesInv, LastIsPrev
  <2>4. NoneInside'
    BY <1>1, <2>1, <2>2 DEF RangesInv, NoneInside, Loops, HasText, Contains_From_LineCol
  <2> QED BY <2>3, <2>4
<1>3. CASE at' \in TopLevel \cap Closure
  <2> DEFINE d == at + 1
  <2>1. /\ prev' = d /\ d \in TopLevel \cap Closure /\ prev < d
        /\ Closure' = IF InTextOf(d) THEN Closure \ {prev} ELSE Closure
    BY <1>1, <1>3 DEF RemoveContained, NextPrev
  <2>2. d \in Closure' /\ Closure' \subseteq Closure
    BY <1>1, <2>1
  <2>3. LastIsPrev'
    <3>1. \A m \in TopLevel \cap Closure' : m <= at' => m <= prev'
      BY <1>1, <2>1
    <3>2. at' \in 0 .. Len(unit') /\ prev' \in 0 .. at'
      BY <1>1, <2>1
    <3> QED BY <1>1, <2>1, <2>2, <3>1, <3>2 DEF LastIsPrev
  <2>4. ASSUME NEW e \in TopLevel \cap Closure', NEW f \in TopLevel \cap Closure',
               e < f, f <= at', HasText(e), HasText(f), Contains_From_LineCol(f, e)
        PROVE  FALSE
    <3>1. e \in TopLevel \cap Closure /\ f \in TopLevel \cap Closure /\ e \in Nat /\ f \in Nat
      BY <1>1, <2>2, <2>4
    <3>2. CASE f <= at
      BY <1>1, <2>4, <3>1, <3>2 DEF RangesInv, NoneInside, Loops
    <3>3. CASE f = d
      <4>1. InTextOf(d) /\ e = prev
        BY <1>1, <2>4, <3>1, <3>3, InsideIsPrev
      <4> QED BY <2>1, <2>4, <4>1
    <3> QED BY <1>1, <2>4, <3>1, <3>2, <3>3
  <2>5. NoneInside'
    BY <1>1, <2>4 DEF NoneInside, Loops, HasText, Contains_From_LineCol
  <2> QED BY <2>3, <2>5
<1> QED BY <1>2, <1>3

\* In the beginning no loop has started.
LEMMA InitRanges == Init => RangesInv
BY DEF Init, VisitorInit, RangesInv, LoopStarts, LastIsPrev, NoneInside, Loops

\* The actions of the visitor leave the rest of the state alone.
LEMMA VisitorKeepsUnit ==
    ASSUME VisitorNext \/ TraverseDecl \/ Return
    PROVE  unit' = unit
BY DEF VisitorNext, Compute_Closure_Of_Symbols, TraverseDecl, Return

\* Only the second loop moves; the other steps leave its state alone.
LEMMA NextRanges == RangesInv /\ [Next]_vars => RangesInv'
<1> SUFFICES ASSUME RangesInv, [Next]_vars PROVE RangesInv'
  OBVIOUS
<1>0. unit' = unit
  BY VisitorKeepsUnit DEF Next, vars, visitorVars, Find_Functions_Required, ClosureIsComputed,
     Insert_Decls_From_Non_Expanded_Includes, IncludesAreInserted, RemoveRepeated,
     FirstLoopEnds, RemoveContained, Analyze_Includes
<1>1. OneText' = OneText /\ TopLevel' = TopLevel
  BY <1>0 DEF OneText, TopLevel, Decls, HasText, Contains_From_LineCol
<1>2. SUFFICES ASSUME OneText PROVE LoopStarts' /\ LastIsPrev' /\ NoneInside'
  BY <1>0, <1>1 DEF RangesInv
<1>3. CASE \/ Find_Functions_Required \/ ClosureIsComputed \/ IncludesAreInserted
           \/ Insert_Decls_From_Non_Expanded_Includes \/ RemoveRepeated
  <2>1. /\ phase \notin Loops /\ phase' \notin Loops /\ at' = at /\ prev' = prev
    BY <1>3 DEF Find_Functions_Required, ClosureIsComputed, IncludesAreInserted,
       Insert_Decls_From_Non_Expanded_Includes, RemoveRepeated, Loops
  <2> QED BY <1>2, <2>1 DEF RangesInv, LoopStarts, LastIsPrev, NoneInside, Loops
<1>4. CASE FirstLoopEnds
  <2>1. phase' = "ranges" /\ at' = 0 /\ prev' = 0 /\ Closure' = Closure
    BY <1>2, <1>4 DEF FirstLoopEnds, RangesInv, LoopStarts, Loops, visitorVars
  <2>2. TopLevel \subseteq 1 .. Len(unit) /\ Len(unit) \in Nat
    BY UnitFacts DEF RangesInv, TopLevel
  <2>3. \A m \in TopLevel : m \in Nat /\ ~(m <= 0)
    BY <2>2
  <2> QED BY <1>0, <1>1, <2>1, <2>2, <2>3 DEF LoopStarts, LastIsPrev, NoneInside, Loops
<1>5. CASE RemoveContained
  <2>1. phase' = "ranges"
    BY <1>5 DEF RemoveContained
  <2> QED BY <1>2, <1>5, <2>1, RemoveContainedRanges DEF LoopStarts, Loops
<1>6. CASE Analyze_Includes
  <2>1. /\ phase = "ranges" /\ at = Len(unit) /\ phase' = "print" /\ Closure' \subseteq Closure
    BY <1>6 DEF Analyze_Includes
  <2>2. TopLevel \subseteq 1 .. Len(unit) /\ Len(unit) \in Nat
    BY UnitFacts DEF RangesInv, TopLevel
  <2>3. \A d \in TopLevel : d <= at
    BY <2>1, <2>2
  <2> QED BY <1>0, <1>1, <1>2, <2>1, <2>3
          DEF RangesInv, LoopStarts, LastIsPrev, NoneInside, Loops, HasText, Contains_From_LineCol
<1>7. CASE UNCHANGED vars
  BY <1>1, <1>2, <1>7 DEF vars, visitorVars, RangesInv, LoopStarts, LastIsPrev, NoneInside,
     HasText, Contains_From_LineCol
<1> QED BY <1>3, <1>4, <1>5, <1>6, <1>7 DEF Next

(* In every reachable state of Remove_Redundant_Decls prev is the last     *)
(* marked declaration, and no earlier one is in the text of a later one.   *)
THEOREM RangesInvariant == Spec => []RangesInv
<1> QED BY InitRanges, NextRanges, PTL DEF Spec

(* No declaration is printed by itself and in another's text: neither of   *)
(* the loops that remove declarations, nor the order in which the first    *)
(* one visits its hash set, leaves such a pair in a unit with OneText.     *)
THEOREM NothingTwiceHolds == Spec => [](OneText => NothingTwice)
<1>1. RangesInv => (OneText => NothingTwice)
  <2> SUFFICES ASSUME RangesInv, phase = "print", OneText,
                      NEW d \in Printed, NEW e \in Printed,
                      d # e, PrintedFromSource(d), HasText(e), Contains_From_LineCol(d, e)
               PROVE  FALSE
    BY DEF NothingTwice
  <2>1. d \in TopLevel \cap Closure /\ e \in TopLevel \cap Closure /\ HasText(d)
    BY DEF Printed, PrintedFromSource, HasText
  <2>2. unit \in Units /\ NoneInside
    BY DEF RangesInv
  <2>3. CASE e < d
    BY <2>1, <2>2, <2>3 DEF NoneInside, Loops
  <2>4. CASE d < e
    <3>1. Contains_From_LineCol(e, d)
      BY <2>1, <2>2, <2>4, RangeFacts DEF Contains_From_LineCol, Within
    <3> QED BY <2>1, <2>2, <2>4, <3>1 DEF NoneInside, Loops
  <2>5. d \in Nat /\ e \in Nat
    BY <2>1, <2>2, RangeFacts
  <2> QED BY <2>3, <2>4, <2>5
<1> QED BY <1>1, RangesInvariant, PTL

-----------------------------------------------------------------------------
(* The closure as FunctionDependencyFinder computes it: the visitor runs   *)
(* for the requested symbols, then for what kept headers declare.          *)
\* The phases in which nothing is analyzed any more.
Later == {"redundant", "ranges", "print"}

\* Insert_Decls_From_Non_Expanded_Includes called for what it passed.
KeptAreAnalyzed == KeepIncludes => \A d \in 1 .. kept : InKeptHeader(d) => d \in AnalyzedDecls

ClosureTypeOK ==
    /\ phase \in {"closure", "includes"} \cup Later
    /\ sweep \in 0 .. Len(unit) /\ kept \in 0 .. Len(unit)
    /\ phase # "closure" => sweep = Len(unit)
    /\ phase \in Later \/ (phase = "includes" /\ ~KeepIncludes) => stack = <<>>
    /\ phase \in Later /\ KeepIncludes => kept = Len(unit)

\* What was marked, before anything was removed.
MarkedSoFar == IF phase \in Later THEN computed ELSE Closure

\* As IInv, while two loops make the calls and after the marked set is reduced.
AInv == /\ ClosureTypeOK
        /\ TraversingOnly
        /\ SweptAreAnalyzed
        /\ KeptAreAnalyzed
        /\ MarkedSoFar = UNION {Marks(d) : d \in AnalyzedDecls}

\* In the beginning nothing is analyzed or marked.
LEMMA InitA == Init => AInv
<1> SUFFICES ASSUME Init PROVE AInv
  OBVIOUS
<1>1. /\ unit \in Units /\ sweep = 0 /\ stack = <<>> /\ AnalyzedDecls = {} /\ Closure = {}
      /\ phase = "closure" /\ kept = 0 /\ Len(unit) \in Nat
  BY UnitFacts DEF Init, VisitorInit
<1>2. ClosureTypeOK
  BY <1>1 DEF ClosureTypeOK, Later
<1>3. TraversingOnly
  BY <1>1 DEF TraversingOnly, StackIsAnalyzed, RefsAreFollowed
<1>4. SweptAreAnalyzed /\ KeptAreAnalyzed
  BY <1>1 DEF SweptAreAnalyzed, KeptAreAnalyzed
<1>5. MarkedSoFar = UNION {Marks(d) : d \in AnalyzedDecls}
  BY <1>1 DEF MarkedSoFar, Later
<1> QED BY <1>2, <1>3, <1>4, <1>5 DEF AInv

\* A call of the visitor from either loop.
LEMMA EnterA ==
    ASSUME AInv, phase \in {"closure", "includes"}, unit' = unit, phase' = phase,
           sweep' \in 0 .. Len(unit), kept' \in 0 .. Len(unit), phase # "closure" => sweep' = Len(unit),
           phase = "includes" => KeepIncludes,
           NEW d \in Decls, NEW s, WithoutCall(s, d), Enter(d, s),
           \A e \in 1 .. sweep' : Requested(e) => e \in AnalyzedDecls \cup {d},
           KeepIncludes => \A e \in 1 .. kept' : InKeptHeader(e) => e \in AnalyzedDecls \cup {d}
    PROVE  AInv'
<1>1. Traversing
  BY DEF AInv, TraversingOnly, Traversing, MarksOfAnalyzed, MarkedSoFar, Later
<1>2. AnalyzedDecls' = AnalyzedDecls \cup {d} /\ Traversing'
  BY <1>1, EnterFollows
<1>3. TraversingOnly'
  BY <1>2 DEF Traversing, TraversingOnly
<1>4. MarkedSoFar' = (UNION {Marks(e) : e \in AnalyzedDecls})'
  BY <1>2 DEF Traversing, TraversingOnly, MarksOfAnalyzed, MarkedSoFar, Later
<1>5. SweptAreAnalyzed' /\ KeptAreAnalyzed'
  BY <1>2, SameUnit DEF SweptAreAnalyzed, KeptAreAnalyzed, InKeptHeader, TopLevel
<1>6. ClosureTypeOK'
  BY DEF ClosureTypeOK, Later
<1> QED BY <1>3, <1>4, <1>5, <1>6 DEF AInv

\* A step that leaves what was analyzed alone.
LEMMA SameA ==
    ASSUME AInv, unit' = unit, AnalyzedDecls' = AnalyzedDecls, TraversingOnly', ClosureTypeOK',
           MarkedSoFar' = MarkedSoFar,
           \A e \in 1 .. sweep' : Requested(e) => e \in AnalyzedDecls,
           KeepIncludes => \A e \in 1 .. kept' : InKeptHeader(e) => e \in AnalyzedDecls
    PROVE  AInv'
<1>1. SweptAreAnalyzed' /\ KeptAreAnalyzed'
  BY SameUnit DEF SweptAreAnalyzed, KeptAreAnalyzed, InKeptHeader, TopLevel
<1>2. MarkedSoFar' = (UNION {Marks(e) : e \in AnalyzedDecls})'
  BY SameUnit DEF AInv
<1> QED BY <1>1, <1>2 DEF AInv

\* What leaves the calls alone leaves what is known of them.
LEMMA SameTraversal ==
    ASSUME TraversingOnly, UNCHANGED <<unit, stack, AnalyzedDecls>>
    PROVE  TraversingOnly'
BY SameUnit DEF TraversingOnly, Frames, StackIsAnalyzed, RefsAreFollowed, Pending

\* A call that a traversal makes, or its return, from either loop.
LEMMA TraverseA ==
    ASSUME AInv, phase \in {"closure", "includes"}, phase' = phase, kept' = kept,
           phase = "includes" => KeepIncludes,
           TraverseDecl \/ Return
    PROVE  AInv'
<1>1. Traversing
  BY DEF AInv, TraversingOnly, Traversing, MarksOfAnalyzed, MarkedSoFar, Later
<1>2. CASE TraverseDecl
  <2>1. unit' = unit /\ sweep' = sweep
    BY <1>2 DEF TraverseDecl
  <2>2. PICK d \in Decls, s \in Seq(Frames) : WithoutCall(s, d) /\ Enter(d, s)
    BY <1>1, <1>2, CallIsMade DEF Traversing, TraversingOnly
  <2> QED BY <2>1, <2>2, EnterA DEF AInv, ClosureTypeOK, SweptAreAnalyzed, KeptAreAnalyzed
<1>3. CASE Return
  <2>1. /\ unit' = unit /\ sweep' = sweep /\ AnalyzedDecls' = AnalyzedDecls /\ Closure' = Closure
        /\ Traversing'
    BY <1>1, <1>3, ReturnFollows
  <2>2. TraversingOnly'
    BY <2>1 DEF TraversingOnly, Traversing
  <2>3. ClosureTypeOK'
    BY <2>1 DEF AInv, ClosureTypeOK, Later
  <2>4. MarkedSoFar' = MarkedSoFar
    BY <2>1 DEF MarkedSoFar, Later
  <2> QED BY <2>1, <2>2, <2>3, <2>4, SameA DEF AInv, SweptAreAnalyzed, KeptAreAnalyzed
<1> QED BY <1>2, <1>3

\* Each step keeps what is known of the analyzed and the marked declarations.
LEMMA NextA == AInv /\ [Next]_vars => AInv'
<1> SUFFICES ASSUME AInv, [Next]_vars PROVE AInv'
  OBVIOUS
<1>0. /\ unit \in Units /\ stack \in Seq(Frames) /\ Len(unit) \in Nat /\ Decls = 1 .. Len(unit)
      /\ TraversingOnly /\ ClosureTypeOK
      /\ \A e \in 1 .. sweep : Requested(e) => e \in AnalyzedDecls
      /\ KeepIncludes => \A e \in 1 .. kept : InKeptHeader(e) => e \in AnalyzedDecls
  BY UnitFacts DEF AInv, TraversingOnly, SweptAreAnalyzed, KeptAreAnalyzed
<1>1. CASE Find_Functions_Required
  <2>1. /\ phase = "closure" /\ phase' = "closure" /\ kept' = kept /\ VisitorNext
    BY <1>1 DEF Find_Functions_Required
  <2>2. CASE Compute_Closure_Of_Symbols
    <3>1. /\ unit' = unit /\ sweep' = sweep + 1 /\ sweep < Len(unit) /\ sweep + 1 \in Decls
          /\ sweep \in 0 .. Len(unit) /\ kept \in 0 .. Len(unit)
      BY <1>0, <2>2 DEF Compute_Closure_Of_Symbols, ClosureTypeOK
    <3>2. CASE unit[sweep'].parent = 0 /\ unit[sweep'].name \in Names
      <4>1. Enter(sweep + 1, stack) /\ WithoutCall(stack, sweep + 1)
        BY <1>0, <2>2, <3>1, <3>2 DEF Compute_Closure_Of_Symbols, WithoutCall
      <4>2. \A e \in 1 .. sweep' : Requested(e) => e \in AnalyzedDecls \cup {sweep + 1}
        BY <1>0, <3>1
      <4> QED BY <1>0, <2>1, <3>1, <4>1, <4>2, EnterA
    <3>3. CASE ~(unit[sweep'].parent = 0 /\ unit[sweep'].name \in Names)
      <4>1. stack' = stack /\ AnalyzedDecls' = AnalyzedDecls /\ Closure' = Closure /\ ~Requested(sweep + 1)
        BY <2>2, <3>1, <3>3 DEF Compute_Closure_Of_Symbols, Requested
      <4>2. \A e \in 1 .. sweep' : Requested(e) => e \in AnalyzedDecls
        BY <1>0, <3>1, <4>1
      <4>3. ClosureTypeOK'
        BY <1>0, <2>1, <3>1, <4>1 DEF ClosureTypeOK, Later
      <4>4. MarkedSoFar' = MarkedSoFar
        BY <2>1, <4>1 DEF MarkedSoFar, Later
      <4> QED BY <1>0, <2>1, <3>1, <4>1, <4>2, <4>3, <4>4, SameTraversal, SameA
    <3> QED BY <3>2, <3>3
  <2>3. CASE TraverseDecl \/ Return
    BY <2>1, <2>3, TraverseA
  <2> QED BY <2>1, <2>2, <2>3 DEF VisitorNext
<1>2. CASE ClosureIsComputed
  <2>1. /\ phase = "closure" /\ phase' = "includes" /\ stack = <<>> /\ sweep = Len(unit)
        /\ unit' = unit /\ sweep' = sweep /\ stack' = stack /\ AnalyzedDecls' = AnalyzedDecls
        /\ Closure' = Closure /\ kept' = kept
    BY <1>2 DEF ClosureIsComputed, Visited, visitorVars
  <2>2. ClosureTypeOK'
    BY <1>0, <2>1 DEF ClosureTypeOK, Later
  <2>3. MarkedSoFar' = MarkedSoFar
    BY <2>1 DEF MarkedSoFar, Later
  <2> QED BY <1>0, <2>1, <2>2, <2>3, SameTraversal, SameA
<1>3. CASE Insert_Decls_From_Non_Expanded_Includes
  <2>1. phase = "includes" /\ phase' = "includes" /\ KeepIncludes
    BY <1>3 DEF Insert_Decls_From_Non_Expanded_Includes
  <2>2. CASE /\ stack = <<>> /\ kept < Len(unit) /\ kept' = kept + 1
             /\ IF InKeptHeader(kept')
                THEN Enter(kept', stack)
                ELSE UNCHANGED <<stack, AnalyzedDecls, Closure>>
             /\ UNCHANGED <<unit, sweep>>
    <3>1. kept + 1 \in Decls /\ sweep' = sweep /\ unit' = unit /\ sweep \in 0 .. Len(unit)
      BY <1>0, <2>2 DEF ClosureTypeOK
    <3>2. kept' \in 0 .. Len(unit) /\ kept \in 0 .. Len(unit) /\ sweep = Len(unit)
      BY <1>0, <2>1, <2>2 DEF ClosureTypeOK
    <3>3. CASE InKeptHeader(kept')
      <4>1. Enter(kept + 1, stack) /\ WithoutCall(stack, kept + 1)
        BY <1>0, <2>2, <3>3 DEF WithoutCall
      <4>2. \A e \in 1 .. kept' : InKeptHeader(e) => e \in AnalyzedDecls \cup {kept + 1}
        BY <1>0, <2>1, <2>2, <3>2
      <4> QED BY <1>0, <2>1, <3>1, <3>2, <4>1, <4>2, EnterA
    <3>4. CASE ~InKeptHeader(kept')
      <4>1. stack' = stack /\ AnalyzedDecls' = AnalyzedDecls /\ Closure' = Closure
        BY <2>2, <3>4
      <4>2. \A e \in 1 .. kept' : InKeptHeader(e) => e \in AnalyzedDecls
        BY <1>0, <2>1, <2>2, <3>2, <3>4
      <4>3. ClosureTypeOK'
        BY <1>0, <2>1, <3>1, <3>2, <4>1 DEF ClosureTypeOK, Later
      <4>4. MarkedSoFar' = MarkedSoFar
        BY <2>1, <4>1 DEF MarkedSoFar, Later
      <4> QED BY <1>0, <2>1, <3>1, <4>1, <4>2, <4>3, <4>4, SameTraversal, SameA
    <3> QED BY <3>3, <3>4
  <2>3. CASE (TraverseDecl \/ Return) /\ UNCHANGED kept
    BY <2>1, <2>3, TraverseA
  <2> QED BY <1>3, <2>2, <2>3 DEF Insert_Decls_From_Non_Expanded_Includes
<1>4. CASE IncludesAreInserted
  <2>1. /\ phase = "includes" /\ phase' = "redundant" /\ computed' = Closure /\ kept' = kept
        /\ KeepIncludes => stack = <<>> /\ kept = Len(unit)
        /\ unit' = unit /\ sweep' = sweep /\ stack' = stack /\ AnalyzedDecls' = AnalyzedDecls
    BY <1>4 DEF IncludesAreInserted, visitorVars
  <2>2. ClosureTypeOK'
    BY <1>0, <2>1 DEF ClosureTypeOK, Later
  <2>3. MarkedSoFar' = MarkedSoFar
    BY <2>1 DEF MarkedSoFar, Later
  <2> QED BY <1>0, <2>1, <2>2, <2>3, SameTraversal, SameA
<1>5. CASE RemoveRepeated \/ FirstLoopEnds \/ RemoveContained \/ Analyze_Includes \/ UNCHANGED vars
  <2>1. /\ unit' = unit /\ sweep' = sweep /\ stack' = stack /\ AnalyzedDecls' = AnalyzedDecls
        /\ kept' = kept /\ computed' = computed
        /\ \/ phase \in Later /\ phase' \in Later
           \/ phase' = phase /\ Closure' = Closure
    BY <1>5 DEF RemoveRepeated, FirstLoopEnds, RemoveContained, Analyze_Includes, vars, visitorVars, Later
  <2>2. ClosureTypeOK'
    BY <1>0, <2>1 DEF ClosureTypeOK, Later
  <2>3. MarkedSoFar' = MarkedSoFar
    BY <2>1 DEF MarkedSoFar
  <2> QED BY <1>0, <2>1, <2>2, <2>3, SameTraversal, SameA
<1> QED BY <1>1, <1>2, <1>3, <1>4, <1>5 DEF Next

(* Whatever Find_Functions_Required and                                    *)
(* Insert_Decls_From_Non_Expanded_Includes have analyzed so far, the calls *)
(* to come are for all that it refers to, and what was marked is what the  *)
(* analyzed declarations mark.                                             *)
THEOREM ClosureInvariant == Spec => []AInv
<1> QED BY InitA, NextA, PTL DEF Spec

-----------------------------------------------------------------------------
(* Declarations that are nested.                                           *)

\* A non-empty set of numbers has a least one.
LEMMA LeastOne ==
    ASSUME NEW S \in SUBSET Nat, S # {}
    PROVE  \E x \in S : \A y \in S : x <= y
<1> DEFINE Less == OpToRel(<, Nat)
<1>1. \A x, y \in Nat : y < x => <<y, x>> \in Less
  BY DEF OpToRel
<1>2. IsWellFoundedOn(Less, Nat)
  BY NatLessThanWellFounded
<1> HIDE DEF Less
<1>3. PICK x \in S : \A y \in S : ~ (<<y, x>> \in Less)
  BY <1>2, WFMin
<1>4. ASSUME NEW y \in S PROVE x <= y
  <2>1. x \in Nat /\ y \in Nat /\ ~(y < x)
    BY <1>1, <1>3
  <2> QED BY <2>1
<1> QED BY <1>4

\* The types of what a unit has.
LEMMA UnitIs ==
    ASSUME unit \in Units
    PROVE  /\ Len(unit) \in Nat /\ Decls = 1 .. Len(unit) /\ TopLevel \subseteq Decls
           /\ \A d \in Decls : /\ d \in Nat /\ d > 0
                               /\ unit[d].begin \in Nat /\ unit[d].end \in Nat
                               /\ unit[d].parent # 0 => unit[d].parent \in Decls
                               /\ unit[d].uses \subseteq Decls
                               /\ unit[d].kind \in Kinds
<1>1. Len(unit) \in Nat /\ Decls = DeclsOf(unit) /\ Decls = 1 .. Len(unit) /\ TopLevel \subseteq Decls
  BY UnitFacts DEF TopLevel, Decls
<1>2. ASSUME NEW d \in Decls
      PROVE  /\ d \in Nat /\ d > 0 /\ unit[d].begin \in Nat /\ unit[d].end \in Nat
             /\ unit[d].parent # 0 => unit[d].parent \in Decls
             /\ unit[d].kind \in Kinds
             /\ unit[d].uses \subseteq Decls
  <2>1. unit[d] \in DeclType(Len(unit))
    BY <1>1, UnitsAssumption
  <2>2. unit[d].begin \in Nat /\ unit[d].end \in Nat /\ unit[d].parent \in 0 .. Len(unit) /\ unit[d].kind \in Kinds
    BY <2>1 DEF DeclType
  <2> QED BY <1>1, <2>2, UnitFacts
<1> QED BY <1>1, <1>2

\* Ranges.
LEMMA WithinOrder ==
    ASSUME unit \in Units
    PROVE  /\ \A a \in Decls : Contains_From_LineCol(a, a)
           /\ \A a, b, c \in Decls : Contains_From_LineCol(a, b) /\ Contains_From_LineCol(b, c)
                                         => Contains_From_LineCol(a, c)
BY UnitIs DEF Contains_From_LineCol, Within

\* A nested declaration and its record.
LEMMA NestedIs ==
    ASSUME unit \in Units, NEW d \in Decls, unit[d].parent # 0
    PROVE  LET p == unit[d].parent
           IN /\ p \in Decls /\ p < d /\ \A s \in TopLevel : s <= d => s <= p
              /\ unit[d].kind = "tag" /\ unit[p].kind = "tag" /\ unit[p].def
              /\ Contains_From_LineCol(p, d) /\ unit[p].file = unit[d].file
<1> DEFINE p == unit[d].parent
<1>1. p \in Decls
  BY UnitIs
<1>2. /\ p < d /\ \A s \in p + 1 .. d : unit[s].parent # 0
      /\ unit[d].kind = "tag" /\ unit[p].kind = "tag" /\ unit[p].def
      /\ Within(unit, p, d) /\ unit[p].file = unit[d].file
  BY NestingAssumption DEF Decls
<1>3. ASSUME NEW s \in TopLevel, s <= d PROVE s <= p
  <2>1. s \in Nat /\ p \in Nat /\ d \in Nat /\ unit[s].parent = 0
    BY <1>1, UnitIs DEF TopLevel
  <2> HIDE DEF p
  <2> QED BY <1>2, <1>3, <2>1
<1> QED BY <1>1, <1>2, <1>3 DEF Contains_From_LineCol

\* What top-level declarations have and records hand down all declarations have.
LEMMA NestingInduction ==
    ASSUME unit \in Units, NEW P,
           \A d \in TopLevel : d \in P,
           \A d \in Decls : unit[d].parent # 0 /\ unit[d].parent \in P => d \in P
    PROVE  Decls \subseteq P
<1> DEFINE Bad == Decls \ P
<1>1. SUFFICES ASSUME Bad # {} PROVE FALSE
  OBVIOUS
<1>2. Bad \in SUBSET Nat
  BY UnitIs
<1>3. PICK d \in Bad : \A e \in Bad : d <= e
  <2> HIDE DEF Bad
  <2> QED BY <1>1, <1>2, LeastOne
<1>4. d \in Decls /\ unit[d].parent # 0
  BY <1>3 DEF TopLevel
<1>5. unit[d].parent \in Decls /\ unit[d].parent < d /\ unit[d].parent \notin P
  BY <1>3, <1>4, NestedIs
<1> QED BY <1>3, <1>5, UnitIs

\* r is the last top-level declaration up to d.
IsRecord(r, d) == r \in TopLevel /\ r <= d /\ \A s \in TopLevel : s <= d => s <= r

\* A top-level declaration is its own record.
LEMMA RecordOfTop ==
    ASSUME unit \in Units, NEW d \in TopLevel PROVE IsRecord(d, d)
BY UnitIs DEF IsRecord

\* A nested declaration has the record of the one it is nested in.
LEMMA RecordOfNested ==
    ASSUME unit \in Units, NEW d \in Decls, unit[d].parent # 0, NEW r, IsRecord(r, unit[d].parent)
    PROVE  IsRecord(r, d)
<1>1. unit[d].parent \in Decls /\ unit[d].parent < d /\ \A s \in TopLevel : s <= d => s <= unit[d].parent
  BY NestedIs
<1>2. r \in TopLevel /\ r <= unit[d].parent /\ \A s \in TopLevel : s <= unit[d].parent => s <= r
  BY DEF IsRecord
<1>3. r \in Nat /\ unit[d].parent \in Nat /\ d \in Nat /\ r <= d
  BY <1>1, <1>2, UnitIs
<1> QED BY <1>1, <1>2, <1>3 DEF IsRecord

\* Every declaration has a record, ...
LEMMA RecordExists ==
    ASSUME unit \in Units, NEW d \in Decls PROVE IsRecord(Record(d), d)
<1> DEFINE P == {e \in Decls : \E r : IsRecord(r, e)}
<1>1. \A e \in TopLevel : e \in P
  BY RecordOfTop, UnitIs
<1>2. \A e \in Decls : unit[e].parent # 0 /\ unit[e].parent \in P => e \in P
  BY RecordOfNested
<1> HIDE DEF P
<1>3. d \in P
  BY <1>1, <1>2, NestingInduction
<1>4. PICK r : IsRecord(r, d)
  BY <1>3 DEF P
<1> QED BY <1>4, UnitIs DEF IsRecord, Record, Max

\* ... and only one.
LEMMA RecordIs ==
    ASSUME unit \in Units, NEW d \in Decls, NEW r, IsRecord(r, d)
    PROVE  Record(d) = r
<1>1. IsRecord(Record(d), d)
  BY RecordExists
<1> QED BY <1>1, UnitIs DEF IsRecord

\* The record of d: d itself, or a tag with a body, which has d in it.
LEMMA RecordFacts ==
    ASSUME unit \in Units
    PROVE  /\ \A d \in TopLevel : Record(d) = d
           /\ \A d \in Decls : unit[d].parent # 0 => Record(d) = Record(unit[d].parent)
           /\ \A d \in Decls : /\ Record(d) \in TopLevel
                               /\ Contains_From_LineCol(Record(d), d)
                               /\ unit[Record(d)].file = unit[d].file
                               /\ Record(d) # d => /\ unit[d].kind = "tag"
                                                   /\ unit[Record(d)].kind = "tag" /\ unit[Record(d)].def
<1>1. \A d \in TopLevel : Record(d) = d
  BY RecordOfTop, RecordIs, UnitIs
<1>2. \A d \in Decls : unit[d].parent # 0 => Record(d) = Record(unit[d].parent)
  BY RecordExists, RecordOfNested, RecordIs, NestedIs
<1> DEFINE P == {d \in Decls : /\ Record(d) \in TopLevel
                               /\ Contains_From_LineCol(Record(d), d)
                               /\ unit[Record(d)].file = unit[d].file
                               /\ Record(d) # d => /\ unit[d].kind = "tag"
                                                   /\ unit[Record(d)].kind = "tag" /\ unit[Record(d)].def}
<1>3. \A d \in TopLevel : d \in P
  BY <1>1, UnitIs, WithinOrder
<1>4. \A d \in Decls : unit[d].parent # 0 /\ unit[d].parent \in P => d \in P
  <2> SUFFICES ASSUME NEW d \in Decls, unit[d].parent # 0, unit[d].parent \in P PROVE d \in P
    OBVIOUS
  <2> DEFINE p == unit[d].parent
  <2>1. /\ p \in Decls /\ unit[d].kind = "tag" /\ unit[p].kind = "tag" /\ unit[p].def
        /\ Contains_From_LineCol(p, d) /\ unit[p].file = unit[d].file
    BY NestedIs
  <2>2. Record(d) = Record(p)
    BY <1>2
  <2>3. Contains_From_LineCol(Record(p), d)
    BY <2>1, WithinOrder, UnitIs
  <2> QED BY <2>1, <2>2, <2>3
<1> HIDE DEF P
<1>5. Decls \subseteq P
  BY <1>3, <1>4, NestingInduction
<1> QED BY <1>1, <1>2, <1>5 DEF P

\* A closed set has a record if it has what is nested in it, and the other way round.
LEMMA ClosedUnderNesting ==
    ASSUME unit \in Units, NEW S \in SUBSET Decls, \A d \in S : Refs(d) \subseteq S, NEW d \in Decls
    PROVE  d \in S <=> Record(d) \in S
<1> DEFINE P == {e \in Decls : e \in S <=> Record(e) \in S}
<1>1. \A e \in TopLevel : e \in P
  BY RecordFacts, UnitIs
<1>2. \A e \in Decls : unit[e].parent # 0 /\ unit[e].parent \in P => e \in P
  <2> SUFFICES ASSUME NEW e \in Decls, unit[e].parent # 0, unit[e].parent \in P PROVE e \in P
    OBVIOUS
  <2> DEFINE p == unit[e].parent
  <2>1. Record(e) = Record(p)
    BY RecordFacts
  <2>2. p \in S => e \in S
    BY DEF Refs, Calls, Members
  <2>3. e \in S => p \in S
    <3>1. unit[e].kind = "tag"
      BY NestedIs
    <3>2. TypedefForAnon(e) = {}
      <4>1. \A t \in Decls : unit[e].name = "" => ~NamesTag(t, e)
        BY <3>1, UsesAssumption DEF NamesTag, Decls
      <4> QED BY <4>1 DEF TypedefForAnon
    <3>3. p \in TagCalls(e, 0)
      BY <3>2 DEF TagCalls, ParentToo
    <3> QED BY <3>1, <3>3 DEF Refs, Calls
  <2> QED BY <2>1, <2>2, <2>3
<1> HIDE DEF P
<1>3. d \in P
  BY <1>1, <1>2, NestingInduction
<1> QED BY <1>3 DEF P

-----------------------------------------------------------------------------
(* Which bodies are required.                                              *)

\* What is read of the unit here stays as it is.
LEMMA SameRequirements ==
    ASSUME unit' = unit
    PROVE  /\ Decls' = Decls
           /\ \A a : Completes(a)' = Completes(a)
           /\ \A r : OnlyThroughNested(r)' <=> OnlyThroughNested(r)
<1>1. Decls' = Decls /\ \A d, from : Calls(d, from)' = Calls(d, from)
  BY SameUnit
<1>2. \A a : Completes(a)' = Completes(a)
  BY SameUnit DEF Completes
<1>3. \A r : InKeptHeader(r)' <=> InKeptHeader(r)
  BY <1>1 DEF InKeptHeader, TopLevel
<1>4. \A r : OnlyThroughNested(r)' <=> OnlyThroughNested(r)
  BY <1>1, <1>3 DEF OnlyThroughNested
<1> QED BY <1>1, <1>2, <1>4

\* A call for r was made or is to come.
Met(r) == r \in AnalyzedDecls \/ \E i \in 1 .. Len(stack) : r \in stack[i].todo

\* The bodies that clang asks for are required, those that an analyzed declaration
\* completes, and those of the records that are met from what is nested in them alone.
RInv == /\ \A x \in Decls : unit[x].required => x \in Required
        /\ \A a \in AnalyzedDecls : Completes(a) \subseteq Required
        /\ \A r \in Decls : OnlyThroughNested(r) /\ Met(r) => r \in Required

LEMMA InitR == Init => RInv
BY DEF Init, VisitorInit, RInv, Met

\* A step that makes no call.
LEMMA SameR ==
    ASSUME RInv, unit' = unit, AnalyzedDecls' = AnalyzedDecls, Required' = Required,
           \A r \in Decls : Met(r)' => Met(r)
    PROVE  RInv'
BY SameRequirements DEF RInv

\* The call for d.
LEMMA EnterR ==
    ASSUME RInv, Traversing, unit' = unit,
           NEW d \in Decls, NEW s, WithoutCall(s, d), Enter(d, s),
           OnlyThroughNested(d) => d \in Required
    PROVE  RInv'
<1>0. /\ unit \in Units /\ stack \in Seq(Frames) /\ StackIsAnalyzed
      /\ Len(s) = Len(stack) /\ \A i \in 1 .. Len(s) : s[i].todo \subseteq stack[i].todo
  BY DEF Traversing, TraversingOnly, WithoutCall
<1>1. AnalyzedDecls' = AnalyzedDecls \cup {d} /\ NoOtherCalls(s, d)
  BY EnterFollows
<1>2. CASE d \in AnalyzedDecls
  <2>1. stack' = s /\ AnalyzedDecls' = AnalyzedDecls /\ Required' = Required
    BY <1>2 DEF Enter
  <2>2. \A r \in Decls : Met(r)' => Met(r)
    BY <1>0, <2>1 DEF Met
  <2> QED BY <2>1, <2>2, SameR
<1>3. CASE d \notin AnalyzedDecls
  <2>1. Required' = Required \cup Requires(d, Caller)
    BY <1>3 DEF Enter
  <2>2. Completes(d) \subseteq Requires(d, Caller)
    BY DEF Requires
  <2>3. ASSUME NEW r \in Decls, OnlyThroughNested(r), r \in Calls(d, Caller)
        PROVE  r \in Required'
    <3>1. r \in Calls(d, 0)
      BY <2>3, CallsAndRefs DEF Refs
    <3>2. unit[d].parent = r
      BY <2>3, <3>1 DEF OnlyThroughNested
    <3>3. unit[d].parent # 0
      BY <1>0, <3>2, UnitIs
    <3>4. CASE Caller = r
      <4>1. stack # <<>>
        BY <1>0, <3>4, UnitIs DEF Caller
      <4>2. Len(stack) \in 1 .. Len(stack)
        BY <1>0, <4>1
      <4>3. r \in AnalyzedDecls
        BY <1>0, <3>4, <4>1, <4>2 DEF Caller, StackIsAnalyzed
      <4> QED BY <2>1, <2>3, <4>3 DEF RInv, Met
    <3>5. CASE Caller # r
      <4>1. unit[d].kind = "tag"
        BY <1>0, <3>3, NestedIs
      <4>2. TypedefForAnon(d) = {}
        <5>1. \A t \in Decls : unit[d].name = "" => ~NamesTag(t, d)
          BY <1>0, <3>3, <4>1, UsesAssumption DEF NamesTag, Decls
        <5> QED BY <5>1 DEF TypedefForAnon
      <4>3. r \in ParentToo(d, Caller)
        BY <3>2, <3>3, <3>5 DEF ParentToo
      <4> QED BY <2>1, <4>1, <4>2, <4>3 DEF Requires
    <3> QED BY <3>4, <3>5
  <2>4. ASSUME NEW r \in Decls, OnlyThroughNested(r), Met(r)'
        PROVE  r \in Required'
    <3>1. CASE r \in AnalyzedDecls
      BY <2>1, <2>4, <3>1 DEF RInv, Met
    <3>2. CASE r = d
      BY <2>1, <2>4, <3>2
    <3>3. CASE r \notin AnalyzedDecls /\ r # d
      <4>1. PICK i \in 1 .. Len(stack') : r \in stack'[i].todo
        BY <1>1, <2>4, <3>3 DEF Met
      <4>2. CASE i \in 1 .. Len(s) /\ stack'[i] = s[i]
        <5>1. i \in 1 .. Len(stack) /\ r \in stack[i].todo
          BY <1>0, <4>1, <4>2
        <5> QED BY <2>1, <2>4, <5>1 DEF RInv, Met
      <4>3. CASE stack'[i].todo = Calls(d, Caller)
        BY <2>3, <2>4, <4>1, <4>3
      <4> QED BY <1>1, <4>1, <4>2, <4>3 DEF NoOtherCalls
    <3> QED BY <3>1, <3>2, <3>3
  <2> QED BY <1>1, <2>1, <2>2, <2>4, SameRequirements DEF RInv
<1> QED BY <1>2, <1>3

\* A call that a traversal makes, or its return.
LEMMA TraverseR ==
    ASSUME RInv, Traversing, TraverseDecl \/ Return
    PROVE  RInv'
<1>1. CASE TraverseDecl
  <2>1. unit' = unit /\ stack \in Seq(Frames)
    BY <1>1 DEF TraverseDecl, Traversing, TraversingOnly
  <2>2. PICK d \in Decls, s \in Seq(Frames) :
            WithoutCall(s, d) /\ Enter(d, s) /\ \E i \in 1 .. Len(stack) : d \in stack[i].todo
    BY <1>1, <2>1, CallIsMade
  <2>3. OnlyThroughNested(d) => d \in Required
    BY <2>2 DEF RInv, Met
  <2> QED BY <2>1, <2>2, <2>3, EnterR
<1>2. CASE Return
  <2>1. /\ unit' = unit /\ AnalyzedDecls' = AnalyzedDecls /\ Required' = Required
        /\ \A i \in 1 .. Len(stack') : i \in 1 .. Len(stack) /\ stack'[i] = stack[i]
    BY <1>2, ReturnFollows DEF Return
  <2>2. \A r \in Decls : Met(r)' => Met(r)
    BY <2>1 DEF Met
  <2> QED BY <2>1, <2>2, SameR
<1> QED BY <1>1, <1>2

LEMMA NextR == AInv /\ RInv /\ [Next]_vars => RInv'
<1> SUFFICES ASSUME AInv, RInv, [Next]_vars PROVE RInv'
  OBVIOUS
<1>0. /\ unit \in Units /\ stack \in Seq(Frames) /\ Len(unit) \in Nat /\ Decls = 1 .. Len(unit)
      /\ TraversingOnly /\ sweep \in 0 .. Len(unit) /\ kept \in 0 .. Len(unit)
      /\ phase \in {"closure", "includes"} => Traversing
  BY UnitFacts DEF AInv, TraversingOnly, ClosureTypeOK, Traversing, MarksOfAnalyzed, MarkedSoFar, Later
<1>1. ASSUME UNCHANGED <<unit, stack, AnalyzedDecls, Required>> PROVE RInv'
  <2>1. \A r \in Decls : Met(r)' => Met(r)
    BY <1>1 DEF Met
  <2> QED BY <1>1, <2>1, SameR
<1>2. ASSUME unit' = unit, phase \in {"closure", "includes"}, NEW d \in Decls, Enter(d, stack), ~OnlyThroughNested(d)
      PROVE  RInv'
  <2>1. WithoutCall(stack, d)
    BY <1>0 DEF WithoutCall
  <2> QED BY <1>0, <1>2, <2>1, EnterR
<1>3. CASE Find_Functions_Required
  <2>1. phase = "closure" /\ VisitorNext
    BY <1>3 DEF Find_Functions_Required
  <2>2. CASE Compute_Closure_Of_Symbols
    <3>1. unit' = unit /\ sweep + 1 \in Decls /\ sweep' = sweep + 1
      BY <1>0, <2>2 DEF Compute_Closure_Of_Symbols
    <3>2. CASE unit[sweep'].parent = 0 /\ unit[sweep'].name \in Names
      <4>1. Enter(sweep + 1, stack) /\ ~OnlyThroughNested(sweep + 1)
        BY <2>2, <3>1, <3>2 DEF Compute_Closure_Of_Symbols, OnlyThroughNested
      <4> QED BY <1>2, <2>1, <3>1, <4>1
    <3>3. CASE ~(unit[sweep'].parent = 0 /\ unit[sweep'].name \in Names)
      BY <1>1, <2>2, <3>3 DEF Compute_Closure_Of_Symbols
    <3> QED BY <3>2, <3>3
  <2> QED BY <1>0, <2>1, <2>2, TraverseR DEF VisitorNext
<1>4. CASE Insert_Decls_From_Non_Expanded_Includes
  <2>1. phase = "includes"
    BY <1>4 DEF Insert_Decls_From_Non_Expanded_Includes
  <2>2. CASE /\ stack = <<>> /\ kept < Len(unit) /\ kept' = kept + 1
             /\ IF InKeptHeader(kept')
                THEN Enter(kept', stack)
                ELSE UNCHANGED <<stack, AnalyzedDecls, Closure, Required>>
             /\ UNCHANGED <<unit, sweep>>
    <3>1. unit' = unit /\ kept + 1 \in Decls
      BY <1>0, <2>2
    <3>2. CASE InKeptHeader(kept')
      <4>1. Enter(kept + 1, stack) /\ ~OnlyThroughNested(kept + 1)
        BY <2>2, <3>2 DEF OnlyThroughNested
      <4> QED BY <1>2, <2>1, <3>1, <4>1
    <3>3. CASE ~InKeptHeader(kept')
      BY <1>1, <2>2, <3>3
    <3> QED BY <3>2, <3>3
  <2>3. CASE (TraverseDecl \/ Return) /\ UNCHANGED kept
    BY <1>0, <2>1, <2>3, TraverseR
  <2> QED BY <1>4, <2>2, <2>3 DEF Insert_Decls_From_Non_Expanded_Includes
<1>5. CASE \/ ClosureIsComputed \/ IncludesAreInserted \/ RemoveRepeated \/ FirstLoopEnds
           \/ RemoveContained \/ Analyze_Includes \/ UNCHANGED vars
  <2>1. UNCHANGED <<unit, stack, AnalyzedDecls, Required>>
    BY <1>5 DEF ClosureIsComputed, IncludesAreInserted, RemoveRepeated, FirstLoopEnds, RemoveContained,
                Analyze_Includes, vars, visitorVars
  <2> QED BY <1>1, <2>1
<1> QED BY <1>3, <1>4, <1>5 DEF Next

(* The records that are met from what is nested in them alone keep their   *)
(* bodies, and so do those that the visitor knows to be needed.            *)
THEOREM RequiredInvariant == Spec => []RInv
<1> QED BY InitR, NextR, ClosureInvariant, PTL DEF Spec

-----------------------------------------------------------------------------
(* What the loops that remove declarations leave.                          *)

\* e stands for c: it is c, or an earlier declaration that says the same.
Stands(e, c) == e = c \/ (e \in Prevs(c) /\ Is_Decl_Equivalent_To(c, e))

\* What the declarations of C have in their place.
Carries(C, e) == \E p \in C \cap TopLevel : e \in Spans(p)

\* While the first loop runs a tag is in a text that is printed, and what is not a
\* tag is marked.
Alive(C, e) == IF unit[e].kind = "tag" THEN Carries(C, e) ELSE e \in C

\* What the declarations that are printed have in their place.
Spanned == Included \cup UNION {Spans(p) : p \in Printed}

\* What must not be lost.
Wanted == computed \cup {t \in AnalyzedDecls : unit[t].kind = "tag"}

\* Declarations of one entity agree; of a tag or a static function one has a body.
LEMMA EntityFacts ==
    ASSUME unit \in Units, NEW a \in Decls, NEW b \in Decls, SameEntity(a, b)
    PROVE  /\ unit[a].kind = unit[b].kind /\ unit[a].static = unit[b].static
           /\ unit[a].name = unit[b].name /\ unit[b].name # ""
           /\ unit[a].def /\ unit[b].def /\ (unit[b].kind = "tag" \/ unit[b].static) => a = b
<1>1. OneEntity(unit, a, b)
  BY DEF SameEntity
<1>2. a \in DeclsOf(unit) /\ b \in DeclsOf(unit)
  BY DEF Decls
<1>3. /\ unit[a].kind = unit[b].kind /\ unit[a].static = unit[b].static
      /\ unit[a].def /\ unit[b].def /\ (unit[b].kind = "tag" \/ unit[b].static) => a = b
  BY <1>1, <1>2, EntityAssumption
<1> QED BY <1>1, <1>3 DEF OneEntity

\* What stands for b declares the same and is not later.
LEMMA StandsIs ==
    ASSUME unit \in Units, NEW a, NEW b \in Decls, Stands(a, b)
    PROVE  a \in Decls /\ a <= b /\ (a = b \/ SameEntity(a, b)) /\ Is_Decl_Equivalent_To(b, a)
BY UnitIs DEF Stands, Prevs, Is_Decl_Equivalent_To

\* What stands for what stands for c stands for c.
LEMMA StandsTransitive ==
    ASSUME unit \in Units, NEW a, NEW b, NEW c \in Decls, Stands(a, b), Stands(b, c)
    PROVE  Stands(a, c)
<1>1. /\ b \in Decls /\ b <= c /\ (b = c \/ SameEntity(b, c)) /\ Is_Decl_Equivalent_To(c, b)
  BY StandsIs
<1>2. /\ a \in Decls /\ a <= b /\ (a = b \/ SameEntity(a, b)) /\ Is_Decl_Equivalent_To(b, a)
  BY <1>1, StandsIs
<1>3. CASE a = b \/ b = c
  BY <1>3
<1>4. CASE a # b /\ b # c
  <2>1. SameEntity(a, c)
    BY <1>1, <1>2, <1>4 DEF SameEntity, OneEntity
  <2>2. Is_Decl_Equivalent_To(c, a)
    BY <1>1, <1>2 DEF Is_Decl_Equivalent_To
  <2>3. a \in Nat /\ b \in Nat /\ c \in Nat
    BY <1>1, <1>2, UnitIs
  <2>4. a < c
    BY <1>1, <1>2, <1>4, <2>3
  <2> QED BY <1>2, <2>1, <2>2, <2>4 DEF Stands, Prevs
<1> QED BY <1>3, <1>4

\* A declaration that repeats an earlier one is no definition of a tag.
LEMMA TagsRepeatNoBody ==
    ASSUME unit \in Units, NEW d \in Decls, unit[d].kind = "tag", unit[d].def,
           NEW e \in Prevs(d)
    PROVE  ~Is_Decl_Equivalent_To(d, e)
<1>1. e \in Decls /\ e < d /\ SameEntity(e, d)
  BY DEF Prevs
<1>2. e # d
  BY <1>1, UnitIs
<1> QED BY <1>1, <1>2, EntityFacts DEF Is_Decl_Equivalent_To

\* The typedef that names an anonymous tag.
LEMMA AnonymousIs ==
    ASSUME unit \in Units, NEW a \in Decls, NEW t \in TypedefForAnon(a)
    PROVE  /\ t \in TopLevel /\ a \in TopLevel /\ t # a
           /\ unit[a].kind = "tag" /\ unit[t].kind = "typedef"
           /\ unit[t].uses = {a} /\ TypedefForAnon(a) = {t}
           /\ Contains_From_LineCol(t, a) /\ unit[t].file = unit[a].file
<1>1. /\ unit[a].kind = "tag" /\ unit[a].name = "" /\ t \in Decls /\ NamesTag(t, a)
      /\ \A s \in Decls : NamesTag(s, a) => t <= s
      /\ TypedefForAnon(a) = {x \in Decls : NamesTag(x, a) /\ \A s \in Decls : NamesTag(s, a) => x <= s}
  BY DEF TypedefForAnon
<1>2. /\ unit[t].kind = "typedef" /\ unit[t].tag = a /\ unit[t].via = "direct" /\ a \in unit[t].uses
  BY <1>1 DEF NamesTag
<1>3. unit[a].parent = 0 /\ unit[t].uses = {a} /\ Within(unit, t, a) /\ unit[t].file = unit[a].file
  <2>1. a \in DeclsOf(unit) /\ t \in DeclsOf(unit)
    BY <1>1 DEF Decls
  <2>2. \A y \in DeclsOf(unit) :
              /\ unit[a].kind = "tag" /\ unit[a].name = ""
              /\ unit[y].kind = "typedef" /\ a \in unit[y].uses /\ unit[y].tag = a /\ unit[y].via = "direct"
              => unit[a].parent = 0 /\ unit[y].uses = {a} /\ Within(unit, y, a) /\ unit[y].file = unit[a].file
    BY <2>1, UsesAssumption
  <2> QED BY <1>1, <1>2, <2>1, <2>2
<1>4. t \in TopLevel
  BY <1>1, <1>2, NestedIs DEF TopLevel
<1>5. ASSUME NEW x \in TypedefForAnon(a) PROVE x = t
  <2>1. x \in Decls /\ NamesTag(x, a) /\ \A s \in Decls : NamesTag(s, a) => x <= s
    BY <1>1
  <2>2. t <= x /\ x <= t /\ t \in Nat /\ x \in Nat
    BY <1>1, <2>1, UnitIs
  <2> QED BY <2>2
<1> QED BY <1>1, <1>2, <1>3, <1>4, <1>5 DEF TopLevel, Contains_From_LineCol

\* The text of a declaration has all of a record or nothing.
LEMMA TextHasRecords ==
    ASSUME unit \in Units, NEW p \in TopLevel, unit[p].how = "text",
           NEW e \in Decls, Contains_From_LineCol(p, e), Record(e) # p
    PROVE  Contains_From_LineCol(p, Record(e))
<1> DEFINE r == Record(e)
<1>1. r \in TopLevel /\ p \in Decls /\ r \in Decls /\ Contains_From_LineCol(r, e)
  BY RecordFacts, UnitIs
<1>2. CASE r = e
  BY <1>2
<1>3. CASE r # e
  <2>1. unit[r].kind = "tag"
    BY <1>3, RecordFacts
  <2>2. unit[r].parent = 0 /\ unit[p].parent = 0
    BY <1>1 DEF TopLevel
  <2>3. ~Within(unit, r, p)
    BY <1>1, <2>1, <2>2, TextAssumption DEF Decls
  <2>4. /\ unit[e].begin \in Nat /\ unit[e].end \in Nat /\ unit[e].begin <= unit[e].end
        /\ unit[r].begin \in Nat /\ unit[r].end \in Nat /\ unit[p].begin \in Nat /\ unit[p].end \in Nat
        /\ p \in Nat /\ r \in Nat
    BY <1>1, UnitIs, OrderAssumption DEF Decls
  <2>5. r < p => unit[r].end < unit[p].begin \/ Within(unit, p, r)
    BY <1>1, <2>2, OrderAssumption DEF Decls
  <2>6. p < r => unit[p].end < unit[r].begin \/ Within(unit, r, p)
    BY <1>1, <2>2, OrderAssumption DEF Decls
  <2>7. /\ unit[p].begin <= unit[e].begin /\ unit[e].end <= unit[p].end
        /\ unit[r].begin <= unit[e].begin /\ unit[e].end <= unit[r].end
    BY <1>1 DEF Contains_From_LineCol, Within
  <2>8. ~(unit[r].end < unit[p].begin) /\ ~(unit[p].end < unit[r].begin)
    BY <2>4, <2>7
  <2>9. r < p \/ p < r
    BY <2>4
  <2> QED BY <2>3, <2>5, <2>6, <2>8, <2>9 DEF Contains_From_LineCol
<1> QED BY <1>2, <1>3

\* In the place of p are p and what is nested in it, and nothing of another file or
\* outside its range.
LEMMA SpansIs ==
    ASSUME unit \in Units, NEW p \in TopLevel
    PROVE  /\ p \in Spans(p)
           /\ \A e \in Decls : Record(e) = p => e \in Spans(p)
           /\ \A e \in Spans(p) : /\ e \in Decls /\ Contains_From_LineCol(p, e)
                                     /\ unit[e].file = unit[p].file
<1>0. p \in Decls
  BY UnitIs
<1>1. ASSUME NEW e \in Decls, Record(e) = p PROVE e \in Spans(p)
  BY <1>1, RecordFacts DEF Spans
<1>2. p \in Spans(p)
  BY <1>0, <1>1, RecordFacts
<1>3. ASSUME NEW e \in Spans(p)
      PROVE  e \in Decls /\ Contains_From_LineCol(p, e) /\ unit[e].file = unit[p].file
  <2>0. e \in Decls
    BY DEF Spans
  <2> DEFINE r == Record(e)
  <2>1. r \in TopLevel /\ r \in Decls /\ Contains_From_LineCol(r, e) /\ unit[r].file = unit[e].file
    BY <2>0, RecordFacts, UnitIs
  <2>2. CASE r = p
    BY <2>0, <2>1, <2>2
  <2>3. CASE r # p /\ PrintedFromSource(p)
    <3>1. Contains_From_LineCol(p, e) /\ unit[p].how = "text"
      BY <2>3 DEF Spans, PrintedFromSource
    <3>2. Contains_From_LineCol(p, r)
      BY <2>0, <2>3, <3>1, TextHasRecords
    <3>3. unit[p].parent = 0 /\ unit[r].parent = 0 /\ Within(unit, p, r)
      BY <2>1, <3>2 DEF TopLevel, Contains_From_LineCol
    <3>4. unit[r].file = unit[p].file
      BY <1>0, <2>1, <2>3, <3>1, <3>3, TextAssumption DEF Decls
    <3> QED BY <2>0, <2>1, <3>1, <3>4
  <2>4. CASE r # p /\ ~PrintedFromSource(p)
    <3>1. TypedefForAnon(r) = {p}
      BY <2>4 DEF Spans
    <3>2. Contains_From_LineCol(p, r) /\ unit[p].file = unit[r].file
      BY <2>1, <3>1, AnonymousIs
    <3> QED BY <1>0, <2>0, <2>1, <3>2, WithinOrder
  <2> QED BY <2>2, <2>3, <2>4
<1> QED BY <1>1, <1>2, <1>3

\* Of an ordinary unit: what a declaration has in its text besides what is nested
\* in it.
LEMMA OrdinaryIs ==
    ASSUME unit \in Units, Ordinary, NEW d \in TopLevel, NEW t \in Decls, t # d,
           Record(t) # d, Contains_From_LineCol(d, t)
    PROVE  /\ HasText(d) => unit[d].how = "text"
           /\ unit[t].kind = "tag" => /\ unit[d].how = "text"
                                      /\ \A e \in Prevs(d) : ~Is_Decl_Equivalent_To(d, e)
<1>1. /\ unit[d].how # "unbalanced"
      /\ unit[t].kind = "tag" => /\ unit[d].how = "text"
                                 /\ ~ \E e \in Prevs(d) : Is_Decl_Equivalent_To(d, e)
  BY DEF Ordinary
<1>2. d \in DeclsOf(unit)
  BY UnitIs DEF Decls
<1>3. unit[d] \in DeclType(Len(unit))
  BY <1>2, UnitsAssumption
<1>4. unit[d].how \in {"text", "notext", "unbalanced"}
  BY <1>3 DEF DeclType
<1> QED BY <1>1, <1>4 DEF HasText

\* Something stands for each declaration that must not be lost.
Survivors(C) == \A c \in Wanted : \E e : Stands(e, c) /\ Alive(C, e)

\* What is meant by x declares the same.
LEMMA MeantAreDecls ==
    ASSUME unit \in Units, NEW x \in Decls
    PROVE  /\ Meant(x) \subseteq Decls
           /\ \A m \in Meant(x) : (m = x \/ SameEntity(m, x)) /\ unit[m].kind = unit[x].kind
<1>1. Meant(x) \subseteq Decls /\ \A m \in Meant(x) : m = x \/ SameEntity(m, x)
  BY DEF Meant, Definitions, Prevs
<1> QED BY <1>1, EntityFacts

\* The tag that a declarator is taken to repeat is in its text, which is printed.
LEMMA RepeatedTagIs ==
    ASSUME unit \in Units, Ordinary, NEW d \in Decls, NEW known, NEW t \in RepeatedTag(d, known)
    PROVE  /\ d \in TopLevel /\ unit[d].kind # "tag" /\ unit[d].how = "text"
           /\ t \in Decls /\ unit[t].kind = "tag" /\ Contains_From_LineCol(d, t)
           /\ \A e \in Prevs(d) : ~Is_Decl_Equivalent_To(d, e)
<1>1. /\ unit[d].kind \in {"typedef", "var", "func"} /\ unit[d].tag # 0
      /\ t \in Meant(unit[d].tag) /\ Contains_From_LineCol(d, t)
  BY DEF RepeatedTag
<1>2. d \in TopLevel
  BY <1>1, NestedIs DEF TopLevel
<1>3. unit[d].tag \in Decls /\ unit[unit[d].tag].kind = "tag"
  <2>1. d \in DeclsOf(unit)
    BY DEF Decls
  <2>2. unit[d] \in DeclType(Len(unit))
    BY <2>1, UnitsAssumption
  <2>3. unit[d].tag \in 0 .. Len(unit)
    BY <2>2 DEF DeclType
  <2>4. unit[unit[d].tag].kind = "tag"
    BY <1>1, <2>1, UsesAssumption
  <2> QED BY <1>1, <2>3, <2>4, UnitIs
<1>4. t \in Decls /\ unit[t].kind = "tag"
  BY <1>1, <1>3, MeantAreDecls
<1>5. t # d /\ Record(t) # d
  <2>1. t # d
    BY <1>1, <1>4
  <2>2. Record(t) = d => unit[d].kind = "tag"
    BY <1>4, <2>1, RecordFacts
  <2> QED BY <1>1, <2>1, <2>2
<1> QED BY <1>1, <1>2, <1>4, <1>5, OrdinaryIs

\* A declaration that repeats an earlier one has no tag in its text.
LEMMA RepeatingCarriesNothing ==
    ASSUME unit \in Units, Ordinary, NEW d \in TopLevel,
           NEW e0 \in Prevs(d), Is_Decl_Equivalent_To(d, e0),
           NEW e \in Spans(d), unit[e].kind = "tag"
    PROVE  e = d
<1> SUFFICES ASSUME e # d PROVE FALSE
  OBVIOUS
<1>1. e \in Decls /\ Contains_From_LineCol(d, e) /\ d \in Decls
  BY SpansIs, UnitIs
<1>2. CASE Record(e) = d
  <2>1. unit[d].kind = "tag" /\ unit[d].def
    BY <1>1, <1>2, RecordFacts
  <2> QED BY <1>1, <2>1, TagsRepeatNoBody
<1>3. CASE Record(e) # d
  BY <1>1, <1>3, OrdinaryIs
<1> QED BY <1>2, <1>3

\* One step of the first loop.
LEMMA FirstLoopKeeps ==
    ASSUME unit \in Units, Ordinary,
           Closure \subseteq computed, computed \subseteq Decls, AnalyzedDecls \subseteq Decls,
           Survivors(Closure),
           NEW d \in Closure, NEW known,
           NEW S, S = Closure \ RepeatedTag(d, known),
           NEW C, C = IF Repeated(d, S) THEN S \ {d} ELSE S
    PROVE  Survivors(C)
<1>0. d \in Decls /\ Wanted \subseteq Decls
  BY DEF Wanted
<1>1. CASE RepeatedTag(d, known) # {}
  <2>1. PICK t0 : t0 \in RepeatedTag(d, known)
    BY <1>1
  <2>2. /\ d \in TopLevel /\ unit[d].kind # "tag" /\ unit[d].how = "text"
        /\ \A e \in Prevs(d) : ~Is_Decl_Equivalent_To(d, e)
    BY <1>0, <2>1, RepeatedTagIs
  <2>3. C = S
    BY <2>2 DEF Repeated
  <2>4. \A t \in RepeatedTag(d, known) : unit[t].kind = "tag" /\ Contains_From_LineCol(d, t)
    BY <1>0, RepeatedTagIs
  <2>5. ASSUME NEW e, Alive(Closure, e) PROVE Alive(C, e)
    <3>1. CASE unit[e].kind # "tag"
      BY <2>3, <2>4, <2>5, <3>1 DEF Alive
    <3>2. CASE unit[e].kind = "tag"
      <4>1. PICK p \in Closure \cap TopLevel : e \in Spans(p)
        BY <2>5, <3>2 DEF Alive, Carries
      <4>2. CASE p \in RepeatedTag(d, known)
        <5>1. e \in Decls /\ Contains_From_LineCol(p, e) /\ Contains_From_LineCol(d, p) /\ p \in Decls
          BY <2>4, <4>1, <4>2, SpansIs, UnitIs
        <5>2. e \in Spans(d)
          BY <1>0, <2>2, <5>1, WithinOrder DEF Spans, PrintedFromSource
        <5>3. d \in C
          BY <2>2, <2>3, <2>4
        <5> QED BY <2>2, <3>2, <5>2, <5>3 DEF Alive, Carries
      <4>3. CASE p \notin RepeatedTag(d, known)
        BY <2>3, <3>2, <4>1, <4>3 DEF Alive, Carries
      <4> QED BY <4>2, <4>3
    <3> QED BY <3>1, <3>2
  <2> QED BY <2>5 DEF Survivors
<1>2. CASE RepeatedTag(d, known) = {} /\ ~Repeated(d, S)
  BY <1>2 DEF Survivors
<1>3. CASE RepeatedTag(d, known) = {} /\ Repeated(d, S)
  <2>1. S = Closure /\ C = Closure \ {d}
    BY <1>3
  <2>2. PICK e0 \in Prevs(d) : e0 \in Closure /\ Is_Decl_Equivalent_To(d, e0)
    BY <1>3, <2>1 DEF Repeated
  <2>3. ASSUME NEW e, Alive(Closure, e), e # d PROVE Alive(C, e)
    <3>1. CASE unit[e].kind # "tag"
      BY <2>1, <2>3, <3>1 DEF Alive
    <3>2. CASE unit[e].kind = "tag"
      <4>1. PICK p \in Closure \cap TopLevel : e \in Spans(p)
        BY <2>3, <3>2 DEF Alive, Carries
      <4>2. p # d
        BY <2>2, <2>3, <3>2, <4>1, RepeatingCarriesNothing
      <4> QED BY <2>1, <3>2, <4>1, <4>2 DEF Alive, Carries
    <3> QED BY <3>1, <3>2
  <2>4. ASSUME NEW c \in Wanted PROVE \E e : Stands(e, c) /\ Alive(C, e)
    <3>1. PICK e : Stands(e, c) /\ Alive(Closure, e)
      BY DEF Survivors
    <3>2. CASE e # d
      BY <2>3, <3>1, <3>2
    <3>3. CASE e = d
      <4>1. e0 \in Wanted /\ e0 < d /\ e0 \in Decls
        BY <2>2 DEF Wanted, Prevs
      <4>2. PICK e1 : Stands(e1, e0) /\ Alive(Closure, e1)
        BY <4>1 DEF Survivors
      <4>3. e1 \in Decls /\ e1 <= e0
        BY <4>1, <4>2, StandsIs
      <4>4. e1 # d
        <5>1. e1 \in Nat /\ e0 \in Nat /\ d \in Nat
          BY <1>0, <4>1, <4>3, UnitIs
        <5> QED BY <4>1, <4>3, <5>1
      <4>5. Stands(e0, d)
        BY <2>2 DEF Stands
      <4>6. Stands(e1, c)
        BY <1>0, <3>1, <3>3, <4>1, <4>2, <4>5, StandsTransitive
      <4> QED BY <2>3, <4>2, <4>4, <4>6
    <3> QED BY <3>2, <3>3
  <2> QED BY <2>4 DEF Survivors
<1> QED BY <1>1, <1>2, <1>3

\* A declaration whose text has the last marked one.
LEMMA SecondLoopKeeps ==
    ASSUME unit \in Units, Ordinary,
           NEW d \in TopLevel \cap Closure, prev \in TopLevel, prev # d, InTextOf(d),
           NEW e, Carries(Closure, e)
    PROVE  Carries(Closure \ {prev}, e)
<1>1. PICK p \in Closure \cap TopLevel : e \in Spans(p)
  BY DEF Carries
<1>2. CASE p # prev
  BY <1>1, <1>2 DEF Carries
<1>3. CASE p = prev
  <2>1. HasText(d) /\ Contains_From_LineCol(d, prev) /\ prev \in Decls /\ d \in Decls /\ Record(prev) = prev
    BY UnitIs, RecordFacts DEF InTextOf
  <2>2. unit[d].how = "text"
    BY <2>1, OrdinaryIs
  <2>3. e \in Decls /\ Contains_From_LineCol(prev, e)
    BY <1>1, <1>3, SpansIs
  <2>4. e \in Spans(d)
    BY <2>1, <2>2, <2>3, WithinOrder DEF Spans, PrintedFromSource
  <2> QED BY <2>4 DEF Carries
<1> QED BY <1>2, <1>3

\* What a closed set marks, it has, but for the typedefs of anonymous tags.
LEMMA MarksOfClosed ==
    ASSUME unit \in Units, NEW S \in SUBSET Decls, \A d \in S : Refs(d) \subseteq S,
           NEW a \in S, NEW c \in Marks(a)
    PROVE  c \in Decls /\ (c \in S \/ c \in TypedefForAnon(a))
<1>0. a \in Decls /\ unit[a].kind \in Kinds /\ Refs(a) \subseteq S
  BY UnitIs
<1>1. CASE unit[a].kind = "func"
  <2>1. c \in WithPrevs(ToMark(a)) /\ ~unit[a].builtin
    BY <1>1 DEF Marks
  <2>2. c = a \/ c \in FuncCalls(a)
    BY <2>1 DEF FuncCalls
  <2>3. c \in S
    BY <1>0, <1>1, <2>2 DEF Refs, Calls
  <2> QED BY <2>3
<1>2. CASE unit[a].kind = "tag" /\ TypedefForAnon(a) # {}
  BY <1>2 DEF Marks, TypedefForAnon
<1>3. CASE unit[a].kind = "tag" /\ TypedefForAnon(a) = {}
  <2>1. c = a \/ c \in Prevs(a)
    BY <1>3 DEF Marks, WithPrevs
  <2>2. Prevs(a) \subseteq Refs(a)
    BY <1>3 DEF Refs, Calls, TagCalls
  <2> QED BY <1>0, <2>1, <2>2
<1>4. CASE unit[a].kind \in {"var", "typedef"}
  BY <1>0, <1>4 DEF Marks
<1> QED BY <1>0, <1>1, <1>2, <1>3, <1>4 DEF Kinds

\* In the beginning all is there.
LEMMA AllSurviveAtFirst ==
    ASSUME unit \in Units, Ordinary, AnalyzedDecls \subseteq Decls,
           \A d \in AnalyzedDecls : Refs(d) \subseteq AnalyzedDecls,
           Closure = UNION {Marks(d) : d \in AnalyzedDecls}
    PROVE  \A c \in Closure \cup {t \in AnalyzedDecls : unit[t].kind = "tag"} :
               \E e : Stands(e, c) /\ Alive(Closure, e)
<1>1. ASSUME NEW c \in AnalyzedDecls, unit[c].kind = "tag" PROVE Carries(Closure, c)
  <2> DEFINE r == Record(c)
  <2>1. c \in Decls /\ r \in TopLevel /\ r \in Decls /\ r \in AnalyzedDecls /\ Contains_From_LineCol(r, c)
    BY RecordFacts, UnitIs, ClosedUnderNesting
  <2>2. unit[r].kind = "tag"
    BY <1>1, <2>1, RecordFacts
  <2>3. CASE TypedefForAnon(r) = {}
    <3>1. r \in Marks(r)
      BY <2>2, <2>3 DEF Marks, WithPrevs
    <3>2. c \in Spans(r)
      BY <2>1, SpansIs
    <3> QED BY <2>1, <3>1, <3>2 DEF Carries
  <2>4. CASE TypedefForAnon(r) # {}
    <3>1. PICK t : t \in TypedefForAnon(r)
      BY <2>4
    <3>2. t \in TopLevel /\ t # r /\ t \in Decls /\ Contains_From_LineCol(t, r)
      BY <2>1, <3>1, AnonymousIs, UnitIs
    <3>3. Record(r) = r
      BY <2>1, RecordFacts
    <3>4. unit[t].how = "text"
      BY <2>1, <2>2, <3>2, <3>3, OrdinaryIs
    <3>5. c \in Spans(t)
      BY <2>1, <3>2, <3>4, WithinOrder DEF Spans, PrintedFromSource
    <3>6. t \in Closure
      BY <2>1, <2>2, <2>4, <3>1 DEF Marks
    <3> QED BY <3>2, <3>5, <3>6 DEF Carries
  <2> QED BY <2>3, <2>4
<1>2. ASSUME NEW c \in Closure \cup {t \in AnalyzedDecls : unit[t].kind = "tag"}
      PROVE  Alive(Closure, c)
  <2>1. CASE c \in AnalyzedDecls /\ unit[c].kind = "tag"
    BY <1>1, <2>1 DEF Alive
  <2>2. CASE c \in Closure /\ unit[c].kind # "tag"
    BY <2>2 DEF Alive
  <2>3. CASE c \in Closure /\ unit[c].kind = "tag"
    <3>1. PICK a \in AnalyzedDecls : c \in Marks(a)
      BY <2>3
    <3>2. c \in AnalyzedDecls
      BY <2>3, <3>1, MarksOfClosed, AnonymousIs
    <3> QED BY <1>1, <2>3, <3>2 DEF Alive
  <2> QED BY <2>1, <2>2, <2>3
<1> QED BY <1>2 DEF Stands

-----------------------------------------------------------------------------
\* With no call active, all that was referred to was analyzed.
LEMMA AnalyzedIsClosed ==
    ASSUME TraversingOnly, stack = <<>>
    PROVE  \A d \in AnalyzedDecls : Refs(d) \subseteq AnalyzedDecls
BY DEF TraversingOnly, RefsAreFollowed, Pending

\* The first loop may leave a tag only in the text of a marked declaration; when it
\* is done, all that is left is there, and the second loop removes what another
\* text has.
SInv ==
    /\ AInv
    /\ LoopStarts
    /\ phase \in Later => Closure \subseteq computed
    /\ phase = "redundant" => todo \subseteq Closure
    /\ phase = "ranges" => /\ at \in 0 .. Len(unit)
                           /\ prev # 0 => prev \in TopLevel /\ prev <= at
    /\ phase = "redundant" /\ Ordinary => Survivors(Closure)
    /\ phase = "ranges" /\ Ordinary => \A c \in Wanted : \E e : Stands(e, c) /\ Carries(Closure, e)
    /\ phase = "print" /\ Ordinary => \A c \in Wanted : \E e \in Spanned : Stands(e, c)

\* What is read from the unit alone stays as it is.
LEMMA SameOutput ==
    ASSUME unit' = unit
    PROVE  /\ TopLevel' = TopLevel /\ Included' = Included
           /\ Ordinary' <=> Ordinary
           /\ \A a, b : Stands(a, b)' <=> Stands(a, b)
           /\ \A p : Spans(p)' = Spans(p)
           /\ \A C, e : Carries(C, e)' <=> Carries(C, e)
           /\ \A C, e : Alive(C, e)' <=> Alive(C, e)
<1>1. Decls' = Decls /\ TopLevel' = TopLevel
  BY DEF Decls, TopLevel
<1>2. \A d, e : SameEntity(d, e)' <=> SameEntity(d, e)
  BY DEF SameEntity, OneEntity
<1>3. \A d : Prevs(d)' = Prevs(d)
  BY <1>1, <1>2 DEF Prevs
<1>4. \A a, b : Is_Decl_Equivalent_To(a, b)' <=> Is_Decl_Equivalent_To(a, b)
  BY DEF Is_Decl_Equivalent_To
<1>5. \A a, b : Contains_From_LineCol(a, b)' <=> Contains_From_LineCol(a, b)
  BY DEF Contains_From_LineCol
<1>6. \A d : Record(d)' = Record(d)
  BY <1>1 DEF Record, Max
<1>7. \A d : TypedefForAnon(d)' = TypedefForAnon(d)
  BY <1>1 DEF TypedefForAnon, NamesTag
<1>8. \A p : Spans(p)' = Spans(p)
  BY <1>1, <1>5, <1>6, <1>7 DEF Spans, PrintedFromSource
<1>9. \A a, b : Stands(a, b)' <=> Stands(a, b)
  BY <1>3, <1>4 DEF Stands
<1>10. Ordinary' <=> Ordinary
  BY <1>1, <1>3, <1>4, <1>5, <1>6 DEF Ordinary
<1>11. Included' = Included
  BY <1>1 DEF Included
<1>12. \A C, e : Carries(C, e)' <=> Carries(C, e)
  BY <1>1, <1>8 DEF Carries
<1>13. \A C, e : Alive(C, e)' <=> Alive(C, e)
  BY <1>12 DEF Alive
<1> QED BY <1>1, <1>8, <1>9, <1>10, <1>11, <1>12, <1>13

\* In the beginning no loop has started.
LEMMA InitS == Init => SInv
<1>1. Init => AInv
  BY InitA
<1> QED BY <1>1 DEF Init, VisitorInit, SInv, LoopStarts, Loops, Later

\* What is wanted was declared.
LEMMA MarkedAreDecls ==
    ASSUME AInv, stack = <<>>
    PROVE  MarkedSoFar \subseteq Decls
<1>1. unit \in Units /\ AnalyzedDecls \subseteq Decls /\ \A d \in AnalyzedDecls : Refs(d) \subseteq AnalyzedDecls
  BY AnalyzedIsClosed DEF AInv, TraversingOnly
<1>2. MarkedSoFar = UNION {Marks(d) : d \in AnalyzedDecls}
  BY DEF AInv
<1> QED BY <1>1, <1>2, MarksOfClosed

\* Before the first loop nothing is lost.
LEMMA IncludesAreInsertedS ==
    ASSUME SInv, IncludesAreInserted, Ordinary
    PROVE  Survivors(Closure)'
<1>1. /\ phase = "includes" /\ unit' = unit /\ AnalyzedDecls' = AnalyzedDecls
      /\ Closure' = Closure /\ computed' = Closure /\ stack = <<>>
  BY DEF IncludesAreInserted, SInv, AInv, ClosureTypeOK, visitorVars
<1>2. /\ unit \in Units /\ AnalyzedDecls \subseteq Decls
      /\ Closure = UNION {Marks(d) : d \in AnalyzedDecls}
      /\ \A d \in AnalyzedDecls : Refs(d) \subseteq AnalyzedDecls
  BY <1>1, AnalyzedIsClosed DEF SInv, AInv, TraversingOnly, MarkedSoFar, Later
<1>3. \A c \in Closure \cup {t \in AnalyzedDecls : unit[t].kind = "tag"} :
          \E e : Stands(e, c) /\ Alive(Closure, e)
  BY <1>2, AllSurviveAtFirst
<1>4. Wanted' = Closure \cup {t \in AnalyzedDecls : unit[t].kind = "tag"}
  BY <1>1 DEF Wanted
<1> QED BY <1>1, <1>3, <1>4, SameOutput DEF Survivors

\* A step of the first loop loses nothing.
LEMMA RemoveRepeatedS ==
    ASSUME SInv, RemoveRepeated
    PROVE  /\ Closure' \subseteq computed /\ todo' \subseteq Closure'
           /\ Ordinary => Survivors(Closure)'
<1>0. /\ phase = "redundant" /\ unit' = unit /\ AnalyzedDecls' = AnalyzedDecls /\ computed' = computed
      /\ todo \subseteq Closure /\ Closure \subseteq computed
  BY DEF RemoveRepeated, SInv, Later
<1>1. PICK d \in todo, known \in BOOLEAN :
          LET S == Closure \ RepeatedTag(d, known)
          IN /\ Closure' = IF Repeated(d, S) THEN S \ {d} ELSE S
             /\ todo' = Following(d, Closure')
  BY DEF RemoveRepeated
<1> DEFINE S == Closure \ RepeatedTag(d, known)
<1> DEFINE C == IF Repeated(d, S) THEN S \ {d} ELSE S
<1>2. Closure' = C /\ todo' \subseteq Closure' /\ C \subseteq Closure
  BY <1>1 DEF Following
<1>3. ASSUME Ordinary PROVE Survivors(Closure)'
  <2>1. /\ unit \in Units /\ AnalyzedDecls \subseteq Decls /\ stack = <<>> /\ Survivors(Closure)
    BY <1>0, <1>3 DEF SInv, AInv, TraversingOnly, ClosureTypeOK, Later
  <2>2. computed \subseteq Decls
    BY <1>0, <2>1, MarkedAreDecls DEF SInv, MarkedSoFar, Later
  <2>3. d \in Closure
    BY <1>0
  <2>4. Survivors(C)
    BY <1>0, <1>3, <2>1, <2>2, <2>3, FirstLoopKeeps
  <2> HIDE DEF C
  <2>5. Wanted' = Wanted
    BY <1>0 DEF Wanted
  <2> QED BY <1>0, <1>2, <2>4, <2>5, SameOutput DEF Survivors
<1> QED BY <1>0, <1>2, <1>3

\* What is alive after the first loop is in the text of a marked declaration.
LEMMA FirstLoopEndsS ==
    ASSUME SInv, FirstLoopEnds, Ordinary
    PROVE  (\A c \in Wanted : \E e : Stands(e, c) /\ Carries(Closure, e))'
<1>1. /\ phase = "redundant" /\ unit' = unit /\ AnalyzedDecls' = AnalyzedDecls /\ computed' = computed
      /\ Closure' = Closure /\ Closure \subseteq computed /\ Survivors(Closure)
      /\ unit \in Units /\ stack = <<>>
  BY DEF FirstLoopEnds, SInv, AInv, ClosureTypeOK, TraversingOnly, Later, visitorVars
<1>2. computed \subseteq Decls
  BY <1>1, MarkedAreDecls DEF SInv, MarkedSoFar, Later
<1>3. ASSUME NEW e, Alive(Closure, e) PROVE Carries(Closure, e)
  <2>1. CASE unit[e].kind = "tag"
    BY <1>3, <2>1 DEF Alive
  <2>2. CASE unit[e].kind # "tag"
    <3>1. e \in Closure /\ e \in Decls
      BY <1>1, <1>2, <1>3, <2>2 DEF Alive
    <3>2. e \in TopLevel
      BY <1>1, <2>2, <3>1, NestedIs DEF TopLevel
    <3> QED BY <1>1, <3>1, <3>2, SpansIs DEF Carries
  <2> QED BY <2>1, <2>2
<1>4. Wanted' = Wanted
  BY <1>1 DEF Wanted
<1>5. \A c \in Wanted : \E e : Stands(e, c) /\ Carries(Closure, e)
  BY <1>1, <1>3 DEF Survivors
<1> QED BY <1>1, <1>4, <1>5, SameOutput

\* A step of the second loop loses nothing.
LEMMA RemoveContainedS ==
    ASSUME SInv, RemoveContained
    PROVE  /\ Closure' \subseteq computed
           /\ at' \in 0 .. Len(unit)
           /\ prev' # 0 => prev' \in TopLevel /\ prev' <= at'
           /\ Ordinary => (\A c \in Wanted : \E e : Stands(e, c) /\ Carries(Closure, e))'
<1>0. /\ phase = "ranges" /\ unit' = unit /\ AnalyzedDecls' = AnalyzedDecls /\ computed' = computed
      /\ at' = at + 1 /\ at < Len(unit) /\ at \in 0 .. Len(unit)
      /\ prev # 0 => prev \in TopLevel /\ prev <= at
      /\ Closure \subseteq computed /\ unit \in Units /\ Len(unit) \in Nat
  BY UnitIs DEF RemoveContained, SInv, AInv, TraversingOnly, Later
<1>1. CASE at' \notin TopLevel \cap Closure
  <2>1. prev' = prev /\ Closure' = Closure
    BY <1>1 DEF RemoveContained
  <2>2. Wanted' = Wanted
    BY <1>0 DEF Wanted
  <2>3. Ordinary => \A c \in Wanted : \E e : Stands(e, c) /\ Carries(Closure, e)
    BY <1>0 DEF SInv
  <2>4. prev # 0 => prev \in Nat
    BY <1>0, UnitIs
  <2>5. Ordinary => (\A c \in Wanted : \E e : Stands(e, c) /\ Carries(Closure, e))'
    BY <1>0, <2>1, <2>2, <2>3, SameOutput
  <2> QED BY <1>0, <2>1, <2>4, <2>5
<1>2. CASE at' \in TopLevel \cap Closure
  <2> DEFINE d == at + 1
  <2>1. /\ prev' = d /\ d \in TopLevel \cap Closure
        /\ Closure' = IF InTextOf(d) THEN Closure \ {prev} ELSE Closure
    BY <1>0, <1>2 DEF RemoveContained, NextPrev
  <2>2. Closure' \subseteq computed /\ at' \in 0 .. Len(unit) /\ (prev' # 0 => prev' \in TopLevel /\ prev' <= at')
    BY <1>0, <2>1
  <2>3. ASSUME Ordinary, NEW e, Carries(Closure, e)
        PROVE  Carries(IF InTextOf(d) THEN Closure \ {prev} ELSE Closure, e)
    <3>1. CASE InTextOf(d)
      <4>1. prev \in TopLevel /\ prev # d
        BY <1>0, <3>1, UnitIs DEF InTextOf
      <4> QED BY <1>0, <2>1, <2>3, <3>1, <4>1, SecondLoopKeeps
    <3> QED BY <2>3, <3>1
  <2>4. Ordinary => \A c \in Wanted : \E e : Stands(e, c) /\ Carries(Closure, e)
    BY <1>0 DEF SInv
  <2>5. Wanted' = Wanted
    BY <1>0 DEF Wanted
  <2> DEFINE C == IF InTextOf(d) THEN Closure \ {prev} ELSE Closure
  <2>6. Closure' = C /\ (Ordinary => \A c \in Wanted : \E e : Stands(e, c) /\ Carries(C, e))
    BY <2>1, <2>3, <2>4
  <2> HIDE DEF C
  <2>7. Ordinary => (\A c \in Wanted : \E e : Stands(e, c) /\ Carries(Closure, e))'
    BY <1>0, <2>5, <2>6, SameOutput
  <2> QED BY <2>2, <2>7
<1> QED BY <1>1, <1>2

\* What is left out is in a header that is included.
LEMMA Analyze_IncludesS ==
    ASSUME SInv, Analyze_Includes, Ordinary
    PROVE  (\A c \in Wanted : \E e \in Spanned : Stands(e, c))'
<1>1. /\ phase = "ranges" /\ phase' = "print" /\ unit' = unit /\ AnalyzedDecls' = AnalyzedDecls
      /\ computed' = computed /\ unit \in Units
      /\ Closure' = IF KeepIncludes THEN {d \in Closure : unit[d].file # "included"} ELSE Closure
      /\ \A c \in Wanted : \E e : Stands(e, c) /\ Carries(Closure, e)
  BY DEF Analyze_Includes, SInv, AInv, TraversingOnly
<1>2. ASSUME NEW e, Carries(Closure, e) PROVE e \in Spanned'
  <2>1. PICK p \in Closure \cap TopLevel : e \in Spans(p)
    BY <1>2 DEF Carries
  <2>2. e \in Decls /\ unit[e].file = unit[p].file
    BY <1>1, <2>1, SpansIs
  <2>3. CASE KeepIncludes /\ unit[p].file = "included"
    BY <1>1, <2>2, <2>3, SameOutput DEF Spanned, Included
  <2>4. CASE ~(KeepIncludes /\ unit[p].file = "included")
    <3>1. p \in Printed'
      BY <1>1, <2>1, <2>4, SameOutput DEF Printed
    <3> QED BY <1>1, <2>1, <3>1, SameOutput DEF Spanned
  <2> QED BY <2>3, <2>4
<1>3. Wanted' = Wanted
  BY <1>1 DEF Wanted
<1> QED BY <1>1, <1>2, <1>3, SameOutput

\* No step loses what is wanted.
LEMMA NextS == SInv /\ [Next]_vars => SInv'
<1> SUFFICES ASSUME SInv, [Next]_vars PROVE SInv'
  OBVIOUS
<1>0. AInv' /\ unit' = unit
  BY NextA, VisitorKeepsUnit DEF SInv, Next, vars, visitorVars, Find_Functions_Required, ClosureIsComputed,
     Insert_Decls_From_Non_Expanded_Includes, IncludesAreInserted, RemoveRepeated,
     FirstLoopEnds, RemoveContained, Analyze_Includes
<1>1. Ordinary' <=> Ordinary
  BY <1>0, SameOutput
<1>2. CASE Find_Functions_Required \/ ClosureIsComputed \/ Insert_Decls_From_Non_Expanded_Includes
  <2>1. phase' \notin Later /\ phase' \notin Loops /\ phase \notin Loops /\ at' = at /\ prev' = prev
    BY <1>2 DEF Find_Functions_Required, ClosureIsComputed, Insert_Decls_From_Non_Expanded_Includes,
       Later, Loops
  <2> QED BY <1>0, <2>1 DEF SInv, LoopStarts, Later, Loops
<1>3. CASE IncludesAreInserted
  <2>1. /\ phase' = "redundant" /\ phase \notin Loops /\ at' = at /\ prev' = prev
        /\ Closure' = computed' /\ todo' \subseteq Closure'
    BY <1>3 DEF IncludesAreInserted, Loops, visitorVars
  <2>2. Ordinary => Survivors(Closure)'
    BY <1>3, IncludesAreInsertedS
  <2> QED BY <1>0, <1>1, <2>1, <2>2 DEF SInv, LoopStarts, Loops
<1>4. CASE RemoveRepeated
  <2>1. phase' = "redundant" /\ phase = "redundant" /\ at' = at /\ prev' = prev /\ computed' = computed
    BY <1>4 DEF RemoveRepeated
  <2>2. /\ Closure' \subseteq computed /\ todo' \subseteq Closure'
        /\ Ordinary => Survivors(Closure)'
    BY <1>4, RemoveRepeatedS
  <2> QED BY <1>0, <1>1, <2>1, <2>2 DEF SInv, LoopStarts, Loops
<1>5. CASE FirstLoopEnds
  <2>1. /\ phase' = "ranges" /\ phase = "redundant" /\ at' = 0 /\ prev' = 0
        /\ computed' = computed /\ Closure' = Closure
    BY <1>5 DEF FirstLoopEnds, SInv, LoopStarts, Loops, visitorVars
  <2>2. Ordinary => (\A c \in Wanted : \E e : Stands(e, c) /\ Carries(Closure, e))'
    BY <1>5, FirstLoopEndsS
  <2>3. at' \in 0 .. Len(unit)'
    BY <1>0, <2>1, UnitIs DEF SInv, AInv, TraversingOnly
  <2> QED BY <1>0, <1>1, <2>1, <2>2, <2>3 DEF SInv, LoopStarts, Loops, Later
<1>6. CASE RemoveContained
  <2>1. phase' = "ranges" /\ computed' = computed /\ phase = "ranges"
    BY <1>6 DEF RemoveContained
  <2>2. /\ Closure' \subseteq computed
        /\ at' \in 0 .. Len(unit)
        /\ prev' # 0 => prev' \in TopLevel /\ prev' <= at'
        /\ Ordinary => (\A c \in Wanted : \E e : Stands(e, c) /\ Carries(Closure, e))'
    BY <1>6, RemoveContainedS
  <2>3. TopLevel' = TopLevel
    BY <1>0, SameOutput
  <2> QED BY <1>0, <1>1, <2>1, <2>2, <2>3 DEF SInv, LoopStarts, Loops, Later
<1>7. CASE Analyze_Includes
  <2>1. phase' = "print" /\ phase = "ranges" /\ computed' = computed /\ Closure' \subseteq Closure
    BY <1>7 DEF Analyze_Includes
  <2>2. Ordinary => (\A c \in Wanted : \E e \in Spanned : Stands(e, c))'
    BY <1>7, Analyze_IncludesS
  <2> QED BY <1>0, <1>1, <2>1, <2>2 DEF SInv, LoopStarts, Loops, Later
<1>8. CASE UNCHANGED vars
  <2>1. /\ phase' = phase /\ Closure' = Closure /\ computed' = computed /\ todo' = todo /\ at' = at
        /\ prev' = prev /\ AnalyzedDecls' = AnalyzedDecls
    BY <1>8 DEF vars, visitorVars
  <2>2. Wanted' = Wanted
    BY <1>0, <2>1 DEF Wanted
  <2>3. Spanned' = Spanned
    BY <1>0, <2>1, SameOutput DEF Spanned, Printed
  <2>4. TopLevel' = TopLevel
    BY <1>0, SameOutput
  <2>5. Survivors(Closure)' <=> Survivors(Closure)
    BY <1>0, <2>1, <2>2, SameOutput DEF Survivors
  <2>6. (\A c \in Wanted : \E e : Stands(e, c) /\ Carries(Closure, e))'
            <=> \A c \in Wanted : \E e : Stands(e, c) /\ Carries(Closure, e)
    BY <1>0, <2>1, <2>2, SameOutput
  <2>7. (\A c \in Wanted : \E e \in Spanned : Stands(e, c))'
            <=> \A c \in Wanted : \E e \in Spanned : Stands(e, c)
    BY <1>0, <2>2, <2>3, SameOutput
  <2> QED BY <1>0, <1>1, <2>1, <2>4, <2>5, <2>6, <2>7 DEF SInv, LoopStarts, Loops, Later
<1> QED BY <1>2, <1>3, <1>4, <1>5, <1>6, <1>7, <1>8 DEF Next

(* The loops of Remove_Redundant_Decls and the removal of what headers     *)
(* provide lose nothing: for each declaration that was marked, and for     *)
(* each tag that was analyzed, one that says the same is in the source     *)
(* range of something that is printed.  Whether Print_Decl leaves a tag    *)
(* there its body is the matter of RequiredInvariant and NeedsAreThere.    *)
THEOREM SurvivorsInvariant == Spec => []SInv
<1> QED BY InitS, NextS, PTL DEF Spec

-----------------------------------------------------------------------------
(* What is in the place of what is printed uses what was analyzed.         *)

\* The analysis is over.
Analyzed ==
    /\ unit \in Units
    /\ AnalyzedDecls \subseteq Decls
    /\ \A d \in AnalyzedDecls : Refs(d) \subseteq AnalyzedDecls

\* All that d uses was analyzed.
UsesAnalyzed(d) == \A x \in unit[d].uses : Meant(x) \subseteq AnalyzedDecls

\* What an analyzed declaration uses was analyzed.
LEMMA AnalyzedUses ==
    ASSUME Analyzed, NEW a \in AnalyzedDecls
    PROVE  UsesAnalyzed(a)
<1>1. Refs(a) \subseteq AnalyzedDecls
  BY DEF Analyzed
<1> QED BY <1>1 DEF UsesAnalyzed, Refs, Calls

\* A tag with a body is what is meant by it.
LEMMA MeantIsDefinition ==
    ASSUME unit \in Units, NEW r \in Decls, unit[r].kind = "tag", unit[r].def \/ unit[r].name = ""
    PROVE  Meant(r) = {r}
<1>1. CASE unit[r].name = ""
  BY <1>1 DEF Meant
<1>2. CASE unit[r].name # "" /\ unit[r].def
  <2>1. SameEntity(r, r)
    BY <1>2 DEF SameEntity, OneEntity
  <2>2. ASSUME NEW e \in Definitions(r) PROVE e = r
    <3>1. e \in Decls /\ SameEntity(e, r) /\ unit[e].def
      BY DEF Definitions
    <3> QED BY <1>2, <3>1, EntityFacts
  <2>3. Definitions(r) = {r}
    BY <1>2, <2>1, <2>2 DEF Definitions
  <2> QED BY <1>2, <2>3 DEF Meant
<1> QED BY <1>1, <1>2

\* What the analysis did for a marked declaration.
Followed(p) ==
    /\ UsesAnalyzed(p)
    /\ unit[p].kind # "tag" => SameBeginloc(p) \subseteq AnalyzedDecls
    /\ \A d \in Decls : Record(d) = p => d \in AnalyzedDecls \/ d = p

\* Every marked declaration was followed, analyzed or not.
LEMMA MarkedAreFollowed ==
    ASSUME Analyzed, NEW a \in AnalyzedDecls, NEW p \in Marks(a)
    PROVE  Followed(p)
<1>0. unit \in Units /\ AnalyzedDecls \subseteq Decls /\ a \in Decls /\ \A d \in AnalyzedDecls : Refs(d) \subseteq AnalyzedDecls
  BY DEF Analyzed
<1>1. p \in Decls /\ (p \in AnalyzedDecls \/ p \in TypedefForAnon(a))
  BY <1>0, MarksOfClosed
<1>2. CASE p \in AnalyzedDecls
  <2>1. UsesAnalyzed(p)
    BY <1>2, AnalyzedUses
  <2>2. unit[p].kind # "tag" => SameBeginloc(p) \subseteq Refs(p)
    BY DEF Refs, Calls
  <2>3. ASSUME NEW d \in Decls, Record(d) = p PROVE d \in AnalyzedDecls
    BY <1>0, <1>2, <2>3, ClosedUnderNesting
  <2> QED BY <1>0, <1>2, <2>1, <2>2, <2>3 DEF Followed
<1>3. CASE p \in TypedefForAnon(a)
  <2>1. /\ unit[a].kind = "tag" /\ unit[p].kind = "typedef" /\ unit[p].uses = {a}
        /\ TypedefForAnon(a) = {p} /\ unit[a].name = ""
    BY <1>0, <1>3, AnonymousIs DEF TypedefForAnon
  <2>2. Meant(a) = {a}
    BY <1>0, <2>1, MeantIsDefinition
  <2>3. UsesAnalyzed(p)
    BY <2>1, <2>2 DEF UsesAnalyzed
  <2>4. SameBeginloc(p) \subseteq Refs(a)
    BY <2>1 DEF Refs, Calls, TagCalls
  <2>5. ASSUME NEW d \in Decls, Record(d) = p PROVE d = p
    BY <1>0, <2>1, <2>5, RecordFacts
  <2> QED BY <1>0, <2>3, <2>4, <2>5 DEF Followed
<1> QED BY <1>1, <1>2, <1>3

\* What is written in the text of a marked declaration uses what was analyzed.
LEMMA DeclaredUses ==
    ASSUME Analyzed, SearchSuffices, NEW p \in TopLevel, Followed(p), NEW d \in Spans(p)
    PROVE  UsesAnalyzed(d)
<1>0. unit \in Units /\ AnalyzedDecls \subseteq Decls /\ \A e \in AnalyzedDecls : Refs(e) \subseteq AnalyzedDecls
  BY DEF Analyzed
<1> DEFINE r == Record(d)
<1>1. p \in Decls /\ d \in Decls /\ Contains_From_LineCol(p, d)
  BY <1>0, SpansIs, UnitIs
<1>2. r \in TopLevel /\ r \in Decls /\ (r # d => unit[r].kind = "tag" /\ unit[r].def)
  BY <1>0, <1>1, RecordFacts, UnitIs
<1>3. r \in AnalyzedDecls => UsesAnalyzed(d)
  <2>1. r \in AnalyzedDecls => d \in AnalyzedDecls
    BY <1>0, <1>1, ClosedUnderNesting
  <2> QED BY <2>1, AnalyzedUses
<1>4. CASE r = p
  <2>1. d \in AnalyzedDecls \/ d = p
    BY <1>1, <1>4 DEF Followed
  <2> QED BY <2>1, AnalyzedUses DEF Followed
<1>5. CASE r # p /\ ~PrintedFromSource(p)
  <2>1. TypedefForAnon(r) = {p}
    BY <1>5 DEF Spans
  <2>2. unit[p].uses = {r} /\ unit[r].kind = "tag" /\ unit[r].name = ""
    BY <1>0, <1>2, <2>1, AnonymousIs DEF TypedefForAnon
  <2>3. Meant(r) = {r}
    BY <1>0, <1>2, <2>2, MeantIsDefinition
  <2>4. r \in AnalyzedDecls
    BY <2>2, <2>3 DEF Followed, UsesAnalyzed
  <2> QED BY <1>3, <2>4
<1>6. CASE r # p /\ PrintedFromSource(p)
  <2>1. unit[p].how = "text"
    BY <1>6 DEF PrintedFromSource
  <2>2. Contains_From_LineCol(p, r)
    BY <1>0, <1>1, <1>6, <2>1, TextHasRecords
  <2>3. unit[p].parent = 0 /\ unit[r].parent = 0 /\ p \in DeclsOf(unit) /\ r \in DeclsOf(unit) /\ Within(unit, p, r)
    BY <1>1, <1>2, <2>2 DEF TopLevel, Decls, Contains_From_LineCol
  <2>4. /\ unit[r].kind = "tag" /\ unit[r].def => r \in unit[p].uses
        /\ unit[r].kind # "tag" => unit[p].kind # "tag" /\ unit[r].begin = unit[p].begin
    BY <1>0, <1>6, <2>1, <2>3, TextAssumption
  <2>5. CASE unit[r].kind = "tag" /\ unit[r].def
    <3>1. r \in unit[p].uses
      BY <2>4, <2>5
    <3>2. Meant(r) = {r}
      BY <1>0, <1>2, <2>5, MeantIsDefinition
    <3>3. r \in AnalyzedDecls
      BY <3>1, <3>2 DEF Followed, UsesAnalyzed
    <3> QED BY <1>3, <3>3
  <2>6. CASE unit[r].kind = "tag" /\ ~unit[r].def
    <3>1. d = r
      BY <1>2, <2>6
    <3>2. unit[r].uses = {}
      BY <1>0, <2>3, <2>6, UsesAssumption
    <3> QED BY <3>1, <3>2 DEF UsesAnalyzed
  <2>7. CASE unit[r].kind # "tag"
    <3>1. d = r
      BY <1>2, <2>7
    <3>2. unit[p].kind # "tag" /\ unit[r].begin = unit[p].begin
      BY <2>4, <2>7
    <3>3. r \in SameBeginloc(p) \/ unit[r].uses \subseteq unit[p].uses
      BY <1>2, <2>7, <3>2 DEF SearchSuffices
    <3>4. r \in SameBeginloc(p) => r \in AnalyzedDecls
      BY <3>2 DEF Followed
    <3> QED BY <1>3, <3>1, <3>3, <3>4 DEF Followed, UsesAnalyzed
  <2> QED BY <2>5, <2>6, <2>7
<1> QED BY <1>4, <1>5, <1>6

\* When everything is removed that is.
LEMMA AnalyzedAtPrint ==
    ASSUME AInv, phase = "print"
    PROVE  Analyzed /\ computed = UNION {Marks(d) : d \in AnalyzedDecls} /\ computed \subseteq Decls
<1>1. stack = <<>> /\ TraversingOnly /\ MarkedSoFar = computed
  BY DEF AInv, ClosureTypeOK, MarkedSoFar, Later
<1> QED BY <1>1, AnalyzedIsClosed, MarkedAreDecls DEF AInv, Analyzed, TraversingOnly

\* What is in the place of what is printed uses what was analyzed.
LEMMA Served ==
    ASSUME SInv, phase = "print", SearchSuffices, NEW d \in Spanned
    PROVE  d \in Decls /\ UsesAnalyzed(d)
<1>1. Analyzed /\ computed = UNION {Marks(a) : a \in AnalyzedDecls}
  BY AnalyzedAtPrint DEF SInv
<1>2. unit \in Units /\ AnalyzedDecls \subseteq Decls /\ \A e \in AnalyzedDecls : Refs(e) \subseteq AnalyzedDecls
  BY <1>1 DEF Analyzed
<1>3. CASE d \in Included
  <2>1. KeepIncludes /\ d \in Decls /\ unit[d].file = "included"
    BY <1>3 DEF Included
  <2> DEFINE r == Record(d)
  <2>2. r \in TopLevel /\ r \in Decls /\ unit[r].file = "included"
    BY <1>2, <2>1, RecordFacts, UnitIs
  <2>3. InKeptHeader(r) /\ r \in 1 .. kept
    BY <1>2, <2>1, <2>2, UnitIs DEF InKeptHeader, SInv, AInv, ClosureTypeOK, Later
  <2>4. r \in AnalyzedDecls
    BY <2>1, <2>3 DEF SInv, AInv, KeptAreAnalyzed
  <2>5. d \in AnalyzedDecls
    BY <1>2, <2>1, <2>4, ClosedUnderNesting
  <2> QED BY <1>1, <2>1, <2>5, AnalyzedUses
<1>4. CASE d \notin Included
  <2>1. PICK p \in Printed : d \in Spans(p)
    BY <1>4 DEF Spanned
  <2>2. p \in TopLevel /\ p \in computed
    BY <2>1 DEF Printed, SInv, Later
  <2>3. Followed(p)
    BY <1>1, <2>2, MarkedAreFollowed
  <2> QED BY <1>1, <1>2, <2>1, <2>2, <2>3, DeclaredUses, SpansIs
<1> QED BY <1>3, <1>4

-----------------------------------------------------------------------------
(* The output has what it needs.                                           *)

\* To declare the same is symmetric and transitive.
LEMMA SameEntityIs ==
    ASSUME NEW a, NEW b, NEW c
    PROVE  /\ SameEntity(a, b) => SameEntity(b, a)
           /\ SameEntity(a, b) /\ SameEntity(b, c) => SameEntity(a, c)
BY DEF SameEntity, OneEntity

\* Something is meant by every use.
LEMMA MeantIsThere ==
    ASSUME unit \in Units, NEW x \in Decls
    PROVE  \E m : m \in Meant(x)
<1>1. CASE unit[x].kind # "tag" \/ unit[x].name = "" \/ Definitions(x) # {}
  BY <1>1 DEF Meant
<1>2. CASE ~(unit[x].kind # "tag" \/ unit[x].name = "" \/ Definitions(x) # {})
  <2> DEFINE S == Prevs(x) \cup {x}
  <2>1. S \in SUBSET Nat /\ S # {} /\ S \subseteq Decls
    BY UnitIs DEF Prevs
  <2>2. PICK m \in S : \A y \in S : m <= y
    <3> HIDE DEF S
    <3> QED BY <2>1, LeastOne
  <2>3. ASSUME NEW y \in Prevs(m) PROVE FALSE
    <3>1. y \in Decls /\ y < m /\ SameEntity(y, m)
      BY DEF Prevs
    <3>2. m = x \/ (m < x /\ SameEntity(m, x))
      BY <2>2 DEF Prevs
    <3>3. y \in Nat /\ m \in Nat /\ x \in Nat
      BY <2>1, <2>2, <3>1, UnitIs
    <3>4. y < x /\ SameEntity(y, x)
      BY <3>1, <3>2, <3>3, SameEntityIs
    <3>5. y \in S
      BY <3>1, <3>4 DEF Prevs
    <3> HIDE DEF S
    <3> QED BY <2>2, <3>1, <3>3, <3>5
  <2>4. m \in Meant(x)
    BY <1>2, <2>2, <2>3 DEF Meant
  <2> QED BY <2>4
<1> QED BY <1>1, <1>2

\* The end of a run on an ordinary unit.
AtPrint == SInv /\ RInv /\ phase = "print" /\ Ordinary /\ SearchSuffices /\ NestedFirst

\* What the invariants say when the output is made.
LEMMA AtPrintIs ==
    ASSUME AtPrint
    PROVE  /\ Analyzed /\ unit \in Units /\ AnalyzedDecls \subseteq Decls
           /\ \A a \in AnalyzedDecls : Marks(a) \subseteq computed
           /\ computed \subseteq Decls
           /\ \A c \in computed : \E e \in Spanned : Stands(e, c)
           /\ \A c \in AnalyzedDecls : unit[c].kind = "tag" => \E e \in Spanned : Stands(e, c)
<1>1. Analyzed /\ computed = UNION {Marks(d) : d \in AnalyzedDecls} /\ computed \subseteq Decls
  BY AnalyzedAtPrint DEF AtPrint, SInv
<1>2. \A c \in Wanted : \E e \in Spanned : Stands(e, c)
  BY DEF AtPrint, SInv
<1> QED BY <1>1, <1>2 DEF Analyzed, Wanted

\* What was asked for is in the output, or the definition of it is.
LEMMA RequestedIsSpanned ==
    ASSUME AtPrint, NEW d \in TopLevel, unit[d].name \in Names, ~unit[d].builtin
    PROVE  \E e \in Spanned : Says(e, d) \/ (SameEntity(e, d) /\ unit[e].def)
<1>0. unit \in Units /\ AnalyzedDecls \subseteq Decls /\ computed \subseteq Decls /\ d \in Decls
  BY AtPrintIs, UnitIs
<1>1. d \in AnalyzedDecls
  <2>1. Requested(d) /\ d \in 1 .. sweep
    BY <1>0, UnitIs DEF Requested, TopLevel, AtPrint, SInv, AInv, ClosureTypeOK
  <2> QED BY <2>1 DEF AtPrint, SInv, AInv, SweptAreAnalyzed
<1>2. Marks(d) \subseteq computed
  BY <1>1, AtPrintIs
<1>3. TypedefForAnon(d) = {}
  BY NamesAssumption DEF TypedefForAnon
<1>4. CASE d \in computed
  <2>1. PICK e \in Spanned : Stands(e, d)
    BY <1>4, AtPrintIs
  <2>2. Says(e, d)
    BY <1>0, <2>1, StandsIs DEF Says, Is_Decl_Equivalent_To
  <2> QED BY <2>2
<1>5. CASE unit[d].kind = "func" /\ unit[d].static /\ Definitions(d) # {}
  <2>1. PICK f \in Definitions(d) : TRUE
    BY <1>5
  <2>2. f \in Decls /\ SameEntity(f, d) /\ unit[f].def
    BY <2>1 DEF Definitions
  <2>3. f \in computed
    BY <1>2, <1>5, <2>1 DEF Marks, ToMark, WithPrevs
  <2>4. PICK e \in Spanned : Stands(e, f)
    BY <2>3, AtPrintIs
  <2>5. (e = f \/ SameEntity(e, f)) /\ Is_Decl_Equivalent_To(f, e)
    BY <1>0, <2>2, <2>4, StandsIs
  <2>6. SameEntity(e, d)
    BY <2>2, <2>5, SameEntityIs
  <2>7. unit[e].def
    BY <2>2, <2>5 DEF Is_Decl_Equivalent_To
  <2> QED BY <2>6, <2>7
<1>6. d \in Marks(d) \/ (unit[d].kind = "func" /\ unit[d].static /\ Definitions(d) # {})
  BY <1>0, <1>3, UnitIs DEF Marks, ToMark, WithPrevs, Kinds
<1> QED BY <1>2, <1>4, <1>5, <1>6

\* The tag that is meant is left itself: nothing that is declared before it
\* says the same.
LEMMA MeantTagIsSpanned ==
    ASSUME AtPrint, NEW x \in Decls, unit[x].kind = "tag", Meant(x) \subseteq AnalyzedDecls,
           NEW m \in Meant(x)
    PROVE  m \in Spanned
<1>0. unit \in Units /\ AnalyzedDecls \subseteq Decls /\ m \in Decls /\ m \in AnalyzedDecls
  BY AtPrintIs
<1>1. unit[m].kind = "tag"
  BY <1>0, MeantAreDecls
<1>2. PICK e \in Spanned : Stands(e, m)
  BY <1>0, <1>1, AtPrintIs
<1>3. CASE e \in Prevs(m) /\ Is_Decl_Equivalent_To(m, e)
  <2>1. e \in Decls /\ SameEntity(e, m)
    BY <1>3 DEF Prevs
  <2>2. unit[m].name # ""
    BY <2>1 DEF SameEntity, OneEntity
  <2>3. ~unit[m].def
    BY <1>0, <1>1, <1>3, TagsRepeatNoBody
  <2>4. m \notin Definitions(x)
    BY <2>3 DEF Definitions
  <2>5. Prevs(m) = {}
    BY <1>0, <2>2, <2>4 DEF Meant
  <2> QED BY <1>3, <2>5
<1> QED BY <1>2, <1>3 DEF Stands

\* The definition of a static function is left where one is used.
LEMMA StaticIsSpanned ==
    ASSUME AtPrint, NEW x \in Decls, unit[x].static, ~unit[x].builtin, Meant(x) \subseteq AnalyzedDecls,
           NEW f \in Definitions(x)
    PROVE  f \in Spanned
<1>0. unit \in Units /\ AnalyzedDecls \subseteq Decls /\ computed \subseteq Decls
  BY AtPrintIs
<1>1. f \in Decls /\ SameEntity(f, x) /\ unit[f].def
  BY DEF Definitions
<1>2. unit[f].kind = unit[x].kind /\ unit[f].static = unit[x].static
  BY <1>0, <1>1, EntityFacts
<1>3. unit[x].kind = "func"
  <2>1. x \in DeclsOf(unit) /\ f \in DeclsOf(unit)
    BY <1>1 DEF Decls
  <2>2. unit[f].kind \in {"func", "tag"} /\ unit[x].kind \in {"func", "var"}
    BY <1>0, <1>1, <2>1, EntityAssumption
  <2> QED BY <1>2, <2>2
<1>4. x \in AnalyzedDecls
  BY <1>3 DEF Meant
<1>5. f \in computed
  <2>1. f \in Marks(x)
    BY <1>3 DEF Marks, ToMark, WithPrevs
  <2> QED BY <1>4, <2>1, AtPrintIs
<1>6. PICK e \in Spanned : Stands(e, f)
  BY <1>5, AtPrintIs
<1>7. CASE e \in Prevs(f) /\ Is_Decl_Equivalent_To(f, e)
  <2>1. e \in Decls /\ SameEntity(e, f) /\ unit[e].def = unit[f].def
    BY <1>7 DEF Prevs, Is_Decl_Equivalent_To
  <2>2. unit[e].def /\ unit[f].static
    BY <1>1, <1>2, <2>1
  <2>3. e = f
    BY <1>0, <1>1, <2>1, <2>2, EntityFacts
  <2> QED BY <2>3
<1> QED BY <1>6, <1>7 DEF Stands

\* Of what is not a tag, an analyzed declaration has itself or an earlier one marked.
LEMMA EarlierIsMarked ==
    ASSUME AtPrint, NEW x \in AnalyzedDecls, unit[x].kind # "tag", ~unit[x].builtin
    PROVE  \E c \in computed : c <= x /\ (c = x \/ SameEntity(c, x))
<1>0. unit \in Units /\ x \in Decls /\ Marks(x) \subseteq computed /\ x \in Nat /\ unit[x].kind \in Kinds
  BY AtPrintIs, UnitIs
<1>1. CASE unit[x].kind = "func" /\ unit[x].static /\ Definitions(x) # {}
  <2>1. PICK f \in Definitions(x) : TRUE
    BY <1>1
  <2>2. f \in Decls /\ SameEntity(f, x) /\ f \in Nat
    BY <1>0, <2>1, UnitIs DEF Definitions
  <2>3. WithPrevs(Definitions(x)) \subseteq computed
    BY <1>0, <1>1 DEF Marks, ToMark
  <2>4. f \in computed
    BY <2>1, <2>3 DEF WithPrevs
  <2>5. CASE f <= x
    BY <2>2, <2>4, <2>5
  <2>6. CASE x < f
    <3>1. x \in Prevs(f)
      BY <1>0, <2>2, <2>6, SameEntityIs DEF Prevs
    <3>2. x \in computed
      BY <2>1, <2>3, <3>1 DEF WithPrevs
    <3> QED BY <1>0, <3>2
  <2> QED BY <1>0, <2>2, <2>5, <2>6
<1>2. CASE ~(unit[x].kind = "func" /\ unit[x].static /\ Definitions(x) # {})
  <2>1. x \in Marks(x)
    BY <1>0, <1>2 DEF Marks, ToMark, WithPrevs, Kinds
  <2> QED BY <1>0, <2>1
<1> QED BY <1>1, <1>2

\* A named tag that was analyzed has its earlier declarations marked.
LEMMA EarlierTagIsMarked ==
    ASSUME AtPrint, NEW m \in AnalyzedDecls, unit[m].kind = "tag",
           NEW x \in Decls, x < m, SameEntity(m, x)
    PROVE  x \in computed
<1>1. unit[m].name # "" /\ Marks(m) \subseteq computed
  BY AtPrintIs DEF SameEntity, OneEntity
<1>2. TypedefForAnon(m) = {}
  BY <1>1 DEF TypedefForAnon
<1>3. x \in Prevs(m)
  BY SameEntityIs DEF Prevs
<1>4. x \in Marks(m)
  BY <1>2, <1>3 DEF Marks, WithPrevs
<1> QED BY <1>1, <1>4

\* The earlier declarations of an analyzed tag with a name were analyzed.
LEMMA EarlierTagIsAnalyzed ==
    ASSUME AtPrint, NEW m \in AnalyzedDecls, unit[m].kind = "tag", NEW x \in Prevs(m)
    PROVE  x \in AnalyzedDecls
<1>1. TypedefForAnon(m) = {}
  BY DEF TypedefForAnon, Prevs, SameEntity, OneEntity
<1>2. x \in Refs(m)
  BY <1>1 DEF Refs, Calls, TagCalls
<1> QED BY <1>2, AtPrintIs DEF Analyzed

\* Before d or in it.
Near(e, d) == e <= d \/ Contains_From_LineCol(d, e)

\* What d uses is declared before it or in it.
LEMMA UsedIsDeclared ==
    ASSUME AtPrint, NEW d \in Decls, NEW x \in unit[d].uses, ~unit[x].builtin,
           Meant(x) \subseteq AnalyzedDecls
    PROVE  \E e \in Spanned :
               /\ Near(e, d) /\ (e = x \/ SameEntity(e, x))
               /\ unit[x].kind = "tag" =>
                      e \in AnalyzedDecls /\ \A y \in Definitions(e) : y = e \/ y > d
<1>0. /\ unit \in Units /\ AnalyzedDecls \subseteq Decls /\ computed \subseteq Decls
      /\ x \in Decls /\ x \in Nat /\ d \in Nat
  BY AtPrintIs, UnitIs
<1>1. x > d => /\ unit[x].kind = "tag" /\ Contains_From_LineCol(d, x)
               /\ \A e \in Decls : SameEntity(e, x) /\ e < x => Near(e, d)
  <2>1. d \in DeclsOf(unit)
    BY DEF Decls
  <2>2. x > d => /\ unit[x].kind = "tag" /\ Within(unit, d, x)
                 /\ \A e \in DeclsOf(unit) : OneEntity(unit, e, x) /\ e < x => e <= d \/ Within(unit, d, e)
    BY <1>0, <2>1, UsesAssumption
  <2> QED BY <2>2 DEF Decls, SameEntity, Contains_From_LineCol, Near
<1>2. ASSUME NEW c \in computed, c <= x, c = x \/ SameEntity(c, x), x > d => c = x
      PROVE  \E e \in Spanned : Near(e, d) /\ (e = x \/ SameEntity(e, x)) /\ Stands(e, c)
  <2>1. PICK e \in Spanned : Stands(e, c)
    BY AtPrintIs
  <2>2. e \in Decls /\ e <= c /\ (e = c \/ SameEntity(e, c))
    BY <1>0, <2>1, StandsIs
  <2>3. e = x \/ SameEntity(e, x)
    BY <1>2, <2>2, SameEntityIs
  <2>4. e \in Nat /\ c \in Nat
    BY <1>0, <2>2, UnitIs
  <2>5. CASE x <= d
    BY <1>0, <1>2, <2>1, <2>2, <2>3, <2>4, <2>5 DEF Near
  <2>6. CASE x > d
    <3>1. c = x
      BY <1>2, <2>6
    <3>2. CASE e = x
      BY <1>1, <2>1, <2>6, <3>2 DEF Near
    <3>3. CASE e # x
      <4>1. SameEntity(e, x) /\ e < x
        BY <1>0, <2>2, <2>3, <2>4, <3>1, <3>3
      <4> QED BY <1>1, <2>1, <2>2, <2>6, <4>1
    <3> QED BY <3>2, <3>3
  <2> QED BY <1>0, <2>5, <2>6
<1>3. CASE unit[x].kind # "tag"
  <2>1. x \in AnalyzedDecls
    BY <1>3 DEF Meant
  <2>2. PICK c \in computed : c <= x /\ (c = x \/ SameEntity(c, x))
    BY <1>3, <2>1, EarlierIsMarked
  <2> QED BY <1>1, <1>2, <1>3, <2>2
<1>4. CASE unit[x].kind = "tag"
  <2>1. PICK m : m \in Meant(x)
    BY <1>0, MeantIsThere
  <2>2. m \in Spanned /\ m \in AnalyzedDecls /\ m \in Decls
    BY <1>0, <1>4, <2>1, MeantTagIsSpanned
  <2>3. (m = x \/ SameEntity(m, x)) /\ unit[m].kind = "tag"
    BY <1>0, <1>4, <2>1, MeantAreDecls
  <2>4. ASSUME NEW y \in Definitions(m) PROVE y = m
    <3>1. y \in Decls /\ SameEntity(y, m) /\ unit[y].def /\ unit[m].name # ""
      BY DEF Definitions, SameEntity, OneEntity
    <3>2. y \in Definitions(x)
      BY <2>3, <3>1, SameEntityIs DEF Definitions
    <3>3. m \in Definitions(x)
      <4>1. unit[x].name # ""
        BY <2>3, <3>1 DEF SameEntity, OneEntity
      <4> QED BY <1>4, <2>1, <3>2, <4>1 DEF Meant
    <3>4. unit[m].def
      BY <3>3 DEF Definitions
    <3> QED BY <1>0, <2>2, <2>3, <3>1, <3>4, EntityFacts
  <2>5. CASE Near(m, d)
    BY <2>2, <2>3, <2>5, <2>4
  <2>6. CASE ~Near(m, d)
    <3>1. m # x
      BY <1>0, <1>1, <2>6 DEF Near
    <3>2. x < m
      <4>1. ~(m <= d) /\ m \in Nat
        BY <1>0, <2>2, <2>6, UnitIs DEF Near
      <4>2. CASE x <= d
        BY <1>0, <4>1, <4>2
      <4>3. CASE x > d
        <5>1. ~(m < x)
          BY <1>1, <2>2, <2>3, <2>6, <3>1, <4>3
        <5> QED BY <1>0, <3>1, <4>1, <5>1
      <4> QED BY <1>0, <4>2, <4>3
    <3>3. x \in computed
      BY <1>0, <2>2, <2>3, <3>1, <3>2, EarlierTagIsMarked
    <3>4. PICK e \in Spanned : Near(e, d) /\ (e = x \/ SameEntity(e, x)) /\ Stands(e, x)
      BY <1>0, <1>2, <3>3
    <3>5. x \in AnalyzedDecls
      <4>1. x \in Prevs(m)
        BY <1>0, <2>3, <3>1, <3>2, SameEntityIs DEF Prevs
      <4> QED BY <2>2, <2>3, <4>1, EarlierTagIsAnalyzed
    <3>6. e \in AnalyzedDecls
      BY <1>4, <3>4, <3>5, EarlierTagIsAnalyzed DEF Stands
    <3>7. ASSUME NEW y \in Definitions(e) PROVE y > d
      <4>1. y \in Decls /\ SameEntity(y, e) /\ unit[y].def
        BY DEF Definitions
      <4>2. y \in Definitions(m)
        <5>1. SameEntity(y, x) /\ SameEntity(x, m)
          BY <2>3, <3>1, <3>4, <4>1, SameEntityIs
        <5> QED BY <4>1, <5>1, SameEntityIs DEF Definitions
      <4>3. y = m
        BY <2>4, <4>2
      <4> QED BY <1>0, <2>2, <2>6, <4>3, UnitIs DEF Near
    <3> QED BY <3>4, <3>6, <3>7
  <2> QED BY <2>5, <2>6
<1> QED BY <1>3, <1>4

-----------------------------------------------------------------------------
(* What is printed with its body.                                          *)

\* The text of a tag has what is nested in it alone.
LEMMA TagSpans ==
    ASSUME unit \in Units, NEW p \in TopLevel, unit[p].kind = "tag", NEW e \in Spans(p)
    PROVE  e \in Decls /\ Record(e) = p
<1>1. e \in Decls /\ p \in Decls /\ Contains_From_LineCol(p, e)
  BY SpansIs, UnitIs
<1> DEFINE r == Record(e)
<1>2. r \in TopLevel /\ r \in Decls
  BY <1>1, RecordFacts, UnitIs
<1>3. ASSUME r # p, PrintedFromSource(p) PROVE FALSE
  <2>1. unit[p].how = "text"
    BY <1>3 DEF PrintedFromSource
  <2>2. Contains_From_LineCol(p, r)
    BY <1>1, <1>3, <2>1, TextHasRecords
  <2>3. unit[p].parent = 0 /\ unit[r].parent = 0 /\ Within(unit, p, r)
    BY <1>2, <2>2 DEF TopLevel, Contains_From_LineCol
  <2> QED BY <1>1, <1>2, <1>3, <2>1, <2>3, TextAssumption DEF Decls
<1>4. ASSUME r # p, ~PrintedFromSource(p) PROVE FALSE
  <2>1. TypedefForAnon(r) = {p}
    BY <1>4 DEF Spans
  <2> QED BY <1>2, <2>1, AnonymousIs
<1> QED BY <1>1, <1>3, <1>4

\* What is declared, or defined, is in the place of what is printed.
LEMMA WithBodyIs ==
    ASSUME unit \in Units
    PROVE  WithBody \subseteq Available /\ Available \subseteq Spanned /\ Spanned \subseteq Decls
<1>1. Printed \subseteq TopLevel
  BY DEF Printed
<1>2. \A p \in Printed : Declares(p) \subseteq Spans(p) /\ Defines(p) \subseteq Declares(p) /\ Spans(p) \subseteq Decls
  BY <1>1, SpansIs DEF Declares, Defines
<1>3. Included \subseteq Decls
  BY DEF Included
<1> QED BY <1>2, <1>3 DEF WithBody, Available, Spanned

\* Only a record without a name, or whose body is not required, loses it.
LEMMA OthersKeepTheirBody ==
    ASSUME NEW p \in Printed, IsStruct(p) => unit[p].name # "" /\ p \in Required
    PROVE  Spans(p) \subseteq WithBody
BY DEF WithBody, Defines, NotPrinted, BodyIsRemoved

\* What is not a tag is printed as it is.
LEMMA NonTagHasBody ==
    ASSUME unit \in Units, NEW e \in Spanned, unit[e].kind # "tag"
    PROVE  e \in WithBody
<1>1. CASE e \in Included
  BY <1>1 DEF WithBody
<1>2. CASE e \notin Included
  <2>1. PICK p \in Printed : e \in Spans(p)
    BY <1>2 DEF Spanned
  <2>2. p \in TopLevel
    BY DEF Printed
  <2>3. unit[p].kind # "tag"
    <3>1. SUFFICES ASSUME unit[p].kind = "tag" PROVE FALSE
      OBVIOUS
    <3>2. e \in Decls /\ Record(e) = p
      BY <2>1, <2>2, <3>1, TagSpans
    <3> QED BY <3>1, <3>2, RecordFacts
  <2> QED BY <2>1, <2>3, OthersKeepTheirBody DEF IsStruct
<1> QED BY <1>1, <1>2

\* An anonymous tag that a typedef names is not marked itself.
LEMMA NamedByTypedef ==
    ASSUME AtPrint, NEW r \in Decls, TypedefForAnon(r) # {}
    PROVE  r \notin Printed
<1>0. /\ Analyzed /\ unit \in Units /\ AnalyzedDecls \subseteq Decls
      /\ computed = UNION {Marks(a) : a \in AnalyzedDecls}
  BY AnalyzedAtPrint DEF AtPrint, SInv, Analyzed
<1>1. unit[r].kind = "tag" /\ unit[r].name = ""
  BY DEF TypedefForAnon
<1>2. \A e : ~SameEntity(e, r) /\ ~SameEntity(r, e)
  BY <1>1 DEF SameEntity, OneEntity
<1>3. ASSUME NEW a \in AnalyzedDecls, r \in Marks(a) PROVE FALSE
  <2>1. CASE unit[a].kind = "func"
    <3>1. r \in WithPrevs(ToMark(a))
      BY <1>3, <2>1 DEF Marks
    <3>2. r \in ToMark(a)
      BY <1>2, <3>1 DEF WithPrevs, Prevs
    <3>3. r = a
      BY <1>2, <3>2 DEF ToMark, Definitions
    <3> QED BY <1>1, <2>1, <3>3
  <2>2. CASE unit[a].kind = "tag" /\ TypedefForAnon(a) # {}
    <3>1. r \in TypedefForAnon(a)
      BY <1>3, <2>2 DEF Marks
    <3> QED BY <1>0, <1>1, <3>1, AnonymousIs
  <2>3. CASE unit[a].kind = "tag" /\ TypedefForAnon(a) = {}
    <3>1. r \in WithPrevs({a})
      BY <1>3, <2>3 DEF Marks
    <3> QED BY <1>2, <2>3, <3>1 DEF WithPrevs, Prevs
  <2>4. CASE unit[a].kind \notin {"func", "tag"}
    BY <1>1, <1>3, <2>4 DEF Marks
  <2> QED BY <2>1, <2>2, <2>3, <2>4
<1>4. Printed \subseteq computed
  BY DEF Printed, AtPrint, SInv, Later
<1> QED BY <1>0, <1>3, <1>4

\* A record whose body is required, and what is nested in it, are printed with their
\* bodies, and so are an enum and a record that a typedef names.
LEMMA RequiredHasBody ==
    ASSUME AtPrint, NEW x \in Spanned,
           \/ unit[Record(x)].enum
           \/ TypedefForAnon(Record(x)) # {}
           \/ unit[Record(x)].name # "" /\ Record(x) \in Required
    PROVE  x \in WithBody
<1>0. unit \in Units /\ x \in Decls /\ Record(x) \in Decls
  BY AtPrintIs, WithBodyIs, RecordFacts, UnitIs
<1>1. CASE x \in Included
  BY <1>1 DEF WithBody
<1>2. CASE x \notin Included
  <2>1. PICK p \in Printed : x \in Spans(p)
    BY <1>2 DEF Spanned
  <2>2. p \in TopLevel
    BY DEF Printed
  <2>3. IsStruct(p) => unit[p].name # "" /\ p \in Required
    <3>1. SUFFICES ASSUME IsStruct(p) PROVE unit[p].name # "" /\ p \in Required
      OBVIOUS
    <3>2. Record(x) = p /\ ~unit[p].enum
      BY <1>0, <2>1, <2>2, <3>1, TagSpans DEF IsStruct
    <3>3. TypedefForAnon(p) = {}
      BY <1>0, <3>2, NamedByTypedef
    <3> QED BY <3>2, <3>3
  <2> QED BY <2>1, <2>3, OthersKeepTheirBody
<1> QED BY <1>1, <1>2

\* What is nested in one record is printed together.
LEMMA SameRecord ==
    ASSUME unit \in Units, NEW d \in WithBody, NEW x \in Decls, Record(x) = Record(d)
    PROVE  x \in WithBody
<1>0. d \in Decls
  BY WithBodyIs
<1> DEFINE r == Record(d)
<1>1. /\ r \in TopLevel /\ r \in Decls /\ Contains_From_LineCol(r, x)
      /\ unit[r].file = unit[x].file /\ unit[r].file = unit[d].file
  BY <1>0, RecordFacts, UnitIs
<1>2. CASE d \in Included
  BY <1>1, <1>2 DEF Included, WithBody
<1>3. CASE d \notin Included
  <2>1. PICK p \in Printed : d \in Defines(p)
    BY <1>3 DEF WithBody
  <2>2. Defines(p) = Spans(p) /\ p \in TopLevel /\ p \in Decls
    BY <1>0, <2>1, UnitIs DEF Defines, Printed
  <2>3. CASE r = p
    BY <2>2, <2>3, SpansIs DEF WithBody
  <2>4. CASE r # p /\ PrintedFromSource(p)
    <3>1. Contains_From_LineCol(p, d) /\ unit[p].how = "text"
      BY <2>1, <2>2, <2>4 DEF Spans, PrintedFromSource
    <3>2. Contains_From_LineCol(p, r)
      BY <1>0, <2>2, <2>4, <3>1, TextHasRecords
    <3>3. Contains_From_LineCol(p, x)
      BY <1>1, <2>2, <3>2, WithinOrder
    <3> QED BY <2>2, <2>4, <3>3 DEF Spans, WithBody
  <2>5. CASE r # p /\ ~PrintedFromSource(p)
    BY <2>1, <2>2, <2>5 DEF Spans, WithBody
  <2> QED BY <2>3, <2>4, <2>5
<1> QED BY <1>2, <1>3

AnonymousRecord(x) == IsStruct(x) /\ unit[x].name = "" /\ unit[x].parent = 0

\* A typedef that might name the tag does, or an earlier one.
LEMMA SomeTypedef ==
    ASSUME unit \in Units, NEW x \in Decls, unit[x].kind = "tag", unit[x].name = "",
           NEW t \in Decls, NamesTag(t, x)
    PROVE  TypedefForAnon(x) # {}
<1> DEFINE S == {s \in Decls : NamesTag(s, x)}
<1>1. S \in SUBSET Nat /\ S # {}
  BY UnitIs
<1>2. PICK l \in S : \A s \in S : l <= s
  <2> HIDE DEF S
  <2> QED BY <1>1, LeastOne
<1> QED BY <1>2 DEF TypedefForAnon

\* A record without a name has its body with what it stands in front of.
LEMMA AnonymousHasBody ==
    ASSUME AtPrint, NEW d \in Decls, NEW x \in unit[d].uses, AnonymousRecord(x), x \in AnalyzedDecls,
           unit[d].kind \in {"var", "typedef"} /\ Contains_From_LineCol(d, x) => d \in Spanned
    PROVE  x \in WithBody
<1>0. unit \in Units /\ x \in Decls /\ x \in TopLevel /\ unit[x].kind = "tag" /\ unit[x].name = "" /\ ~unit[x].enum
  BY AtPrintIs, UnitIs DEF AnonymousRecord, IsStruct, TopLevel
<1>1. Record(x) = x
  BY <1>0, RecordFacts
<1>2. CASE TypedefForAnon(x) # {}
  <2>1. Meant(x) = {x}
    BY <1>0, MeantIsDefinition
  <2>2. x \in Spanned
    BY <1>0, <2>1, MeantTagIsSpanned
  <2> QED BY <1>1, <1>2, <2>2, RequiredHasBody
<1>3. CASE TypedefForAnon(x) = {}
  <2>1. unit[d].kind \in {"var", "typedef"} /\ Contains_From_LineCol(d, x)
    <3>1. d \in DeclsOf(unit)
      BY DEF Decls
    <3>2. \/ unit[d].kind \in {"var", "typedef"} /\ Within(unit, d, x)
          \/ \E t \in DeclsOf(unit) : /\ unit[t].kind = "typedef" /\ x \in unit[t].uses
                                      /\ unit[t].tag = x /\ unit[t].via = "direct"
      BY <1>0, <3>1, AnonymousAssumption DEF AnonymousRecord
    <3>3. ASSUME NEW t \in DeclsOf(unit), unit[t].kind = "typedef", x \in unit[t].uses,
                 unit[t].tag = x, unit[t].via = "direct"
          PROVE  FALSE
      BY <1>0, <1>3, <3>3, SomeTypedef DEF NamesTag, Decls
    <3> QED BY <3>2, <3>3 DEF Contains_From_LineCol
  <2>2. d \in Spanned /\ unit[d].kind # "tag" /\ d # x
    BY <1>0, <2>1
  <2>3. d \in TopLevel
    BY <1>0, <2>2, NestedIs DEF TopLevel
  <2>4. unit[d].how = "text"
    BY <1>0, <1>1, <2>1, <2>2, <2>3, OrdinaryIs DEF AtPrint
  <2>5. CASE d \in Included
    <3>1. unit[d].parent = 0 /\ unit[x].parent = 0 /\ Within(unit, d, x)
      BY <1>0, <2>1, <2>3 DEF TopLevel, Contains_From_LineCol
    <3>2. unit[x].file = unit[d].file
      BY <1>0, <2>2, <2>4, <3>1, TextAssumption DEF Decls
    <3> QED BY <1>0, <2>5, <3>2 DEF Included, WithBody
  <2>6. CASE d \notin Included
    <3>1. PICK p \in Printed : d \in Spans(p)
      BY <2>2, <2>6 DEF Spanned
    <3>2. p \in TopLevel /\ p \in Decls
      BY <1>0, UnitIs DEF Printed
    <3>3. Record(d) = d /\ TypedefForAnon(d) = {}
      BY <1>0, <2>2, <2>3, RecordFacts DEF TypedefForAnon
    <3>4. unit[p].kind # "tag"
      BY <1>0, <2>2, <3>1, <3>2, <3>3, TagSpans
    <3>5. PrintedFromSource(p) /\ Contains_From_LineCol(p, d)
      <4>1. CASE p = d
        BY <1>0, <2>4, <3>2, <4>1, WithinOrder DEF PrintedFromSource
      <4>2. CASE p # d
        BY <3>1, <3>3, <4>2 DEF Spans
      <4> QED BY <4>1, <4>2
    <3>6. Contains_From_LineCol(p, x)
      BY <1>0, <2>1, <3>2, <3>5, WithinOrder
    <3>7. x \in Spans(p)
      BY <1>0, <3>5, <3>6 DEF Spans
    <3> QED BY <3>1, <3>4, <3>7, OthersKeepTheirBody DEF IsStruct
  <2> QED BY <2>5, <2>6
<1> QED BY <1>2, <1>3

\* An analyzed variable or typedef with an anonymous tag in it is left.
LEMMA DeclaratorIsThere ==
    ASSUME AtPrint, NEW e \in AnalyzedDecls, unit[e].kind \in {"var", "typedef"},
           NEW x \in Decls, AnonymousRecord(x), Contains_From_LineCol(e, x)
    PROVE  e \in Spanned
<1>0. unit \in Units /\ e \in Decls /\ x \in TopLevel /\ unit[x].kind = "tag" /\ x # e
  BY AtPrintIs DEF AnonymousRecord, IsStruct, TopLevel
<1>1. Record(x) = x /\ e \in TopLevel
  BY <1>0, RecordFacts, NestedIs DEF TopLevel
<1>2. e \in computed
  BY AtPrintIs DEF Marks
<1>3. PICK c \in Spanned : Stands(c, e)
  BY <1>2, AtPrintIs
<1>4. \A y \in Prevs(e) : ~Is_Decl_Equivalent_To(e, y)
  BY <1>0, <1>1, OrdinaryIs DEF AtPrint
<1> QED BY <1>3, <1>4 DEF Stands

\* What a declaration that is left leads to was analyzed; without a name it has its body.
LEMMA LeadsAreServed ==
    ASSUME AtPrint, NEW d \in Spanned, NEW x, Leads(unit, d, x)
    PROVE  x \in Decls /\ Meant(x) \subseteq AnalyzedDecls /\ (AnonymousRecord(x) => x \in WithBody)
<1>0. unit \in Units /\ AnalyzedDecls \subseteq Decls /\ Analyzed /\ d \in Decls
  BY AtPrintIs, WithBodyIs
<1> DEFINE S == {y \in Decls : Meant(y) \subseteq AnalyzedDecls /\ (AnonymousRecord(y) => y \in WithBody)}
<1>1. ASSUME NEW e \in Decls, UsesAnalyzed(e), e \in Spanned \/ e \in AnalyzedDecls
      PROVE  unit[e].uses \subseteq S
  <2> SUFFICES ASSUME NEW y \in unit[e].uses PROVE y \in S
    OBVIOUS
  <2>1. y \in Decls /\ Meant(y) \subseteq AnalyzedDecls
    BY <1>0, <1>1, UnitIs DEF UsesAnalyzed
  <2>2. ASSUME AnonymousRecord(y) PROVE y \in WithBody
    <3>1. Meant(y) = {y}
      BY <2>1, <2>2 DEF AnonymousRecord, Meant
    <3>2. unit[e].kind \in {"var", "typedef"} /\ Contains_From_LineCol(e, y) => e \in Spanned
      BY <1>1, <2>1, <2>2, DeclaratorIsThere
    <3> QED BY <1>1, <2>1, <2>2, <3>1, <3>2, AnonymousHasBody
  <2> QED BY <2>1, <2>2
<1>2. unit[d].uses \subseteq S
  <2>1. UsesAnalyzed(d)
    BY Served DEF AtPrint
  <2> QED BY <1>0, <1>1, <2>1
<1>3. ASSUME NEW e \in S PROVE unit[e].uses \subseteq S
  <2>1. CASE unit[e].kind = "tag" /\ ~unit[e].def
    BY <1>0, <2>1, UsesAssumption DEF Decls
  <2>2. CASE unit[e].kind # "tag" \/ unit[e].def
    <3>1. Meant(e) = {e}
      BY <1>0, <2>2, MeantIsDefinition DEF Meant
    <3>2. UsesAnalyzed(e) /\ e \in AnalyzedDecls
      BY <1>0, <3>1, AnalyzedUses
    <3> HIDE DEF S
    <3> QED BY <1>0, <1>1, <3>2
  <2> QED BY <2>1, <2>2
<1>4. ASSUME NEW e \in S, NEW y \in DeclsOf(unit), OneEntity(unit, e, y), unit[y].kind = "tag", unit[y].def
      PROVE  y \in S
  <2>1. y \in Decls /\ SameEntity(e, y) /\ unit[y].name # ""
    BY <1>4 DEF Decls, SameEntity, OneEntity
  <2>2. Meant(y) = {y} /\ unit[e].kind = "tag" /\ unit[e].name # ""
    BY <1>0, <1>4, <2>1, MeantIsDefinition, EntityFacts DEF SameEntity, OneEntity
  <2>3. y \in Definitions(e)
    BY <1>4, <2>1, SameEntityIs DEF Definitions
  <2>4. y \in Meant(e)
    BY <2>2, <2>3 DEF Meant
  <2> QED BY <2>1, <2>2, <2>4 DEF AnonymousRecord
<1>5. S \in SUBSET DeclsOf(unit)
  BY DEF Decls
<1>6. x \in S
  <2> HIDE DEF S
  <2> QED BY <1>2, <1>3, <1>4, <1>5 DEF Leads
<1> QED BY <1>6

\* The bodies that the visitor knows to be needed are required.
LEMMA CompletedIsRequired ==
    ASSUME AtPrint, NEW d \in Spanned, unit[d].kind \in {"func", "var"}, ~unit[d].builtin,
           NEW x \in unit[d].completes, x \in Decls, Meant(x) = {x}
    PROVE  x \in Required
<1>0. /\ Analyzed /\ unit \in Units /\ AnalyzedDecls \subseteq Decls /\ d \in Decls
      /\ computed = UNION {Marks(a) : a \in AnalyzedDecls}
      /\ \A a \in AnalyzedDecls : Refs(a) \subseteq AnalyzedDecls
  BY AnalyzedAtPrint, WithBodyIs DEF AtPrint, SInv, Analyzed
<1>1. d \in TopLevel
  BY <1>0, NestedIs DEF TopLevel
<1>2. d \in AnalyzedDecls => x \in Required
  <2>1. x \in Completes(d)
    BY DEF Completes
  <2> QED BY <2>1 DEF AtPrint, RInv
<1>3. CASE d \in Included
  <2>1. KeepIncludes /\ unit[d].file = "included"
    BY <1>3 DEF Included
  <2>2. InKeptHeader(d) /\ d \in 1 .. kept
    BY <1>0, <1>1, <2>1, UnitIs DEF InKeptHeader, AtPrint, SInv, AInv, ClosureTypeOK, Later
  <2> QED BY <1>2, <2>1, <2>2 DEF AtPrint, SInv, AInv, KeptAreAnalyzed
<1>4. CASE d \notin Included
  <2>1. PICK p \in Printed : d \in Spans(p)
    BY <1>4 DEF Spanned
  <2>2. p \in TopLevel /\ p \in Decls /\ p \in computed
    BY <1>0, <2>1, UnitIs DEF Printed, AtPrint, SInv, Later
  <2>3. PICK a \in AnalyzedDecls : p \in Marks(a)
    BY <1>0, <2>2
  <2>4. Followed(p) /\ (p \in AnalyzedDecls \/ p \in TypedefForAnon(a))
    BY <1>0, <2>3, MarkedAreFollowed, MarksOfClosed
  <2>5. CASE p = d
    <3>1. p \notin TypedefForAnon(a)
      BY <1>0, <2>3, <2>5, AnonymousIs
    <3> QED BY <1>2, <2>4, <2>5, <3>1
  <2>6. CASE p # d
    <3>1. Record(d) = d /\ TypedefForAnon(d) = {}
      BY <1>0, <1>1, RecordFacts DEF TypedefForAnon
    <3>2. PrintedFromSource(p) /\ Contains_From_LineCol(p, d)
      BY <2>1, <2>6, <3>1 DEF Spans
    <3>3. /\ unit[p].how = "text" /\ unit[p].parent = 0 /\ unit[d].parent = 0 /\ Within(unit, p, d)
          /\ p \in DeclsOf(unit) /\ d \in DeclsOf(unit)
      BY <1>0, <1>1, <2>2, <3>2 DEF PrintedFromSource, TopLevel, Contains_From_LineCol, Decls
    <3>4. unit[p].kind # "tag" /\ unit[d].begin = unit[p].begin
      BY <1>0, <2>6, <3>3, TextAssumption
    <3>5. d \in SameBeginloc(p)
      BY <1>1, <2>2, <3>4 DEF AtPrint, SearchSuffices
    <3> QED BY <1>2, <2>4, <3>4, <3>5 DEF Followed
  <2> QED BY <2>5, <2>6
<1> QED BY <1>3, <1>4

\* What is nested and used from outside has its body.
LEMMA NestedHasBody ==
    ASSUME AtPrint, NEW x \in Spanned, x \in AnalyzedDecls, UsedFromOutside(x)
    PROVE  x \in WithBody
<1>0. /\ unit \in Units /\ AnalyzedDecls \subseteq Decls /\ x \in Decls /\ Record(x) \in Decls
      /\ \A a \in AnalyzedDecls : Refs(a) \subseteq AnalyzedDecls
  BY AtPrintIs, RecordFacts, UnitIs DEF Analyzed
<1>1. /\ unit[Record(x)].name # "" \/ TypedefForAnon(Record(x)) # {}
      /\ unit[Record(x)].required \/ OnlyThroughNested(Record(x))
  BY <1>0 DEF AtPrint, NestedFirst
<1>2. Record(x) \in AnalyzedDecls
  BY <1>0, ClosedUnderNesting
<1>3. Record(x) \in Required
  BY <1>0, <1>1, <1>2 DEF AtPrint, RInv, Met
<1> QED BY <1>1, <1>3, RequiredHasBody

\* Every tag whose body is needed has its body.
LEMMA NeedsAreThere ==
    ASSUME AtPrint, NEW d \in WithBody, NEW x \in unit[d].needs
    PROVE  x \in WithBody
<1>0. unit \in Units /\ AnalyzedDecls \subseteq Decls /\ d \in Decls /\ d \in Spanned
  BY AtPrintIs, WithBodyIs
<1>1. /\ unit[x].kind = "tag" /\ unit[x].def /\ Leads(unit, d, x)
      /\ \/ unit[x].enum
         \/ unit[x].required
         \/ x \in unit[d].completes /\ unit[d].kind \in {"func", "var"} /\ ~unit[d].builtin
  BY <1>0, CompleteAssumption DEF Decls
<1>2. x \in Decls /\ Meant(x) \subseteq AnalyzedDecls /\ (AnonymousRecord(x) => x \in WithBody)
  BY <1>0, <1>1, LeadsAreServed
<1>3. Meant(x) = {x}
  BY <1>0, <1>1, <1>2, MeantIsDefinition
<1>4. x \in Spanned /\ x \in AnalyzedDecls
  BY <1>1, <1>2, <1>3, MeantTagIsSpanned
<1>5. CASE Record(x) = x
  <2>1. x \in TopLevel
    BY <1>0, <1>2, <1>5, RecordFacts
  <2>2. CASE unit[x].enum \/ AnonymousRecord(x)
    BY <1>2, <1>4, <1>5, <2>2, RequiredHasBody
  <2>3. CASE ~unit[x].enum /\ ~AnonymousRecord(x)
    <3>1. unit[x].name # ""
      BY <1>1, <2>1, <2>3 DEF AnonymousRecord, IsStruct, TopLevel
    <3>2. x \in Required
      BY <1>0, <1>1, <1>2, <1>3, <2>3, CompletedIsRequired DEF AtPrint, RInv
    <3> QED BY <1>4, <1>5, <3>1, <3>2, RequiredHasBody
  <2> QED BY <2>2, <2>3
<1>6. CASE Record(x) # x /\ Record(x) = Record(d)
  BY <1>0, <1>2, <1>6, SameRecord
<1>7. CASE Record(x) # x /\ Record(x) # Record(d)
  <2>1. \A m \in Definitions(x) : m = x
    BY <1>0, <1>1, <1>2, EntityFacts DEF Definitions
  <2>2. UsedFromOutside(x)
    BY <1>0, <1>7, <2>1 DEF UsedFromOutside
  <2> QED BY <1>4, <2>2, NestedHasBody
<1> QED BY <1>5, <1>6, <1>7

\* A tag that is used, and is not defined again between, is declared.
LEMMA TagIsDeclared ==
    ASSUME AtPrint, NEW d \in WithBody, NEW x \in unit[d].uses,
           NEW e \in Spanned, e \in AnalyzedDecls, unit[e].kind = "tag", e = x \/ SameEntity(e, x),
           \A m \in Definitions(e) : m = e \/ m > d
    PROVE  e \in Available
<1>0. /\ unit \in Units /\ AnalyzedDecls \subseteq Decls /\ d \in Decls /\ d \in Spanned /\ e \in Decls
      /\ WithBody \subseteq Available
  BY AtPrintIs, WithBodyIs
<1>1. CASE Record(e) = e /\ unit[e].name # ""
  <2>1. CASE e \in Included
    BY <2>1 DEF Available
  <2>2. CASE e \notin Included
    <3>1. PICK p \in Printed : e \in Spans(p)
      BY <2>2 DEF Spanned
    <3>2. CASE IsStruct(p)
      <4>1. p = e
        BY <1>0, <1>1, <3>1, <3>2, TagSpans DEF IsStruct, Printed
      <4>2. e \in Declares(e)
        BY <1>1 DEF Declares, NotPrinted
      <4> QED BY <3>1, <4>1, <4>2 DEF Available
    <3>3. CASE ~IsStruct(p)
      BY <1>0, <3>1, <3>3, OthersKeepTheirBody
    <3> QED BY <3>2, <3>3
  <2> QED BY <2>1, <2>2
<1>2. CASE Record(e) = e /\ unit[e].name = ""
  <2>1. e = x
    BY <1>2 DEF SameEntity, OneEntity
  <2>2. e \in TopLevel
    BY <1>0, <1>2, RecordFacts
  <2>3. CASE unit[e].enum
    BY <1>0, <1>2, <2>3, RequiredHasBody
  <2>4. CASE ~unit[e].enum
    <3>1. AnonymousRecord(e)
      BY <1>2, <2>2, <2>4 DEF AnonymousRecord, IsStruct, TopLevel
    <3> QED BY <1>0, <2>1, <3>1, AnonymousHasBody
  <2> QED BY <2>3, <2>4
<1>3. CASE Record(e) # e /\ Record(e) = Record(d)
  BY <1>0, <1>3, SameRecord
<1>4. CASE Record(e) # e /\ Record(e) # Record(d)
  <2>1. x \in unit[d].uses \cup unit[d].needs /\ (x = e \/ SameEntity(e, x))
    OBVIOUS
  <2>2. UsedFromOutside(e)
    BY <1>0, <1>4, <2>1 DEF UsedFromOutside
  <2> QED BY <1>0, <2>2, NestedHasBody
<1> QED BY <1>1, <1>2, <1>3, <1>4

(* The output of an ordinary unit compiles and has what was asked for, for *)
(* every unit that is as FunctionDepsFinder assumes it, and whatever the   *)
(* order in which the hash set is visited.                                 *)
THEOREM UsesAreAvailableHolds == Spec => []UsesAreAvailable
<1>1. SInv /\ RInv => UsesAreAvailable
  <2> SUFFICES ASSUME AtPrint
               PROVE  /\ \A d \in TopLevel : unit[d].name \in Names /\ unit[d].kind # "tag" /\ ~unit[d].builtin =>
                            \E e \in WithBody : Says(e, d) \/ (SameEntity(e, d) /\ unit[e].def)
                      /\ \A d \in WithBody :
                            /\ unit[d].needs \subseteq WithBody
                            /\ \A x \in unit[d].uses : ~unit[x].builtin =>
                                  /\ \E e \in Available : (e <= d \/ Contains_From_LineCol(d, e)) /\ (e = x \/ SameEntity(e, x))
                                  /\ unit[x].static => Definitions(x) \subseteq WithBody
    BY DEF UsesAreAvailable, AtPrint
  <2>0. unit \in Units /\ WithBody \subseteq Available /\ Available \subseteq Spanned /\ Spanned \subseteq Decls
    BY AtPrintIs, WithBodyIs
  <2>1. ASSUME NEW d \in TopLevel, unit[d].name \in Names, unit[d].kind # "tag", ~unit[d].builtin
        PROVE  \E e \in WithBody : Says(e, d) \/ (SameEntity(e, d) /\ unit[e].def)
    <3>1. PICK e \in Spanned : Says(e, d) \/ (SameEntity(e, d) /\ unit[e].def)
      BY <2>1, RequestedIsSpanned
    <3>2. unit[e].kind # "tag"
      BY <2>1, <3>1 DEF Says, SameEntity, OneEntity
    <3> QED BY <2>0, <3>1, <3>2, NonTagHasBody
  <2>2. ASSUME NEW d \in WithBody
        PROVE  unit[d].needs \subseteq WithBody
    BY NeedsAreThere
  <2>3. ASSUME NEW d \in WithBody, NEW x \in unit[d].uses, ~unit[x].builtin
        PROVE  /\ \E e \in Available : (e <= d \/ Contains_From_LineCol(d, e)) /\ (e = x \/ SameEntity(e, x))
               /\ unit[x].static => Definitions(x) \subseteq WithBody
    <3>1. d \in Spanned /\ d \in Decls /\ UsesAnalyzed(d)
      BY <2>0, Served DEF AtPrint
    <3>2. x \in Decls /\ Meant(x) \subseteq AnalyzedDecls
      BY <2>0, <3>1, UnitIs DEF UsesAnalyzed
    <3>3. PICK e \in Spanned : /\ Near(e, d) /\ (e = x \/ SameEntity(e, x))
                               /\ unit[x].kind = "tag" =>
                                      e \in AnalyzedDecls /\ \A y \in Definitions(e) : y = e \/ y > d
      BY <2>3, <3>1, <3>2, UsedIsDeclared
    <3>4. unit[e].kind = "tag" <=> unit[x].kind = "tag"
      BY <3>3 DEF SameEntity, OneEntity
    <3>5. e \in Available
      <4>1. CASE unit[e].kind = "tag"
        BY <3>3, <3>4, <4>1, TagIsDeclared
      <4>2. CASE unit[e].kind # "tag"
        BY <2>0, <4>2, NonTagHasBody
      <4> QED BY <4>1, <4>2
    <3>6. ASSUME unit[x].static, NEW f \in Definitions(x) PROVE f \in WithBody
      <4>1. f \in Spanned
        BY <2>3, <3>2, <3>6, StaticIsSpanned
      <4>2. unit[x].kind \in {"func", "var"}
        BY <2>0, <3>2, <3>6, EntityAssumption DEF Decls
      <4>3. unit[f].kind # "tag"
        BY <4>2 DEF Definitions, SameEntity, OneEntity
      <4> QED BY <2>0, <4>1, <4>3, NonTagHasBody
    <3> QED BY <3>3, <3>5, <3>6 DEF Near
  <2> QED BY <2>1, <2>2, <2>3
<1> QED BY <1>1, SurvivorsInvariant, RequiredInvariant, PTL
=============================================================================
