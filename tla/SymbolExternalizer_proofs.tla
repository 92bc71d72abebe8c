--------------------- MODULE SymbolExternalizer_proofs ---------------------
(***************************************************************************)
(* What SymbolExternalizer promises, for every translation unit that is    *)
(* Ordinary: the requests that are filed never conflict, the text that     *)
(* they leave declares what it uses, and the log is true.                  *)
(***************************************************************************)
EXTENDS SymbolExternalizer, FiniteSetTheorems, SequenceTheorems, TLAPS

Dom == DOMAIN ExtType
Strong(s) == s \in Dom /\ ExtType[s] = "STRONG"
Weak(s) == s \in Dom /\ ExtType[s] = "WEAK"
Rename(s) == s \in Dom /\ ExtType[s] = "RENAME"
InPlaceText(s) ==
  IF ExtType[s] = "STRONG" /\ ~AllowLateExternalization THEN "klpe_" ELSE "removed"
LateDecl(s) == [at |-> First(FirstUse[s]), what |-> <<"klpe_", s>>]

-----------------------------------------------------------------------------
\* What Init says of the program, which no step changes.
InputOK ==
  /\ unit \in Seq(Declarators)
  /\ WellFormed
  /\ Macros \cap Extract = {}
  /\ Dom \subseteq Symbols
  /\ \A s \in Dom : ExtType[s] \in {"RENAME", "STRONG", "WEAK"}
  /\ \A s \in Dom : ExtType[s] = "RENAME" <=> s \in Extract

\* The visitor has met a prefix of the visits, in their order.
VisitInv ==
  /\ nodes \subseteq Visits
  /\ \A v \in Visits \ nodes, w \in nodes : ~Before(w, v)
  /\ phase \in {"visit", "late", "commit", "done"}
  /\ phase # "visit" => nodes = {}

\* OldDecl is a declaration of its symbol, for an externalized one the first.
DeclInv ==
  /\ OldDecl \in [Symbols -> [top : Nat, kind : {"decl"}]]
  /\ \A s \in Dom : Found(s) => OldDecl[s].top \in Of(s)
  /\ \A s \in Dom : Strong(s) /\ Found(s) => \A j \in Of(s) : OldDecl[s].top <= j
  /\ \A s \in Dom : \A i \in Of(s) : Visit(i, "decl", s) \notin nodes => Found(s)

\* FirstUse is a use that the closure keeps, and no other is before it.
UseInv ==
  /\ FirstUse \in [Symbols -> Nat]
  /\ \A s \in Dom : FirstUse[s] # 0 =>
       FirstUse[s] \in Index /\ Visit(FirstUse[s], "use", s) \in Visits \ nodes
  /\ \A v \in Visits \ nodes :
       v.kind = "use" /\ v.top \in closure => FirstUse[v.sym] # 0 /\ FirstUse[v.sym] <= v.top

\* The requests there may be, by the part that they replace.
DeclRequest(r) ==
  /\ r.top \in Of(r.sym)
  /\ \/ Weak(r.sym) /\ r.top \in Definition(r.sym) /\ \E k \in Of(r.sym) : k # r.top
     \/ /\ Strong(r.sym) /\ ~Ibt /\ r.sym \in StrongLog
        /\ ~AllowLateExternalization => r.top = OldDecl[r.sym].top
  /\ r = Request(r.top, "decl", r.sym, InPlaceText(r.sym), 1000)
BodyRequest(r) ==
  /\ r = Request(r.top, "body", r.sym, "semicolon", 1000)
  /\ r.top \in Of(r.sym) /\ Strong(r.sym) /\ Ibt
NameRequest(r) ==
  /\ r = Request(r.top, "name", r.sym, "klpp_", 100)
  /\ r.top \in Of(r.sym) /\ Rename(r.sym)
UseRequest(r) ==
  /\ r = Request(r.top, "use", r.sym, "use", 100)
  /\ r.top \in Index /\ (Rename(r.sym) \/ (Strong(r.sym) /\ ~Ibt))
StaticRequest(r) ==
  /\ r.top \in Index
  /\ r = Request(r.top, "static", NoSymbol,
                 IF Rename(unit[r.top].sym) THEN "removed" ELSE "extern", 10)
MacroRequest(r) ==
  /\ r = Request(r.top, "macro", r.sym, "use", 10) /\ r.top \in MacroPlaces(r.sym)
  /\ r.sym \in Macros \cap Dom /\ Needs_Sym_Rename(r.sym) /\ phase # "visit"
RequestOK(r) ==
  \/ DeclRequest(r) \/ BodyRequest(r) \/ NameRequest(r)
  \/ UseRequest(r) \/ StaticRequest(r) \/ MacroRequest(r)
RequestInv == \A r \in requests : RequestOK(r)

\* The requests that there are for what the visitor has met.
RenamedInv ==
  /\ \A s \in Dom : \A i \in Of(s) : Rename(s) /\ Visit(i, "decl", s) \notin nodes =>
       Request(i, "name", s, "klpp_", 100) \in requests
  /\ \A v \in Visits \ nodes :
       v.kind = "use" /\ v.sym \notin Macros
         /\ (Rename(v.sym) \/ (Strong(v.sym) /\ ~Ibt)) =>
       Request(v.top, "use", v.sym, "use", 100) \in requests
  /\ phase \in {"commit", "done"} =>
       \A s \in Macros \cap Dom :
         Needs_Sym_Rename(s) =>
           \A p \in MacroPlaces(s) : Request(p, "macro", s, "use", 10) \in requests

\* The log has the symbols that are in use and done with, and for these the
\* declaration or the requests that externalize them.
Used == {s \in Dom : Is_Used(s)}
InsertOK(ins) ==
  \/ ~Ibt /\ AllowLateExternalization /\ \E s \in StrongLog : ins = LateDecl(s)
  \/ \E s \in Symbols : ins.what = <<"extern", s>>
Externalized(s) ==
  /\ ~Ibt /\ AllowLateExternalization => LateDecl(s) \in inserts
  /\ ~Ibt /\ ~AllowLateExternalization =>
       Request(OldDecl[s].top, "decl", s, "klpe_", 1000) \in requests
  /\ Ibt => \A d \in Definition(s) : Request(d, "body", s, "semicolon", 1000) \in requests
LogInv ==
  /\ array \subseteq Used
  /\ phase # "late" => array = {}
  /\ StrongLog = IF phase = "visit" THEN {} ELSE Used \ array
  /\ \A ins \in inserts : InsertOK(ins)
  /\ \A s \in StrongLog : Externalized(s)

KeptInv == Done => kept \subseteq requests /\ Promised(kept)

OrdinaryInv ==
  VisitInv /\ DeclInv /\ UseInv /\ RequestInv /\ RenamedInv /\ LogInv /\ KeptInv
IInv == InputOK /\ (Ordinary => OrdinaryInv)

-----------------------------------------------------------------------------
(***************************************************************************)
(* Facts about the program, which are the same in every state.             *)
(***************************************************************************)
\* A declarator that is joined to no other is its whole declaration.
LEMMA FirstIsItself ==
  ASSUME Separate, unit \in Seq(Declarators), NEW i \in Index
  PROVE  First(i) = i
<1>1. i \in Nat \ {0} /\ \A k \in 1..i : ~unit[k].joined
  BY DEF Index, Separate
<1> DEFINE P(k) == ~unit[k].joined /\ \A j \in (k + 1)..i : unit[j].joined
<1>2. i \in 1..i /\ P(i)
  BY <1>1
<1>3. \A k \in 1..i : P(k) => k = i
  <2> SUFFICES ASSUME NEW k \in 1..i, P(k), k # i PROVE FALSE
    OBVIOUS
  <2>1. i \in (k + 1)..i
    BY <1>1
  <2>2. QED
    BY <2>1, <1>1, <1>2
<1> HIDE DEF P
<1>4. (CHOOSE k \in 1..i : P(k)) = i
  BY <1>2, <1>3
<1>5. QED
  BY <1>4 DEF First, P

\* What the visitor meets, where no parameter has the name of a symbol.
LEMMA VisitFacts ==
  ASSUME Unshadowed
  PROVE  /\ \A v \in Visits :
              /\ v = Visit(v.top, v.kind, v.sym) /\ v.top \in Index /\ v.sym \in Dom
              /\ \/ v.kind = "decl" /\ v.top \in Of(v.sym)
                 \/ v.kind = "use" /\ v.sym \in unit[v.top].refs
         /\ \A s \in Dom : \A i \in Of(s) : Visit(i, "decl", s) \in Visits
         /\ \A i \in Index : \A s \in unit[i].refs \cap Dom : Visit(i, "use", s) \in Visits
<1>1. ASSUME NEW v \in Visits
      PROVE  /\ v = Visit(v.top, v.kind, v.sym) /\ v.top \in Index /\ v.sym \in Dom
             /\ \/ v.kind = "decl" /\ v.top \in Of(v.sym)
                \/ v.kind = "use" /\ v.sym \in unit[v.top].refs
  <2>1. PICK i \in Index : v \in VisitsOf(i) /\ v.sym \in Dom
    BY DEF Visits, Dom
  <2>2. CASE v = Visit(i, "decl", unit[i].sym)
    BY <2>1, <2>2 DEF Visit, Of
  <2>3. CASE \E s \in {unit[i].param} \ {NoSymbol} : v = Visit(i, "param", s)
    BY <2>1, <2>3 DEF Visit, Unshadowed, Dom
  <2>4. CASE \E s \in unit[i].refs : v = Visit(i, "use", s)
    BY <2>1, <2>4 DEF Visit
  <2>5. QED
    BY <2>1, <2>2, <2>3, <2>4 DEF VisitsOf
<1>2. ASSUME NEW s \in Dom, NEW i \in Of(s) PROVE Visit(i, "decl", s) \in Visits
  <2>1. Visit(i, "decl", s) \in VisitsOf(i) /\ i \in Index
    BY DEF VisitsOf, Of
  <2>2. QED
    BY <2>1 DEF Visits, Visit, Dom
<1>3. ASSUME NEW i \in Index, NEW s \in unit[i].refs \cap Dom PROVE Visit(i, "use", s) \in Visits
  <2>1. Visit(i, "use", s) \in VisitsOf(i)
    BY DEF VisitsOf
  <2>2. QED
    BY <2>1 DEF Visits, Visit, Dom
<1>4. QED
  BY <1>1, <1>2, <1>3

\* The order of the visitor.
LEMMA OrderFacts ==
  ASSUME NEW i \in Nat, NEW j \in Nat, NEW s, NEW t
  PROVE  /\ i < j => Before(Visit(i, "decl", s), Visit(j, "decl", t))
         /\ i <= j => Before(Visit(i, "decl", s), Visit(j, "use", t))
         /\ i < j => Before(Visit(i, "use", s), Visit(j, "use", t))
  BY DEF Before, Visit, Rank

\* A name that a body uses, and that SymbolsMap has, is declared in its scope.
LEMMA ScopeFacts ==
  ASSUME InputOK, NEW i \in Index, NEW s \in unit[i].refs \ {unit[i].param}
  PROVE  \E j \in Of(s) : j <= i /\ (j < i \/ IsFunction(i))
  BY DEF InputOK, WellFormed, InScope, Of, Index

LEMMA UnchangedInput ==
  ASSUME UNCHANGED input
  PROVE  /\ InputOK' = InputOK /\ Ordinary' = Ordinary
         /\ Index' = Index /\ Visits' = Visits /\ Dom' = Dom
         /\ \A s : Of(s)' = Of(s) /\ Definition(s)' = Definition(s)
         /\ \A i : First(i)' = First(i)
         /\ \A s : MacroPlaces(s)' = MacroPlaces(s)
         /\ \A s : /\ Strong(s)' = Strong(s) /\ Weak(s)' = Weak(s)
                  /\ Rename(s)' = Rename(s) /\ InPlaceText(s)' = InPlaceText(s)
<1> USE DEF input
<1>1. Index' = Index /\ Dom' = Dom
  BY DEF Index, Dom
<1>2. \A s : Of(s)' = Of(s)
  BY <1>1 DEF Of
<1>3. \A s : Definition(s)' = Definition(s)
  BY <1>2 DEF Definition
<1>4. \A i : First(i)' = First(i)
  BY DEF First
<1>5. Visits' = Visits
  BY <1>1 DEF Visits, VisitsOf, Dom
<1>6. \A s : /\ Strong(s)' = Strong(s) /\ Weak(s)' = Weak(s)
            /\ Rename(s)' = Rename(s)
  BY <1>1 DEF Strong, Weak, Rename
<1>7. \A s : InPlaceText(s)' = InPlaceText(s)
  BY DEF InPlaceText
<1>8. InputOK' = InputOK
  BY DEF InputOK, WellFormed, Dom, Index, Definition, Of, InScope, IsFunction
<1>9. Ordinary' = Ordinary
  BY DEF Ordinary, Separate, Unshadowed, PrototypesFirst, Index, Definition, Of
<1>10. \A s : MacroPlaces(s)' = MacroPlaces(s)
  BY <1>1 DEF MacroPlaces
<1>11. QED
  BY <1>1, <1>2, <1>3, <1>4, <1>5, <1>6, <1>7, <1>8, <1>9, <1>10

\* What a new entry of the log changes.
LEMMA LogFacts ==
  /\ Log' = Log => StrongLog' = StrongLog
  /\ \A s : Log' = Log \cup {[sym |-> s, type |-> "RENAME"]} => StrongLog' = StrongLog
  /\ \A s : Log' = Log \cup {[sym |-> s, type |-> "STRONG"]} =>
       StrongLog' = StrongLog \cup {s}
<1> DEFINE E(L) == {e.sym : e \in {x \in L : x.type = "STRONG"}}
<1>1. StrongLog = E(Log) /\ StrongLog' = E(Log')
  BY DEF StrongLog
<1>2. ASSUME NEW s, NEW L PROVE E(L \cup {[sym |-> s, type |-> "RENAME"]}) = E(L)
  OBVIOUS
<1>3. ASSUME NEW s, NEW L PROVE E(L \cup {[sym |-> s, type |-> "STRONG"]}) = E(L) \cup {s}
  <2> DEFINE r == [sym |-> s, type |-> "STRONG"]
  <2>1. r.sym = s /\ r.type = "STRONG"
    OBVIOUS
  <2> HIDE DEF r
  <2>2. E(L \cup {r}) = E(L) \cup {s}
    BY <2>1
  <2>3. QED
    BY <2>2 DEF r
<1> HIDE DEF E
<1>4. QED
  BY <1>1, <1>2, <1>3

-----------------------------------------------------------------------------
LEMMA InitIInv == Init => IInv
<1> SUFFICES ASSUME Init PROVE IInv
  OBVIOUS
<1>1. InputOK
  <2>1. unit \in Seq(Declarators)
    <3>1. PICK n \in 1..MaxDecls : unit \in [1..n -> Declarators]
      BY DEF Init
    <3>2. n \in Nat
      BY <3>1, BoundOK
    <3>3. QED
      BY <3>1, <3>2, SeqDef
  <2>2. WellFormed /\ ExtType \in SymbolsMaps /\ Macros \in MacroSets
    BY DEF Init
  <2>3. /\ Dom \subseteq Symbols
        /\ \A s \in Dom : ExtType[s] \in {"RENAME", "STRONG", "WEAK"}
        /\ \A s \in Dom : ExtType[s] = "RENAME" <=> s \in Extract
    BY <2>2, MapsOK DEF Dom
  <2>4. Macros \cap Extract = {}
    BY <2>2, MacrosOK
  <2>5. QED
    BY <2>1, <2>2, <2>3, <2>4 DEF InputOK
<1> SUFFICES ASSUME Ordinary PROVE OrdinaryInv
  BY <1>1 DEF IInv
<1>2. /\ nodes = Visits /\ phase = "visit" /\ FirstUse = [s \in Symbols |-> 0]
      /\ OldDecl = [s \in Symbols |-> NoDecl]
      /\ array = {} /\ requests = {} /\ inserts = {} /\ Log = {} /\ kept = {}
  BY DEF Init
<1>3. StrongLog = {}
  BY <1>2 DEF StrongLog
<1>4. VisitInv
  BY <1>2 DEF VisitInv
<1>5. DeclInv
  <2>1. \A s \in Dom : ~Found(s)
    BY <1>1, <1>2 DEF Found, InputOK
  <2>2. \A s \in Dom : \A i \in Of(s) : Visit(i, "decl", s) \in nodes
    BY <1>2, VisitFacts DEF Ordinary
  <2>3. OldDecl \in [Symbols -> [top : Nat, kind : {"decl"}]]
    BY <1>2 DEF NoDecl
  <2>4. QED
    BY <2>1, <2>2, <2>3 DEF DeclInv
<1>6. UseInv
  BY <1>1, <1>2 DEF UseInv, InputOK
<1>7. RequestInv /\ KeptInv
  BY <1>2 DEF RequestInv, KeptInv, Done
<1>8. RenamedInv
  <2>1. \A s \in Dom : \A i \in Of(s) : Visit(i, "decl", s) \in nodes
    BY <1>2, VisitFacts DEF Ordinary
  <2>2. QED
    BY <1>2, <2>1 DEF RenamedInv
<1>9. LogInv
  BY <1>2, <1>3 DEF LogInv
<1>10. QED
  BY <1>4, <1>5, <1>6, <1>7, <1>8, <1>9 DEF OrdinaryInv

-----------------------------------------------------------------------------
(***************************************************************************)
(* What the steps have in common.                                          *)
(***************************************************************************)
\* A visit of the visitor.
LEMMA VisitStep ==
  ASSUME InputOK, Ordinary, OrdinaryInv, NEW v \in nodes, NEW kinds, Visiting(v, kinds),
         UNCHANGED input, phase' = phase
  PROVE  /\ VisitInv'
         /\ v \in Visits /\ phase = "visit" /\ StrongLog = {} /\ array = {} /\ nodes' = nodes \ {v}
         /\ \A w \in nodes : ~Before(w, v)
         /\ \A u \in Visits \ nodes : ~Before(v, u)
<1>1. /\ phase = "visit" /\ \A w \in nodes : ~Before(w, v)
      /\ nodes' = nodes \ {v}
  BY DEF Visiting
<1>2. Visits' = Visits
  BY UnchangedInput
<1>3. VisitInv'
  BY <1>1, <1>2 DEF OrdinaryInv, VisitInv
<1>4. v \in Visits /\ \A u \in Visits \ nodes : ~Before(v, u)
  BY DEF OrdinaryInv, VisitInv
<1>5. StrongLog = {} /\ array = {}
  BY <1>1 DEF OrdinaryInv, LogInv
<1>6. QED
  BY <1>1, <1>3, <1>4, <1>5

\* A request that was filed stays what it is.
LEMMA OldRequests ==
  ASSUME InputOK, OrdinaryInv, UNCHANGED input, StrongLog \subseteq StrongLog',
         \/ phase = "visit" /\ phase' = "visit"
         \/ OldDecl' = OldDecl /\ phase' # "visit"
  PROVE  \A r \in requests : RequestOK(r)'
<1> SUFFICES ASSUME NEW r \in requests PROVE RequestOK(r)'
  OBVIOUS
<1>1. RequestOK(r)
  BY DEF OrdinaryInv, RequestInv
<1>2. CASE DeclRequest(r)
  <2>1. phase = "visit" => StrongLog = {}
    BY DEF OrdinaryInv, LogInv
  <2>2. DeclRequest(r)'
    BY <1>2, <2>1, UnchangedInput DEF DeclRequest, Request, input
  <2>3. QED
    BY <2>2 DEF RequestOK
<1>3. CASE BodyRequest(r)
  <2>1. BodyRequest(r)'
    BY <1>3, UnchangedInput DEF BodyRequest, Request, input
  <2>2. QED
    BY <2>1 DEF RequestOK
<1>4. CASE NameRequest(r)
  <2>1. NameRequest(r)'
    BY <1>4, UnchangedInput DEF NameRequest, Request, input
  <2>2. QED
    BY <2>1 DEF RequestOK
<1>5. CASE UseRequest(r)
  <2>1. UseRequest(r)'
    BY <1>5, UnchangedInput DEF UseRequest, Request, input
  <2>2. QED
    BY <2>1 DEF RequestOK
<1>6. CASE StaticRequest(r)
  <2>1. StaticRequest(r)'
    BY <1>6, UnchangedInput DEF StaticRequest, Request, input
  <2>2. QED
    BY <2>1 DEF RequestOK
<1>7. CASE MacroRequest(r)
  <2>1. phase # "visit"
    BY <1>7 DEF MacroRequest
  <2>2. OldDecl' = OldDecl /\ phase' # "visit"
    BY <2>1
  <2>3. MacroRequest(r)'
    BY <1>7, <2>2, UnchangedInput DEF MacroRequest, Request, input, Needs_Sym_Rename, Found
  <2>4. QED
    BY <2>3 DEF RequestOK
<1>8. QED
  BY <1>1, <1>2, <1>3, <1>4, <1>5, <1>6, <1>7 DEF RequestOK

-----------------------------------------------------------------------------
(***************************************************************************)
(* The visitor meets a declarator.                                         *)
(***************************************************************************)
LEMMA VisitDecl ==
  ASSUME InputOK, Ordinary, OrdinaryInv, NEW v \in nodes, Visiting(v, {"decl", "param"}),
         UNCHANGED <<input, FirstUse, array, inserts, kept, phase>>,
         \/ OldDecl' = FirstDecl(v)
         \/ Weak(v.sym) /\ OldDecl' = [OldDecl EXCEPT ![v.sym] = DeclOf(v)],
         StrongLog' = StrongLog
  PROVE  /\ VisitInv' /\ DeclInv' /\ UseInv' /\ LogInv' /\ KeptInv'
         /\ v = Visit(v.top, "decl", v.sym) /\ v.top \in Of(v.sym) /\ v.sym \in Dom
         /\ phase = "visit" /\ nodes' = nodes \ {v}
<1>1. /\ VisitInv'
      /\ v \in Visits /\ phase = "visit" /\ StrongLog = {} /\ array = {} /\ nodes' = nodes \ {v}
      /\ \A w \in nodes : ~Before(w, v)
  BY VisitStep
<1>2. v = Visit(v.top, "decl", v.sym) /\ v.top \in Of(v.sym) /\ v.sym \in Dom /\ v.sym \in Symbols
  <2>1. v.kind \in {"decl", "param"}
    BY DEF Visiting
  <2>2. QED
    BY <1>1, <2>1, VisitFacts DEF Ordinary, InputOK
<1>3. \A s : \A i \in Of(s) : i \in Nat
  BY DEF Of, Index
<1>4. DeclOf(v) = [top |-> v.top, kind |-> "decl"] /\ DeclOf(v) # NoDecl
  <2>1. v.kind = "decl" /\ v.top # 0
    BY <1>2 DEF Visit, Of, Index
  <2>2. QED
    BY <2>1 DEF DeclOf, NoDecl
<1>5. /\ OldDecl \in [Symbols -> [top : Nat, kind : {"decl"}]]
      /\ \A s \in Dom : \A i \in Of(s) : Visit(i, "decl", s) \notin nodes => Found(s)
      /\ \A s \in Dom : Found(s) => OldDecl[s].top \in Of(s)
      /\ \A s \in Dom : Strong(s) /\ Found(s) => \A j \in Of(s) : OldDecl[s].top <= j
  BY DEF OrdinaryInv, DeclInv
<1>6. /\ OldDecl' \in [Symbols -> [top : Nat, kind : {"decl"}]]
      /\ \A s \in Symbols \ {v.sym} : OldDecl'[s] = OldDecl[s]
      /\ \/ OldDecl'[v.sym] = OldDecl[v.sym] /\ Found(v.sym)
         \/ OldDecl'[v.sym] = DeclOf(v) /\ (Weak(v.sym) \/ ~Found(v.sym))
  BY <1>2, <1>3, <1>4, <1>5 DEF FirstDecl
<1>7. \A s \in Dom : (s # v.sym => Found(s)' = Found(s)) /\ Found(v.sym)'
  BY <1>2, <1>4, <1>6 DEF Found, InputOK
<1>8. DeclInv'
  <2>1. \A s \in Dom : Found(s)' => OldDecl'[s].top \in Of(s)
    BY <1>2, <1>4, <1>5, <1>6, <1>7 DEF InputOK
  <2>2. ASSUME NEW s \in Dom, Strong(s), Found(s)', NEW j \in Of(s) PROVE OldDecl'[s].top <= j
    <3>1. CASE s # v.sym \/ (OldDecl'[v.sym] = OldDecl[v.sym] /\ Found(v.sym))
      BY <2>2, <3>1, <1>5, <1>6, <1>7 DEF InputOK
    <3>2. CASE s = v.sym /\ OldDecl'[v.sym] = DeclOf(v) /\ ~Found(v.sym)
      <4>1. Visit(j, "decl", s) \in nodes
        BY <3>2, <1>5
      <4>2. ~Before(Visit(j, "decl", s), v)
        BY <4>1, <1>1
      <4>3. ~(j < v.top)
        BY <4>2, <1>2, <1>3, OrderFacts
      <4>4. v.top \in Nat /\ j \in Nat /\ OldDecl'[s].top = v.top
        BY <3>2, <1>2, <1>3, <1>4
      <4>5. QED
        BY <4>3, <4>4
    <3>3. ~Weak(s)
      BY <2>2 DEF Strong, Weak
    <3>4. QED
      BY <3>1, <3>2, <3>3, <1>6
  <2>3. ASSUME NEW s \in Dom, NEW i \in Of(s), Visit(i, "decl", s) \notin nodes' PROVE Found(s)'
    <3>1. CASE s = v.sym
      BY <3>1, <1>7
    <3>2. CASE s # v.sym
      <4>1. Visit(i, "decl", s) # v
        BY <3>2 DEF Visit
      <4>2. QED
        BY <4>1, <2>3, <3>2, <1>1, <1>5, <1>7
    <3>3. QED
      BY <3>1, <3>2
  <2>4. QED
    BY <2>1, <2>2, <2>3, <1>6, UnchangedInput DEF DeclInv
<1>9. UseInv'
  <2>1. v.kind # "use"
    BY <1>2 DEF Visit
  <2>2. FirstUse' = FirstUse /\ closure' = closure /\ UseInv
    BY DEF OrdinaryInv, input
  <2>3. Visits' = Visits /\ Index' = Index /\ Dom' = Dom
    BY UnchangedInput
  <2>4. \A s : Visit(FirstUse[s], "use", s) # v
    BY <2>1 DEF Visit
  <2>5. QED
    BY <1>1, <2>1, <2>2, <2>3, <2>4 DEF UseInv
<1>10. LogInv'
  <2>1. phase' = "visit" /\ array' = {} /\ StrongLog' = {}
    BY <1>1
  <2>2. \A ins \in inserts' : InsertOK(ins)'
    BY <1>1 DEF OrdinaryInv, LogInv, InsertOK
  <2>3. QED
    BY <2>1, <2>2 DEF LogInv
<1>11. KeptInv'
  BY <1>1 DEF KeptInv, Done
<1>12. QED
  BY <1>1, <1>2, <1>8, <1>9, <1>10, <1>11

\* A declarator that is not renamed asks for nothing new of RenamedInv.
LEMMA NotRenamed ==
  ASSUME OrdinaryInv, NEW v, v = Visit(v.top, "decl", v.sym), ~Rename(v.sym),
         nodes' = nodes \ {v}, UNCHANGED input, requests \subseteq requests',
         phase' = "visit"
  PROVE  RenamedInv'
<1>1. RenamedInv /\ Macros' = Macros /\ Ibt' = Ibt
  BY DEF OrdinaryInv, input
<1>2. v.kind = "decl" /\ \A s : \A i : Visit(i, "decl", s) = v => s = v.sym
  BY DEF Visit
<1>3. ASSUME NEW s \in Dom, NEW i \in Of(s), Rename(s), Visit(i, "decl", s) \notin nodes'
      PROVE  Request(i, "name", s, "klpp_", 100) \in requests'
  <2>1. Visit(i, "decl", s) \notin nodes
    BY <1>2, <1>3
  <2>2. QED
    BY <1>1, <1>3, <2>1 DEF RenamedInv
<1>4. ASSUME NEW u \in Visits \ nodes', u.kind = "use", u.sym \notin Macros,
             Rename(u.sym) \/ (Strong(u.sym) /\ ~Ibt)
      PROVE  Request(u.top, "use", u.sym, "use", 100) \in requests'
  <2>1. u \in Visits \ nodes
    BY <1>2, <1>4
  <2>2. QED
    BY <1>1, <1>4, <2>1 DEF RenamedInv
<1>5. QED
  BY <1>1, <1>3, <1>4, UnchangedInput DEF RenamedInv

LEMMA VisitStrongInv ==
  ASSUME InputOK, Ordinary, OrdinaryInv, NEW v \in nodes, VisitStrong(v)
  PROVE  OrdinaryInv'
<1>1. /\ Visiting(v, {"decl", "param"}) /\ ExtType[v.sym] = "STRONG"
      /\ UNCHANGED <<input, FirstUse, array, requests, inserts, Log, kept, phase>>
      /\ OldDecl' = FirstDecl(v)
  BY DEF VisitStrong, VisitsDeclarator
<1>2. StrongLog' = StrongLog
  BY <1>1, LogFacts
<1>3. /\ VisitInv' /\ DeclInv' /\ UseInv' /\ LogInv' /\ KeptInv'
      /\ v = Visit(v.top, "decl", v.sym)
      /\ phase = "visit" /\ nodes' = nodes \ {v}
  BY <1>1, <1>2, VisitDecl
<1>4. RequestInv'
  BY <1>1, <1>2, <1>3, OldRequests DEF RequestInv
<1>5. RenamedInv'
  <2>1. ~Rename(v.sym)
    BY <1>1 DEF Rename
  <2>2. UNCHANGED input /\ requests \subseteq requests' /\ phase' = "visit"
    BY <1>1, <1>3
  <2>3. QED
    BY <1>3, <2>1, <2>2, NotRenamed
<1>6. QED
  BY <1>3, <1>4, <1>5 DEF OrdinaryInv

LEMMA VisitWeakInv ==
  ASSUME InputOK, Ordinary, OrdinaryInv, NEW v \in nodes, VisitWeak(v)
  PROVE  OrdinaryInv'
<1> DEFINE New == IF v.kind = "decl" /\ IsFunction(v.top)
                  THEN {Request(d, "decl", v.sym, "removed", 1000) : d \in Definition(v.sym) \ {v.top}}
                  ELSE {}
<1>1. /\ Visiting(v, {"decl", "param"}) /\ ExtType[v.sym] = "WEAK"
      /\ UNCHANGED <<input, FirstUse, array, inserts, Log, kept, phase>>
      /\ OldDecl' = [OldDecl EXCEPT ![v.sym] = DeclOf(v)]
      /\ requests' = requests \cup New
  BY DEF VisitWeak, VisitsDeclarator
<1>2. StrongLog' = StrongLog /\ v.sym \in Dom /\ Weak(v.sym)
  <2>1. v \in Visits
    BY DEF OrdinaryInv, VisitInv
  <2>2. QED
    BY <1>1, <2>1, LogFacts, VisitFacts DEF Ordinary, Weak
<1>3. /\ VisitInv' /\ DeclInv' /\ UseInv' /\ LogInv' /\ KeptInv'
      /\ v = Visit(v.top, "decl", v.sym) /\ v.top \in Of(v.sym)
      /\ phase = "visit" /\ nodes' = nodes \ {v}
  BY <1>1, <1>2, VisitDecl
<1>4. RequestInv'
  <2>1. ASSUME NEW r \in New PROVE RequestOK(r)'
    <3>1. PICK d \in Definition(v.sym) \ {v.top} : r = Request(d, "decl", v.sym, "removed", 1000)
      OBVIOUS
    <3> HIDE DEF New
    <3>2. r.top = d /\ r.sym = v.sym /\ d \in Of(v.sym)
      BY <3>1 DEF Request, Definition
    <3>3. InPlaceText(v.sym) = "removed"
      BY <1>1 DEF InPlaceText
    <3>4. r = Request(r.top, "decl", r.sym, InPlaceText(r.sym), 1000)
      <4>1. Request(r.top, "decl", r.sym, InPlaceText(r.sym), 1000)
              = Request(d, "decl", v.sym, "removed", 1000)
        BY <3>2, <3>3
      <4>2. QED
        BY <4>1, <3>1
    <3>5. Weak(r.sym)' /\ r.top \in Definition(r.sym)' /\ \E k \in Of(r.sym)' : k # r.top
      <4>1. /\ Weak(v.sym)' = Weak(v.sym) /\ Definition(v.sym)' = Definition(v.sym)
            /\ Of(v.sym)' = Of(v.sym)
        BY <1>1, UnchangedInput
      <4>2. Weak(v.sym)' /\ d \in Definition(v.sym)' /\ \E k \in Of(v.sym)' : k # d
        BY <4>1, <1>2, <1>3
      <4>3. QED
        BY <4>2, <3>2, Zenon
    <3>6. DeclRequest(r)'
      BY <1>1, <3>2, <3>4, <3>5, UnchangedInput DEF DeclRequest, Request
    <3>7. QED
      BY <3>6 DEF RequestOK
  <2>2. \A r \in requests : RequestOK(r)'
    BY <1>1, <1>2, <1>3, OldRequests
  <2>3. QED
    BY <1>1, <2>1, <2>2 DEF RequestInv
<1> HIDE DEF New
<1>5. RenamedInv'
  <2>1. ~Rename(v.sym)
    BY <1>1 DEF Rename
  <2>2. UNCHANGED input /\ requests \subseteq requests' /\ phase' = "visit"
    BY <1>1, <1>3
  <2>3. QED
    BY <1>3, <2>1, <2>2, NotRenamed
<1>6. QED
  BY <1>3, <1>4, <1>5 DEF OrdinaryInv

LEMMA VisitRenameInv ==
  ASSUME InputOK, Ordinary, OrdinaryInv, NEW v \in nodes, VisitRename(v)
  PROVE  OrdinaryInv'
<1>1. /\ Visiting(v, {"decl", "param"}) /\ ExtType[v.sym] = "RENAME"
      /\ UNCHANGED <<input, FirstUse, array, inserts, kept, phase>>
      /\ OldDecl' = FirstDecl(v)
      /\ Log' = Log \cup {[sym |-> v.sym, type |-> "RENAME"]}
  BY DEF VisitRename, VisitsDeclarator
<1>2. StrongLog' = StrongLog
  BY <1>1, LogFacts
<1>3. /\ VisitInv' /\ DeclInv' /\ UseInv' /\ LogInv' /\ KeptInv'
      /\ v = Visit(v.top, "decl", v.sym) /\ v.top \in Of(v.sym) /\ v.sym \in Dom
      /\ phase = "visit" /\ nodes' = nodes \ {v}
  BY <1>1, <1>2, VisitDecl
<1> DEFINE name == Request(v.top, "name", v.sym, "klpp_", 100)
           static == Request(v.top, "static", NoSymbol, "removed", 10)
<1>4. v.kind = "decl" /\ Rename(v.sym)
  <2>1. v.kind = "decl"
    BY <1>3 DEF Visit
  <2>2. QED
    BY <1>1, <1>3, <2>1 DEF Rename
<1>5. name \in requests' /\ requests \subseteq requests' /\ requests' \subseteq requests \cup {name, static}
  BY <1>4 DEF VisitRename, Drop_Static
<1>6. RequestInv'
  <2>1. RequestOK(name)'
    <3>1. name.top = v.top /\ name.sym = v.sym
      BY DEF Request
    <3>2. Rename(v.sym)' /\ v.top \in Of(v.sym)'
      BY <1>1, <1>3, <1>4, UnchangedInput
    <3>3. NameRequest(name)'
      BY <3>1, <3>2 DEF NameRequest, Request
    <3>4. QED
      BY <3>3 DEF RequestOK
  <2>2. RequestOK(static)'
    <3>1. static.top = v.top /\ v.top \in Index /\ unit[v.top].sym = v.sym
      BY <1>3 DEF Request, Of
    <3>2. Rename(v.sym)' /\ v.top \in Index' /\ unit' = unit
      BY <1>1, <3>1, <1>4, UnchangedInput DEF input
    <3>3. StaticRequest(static)'
      BY <3>1, <3>2 DEF StaticRequest, Request
    <3>4. QED
      BY <3>3 DEF RequestOK
  <2> HIDE DEF name, static
  <2>3. \A r \in requests : RequestOK(r)'
    BY <1>1, <1>2, <1>3, OldRequests
  <2>4. QED
    BY <1>5, <2>1, <2>2, <2>3 DEF RequestInv
<1> HIDE DEF static
<1>7. RenamedInv'
  <2>1. RenamedInv /\ Macros' = Macros /\ Ibt' = Ibt /\ phase' = "visit"
    BY <1>1, <1>3 DEF OrdinaryInv, input
  <2>2. ASSUME NEW s \in Dom, NEW i \in Of(s), Rename(s), Visit(i, "decl", s) \notin nodes'
        PROVE  Request(i, "name", s, "klpp_", 100) \in requests'
    <3>1. CASE Visit(i, "decl", s) = v
      <4>1. i = v.top /\ s = v.sym
        BY <3>1 DEF Visit
      <4>2. QED
        BY <4>1, <1>5
    <3>2. CASE Visit(i, "decl", s) # v
      <4>1. Visit(i, "decl", s) \notin nodes
        BY <1>3, <2>2, <3>2
      <4>2. QED
        BY <2>1, <2>2, <4>1, <1>5 DEF RenamedInv
    <3>3. QED
      BY <3>1, <3>2
  <2>3. ASSUME NEW u \in Visits \ nodes', u.kind = "use", u.sym \notin Macros,
               Rename(u.sym) \/ (Strong(u.sym) /\ ~Ibt)
        PROVE  Request(u.top, "use", u.sym, "use", 100) \in requests'
    <3>1. u \in Visits \ nodes
      BY <1>3, <1>4, <2>3
    <3>2. QED
      BY <2>1, <2>3, <3>1, <1>5 DEF RenamedInv
  <2>4. QED
    BY <2>1, <2>2, <2>3, <1>1, UnchangedInput DEF RenamedInv
<1>8. QED
  BY <1>3, <1>6, <1>7 DEF OrdinaryInv

(***************************************************************************)
(* The visitor meets a use.                                                *)
(***************************************************************************)
LEMMA VisitDeclRefExprInv ==
  ASSUME InputOK, Ordinary, OrdinaryInv, NEW v \in nodes, VisitDeclRefExpr(v)
  PROVE  OrdinaryInv'
<1>1. /\ Visiting(v, {"use"})
      /\ UNCHANGED <<input, OldDecl, array, inserts, Log, kept, phase>>
      /\ requests' = requests \cup UseRequests(v)
      /\ FirstUse' = IF FirstUse[v.sym] = 0 /\ v.top \in closure
                     THEN [FirstUse EXCEPT ![v.sym] = v.top] ELSE FirstUse
  BY DEF VisitDeclRefExpr
<1>2. /\ VisitInv'
      /\ v \in Visits /\ phase = "visit" /\ StrongLog = {} /\ array = {} /\ nodes' = nodes \ {v}
      /\ \A w \in nodes : ~Before(w, v)
      /\ \A u \in Visits \ nodes : ~Before(v, u)
  BY <1>1, VisitStep
<1>3. /\ v.kind = "use" /\ v = Visit(v.top, "use", v.sym) /\ v.top \in Index
      /\ v.sym \in Dom /\ v.sym \in Symbols /\ v.sym \in unit[v.top].refs
  <2>1. v.kind = "use"
    BY <1>1 DEF Visiting
  <2>2. QED
    BY <1>2, <2>1, VisitFacts DEF Ordinary, InputOK
<1>4. StrongLog' = StrongLog
  BY <1>1, LogFacts
<1>5. Index \subseteq Nat \ {0}
  BY DEF Index
<1>6. DeclInv'
  <2>1. \A s : Found(s)' = Found(s)
    BY <1>1 DEF Found
  <2>2. \A s : \A i : Visit(i, "decl", s) # v
    BY <1>3 DEF Visit
  <2>3. DeclInv /\ OldDecl' = OldDecl
    BY <1>1 DEF OrdinaryInv
  <2>4. ASSUME NEW s \in Dom, NEW i \in Of(s), Visit(i, "decl", s) \notin nodes' PROVE Found(s)
    BY <2>2, <2>3, <2>4, <1>2 DEF DeclInv
  <2>5. QED
    BY <2>1, <2>3, <2>4, <1>1, UnchangedInput DEF DeclInv
<1>7. UseInv'
  <2>1. UseInv /\ closure' = closure /\ Visits' = Visits /\ Index' = Index /\ Dom' = Dom
    BY <1>1, UnchangedInput DEF OrdinaryInv, input
  <2>2. FirstUse' \in [Symbols -> Nat]
    BY <2>1, <1>1, <1>3, <1>5 DEF UseInv
  <2>3. \A s \in Symbols : FirstUse'[s] = FirstUse[s] \/
          (s = v.sym /\ FirstUse'[s] = v.top /\ FirstUse[s] = 0)
    BY <2>1, <1>1, <1>3 DEF UseInv
  <2>4. ASSUME NEW s \in Dom, FirstUse'[s] # 0
        PROVE  FirstUse'[s] \in Index /\ Visit(FirstUse'[s], "use", s) \in Visits \ nodes'
    <3>1. CASE FirstUse'[s] = FirstUse[s]
      BY <2>1, <2>4, <3>1, <1>2 DEF UseInv
    <3>2. CASE s = v.sym /\ FirstUse'[s] = v.top
      <4>1. Visit(FirstUse'[s], "use", s) = v
        BY <3>2, <1>3
      <4>2. QED
        BY <4>1, <3>2, <1>2, <1>3
    <3>3. QED
      BY <3>1, <3>2, <2>3 DEF InputOK
  <2>5. ASSUME NEW u \in Visits \ nodes', u.kind = "use", u.top \in closure
        PROVE  FirstUse'[u.sym] # 0 /\ FirstUse'[u.sym] <= u.top
    <3>1. u.sym \in Dom /\ u.sym \in Symbols /\ u.top \in Nat
      BY <2>5, <1>5, VisitFacts DEF Ordinary, InputOK
    <3>2. CASE u # v
      <4>1. u \in Visits \ nodes
        BY <2>5, <3>2, <1>2
      <4>2. FirstUse[u.sym] # 0 /\ FirstUse[u.sym] <= u.top
        BY <2>1, <2>5, <4>1 DEF UseInv
      <4>3. QED
        BY <4>2, <3>1, <2>3
    <3>3. CASE u = v /\ FirstUse[v.sym] = 0
      <4>1. FirstUse' = [FirstUse EXCEPT ![v.sym] = v.top]
        BY <3>3, <2>5, <1>1
      <4>2. FirstUse'[v.sym] = v.top
        BY <4>1, <2>1, <1>3 DEF UseInv
      <4>3. v.top \in Nat \ {0}
        BY <1>3, <1>5
      <4>4. QED
        BY <3>3, <4>2, <4>3
    <3>4. CASE u = v /\ FirstUse[v.sym] # 0
      <4>1. FirstUse[v.sym] \in Index /\ Visit(FirstUse[v.sym], "use", v.sym) \in Visits \ nodes
        BY <2>1, <3>4, <1>3 DEF UseInv
      <4>2. ~(v.top < FirstUse[v.sym])
        <5>1. ~Before(v, Visit(FirstUse[v.sym], "use", v.sym))
          BY <4>1, <1>2
        <5>2. QED
          BY <5>1, <4>1, <1>3, <1>5, OrderFacts
      <4>3. FirstUse'[v.sym] = FirstUse[v.sym]
        BY <3>4, <2>3, <1>3
      <4>4. FirstUse[v.sym] \in Nat \ {0} /\ v.top \in Nat
        BY <4>1, <1>3, <1>5
      <4>5. QED
        BY <4>2, <4>3, <4>4, <3>4
    <3>5. QED
      BY <3>2, <3>3, <3>4
  <2>6. QED
    BY <2>1, <2>2, <2>4, <2>5 DEF UseInv
<1>8. Strong(v.sym) => Found(v.sym)
  <2>1. v.sym # unit[v.top].param
    BY <1>3 DEF Ordinary, Unshadowed, Dom
  <2>2. PICK j \in Of(v.sym) : j <= v.top
    BY <1>3, <2>1, ScopeFacts
  <2>3. j \in Nat /\ v.top \in Nat
    BY <1>3, <1>5 DEF Of
  <2>4. Before(Visit(j, "decl", v.sym), v)
    BY <1>3, <2>2, <2>3, OrderFacts
  <2>5. Visit(j, "decl", v.sym) \notin nodes
    BY <1>2, <2>4
  <2>6. QED
    BY <2>5, <1>3 DEF OrdinaryInv, DeclInv
<1> DEFINE r == Request(v.top, "use", v.sym, "use", 100)
<1>9. RequestInv'
  <2>1. ASSUME Needs_Sym_Rename(v.sym) PROVE RequestOK(r)'
    <3>1. Rename(v.sym) \/ (Strong(v.sym) /\ ~Ibt)
      BY <2>1, <1>3, <1>8 DEF Needs_Sym_Rename, Rename, Strong
    <3>2. r.top = v.top /\ r.sym = v.sym
      BY DEF Request
    <3>3. Rename(v.sym)' \/ (Strong(v.sym)' /\ ~Ibt')
      BY <3>1, <1>1, UnchangedInput DEF input
    <3>4. v.top \in Index'
      BY <1>1, <1>3, UnchangedInput
    <3>5. UseRequest(r)'
      BY <3>2, <3>3, <3>4 DEF UseRequest, Request
    <3>6. QED
      BY <3>5 DEF RequestOK
  <2> HIDE DEF r
  <2>2. \A x \in requests : RequestOK(x)'
    BY <1>1, <1>2, <1>4, OldRequests
  <2>3. \A x \in UseRequests(v) : x = r /\ Needs_Sym_Rename(v.sym)
    BY DEF UseRequests, r
  <2>4. QED
    BY <1>1, <2>1, <2>2, <2>3 DEF RequestInv
<1>10. RenamedInv'
  <2>1. RenamedInv /\ Macros' = Macros /\ Ibt' = Ibt /\ phase' = "visit" /\ requests \subseteq requests'
    BY <1>1, <1>2 DEF OrdinaryInv, input
  <2>2. ASSUME NEW s \in Dom, NEW i \in Of(s), Rename(s), Visit(i, "decl", s) \notin nodes'
        PROVE  Request(i, "name", s, "klpp_", 100) \in requests'
    <3>1. Visit(i, "decl", s) # v
      BY <1>3 DEF Visit
    <3>2. Visit(i, "decl", s) \notin nodes
      BY <1>2, <2>2, <3>1
    <3>3. QED
      BY <2>1, <2>2, <3>2 DEF RenamedInv
  <2>3. ASSUME NEW u \in Visits \ nodes', u.kind = "use", u.sym \notin Macros,
               Rename(u.sym) \/ (Strong(u.sym) /\ ~Ibt)
        PROVE  Request(u.top, "use", u.sym, "use", 100) \in requests'
    <3>1. CASE u = v
      <4>1. Needs_Sym_Rename(v.sym)
        BY <2>3, <3>1 DEF Needs_Sym_Rename, Rename, Strong
      <4>2. r \in UseRequests(v)
        BY <2>3, <3>1, <4>1 DEF UseRequests
      <4>3. QED
        BY <1>1, <3>1, <4>2
    <3>2. CASE u # v
      <4>1. u \in Visits \ nodes
        BY <1>2, <2>3, <3>2
      <4>2. QED
        BY <2>1, <2>3, <4>1 DEF RenamedInv
    <3>3. QED
      BY <3>1, <3>2
  <2>4. QED
    BY <2>1, <2>2, <2>3, <1>1, UnchangedInput DEF RenamedInv
<1>11. LogInv'
  <2>1. phase' = "visit" /\ array' = {} /\ StrongLog' = {}
    BY <1>1, <1>2, <1>4
  <2>2. \A ins \in inserts' : InsertOK(ins)'
    BY <1>1, <1>2 DEF OrdinaryInv, LogInv, InsertOK
  <2>3. QED
    BY <2>1, <2>2 DEF LogInv
<1>12. KeptInv'
  BY <1>1, <1>2 DEF KeptInv, Done
<1>13. QED
  BY <1>2, <1>6, <1>7, <1>9, <1>10, <1>11, <1>12 DEF OrdinaryInv

-----------------------------------------------------------------------------
(***************************************************************************)
(* After the visitor: OldDecl and FirstUse stay what they are.             *)
(***************************************************************************)
LEMMA LateStep ==
  ASSUME InputOK, Ordinary, OrdinaryInv, UNCHANGED <<input, nodes, OldDecl, FirstUse>>,
         nodes = {}, phase' \in {"late", "commit", "done"}
  PROVE  /\ VisitInv' /\ DeclInv' /\ UseInv'
         /\ Used' = Used
         /\ \A s : Needs_Sym_Rename(s)' = Needs_Sym_Rename(s)
         /\ \A s : LateDecl(s)' = LateDecl(s)
<1>1. \A s : Found(s)' = Found(s)
  BY DEF Found
<1>2. Used' = Used
  BY <1>1, UnchangedInput DEF Used, Is_Used, input
<1>3. \A s : Needs_Sym_Rename(s)' = Needs_Sym_Rename(s)
  BY <1>1 DEF Needs_Sym_Rename, input
<1>4. \A s : LateDecl(s)' = LateDecl(s)
  BY UnchangedInput DEF LateDecl
<1>5. VisitInv'
  BY UnchangedInput DEF OrdinaryInv, VisitInv
<1>6. DeclInv'
  BY <1>1, UnchangedInput DEF OrdinaryInv, DeclInv
<1>7. UseInv'
  BY UnchangedInput DEF OrdinaryInv, UseInv, input
<1>8. QED
  BY <1>1, <1>2, <1>3, <1>4, <1>5, <1>6, <1>7

LEMMA LateDeclStays ==
  ASSUME UNCHANGED <<input, FirstUse>>
  PROVE  \A s : LateDecl(s)' = LateDecl(s)
BY UnchangedInput DEF LateDecl

LEMMA ExternalizedStays ==
  ASSUME UNCHANGED <<input, OldDecl, FirstUse>>,
         requests \subseteq requests', inserts \subseteq inserts',
         NEW s, Externalized(s)
  PROVE  Externalized(s)'
<1>1. /\ Ibt' <=> Ibt
      /\ AllowLateExternalization' <=> AllowLateExternalization
  BY DEF input
<1>2. /\ Definition(s)' = Definition(s) /\ LateDecl(s)' = LateDecl(s) /\ OldDecl' = OldDecl
  BY UnchangedInput, LateDeclStays DEF input
<1>3. ASSUME ~Ibt', AllowLateExternalization' PROVE LateDecl(s)' \in inserts'
  BY <1>1, <1>2, <1>3 DEF Externalized
<1>4. ASSUME ~Ibt', ~AllowLateExternalization'
      PROVE  Request(OldDecl'[s].top, "decl", s, "klpe_", 1000) \in requests'
  <2>1. Request(OldDecl[s].top, "decl", s, "klpe_", 1000) \in requests
    BY <1>1, <1>4 DEF Externalized
  <2>2. QED
    BY <2>1, <1>2
<1>5. ASSUME Ibt', NEW d \in Definition(s)' PROVE Request(d, "body", s, "semicolon", 1000) \in requests'
  <2>1. Request(d, "body", s, "semicolon", 1000) \in requests
    BY <1>1, <1>2, <1>5 DEF Externalized
  <2>2. QED
    BY <2>1
<1>6. QED
  BY <1>3, <1>4, <1>5 DEF Externalized

\* Late_Externalize is done with s.
LEMMA ExternalizeStep ==
  ASSUME InputOK, Ordinary, OrdinaryInv, NEW s \in array, Externalize(s),
         requests \subseteq requests', inserts \subseteq inserts',
         s \in StrongLog' =>
           /\ \A r \in requests' \ requests : RequestOK(r)'
           /\ \A ins \in inserts' \ inserts : InsertOK(ins)',
         Externalized(s)'
  PROVE  OrdinaryInv'
<1>1. /\ UNCHANGED <<input, nodes, OldDecl, FirstUse, kept, phase>> /\ phase = "late"
      /\ array' = array \ {s}
      /\ Log' = Log \cup {[sym |-> s, type |-> "STRONG"]}
  BY DEF Externalize
<1>2. StrongLog' = StrongLog \cup {s} /\ nodes = {}
  BY <1>1, LogFacts DEF OrdinaryInv, VisitInv
<1>3. /\ VisitInv' /\ DeclInv' /\ UseInv' /\ Used' = Used
      /\ \A t : LateDecl(t)' = LateDecl(t)
  BY <1>1, <1>2, LateStep
<1>4. RequestInv'
  <2>1. \A r \in requests : RequestOK(r)'
    BY <1>1, <1>2, OldRequests
  <2>2. QED
    BY <1>2, <2>1 DEF RequestInv
<1>5. RenamedInv'
  <2>1. RenamedInv /\ Macros' = Macros /\ Ibt' = Ibt /\ phase' = "late" /\ nodes' = nodes
    BY <1>1 DEF OrdinaryInv, input
  <2>2. QED
    BY <2>1, <1>1, UnchangedInput DEF RenamedInv
<1>6. LogInv'
  <2>1. LogInv
    BY DEF OrdinaryInv
  <2>2. StrongLog' = Used' \ array' /\ array' \subseteq Used' /\ phase' = "late"
    BY <1>1, <1>2, <1>3, <2>1 DEF LogInv
  <2>3. \A ins \in inserts' : InsertOK(ins)'
    <3>1. \A ins \in inserts : InsertOK(ins)'
      BY <1>1, <1>2, <2>1, LateDeclStays DEF LogInv, InsertOK, input
    <3>2. QED
      BY <3>1, <1>2
  <2>4. \A t \in StrongLog' : Externalized(t)'
    <3>1. \A t \in StrongLog : Externalized(t)'
      BY <1>1, <2>1, ExternalizedStays DEF LogInv
    <3>2. QED
      BY <3>1, <1>2
  <2>5. QED
    BY <2>2, <2>3, <2>4 DEF LogInv
<1>7. KeptInv'
  BY <1>1 DEF KeptInv, Done
<1>8. QED
  BY <1>3, <1>4, <1>5, <1>6, <1>7 DEF OrdinaryInv

\* What is in the array.
LEMMA ArrayFacts ==
  ASSUME InputOK, Ordinary, OrdinaryInv, NEW s \in array
  PROVE  /\ Strong(s) /\ s \in Symbols /\ Found(s)
         /\ OldDecl[s].kind = "decl" /\ OldDecl[s].top \in Of(s)
         /\ FirstUse[s] \in Index
<1>1. s \in Dom /\ Is_Used(s) /\ s \in Symbols
  BY DEF OrdinaryInv, LogInv, InputOK, Used
<1>2. Strong(s) /\ Found(s) /\ FirstUse[s] # 0
  BY <1>1 DEF Is_Used, Strong
<1>3. QED
  BY <1>1, <1>2 DEF OrdinaryInv, DeclInv, UseInv

LEMMA HandleIBTInv ==
  ASSUME InputOK, Ordinary, OrdinaryInv, NEW s \in array, Handle_IBT_Ext(s)
  PROVE  OrdinaryInv'
<1> DEFINE New == UNION {Drop_Body(d) \cup Drop_Static_Add_Extern(d) : d \in Of(s)}
           Ins == UNION {Add_Extern(d) : d \in Of(s)}
<1>1. /\ Ibt /\ Externalize(s) /\ requests' = requests \cup New /\ inserts' = inserts \cup Ins
      /\ UNCHANGED input
  BY ArrayFacts DEF Handle_IBT_Ext, Redeclarations, Externalize
<1>2. ASSUME NEW r \in New PROVE RequestOK(r)'
  <2>1. PICK d \in Of(s) : r \in Drop_Body(d) \/ r \in Drop_Static_Add_Extern(d)
    OBVIOUS
  <2>2. d \in Index /\ unit[d].sym = s /\ Strong(s)
    BY ArrayFacts DEF Of
  <2> HIDE DEF New, Ins
  <2>3. CASE r \in Drop_Body(d)
    <3>1. r = Request(d, "body", s, "semicolon", 1000)
      BY <2>2, <2>3 DEF Drop_Body
    <3>2. Strong(s)' /\ d \in Of(s)' /\ Ibt'
      BY <1>1, <2>2, UnchangedInput DEF input
    <3>3. BodyRequest(r)'
      BY <3>1, <3>2 DEF BodyRequest, Request
    <3>4. QED
      BY <3>3 DEF RequestOK
  <2>4. CASE r \in Drop_Static_Add_Extern(d)
    <3>1. First(d) = d
      BY <2>2, FirstIsItself DEF Ordinary, InputOK
    <3>2. r = Request(d, "static", NoSymbol, "extern", 10)
      BY <2>4, <3>1 DEF Drop_Static_Add_Extern
    <3>3. ~Rename(s)
      BY <2>2 DEF Strong, Rename
    <3>4. ~Rename(s)' /\ d \in Index' /\ unit'[d].sym = s
      BY <1>1, <2>2, <3>3, UnchangedInput DEF input
    <3>5. StaticRequest(r)'
      BY <3>2, <3>4 DEF StaticRequest, Request
    <3>6. QED
      BY <3>5 DEF RequestOK
  <2>5. QED
    BY <2>1, <2>3, <2>4
<1>3. ASSUME NEW ins \in Ins PROVE InsertOK(ins)'
  <2>1. PICK d \in Of(s) : ins \in Add_Extern(d)
    OBVIOUS
  <2>2. unit[d].sym = s /\ s \in Symbols
    BY ArrayFacts DEF Of
  <2>3. ins = [at |-> First(d), what |-> <<"extern", s>>]
    BY <2>1, <2>2 DEF Add_Extern
  <2>4. ins.what = <<"extern", s>>
    BY <2>3
  <2>5. QED
    BY <2>2, <2>4 DEF InsertOK
<1>4. ASSUME NEW d \in Definition(s) PROVE Request(d, "body", s, "semicolon", 1000) \in New
  <2>1. d \in Of(s) /\ unit[d].def /\ unit[d].sym = s
    BY DEF Definition, Of
  <2>2. Request(d, "body", s, "semicolon", 1000) \in Drop_Body(d) \cup Drop_Static_Add_Extern(d)
    BY <2>1 DEF Drop_Body, Request
  <2>3. QED
    BY <2>1, <2>2
<1> HIDE DEF New, Ins
<1>5. Externalized(s)'
  <2>1. Ibt' /\ Definition(s)' = Definition(s)
    BY <1>1, UnchangedInput DEF input
  <2>2. \A d \in Definition(s) : Request(d, "body", s, "semicolon", 1000) \in requests'
    BY <1>1, <1>4 DEF Request
  <2>3. QED
    BY <2>1, <2>2 DEF Externalized, Request
<1>6. QED
  BY <1>1, <1>2, <1>3, <1>5, ExternalizeStep

LEMMA LateInsertInv ==
  ASSUME InputOK, Ordinary, OrdinaryInv, NEW s \in array, Late_Insert(s)
  PROVE  OrdinaryInv'
<1>1. PICK d : d = Get_With_Body_Or_Itself(s)
  OBVIOUS
<1>2. /\ ~Ibt /\ AllowLateExternalization /\ Externalize(s)
      /\ UNCHANGED <<input, FirstUse>>
      /\ requests \subseteq requests'
      /\ requests' \subseteq requests \cup {Request(d, OldDecl[s].kind, s, "removed", 1000)}
      /\ inserts' = inserts \cup {LateDecl(s)}
  <2>1. /\ ~Ibt /\ AllowLateExternalization /\ Externalize(s)
        /\ inserts' = inserts \cup {LateDecl(s)}
    BY DEF Late_Insert, LateDecl
  <2>2. UNCHANGED <<input, FirstUse>>
    BY <2>1 DEF Externalize
  <2>3. \/ requests' = requests
        \/ requests' = requests \cup {Request(d, OldDecl[s].kind, s, "removed", 1000)}
    BY <1>1 DEF Late_Insert
  <2>4. QED
    BY <2>1, <2>2, <2>3
<1>3. d \in Of(s) /\ OldDecl[s].kind = "decl" /\ Strong(s)
  <2>1. OldDecl[s].kind = "decl" /\ OldDecl[s].top \in Of(s) /\ Strong(s)
    BY ArrayFacts
  <2>2. Definition(s) \subseteq Of(s)
    BY DEF Definition
  <2>3. QED
    BY <1>1, <2>1, <2>2 DEF Get_With_Body_Or_Itself
<1>4. /\ Strong(s)' /\ d \in Of(s)' /\ ~Ibt' /\ AllowLateExternalization'
      /\ LateDecl(s)' = LateDecl(s)
  <2>1. Strong(s)' /\ d \in Of(s)' /\ LateDecl(s)' = LateDecl(s)
    BY <1>2, <1>3, UnchangedInput, LateDeclStays
  <2>2. ~Ibt' /\ AllowLateExternalization'
    BY <1>2 DEF input
  <2>3. QED
    BY <2>1, <2>2
<1>5. ASSUME s \in StrongLog', NEW r \in requests' \ requests PROVE RequestOK(r)'
  <2>1. r = Request(d, "decl", s, "removed", 1000)
    BY <1>2, <1>3
  <2>2. r.top = d /\ r.sym = s
    BY <2>1 DEF Request
  <2>3. InPlaceText(s)' = "removed"
    BY <1>4 DEF InPlaceText
  <2>4. r = Request(r.top, "decl", r.sym, InPlaceText(r.sym)', 1000)
    BY <2>1, <2>2, <2>3
  <2>5. DeclRequest(r)'
    BY <1>4, <1>5, <2>2, <2>4 DEF DeclRequest
  <2>6. QED
    BY <2>5 DEF RequestOK
<1>6. ASSUME s \in StrongLog', NEW ins \in inserts' \ inserts PROVE InsertOK(ins)'
  BY <1>2, <1>4, <1>6 DEF InsertOK
<1>7. Externalized(s)'
  BY <1>2, <1>4 DEF Externalized
<1>8. QED
  BY <1>2, <1>5, <1>6, <1>7, ExternalizeStep

LEMMA ReplaceDeclInv ==
  ASSUME InputOK, Ordinary, OrdinaryInv, NEW s \in array, Replace_Decl(s)
  PROVE  OrdinaryInv'
<1>1. PICK d : d = OldDecl[s].top
  OBVIOUS
<1>2. d \in Of(s) /\ OldDecl[s].kind = "decl" /\ Strong(s)
  BY <1>1, ArrayFacts
<1>3. /\ ~Ibt /\ ~AllowLateExternalization /\ Externalize(s) /\ inserts' = inserts
      /\ UNCHANGED <<input, OldDecl>>
      /\ requests' = requests \cup {Request(d, "decl", s, "klpe_", 1000)}
  BY <1>1, <1>2 DEF Replace_Decl, Externalize
<1>4. Strong(s)' /\ d \in Of(s)' /\ ~Ibt' /\ ~AllowLateExternalization' /\ d = OldDecl'[s].top
  BY <1>1, <1>2, <1>3, UnchangedInput DEF input
<1>5. ASSUME s \in StrongLog', NEW r \in requests' \ requests PROVE RequestOK(r)'
  <2>1. r = Request(d, "decl", s, "klpe_", 1000)
    BY <1>3, <1>5
  <2>2. r.top = d /\ r.sym = s
    BY <2>1 DEF Request
  <2>3. InPlaceText(s)' = "klpe_"
    BY <1>4 DEF InPlaceText, Strong
  <2>4. r = Request(r.top, "decl", r.sym, InPlaceText(r.sym)', 1000)
    BY <2>1, <2>2, <2>3
  <2>5. DeclRequest(r)'
    BY <1>4, <1>5, <2>2, <2>4 DEF DeclRequest
  <2>6. QED
    BY <2>5 DEF RequestOK
<1>6. Externalized(s)'
  BY <1>3, <1>4 DEF Externalized
<1>7. QED
  BY <1>3, <1>5, <1>6, ExternalizeStep

LEMMA ComputeArrayInv ==
  ASSUME InputOK, Ordinary, OrdinaryInv, Compute_Array
  PROVE  OrdinaryInv'
<1>1. /\ phase = "visit" /\ nodes = {} /\ phase' = "late" /\ array' = Used
      /\ UNCHANGED <<input, nodes, OldDecl, FirstUse, requests, inserts, Log, kept>>
  BY DEF Compute_Array, Dom, Used
<1>2. StrongLog' = StrongLog /\ StrongLog = {}
  BY <1>1, LogFacts DEF OrdinaryInv, LogInv
<1>3. VisitInv' /\ DeclInv' /\ UseInv' /\ Used' = Used
  BY <1>1, LateStep
<1>4. RequestInv'
  <2>1. \A r \in requests : RequestOK(r)'
    BY <1>1, <1>2, OldRequests
  <2>2. QED
    BY <1>1, <2>1 DEF RequestInv
<1>5. RenamedInv'
  <2>1. RenamedInv /\ Macros' = Macros /\ Ibt' = Ibt
    BY <1>1 DEF OrdinaryInv, input
  <2>2. QED
    BY <2>1, <1>1, UnchangedInput DEF RenamedInv
<1>6. LogInv'
  <2>1. \A ins \in inserts' : InsertOK(ins)'
    BY <1>1, <1>2 DEF OrdinaryInv, LogInv, InsertOK
  <2>2. QED
    BY <2>1, <1>1, <1>2, <1>3 DEF LogInv
<1>7. KeptInv'
  BY <1>1 DEF KeptInv, Done
<1>8. QED
  BY <1>3, <1>4, <1>5, <1>6, <1>7 DEF OrdinaryInv

\* The log does not change after the last symbol of the array.
LEMMA LogStays ==
  ASSUME InputOK, Ordinary, OrdinaryInv, UNCHANGED <<input, nodes, OldDecl, FirstUse, array, inserts, Log>>,
         nodes = {}, array = {}, phase # "visit", phase' \in {"commit", "done"},
         requests \subseteq requests'
  PROVE  LogInv'
<1>1. StrongLog' = StrongLog /\ Used' = Used /\ LogInv
  BY LogFacts, LateStep DEF OrdinaryInv
<1>2. \A ins \in inserts' : InsertOK(ins)'
  BY <1>1, LateDeclStays DEF LogInv, InsertOK, input
<1>3. \A s \in StrongLog' : Externalized(s)'
  BY <1>1, ExternalizedStays DEF LogInv
<1>4. QED
  BY <1>1, <1>2, <1>3 DEF LogInv

LEMMA RewriteMacrosInv ==
  ASSUME InputOK, Ordinary, OrdinaryInv, Rewrite_Macros
  PROVE  OrdinaryInv'
<1> DEFINE New == UNION {{Request(p, "macro", s, "use", 10) : p \in MacroPlaces(s)} :
                           s \in {x \in Macros \cap Dom : Needs_Sym_Rename(x)}}
<1>1. /\ phase = "late" /\ array = {} /\ phase' = "commit" /\ requests' = requests \cup New
      /\ UNCHANGED <<input, nodes, OldDecl, FirstUse, array, inserts, Log, kept>>
  BY DEF Rewrite_Macros, Dom
<1>2. StrongLog' = StrongLog /\ nodes = {}
  BY <1>1, LogFacts DEF OrdinaryInv, VisitInv
<1>3. /\ VisitInv' /\ DeclInv' /\ UseInv'
      /\ \A t : Needs_Sym_Rename(t)' = Needs_Sym_Rename(t)
  BY <1>1, <1>2, LateStep
<1>4. RequestInv'
  <2>1. \A r \in requests : RequestOK(r)'
    BY <1>1, <1>2, OldRequests
  <2>2. ASSUME NEW r \in New PROVE RequestOK(r)'
    <3>1. PICK s \in Macros \cap Dom : Needs_Sym_Rename(s)
                     /\ r \in {Request(p, "macro", s, "use", 10) : p \in MacroPlaces(s)}
      OBVIOUS
    <3>4. PICK p \in MacroPlaces(s) : r = Request(p, "macro", s, "use", 10)
      BY <3>1
    <3>2. s \in Macros' \cap Dom' /\ p \in MacroPlaces(s)' /\ Needs_Sym_Rename(s)' /\ phase' # "visit"
      BY <1>1, <1>3, <3>1, <3>4, UnchangedInput DEF input
    <3> HIDE DEF New
    <3>3. MacroRequest(r)'
      BY <3>4, <3>2 DEF MacroRequest, Request
    <3>5. QED
      BY <3>3 DEF RequestOK
  <2>3. QED
    BY <1>1, <2>1, <2>2 DEF RequestInv
<1>5. RenamedInv'
  <2>1. RenamedInv /\ Macros' = Macros /\ Ibt' = Ibt /\ requests \subseteq requests'
    BY <1>1 DEF OrdinaryInv, input
  <2>2. \A s \in Macros \cap Dom : Needs_Sym_Rename(s) =>
          \A p \in MacroPlaces(s) : Request(p, "macro", s, "use", 10) \in requests'
    BY <1>1
  <2> HIDE DEF New
  <2>3. QED
    BY <2>1, <2>2, <1>1, <1>3, UnchangedInput DEF RenamedInv
<1> HIDE DEF New
<1>6. LogInv'
  BY <1>1, <1>2, LogStays
<1>7. KeptInv'
  BY <1>1 DEF KeptInv, Done
<1>8. QED
  BY <1>3, <1>4, <1>5, <1>6, <1>7 DEF OrdinaryInv

LEMMA CommitInv ==
  ASSUME InputOK, Ordinary, OrdinaryInv, Commit
  PROVE  OrdinaryInv'
<1>1. PICK S \in SUBSET Contested :
        Promised((requests \ Contested) \cup S) /\ kept' = (requests \ Contested) \cup S
  BY DEF Commit
<1>2. /\ phase = "commit" /\ phase' = "done"
      /\ UNCHANGED <<input, nodes, OldDecl, FirstUse, array, requests, inserts, Log>>
  BY DEF Commit
<1>3. StrongLog' = StrongLog /\ nodes = {} /\ array = {}
  BY <1>2, LogFacts DEF OrdinaryInv, VisitInv, LogInv
<1>4. /\ VisitInv' /\ DeclInv' /\ UseInv'
      /\ \A t : Needs_Sym_Rename(t)' = Needs_Sym_Rename(t)
  BY <1>2, <1>3, LateStep
<1>5. RequestInv'
  <2>1. \A r \in requests : RequestOK(r)'
    BY <1>2, <1>3, OldRequests
  <2>2. QED
    BY <1>2, <2>1 DEF RequestInv
<1>6. RenamedInv'
  <2>1. RenamedInv /\ Macros' = Macros /\ Ibt' = Ibt
    BY <1>2 DEF OrdinaryInv, input
  <2>2. QED
    BY <2>1, <1>2, <1>4, UnchangedInput DEF RenamedInv
<1>7. LogInv'
  BY <1>2, <1>3, LogStays
<1>8. KeptInv'
  <2>1. kept' \subseteq requests
    BY <1>1 DEF Contested
  <2>2. \A a, b : Meet(a, b)' = Meet(a, b)
    BY <1>2, UnchangedInput DEF Meet, Covers
  <2>3. Promised(kept)'
    BY <1>1, <1>2, <2>2 DEF Promised
  <2>4. QED
    BY <2>1, <2>3, <1>2 DEF KeptInv
<1>9. QED
  BY <1>4, <1>5, <1>6, <1>7, <1>8 DEF OrdinaryInv

-----------------------------------------------------------------------------

-----------------------------------------------------------------------------
LEMMA StutterInv ==
  ASSUME OrdinaryInv, UNCHANGED vars
  PROVE  OrdinaryInv'
<1>1. UNCHANGED <<input, nodes, OldDecl, FirstUse, array, requests, inserts, Log, kept, phase>>
  BY DEF vars, input
<1>2. StrongLog' = StrongLog
  BY <1>1, LogFacts
<1>3. \A s : Found(s)' = Found(s)
  BY <1>1 DEF Found
<1>4. Used' = Used
  BY <1>1, <1>3, UnchangedInput DEF Used, Is_Used, input
<1>5. \A s : Needs_Sym_Rename(s)' = Needs_Sym_Rename(s)
  BY <1>1, <1>3 DEF Needs_Sym_Rename, input
<1>6. VisitInv'
  BY <1>1, UnchangedInput DEF OrdinaryInv, VisitInv
<1>7. DeclInv'
  BY <1>1, <1>3, UnchangedInput DEF OrdinaryInv, DeclInv
<1>8. UseInv'
  BY <1>1, UnchangedInput DEF OrdinaryInv, UseInv, input
<1>9. RequestInv'
  <2>1. SUFFICES ASSUME NEW r \in requests PROVE RequestOK(r)'
    BY <1>1 DEF RequestInv
  <2>2. RequestOK(r)
    BY DEF OrdinaryInv, RequestInv
  <2>3. /\ DeclRequest(r) => DeclRequest(r)'
        /\ BodyRequest(r) => BodyRequest(r)'
    BY <1>1, <1>2, UnchangedInput DEF DeclRequest, BodyRequest, Request, input
  <2>4. /\ NameRequest(r) => NameRequest(r)'
        /\ UseRequest(r) => UseRequest(r)'
        /\ StaticRequest(r) => StaticRequest(r)'
    BY <1>1, UnchangedInput DEF NameRequest, UseRequest, StaticRequest, Request, input
  <2>5. MacroRequest(r) => MacroRequest(r)'
    BY <1>1, <1>5, UnchangedInput DEF MacroRequest, Request, input
  <2>6. QED
    BY <2>2, <2>3, <2>4, <2>5 DEF RequestOK
<1>10. RenamedInv'
  BY <1>1, <1>5, UnchangedInput DEF OrdinaryInv, RenamedInv, input
<1>11. LogInv'
  <2>1. LogInv
    BY DEF OrdinaryInv
  <2>2. \A ins \in inserts' : InsertOK(ins)'
    BY <1>1, <1>2, <2>1, LateDeclStays DEF LogInv, InsertOK, input
  <2>3. \A s \in StrongLog' : Externalized(s)'
    BY <1>1, <1>2, <2>1, ExternalizedStays DEF LogInv
  <2>4. QED
    BY <1>1, <1>2, <1>4, <2>1, <2>2, <2>3 DEF LogInv
<1>12. KeptInv'
  <2>1. \A a, b : Meet(a, b)' = Meet(a, b)
    BY <1>1, UnchangedInput DEF Meet, Covers
  <2>2. QED
    BY <1>1, <2>1 DEF OrdinaryInv, KeptInv, Done, Promised
<1>13. QED
  BY <1>6, <1>7, <1>8, <1>9, <1>10, <1>11, <1>12 DEF OrdinaryInv

LEMMA NextInv ==
  ASSUME InputOK, Ordinary, OrdinaryInv, [Next]_vars
  PROVE  OrdinaryInv'
<1>1. CASE \E v \in nodes : \/ VisitStrong(v) \/ VisitWeak(v) \/ VisitRename(v)
                            \/ VisitDeclRefExpr(v)
  BY <1>1, VisitStrongInv, VisitWeakInv, VisitRenameInv, VisitDeclRefExprInv
<1>2. CASE \E s \in array : Handle_IBT_Ext(s) \/ Late_Insert(s) \/ Replace_Decl(s)
  BY <1>2, HandleIBTInv, LateInsertInv, ReplaceDeclInv
<1>3. CASE Compute_Array
  BY <1>3, ComputeArrayInv
<1>4. CASE Rewrite_Macros
  BY <1>4, RewriteMacrosInv
<1>5. CASE Commit
  BY <1>5, CommitInv
<1>6. CASE UNCHANGED vars
  BY <1>6, StutterInv
<1>7. QED
  BY <1>1, <1>2, <1>3, <1>4, <1>5, <1>6 DEF Next

\* Nothing of the program ever changes.
LEMMA InputStays == [Next]_vars => UNCHANGED input
<1> SUFFICES ASSUME [Next]_vars PROVE UNCHANGED input
  OBVIOUS
<1>1. ASSUME NEW v, VisitStrong(v) \/ VisitWeak(v) \/ VisitRename(v) \/ VisitDeclRefExpr(v)
      PROVE  UNCHANGED input
  BY <1>1 DEF VisitStrong, VisitWeak, VisitRename, VisitDeclRefExpr
<1>2. ASSUME NEW s, Handle_IBT_Ext(s) \/ Late_Insert(s) \/ Replace_Decl(s)
      PROVE  UNCHANGED input
  BY <1>2 DEF Handle_IBT_Ext, Late_Insert, Replace_Decl, Externalize
<1>3. Compute_Array \/ Rewrite_Macros \/ Commit => UNCHANGED input
  BY DEF Compute_Array, Rewrite_Macros, Commit
<1>4. UNCHANGED vars => UNCHANGED input
  BY DEF vars, input
<1>5. QED
  BY <1>1, <1>2, <1>3, <1>4 DEF Next

\* The invariant is inductive.
THEOREM Inductive == Spec => []IInv
<1>1. IInv /\ [Next]_vars => IInv'
  <2> SUFFICES ASSUME IInv, [Next]_vars PROVE IInv'
    OBVIOUS
  <2>1. InputOK' = InputOK /\ Ordinary' = Ordinary
    BY InputStays, UnchangedInput
  <2>2. Ordinary => OrdinaryInv'
    BY NextInv DEF IInv
  <2>3. QED
    BY <2>1, <2>2 DEF IInv
<1>2. QED
  BY <1>1, InitIInv, PTL DEF Spec

-----------------------------------------------------------------------------
(***************************************************************************)
(* What is known of the requests.                                          *)
(***************************************************************************)
LEMMA PartFacts ==
  ASSUME IInv, Ordinary, NEW r \in requests
  PROVE  /\ r.part \in {"decl", "body", "name", "use", "static", "macro"}
         /\ r.prio \in {10, 100, 1000}
         /\ r.part = "decl" => DeclRequest(r) /\ r.prio = 1000
         /\ r.part = "body" => BodyRequest(r) /\ r.prio = 1000
         /\ r.part = "name" => NameRequest(r) /\ r.prio = 100
         /\ r.part = "use" => UseRequest(r) /\ r.prio = 100
         /\ r.part = "static" => StaticRequest(r) /\ r.prio = 10
         /\ r.part = "macro" => MacroRequest(r) /\ r.prio = 10
<1>1. RequestOK(r)
  BY DEF IInv, OrdinaryInv, RequestInv
<1>2. CASE DeclRequest(r)
  <2>1. r.part = "decl" /\ r.prio = 1000
    BY <1>2 DEF DeclRequest, Request
  <2>2. QED
    BY <1>2, <2>1
<1>3. CASE BodyRequest(r)
  <2>1. r.part = "body" /\ r.prio = 1000
    BY <1>3 DEF BodyRequest, Request
  <2>2. QED
    BY <1>3, <2>1
<1>4. CASE NameRequest(r)
  <2>1. r.part = "name" /\ r.prio = 100
    BY <1>4 DEF NameRequest, Request
  <2>2. QED
    BY <1>4, <2>1
<1>5. CASE UseRequest(r)
  <2>1. r.part = "use" /\ r.prio = 100
    BY <1>5 DEF UseRequest, Request
  <2>2. QED
    BY <1>5, <2>1
<1>6. CASE StaticRequest(r)
  <2>1. r.part = "static" /\ r.prio = 10
    BY <1>6 DEF StaticRequest, Request
  <2>2. QED
    BY <1>6, <2>1
<1>7. CASE MacroRequest(r)
  <2>1. r.part = "macro" /\ r.prio = 10
    BY <1>7 DEF MacroRequest, Request
  <2>2. QED
    BY <1>7, <2>1
<1>8. QED
  BY <1>1, <1>2, <1>3, <1>4, <1>5, <1>6, <1>7 DEF RequestOK

\* A request that replaces a declaration covers what is in this declaration.
LEMMA DeclCovers ==
  ASSUME IInv, Ordinary, NEW a \in requests, a.part = "decl", NEW b
  PROVE  Covers(a, b) <=> b.top = a.top
<1>1. a.top \in Index
  BY PartFacts DEF DeclRequest, Of
<1>2. First(a.top) = a.top
  BY <1>1, FirstIsItself DEF IInv, InputOK, Ordinary
<1>3. a.top \in Nat
  BY <1>1 DEF Index
<1>4. Covers(a, b) <=> b.top \in a.top..a.top
  BY <1>2 DEF Covers
<1>5. QED
  BY <1>3, <1>4

\* Two requests of one priority, one of which covers the other, are the same.
LEMMA ConflictFree ==
  ASSUME IInv, Ordinary, NEW a \in requests, NEW b \in requests, Covers(a, b), a.prio = b.prio
  PROVE  a = b
<1>1. CASE a.part = "decl"
  <2>1. b.top = a.top /\ DeclRequest(a) /\ b.prio = 1000
    BY <1>1, DeclCovers, PartFacts
  <2>2. DeclRequest(b) \/ BodyRequest(b)
    BY <2>1, PartFacts
  <2>3. a.sym = b.sym
    BY <2>1, <2>2 DEF DeclRequest, BodyRequest, Of
  <2>4. ~BodyRequest(b)
    BY <2>1, <2>3 DEF DeclRequest, BodyRequest, Strong, Weak
  <2>5. QED
    BY <2>1, <2>2, <2>3, <2>4 DEF DeclRequest
<1>2. CASE a.part = "body"
  <2>1. b.top = a.top /\ b.part \in {"body", "use", "macro"} /\ BodyRequest(a) /\ b.prio = 1000
    BY <1>2, PartFacts DEF Covers
  <2>2. BodyRequest(b)
    BY <2>1, PartFacts
  <2>3. a.sym = b.sym
    BY <2>1, <2>2 DEF BodyRequest, Of
  <2>4. QED
    BY <2>1, <2>2, <2>3 DEF BodyRequest
<1>3. CASE a.part \in {"name", "use", "static", "macro"}
  <2>1. b.top = a.top /\ b.part = a.part /\ b.sym = a.sym
    BY <1>3 DEF Covers
  <2>2. CASE a.part = "name"
    BY <2>1, <2>2, PartFacts DEF NameRequest
  <2>3. CASE a.part = "use"
    BY <2>1, <2>3, PartFacts DEF UseRequest
  <2>4. CASE a.part = "static"
    BY <2>1, <2>4, PartFacts DEF StaticRequest
  <2>5. CASE a.part = "macro"
    BY <2>1, <2>5, PartFacts DEF MacroRequest
  <2>6. QED
    BY <1>3, <2>2, <2>3, <2>4, <2>5
<1>4. QED
  BY <1>1, <1>2, <1>3, PartFacts

\* Requests that meet have different priorities: what TextModifications keeps
\* does not depend on how std::sort leaves requests of one priority.
THEOREM RequestsDoNotConflictHolds == Spec => []RequestsDoNotConflict
<1>1. IInv => RequestsDoNotConflict
  BY ConflictFree DEF RequestsDoNotConflict, Meet
<1>2. QED
  BY <1>1, Inductive, PTL

-----------------------------------------------------------------------------
(***************************************************************************)
(* What is known of the requests that are kept.                            *)
(***************************************************************************)
LEMMA KeptFacts ==
  ASSUME IInv, Ordinary, Done
  PROVE  /\ kept \subseteq requests
         /\ \A a \in requests \ kept : \E b \in kept : Meet(a, b) /\ a.prio <= b.prio
         /\ nodes = {} /\ array = {} /\ StrongLog = Used
         /\ OrdinaryInv
  BY DEF IInv, OrdinaryInv, KeptInv, Promised, Done, VisitInv, LogInv

\* The important ones are all kept.
LEMMA ImportantKept ==
  ASSUME IInv, Ordinary, Done, NEW a \in requests, a.prio = 1000
  PROVE  a \in kept
<1> SUFFICES ASSUME a \notin kept PROVE FALSE
  OBVIOUS
<1>1. PICK b \in kept : Meet(a, b) /\ a.prio <= b.prio
  BY KeptFacts
<1>2. b \in requests /\ b.prio \in {10, 100, 1000}
  BY <1>1, KeptFacts, PartFacts
<1>3. b.prio = a.prio
  BY <1>1, <1>2
<1>4. QED
  BY <1>1, <1>2, <1>3, ConflictFree DEF Meet

\* A name, a use or a token of a macro is rewritten unless the declarator or
\* the body that it is in goes.
LEMMA SmallKept ==
  ASSUME IInv, Ordinary, Done, NEW a \in requests, a.part \in {"name", "use", "macro"},
         \A b \in kept : b.part = "decl" => b.top # a.top,
         a.part \in {"use", "macro"} => \A b \in kept : b.part = "body" => b.top # a.top
  PROVE  a \in kept
<1> SUFFICES ASSUME a \notin kept PROVE FALSE
  OBVIOUS
<1>1. PICK b \in kept : Meet(a, b) /\ a.prio <= b.prio
  BY KeptFacts
<1>2. b \in requests
  BY <1>1, KeptFacts
<1>3. ~Covers(a, b) \/ a.prio = b.prio
  BY <1>2, PartFacts DEF Covers
<1>4. Covers(b, a) => a.prio = b.prio
  <2>1. SUFFICES ASSUME Covers(b, a) PROVE a.prio = b.prio
    OBVIOUS
  <2>2. b.part # "decl"
    BY <1>1, <1>2, <2>1, DeclCovers
  <2>3. b.part # "body"
    BY <1>1, <2>1 DEF Covers
  <2>4. b.part \in {"name", "use", "static", "macro"}
    BY <1>2, <2>2, <2>3, PartFacts
  <2>5. a.part = b.part
    BY <2>1, <2>4 DEF Covers
  <2>6. QED
    BY <1>2, <2>4, <2>5, PartFacts
<1>5. QED
  BY <1>1, <1>2, <1>3, <1>4, ConflictFree DEF Meet

LEMMA PresentFacts ==
  ASSUME IInv, Ordinary, Done, NEW i
  PROVE  Present(i) <=> \A e \in kept : e.part = "decl" => e.top # i
<1>1. ASSUME NEW e \in kept, e.part = "decl" PROVE i \notin First(e.top)..e.top <=> e.top # i
  <2>1. e \in requests
    BY KeptFacts
  <2>2. e.top \in Index
    BY <1>1, <2>1, PartFacts DEF DeclRequest, Of
  <2>3. First(e.top) = e.top /\ e.top \in Nat
    BY <2>2, FirstIsItself DEF IInv, InputOK, Ordinary, Index
  <2>4. QED
    BY <2>3
<1>2. QED
  BY <1>1 DEF Present

\* What a declarator declares in the end: under its new name if a request to
\* rewrite it is kept, under its own or the renamed one if none removes it.
LEMMA DeclaresFacts ==
  ASSUME IInv, Ordinary, Done, NEW i \in Index
  PROVE  LET s == unit[i].sym
         IN /\ ~Strong(s) /\ ~Weak(s) => Present(i)
            /\ Weak(s) /\ (i \notin Definition(s) \/ Of(s) = {i}) => Present(i)
            /\ Strong(s) /\ Ibt => Present(i)
            /\ Present(i) /\ ~Rename(s) => <<"plain", s>> \in Declares(i)
            /\ Rename(s) => <<"klpp_", s>> \in Declares(i)
            /\ ~Strong(s) /\ ~Weak(s) /\ ~Rename(s) => Declares(i) = {<<"plain", s>>}
<1> DEFINE s == unit[i].sym
           rewrites == {e \in kept : e.part = "decl" /\ e.top = i /\ e.text # "removed"}
           name == IF HasEdit(i, "name", s) THEN "klpp_" ELSE "plain"
<1>1. Declares(i) = {<<e.text, s>> : e \in rewrites} \cup IF Present(i) THEN {<<name, s>>} ELSE {}
  BY DEF Declares
<1>2. i \in Of(s)
  BY DEF Of
<1>3. ASSUME ~Present(i)
      PROVE  \/ Weak(s) /\ i \in Definition(s) /\ \E k \in Of(s) : k # i
             \/ Strong(s) /\ ~Ibt
  <2>1. PICK e \in kept : e.part = "decl" /\ e.top = i
    BY <1>3, PresentFacts
  <2>2. DeclRequest(e)
    BY <2>1, KeptFacts, PartFacts
  <2>3. e.sym = s
    BY <2>1, <2>2 DEF DeclRequest, Of
  <2>4. QED
    BY <2>1, <2>2, <2>3 DEF DeclRequest
<1>4. HasEdit(i, "name", s) => Rename(s)
  <2>1. SUFFICES ASSUME NEW e \in kept, e.top = i, e.part = "name", e.sym = s PROVE Rename(s)
    BY DEF HasEdit
  <2>2. QED
    BY <2>1, KeptFacts, PartFacts DEF NameRequest
<1>5. ASSUME Rename(s) PROVE HasEdit(i, "name", s)
  <2> DEFINE r == Request(i, "name", s, "klpp_", 100)
  <2>1. r \in requests
    BY <1>2, <1>5, KeptFacts DEF OrdinaryInv, RenamedInv, Rename
  <2>2. r.part = "name" /\ r.top = i /\ r.sym = s
    BY DEF Request
  <2> HIDE DEF r
  <2>3. ~Weak(s) /\ ~Strong(s)
    BY <1>5 DEF Rename, Weak, Strong
  <2>4. \A b \in kept : b.part = "decl" => b.top # r.top
    BY <1>3, <2>2, <2>3, PresentFacts
  <2>5. r \in kept
    BY <2>1, <2>2, <2>4, SmallKept
  <2>6. QED
    BY <2>2, <2>5 DEF HasEdit
<1>6. Rename(s) => ~Weak(s) /\ ~Strong(s)
  BY DEF Rename, Weak, Strong
<1>7. Present(i) => <<name, s>> \in Declares(i)
  BY <1>1
<1>8. ASSUME ~Strong(s), ~Weak(s), ~Rename(s) PROVE Declares(i) = {<<"plain", s>>}
  <2>1. Present(i) /\ name = "plain"
    BY <1>3, <1>4, <1>8
  <2>2. rewrites = {}
    BY <2>1, PresentFacts
  <2> HIDE DEF name, rewrites
  <2>3. QED
    BY <1>1, <2>1, <2>2
<1>9. Weak(s) => ~Strong(s)
  BY DEF Weak, Strong
<1>10. (Present(i) /\ ~Rename(s) => name = "plain") /\ (Rename(s) => name = "klpp_")
  BY <1>4, <1>5
<1> HIDE DEF s, name
<1>11. QED
  BY <1>3, <1>6, <1>7, <1>8, <1>9, <1>10 DEF s

\* A symbol that nobody asked to change keeps all its declarations.
THEOREM BystandersStayHolds == Spec => []BystandersStay
<1>1. IInv => BystandersStay
  <2> SUFFICES ASSUME IInv, Done, Ordinary, NEW i \in Index, unit[i].sym \notin DOMAIN ExtType
               PROVE  Declares(i) = {<<"plain", unit[i].sym>>}
    BY DEF BystandersStay
  <2>1. ~Strong(unit[i].sym) /\ ~Weak(unit[i].sym) /\ ~Rename(unit[i].sym)
    BY DEF Strong, Weak, Rename, Dom
  <2>2. QED
    BY <2>1, DeclaresFacts
<1>2. QED
  BY <1>1, Inductive, PTL

-----------------------------------------------------------------------------
\* The declaration that is inserted for s.
LEMMA LateFacts ==
  ASSUME IInv, Done, Ordinary, NEW s \in Symbols
  PROVE  \A ins : ins \in Late(s) <=>
           ins = LateDecl(s) /\ s \in StrongLog /\ ~Ibt /\ AllowLateExternalization
<1>1. LogInv
  BY KeptFacts DEF OrdinaryInv
<1>2. ASSUME NEW ins \in inserts, ins.what = <<"klpe_", s>>
      PROVE  ins = LateDecl(s) /\ s \in StrongLog /\ ~Ibt /\ AllowLateExternalization
  <2>1. InsertOK(ins)
    BY <1>1 DEF LogInv
  <2>2. ~ \E t \in Symbols : ins.what = <<"extern", t>>
    BY <1>2
  <2>3. PICK t \in StrongLog : ins = LateDecl(t) /\ ~Ibt /\ AllowLateExternalization
    BY <2>1, <2>2 DEF InsertOK
  <2>4. <<"klpe_", t>> = <<"klpe_", s>>
    BY <1>2, <2>3 DEF LateDecl
  <2>5. QED
    BY <2>3, <2>4
<1>3. ASSUME s \in StrongLog, ~Ibt, AllowLateExternalization
      PROVE  LateDecl(s) \in inserts /\ LateDecl(s).what = <<"klpe_", s>>
  BY <1>1, <1>3 DEF LogInv, Externalized, LateDecl
<1>4. QED
  BY <1>2, <1>3 DEF Late

\* The declaration of s that is rewritten.
LEMMA InPlaceFacts ==
  ASSUME IInv, Done, Ordinary, NEW s \in Symbols
  PROVE  \A i : i \in InPlace(s) <=>
           s \in StrongLog /\ ~Ibt /\ ~AllowLateExternalization /\ i = OldDecl[s].top
<1>1. ASSUME NEW i \in InPlace(s)
      PROVE  s \in StrongLog /\ ~Ibt /\ ~AllowLateExternalization /\ i = OldDecl[s].top
  <2>1. i \in Index /\ <<"klpe_", s>> \in Declares(i)
    BY <1>1 DEF InPlace
  <2> DEFINE t == unit[i].sym
             name == IF HasEdit(i, "name", t) THEN "klpp_" ELSE "plain"
  <2>2. <<name, t>> # <<"klpe_", s>>
    OBVIOUS
  <2>3. PICK e \in kept : e.part = "decl" /\ e.top = i /\ e.text # "removed" /\ <<e.text, t>> = <<"klpe_", s>>
    BY <2>1, <2>2 DEF Declares
  <2>4. DeclRequest(e) /\ t = s
    BY <2>3, KeptFacts, PartFacts
  <2>5. e.sym = s
    BY <2>3, <2>4 DEF DeclRequest, Of
  <2>6. e.text = InPlaceText(s)
    BY <2>4, <2>5 DEF DeclRequest, Request
  <2>7. Strong(s) /\ ~AllowLateExternalization
    BY <2>3, <2>4, <2>5, <2>6 DEF InPlaceText, DeclRequest, Weak, Strong
  <2>8. QED
    BY <2>3, <2>4, <2>5, <2>7 DEF DeclRequest, Weak, Strong
<1>2. ASSUME s \in StrongLog, ~Ibt, ~AllowLateExternalization
      PROVE  OldDecl[s].top \in InPlace(s)
  <2> DEFINE r == Request(OldDecl[s].top, "decl", s, "klpe_", 1000)
  <2>1. r \in requests
    BY <1>2, KeptFacts DEF OrdinaryInv, LogInv, Externalized
  <2>2. r.prio = 1000 /\ r.part = "decl" /\ r.top = OldDecl[s].top /\ r.sym = s /\ r.text = "klpe_"
    BY DEF Request
  <2> HIDE DEF r
  <2>3. r \in kept /\ DeclRequest(r)
    BY <2>1, <2>2, ImportantKept, PartFacts
  <2>4. r.top \in Index /\ unit[r.top].sym = s
    BY <2>2, <2>3 DEF DeclRequest, Of
  <2>5. <<r.text, s>> \in Declares(r.top)
    BY <2>2, <2>3, <2>4 DEF Declares
  <2>6. QED
    BY <2>2, <2>4, <2>5 DEF InPlace
<1>3. QED
  BY <1>1, <1>2

\* The log agrees with the text.
THEOREM LogIsTrueHolds == Spec => []LogIsTrue
<1>1. ASSUME IInv, Done, Ordinary, Ibt, NEW s \in StrongLog, NEW i \in Of(s)
      PROVE  ~HasBody(i)
  <2> SUFFICES ASSUME unit[i].def PROVE HasEdit(i, "body", unit[i].sym)
    BY DEF HasBody
  <2> DEFINE r == Request(i, "body", s, "semicolon", 1000)
  <2>1. unit[i].sym = s /\ i \in Definition(s)
    BY DEF Of, Definition
  <2>2. r \in requests
    BY <1>1, <2>1, KeptFacts DEF OrdinaryInv, LogInv, Externalized
  <2>3. r.prio = 1000 /\ r.part = "body" /\ r.top = i /\ r.sym = s
    BY DEF Request
  <2> HIDE DEF r
  <2>4. r \in kept
    BY <1>1, <2>2, <2>3, ImportantKept
  <2>5. QED
    BY <2>1, <2>3, <2>4 DEF HasEdit
<1>2. IInv => LogIsTrue
  <2> SUFFICES ASSUME IInv, Done, Ordinary, NEW s \in Symbols
               PROVE  /\ s \notin StrongLog => Late(s) = {} /\ InPlace(s) = {}
                      /\ s \in StrongLog /\ ~Ibt => Cardinality(InPlace(s)) + Cardinality(Late(s)) = 1
                      /\ s \in StrongLog /\ Ibt => \A i \in Of(s) : ~HasBody(i)
    BY DEF LogIsTrue
  <2>1. s \notin StrongLog => Late(s) = {} /\ InPlace(s) = {}
    BY LateFacts, InPlaceFacts
  <2>2. ASSUME s \in StrongLog, ~Ibt PROVE Cardinality(InPlace(s)) + Cardinality(Late(s)) = 1
    <3>1. \A x : Cardinality({x}) = 1
      BY FS_Singleton
    <3>2. Cardinality({}) = 0
      BY FS_EmptySet
    <3>3. CASE AllowLateExternalization
      <4>1. Late(s) = {LateDecl(s)} /\ InPlace(s) = {}
        BY <2>2, <3>3, LateFacts, InPlaceFacts
      <4>2. Cardinality(Late(s)) = 1 /\ Cardinality(InPlace(s)) = 0
        BY <3>1, <3>2, <4>1
      <4>3. QED
        BY <4>2
    <3>4. CASE ~AllowLateExternalization
      <4>1. Late(s) = {} /\ InPlace(s) = {OldDecl[s].top}
        BY <2>2, <3>4, LateFacts, InPlaceFacts
      <4>2. Cardinality(Late(s)) = 0 /\ Cardinality(InPlace(s)) = 1
        BY <3>1, <3>2, <4>1
      <4>3. QED
        BY <4>2
    <3>5. QED
      BY <3>3, <3>4
  <2>3. QED
    BY <1>1, <2>1, <2>2
<1>3. QED
  BY <1>2, Inductive, PTL

-----------------------------------------------------------------------------
LEMMA VisibleFacts ==
  ASSUME NEW i, NEW k \in Index, k < i \/ (k = i /\ IsFunction(i)), NEW x \in Declares(k)
  PROVE  x \in Visible(i)
BY DEF Visible, Preceding

LEMMA InsertedVisible == \A i : Inserted(i) \subseteq Visible(i)
BY DEF Visible

\* A use is rewritten where its symbol gets a new name, and only there.
LEMMA UseFacts ==
  ASSUME IInv, Done, Ordinary, NEW i \in Index, NEW s \in Uses(i)
  PROVE  HasEdit(i, "use", s) \/ (s \in Macros /\ HasEdit(MacroPlace(i, s), "macro", s))
           <=> Rename(s) \/ (Strong(s) /\ ~Ibt)
<1>1. /\ HasBody(i) /\ s \in unit[i].refs \ {unit[i].param}
      /\ Present(i) /\ ~HasEdit(i, "body", unit[i].sym)
  BY DEF Uses, HasBody
<1>2. Strong(s) => Found(s)
  <2>1. PICK j \in Of(s) : TRUE
    BY <1>1, ScopeFacts DEF IInv
  <2>2. QED
    BY <2>1, KeptFacts DEF OrdinaryInv, DeclInv, Strong
<1>3. HasEdit(i, "use", s) => Rename(s) \/ (Strong(s) /\ ~Ibt)
  BY KeptFacts, PartFacts DEF HasEdit, UseRequest
<1>4. HasEdit(MacroPlace(i, s), "macro", s) => Rename(s) \/ (Strong(s) /\ ~Ibt)
  <2>1. SUFFICES ASSUME NEW e \in kept, e.part = "macro", e.sym = s
                 PROVE  Rename(s) \/ (Strong(s) /\ ~Ibt)
    BY DEF HasEdit
  <2>2. s \in Dom /\ Needs_Sym_Rename(s)
    BY <2>1, KeptFacts, PartFacts DEF MacroRequest
  <2>3. QED
    BY <2>2, <1>2 DEF Needs_Sym_Rename, Rename, Strong
<1>5. ASSUME Rename(s) \/ (Strong(s) /\ ~Ibt), s \notin Macros PROVE HasEdit(i, "use", s)
  <2> DEFINE r == Request(i, "use", s, "use", 100)
             v == Visit(i, "use", s)
  <2>1. v \in Visits \ nodes
    <3>1. s \in Dom
      BY <1>5 DEF Rename, Strong
    <3>2. QED
      BY <1>1, <3>1, VisitFacts, KeptFacts DEF Ordinary
  <2>2. v.kind = "use" /\ v.sym = s /\ v.top = i
    BY DEF Visit
  <2>3. r \in requests
    BY <1>5, <2>1, <2>2, KeptFacts DEF OrdinaryInv, RenamedInv
  <2>4. r.part = "use" /\ r.top = i /\ r.sym = s
    BY DEF Request
  <2> HIDE DEF r
  <2>5. \A b \in kept : b.part = "decl" => b.top # r.top
    BY <1>1, <2>4, PresentFacts
  <2>6. ASSUME NEW b \in kept, b.part = "body" PROVE b.top # r.top
    <3>1. BodyRequest(b)
      BY <2>6, KeptFacts, PartFacts
    <3>2. b.sym = unit[b.top].sym
      BY <3>1 DEF BodyRequest, Of
    <3>3. QED
      BY <1>1, <2>4, <2>6, <3>2 DEF HasEdit
  <2>7. r \in kept
    BY <2>3, <2>4, <2>5, <2>6, SmallKept
  <2>8. QED
    BY <2>4, <2>7 DEF HasEdit
<1>6. ASSUME Rename(s) \/ (Strong(s) /\ ~Ibt), s \in Macros
      PROVE  HasEdit(MacroPlace(i, s), "macro", s)
  <2> DEFINE p == MacroPlace(i, s)
             r == Request(p, "macro", s, "use", 10)
  <2>7. p \in MacroPlaces(s) /\ (p = i \/ p = 0)
    BY <1>1 DEF MacroPlace, MacroPlaces
  <2>1. Needs_Sym_Rename(s) /\ s \in Dom
    BY <1>6 DEF Needs_Sym_Rename, Rename, Strong
  <2>2. r \in requests
    BY <1>6, <2>1, <2>7, KeptFacts DEF OrdinaryInv, RenamedInv, Done
  <2>3. r.part = "macro" /\ r.top = p /\ r.sym = s
    BY DEF Request
  <2> HIDE DEF r, p
  <2>4. ASSUME NEW b \in kept, b.part = "decl" PROVE b.top # r.top
    <3>1. b.top \in Index
      BY <2>4, KeptFacts, PartFacts DEF DeclRequest, Of
    <3>2. b.top # i
      BY <1>1, <2>4, PresentFacts
    <3> QED
      BY <3>1, <3>2, <2>3, <2>7 DEF Index
  <2>8. ASSUME NEW b \in kept, b.part = "body" PROVE b.top # r.top
    <3>1. BodyRequest(b)
      BY <2>8, KeptFacts, PartFacts
    <3>2. b.sym = unit[b.top].sym /\ b.top \in Index
      BY <3>1 DEF BodyRequest, Of
    <3>3. b.top # i
      BY <1>1, <2>8, <3>2 DEF HasEdit
    <3>4. QED
      BY <3>2, <3>3, <2>3, <2>7 DEF Index
  <2>5. r \in kept
    BY <2>2, <2>3, <2>4, <2>8, SmallKept
  <2>6. QED
    BY <2>3, <2>5 DEF HasEdit, p
<1>7. QED
  BY <1>3, <1>4, <1>5, <1>6

\* What the closure keeps finds what it uses declared, under the name that it
\* then uses.
THEOREM UsesAreDeclaredHolds == Spec => []UsesAreDeclared
<1>1. IInv => UsesAreDeclared
  <2> SUFFICES ASSUME IInv, Done, Ordinary, NEW i \in closure \cap Index, NEW s \in Uses(i)
               PROVE  NameUsed(i, s) \in Visible(i)
    BY DEF UsesAreDeclared
  <2>1. s \in unit[i].refs \ {unit[i].param}
    BY DEF Uses
  <2>2. PICK j \in Of(s) : j <= i /\ (j < i \/ IsFunction(i))
    BY <2>1, ScopeFacts DEF IInv
  <2>3. j \in Index /\ unit[j].sym = s /\ i \in Nat /\ j \in Nat
    BY <2>2 DEF Of, Index
  <2>4. ASSUME NEW k \in Of(s), k <= j, NEW x \in Declares(k) PROVE x \in Visible(i)
    <3>1. k \in Index /\ k \in Nat
      BY DEF Of, Index
    <3>2. k < i \/ (k = i /\ IsFunction(i))
      BY <2>2, <2>3, <2>4, <3>1
    <3>3. QED
      BY <2>4, <3>1, <3>2, VisibleFacts
  <2>5. NameUsed(i, s) =
          IF Rename(s) \/ (Strong(s) /\ ~Ibt) THEN UseName(s) ELSE <<"plain", s>>
    BY UseFacts DEF NameUsed
  <2>6. CASE Rename(s)
    <3>1. NameUsed(i, s) = <<"klpp_", s>>
      BY <2>5, <2>6 DEF UseName, Rename
    <3>2. <<"klpp_", s>> \in Declares(j)
      BY <2>3, <2>6, DeclaresFacts
    <3>3. QED
      BY <2>3, <2>4, <3>1, <3>2
  <2>7. CASE Strong(s) /\ ~Ibt
    <3>1. Found(s) /\ s \in Symbols /\ s \in Dom
      BY <2>2, <2>7, KeptFacts DEF OrdinaryInv, DeclInv, Strong, IInv, InputOK
    <3>2. NameUsed(i, s) = <<"klpe_", s>>
      BY <2>5, <2>7, <3>1 DEF UseName, Strong
    <3>3. FirstUse[s] # 0 /\ FirstUse[s] <= i
      <4>1. Visit(i, "use", s) \in Visits \ nodes
        BY <2>1, <3>1, VisitFacts, KeptFacts DEF Ordinary
      <4>2. Visit(i, "use", s).kind = "use" /\ Visit(i, "use", s).sym = s /\ Visit(i, "use", s).top = i
        BY DEF Visit
      <4>3. QED
        BY <4>1, <4>2, KeptFacts DEF OrdinaryInv, UseInv
    <3>4. s \in StrongLog
      BY <2>7, <3>1, <3>3, KeptFacts DEF Used, Is_Used, Strong
    <3>5. CASE AllowLateExternalization
      <4>1. LateDecl(s) \in inserts
        BY <2>7, <3>4, <3>5, KeptFacts DEF OrdinaryInv, LogInv, Externalized
      <4>2. FirstUse[s] \in Index
        BY <3>1, <3>3, KeptFacts DEF OrdinaryInv, UseInv
      <4>3. LateDecl(s).at = FirstUse[s] /\ LateDecl(s).what = <<"klpe_", s>>
        BY <4>2, FirstIsItself DEF LateDecl, IInv, InputOK, Ordinary
      <4>4. <<"klpe_", s>> \in Inserted(i)
        BY <3>3, <4>1, <4>3 DEF Inserted
      <4>5. Inserted(i) \subseteq Visible(i)
        BY InsertedVisible
      <4>6. QED
        BY <3>2, <4>4, <4>5
    <3>6. CASE ~AllowLateExternalization
      <4>1. OldDecl[s].top \in InPlace(s)
        BY <2>7, <3>1, <3>4, <3>6, InPlaceFacts
      <4>2. <<"klpe_", s>> \in Declares(OldDecl[s].top)
        BY <4>1 DEF InPlace
      <4>3. OldDecl[s].top \in Of(s) /\ OldDecl[s].top <= j
        BY <2>7, <3>1, KeptFacts DEF OrdinaryInv, DeclInv
      <4>4. QED
        BY <2>4, <3>2, <4>2, <4>3
    <3>7. QED
      BY <3>5, <3>6
  <2>8. CASE ~Rename(s) /\ ~(Strong(s) /\ ~Ibt)
    <3>1. NameUsed(i, s) = <<"plain", s>>
      BY <2>5, <2>8
    <3>2. PICK k \in Of(s) : k <= j /\ Present(k)
      <4>1. CASE Weak(s) /\ j \in Definition(s) /\ Of(s) # {j}
        <5>1. PICK k \in Of(s) : k < j
          BY <4>1 DEF Ordinary, PrototypesFirst, Weak, Dom
        <5>2. k \in Index /\ k \in Nat /\ unit[k].sym = s
          BY DEF Of, Index
        <5>3. k \notin Definition(s)
          <6>1. s \in Symbols
            BY <4>1 DEF Weak, IInv, InputOK
          <6>2. \A a, b \in Definition(s) : a = b
            BY <6>1 DEF IInv, InputOK, WellFormed
          <6>3. QED
            BY <4>1, <5>1, <5>2, <6>2, <2>3
        <5>4. Present(k)
          BY <4>1, <5>2, <5>3, DeclaresFacts
        <5>5. QED
          BY <5>1, <5>2, <5>4, <2>3
      <4>2. CASE ~(Weak(s) /\ j \in Definition(s) /\ Of(s) # {j})
        <5>1. Present(j)
          BY <2>3, <2>8, <4>2, DeclaresFacts
        <5>2. QED
          BY <2>3, <5>1
      <4>3. QED
        BY <4>1, <4>2
    <3>3. k \in Index /\ unit[k].sym = s
      BY DEF Of
    <3>4. <<"plain", s>> \in Declares(k)
      BY <2>8, <3>2, <3>3, DeclaresFacts
    <3>5. QED
      BY <2>4, <3>1, <3>2, <3>4
  <2>9. QED
    BY <2>6, <2>7, <2>8
<1>2. QED
  BY <1>1, Inductive, PTL
=============================================================================
