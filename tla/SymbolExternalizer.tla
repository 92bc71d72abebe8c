------------------------- MODULE SymbolExternalizer -------------------------
(***************************************************************************)
(* SymbolExternalizer of libcextract/SymbolExternalizer.cpp: a visitor of  *)
(* the AST, late externalization and the rewriting of macros file requests *)
(* to change the source; TextModifications decides which of them are done. *)
(*                                                                         *)
(* The translation unit is the sequence of its declarators.  A declarator  *)
(* that is joined to the one before it shares its specifiers (int a, b;)   *)
(* and, for clang, its beginning.  The text that comes out is what the     *)
(* requests kept leave of it, with the declarations that were inserted.    *)
(***************************************************************************)
EXTENDS Naturals, Sequences, FiniteSets

CONSTANTS
  Symbols,
  NoSymbol,
  Extract,      \* the functions to extract
  Declarators,  \* declarators a translation unit is made of
  SymbolsMaps,  \* what SymbolsMap may hold: symbol -> type
  MacroSets,    \* sets of symbols that are only used through a macro
  MaxDecls      \* bound on the number of declarators

\* refs are the names a body or an initializer uses, param is a parameter.
ASSUME DeclaratorsOK ==
  Declarators \subseteq [sym : Symbols, joined : BOOLEAN, def : BOOLEAN,
                         refs : SUBSET Symbols, param : Symbols \cup {NoSymbol}]
ASSUME SymbolsOK == NoSymbol \notin Symbols /\ Extract \subseteq Symbols
\* The names to extract are those to rename, and are not externalized.
ASSUME MapsOK ==
  \A m \in SymbolsMaps :
    /\ DOMAIN m \subseteq Symbols
    /\ \A s \in DOMAIN m :
         m[s] \in IF s \in Extract THEN {"RENAME"} ELSE {"STRONG", "WEAK"}
ASSUME MacrosOK == \A M \in MacroSets : M \subseteq Symbols \ Extract
ASSUME BoundOK == MaxDecls \in Nat

VARIABLES
  unit, Functions, Statics,   \* the program; Statics are declared static
  InHeader,     \* the first declarators are those of a header
  Macros,       \* the symbols that are only used through a macro
  Arguments,    \* those of them that stand in its argument, not in its text
  ExtType,      \* SymbolsMap: symbol -> type, for those that it has
  Ibt, AllowLateExternalization,
  closure,      \* what ClosureVisitor has marked
  nodes,        \* what the visitor has ahead
  OldDecl,      \* SymbolUpdateStatus: declarator, and whether it is its parameter
  FirstUse,     \* SymbolUpdateStatus: declarator the use is in
  array,        \* what Late_Externalize has left to do
  requests,     \* handed to TextModifications
  inserts,      \* handed to Insert_Text
  Log,
  kept,         \* the requests that TextModifications kept
  phase         \* "visit", "late", "commit", "done"

input == <<unit, Functions, Statics, InHeader, Macros, Arguments, ExtType, Ibt,
           AllowLateExternalization, closure>>
vars == <<unit, Functions, Statics, InHeader, Macros, Arguments, ExtType, Ibt,
          AllowLateExternalization, closure, nodes, OldDecl, FirstUse, array,
          requests, inserts, Log, kept, phase>>

Index == 1..Len(unit)
Of(s) == {i \in Index : unit[i].sym = s}
IsFunction(i) == unit[i].sym \in Functions
Definition(s) == {i \in Of(s) : unit[i].def}

\* The declarators of one declaration, up to this one.
First(i) == CHOOSE k \in 1..i : /\ ~unit[k].joined
                                /\ \A j \in (k + 1)..i : unit[j].joined
SameBeginloc(i) == {j \in Index : First(j) = First(i)}

\* The declarations of s that a use in i can mean; clang takes the last one.
InScope(i, s) == {j \in Of(s) : j < i \/ (j = i /\ IsFunction(i))}
LastInScope(i, s) == CHOOSE j \in InScope(i, s) : \A k \in InScope(i, s) : k <= j

WellFormed ==
  /\ \A s \in Extract : s \in Functions /\ Definition(s) # {}
  /\ \A s \in Symbols : \A i, j \in Definition(s) : i = j
  /\ \A i \in Index :
       /\ unit[i].joined => i > 1 /\ ~IsFunction(i) /\ ~IsFunction(i - 1)
                            /\ unit[i].sym # unit[i - 1].sym
       /\ unit[i].param # NoSymbol => IsFunction(i)
       /\ unit[i].refs # {} => unit[i].def
       /\ \A s \in unit[i].refs \ {unit[i].param} : InScope(i, s) # {}

(***************************************************************************)
(* DeclClosureVisitor, for functions and variables (Closure.cpp).          *)
(***************************************************************************)
DependsOn(i) ==
  {LastInScope(i, s) : s \in unit[i].refs \ {unit[i].param}} \cup
  IF IsFunction(i)
  THEN LET s == unit[i].sym
           marked == {i} \cup IF s \in Statics THEN Definition(s) ELSE {}
       IN {j \in Of(s) : \E m \in marked : j <= m}
  ELSE SameBeginloc(i)

Closure[k \in 0..MaxDecls] ==
  IF k = 0 THEN {i \in Index : unit[i].sym \in Extract}
  ELSE Closure[k - 1] \cup UNION {DependsOn(i) : i \in Closure[k - 1]}

-----------------------------------------------------------------------------
(***************************************************************************)
(* What the visitor meets of names in SymbolsMap: a declarator, its        *)
(* parameter, and the uses in its body.                                    *)
(***************************************************************************)
Visit(i, kind, s) == [top |-> i, kind |-> kind, sym |-> s]
VisitsOf(i) ==
  {Visit(i, "decl", unit[i].sym)}
    \cup {Visit(i, "param", s) : s \in {unit[i].param} \ {NoSymbol}}
    \cup {Visit(i, "use", s) : s \in unit[i].refs}
Visits == {v \in UNION {VisitsOf(i) : i \in Index} : v.sym \in DOMAIN ExtType}

\* The order of the visitor; the uses in one body come in any order.
Rank == [decl |-> 1, param |-> 2, use |-> 3]
Before(v, w) ==
  v.top < w.top \/ (v.top = w.top /\ Rank[v.kind] < Rank[w.kind])

NoDecl == [top |-> 0, kind |-> "decl"]

Init ==
  /\ unit \in UNION {[1..n -> Declarators] : n \in 1..MaxDecls}
  /\ Functions \in SUBSET Symbols
  /\ WellFormed
  /\ InHeader \in 0..Len(unit)
  /\ InHeader + 1 \in Index => ~unit[InHeader + 1].joined
  /\ Macros \in MacroSets /\ \A i \in Index : unit[i].param \notin Macros
  /\ Arguments \in SUBSET Macros
  /\ ExtType \in SymbolsMaps
  /\ Statics \in {{}, Symbols}
  /\ \A s \in DOMAIN ExtType : ExtType[s] = "WEAK" => s \notin Statics
  /\ Ibt \in BOOLEAN /\ AllowLateExternalization \in BOOLEAN
  /\ Ibt => ~AllowLateExternalization      \* for IBT nobody looks at it
  /\ closure = Closure[Len(unit)]
  /\ nodes = Visits /\ phase = "visit"
  /\ OldDecl = [s \in Symbols |-> NoDecl] /\ FirstUse = [s \in Symbols |-> 0]
  /\ array = {} /\ requests = {} /\ inserts = {} /\ Log = {} /\ kept = {}

-----------------------------------------------------------------------------
(***************************************************************************)
(* A request replaces a part of a declarator: all of it with the           *)
(* specifiers and the declarators before it ("decl"), its name, its body   *)
(* or initializer, a use in there, a parameter or its name, the keyword    *)
(* static, or a token of a macro, in its definition (at 0) or its argument.  Its text is "removed" if it is empty,   *)
(* "semicolon" for a body that becomes ";", and "use" where UseName(sym)   *)
(* replaces a use.                                                         *)
(***************************************************************************)
Request(i, part, s, text, prio) ==
  [top |-> i, part |-> part, sym |-> s, text |-> text, prio |-> prio]

Covers(a, b) ==
  CASE a.part = "decl"  -> b.top \in First(a.top)..a.top
    [] a.part = "body"  -> b.top = a.top /\ b.part \in {"body", "use", "macro"}
    [] a.part = "param" -> b.top = a.top /\ b.part \in {"param", "paramName"}
    [] OTHER -> b.top = a.top /\ b.part = a.part /\ b.sym = a.sym
Meet(a, b) == a # b /\ (Covers(a, b) \/ Covers(b, a))

\* The keyword static of a declaration goes, or becomes extern; a declaration
\* without storage class gets extern.
Drop_Static(d) ==
  IF IsFunction(d) /\ unit[d].sym \in Statics
  THEN {Request(d, "static", NoSymbol, "removed", 10)} ELSE {}
Drop_Static_Add_Extern(d) ==
  IF unit[d].sym \in Statics
  THEN {Request(First(d), "static", NoSymbol, "extern", 10)} ELSE {}
Add_Extern(d) ==
  IF unit[d].sym \in Functions \cup Statics THEN {}
  ELSE {[at |-> First(d), what |-> <<"extern", unit[d].sym>>]}
\* Drop_Function_Body, Drop_Var_Initializer
Drop_Body(d) ==
  IF unit[d].def THEN {Request(d, "body", unit[d].sym, "semicolon", 1000)} ELSE {}

Found(s) == OldDecl[s] # NoDecl
Needs_Sym_Rename(s) ==
  \/ ExtType[s] = "RENAME"
  \/ ExtType[s] = "STRONG" /\ (~Found(s) \/ ~Ibt)
UseName(s) ==
  CASE ExtType[s] = "RENAME" -> <<"klpp_", s>>
    [] ExtType[s] = "STRONG" /\ Found(s) -> <<"klpe_", s>>
    [] OTHER -> <<"none", NoSymbol>>

Visiting(v, kinds) ==
  /\ phase = "visit" /\ \A w \in nodes : ~Before(w, v)
  /\ v.kind \in kinds
  /\ nodes' = nodes \ {v}
VisitsDeclarator(v, type) == Visiting(v, {"decl", "param"}) /\ ExtType[v.sym] = type
DeclOf(v) == [top |-> v.top, kind |-> v.kind]
FirstDecl(v) ==      \* OldDecl is set once
  IF Found(v.sym) THEN OldDecl ELSE [OldDecl EXCEPT ![v.sym] = DeclOf(v)]

VisitStrong_Logs(v) ==        \* mutant: the log is written too early
  /\ VisitsDeclarator(v, "STRONG")
  /\ OldDecl' = FirstDecl(v)
  /\ Log' = Log \cup {[sym |-> v.sym, type |-> "STRONG"]}
  /\ UNCHANGED <<input, FirstUse, array, requests, inserts, kept, phase>>

\* VisitDeclaratorDecl.  Names are all it compares: a parameter will do.
VisitStrong(v) ==
  /\ VisitsDeclarator(v, "STRONG")
  /\ OldDecl' = FirstDecl(v)
  /\ UNCHANGED <<input, FirstUse, array, requests, inserts, Log, kept, phase>>

\* A definition goes if there is a declaration without a body.
VisitWeak(v) ==
  /\ VisitsDeclarator(v, "WEAK")
  /\ OldDecl' = [OldDecl EXCEPT ![v.sym] = DeclOf(v)]
  /\ requests' = requests \cup
       IF v.kind = "decl" /\ IsFunction(v.top)
       THEN {Request(d, "decl", v.sym, "removed", 1000) : d \in Definition(v.sym) \ {v.top}}
       ELSE {}
  /\ UNCHANGED <<input, FirstUse, array, inserts, Log, kept, phase>>

VisitRename(v) ==
  /\ VisitsDeclarator(v, "RENAME")
  /\ LET name == IF v.kind = "decl" THEN "name" ELSE "paramName"
     IN requests' = requests
          \cup {Request(v.top, name, v.sym, "klpp_", 100)}
          \cup IF v.kind = "decl" THEN Drop_Static(v.top) ELSE {}
  /\ OldDecl' = FirstDecl(v)
  /\ Log' = Log \cup {[sym |-> v.sym, type |-> "RENAME"]}
  /\ UNCHANGED <<input, FirstUse, array, inserts, kept, phase>>

UseRequests(v) ==
  IF v.sym \notin Macros /\ Needs_Sym_Rename(v.sym)
  THEN {Request(v.top, "use", v.sym, "use", 100)} ELSE {}

VisitDeclRefExpr_Last(v) ==   \* mutant: the last use is kept for the first
  /\ Visiting(v, {"use"})
  /\ FirstUse' = IF v.top \in closure
                 THEN [FirstUse EXCEPT ![v.sym] = v.top] ELSE FirstUse
  /\ requests' = requests \cup UseRequests(v)
  /\ UNCHANGED <<input, OldDecl, array, inserts, Log, kept, phase>>

VisitDeclRefExpr(v) ==
  /\ Visiting(v, {"use"})
  /\ FirstUse' = IF FirstUse[v.sym] = 0 /\ v.top \in closure
                 THEN [FirstUse EXCEPT ![v.sym] = v.top] ELSE FirstUse
  /\ requests' = requests \cup UseRequests(v)
  /\ UNCHANGED <<input, OldDecl, array, inserts, Log, kept, phase>>

-----------------------------------------------------------------------------
(***************************************************************************)
(* Late_Externalize, for the symbols in use, in the order of a hash map.   *)
(***************************************************************************)
Is_Used(s) == ExtType[s] = "STRONG" /\ Found(s) /\ FirstUse[s] # 0
Compute_Array ==
  /\ phase = "visit" /\ nodes = {}
  /\ array' = {s \in DOMAIN ExtType : Is_Used(s)}
  /\ phase' = "late"
  /\ UNCHANGED <<input, nodes, OldDecl, FirstUse, requests, inserts, Log, kept>>

Externalize(s) ==
  /\ phase = "late"
  /\ array' = array \ {s}
  /\ Log' = Log \cup {[sym |-> s, type |-> "STRONG"]}
  /\ UNCHANGED <<input, nodes, OldDecl, FirstUse, kept, phase>>

\* IBT: every declaration becomes extern, and loses its body or initializer.
Redeclarations(s) == IF OldDecl[s].kind = "decl" THEN Of(s) ELSE {}
Handle_IBT_Ext(s) ==
  /\ Ibt /\ Externalize(s)
  /\ requests' = requests \cup
       UNION {Drop_Body(d) \cup Drop_Static_Add_Extern(d) : d \in Redeclarations(s)}
  /\ inserts' = inserts \cup UNION {Add_Extern(d) : d \in Redeclarations(s)}

\* The new declaration goes in front of the first use, and the old one out of
\* the main file.
Get_With_Body_Or_Itself_OfUse(s) == FirstUse[s]
Get_With_Body_Or_Itself(s) ==
  IF OldDecl[s].kind = "decl" /\ Definition(s) # {}
  THEN CHOOSE d \in Definition(s) : TRUE ELSE OldDecl[s].top
Late_Insert(s) ==
  /\ ~Ibt /\ AllowLateExternalization /\ Externalize(s)
  /\ inserts' = inserts
       \cup {[at |-> First(FirstUse[s]), what |-> <<"klpe_", s>>]}
  /\ LET d == Get_With_Body_Or_Itself(s)
     IN requests' = IF d > InHeader
                    THEN requests \cup {Request(d, OldDecl[s].kind, s, "removed", 1000)}
                    ELSE requests

Replace_Decl_AsAName(s) ==
  /\ ~Ibt /\ ~AllowLateExternalization /\ Externalize(s)
  /\ requests' = requests
       \cup {Request(OldDecl[s].top, OldDecl[s].kind, s, "klpe_", 100)}
  /\ UNCHANGED inserts

\* "Fallback to the old method of rewriting the declaration."
Replace_Decl(s) ==
  /\ ~Ibt /\ ~AllowLateExternalization /\ Externalize(s)
  /\ requests' = requests
       \cup {Request(OldDecl[s].top, OldDecl[s].kind, s, "klpe_", 1000)}
  /\ UNCHANGED inserts

\* The places where a macro has the symbol: the definition of a macro that uses it, or
\* the expansions in the declarators that use it.
MacroPlaces(s) == IF s \in Arguments THEN {i \in Index : s \in unit[i].refs} ELSE {0}

\* Every symbol of the array is done.
Rewrite_Macros ==
  /\ phase = "late" /\ array = {}
  /\ requests' = requests \cup
       UNION {{Request(p, "macro", s, "use", 10) : p \in MacroPlaces(s)} :
                s \in {x \in Macros \cap DOMAIN ExtType : Needs_Sym_Rename(x)}}
  /\ phase' = "commit"
  /\ UNCHANGED <<input, nodes, OldDecl, FirstUse, array, inserts, Log, kept>>

(***************************************************************************)
(* Commit: all that is used of TextModifications is KeptAreDisjoint and    *)
(* DroppedForAWinner, which are proved of it.                              *)
(***************************************************************************)
Contested == {a \in requests : \E b \in requests : Meet(a, b)}
Promised(these) ==
  /\ \A a, b \in these : ~Meet(a, b)
  /\ \A a \in requests \ these : \E b \in these : Meet(a, b) /\ a.prio <= b.prio
Commit ==
  /\ phase = "commit"
  /\ \E S \in SUBSET Contested : /\ Promised((requests \ Contested) \cup S)
                                 /\ kept' = (requests \ Contested) \cup S
  /\ phase' = "done"
  /\ UNCHANGED <<input, nodes, OldDecl, FirstUse, array, requests, inserts, Log>>

Next ==
  \/ \E v \in nodes : \/ VisitStrong(v) \/ VisitWeak(v) \/ VisitRename(v)
                      \/ VisitDeclRefExpr(v)
  \/ \E s \in array : Handle_IBT_Ext(s) \/ Late_Insert(s) \/ Replace_Decl(s)
  \/ Compute_Array \/ Rewrite_Macros \/ Commit

Spec == Init /\ [][Next]_vars

-----------------------------------------------------------------------------
(***************************************************************************)
(* The text that comes out.                                                *)
(***************************************************************************)
Done == phase = "done"
Present(i) == \A e \in kept : e.part = "decl" => i \notin First(e.top)..e.top
HasEdit(i, part, s) == \E e \in kept : e.top = i /\ e.part = part /\ e.sym = s
HasBody(i) == Present(i) /\ unit[i].def /\ ~HasEdit(i, "body", unit[i].sym)

\* The names that declarator i declares, and those inserted in front of it.
Declares(i) ==
  LET s == unit[i].sym
      rewrites == {e \in kept : e.part = "decl" /\ e.top = i /\ e.text # "removed"}
      name == IF HasEdit(i, "name", s) THEN "klpp_" ELSE "plain"
  IN {<<e.text, s>> : e \in rewrites} \cup IF Present(i) THEN {<<name, s>>} ELSE {}
Inserted(i) == {ins.what : ins \in {x \in inserts : x.at <= i}}
Preceding(i) ==
  UNION {Declares(j) : j \in {x \in Index : x < i \/ (x = i /\ IsFunction(i))}}
Visible(i) == Preceding(i) \cup Inserted(i)

Uses(i) == IF HasBody(i) THEN unit[i].refs \ {unit[i].param} ELSE {}
MacroPlace(i, s) == IF s \in Arguments THEN i ELSE 0
NameUsed(i, s) ==
  IF HasEdit(i, "use", s) \/ (s \in Macros /\ HasEdit(MacroPlace(i, s), "macro", s))
  THEN UseName(s) ELSE <<"plain", s>>

(***************************************************************************)
(* The programs the properties are about: every declaration has one        *)
(* declarator, no parameter has the name of a symbol in SymbolsMap, and    *)
(* the definition of a symbol that is visible elsewhere has a declaration  *)
(* before it, unless it is the only one.  Without Separate, int h, g;      *)
(* loses h; without Unshadowed, a parameter is externalized; without       *)
(* PrototypesFirst a removed definition leaves uses without a declaration. *)
(***************************************************************************)
Separate == \A i \in Index : ~unit[i].joined
Unshadowed == \A i \in Index : unit[i].param \notin DOMAIN ExtType
PrototypesFirst ==
  \A s \in DOMAIN ExtType : ExtType[s] = "WEAK" =>
    \A d \in Definition(s) : Of(s) = {d} \/ \E i \in Of(s) : i < d
Ordinary == Separate /\ Unshadowed /\ PrototypesFirst

\* In what the closure keeps, each name that a body or an initializer uses is
\* declared before it, under the name it is then used by: renamed, late, in
\* place, extern or visible elsewhere, written plainly or in a macro.
UsesAreDeclared ==
  Done /\ Ordinary =>
    \A i \in closure \cap Index : \A s \in Uses(i) : NameUsed(i, s) \in Visible(i)

\* Two requests of one priority never meet: what TextModifications then does
\* would depend on the order in which an unstable sort leaves them
\* (NoConflicts, the hypothesis of its SortOrderIrrelevant).
RequestsDoNotConflict ==
  Done /\ Ordinary => \A a, b \in requests : Meet(a, b) => a.prio # b.prio

\* The log, from which the .dsc file and the tail are generated, agrees with the
\* text: an externalized symbol is declared under its new name exactly once (for
\* IBT: has no body left), and one that is not in the log never is.
StrongLog == {e.sym : e \in {x \in Log : x.type = "STRONG"}}
InPlace(s) == {i \in Index : <<"klpe_", s>> \in Declares(i)}
Late(s) == {ins \in inserts : ins.what = <<"klpe_", s>>}
LogIsTrue ==
  Done /\ Ordinary =>
    \A s \in Symbols :
      CASE s \notin StrongLog -> Late(s) = {} /\ InPlace(s) = {}
        [] s \in StrongLog /\ ~Ibt ->
             Cardinality(InPlace(s)) + Cardinality(Late(s)) = 1
        [] s \in StrongLog /\ Ibt -> \A i \in Of(s) : ~HasBody(i)

\* A symbol that nobody asked to change keeps all its declarations.
BystandersStay ==
  Done /\ Ordinary =>
    \A i \in Index : unit[i].sym \notin DOMAIN ExtType =>
      Declares(i) = {<<"plain", unit[i].sym>>}
=============================================================================
