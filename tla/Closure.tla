------------------------------ MODULE Closure ------------------------------
(***************************************************************************)
(* DeclClosureVisitor: which declarations of a translation unit does the   *)
(* output need?  A depth-first walk over the AST: TraverseDecl enters a    *)
(* declaration that no earlier call entered, the Visit* methods mark what  *)
(* is to be printed and call TraverseDecl on what it refers to.            *)
(*                                                                         *)
(* A unit is the sequence of its declarations in the order in which clang  *)
(* reports them.  `struct T {..} v;` is two declarations, T and v; the     *)
(* range of v is that of T and more.  Templates, namespaces and the other  *)
(* declarations that only C++ has are left out.                            *)
(***************************************************************************)
EXTENDS Integers, Sequences, FiniteSets

CONSTANT Units,      \* the translation units considered
         Names       \* the names of the symbols to extract

Kinds == {"func", "var", "typedef", "tag"}

\* What the visitor can ask of a declaration:
\*   name   ""  for an anonymous tag;        def     it has a body
\*   enum   the tag is an enum, no record;    required  clang's own idea of
\*          isCompleteDefinitionRequired: something in the unit, in what is printed
\*          or elsewhere, made clang ask for the body of the tag
\*   static     has internal linkage;        builtin a compiler's own function
\*   begin, end its range, in positions;     parent  the record it is nested in, or 0
\*   uses   the declarations its type, body or initializer refers to, among
\*          them the typedef that clang's type lost but its first token names
\*   needs  the tags whose body must come before it: it has an object of the type,
\*          or its size, or uses a member
\*   completes  the tags that VisitFunctionDecl (its return type) and
\*          VisitUnaryOperator (the types of its expressions) mean
\*   tag, via  the tag its type is made of, or 0: the type is the tag itself, a
\*          pointer to it or an array of it
\*   spec   the storage class it is written with
\*   how    its range has a text, has none (it begins or ends inside a macro), or
\*          has one whose #if and #endif do not match
\*   file   the main file, a header that is expanded, or one that is included
DeclsOf(u) == 1 .. Len(u)

DeclType(n) ==
    [kind : Kinds, name : STRING, def : BOOLEAN, enum : BOOLEAN, static : BOOLEAN,
     builtin : BOOLEAN, begin : Nat, end : Nat, parent : 0 .. n, uses : SUBSET (1 .. n),
     needs : SUBSET (1 .. n), required : BOOLEAN, completes : SUBSET (1 .. n),
     tag : 0 .. n, via : {"direct", "pointer", "array"}, spec : STRING,
     how : {"text", "notext", "unbalanced"}, file : {"main", "expanded", "included"}]

ASSUME UnitsAssumption ==
    \A u \in Units : /\ u = [d \in 1 .. Len(u) |-> u[d]]
                     /\ Len(u) \in Nat
                     /\ \A d \in DeclsOf(u) : u[d] \in DeclType(Len(u))

\* Whether two declarations of a unit declare the same.
OneEntity(u, a, b) == /\ u[a].name = u[b].name
                      /\ u[a].name # ""
                      /\ (u[a].kind = "tag") <=> (u[b].kind = "tag")

VARIABLES unit,       \* the unit under analysis
          sweep,      \* how many top-level declarations were compared with Names
          stack,      \* the active calls of TraverseDecl, innermost last
          AnalyzedDecls,
          Closure,    \* ClosureSet::Dependencies: the marked declarations
          Required    \* the tags with isCompleteDefinitionRequired

visitorVars == <<unit, sweep, stack, AnalyzedDecls, Closure, Required>>

Decls == DeclsOf(unit)
TopLevel == {d \in Decls : unit[d].parent = 0}

-----------------------------------------------------------------------------
(* What clang answers.                                                     *)

SameEntity(a, b) == OneEntity(unit, a, b)

\* getPreviousDecl, as often as it answers.
Prevs(d) == {e \in Decls : e < d /\ SameEntity(e, d)}

Definitions(d) == {e \in Decls : SameEntity(e, d) /\ unit[e].def}

\* A type does not know which declaration of its tag was meant: getDecl is the
\* definition, wherever it is, or the first declaration.
Meant(d) == IF unit[d].kind # "tag" \/ unit[d].name = "" THEN {d}
            ELSE IF Definitions(d) # {} THEN Definitions(d)
            ELSE {e \in Prevs(d) \cup {d} : Prevs(e) = {}}

\* getTypedefNameForAnonDecl: the first typedef declared with the tag that stands
\* for the tag itself.
NamesTag(t, d) == /\ unit[t].kind = "typedef"
                  /\ d \in unit[t].uses
                  /\ unit[t].tag = d
                  /\ unit[t].via = "direct"

TypedefForAnon(d) ==
    IF unit[d].kind # "tag" \/ unit[d].name # "" THEN {}
    ELSE {t \in Decls : NamesTag(t, d) /\ \A s \in Decls : NamesTag(s, d) => t <= s}

-----------------------------------------------------------------------------
(* Get_Toplev_Decls_With_Same_Beginloc: a binary search for one            *)
(* declaration that begins there, then its neighbours on either side.      *)

TopLevelOf(u) == SelectSeq([i \in 1 .. Len(u) |-> i], LAMBDA d : u[d].parent = 0)

\* The position in the sequence tops at which the search ends, or 0.
Found(u, tops, loc) ==
    LET search[low \in 1 .. Len(tops) + 1, high \in 0 .. Len(tops)] ==
            IF low > high THEN 0
            ELSE LET mid == low + (high - low) \div 2
                 IN IF u[tops[mid]].begin = loc THEN mid
                    ELSE IF u[tops[mid]].begin < loc THEN search[mid + 1, high]
                    ELSE search[low, mid - 1]
    IN search[1, Len(tops)]

Get_Toplev_Decls_With_Same_Beginloc(u, loc) ==
    LET tops == TopLevelOf(u)
        mid == Found(u, tops, loc)
        Between(i) == IF i <= mid THEN i .. mid ELSE mid .. i
    IN {d \in DeclsOf(u) : \E i \in 1 .. Len(tops) :
            mid # 0 /\ d = tops[i] /\ \A k \in Between(i) : u[tops[k]].begin = loc}

SameBeginloc(d) == Get_Toplev_Decls_With_Same_Beginloc(unit, unit[d].begin)

-----------------------------------------------------------------------------
(* The visitor.                                                            *)

\* VisitFunctionDecl: of a static function its definition is what is marked.
ToMark(d) == IF unit[d].static /\ Definitions(d) # {} THEN Definitions(d) ELSE {d}

WithPrevs(S) == S \cup UNION {Prevs(d) : d \in S}

\* What visiting d marks.
Marks(d) ==
    CASE unit[d].kind = "func" -> IF unit[d].builtin THEN {} ELSE WithPrevs(ToMark(d))
      [] unit[d].kind = "tag" /\ TypedefForAnon(d) # {} -> TypedefForAnon(d)
      [] unit[d].kind = "tag" /\ TypedefForAnon(d) = {} -> WithPrevs({d})
      [] OTHER -> {d}

\* The nested declarations of a record, which a traversal of its members meets.
Members(d) == {e \in Decls : unit[e].parent = d}

\* ParentRecordDeclHelper, called from `from`: the record that d is nested in, unless
\* it is just being traversed.
ParentToo(d, from) == IF unit[d].parent \in {0, from} THEN {} ELSE {unit[d].parent}

\* VisitRecordDecl and VisitEnumDecl.
TagCalls(d, from) ==
    IF TypedefForAnon(d) # {}
    THEN UNION {SameBeginloc(t) : t \in TypedefForAnon(d)}
    ELSE Prevs(d) \cup ParentToo(d, from)

FuncCalls(d) == IF unit[d].builtin THEN {} ELSE WithPrevs(ToMark(d)) \ {d}

\* The calls of TraverseDecl made while d, entered from `from`, is traversed.
Calls(d, from) ==
    (UNION {Meant(e) : e \in unit[d].uses}) \cup Members(d) \cup
    CASE unit[d].kind = "func" -> FuncCalls(d) \cup SameBeginloc(d)
      [] unit[d].kind = "tag" -> TagCalls(d, from)
      [] OTHER -> SameBeginloc(d)

\* The tags whose body is said to be required when d is visited.
Completes(d) == IF unit[d].builtin THEN {} ELSE UNION {Meant(x) : x \in unit[d].completes}

Requires_NotParent(d, from) == Completes(d)    \* mutant
Requires(d, from) ==
    Completes(d) \cup
    IF unit[d].kind = "tag" /\ TypedefForAnon(d) = {} THEN ParentToo(d, from) ELSE {}

-----------------------------------------------------------------------------
VisitorInit ==
    /\ unit \in Units
    /\ sweep = 0
    /\ stack = <<>>
    /\ AnalyzedDecls = {}
    /\ Closure = {}
    /\ Required = {d \in Decls : unit[d].required}

Caller == IF stack = <<>> THEN 0 ELSE stack[Len(stack)].decl

\* TraverseDecl(d) on top of the calls s: nothing if d was analyzed before.
Enter(d, s) ==
    IF d \in AnalyzedDecls
    THEN stack' = s /\ UNCHANGED <<AnalyzedDecls, Closure, Required>>
    ELSE /\ stack' = Append(s, [decl |-> d, todo |-> Calls(d, Caller)])
         /\ AnalyzedDecls' = AnalyzedDecls \cup {d}
         /\ Closure' = Closure \cup Marks(d)
         /\ Required' = Required \cup Requires(d, Caller)

\* Compute_Closure_Of_Symbols: the next top-level declaration.
Compute_Closure_Of_Symbols ==
    /\ stack = <<>>
    /\ sweep < Len(unit)
    /\ sweep' = sweep + 1
    /\ IF unit[sweep'].parent = 0 /\ unit[sweep'].name \in Names
       THEN Enter(sweep', stack)
       ELSE UNCHANGED <<stack, AnalyzedDecls, Closure, Required>>
    /\ UNCHANGED unit

\* One of the calls that the innermost traversal still has to make.
TraverseDecl ==
    /\ stack # <<>>
    /\ \E d \in stack[Len(stack)].todo :
           Enter(d, [stack EXCEPT ![Len(stack)].todo = @ \ {d}])
    /\ UNCHANGED <<unit, sweep>>

\* The innermost traversal returns.
Return ==
    /\ stack # <<>>
    /\ stack[Len(stack)].todo = {}
    /\ stack' = SubSeq(stack, 1, Len(stack) - 1)
    /\ UNCHANGED <<unit, sweep, AnalyzedDecls, Closure, Required>>

VisitorNext == Compute_Closure_Of_Symbols \/ TraverseDecl \/ Return

VisitorSpec == VisitorInit /\ [][VisitorNext]_visitorVars

Visited == stack = <<>> /\ sweep = Len(unit)
=============================================================================
