------------------------- MODULE FunctionDepsFinder -------------------------
(***************************************************************************)
(* FunctionDependencyFinder::Run_Analysis and what RecursivePrint makes of *)
(* its result: the closure of the requested symbols, with the declarations *)
(* that included headers make necessary, then without those that another   *)
(* declaration's text repeats, then without those that a header provides.  *)
(***************************************************************************)
EXTENDS Closure, FiniteSetsExt

CONSTANT KeepIncludes

Within(u, a, b) == u[a].begin <= u[b].begin /\ u[b].end <= u[a].end

\* clang reports a declaration when it is complete: what comes later in a unit lies
\* behind what came before, or around it.
ASSUME OrderAssumption ==
    \A u \in Units : \A e, d \in DeclsOf(u) :
        /\ u[d].begin <= u[d].end
        /\ e < d /\ u[e].parent = 0 /\ u[d].parent = 0 =>
              u[e].end < u[d].begin \/ Within(u, d, e)

\* What is nested in a record follows it, is a tag, and lies in it.
ASSUME NestingAssumption ==
    \A u \in Units : \A d \in DeclsOf(u) :
        LET p == u[d].parent
        IN p # 0 => /\ p < d /\ \A s \in p + 1 .. d : u[s].parent # 0
                    /\ u[d].kind = "tag" /\ u[p].kind = "tag" /\ u[p].def
                    /\ Within(u, p, d) /\ u[p].file = u[d].file

\* The declarations of an entity agree, and a tag or a static function is defined
\* once.
ASSUME EntityAssumption ==
    \A u \in Units : \A d \in DeclsOf(u) :
        /\ u[d].def => u[d].kind \in {"func", "tag"}
        /\ u[d].static => u[d].kind \in {"func", "var"}
        /\ \A e \in DeclsOf(u) : OneEntity(u, e, d) =>
              /\ u[e].kind = u[d].kind /\ u[e].static = u[d].static
              /\ u[e].def /\ u[d].def /\ (u[d].kind = "tag" \/ u[d].static) => e = d

\* What is used was declared before, but for what a record declares in itself; a
\* tag without a body uses nothing, and a typedef that names an anonymous tag was
\* declared with it and uses it alone.
ASSUME UsesAssumption ==
    \A u \in Units : \A d \in DeclsOf(u) :
        /\ u[d].tag # 0 => u[u[d].tag].kind = "tag"
        /\ u[d].kind = "tag" /\ ~u[d].def => u[d].uses = {}
        /\ \A x \in u[d].uses : x > d =>
              /\ u[x].kind = "tag" /\ Within(u, d, x)
              /\ \A e \in DeclsOf(u) : OneEntity(u, e, x) /\ e < x => e <= d \/ Within(u, d, e)
        /\ \A t \in DeclsOf(u) :
              /\ u[d].kind = "tag" /\ u[d].name = ""
              /\ u[t].kind = "typedef" /\ d \in u[t].uses /\ u[t].tag = d /\ u[t].via = "direct"
              => u[d].parent = 0 /\ u[t].uses = {d} /\ Within(u, t, d) /\ u[t].file = u[d].file

\* What else the text of a declaration declares: the declarators before it, and the
\* tag in front of them, which it uses if the tag has its body there.  The text of a
\* tag has only what is nested in it.
ASSUME TextAssumption ==
    \A u \in Units : \A d, e \in DeclsOf(u) :
        u[d].parent = 0 /\ u[e].parent = 0 /\ d # e /\ u[d].how = "text" =>
            /\ Within(u, d, e) =>
                  /\ u[e].file = u[d].file
                  /\ u[d].kind # "tag"
                  /\ u[e].kind = "tag" /\ u[e].def => e \in u[d].uses
                  /\ u[e].kind # "tag" => u[e].begin = u[d].begin
            /\ u[e].kind = "tag" => ~Within(u, e, d)

\* All that d leads to by uses, and from a declaration of a tag to its definition.
Leads(u, d, x) ==
    \A S \in SUBSET DeclsOf(u) :
        /\ u[d].uses \subseteq S
        /\ \A e \in S : u[e].uses \subseteq S
        /\ \A e \in S, y \in DeclsOf(u) :
              OneEntity(u, e, y) /\ u[y].kind = "tag" /\ u[y].def => y \in S
        => x \in S

\* Where a body is needed clang asks for it, or it is one of the types that the
\* visitor knows clang to overlook.
ASSUME CompleteAssumption ==
    \A u \in Units : \A d \in DeclsOf(u) :
        \A x \in u[d].needs :
            /\ u[x].kind = "tag" /\ u[x].def /\ Leads(u, d, x)
            /\ \/ u[x].enum
               \/ u[x].required
               \/ x \in u[d].completes /\ u[d].kind \in {"func", "var"} /\ ~u[d].builtin

\* A record without a name that no typedef names is used by the variables and types
\* that it stands in front of alone.
ASSUME AnonymousAssumption ==
    \A u \in Units : \A d \in DeclsOf(u) : \A x \in u[d].uses :
        u[x].kind = "tag" /\ u[x].name = "" /\ ~u[x].enum /\ u[x].parent = 0 =>
            \/ u[d].kind \in {"var", "typedef"} /\ Within(u, d, x)
            \/ \E t \in DeclsOf(u) : /\ u[t].kind = "typedef" /\ x \in u[t].uses
                                     /\ u[t].tag = x /\ u[t].via = "direct"

ASSUME NamesAssumption == "" \notin Names

VARIABLES phase,     \* the step of Run_Analysis
          kept,      \* top-level declarations compared with the includes
          todo,      \* Remove_Redundant_Decls: marked declarations not visited yet
          at, prev,  \* its second loop: position, last marked declaration or 0
          computed   \* what was marked before anything was removed

vars == <<visitorVars, phase, kept, todo, at, prev, computed>>

-----------------------------------------------------------------------------
(* PrettyPrint's view of a declaration.                                    *)

Contains_From_LineCol(a, b) == Within(unit, a, b)

HasText(d) == unit[d].how # "notext"

\* Print_Decl_Raw copies the source if it can, and dumps the AST otherwise.
PrintedFromSource(d) == unit[d].how = "text"

\* Is_Decl_Equivalent_To: the dumps agree.  A dump has the type's name, not the
\* body of the tag that is declared with it.
Is_Decl_Equivalent_To(a, b) ==
    /\ unit[a].kind = unit[b].kind
    /\ unit[a].def = unit[b].def
    /\ unit[a].static = unit[b].static
    /\ unit[a].spec = unit[b].spec

-----------------------------------------------------------------------------
Init ==
    /\ VisitorInit
    /\ phase = "closure"
    /\ kept = 0
    /\ todo = {}
    /\ at = 0
    /\ prev = 0
    /\ computed = {}

\* Find_Functions_Required.
Find_Functions_Required ==
    /\ phase = "closure"
    /\ VisitorNext
    /\ UNCHANGED <<phase, kept, todo, at, prev, computed>>

ClosureIsComputed ==
    /\ phase = "closure"
    /\ Visited
    /\ phase' = "includes"
    /\ UNCHANGED <<visitorVars, kept, todo, at, prev, computed>>

\* A declaration in a header that stays an #include.
InKeptHeader(d) == d \in TopLevel /\ unit[d].file = "included"

\* Insert_Decls_From_Non_Expanded_Includes: the next top-level declaration.
Insert_Decls_From_Non_Expanded_Includes ==
    /\ phase = "includes"
    /\ KeepIncludes
    /\ \/ /\ stack = <<>>
          /\ kept < Len(unit)
          /\ kept' = kept + 1
          /\ IF InKeptHeader(kept')
             THEN Enter(kept', stack)
             ELSE UNCHANGED <<stack, AnalyzedDecls, Closure, Required>>
          /\ UNCHANGED <<unit, sweep>>
       \/ (TraverseDecl \/ Return) /\ UNCHANGED kept
    /\ UNCHANGED <<phase, todo, at, prev, computed>>

IncludesAreInserted ==
    /\ phase = "includes"
    /\ KeepIncludes => stack = <<>> /\ kept = Len(unit)
    /\ phase' = "redundant"
    /\ todo' = {d \in Closure : unit[d].tag # 0 \/ Prevs(d) # {}}   \* the others it leaves as they are
    /\ computed' = Closure
    /\ UNCHANGED <<visitorVars, kept, at, prev>>

\* The tag that the text of d is taken to repeat.  known: clang made a type for
\* the typedef.
RepeatedTag(d, known) ==
    LET tags == IF unit[d].tag = 0 THEN {} ELSE Meant(unit[d].tag)
        InText == {t \in tags \cap Closure : Contains_From_LineCol(d, t)}
    IN CASE unit[d].kind = "typedef" ->
              {t \in InText : known /\ unit[d].via # "array" /\ HasText(d) /\ HasText(t)}
         [] unit[d].kind \in {"var", "func"} -> {t \in InText : unit[d].via # "pointer"}
         [] OTHER -> {}

\* Whether an earlier declaration says the same as d.
Repeated(d, S) ==
    /\ unit[d].file = "main"
    /\ \E e \in Prevs(d) \cap S : Is_Decl_Equivalent_To(d, e)

\* The elements after d: those that are gone are not visited.
Following_Same(d, S) == todo \cap S
Following(d, S) == (todo \ {d}) \cap S

\* Remove_Redundant_Decls, first loop: a hash set is visited in any order.
RemoveRepeated ==
    /\ phase = "redundant"
    /\ \E d \in todo, known \in BOOLEAN :
          LET S == Closure \ RepeatedTag(d, known)
          IN /\ Closure' = IF Repeated(d, S) THEN S \ {d} ELSE S
             /\ todo' = Following(d, Closure')
    /\ UNCHANGED <<unit, sweep, stack, AnalyzedDecls, Required, phase, kept, at, prev, computed>>

FirstLoopEnds ==
    /\ phase = "redundant"
    /\ todo = {}
    /\ phase' = "ranges"
    /\ UNCHANGED <<visitorVars, kept, todo, at, prev, computed>>

\* The second loop: the text of the next declaration has the last marked one's.
InTextOf(d) == /\ prev # 0
               /\ HasText(d) /\ HasText(prev)
               /\ Contains_From_LineCol(d, prev)

NextPrev_Kept(d) == IF InTextOf(d) THEN prev ELSE d
NextPrev(d) == d

RemoveContained ==
    /\ phase = "ranges"
    /\ at < Len(unit)
    /\ at' = at + 1
    /\ IF at' \in TopLevel \cap Closure
       THEN /\ prev' = NextPrev(at')
            /\ Closure' = IF InTextOf(at') THEN Closure \ {prev} ELSE Closure
       ELSE UNCHANGED <<prev, Closure>>
    /\ UNCHANGED <<unit, sweep, stack, AnalyzedDecls, Required, phase, kept, todo, computed>>

\* RecursivePrint::Analyze_Includes: a header that is included provides its own.
Analyze_Includes ==
    /\ phase = "ranges"
    /\ at = Len(unit)
    /\ phase' = "print"
    /\ Closure' = IF KeepIncludes THEN {d \in Closure : unit[d].file # "included"} ELSE Closure
    /\ UNCHANGED <<unit, sweep, stack, AnalyzedDecls, Required, kept, todo, at, prev, computed>>

Next ==
    \/ Find_Functions_Required
    \/ ClosureIsComputed
    \/ Insert_Decls_From_Non_Expanded_Includes
    \/ IncludesAreInserted
    \/ RemoveRepeated
    \/ FirstLoopEnds
    \/ RemoveContained
    \/ Analyze_Includes

Spec == Init /\ [][Next]_vars /\ WF_vars(Next)

-----------------------------------------------------------------------------
(* The output.                                                             *)

Included == IF KeepIncludes THEN {d \in Decls : unit[d].file = "included"} ELSE {}

Printed == IF phase = "print" THEN Closure \cap TopLevel ELSE {}

\* The top-level declaration that d is, or is nested in.
Record(d) == Max({r \in TopLevel : r <= d})

\* What stands where d is printed: all that the source has there, or, for a dump, the
\* declaration, what is nested in it and the anonymous tag of a typedef.
Spans(d) ==
    IF PrintedFromSource(d) THEN {e \in Decls : Contains_From_LineCol(d, e)}
    ELSE {e \in Decls : Record(e) = d \/ TypedefForAnon(Record(e)) = {d}}

\* Print_Decl: a record without a name is not printed by itself, and one whose body is
\* not required loses it ("Full definition was removed"), with all that is nested in it.
IsStruct(d) == unit[d].kind = "tag" /\ ~unit[d].enum
NotPrinted(d) == IsStruct(d) /\ unit[d].name = ""
BodyIsRemoved(d) == IsStruct(d) /\ d \notin Required

\* What the text printed for d defines, and what it declares.
Defines(d) == IF NotPrinted(d) \/ BodyIsRemoved(d) THEN {} ELSE Spans(d)
Declares(d) == IF NotPrinted(d) THEN {} ELSE {d} \cup Defines(d)

Available == Included \cup UNION {Declares(d) : d \in Printed}
WithBody == Included \cup UNION {Defines(d) : d \in Printed}

Says(e, x) == e = x \/ (SameEntity(e, x) /\ Is_Decl_Equivalent_To(e, x))

\* Some sources lose a declaration on the way: one that is written inside another
\* that is not printed as it stands (see TypesAreNotLost), or that is removed
\* because it repeats an earlier one.
Ordinary ==
    \A d \in TopLevel : \A t \in Decls \ {d} :
        Record(t) # d /\ Contains_From_LineCol(d, t) =>
            /\ unit[d].how # "unbalanced"
            /\ unit[t].kind = "tag" => /\ unit[d].how = "text"
                                      /\ ~ \E e \in Prevs(d) : Is_Decl_Equivalent_To(d, e)

\* The binary search wants the array in the order of the begins, but clang reports
\* `static struct T {..} v, w;` as T, v, w, and T begins last.  If it misses, then
\* w does not bring what v uses.
SearchSuffices ==
    \A d, e \in TopLevel :
        /\ unit[d].kind # "tag" /\ unit[e].kind # "tag" /\ unit[d].begin = unit[e].begin
        => \/ e \in SameBeginloc(d)
           \/ unit[e].uses \subseteq unit[d].uses /\ unit[e].completes = {}

\* A nested tag is met from the record around it first if something refers to the
\* record: then its later uses do not ask for the body of the record any more.
OnlyThroughNested(r) ==
    /\ unit[r].name \notin Names
    /\ ~InKeptHeader(r)
    /\ \A e \in Decls : r \in Calls(e, 0) => unit[e].parent = r

\* x is nested, and what it declares is used outside of that record, where nothing
\* but x has defined it.
UsedFromOutside(x) ==
    /\ Record(x) # x
    /\ \E d \in Decls : /\ Record(d) # Record(x)
                        /\ \E y \in unit[d].uses \cup unit[d].needs : y = x \/ SameEntity(x, y)
                        /\ \A m \in Definitions(x) : m = x \/ m > d

NestedFirst ==
    \A x \in Decls : UsedFromOutside(x) =>
        LET r == Record(x)
        IN /\ unit[r].name # "" \/ TypedefForAnon(r) # {}
           /\ unit[r].required \/ OnlyThroughNested(r)

-----------------------------------------------------------------------------
(* Properties.                                                             *)

(* The output compiles, and has what was asked for: the requested symbols  *)
(* are available; for what is printed with its body, everything that it    *)
(* uses is declared before it or in it, every tag whose body it needs has  *)
(* its body in the output, though Print_Decl removes the bodies that are   *)
(* not marked as required, and so has every static function that it uses.  *)
(* The compiler's own functions need no declaration.                       *)
UsesAreAvailable ==
    phase = "print" /\ Ordinary /\ SearchSuffices /\ NestedFirst =>
        /\ \A d \in TopLevel : unit[d].name \in Names /\ unit[d].kind # "tag" /\ ~unit[d].builtin =>
               \E e \in WithBody : Says(e, d) \/ (SameEntity(e, d) /\ unit[e].def)
        /\ \A d \in WithBody :
              /\ unit[d].needs \subseteq WithBody
              /\ \A x \in unit[d].uses : ~unit[x].builtin =>
                    /\ \E e \in Available : (e <= d \/ Contains_From_LineCol(d, e)) /\ (e = x \/ SameEntity(e, x))
                    /\ unit[x].static => Definitions(x) \subseteq WithBody

(* "If the parent struct is flagged as not needing a complete definition   *)
(* then we need to set it to true, else the nested struct won't be output  *)
(* as of only a partial definition of the parent struct is output": a      *)
(* nested tag that something else in the output needs is output.  This     *)
(* does not hold: if the parent is met before, its members are met from    *)
(* it, and the tag is not visited again.                                   *)
NestedAreOutput ==
    phase = "print" /\ Ordinary /\ SearchSuffices =>
        \A d \in WithBody : \A x \in unit[d].needs :
            unit[x].parent # 0 /\ Record(x) # Record(d) => x \in WithBody

(* Whatever the order in which the set is visited, no declaration is       *)
(* printed both by itself and as a part of another's text.                 *)
NothingTwice ==
    phase = "print" =>
        \A d, e \in Printed :
            d # e /\ PrintedFromSource(d) /\ HasText(e) => ~ Contains_From_LineCol(d, e)

(* "Also be careful to make sure those declarations will be print as based *)
(* on the source text and not in AST dump.  In the later case we don't     *)
(* want to remove it": a type that was marked is still printed.  This does *)
(* not hold: the branch for declarators (197) does not ask for the text.   *)
TypesAreNotLost ==
    phase = "print" =>
        \A d \in computed \cap TopLevel : unit[d].kind = "tag" => \E e \in Available : Says(e, d)

(* Run_Analysis and the preparation of the output come to an end: the walk *)
(* over a cyclic graph of declarations stops.                              *)
Terminates == <>(phase = "print")
=============================================================================
