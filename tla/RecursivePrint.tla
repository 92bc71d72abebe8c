--------------------------- MODULE RecursivePrint ---------------------------
(***************************************************************************)
(* RecursivePrint: the marked declarations, the macros that were used and  *)
(* the kept #includes are written in the order of the iterator, with       *)
(* everything inside a declaration skipped.  Print_Decl_Raw writes a       *)
(* declaration as it is in the source, directives in it included, or as a  *)
(* dump of the AST.                                                        *)
(*                                                                         *)
(* A declaration is a record: begin, loc and end, its place and that of    *)
(* its name; furthest, where its attributes end; the file in; kind         *)
(* ("function", "variable", "tag", "enum", "anonymous"); complete, if the  *)
(* definition of a tag is required; included, if its text has an #include; *)
(* hastext, if its text is found; noinline, if it has the attribute;       *)
(* marked, if it is in the closure.  files of a source gives each file's   *)
(* node: expanded, and guard, the place of its header guard's definition   *)
(* or 0; what the command line defines is in "builtin", before the place   *)
(* begin of the source.  keep is the option that keeps #includes.          *)
(*                                                                         *)
(* macros is what a compiler that reads the output knows: for each name    *)
(* the place of its definition in the source, or 0.                        *)
(***************************************************************************)
EXTENDS TopLevelASTIterator

CONSTANT MacroNames

VARIABLES used,        \* MacroInfo::isUsed
          Decl_Deps,   \* indices of marked declarations
          skip,        \* Skip_Until: the place, 0 outside of it
          output,      \* what was written, with the macros it meets
          macros

vars == <<source, iterVars, used, Decl_Deps, skip, output, macros>>

-----------------------------------------------------------------------------
(* The preprocessor, on the source.                                        *)

Directives == Range(source.directives)
IsMacroDirective(d) == d.kind \in {"define", "undef"}

\* The definition that is in force at a place, 0 if there is none.
InForce(name, loc) ==
    LET before == {d \in Directives : IsMacroDirective(d) /\ d.name = name /\ d.at < loc}
        last == CHOOSE d \in before : \A e \in before : e.at <= d.at
    IN IF before = {} \/ last.kind = "undef" THEN 0 ELSE last.at

\* Where a name is replaced or tested: an #if tests one too.
Uses == source.uses \cup {[name |-> d.name, at |-> d.at] : d \in {d \in Directives : d.kind = "if"}}

\* Replacing or testing a macro marks its definition; a header guard that keeps
\* a file from being read again does not.
UsedAtFirst == {InForce(u.name, u.at) : u \in Uses} \ {0}

-----------------------------------------------------------------------------
(* Analyze_Includes.                                                       *)

Node(file) == source.files[file]
KeepIncludes == source.keep
Stays(file) == KeepIncludes /\ ~Node(file).expanded

\* Macros that a header provides lose their mark; the guards of headers that are
\* copied get one.
Analyze_Includes(marks) ==
    LET definitions == {d \in Directives : d.kind = "define"}
        copied == {d.in : d \in {d \in definitions : ~Stays(d.in)}}
        guards == {Node(f).guard : f \in {f \in copied : KeepIncludes}} \ {0}
    IN (marks \ {d.at : d \in {d \in definitions : Stays(d.in)}}) \cup guards

-----------------------------------------------------------------------------
(* What is written.                                                        *)

Marked(d) == \E i \in Decl_Deps : source.decls[i] = d

\* Has_Balanced_Ifdef
Has_Balanced_Ifdef(from, to) ==
    LET In(kind, upto) == Cardinality({d \in Directives : d.kind = kind /\ from <= d.at /\ d.at <= upto})
    IN /\ \A p \in from .. to : In("if", p) >= In("endif", p)
       /\ In("if", to) = In("endif", to)

IsTag(d) == d.kind \in {"tag", "enum", "anonymous"}

\* Print_Decl: the text of a tag is not used if only its name is needed, or to
\* get rid of an #include in it.
TextIsUsed(d) ==
    ~ \/ d.kind \in {"tag", "anonymous"} /\ ~d.complete      \* an enum is always written out
      \/ IsTag(d) /\ ~KeepIncludes /\ d.included

\* Print_Decl, Print_Decl_Raw
How(d) ==
    CASE d.kind = "anonymous" -> "nothing"
      [] d.kind # "anonymous" /\ TextIsUsed(d) /\ d.hastext /\ Has_Balanced_Ifdef(d.begin, d.furthest) -> "text"
      [] OTHER -> "dump"

WrittenAsText(d) == Marked(d) /\ How(d) = "text"

\* A compiler that reads part of the source follows its directives.
Read(m, from, to) ==
    LET read == {d \in Directives : IsMacroDirective(d) /\ from <= d.at /\ d.at <= to}
    IN [n \in MacroNames |->
          IF \E d \in read : d.name = n THEN InForce(n, to + 1) ELSE m[n]]

Write(what, from, to, after) ==
    /\ output' = Append(output, [what |-> what, from |-> from, to |-> to, macros |-> macros])
    /\ macros' = after

WriteNothing == UNCHANGED <<output, macros>>

\* The dump of an attribute must not meet the macro: #undef noinline, the dump,
\* and the definition again.  This is for functions whose text is not found.
Dumped(d) ==
    IF d.noinline /\ ~d.hastext /\ TextIsUsed(d) /\ Get_Macro_Info("noinline", d.begin) # 0
    THEN Write("dump", d.begin, d.end, [macros EXCEPT !["noinline"] = Get_Macro_Info("noinline", d.begin)])
    ELSE Write("dump", d.begin, d.end, macros)

Print_Decl(d) ==
    IF ~Marked(d) \/ How(d) = "nothing" THEN WriteNothing
    ELSE IF How(d) = "text" THEN Write("text", d.begin, d.furthest, Read(macros, d.begin, d.furthest))
    ELSE Dumped(d)

\* An #include directive that should be output is one of a file that stays, in
\* a file that does not; its text is what the preprocessor reads there.
Should_Be_Output_Nested(inc) == ~Node(inc.file).expanded

Should_Be_Output(inc) == ~Node(inc.file).expanded /\ Node(inc.in).expanded

Print_Preprocessed(prep) ==
    CASE prep.kind = "define" /\ prep.at \in used /\ prep.in # "builtin" ->
            Write("define", prep.at, prep.at, [macros EXCEPT ![prep.name] = prep.at])
      [] prep.kind = "include" /\ KeepIncludes /\ Should_Be_Output(prep) ->
            Write("include", prep.at, prep.to, Read(macros, prep.at, prep.to))
      [] OTHER -> WriteNothing

\* The entry is the #undef, its macro the one that it undefines.
Print_Macro_Undef(u) ==
    IF InForce(u.name, u.at) \in used /\ ~Stays(u.in)
    THEN Write("undef", u.at, u.at, [macros EXCEPT ![u.name] = 0])
    ELSE WriteNothing

-----------------------------------------------------------------------------
Init ==
    /\ source \in Sources
    /\ DeclIt = 1
    /\ MacroIt = 1
    /\ UndefIt = 1
    /\ Current = [type |-> "INVALID"]
    /\ Ended = FALSE
    /\ used = {}
    /\ Decl_Deps = {}
    /\ skip = 0
    /\ output = <<>>
    /\ macros = [n \in MacroNames |-> InForce(n, source.begin)]

\* The constructor: the iterator goes to the first item.
Construct ==
    /\ Current.type = "INVALID"
    /\ ~Ended
    /\ Advance
    /\ used' = Analyze_Includes(UsedAtFirst)
    /\ Decl_Deps' = {i \in 1 .. Len(source.decls) : source.decls[i].marked /\ ~Stays(source.decls[i].in)}
    /\ UNCHANGED <<source, skip, output, macros>>

\* Print: one item; after a declaration everything in it is skipped.
PrintItem ==
    /\ Current.type # "INVALID"
    /\ ~Ended
    /\ skip = 0
    /\ CASE IsDecl -> Print_Decl(Current.item) /\ skip' = Current.item.end
         [] Current.type = "PREPROCESSED_ENTITY" -> Print_Preprocessed(Current.item) /\ skip' = 0
         [] Current.type = "MACRO_UNDEF" -> Print_Macro_Undef(Current.item) /\ skip' = 0
    /\ Advance
    /\ UNCHANGED <<source, used, Decl_Deps>>

Skip_Until ==
    /\ skip # 0
    /\ IF MustSkip(skip)
       THEN Advance /\ UNCHANGED skip
       ELSE skip' = 0 /\ UNCHANGED iterVars
    /\ UNCHANGED <<source, used, Decl_Deps, output, macros>>

Next == Construct \/ PrintItem \/ Skip_Until

Spec == Init /\ [][Next]_vars /\ WF_vars(Next)

Printed == Ended /\ skip = 0

-----------------------------------------------------------------------------
(* What a compiler that reads the output meets.                            *)

Tests(out) ==
    LET In(S) == {u \in S : out.from <= u.at /\ u.at <= out.to}
    IN CASE out.what = "text" -> In(Uses)
         [] out.what = "include" -> In(Uses \cup source.guards)
         [] OTHER -> {}

Before(u) == {d \in Directives : IsMacroDirective(d) /\ d.name = u.name /\ d.at < u.at}

\* A directive between the parts of a declaration is skipped, and lost if the
\* declaration's text is not written.
Swallowed(d) ==
    \E i \in 1 .. Len(source.decls) :
        LET decl == source.decls[i]
        IN /\ decl.begin < d.at /\ d.at <= decl.end
           /\ ~Stays(decl.in)
           /\ ~WrittenAsText(decl) \/ d.at < decl.loc

\* An #undef of what a header provides is lost: the macro has no mark.
Unmarked(d) == d.kind = "undef" /\ \E e \in Directives : e.at = InForce(d.name, d.at) /\ Stays(e.in)

\* A dump may define noinline again where it was undefined.
Revives(out, name) ==
    \E i \in 1 .. Len(source.decls) :
        LET decl == source.decls[i]
        IN /\ name = "noinline" /\ decl.noinline /\ ~decl.hastext
           /\ decl.end < out.from
           /\ InForce("noinline", decl.begin) # Get_Macro_Info("noinline", decl.begin)

(* Where the output has the text of a declaration, or an #include, the     *)
(* macros that it uses or tests are what they are in the source: the same  *)
(* definition is in force, or none.  That includes the guard of a header   *)
(* that was copied and that a kept one includes again.  It does not hold   *)
(* of macros with a directive that was lost in one of the ways above.      *)
MacrosAsInSource ==
    \A k \in 1 .. Len(output) : \A u \in Tests(output[k]) :
        \/ output[k].macros[u.name] = InForce(u.name, u.at)
        \/ \E d \in Before(u) : output[k].from <= d.at \/ Swallowed(d) \/ Unmarked(d)
        \/ Revives(output[k], u.name)

(* Every declaration of the closure reaches the compiler once: it is       *)
(* written, or a header that is still included provides it.  What is not   *)
(* in the closure is not written.                                          *)
ReachesOnce ==
    Printed => \A i \in 1 .. Len(source.decls) :
        LET d == source.decls[i]
            carriers == {k \in 1 .. Len(output) :
                            /\ output[k].what \in {"text", "dump", "include"}
                            /\ output[k].from <= d.loc /\ d.loc <= output[k].to}
        IN IF d.marked /\ d.kind # "anonymous" THEN Cardinality(carriers) = 1
           ELSE \A k \in carriers : output[k].from # d.begin

(* The output "will have everything necessary for `function` to compile":  *)
(* a macro that the text of a declaration uses is defined where it is.     *)
(* This does not hold: what is inside a declaration is skipped (717), also *)
(* if the declaration is not written as text.                              *)
UsedMacrosAreDefined ==
    \A k \in 1 .. Len(output) : \A u \in Tests(output[k]) :
        (output[k].what = "text" /\ InForce(u.name, u.at) # 0
           /\ \A d \in Before(u) : d.at < output[k].from) =>
            output[k].macros[u.name] # 0
=============================================================================
