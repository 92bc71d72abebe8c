---------------------- MODULE FunctionExternalizeFinder ----------------------
(***************************************************************************)
(* FunctionExternalizeFinder: from the functions to extract, a walk down   *)
(* the call graph that stops where a function can be reached from outside. *)
(* What it stops at, and the private symbols that the functions on its way *)
(* refer to, are to be externalized.                                       *)
(*                                                                         *)
(* A program is a record: calls, the call graph of clang's CallGraph, and  *)
(* refs, the functions and objects that the body of a function refers to   *)
(* (both defined on all functions, empty without a body); the functions    *)
(* declared inline; the names that are not of global storage, the          *)
(* builtins; the names to extract and those to externalize on request.     *)
(***************************************************************************)
EXTENDS InlineAnalysis

CONSTANT Programs

\* The call graph has a node for every function that is called.
ASSUME ProgramsAssumption ==
    \A p \in Programs : \A f \in DOMAIN p.calls : p.calls[f] \subseteq DOMAIN p.calls

VARIABLES program,
          rootsLeft,         \* call graph nodes that Run_Analysis did not reach
          AnalyzedNodes,
          MustExternalize,
          calls              \* the active calls of Analyze_Node, innermost last

vars == <<iaVars, program, rootsLeft, AnalyzedNodes, MustExternalize, calls>>

Functions == DOMAIN program.calls
HasBody(f) == f \in program.defined

\* The declarator is a function or an object of global storage, it is not to be
\* extracted, not the compiler's and not inline, and the binaries have it.
Should_Externalize(n) ==
    /\ n \notin program.extract
    /\ n \notin program.builtin
    /\ n \notin program.inlined
    /\ n \notin program.locals
    /\ Needs_Externalization(n) # "NONE"

Init ==
    /\ InlineInit
    /\ program \in Programs
    /\ rootsLeft = DOMAIN program.calls
    /\ AnalyzedNodes = {}
    /\ MustExternalize = program.externalize
    /\ calls = <<>>

Load ==
    /\ InlineNext
    /\ UNCHANGED <<program, rootsLeft, AnalyzedNodes, MustExternalize, calls>>

\* Externalize_DeclRefs
Externalize_DeclRefs(f) == {n \in program.refs[f] : Should_Externalize(n)}

Analyze_Node_Descends(f, c) ==
    IF f \in AnalyzedNodes
    THEN calls' = c /\ UNCHANGED <<AnalyzedNodes, MustExternalize>>
    ELSE /\ AnalyzedNodes' = AnalyzedNodes \cup {f}
         /\ IF Should_Externalize(f)
            THEN /\ MustExternalize' = MustExternalize \cup {f}
                 /\ calls' = Append(c, [node |-> f, todo |-> program.calls[f]])
            ELSE /\ MustExternalize' = MustExternalize \cup Externalize_DeclRefs(f)
                 /\ calls' = Append(c, [node |-> f, todo |-> program.calls[f]])

\* Analyze_Node(f) on the calls c, with Analyze_Function and Externalize_DeclRefs.
Analyze_Node(f, c) ==
    IF f \in AnalyzedNodes
    THEN calls' = c /\ UNCHANGED <<AnalyzedNodes, MustExternalize>>
    ELSE /\ AnalyzedNodes' = AnalyzedNodes \cup {f}
         /\ IF Should_Externalize(f)
            THEN /\ MustExternalize' = MustExternalize \cup {f}
                 /\ calls' = c
            ELSE /\ MustExternalize' = MustExternalize \cup Externalize_DeclRefs(f)
                 /\ calls' = Append(c, [node |-> f, todo |-> program.calls[f]])

\* Run_Analysis: the next node of the call graph, in the order of a hash map.
Run_Analysis ==
    /\ Answered
    /\ calls = <<>>
    /\ \E f \in rootsLeft :
          /\ rootsLeft' = rootsLeft \ {f}
          /\ IF HasBody(f) /\ f \in program.extract
             THEN Analyze_Node(f, calls)
             ELSE UNCHANGED <<AnalyzedNodes, MustExternalize, calls>>
    /\ UNCHANGED <<iaVars, program>>

Analyze_Child ==
    /\ calls # <<>>
    /\ \E f \in calls[Len(calls)].todo :
          Analyze_Node(f, [calls EXCEPT ![Len(calls)].todo = @ \ {f}])
    /\ UNCHANGED <<iaVars, program, rootsLeft>>

Analyzed ==
    /\ calls # <<>>
    /\ calls[Len(calls)].todo = {}
    /\ calls' = SubSeq(calls, 1, Len(calls) - 1)
    /\ UNCHANGED <<iaVars, program, rootsLeft, AnalyzedNodes, MustExternalize>>

Next == Load \/ Run_Analysis \/ Analyze_Child \/ Analyzed

Spec == Init /\ [][Next]_vars

Finished == Answered /\ rootsLeft = {} /\ calls = <<>>

\* The constructor asserts that there is none, when the analysis is finished.
Intersection == MustExternalize \cap program.extract

-----------------------------------------------------------------------------
(* What is externalized is what was asked for and what is met from the     *)
(* functions to extract: the functions called, and the functions and       *)
(* objects referred to, by them or by functions that are copied with them, *)
(* if they should be externalized; and nothing else.  The assertion that   *)
(* nothing is both extracted and externalized fails only for names that    *)
(* were given for both.                                                    *)
Roots == {f \in program.extract \cap Functions : HasBody(f)}
Called(S) == UNION {program.calls[f] : f \in S}
HasCopied(S) == Roots \cup {f \in Called(S) : ~Should_Externalize(f)} \subseteq S
Met(S) == UNION {program.calls[f] \cup program.refs[f] : f \in S}

ExternalizesWhatIsMet ==
    Finished =>
        \E copied \in SUBSET Functions :
            /\ HasCopied(copied)
            /\ \A S \in SUBSET Functions : HasCopied(S) => copied \subseteq S
            /\ MustExternalize = program.externalize
                                   \cup {n \in Met(copied) : Should_Externalize(n)}
            /\ Intersection = program.externalize \cap program.extract
=============================================================================
