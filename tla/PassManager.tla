----------------------------- MODULE PassManager -----------------------------
(***************************************************************************)
(* The pass list of libcextract/Passes.cpp.  The passes run once, in       *)
(* order, and communicate through the Context: the AST, the in-memory file *)
(* system the next AST is parsed from, the lists of names, the log of the  *)
(* externalizer, and PrettyPrint's output stream.                          *)
(*                                                                         *)
(* A text is what the passes can tell apart of a translation unit: which   *)
(* symbols it declares under which name, whether it still includes files,  *)
(* and how often it went through a closure.  What a pass computes from the *)
(* program (which symbols to externalize, whether clang finds errors) is   *)
(* any value the code's guards admit.                                      *)
(***************************************************************************)
EXTENDS Naturals

CONSTANT Symbols     \* functions and variables of the program

VARIABLES
  opt,          \* the command line, see Options
  source,       \* the file as it is on disk
  pass,         \* number of the next pass
  ast,          \* Context::AST, its text and whether clang saw errors
  mfs,          \* the main file in Context::MFS: no text, or one
  FuncExtractNames, Externalize, NamesLog,
  CodeOutput,   \* no text, or one
  Out,          \* PrettyPrint::Out: "stdout", "file", "null" or "dead"
  file,         \* the output file: no text, or one
  tail,         \* the IBT tail follows it
  result        \* "running", "ok", "failed" or "ub" (write to a dead stream)

ctxVars == <<ast, mfs, FuncExtractNames, Externalize, NamesLog, CodeOutput, Out, file, tail>>
vars == <<opt, source, pass, ast, mfs, FuncExtractNames, Externalize, NamesLog,
          CodeOutput, Out, file, tail, result>>

\* main() refuses an empty list of functions.
Options == [FunctionsToExtract : (SUBSET Symbols) \ {{}}, SymbolsToExternalize : SUBSET Symbols,
            KeepIncludes : BOOLEAN, ExternalizationDisabled : BOOLEAN,
            RenameSymbols : BOOLEAN, Ibt : BOOLEAN, IgnoreClangErrors : BOOLEAN,
            IPA : BOOLEAN, Dsc : BOOLEAN, Header : BOOLEAN]

\* A name is a symbol with its prefix: none, klpp_ (RENAME) or klpe_ (STRONG).
Plain(S) == {<<"", s>> : s \in S}
Renamed(S) == {<<"klpp_", s>> : s \in S}
Externalized(S) == {<<"klpe_", s>> : s \in S}
Names == Plain(Symbols) \cup Renamed(Symbols)

Text == [plain : SUBSET Symbols, renamed : SUBSET Symbols,
         strong : SUBSET Symbols,       \* externalized
         includes : BOOLEAN,            \* parsing it needs files from disk
         closed : BOOLEAN]              \* printed by a closure: nothing is left to drop
Declared(t) ==
  Plain(t.plain) \cup Renamed(t.renamed) \cup IF opt.Ibt THEN {} ELSE Externalized(t.strong)

\* InMemoryFileSystem::addFile refuses a file that exists with other contents.
AddFile(fs, t) == IF fs = {} THEN {t} ELSE fs

\* A missing header is an error; otherwise clang decides.
HasErrors(t, onDisk) == IF t.includes /\ ~onDisk THEN {TRUE} ELSE BOOLEAN

\* An AST with errors may lack anything.
CanFind(a, names) == names \subseteq Declared(a.text)
CanMiss(a, names) == a.errors \/ ~CanFind(a, names)

-----------------------------------------------------------------------------
Init ==
  /\ opt \in Options
  /\ source \in {[plain |-> S, renamed |-> {}, strong |-> {}, includes |-> i, closed |-> FALSE] :
                   S \in SUBSET Symbols, i \in BOOLEAN}
  /\ pass = 1 /\ ast = [text |-> source, errors |-> FALSE]
  /\ mfs = {} /\ NamesLog = {} /\ CodeOutput = {} /\ Out = "stdout"
  /\ file = {} /\ tail = FALSE
  /\ FuncExtractNames = Plain(opt.FunctionsToExtract)
  /\ Externalize = opt.SymbolsToExternalize
  /\ result = "running"

(***************************************************************************)
(* Run_Passes: a failure ends the run unless clang's errors are ignored,   *)
(* an exception always does.                                               *)
(***************************************************************************)
Last == 9
Return_Ignored(success) ==           \* mutant: a failed pass does not end the run
  /\ UNCHANGED <<opt, source>>
  /\ pass' = pass + 1 /\ result' = IF pass = Last THEN "ok" ELSE "running"
Return(success) ==
  /\ UNCHANGED <<opt, source>>
  /\ IF ~success /\ ~opt.IgnoreClangErrors
     THEN result' = "failed" /\ UNCHANGED pass
     ELSE /\ pass' = pass + 1
          /\ result' = IF pass = Last THEN "ok" ELSE "running"
Throw == result' = "failed" /\ UNCHANGED <<opt, source, pass>>
Runs(n, gate) == result = "running" /\ pass = n /\ gate

StrongLogged == {e.sym : e \in {x \in NamesLog : x.type = "STRONG"}}

ExternalizerGate == Externalize # {} \/ opt.RenameSymbols
FinderGate == ~opt.ExternalizationDisabled /\ Externalize = {}
TailGate == opt.Ibt /\ Externalize # {} /\ StrongLogged # {}
Gate(n) ==
  CASE n = 2 -> opt.IPA
    [] n = 3 -> ~opt.ExternalizationDisabled /\ FuncExtractNames # {}
    [] n = 4 -> FinderGate
    [] n = 5 -> ExternalizerGate
    [] n = 6 -> opt.Dsc
    [] n = 7 -> FuncExtractNames # {}
    [] n = 8 -> TailGate
    [] n = 9 -> opt.Header
    [] OTHER -> TRUE

Skip == Runs(pass, ~Gate(pass)) /\ Return(TRUE) /\ UNCHANGED ctxVars

\* 1: the only AST that is parsed from disk alone.  Clang may build none.
BuildASTPass ==
  /\ Runs(1, Gate(1))
  /\ \/ \E errors \in BOOLEAN : ast' = [text |-> source, errors |-> errors] /\ Return(~errors)
     \/ UNCHANGED ast /\ Throw
  /\ UNCHANGED <<mfs, FuncExtractNames, Externalize, NamesLog, CodeOutput, Out, file, tail>>

\* 2: where the functions were inlined, according to the IPA clones.
InlinedSymbolsFinder ==
  /\ Runs(2, Gate(2))
  /\ \E S \in SUBSET Symbols : FuncExtractNames' = FuncExtractNames \cup Plain(S)
  /\ Return(TRUE)
  /\ UNCHANGED <<ast, mfs, Externalize, NamesLog, CodeOutput, Out, file, tail>>

(***************************************************************************)
(* 3 and 7: compute the closure, print it, parse what was printed, and     *)
(* print the closure of that.  An early return leaves Out on the local     *)
(* string stream.                                                          *)
(***************************************************************************)
Closure(t) == [t EXCEPT !.includes = @ /\ opt.KeepIncludes, !.closed = TRUE]

\* Run_Analysis misses a function, or the IncludeTree gives up.
ClosureFindsNothing(n) ==
  /\ Runs(n, Gate(n))
  /\ CodeOutput' = {} /\ Out' = "dead"
  /\ \/ Throw
     \/ CanMiss(ast, FuncExtractNames) /\ Return(FALSE)
  /\ UNCHANGED <<ast, mfs, FuncExtractNames, Externalize, NamesLog, file, tail>>

\* Clang builds no AST of the first closure.
NoASTUnit(n) ==
  /\ Runs(n, Gate(n))
  /\ CanFind(ast, FuncExtractNames)
  /\ mfs' = AddFile(mfs, Closure(ast.text))
  /\ CodeOutput' = {Closure(ast.text)} /\ Out' = "dead"
  /\ Throw
  /\ UNCHANGED <<ast, FuncExtractNames, Externalize, NamesLog, file, tail>>

\* The first closure of a pass is out and has been parsed.
Reparsed(n) ==
  /\ Runs(n, Gate(n))
  /\ CanFind(ast, FuncExtractNames)
  /\ mfs' = AddFile(mfs, Closure(ast.text))
  /\ \E t \in mfs' : \E errors \in HasErrors(t, opt.KeepIncludes) :
       ast' = [text |-> t, errors |-> errors]
  /\ UNCHANGED <<FuncExtractNames, Externalize, NamesLog, tail>>

ClosureDoesNotCompile(n) ==
  /\ Reparsed(n)
  /\ ast'.errors /\ ~opt.IgnoreClangErrors
  /\ CodeOutput' = {Closure(ast.text)} /\ Out' = "dead" /\ UNCHANGED file
  /\ Return(FALSE)

\* Code that the second analysis has to find in what the first one printed.
PrintedTo(n, code) ==
  IF n = 7
  THEN Out' = "file" /\ file' = code /\ CodeOutput' = {Closure(ast.text)}
  ELSE Out' = "dead" /\ CodeOutput' = code /\ UNCHANGED file

SecondClosureFindsNothing(n) ==
  /\ Reparsed(n)
  /\ ast'.errors => opt.IgnoreClangErrors
  /\ PrintedTo(n, {})
  /\ \/ Throw
     \/ CanMiss(ast', FuncExtractNames) /\ Return(FALSE)

\* The second addFile has no effect: the first one left a file.
ClosurePass(n) ==
  /\ Reparsed(n)
  /\ ast'.errors => opt.IgnoreClangErrors
  /\ CanFind(ast', FuncExtractNames)
  /\ PrintedTo(n, {Closure(ast'.text)})
  /\ Return(~ast'.errors)

-----------------------------------------------------------------------------
\* 4: FunctionExternalizeFinder never picks what is extracted.
FunctionExternalizeFinderPass ==
  /\ Runs(4, Gate(4))
  /\ Externalize' \in SUBSET {s \in Symbols : <<"", s>> \notin FuncExtractNames}
  /\ Return(TRUE)
  /\ UNCHANGED <<ast, mfs, FuncExtractNames, NamesLog, CodeOutput, Out, file, tail>>

(***************************************************************************)
(* 5: a symbol of Externalize that the closure uses is externalized, unless *)
(* it is externally visible.  SymbolsMap has one entry for a name, and     *)
(* those of Externalize come first: the others get the prefix klpp_.  All  *)
(* names of FuncExtractNames get it.                                       *)
(***************************************************************************)
ToRename ==
  IF opt.RenameSymbols
  THEN {s \in ast.text.plain \ Externalize : <<"", s>> \in FuncExtractNames}
  ELSE {}
NewNames_Kept == FuncExtractNames    \* mutant: the list is not updated
NewNames ==
  IF opt.RenameSymbols
  THEN {<<"klpp_", s>> : s \in {x \in Symbols : <<"", x>> \in FuncExtractNames}}
  ELSE FuncExtractNames

\* The declaration of an externalized symbol is replaced; others of the same
\* name may be left.
Rewritten(strong, gone) ==
  [ast.text EXCEPT !.plain = @ \ (gone \cup ToRename),
                   !.renamed = @ \cup ToRename,
                   !.strong = @ \cup strong,
                   !.closed = @ /\ strong \cup ToRename = {}]

Log_NotRenames(strong) == [sym : strong, type : {"STRONG"}]    \* mutant
Log(strong) == [sym : strong, type : {"STRONG"}] \cup [sym : ToRename, type : {"RENAME"}]

FunctionExternalizerPass ==
  /\ Runs(5, Gate(5))
  /\ \E strong \in SUBSET (Externalize \cap ast.text.plain) :
     \E gone \in SUBSET strong, errors \in BOOLEAN :
       /\ opt.Ibt => gone = {}
       /\ FuncExtractNames' = NewNames
       /\ mfs' = {Rewritten(strong, gone)}      \* Commit makes a new file system
       /\ NamesLog' = Log(strong)
       /\ ast' = [text |-> Rewritten(strong, gone), errors |-> errors]
       /\ Return(~errors)
  /\ UNCHANGED <<Externalize, CodeOutput, Out, file, tail>>

\* A header that has to be modified can not be expanded.
FunctionExternalizerThrows ==
  /\ Runs(5, Gate(5))
  /\ FuncExtractNames' = NewNames
  /\ Throw
  /\ UNCHANGED <<ast, mfs, Externalize, NamesLog, CodeOutput, Out, file, tail>>

\* 6: every name that goes into the .dsc file must be declared.
DscNames ==
  LET renames == {e.sym : e \in {x \in NamesLog : x.type = "RENAME"}}
  IN (IF renames # {} THEN Renamed(renames) ELSE FuncExtractNames)
       \cup IF opt.Ibt THEN Plain(StrongLogged) ELSE Externalized(StrongLogged)
GenerateDscPass ==
  /\ Runs(6, Gate(6))
  /\ \/ CanFind(ast, DscNames) /\ Return(TRUE)
     \/ CanMiss(ast, DscNames) /\ Throw
  /\ UNCHANGED ctxVars

\* 8: Print_Raw on whatever the passes left in Out.
IbtTailGeneratePass ==
  /\ Runs(8, Gate(8))
  /\ IF Out = "dead"
     THEN result' = "ub" /\ UNCHANGED <<opt, source, pass, tail>>
     ELSE Return(TRUE) /\ tail' = (Out = "file")
  /\ UNCHANGED <<ast, mfs, FuncExtractNames, Externalize, NamesLog, CodeOutput, Out, file>>

\* 9: into a stream of its own.
HeaderGenerationPass ==
  /\ Runs(9, Gate(9))
  /\ Out' = "null"
  /\ Return(TRUE)
  /\ UNCHANGED <<ast, mfs, FuncExtractNames, Externalize, NamesLog, CodeOutput, file, tail>>

Next ==
  \/ Skip \/ BuildASTPass \/ InlinedSymbolsFinder
  \/ \E n \in {3, 7} : \/ ClosureFindsNothing(n)
                       \/ NoASTUnit(n)
                       \/ ClosureDoesNotCompile(n)
                       \/ SecondClosureFindsNothing(n)
                       \/ ClosurePass(n)
  \/ FunctionExternalizeFinderPass
  \/ FunctionExternalizerPass
  \/ FunctionExternalizerThrows
  \/ GenerateDscPass
  \/ IbtTailGeneratePass
  \/ HeaderGenerationPass

Spec == Init /\ [][Next]_vars

-----------------------------------------------------------------------------
Extracted == {s \in Symbols : <<"", s>> \in FuncExtractNames \/ <<"klpp_", s>> \in FuncExtractNames}

(***************************************************************************)
(* Once the first closure found the functions, every later pass finds them *)
(* under the name the list has for it: the externalizer renames the list   *)
(* and the text together (SymbolExternalizer.cpp:1060, Passes.cpp:544).    *)
(* Not so when the user lists one symbol for both, or ignores errors.      *)
(***************************************************************************)
FuncsStayDeclared ==
  result = "running" /\ pass > 3 /\ ~opt.ExternalizationDisabled /\ ~opt.IgnoreClangErrors
    /\ Extracted \cap Externalize = {}
  => FuncExtractNames \subseteq Declared(ast.text)

(***************************************************************************)
(* The log that the .dsc file, the IBT tail and the header are written     *)
(* from says what happened to the text in the output file.                 *)
(***************************************************************************)
LogMatchesOutput ==
  result = "ok" =>
    \A t \in file : /\ t.strong = StrongLogged
                    /\ t.renamed = {e.sym : e \in {x \in NamesLog : x.type = "RENAME"}}

(***************************************************************************)
(* Unless errors are ignored, the tail is only ever written to the output  *)
(* file, after the code, whose declarations it repeats; PrettyPrint::Out   *)
(* is not the stream of a pass that has returned; and a run that reports   *)
(* success has written the code.                                           *)
(***************************************************************************)
TailFollowsCode ==
  ~opt.IgnoreClangErrors => result # "ub" /\ (tail \/ result = "ok" => file # {})
=============================================================================
