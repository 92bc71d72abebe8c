-------------------------- MODULE PassManager_proofs --------------------------
(***************************************************************************)
(* Proofs about the pass list, for any set of symbols and all options.     *)
(***************************************************************************)
EXTENDS PassManager, TLAPS

LogEntries == [sym : Symbols, type : {"STRONG", "RENAME"}]
Logged(log, type) == {e.sym : e \in {x \in log : x.type = type}}
Matches(t, log) == t.strong = Logged(log, "STRONG") /\ t.renamed = Logged(log, "RENAME")

TypeInv ==
  /\ opt \in Options /\ source \in Text
  /\ pass \in Nat
  /\ result \in {"running", "ok", "failed", "ub"}
  /\ ast.text \in Text /\ mfs \in SUBSET Text /\ file \in SUBSET Text
  /\ FuncExtractNames \in SUBSET Names /\ FuncExtractNames # {}
  /\ Externalize \in SUBSET Symbols
  /\ NamesLog \in SUBSET LogEntries

\* What is not there yet before the pass that makes it.
EarlyInv ==
  /\ result = "running" /\ pass <= 5 => FuncExtractNames \subseteq Plain(Symbols) /\ NamesLog = {}
  /\ result = "running" /\ pass <= 7 => file = {}
  /\ source.strong = {} /\ source.renamed = {}
  /\ tail => pass > 8
  /\ result = "ok" => pass > 8

\* Every text that is still in use was written according to the log.
LogInv == \A t \in {ast.text} \cup mfs \cup file : Matches(t, NamesLog)

\* The last closure runs, and its output goes to the file.
OutputInv ==
  ~opt.IgnoreClangErrors =>
    /\ pass > 7 => file # {}
    /\ result = "running" /\ pass = 8 => Out = "file"
    /\ result # "ub"

IInv == TypeInv /\ EarlyInv /\ LogInv /\ OutputInv /\ FuncsStayDeclared

-----------------------------------------------------------------------------
\* A closure declares what its input does under the same names.
LEMMA ClosureKeepsNames ==
  ASSUME TypeInv, NEW t \in Text
  PROVE  /\ Closure(t) \in Text
         /\ Closure(t).plain = t.plain
         /\ Closure(t).renamed = t.renamed
         /\ Closure(t).strong = t.strong
BY DEF Closure, Text, TypeInv, Options

\* A text that matches the log still does when a closure has printed it.
LEMMA ClosureKeepsMatch ==
  ASSUME TypeInv, NEW t \in Text, NEW log, Matches(t, log)
  PROVE  Matches(Closure(t), log)
BY ClosureKeepsNames DEF Matches

\* What is parsed in a closure pass is the text of the main file in memory,
\* which matches the log whether the first addFile had an effect or not.
LEMMA ReparsedTexts ==
  ASSUME TypeInv, LogInv, NEW n, Reparsed(n)
  PROVE  /\ ast'.text \in Text /\ mfs' \in SUBSET Text
         /\ \A t \in {ast'.text} \cup mfs' : Matches(t, NamesLog)
<1>1. mfs' = IF mfs = {} THEN {Closure(ast.text)} ELSE mfs
  BY DEF Reparsed, AddFile
<1>2. Closure(ast.text) \in Text /\ Matches(Closure(ast.text), NamesLog)
  BY ClosureKeepsNames, ClosureKeepsMatch DEF TypeInv, LogInv
<1>3. ast'.text \in mfs'
  <2>1. PICK t \in mfs' : \E errors : ast' = [text |-> t, errors |-> errors]
    BY DEF Reparsed
  <2>2. QED
    BY <2>1
<1>4. mfs' \in SUBSET Text /\ \A t \in mfs' : Matches(t, NamesLog)
  BY <1>1, <1>2 DEF TypeInv, LogInv
<1>5. QED
  BY <1>3, <1>4

\* A pass that returns leads to the next one, ends the run, or fails.
LEMMA ReturnFacts ==
  ASSUME pass \in Nat, NEW success, Return(success)
  PROVE  /\ UNCHANGED <<opt, source>>
         /\ \/ result' = "failed" /\ pass' = pass
            \/ pass' = pass + 1 /\ result' = IF pass = 9 THEN "ok" ELSE "running"
BY DEF Return, Last

LEMMA ReturnTrue ==
  ASSUME Return(TRUE)
  PROVE  pass' = pass + 1 /\ result' = IF pass = 9 THEN "ok" ELSE "running"
BY DEF Return, Last

LEMMA ReturnFalse ==
  ASSUME Return(FALSE), ~opt.IgnoreClangErrors
  PROVE  pass' = pass /\ result' = "failed"
BY DEF Return

-----------------------------------------------------------------------------
\* A step that leaves the context alone keeps the invariant, unless it leaves
\* out a closure that the gates do not let it leave out.
LEMMA ContextKept ==
  ASSUME IInv, result = "running", UNCHANGED ctxVars, Return(TRUE) \/ Throw,
         pass # 7, pass = 3 => opt.ExternalizationDisabled
  PROVE  IInv'
<1> USE DEF IInv, ctxVars
<1>1. /\ UNCHANGED <<opt, source>>
      /\ \/ result' = "failed" /\ pass' = pass
         \/ pass' = pass + 1 /\ result' = IF pass = 9 THEN "ok" ELSE "running"
  BY ReturnFacts DEF TypeInv, Throw
<1>2. TypeInv'
  BY <1>1 DEF TypeInv
<1>3. EarlyInv'
  BY <1>1 DEF EarlyInv, TypeInv
<1>4. LogInv'
  BY DEF LogInv, Matches, Logged
<1>5. OutputInv'
  BY <1>1 DEF OutputInv, TypeInv
<1>6. FuncsStayDeclared'
  <2>1. UNCHANGED <<Extracted, Declared(ast.text), FuncExtractNames, Externalize, opt>>
    BY <1>1 DEF Extracted, Declared
  <2>2. QED
    BY <1>1, <2>1 DEF FuncsStayDeclared, TypeInv
<1>7. QED
  BY <1>2, <1>3, <1>4, <1>5, <1>6

LEMMA SkipKeepsInv ==
  ASSUME IInv, Skip
  PROVE  IInv'
<1>1. result = "running" /\ ~Gate(pass)
  BY DEF Skip, Runs
<1>2. pass # 7
  BY <1>1 DEF IInv, TypeInv, Gate
<1>3. pass = 3 => opt.ExternalizationDisabled
  BY <1>1 DEF IInv, TypeInv, Gate
<1>4. QED
  BY <1>1, <1>2, <1>3, ContextKept DEF Skip

LEMMA GenerateDscKeepsInv ==
  ASSUME IInv, GenerateDscPass
  PROVE  IInv'
<1>1. result = "running" /\ pass = 6 /\ UNCHANGED ctxVars /\ (Return(TRUE) \/ Throw)
  BY DEF GenerateDscPass, Runs
<1>2. pass # 7 /\ pass # 3
  BY <1>1
<1>3. QED
  BY <1>1, <1>2, ContextKept

\* The text on disk has nothing in it that the log has not.
LEMMA BuildASTKeepsInv ==
  ASSUME IInv, BuildASTPass
  PROVE  IInv'
<1> USE DEF IInv
<1>1. result = "running" /\ pass = 1 /\ NamesLog = {} /\ file = {}
  BY DEF BuildASTPass, Runs, EarlyInv
<1>2. UNCHANGED <<opt, source, mfs, FuncExtractNames, Externalize, NamesLog, file, tail>>
  BY <1>1, ReturnFacts DEF BuildASTPass, Throw
<1>3. /\ ast'.text \in {ast.text, source}
      /\ pass' \in {1, 2} /\ result' \in {"running", "failed"}
  <2>1. CASE UNCHANGED ast /\ Throw
    BY <1>1, <2>1 DEF Throw
  <2>2. CASE \E errors \in BOOLEAN : ast' = [text |-> source, errors |-> errors] /\ Return(~errors)
    <3>1. PICK errors \in BOOLEAN : ast' = [text |-> source, errors |-> errors] /\ Return(~errors)
      BY <2>2
    <3>2. pass' \in {1, 2} /\ result' \in {"running", "failed"}
      BY <1>1, <3>1, ReturnFacts DEF TypeInv
    <3>3. QED
      BY <3>1, <3>2
  <2>3. QED
    BY <2>1, <2>2 DEF BuildASTPass
<1>4. TypeInv'
  BY <1>2, <1>3 DEF TypeInv
<1>5. EarlyInv'
  BY <1>1, <1>2, <1>3 DEF EarlyInv
<1>6. LogInv'
  BY <1>1, <1>2, <1>3 DEF LogInv, EarlyInv, Matches, Logged
<1>7. OutputInv' /\ FuncsStayDeclared'
  BY <1>1, <1>3 DEF OutputInv, FuncsStayDeclared
<1>8. QED
  BY <1>4, <1>5, <1>6, <1>7

LEMMA InlinedSymbolsKeepInv ==
  ASSUME IInv, InlinedSymbolsFinder
  PROVE  IInv'
<1> USE DEF IInv
<1>1. result = "running" /\ pass = 2
  BY DEF InlinedSymbolsFinder, Runs
<1>2. UNCHANGED <<opt, source, ast, mfs, Externalize, NamesLog, file, tail>>
  BY ReturnFacts DEF TypeInv, InlinedSymbolsFinder
<1>3. pass' = 3 /\ result' = "running"
  BY <1>1, ReturnTrue DEF InlinedSymbolsFinder
<1>4. /\ FuncExtractNames \subseteq FuncExtractNames'
      /\ FuncExtractNames' \subseteq FuncExtractNames \cup Plain(Symbols)
  BY DEF InlinedSymbolsFinder, Plain
<1>5. TypeInv'
  BY <1>2, <1>3, <1>4 DEF TypeInv, Names
<1>6. EarlyInv'
  BY <1>1, <1>2, <1>3, <1>4 DEF EarlyInv
<1>7. LogInv'
  BY <1>2 DEF LogInv, Matches, Logged
<1>8. OutputInv' /\ FuncsStayDeclared'
  BY <1>3 DEF OutputInv, FuncsStayDeclared
<1>9. QED
  BY <1>5, <1>6, <1>7, <1>8

\* Nothing that is extracted is externalized, so that nothing new is claimed.
LEMMA ExternalizeFinderKeepsInv ==
  ASSUME IInv, FunctionExternalizeFinderPass
  PROVE  IInv'
<1> USE DEF IInv
<1>1. result = "running" /\ pass = 4 /\ Externalize = {}
  <2>1. Gate(4) = FinderGate
    BY DEF Gate
  <2>2. QED
    BY <2>1 DEF FunctionExternalizeFinderPass, Runs, FinderGate
<1>2. UNCHANGED <<opt, source, ast, mfs, FuncExtractNames, NamesLog, file, tail>>
  BY ReturnFacts DEF TypeInv, FunctionExternalizeFinderPass
<1>3. pass' = 5 /\ result' = "running"
  <2>1. Return(TRUE)
    BY DEF FunctionExternalizeFinderPass
  <2>2. QED
    BY <1>1, <2>1, ReturnTrue
<1>4. TypeInv'
  BY <1>2, <1>3 DEF TypeInv, FunctionExternalizeFinderPass
<1>5. EarlyInv'
  BY <1>1, <1>2, <1>3 DEF EarlyInv
<1>6. LogInv'
  BY <1>2 DEF LogInv, Matches, Logged
<1>7. OutputInv'
  BY <1>3 DEF OutputInv
<1>8. FuncsStayDeclared'
  <2>1. UNCHANGED <<Declared(ast.text), FuncExtractNames, opt>>
    BY <1>2 DEF Declared
  <2>2. QED
    BY <1>1, <2>1 DEF FuncsStayDeclared
<1>9. QED
  BY <1>4, <1>5, <1>6, <1>7, <1>8

-----------------------------------------------------------------------------
\* What every way that a closure pass can end has in common.
ClosureEnds(n) ==
  /\ result = "running" /\ pass = n
  /\ UNCHANGED <<opt, source, FuncExtractNames, Externalize, NamesLog, tail>>
  /\ ast'.text \in Text /\ mfs' \in SUBSET Text /\ file' \in SUBSET Text
  /\ \A t \in {ast'.text} \cup mfs' \cup file' : Matches(t, NamesLog)
  /\ n = 3 => file' = file
  /\ \/ result' = "failed" /\ pass' = pass
     \/ pass' = pass + 1 /\ result' = "running" /\ opt.IgnoreClangErrors
     \/ /\ pass' = pass + 1 /\ result' = "running"
        /\ FuncExtractNames \subseteq Declared(ast'.text)
        /\ n = 7 => Out' = "file" /\ file' # {}

LEMMA ClosureEndsKeepsInv ==
  ASSUME IInv, NEW n \in {3, 7}, ClosureEnds(n)
  PROVE  IInv'
<1> USE DEF IInv, ClosureEnds
<1>1. TypeInv'
  BY DEF TypeInv
<1>2. EarlyInv'
  BY DEF EarlyInv, TypeInv
<1>3. LogInv'
  BY DEF LogInv, Matches, Logged
<1>4. OutputInv'
  BY DEF OutputInv
<1>5. FuncsStayDeclared'
  <2> SUFFICES ASSUME result' = "running", ~opt.IgnoreClangErrors
               PROVE  FuncExtractNames' \subseteq Declared(ast.text)'
    BY DEF FuncsStayDeclared
  <2>1. FuncExtractNames \subseteq Declared(ast'.text)
    OBVIOUS
  <2>2. Declared(ast'.text) = Declared(ast.text)'
    BY DEF Declared
  <2>3. QED
    BY <2>1, <2>2
<1>6. QED
  BY <1>1, <1>2, <1>3, <1>4, <1>5

LEMMA ClosureFindsNothingKeepsInv ==
  ASSUME IInv, NEW n \in {3, 7}, ClosureFindsNothing(n)
  PROVE  IInv'
<1>1. /\ result = "running" /\ pass = n
      /\ UNCHANGED <<ast, mfs, FuncExtractNames, Externalize, NamesLog, file, tail>>
      /\ Throw \/ Return(FALSE)
  BY DEF ClosureFindsNothing, Runs
<1>2. /\ UNCHANGED <<opt, source>>
      /\ \/ result' = "failed" /\ pass' = pass
         \/ pass' = pass + 1 /\ result' = "running" /\ opt.IgnoreClangErrors
  BY <1>1 DEF Throw, Return, Last
<1>3. ClosureEnds(n)
  BY <1>1, <1>2 DEF ClosureEnds, IInv, TypeInv, LogInv
<1>4. QED
  BY <1>3, ClosureEndsKeepsInv

LEMMA NoASTUnitKeepsInv ==
  ASSUME IInv, NEW n \in {3, 7}, NoASTUnit(n)
  PROVE  IInv'
<1>1. /\ result = "running" /\ pass = n
      /\ mfs' = IF mfs = {} THEN {Closure(ast.text)} ELSE mfs
      /\ UNCHANGED <<ast, FuncExtractNames, Externalize, NamesLog, file, tail>>
      /\ result' = "failed" /\ UNCHANGED <<opt, source, pass>>
  BY DEF NoASTUnit, Runs, AddFile, Throw
<1>2. Closure(ast.text) \in Text /\ Matches(Closure(ast.text), NamesLog)
  BY ClosureKeepsNames, ClosureKeepsMatch DEF IInv, TypeInv, LogInv
<1>3. ClosureEnds(n)
  BY <1>1, <1>2 DEF ClosureEnds, IInv, TypeInv, LogInv
<1>4. QED
  BY <1>3, ClosureEndsKeepsInv

\* Of the texts that a closure pass prints, one that matches the log is left.
LEMMA ReparsedFacts ==
  ASSUME IInv, NEW n \in {3, 7}, Reparsed(n)
  PROVE  /\ result = "running" /\ pass = n
         /\ UNCHANGED <<FuncExtractNames, Externalize, NamesLog, tail>>
         /\ ast'.text \in Text /\ mfs' \in SUBSET Text
         /\ \A t \in {ast'.text} \cup mfs' : Matches(t, NamesLog)
         /\ Closure(ast'.text) \in Text /\ Matches(Closure(ast'.text), NamesLog)
<1>1. ast'.text \in Text /\ \A t \in {ast'.text} \cup mfs' : Matches(t, NamesLog)
  BY ReparsedTexts DEF IInv
<1>2. Closure(ast'.text) \in Text /\ Matches(Closure(ast'.text), NamesLog)
  BY <1>1, ClosureKeepsNames, ClosureKeepsMatch DEF IInv
<1>3. QED
  BY <1>1, <1>2, ReparsedTexts DEF IInv, Reparsed, Runs

LEMMA ClosureDoesNotCompileKeepsInv ==
  ASSUME IInv, NEW n \in {3, 7}, ClosureDoesNotCompile(n)
  PROVE  IInv'
<1>1. Reparsed(n) /\ ~opt.IgnoreClangErrors /\ Return(FALSE) /\ UNCHANGED file
  BY DEF ClosureDoesNotCompile
<1>2. pass' = pass /\ result' = "failed" /\ UNCHANGED <<opt, source>>
  BY <1>1 DEF Return
<1>3. ClosureEnds(n)
  BY <1>1, <1>2, ReparsedFacts DEF ClosureEnds, IInv, TypeInv, LogInv
<1>4. QED
  BY <1>3, ClosureEndsKeepsInv

LEMMA SecondClosureFindsNothingKeepsInv ==
  ASSUME IInv, NEW n \in {3, 7}, SecondClosureFindsNothing(n)
  PROVE  IInv'
<1>1. Reparsed(n) /\ (Throw \/ Return(FALSE)) /\ (UNCHANGED file \/ (n = 7 /\ file' = {}))
  BY DEF SecondClosureFindsNothing, PrintedTo
<1>2. /\ UNCHANGED <<opt, source>>
      /\ \/ result' = "failed" /\ pass' = pass
         \/ /\ pass' = pass + 1 /\ opt.IgnoreClangErrors
            /\ result' = IF pass = 9 THEN "ok" ELSE "running"
  BY <1>1 DEF Throw, Return, Last
<1>3. ClosureEnds(n)
  BY <1>1, <1>2, ReparsedFacts DEF ClosureEnds, IInv, TypeInv, LogInv
<1>4. QED
  BY <1>3, ClosureEndsKeepsInv

LEMMA ClosurePassKeepsInv ==
  ASSUME IInv, NEW n \in {3, 7}, ClosurePass(n)
  PROVE  IInv'
<1>1. /\ Reparsed(n) /\ FuncExtractNames \subseteq Declared(ast'.text)
      /\ n = 3 => UNCHANGED file
      /\ n = 7 => Out' = "file" /\ file' = {Closure(ast'.text)}
  BY DEF ClosurePass, CanFind, PrintedTo
<1>2. /\ UNCHANGED <<opt, source>>
      /\ \/ result' = "failed" /\ pass' = pass
         \/ pass' = pass + 1 /\ result' = IF pass = 9 THEN "ok" ELSE "running"
  BY DEF ClosurePass, Return, Last
<1>3. ClosureEnds(n)
  BY <1>1, <1>2, ReparsedFacts DEF ClosureEnds, IInv, TypeInv, LogInv
<1>4. QED
  BY <1>3, ClosureEndsKeepsInv

-----------------------------------------------------------------------------
\* The names that the externalizer hands on: a prefix for each of the old ones.
LEMMA NewNamesFacts ==
  ASSUME TypeInv, FuncExtractNames \subseteq Plain(Symbols)
  PROVE  /\ NewNames \in SUBSET Names /\ NewNames # {}
<1>1. \A m \in FuncExtractNames : \E s \in Symbols : m = <<"", s>>
  BY DEF Plain
<1>2. CASE opt.RenameSymbols
  <2>1. NewNames = {<<"klpp_", s>> : s \in {x \in Symbols : <<"", x>> \in FuncExtractNames}}
    BY <1>2 DEF NewNames
  <2>2. NewNames \in SUBSET Names
    BY <2>1 DEF Names, Renamed
  <2>3. NewNames # {}
    <3>1. PICK s \in Symbols : <<"", s>> \in FuncExtractNames
      BY <1>1 DEF TypeInv
    <3>2. <<"klpp_", s>> \in NewNames
      BY <2>1, <3>1
    <3>3. QED
      BY <3>2
  <2>4. QED
    BY <2>2, <2>3
<1>3. CASE ~opt.RenameSymbols
  <2>1. NewNames = FuncExtractNames
    BY <1>3 DEF NewNames
  <2>2. QED
    BY <2>1 DEF TypeInv
<1>4. QED
  BY <1>2, <1>3

\* The log of the externalizer tells what it did to the text.
LEMMA LogFacts ==
  ASSUME TypeInv, NEW strong \in SUBSET Symbols
  PROVE  /\ Log(strong) \in SUBSET LogEntries
         /\ Logged(Log(strong), "STRONG") = strong
         /\ Logged(Log(strong), "RENAME") = ToRename
<1>1. ToRename \subseteq Symbols
  BY DEF ToRename, TypeInv, Text
<1>2. Log(strong) \in SUBSET LogEntries
  BY <1>1 DEF Log, LogEntries
<1>3. ASSUME NEW s PROVE s \in Logged(Log(strong), "STRONG") <=> s \in strong
  <2>1. s \in strong => [sym |-> s, type |-> "STRONG"] \in Log(strong)
    BY DEF Log
  <2>2. s \in strong => s \in Logged(Log(strong), "STRONG")
    BY <2>1 DEF Logged
  <2>3. QED
    BY <2>2 DEF Logged, Log
<1>4. ASSUME NEW s PROVE s \in Logged(Log(strong), "RENAME") <=> s \in ToRename
  <2>1. s \in ToRename => [sym |-> s, type |-> "RENAME"] \in Log(strong)
    BY DEF Log
  <2>2. s \in ToRename => s \in Logged(Log(strong), "RENAME")
    BY <2>1 DEF Logged
  <2>3. QED
    BY <2>2 DEF Logged, Log
<1>5. QED
  BY <1>2, <1>3, <1>4

LEMMA RewrittenFacts ==
  ASSUME TypeInv, NEW strong \in SUBSET Symbols, NEW gone \in SUBSET Symbols,
         ast.text.strong = {}, ast.text.renamed = {}
  PROVE  /\ Rewritten(strong, gone) \in Text
         /\ Rewritten(strong, gone).plain = ast.text.plain \ (gone \cup ToRename)
         /\ Rewritten(strong, gone).strong = strong
         /\ Rewritten(strong, gone).renamed = ToRename
<1>1. ToRename \subseteq Symbols
  BY DEF ToRename, TypeInv, Text
<1>2. QED
  BY <1>1 DEF Rewritten, TypeInv, Text

\* A function that is renamed in the list is renamed in the text; one that is
\* not keeps its declaration, as it is not externalized.
LEMMA ExternalizerKeepsFuncs ==
  ASSUME TypeInv, FuncExtractNames \subseteq Plain(Symbols),
         FuncExtractNames \subseteq Declared(ast.text), Extracted \cap Externalize = {},
         NEW gone \in SUBSET Externalize, NEW t,
         t.plain = ast.text.plain \ (gone \cup ToRename), t.renamed = ToRename
  PROVE  NewNames \subseteq Declared(t)
<1>1. ASSUME NEW s \in Symbols, <<"", s>> \in FuncExtractNames
      PROVE  s \in ast.text.plain /\ s \notin Externalize
  <2>1. <<"", s>> \in Plain(ast.text.plain)
    <3>1. <<"", s>> \in Declared(ast.text)
      BY <1>1
    <3>2. <<"", s>> \notin Renamed(ast.text.renamed) /\ <<"", s>> \notin Externalized(ast.text.strong)
      BY DEF Renamed, Externalized
    <3>3. QED
      BY <3>1, <3>2 DEF Declared
  <2>2. QED
    BY <1>1, <2>1 DEF Extracted, Plain
<1>2. CASE opt.RenameSymbols
  <2>1. ASSUME NEW s \in Symbols, <<"", s>> \in FuncExtractNames
        PROVE  <<"klpp_", s>> \in Declared(t)
    <3>1. s \in ToRename
      BY <1>1, <1>2, <2>1 DEF ToRename
    <3>2. QED
      BY <3>1 DEF Declared, Renamed
  <2>2. QED
    BY <1>2, <2>1 DEF NewNames
<1>3. CASE ~opt.RenameSymbols
  <2>1. ToRename = {}
    BY <1>3 DEF ToRename
  <2>2. ASSUME NEW s \in Symbols, <<"", s>> \in FuncExtractNames
        PROVE  <<"", s>> \in Declared(t)
    BY <1>1, <2>1, <2>2 DEF Declared, Plain
  <2>3. \A m \in FuncExtractNames : \E s \in Symbols : m = <<"", s>>
    BY DEF Plain
  <2>4. NewNames = FuncExtractNames
    BY <1>3 DEF NewNames
  <2>5. QED
    BY <2>2, <2>3, <2>4
<1>4. QED
  BY <1>2, <1>3

LEMMA FunctionExternalizerKeepsInv ==
  ASSUME IInv, FunctionExternalizerPass
  PROVE  IInv'
<1> USE DEF IInv
<1>1. /\ result = "running" /\ pass = 5
      /\ FuncExtractNames \subseteq Plain(Symbols) /\ NamesLog = {} /\ file = {}
  BY DEF FunctionExternalizerPass, Runs, EarlyInv
<1>2. ast.text.strong = {} /\ ast.text.renamed = {}
  BY <1>1 DEF LogInv, Matches, Logged
<1>3. PICK strong \in SUBSET (Externalize \cap ast.text.plain), gone \in SUBSET (Externalize \cap ast.text.plain) :
        /\ gone \subseteq strong
        /\ mfs' = {Rewritten(strong, gone)}
        /\ NamesLog' = Log(strong)
        /\ ast'.text = Rewritten(strong, gone)
        /\ FuncExtractNames' = NewNames
        /\ \E errors \in BOOLEAN : Return(~errors)
  <2>1. PICK strong \in SUBSET (Externalize \cap ast.text.plain) :
          \E gone \in SUBSET strong, errors \in BOOLEAN :
            /\ FuncExtractNames' = NewNames
            /\ mfs' = {Rewritten(strong, gone)}
            /\ NamesLog' = Log(strong)
            /\ ast' = [text |-> Rewritten(strong, gone), errors |-> errors]
            /\ Return(~errors)
    BY DEF FunctionExternalizerPass
  <2>2. PICK gone \in SUBSET strong, errors \in BOOLEAN :
            /\ FuncExtractNames' = NewNames
            /\ mfs' = {Rewritten(strong, gone)}
            /\ NamesLog' = Log(strong)
            /\ ast' = [text |-> Rewritten(strong, gone), errors |-> errors]
            /\ Return(~errors)
    BY <2>1
  <2>3. ast'.text = Rewritten(strong, gone)
    BY <2>2
  <2>4. gone \in SUBSET (Externalize \cap ast.text.plain) /\ gone \subseteq strong
    BY <2>1
  <2>5. QED
    BY <2>2, <2>3, <2>4
<1>4. /\ UNCHANGED <<opt, source, Externalize, file, tail>>
      /\ \/ result' = "failed" /\ pass' = 5
         \/ result' = "running" /\ pass' = 6
  BY <1>1, <1>3 DEF FunctionExternalizerPass, Return, Last
<1>5. strong \subseteq Symbols /\ gone \subseteq Symbols /\ gone \subseteq Externalize
  BY DEF TypeInv
<1>6. /\ ast'.text \in Text
      /\ ast'.text.plain = ast.text.plain \ (gone \cup ToRename)
      /\ ast'.text.renamed = ToRename
      /\ ast'.text.strong = strong
  BY <1>2, <1>3, <1>5, RewrittenFacts
<1>7. TypeInv'
  <2>1. mfs' \in SUBSET Text /\ file' \in SUBSET Text
    BY <1>1, <1>3, <1>4, <1>6
  <2>2. FuncExtractNames' \in SUBSET Names /\ FuncExtractNames' # {}
    BY <1>1, <1>3, NewNamesFacts
  <2>3. NamesLog' \in SUBSET LogEntries
    BY <1>3, <1>5, LogFacts
  <2>4. QED
    BY <1>4, <1>6, <2>1, <2>2, <2>3 DEF TypeInv
<1>8. EarlyInv'
  BY <1>1, <1>4 DEF EarlyInv
<1>9. LogInv'
  <2>1. Matches(ast'.text, NamesLog')
    BY <1>3, <1>5, <1>6, LogFacts DEF Matches
  <2>2. {ast.text}' \cup mfs' \cup file' = {ast'.text}
    BY <1>1, <1>3, <1>4
  <2>3. QED
    BY <2>1, <2>2 DEF LogInv, Matches, Logged
<1>10. OutputInv'
  BY <1>4 DEF OutputInv
<1>11. FuncsStayDeclared'
  <2> SUFFICES ASSUME ~opt.ExternalizationDisabled, ~opt.IgnoreClangErrors,
                      (Extracted \cap Externalize)' = {}
               PROVE  FuncExtractNames' \subseteq Declared(ast.text)'
    BY <1>4 DEF FuncsStayDeclared
  <2>1. Extracted \cap Externalize = {}
    <3>1. ASSUME NEW s \in Extracted PROVE s \in Extracted'
      <4>1. s \in Symbols /\ <<"", s>> \in FuncExtractNames
        BY <1>1 DEF Extracted, Plain
      <4>2. <<"", s>> \in NewNames \/ <<"klpp_", s>> \in NewNames
        BY <4>1 DEF NewNames
      <4>3. QED
        BY <1>3, <4>1, <4>2 DEF Extracted
    <3>2. QED
      BY <1>4, <3>1
  <2>2. FuncExtractNames \subseteq Declared(ast.text)
    BY <1>1, <2>1 DEF FuncsStayDeclared
  <2>3. NewNames \subseteq Declared(ast'.text)
    BY <1>1, <1>5, <1>6, <2>1, <2>2, ExternalizerKeepsFuncs
  <2>4. Declared(ast'.text) = Declared(ast.text)'
    BY <1>4 DEF Declared
  <2>5. QED
    BY <1>3, <2>3, <2>4
<1>12. QED
  BY <1>7, <1>8, <1>9, <1>10, <1>11

LEMMA FunctionExternalizerThrowsKeepsInv ==
  ASSUME IInv, FunctionExternalizerThrows
  PROVE  IInv'
<1> USE DEF IInv
<1>1. /\ result = "running" /\ pass = 5 /\ FuncExtractNames \subseteq Plain(Symbols)
      /\ result' = "failed" /\ FuncExtractNames' = NewNames
      /\ UNCHANGED <<opt, source, pass, ast, mfs, Externalize, NamesLog, file, tail>>
  BY DEF FunctionExternalizerThrows, Runs, EarlyInv, Throw
<1>2. TypeInv'
  BY <1>1, NewNamesFacts DEF TypeInv
<1>3. EarlyInv'
  BY <1>1 DEF EarlyInv
<1>4. LogInv'
  BY <1>1 DEF LogInv, Matches, Logged
<1>5. OutputInv' /\ FuncsStayDeclared'
  BY <1>1 DEF OutputInv, FuncsStayDeclared
<1>6. QED
  BY <1>2, <1>3, <1>4, <1>5

-----------------------------------------------------------------------------
\* What is behind the last closure only adds to the output.
LEMMA IbtTailKeepsInv ==
  ASSUME IInv, IbtTailGeneratePass
  PROVE  IInv'
<1> USE DEF IInv
<1>1. /\ result = "running" /\ pass = 8
      /\ UNCHANGED <<ast, mfs, FuncExtractNames, Externalize, NamesLog, file>>
  BY DEF IbtTailGeneratePass, Runs
<1>2. /\ UNCHANGED <<opt, source>>
      /\ \/ Out = "dead" /\ result' = "ub" /\ pass' = 8 /\ tail' = tail
         \/ pass' = 9 /\ result' = "running"
  BY <1>1 DEF IbtTailGeneratePass, Return, Last
<1>3. TypeInv'
  BY <1>1, <1>2 DEF TypeInv
<1>4. EarlyInv'
  BY <1>1, <1>2 DEF EarlyInv
<1>5. LogInv'
  BY <1>1 DEF LogInv, Matches, Logged
<1>6. OutputInv'
  BY <1>1, <1>2 DEF OutputInv
<1>7. FuncsStayDeclared'
  <2>1. UNCHANGED <<Extracted, Declared(ast.text), FuncExtractNames, Externalize, opt>>
    BY <1>1, <1>2 DEF Extracted, Declared
  <2>2. QED
    BY <1>1, <2>1 DEF FuncsStayDeclared
<1>8. QED
  BY <1>3, <1>4, <1>5, <1>6, <1>7

LEMMA HeaderGenerationKeepsInv ==
  ASSUME IInv, HeaderGenerationPass
  PROVE  IInv'
<1> USE DEF IInv
<1>1. /\ result = "running" /\ pass = 9
      /\ UNCHANGED <<ast, mfs, FuncExtractNames, Externalize, NamesLog, file, tail>>
  BY DEF HeaderGenerationPass, Runs
<1>2. UNCHANGED <<opt, source>> /\ pass' = 10 /\ result' = "ok"
  BY <1>1 DEF HeaderGenerationPass, Return, Last
<1>3. TypeInv'
  BY <1>1, <1>2 DEF TypeInv
<1>4. EarlyInv'
  BY <1>1, <1>2 DEF EarlyInv
<1>5. LogInv'
  BY <1>1 DEF LogInv, Matches, Logged
<1>6. OutputInv' /\ FuncsStayDeclared'
  BY <1>1, <1>2 DEF OutputInv, FuncsStayDeclared
<1>7. QED
  BY <1>3, <1>4, <1>5, <1>6

LEMMA IInvHolds == Spec => []IInv
<1>1. Init => IInv
  <2> SUFFICES ASSUME Init PROVE IInv
    OBVIOUS
  <2>1. source \in Text /\ source.strong = {} /\ source.renamed = {}
    <3>1. PICK S \in SUBSET Symbols, i \in BOOLEAN :
            source = [plain |-> S, renamed |-> {}, strong |-> {}, includes |-> i, closed |-> FALSE]
      BY DEF Init
    <3>2. QED
      BY <3>1 DEF Text
  <2>2. FuncExtractNames \in SUBSET Plain(Symbols) /\ FuncExtractNames # {}
    <3>1. opt.FunctionsToExtract \in (SUBSET Symbols) \ {{}}
      BY DEF Init, Options
    <3>2. opt.FunctionsToExtract # {} /\ opt.FunctionsToExtract \subseteq Symbols
      BY <3>1
    <3>3. PICK s : s \in opt.FunctionsToExtract
      BY <3>2
    <3>4. <<"", s>> \in FuncExtractNames
      BY <3>3 DEF Init, Plain
    <3>5. QED
      BY <3>2, <3>4 DEF Init, Plain
  <2>3. TypeInv
    BY <2>1, <2>2 DEF Init, TypeInv, Options, Names
  <2>4. EarlyInv
    BY <2>1, <2>2 DEF Init, EarlyInv
  <2>5. LogInv
    BY <2>1 DEF Init, LogInv, Matches, Logged
  <2>6. OutputInv /\ FuncsStayDeclared
    BY DEF Init, OutputInv, FuncsStayDeclared
  <2>7. QED
    BY <2>3, <2>4, <2>5, <2>6 DEF IInv
<1>2. IInv /\ [Next]_vars => IInv'
  <2> SUFFICES ASSUME IInv, [Next]_vars PROVE IInv'
    OBVIOUS
  <2>1. ASSUME NEW n \in {3, 7},
               \/ ClosureFindsNothing(n) \/ NoASTUnit(n) \/ ClosureDoesNotCompile(n)
               \/ SecondClosureFindsNothing(n) \/ ClosurePass(n)
        PROVE  IInv'
    BY <2>1, ClosureFindsNothingKeepsInv, NoASTUnitKeepsInv, ClosureDoesNotCompileKeepsInv,
       SecondClosureFindsNothingKeepsInv, ClosurePassKeepsInv
  <2>2. CASE UNCHANGED vars
    BY <2>2 DEF vars, IInv, TypeInv, EarlyInv, LogInv, OutputInv, FuncsStayDeclared,
                Matches, Logged, Extracted, Declared
  <2>3. QED
    BY <2>1, <2>2, SkipKeepsInv, BuildASTKeepsInv, InlinedSymbolsKeepInv, ExternalizeFinderKeepsInv,
       FunctionExternalizerKeepsInv, FunctionExternalizerThrowsKeepsInv, GenerateDscKeepsInv,
       IbtTailKeepsInv, HeaderGenerationKeepsInv DEF Next
<1>3. QED
  BY <1>1, <1>2, PTL DEF Spec

\* Whatever the program is and whatever the options are, the functions to
\* extract are declared in the current text under the name the list has for
\* them, from the first closure on.
THEOREM FuncsStayDeclaredHolds == Spec => []FuncsStayDeclared
<1>1. IInv => FuncsStayDeclared
  BY DEF IInv
<1>2. QED
  BY <1>1, IInvHolds, PTL

\* The log says what happened to the text that was written to the output file,
\* though that text went through the file system in memory, which keeps the
\* first file it is given, and through two more closures.
THEOREM LogMatchesOutputHolds == Spec => []LogMatchesOutput
<1>1. IInv => LogMatchesOutput
  BY DEF IInv, LogInv, LogMatchesOutput, Matches, Logged, StrongLogged
<1>2. QED
  BY <1>1, IInvHolds, PTL

\* Unless errors are ignored, nothing is written to a stream that is gone, and
\* a tail or a success has the code before it.
THEOREM TailFollowsCodeHolds == Spec => []TailFollowsCode
<1>1. IInv => TailFollowsCode
  BY DEF IInv, TypeInv, EarlyInv, OutputInv, TailFollowsCode
<1>2. QED
  BY <1>1, IInvHolds, PTL
===============================================================================
