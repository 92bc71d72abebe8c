----------------------------- MODULE CommandLine -----------------------------
(***************************************************************************)
(* From the command line to the arguments clang is run with: ArgvParser,   *)
(* the checks of main, the Context of the passes, and what BuildASTPass    *)
(* does to the -include options once the first AST is built.               *)
(*                                                                         *)
(* An argument is a record: its kind, its name, whether it has a "=", and  *)
(* the parts of its value that commas separate.  kind is                   *)
(*   "gcc"       in UnsupportedGCCArgs                                     *)
(*   "ce"        -DCE_name, -DCE_name=value                                *)
(*   "kernel", "ibt", "modname"   -D__KERNEL__, -D__USE_IBT__,             *)
(*               -DKBUILD_MODNAME=value                                    *)
(*   "help"      --help                                                    *)
(*   "clang"     anything else, the name being its text                    *)
(***************************************************************************)
EXTENDS ExpansionPolicy, FiniteSets

CONSTANTS
  CommandLines,   \* sequences of arguments, that of the program name first
  Path,           \* the path of each header that LookupFile finds
  Substrings      \* <<a, b>>: the module name a is a substring of the file name b

Clang(text) == [kind |-> "clang", name |-> text, eq |-> FALSE, value |-> <<>>]
Kinds == {"gcc", "ce", "kernel", "ibt", "modname", "help", "clang"}
Argument == [kind : Kinds, name : STRING, eq : BOOLEAN, value : Seq(STRING)]
MinusInclude == Clang("-include")

ASSUME CommandLinesOK ==
  \A c \in CommandLines :
    c \in Seq(Argument) /\ c # <<>> /\ c[1].kind = "clang" /\ c[1] # MinusInclude

VARIABLES
  argv,           \* the arguments
  i,              \* ArgvParser's loop: the next argument
  option,         \* the fields of ArgvParser that the -DCE_ options set
  ClangArgs,      \* ArgsToClang
  it,             \* Update_Clang_Args: the iterator, 1 being begin()
  status          \* "parse", "context", "update", "advance" (between a round of
                  \* the loop and its it++), "ready"; "exit0", "exit1", "failed"
                  \* (the run returns -1), "aborted"

clVars == <<argv, i, option, ClangArgs, it, status>>

-----------------------------------------------------------------------------
Flags ==
  [NO_EXTERNALIZATION |-> "DisableExternalization", DUMP_PASSES |-> "DumpPasses",
   KEEP_INCLUDES |-> "WithIncludes", RENAME_SYMBOLS |-> "RenameSymbols",
   LATE_EXTERNALIZE |-> "AllowLateExternalization",
   IGNORE_CLANG_ERRORS |-> "IgnoreClangErrors"]
Lists ==
  [EXTRACT_FUNCTIONS |-> "FunctionsToExtract", EXPORT_SYMBOLS |-> "SymbolsToExternalize",
   EXPAND_INCLUDES |-> "HeadersToExpand", NOT_EXPAND_INCLUDES |-> "HeadersToNotExpand",
   DEBUGINFO_PATH |-> "Debuginfos"]
Strings ==
  [KEEP_INCLUDES |-> "IncExpansionPolicy", IPACLONES_PATH |-> "IpaclonesPath",
   SYMVERS_PATH |-> "SymversPath", DSC_OUTPUT |-> "DescOutputPath",
   OUTPUT_FUNCTION_PROTOTYPE_HEADER |-> "OutputFunctionPrototypeHeader"]
FieldsOf(table) == {table[n] : n \in DOMAIN table}
SwitchFields == FieldsOf(Flags) \cup {"Kernel", "Ibt"}
SingleFields == {"OutputFile", "PatchObject"}

Defaults ==
  [f \in SwitchFields \cup FieldsOf(Lists) \cup FieldsOf(Strings) \cup SingleFields |->
     CASE f \in SwitchFields -> FALSE
       [] f \in FieldsOf(Lists) -> <<>>
       [] f \in FieldsOf(Strings) -> Null
       [] f \in SingleFields -> ""]

\* strtok() drops empty parts.
Extract_Args(a) == LET NonEmpty(part) == part # "" IN SelectSeq(a.value, NonEmpty)
Extract_Single_Arg(a) == Head(Extract_Args(a))
\* The text as it is.  One with a comma, or none, is the name of nothing.
Extract_Single_Arg_C(a) == IF Len(a.value) = 1 THEN a.value[1] ELSE "?"

Is_CE_Option(a) ==
  a.name \in IF a.eq THEN DOMAIN Lists \cup DOMAIN Strings \cup {"OUTPUT_FILE"}
             ELSE DOMAIN Flags

\* Extract_Single_Arg fails if there is nothing to take: std::string(nullptr).
TakesSingle(a) == a.kind = "modname" \/ (a.kind = "ce" /\ a.eq /\ a.name = "OUTPUT_FILE")

\* How an argument ends the program, or "parse".
Fate(a) ==
  IF a.kind = "help" THEN "exit0"
  ELSE IF a.kind = "ce" /\ ~Is_CE_Option(a) THEN "exit1"
  ELSE IF TakesSingle(a) /\ Extract_Args(a) = <<>> THEN "aborted" ELSE "parse"

ForClang(a) == a.kind \in {"clang", "kernel", "ibt", "modname"}

\* The fields after an argument.
Handle_Clang_Extract_Arg(o, a) ==
  CASE a.kind \in {"gcc", "clang"} -> o
    [] a.kind = "kernel" -> [o EXCEPT !.Kernel = TRUE]
    [] a.kind = "ibt" -> [o EXCEPT !.Ibt = TRUE]
    [] a.kind = "modname" -> [o EXCEPT !.PatchObject = Extract_Single_Arg(a)]
    [] a.kind = "ce" /\ ~a.eq -> [o EXCEPT ![Flags[a.name]] = TRUE]
    [] TakesSingle(a) /\ a.kind = "ce" -> [o EXCEPT !.OutputFile = Extract_Single_Arg(a)]
    [] a.kind = "ce" /\ a.eq /\ a.name \in DOMAIN Lists ->
         [o EXCEPT ![Lists[a.name]] = Extract_Args(a)]
    [] a.kind = "ce" /\ a.eq /\ a.name \in DOMAIN Strings ->
         [o EXCEPT ![Strings[a.name]] = Extract_Single_Arg_C(a),
                   !.WithIncludes = @ \/ a.name = "KEEP_INCLUDES"]

\* The options that clang-extract itself needs; the warnings are left out.
Insert_Required_Parameters == <<Clang("-Xclang"), Clang("-detailed-preprocessing-record")>>

\* A module that is not in the debuginfo of a kernel is built in.
PatchObjectOf(o) ==
  IF /\ o.Kernel /\ o.Debuginfos # <<>> /\ o.PatchObject # ""
     /\ <<o.PatchObject, o.Debuginfos[1]>> \notin Substrings
  THEN "vmlinux" ELSE o.PatchObject

-----------------------------------------------------------------------------
CLInit ==
  /\ argv \in CommandLines
  /\ i = 1 /\ it = 1
  /\ option = Defaults
  /\ ClangArgs = <<>>
  /\ status = "parse"

\* One argument of ArgvParser's loop.
ParseArg ==
  /\ status = "parse" /\ i <= Len(argv)
  /\ status' = Fate(argv[i])
  /\ IF status' = "parse"
     THEN /\ option' = Handle_Clang_Extract_Arg(option, argv[i])
          /\ ClangArgs' = IF ForClang(argv[i]) THEN Append(ClangArgs, argv[i]) ELSE ClangArgs
     ELSE UNCHANGED <<option, ClangArgs>>
  /\ i' = i + 1
  /\ UNCHANGED <<argv, it>>

\* The rest of the constructor, and main.
Parsed ==
  /\ status = "parse" /\ i > Len(argv)
  /\ ClangArgs' = ClangArgs \o Insert_Required_Parameters
  /\ option' = [option EXCEPT !.PatchObject = PatchObjectOf(option)]
  /\ status' = IF option.FunctionsToExtract = <<>> THEN "exit1" ELSE "context"
  /\ UNCHANGED <<argv, i, it>>

KeepIncludes == option.WithIncludes
IncExpansionPolicy == Get_Overriding(option.IncExpansionPolicy, option.Kernel)

\* Build_ASTUnit works, or throws.
Build_ASTUnit ==
  /\ status = "context"
  /\ status' \in {"failed",
                  IF ~KeepIncludes \/ Expand_Minus_Includes(IncExpansionPolicy)
                  THEN "update" ELSE "ready"}
  /\ UNCHANGED <<argv, i, option, ClangArgs, it>>

Found(h) == h \in DOMAIN Path
PolicyExpands(h) == Found(h) /\ Must_Expand(IncExpansionPolicy, Path[h])

Removes_Found(h) == ~KeepIncludes \/ Found(h)     \* mutant: the policy is not asked
Removes(h) == ~KeepIncludes \/ PolicyExpands(h)

\* erase() leaves the iterator at what followed the two arguments, in a vector of
\* pointers, and it-- comes twice: behind the program name it lands before begin().
Back_Not(at) == at                                \* mutant: the iterator is not moved back
Back(at) == at - 2

\* One round of the loop of Update_Clang_Args.
Update_Clang_Args ==
  /\ status = "update" /\ it <= Len(ClangArgs)
  /\ IF ClangArgs[it] = MinusInclude /\ Removes(ClangArgs[it + 1].name)
     THEN /\ ClangArgs' = SubSeq(ClangArgs, 1, it - 1)
                            \o SubSeq(ClangArgs, it + 2, Len(ClangArgs))
          /\ it' = Back(it)
     ELSE UNCHANGED <<ClangArgs, it>>
  /\ status' = "advance"
  /\ UNCHANGED <<argv, i, option>>

\* Its it++.
Advance ==
  /\ status = "advance"
  /\ it' = it + 1
  /\ status' = "update"
  /\ UNCHANGED <<argv, i, option, ClangArgs>>

UpdateDone ==
  /\ status = "update" /\ it > Len(ClangArgs)
  /\ status' = "ready"
  /\ UNCHANGED <<argv, i, option, ClangArgs, it>>

-----------------------------------------------------------------------------
(* Properties *)

\* What the first n elements of s have at the positions of K.
Chosen(s, K) ==
  LET chosen[n \in 0 .. Len(s)] ==
        IF n = 0 THEN <<>> ELSE IF n \in K THEN Append(chosen[n - 1], s[n]) ELSE chosen[n - 1]
  IN  chosen

\* What clang is meant to get, from the command line alone: what is neither
\* gcc's nor clang-extract's, without each -include that is to be expanded and its
\* header.
Given ==
  Chosen(argv, {k \in 1 .. Len(argv) : ForClang(argv[k])})[Len(argv)] \o Insert_Required_Parameters
RemovesAny == status = "ready" /\ (~KeepIncludes \/ Expand_Minus_Includes(IncExpansionPolicy))
ToExpand(args, k) == args[k] = MinusInclude /\ Removes(args[k + 1].name)
Stay(args) ==
  {k \in 1 .. Len(args) : ~ToExpand(args, k) /\ (k > 1 => ~ToExpand(args, k - 1))}
Meant == IF RemovesAny THEN Chosen(Given, Stay(Given))[Len(Given)] ELSE Given

\* The second AST is built with exactly these arguments, in their order: the
\* loop misses no -include next to one it removed, and nothing else is lost.
\* What a round reads is an argument.  Between the rounds the iterator may stand
\* one before begin(), but never further: C++ does not define even that, and the
\* it++ that follows makes it good.
ClangGetsTheRest ==
  /\ status = "update" => it \in 1 .. Len(ClangArgs) + 1
  /\ status = "advance" => it \in 0 .. Len(ClangArgs)
  /\ status = "ready" => ClangArgs = Meant

\* Build_Header_Tree on a header that the command line includes: it is expanded
\* if the policy or the user asks for it, or left as a directive if the user
\* denies what the policy asks for.
In(h, headers) == \E k \in 1 .. Len(headers) : headers[k] = h
InOutput(h) == In(h, option.HeadersToExpand) \/ PolicyExpands(h)
Included(h, args) ==
  \E k \in 1 .. Len(args) - 1 : args[k] = MinusInclude /\ args[k + 1] = Clang(h)

\* A header of an -include is read by the second parse, from the command line
\* or from the text that was printed; from one only, if the policy removes
\* -include's and the user did not ask for the header.
MinusIncludesAreProvided ==
  status = "ready" /\ KeepIncludes =>
    \A h \in DOMAIN Path : Included(h, argv) =>
      /\ Included(h, ClangArgs) \/ InOutput(h)
      /\ Expand_Minus_Includes(IncExpansionPolicy) /\ ~In(h, option.HeadersToExpand)
           => ~(Included(h, ClangArgs) /\ InOutput(h))
=============================================================================
