------------------------------- MODULE Startup -------------------------------
(***************************************************************************)
(* A run of clang-extract up to the first AST: the command line is parsed, *)
(* the constructor of the Context opens the debuginfo files one after the  *)
(* other (InlineAnalysis), and BuildASTPass builds the AST and settles the *)
(* arguments of every later parse.                                         *)
(***************************************************************************)
EXTENDS CommandLine, ElfObject

CONSTANT Disk            \* the file of each name of a debuginfo
ASSUME DiskOK == \A n \in DOMAIN Disk : Disk[n] \in Files

\* A name that is not there is that of no file.
FileOf(n) == IF n \in DOMAIN Disk THEN Disk[n] ELSE NoFile

VARIABLE opened          \* debuginfo files that were opened
vars == <<clVars, elfObjVars, opened>>

Init == CLInit /\ ElfInit /\ opened = 0

Parse == (ParseArg \/ Parsed) /\ UNCHANGED <<elfObjVars, opened>>

\* InlineAnalysis::InlineAnalysis
OpenNext ==
  /\ status = "context" /\ opened < Len(option.Debuginfos)
  /\ Open(FileOf(option.Debuginfos[opened + 1]))
  /\ opened' = opened + 1
  /\ UNCHANGED clVars
ReadObject == status = "context" /\ ElfNext /\ UNCHANGED <<clVars, opened>>

\* An exception ends the run: Run_Passes catches it.
OpenFailed ==
  /\ status = "context" /\ state = "failed"
  /\ status' = "failed"
  /\ UNCHANGED <<argv, i, option, ClangArgs, it, elfObjVars, opened>>

BuildAST ==
  /\ state \in {"none", "done"} /\ opened = Len(option.Debuginfos)
  /\ Build_ASTUnit \/ Update_Clang_Args \/ Advance \/ UpdateDone
  /\ UNCHANGED <<elfObjVars, opened>>

Next == Parse \/ OpenNext \/ ReadObject \/ OpenFailed \/ BuildAST
Spec == Init /\ [][Next]_vars
FairSpec == Spec /\ WF_vars(Next)     \* one thread

-----------------------------------------------------------------------------
\* Every run gets to the first pass or ends, whatever the command line and the
\* files: the loop over the arguments, which removes what it iterates over,
\* and the nested loops of the decompression come to an end.
Ended ==
  \/ status \in {"ready", "exit0", "exit1", "failed", "aborted"}
  \/ state = "overread"
Terminates == <>Ended
=============================================================================
