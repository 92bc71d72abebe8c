--------------------------- MODULE ExpansionPolicy ---------------------------
(***************************************************************************)
(* The policies of libcextract/ExpansionPolicy.cpp: which headers must be  *)
(* expanded, which must not be, and whether the headers that the command   *)
(* line includes are among them.                                           *)
(*                                                                         *)
(* An absolute path is the sequence of its directories and its file name;  *)
(* <<>> is the empty string, which tryGetRealPathName may return.          *)
(***************************************************************************)
EXTENDS Naturals, Sequences, SequencesExt

Null == "nullptr"
Policy == {"INVALID", "NOTHING", "EVERYTHING", "KERNEL", "SYSTEM", "COMPILER"}

\* The path has dir among its directories: find("/dir/") # npos.
HasDirectory(path, dir) == \E i \in 1 .. Len(path) - 1 : path[i] = dir
\* The path is that of a file below one of the directories: prefix().
IsBelow(path, dirs) == \E d \in dirs : IsStrictPrefix(d, path)

PublicDirectories == {"include", "arch"}
SystemDirectories ==
  {<<"usr", "include">>, <<"usr", "lib64">>, <<"usr", "lib">>, <<"usr", "local", "include">>}
CompilerDirectories ==
  {<<"usr", "lib64", "clang">>, <<"usr", "lib", "clang">>,
   <<"usr", "local", "lib64", "clang">>}

Must_Expand(policy, path) ==
  CASE policy = "EVERYTHING" -> TRUE
    [] policy = "KERNEL" -> \A d \in PublicDirectories : ~HasDirectory(path, d)
    [] policy = "SYSTEM" -> ~IsBelow(path, SystemDirectories)
    [] policy = "COMPILER" -> ~IsBelow(path, CompilerDirectories)
    [] policy = "NOTHING" -> FALSE

\* Only what the compiler brings along is never expanded.
Must_Not_Expand(policy, path) == policy = "COMPILER" /\ ~Must_Expand(policy, path)

Names ==
  [nothing |-> "NOTHING", everything |-> "EVERYTHING", kernel |-> "KERNEL",
   system |-> "SYSTEM", compiler |-> "COMPILER"]
\* A name that is not known is taken for "nothing".
Get_From_String(string) ==
  IF string = Null THEN "INVALID"
  ELSE IF string \in DOMAIN Names THEN Names[string] ELSE "NOTHING"

\* The policy when the command line names none depends on the kernel.
Get_Overriding(string, is_kernel) ==
  LET p == Get_From_String(string)
  IN  IF p # "INVALID" THEN p ELSE IF is_kernel THEN "KERNEL" ELSE "NOTHING"

\* Must headers passed through -include be expanded?
Expand_Minus_Includes(policy) == policy \notin {"NOTHING", "KERNEL"}
=============================================================================
