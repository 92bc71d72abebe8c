----------------------------- MODULE HeaderTree -----------------------------
(***************************************************************************)
(* IncludeTree::Build_Header_Tree of libcextract/IncludeTree.cpp: the tree *)
(* of #include's rebuilt from clang's preprocessing record.                *)
(*                                                                         *)
(* The record is a flat list.  An entry knows the file it is written in,   *)
(* not the inclusion of that file being processed, so the code keeps a     *)
(* stack of the nodes it created and rewinds it to the innermost one that  *)
(* stands for that file.                                                   *)
(*                                                                         *)
(* The preprocessor is external.  lex is its real chain of open files,     *)
(* inMain says that the command line's -include's are over, and origin     *)
(* remembers, for every node, the inclusion its directive really came from *)
(* and whether that was before the main file.                              *)
(***************************************************************************)
EXTENDS Naturals, Sequences

CONSTANTS
  Headers,        \* the files a directive may name
  Main,           \* the main file
  NoFile,         \* the null FileEntry of the command line
  NotExpandList,  \* -DCE_NOT_EXPAND_INCLUDES
  Verdicts,       \* what the expansion policy may answer for a directive
  Reach,          \* whether a directive may resolve from the main file
  MaxIncludes     \* bound on the number of directives of the record

ASSUME FilesDiffer == Main \notin Headers /\ NoFile \notin Headers /\ Main # NoFile
ASSUME ListsOK == NotExpandList \subseteq Headers
ASSUME InputsOK == Verdicts \subseteq {"expand", "keep", "deny"} /\ Reach \subseteq BOOLEAN
ASSUME BoundOK == MaxIncludes \in Nat

VARIABLES
  lex, inMain, origin, defined,   \* the preprocessor
  nodes,      \* IncludeNodes in creation order; 0 is Root, i is nodes[i]
  rootFile,   \* Root->File
  stack,      \* the local stack of Build_Header_Tree
  seenMain,   \* already_seen_main
  mustExpand, \* -DCE_EXPAND_INCLUDES and what the externalizer modified
  wanted,     \* must_expand_set, what is left of it
  guards,     \* IncludeNode::HeaderGuard: node -> inclusion that defined it
  status      \* "build", "built", "error" (throw) or "ub" (empty stack)

ppVars == <<lex, inMain, origin, defined>>
treeVars == <<nodes, rootFile, stack, seenMain, mustExpand, wanted, guards, status>>
vars == <<lex, inMain, origin, defined,
          nodes, rootFile, stack, seenMain, mustExpand, wanted, guards, status>>

Root == 0
IncludeNode == [file : Headers, parent : Nat, minus : BOOLEAN, expand : BOOLEAN,
                notOutput : BOOLEAN, notExpand : BOOLEAN]

Top(s) == s[Len(s)]
FileGiven(rf, n) == IF n = Root THEN rf ELSE nodes[n].file

\* The file the preprocessor is reading: what Get_FileEntry answers for the
\* next entry of the record.
ThisFile == IF Top(lex) # Root THEN nodes[Top(lex)].file
            ELSE IF inMain THEN Main ELSE NoFile

\* Popping st until its top stands for file f leaves its first i elements.
Rewinds_Never(st, rf, f, i) == i = Len(st)     \* mutant: no loop
Rewinds(st, rf, f, i) ==
  /\ i \in 1..Len(st)
  /\ FileGiven(rf, st[i]) = f
  /\ \A j \in 1..Len(st) : j > i => FileGiven(rf, st[j]) # f

-----------------------------------------------------------------------------
Init ==
  /\ lex = <<Root>> /\ inMain = FALSE /\ origin = <<>> /\ defined = {}
  /\ nodes = <<>> /\ rootFile = NoFile /\ stack = <<>> /\ seenMain = FALSE
  /\ mustExpand \in SUBSET Headers /\ wanted = mustExpand
  /\ guards = [n \in {} |-> Root]
  /\ status = "build"

(***************************************************************************)
(* The preprocessor leaves an included file, or starts on the main file.   *)
(***************************************************************************)
LeaveFile ==
  /\ status = "build" /\ Len(lex) > 1
  /\ lex' = SubSeq(lex, 1, Len(lex) - 1)
  /\ UNCHANGED <<inMain, origin, defined, treeVars>>

EnterMain ==
  /\ status = "build" /\ lex = <<Root>> /\ ~inMain
  /\ inMain' = TRUE
  /\ UNCHANGED <<lex, origin, defined, treeVars>>

(***************************************************************************)
(* An InclusionDirective of header f.  It is entered unless its guard lets *)
(* clang skip it; the record has it in both cases.  Until the main file    *)
(* shows up, a directive of the command line discards the stack, and the   *)
(* first one of the main file discards it for the last time.               *)
(***************************************************************************)
SeesMain == ~seenMain /\ ThisFile = Main
Base_CommandLine ==           \* mutant: the main file does not discard the stack
  IF ~seenMain /\ ThisFile = NoFile THEN <<Root>> ELSE stack
Base == IF ~seenMain /\ ThisFile \in {NoFile, Main} THEN <<Root>> ELSE stack
RootFileNow == IF SeesMain THEN Main ELSE rootFile
Denied(f, verdict) == f \in wanted /\ (verdict = "deny" \/ f \in NotExpandList)

NewNode(f, verdict, reach, parent) ==
  [file |-> f, parent |-> parent, minus |-> ~(seenMain \/ SeesMain),
   expand |-> f \in wanted \/ verdict = "expand", notOutput |-> ~reach,
   notExpand |-> f \in NotExpandList \/ verdict = "deny"]

Include(f, entered, verdict, reach) ==
  /\ status = "build" /\ Len(nodes) < MaxIncludes
  /\ ~Denied(f, verdict)
  /\ \E i \in 1..Len(Base) :
       /\ Rewinds(Base, RootFileNow, ThisFile, i)
       /\ nodes' = Append(nodes, NewNode(f, verdict, reach, Base[i]))
       /\ stack' = Append(SubSeq(Base, 1, i), Len(nodes) + 1)
  /\ seenMain' = (seenMain \/ SeesMain)
  /\ rootFile' = RootFileNow
  /\ wanted' = wanted \ {f}
  /\ origin' = Append(origin, [from |-> Top(lex), cmdline |-> ~inMain])
  /\ lex' = IF entered THEN Append(lex, Len(nodes) + 1) ELSE lex
  /\ UNCHANGED <<inMain, defined, mustExpand, guards, status>>

\* "denied by ExpansionPolicy" or "denied by -DCE_NOT_EXPAND_INCLUDES".
IncludeDenied(f, verdict) ==
  /\ status = "build" /\ Len(nodes) < MaxIncludes
  /\ Denied(f, verdict)
  /\ \E i \in 1..Len(Base) :
       /\ Rewinds(Base, RootFileNow, ThisFile, i)
       /\ stack' = SubSeq(Base, 1, i)
  /\ seenMain' = (seenMain \/ SeesMain)
  /\ rootFile' = RootFileNow
  /\ wanted' = wanted \ {f}
  /\ status' = "error"
  /\ UNCHANGED <<ppVars, nodes, mustExpand, guards>>

(***************************************************************************)
(* The definition of a macro that serves as a header guard.  The first one *)
(* of a node stays.  None is defined on the command line.  The stack may   *)
(* hold no node of the file: then top() is called on an empty stack.       *)
(***************************************************************************)
GuardDefinition ==
  /\ status = "build"
  /\ ThisFile # NoFile /\ Top(lex) \notin defined
  /\ \E i \in 1..Len(stack) :
       /\ Rewinds(stack, rootFile, ThisFile, i)
       /\ stack' = SubSeq(stack, 1, i)
       /\ guards' = IF stack[i] \in DOMAIN guards THEN guards
                    ELSE [n \in DOMAIN guards \cup {stack[i]} |->
                            IF n = stack[i] THEN Top(lex) ELSE guards[n]]
  /\ defined' = defined \cup {Top(lex)}
  /\ UNCHANGED <<lex, inMain, origin, nodes, rootFile, seenMain, mustExpand, wanted, status>>

GuardDefinitionUnderflow ==
  /\ status = "build"
  /\ ThisFile # NoFile /\ Top(lex) \notin defined
  /\ ~\E i \in 1..Len(stack) : Rewinds(stack, rootFile, ThisFile, i)
  /\ stack' = <<>>
  /\ defined' = defined \cup {Top(lex)}
  /\ status' = "ub"
  /\ UNCHANGED <<lex, inMain, origin, nodes, rootFile, seenMain, mustExpand, wanted, guards>>

\* End of the record: a Root that never saw an include gets its file now.
Finish ==
  /\ status = "build" /\ inMain /\ lex = <<Root>>
  /\ rootFile' = IF seenMain THEN rootFile ELSE Main
  /\ status' = "built"
  /\ UNCHANGED <<ppVars, nodes, stack, seenMain, mustExpand, wanted, guards>>

Next ==
  \/ LeaveFile
  \/ EnterMain
  \/ \E f \in Headers, entered \in BOOLEAN, verdict \in Verdicts, reach \in Reach :
       Include(f, entered, verdict, reach)
  \/ \E f \in Headers, verdict \in Verdicts : IncludeDenied(f, verdict)
  \/ GuardDefinition
  \/ GuardDefinitionUnderflow
  \/ Finish

Spec == Init /\ [][Next]_vars
-----------------------------------------------------------------------------
Inclusion == 0..Len(nodes)

\* Every variable has its type, a node's parent was created before it, and
\* must_expand_set only loses names.
TypeOK ==
  /\ lex \in Seq(Nat) /\ Len(lex) > 0 /\ lex[1] = Root
  /\ \A k \in 1..Len(lex) : lex[k] \in Inclusion
  /\ inMain \in BOOLEAN /\ seenMain \in BOOLEAN
  /\ nodes \in Seq(IncludeNode)
  /\ \A n \in 1..Len(nodes) : nodes[n].parent < n
  /\ origin \in Seq([from : Nat, cmdline : BOOLEAN]) /\ Len(origin) = Len(nodes)
  /\ \A n \in 1..Len(origin) : origin[n].from < n
  /\ defined \subseteq Inclusion
  /\ rootFile \in {NoFile, Main}
  /\ stack \in Seq(Nat) /\ \A k \in 1..Len(stack) : stack[k] \in Inclusion
  /\ mustExpand \subseteq Headers /\ wanted \subseteq mustExpand
  /\ DOMAIN guards \subseteq Inclusion
  /\ \A n \in DOMAIN guards : guards[n] \in Inclusion
  /\ status \in {"build", "built", "error", "ub"}

\* "Pop the stack until we find which HeaderNode we currently are": for an
\* #include the search always ends in the stack.  (For a header guard it may
\* not: GuardDefinitionUnderflow.)
IncludeFindsItsFile ==
  status = "build" =>
    \E i \in 1..Len(Base) : Rewinds(Base, RootFileNow, ThisFile, i)

\* The stack is a path of the tree from Root downwards, whatever mixture of
\* entered, skipped and command line includes the record has.
StackIsBranch ==
  /\ stack # <<>> => stack[1] = Root
  /\ \A k \in 1..Len(stack) : k > 1 => nodes[stack[k]].parent = stack[k - 1]

\* A node hangs below a node of the file its directive is written in; when it
\* is not the inclusion being read, it is a later copy of the same file.
ParentHasRightFile ==
  \A n \in 1..Len(nodes) :
    LET p == nodes[n].parent
        o == origin[n].from
    IN p # o => /\ o < p /\ o # Root
                /\ nodes[p].file = nodes[o].file

\* IsFromMinusInclude marks exactly what was read before the main file, though
\* the code only learns of the main file from its first #include.
MinusIncludeIsCommandLine ==
  \A n \in 1..Len(nodes) : nodes[n].minus <=> origin[n].cmdline

\* A header guard is registered for a node of the file that defines it.
GuardHasRightFile ==
  \A n \in DOMAIN guards :
    FileGiven(Main, n) = FileGiven(Main, guards[n])
=============================================================================
