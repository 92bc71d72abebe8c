----------------------------- MODULE IncludeTree -----------------------------
(***************************************************************************)
(* The IncludeTree constructor (libcextract/IncludeTree.cpp): the record   *)
(* is turned into a tree (HeaderTree), the sweeps decide what happens to   *)
(* every #include of it (IncludeAttrs), and Build_Header_Map records which *)
(* node answers for a file.  Afterwards the tree is only read.             *)
(***************************************************************************)
EXTENDS HeaderTree, SequencesExt

VARIABLES
  expand, output, cut, done, phase,   \* the sweeps; phase "idle" before them
  mapStack,    \* the local stack of Build_Header_Map
  fileMap      \* Map: file -> node

sweepVars == <<expand, output, cut, done, phase>>
mapVars == <<mapStack, fileMap>>
allVars == <<lex, inMain, origin, defined, nodes, rootFile, stack, seenMain, mustExpand,
             wanted, guards, status, expand, output, cut, done, phase, mapStack, fileMap>>

\* A flag of the tree: the #include's that have it, and whether Root does.
Flag(those, forRoot) == [n \in Inclusion |-> IF n = Root THEN forRoot ELSE n \in those]
Requested == {n \in 1..Len(nodes) : nodes[n].expand}
AskedFlag == Flag(Requested, TRUE)

Attrs == INSTANCE IncludeAttrs WITH
  MaxNodes <- MaxIncludes,
  parent <- [n \in 1..Len(nodes) |-> nodes[n].parent],
  minus <- [n \in 1..Len(nodes) |-> nodes[n].minus],
  notOutput <- Flag({n \in 1..Len(nodes) : nodes[n].notOutput}, FALSE),
  notExpand <- Flag({n \in 1..Len(nodes) : nodes[n].notExpand}, FALSE),
  asked <- AskedFlag

NoMap == [f \in {} |-> Root]

TreeInit ==
  /\ Init
  /\ expand = <<>> /\ output = <<>> /\ cut = <<>> /\ done = {} /\ phase = "idle"
  /\ mapStack = <<>> /\ fileMap = NoMap

Build ==
  /\ \/ LeaveFile
     \/ EnterMain
     \/ \E f \in Headers, entered \in BOOLEAN, verdict \in Verdicts, reach \in Reach :
          Include(f, entered, verdict, reach)
     \/ \E f \in Headers, verdict \in Verdicts : IncludeDenied(f, verdict)
     \/ GuardDefinition
     \/ GuardDefinitionUnderflow
  /\ UNCHANGED <<sweepVars, mapVars>>

StartSweeps ==
  /\ Finish
  /\ expand' = AskedFlag
  /\ output' = [n \in Inclusion |-> FALSE]
  /\ cut' = [n \in Inclusion |-> FALSE]
  /\ done' = {} /\ phase' = "expand"
  /\ UNCHANGED mapVars

Sweep ==
  /\ UNCHANGED <<ppVars, treeVars, fileMap>>
  /\ Attrs!Next
  /\ mapStack' = IF phase' = "ready" THEN <<Root>> ELSE mapStack

(***************************************************************************)
(* Build_Header_Map: pop a node, enter its file unless the map has it, and *)
(* push its children, last one first.                                      *)
(***************************************************************************)
ChildsOf(n) == {c \in 1..Len(nodes) : nodes[c].parent = n}
Listings(n) == {s \in SeqOf(ChildsOf(n), Len(nodes)) : Range(s) = ChildsOf(n)}
Pushed_InOrder(n) ==    \* mutant
  CHOOSE s \in Listings(n) : \A i, j \in 1..Len(s) : i < j => s[i] < s[j]
Pushed(n) == CHOOSE s \in Listings(n) : \A i, j \in 1..Len(s) : i < j => s[i] > s[j]

MapNode ==
  /\ mapStack # <<>>
  /\ LET n == Top(mapStack)
         f == FileGiven(rootFile, n)
     IN /\ fileMap' = IF f \in DOMAIN fileMap THEN fileMap
                      ELSE [g \in DOMAIN fileMap \cup {f} |->
                              IF g = f THEN n ELSE fileMap[g]]
        /\ mapStack' = SubSeq(mapStack, 1, Len(mapStack) - 1) \o Pushed(n)
  /\ UNCHANGED <<ppVars, treeVars, sweepVars>>

TreeNext == Build \/ StartSweeps \/ Sweep \/ MapNode
TreeSpec == TreeInit /\ [][TreeNext]_allVars

Constructed == phase = "ready" /\ mapStack = <<>>

-----------------------------------------------------------------------------
\* A header that was requested is expanded at the node that answers for its
\* file, if that node passes the test Commit_Changes_To_Source made before it
\* requested it: the lists a later pass gets from an earlier one are honoured.
RequestReachesMappedNode ==
  Constructed => \A f \in mustExpand \cap DOMAIN fileMap :
    Attrs!Can_Be_Expanded(fileMap[f]) => expand[fileMap[f]]

\* What is removed from the closure because its file is not expanded
\* (Analyze_Includes) is provided by an #include that is output, or by the
\* command line.
UnexpandedFileIsProvided ==
  Constructed => \A f \in DOMAIN fileMap :
    LET n == fileMap[f]
    IN ~expand[n] => \/ Attrs!Has_Parent_Marked_For_Output(n)
                     \/ nodes[n].minus
=============================================================================
