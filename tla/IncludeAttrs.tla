---------------------------- MODULE IncludeAttrs ----------------------------
(***************************************************************************)
(* The three sweeps of the IncludeTree constructor that decide, for every  *)
(* #include of a built tree, whether its contents are expanded into the    *)
(* output, the directive itself is output, or neither                      *)
(* (libcextract/IncludeTree.cpp).                                          *)
(*                                                                         *)
(*   "expand"  Set_Expansion_Attrs, post-order                             *)
(*   "output"  Set_Output_Attrs, pre-order                                 *)
(*   "cut"     Cut_Non_Expandable_Trees, pre-order                         *)
(*                                                                         *)
(* Each step visits one node.  A sweep may take the siblings in any order: *)
(* the code's recursion and its stack are two of these orders.             *)
(***************************************************************************)
EXTENDS Naturals

CONSTANT MaxNodes    \* bound on the number of #include's of a tree
ASSUME MaxNodesOK == MaxNodes \in Nat

VARIABLES
  parent,      \* Parent of the #include's 1..n; 0 is Root
  minus, notOutput, notExpand, asked,    \* flags as Build_Header_Tree left them
  expand, output,     \* ShouldBeExpanded, ShouldBeOutput
  cut,         \* the cut that Cut_Non_Expandable_Trees hands to the children
  done,        \* nodes this sweep has visited
  phase        \* "expand", "output", "cut", "ready", or "failed" (throw)

tree == <<parent, minus, notOutput, notExpand, asked>>
vars == <<parent, minus, notOutput, notExpand, asked, expand, output, cut, done, phase>>

Root == 0
Include == DOMAIN parent
Node == {Root} \cup Include
Childs_Forgotten(n) == {}     \* mutant: pre-order for post-order
Childs(n) == {c \in Include : parent[c] = n}
FromRoot(c) == minus[c] /\ parent[c] = Root     \* its own line is on the command line

-----------------------------------------------------------------------------
IsTree(p, n) == p \in [1..n -> 0..n] /\ \A i \in 1..n : p[i] < i

\* Root is neither asked for, nor denied, nor unreachable.  What a command line
\* header includes is read before the main file too.
FlagsOK ==
  /\ minus \in [Include -> BOOLEAN]
  /\ \A c \in Include : parent[c] # Root => minus[c] = minus[parent[c]]
  /\ notOutput \in [Node -> BOOLEAN] /\ ~notOutput[Root]
  /\ notExpand \in [Node -> BOOLEAN] /\ ~notExpand[Root]
  /\ asked \in [Node -> BOOLEAN] /\ asked[Root]

Start ==
  /\ expand = asked
  /\ output = [n \in Node |-> FALSE]
  /\ cut = [n \in Node |-> FALSE]
  /\ done = {}
  /\ phase = "expand"

Init ==
  /\ \E n \in 0..MaxNodes : /\ parent \in [1..n -> 0..n]
                            /\ IsTree(parent, n)
  /\ minus \in [Include -> BOOLEAN]
  /\ notOutput \in [Node -> BOOLEAN]
  /\ notExpand \in [Node -> BOOLEAN]
  /\ asked \in [Node -> BOOLEAN]
  /\ FlagsOK
  /\ Start

\* The sweep has visited n; after the last node the next sweep starts.
Visited(n, next) ==
  IF done \cup {n} = Node
  THEN done' = {} /\ phase' = next
  ELSE done' = done \cup {n} /\ phase' = phase

-----------------------------------------------------------------------------
(***************************************************************************)
(* Set_Expansion_Attrs: an expanded #include expands the one around it.    *)
(***************************************************************************)
ExpandUp(n) ==
  /\ phase = "expand" /\ n \notin done /\ Childs(n) \subseteq done
  /\ IF n # Root /\ expand[n]
     THEN /\ expand' = [expand EXCEPT ![parent[n]] = TRUE]
          /\ output' = [output EXCEPT ![parent[n]] = FALSE]
     ELSE UNCHANGED <<expand, output>>
  /\ Visited(n, "output")
  /\ UNCHANGED <<tree, cut>>

(***************************************************************************)
(* Set_Output_Attrs: below an expanded node, what is not expanded is       *)
(* output, or expanded after all when the main file can not reach it.      *)
(***************************************************************************)
NeedsAttr_NotMinus(n) ==      \* mutant: everything the command line reads is left out
  n # Root /\ expand[parent[n]] /\ ~expand[n] /\ ~minus[n]
NeedsAttr(n) == n # Root /\ expand[parent[n]] /\ ~expand[n] /\ ~FromRoot(n)

ExpandInstead(n) == NeedsAttr(n) /\ notOutput[n]

OutputDown(n) ==
  /\ phase = "output" /\ n \notin done /\ (n # Root => parent[n] \in done)
  /\ expand' = [expand EXCEPT ![n] = @ \/ ExpandInstead(n)]
  /\ output' = [output EXCEPT ![n] = @ \/ (NeedsAttr(n) /\ ~ExpandInstead(n))]
  /\ Visited(n, "cut")
  /\ UNCHANGED <<tree, cut>>

(***************************************************************************)
(* Cut_Non_Expandable_Trees: an #include that must not be expanded is      *)
(* output, whatever was decided before, and takes everything below it      *)
(* along.                                                                  *)
(***************************************************************************)
Cutting(n) == n # Root /\ cut[parent[n]]

StaysExpanded_BelowCut(n) == expand[n] /\ ~notExpand[n]   \* mutant: the cut stops here
StaysExpanded_Denied(n) == expand[n] /\ ~Cutting(n)       \* mutant: no reset
StaysExpanded(n) == expand[n] /\ ~Cutting(n) /\ ~notExpand[n]

IsOutput_Before(n) == ~Cutting(n) /\ output[n]            \* mutant: cut, but not output
IsOutput(n) == ~Cutting(n) /\ (output[n] \/ notExpand[n])

\* "... header is not reachable"
Unreachable_Unchecked(n) == FALSE                         \* mutant
Unreachable_BelowCut(n) == notExpand[n] /\ notOutput[n]   \* mutant: also where cut
Unreachable(n) == ~Cutting(n) /\ notExpand[n] /\ notOutput[n]

CutDown(n) ==
  /\ phase = "cut" /\ n \notin done /\ (n # Root => parent[n] \in done)
  /\ expand' = [expand EXCEPT ![n] = StaysExpanded(n)]
  /\ output' = [output EXCEPT ![n] = IsOutput(n)]
  /\ cut' = [cut EXCEPT ![n] = Cutting(n) \/ notExpand[n]]
  /\ IF Unreachable(n)
     THEN phase' = "failed" /\ UNCHANGED done
     ELSE Visited(n, "ready")
  /\ UNCHANGED tree

Next == \E n \in Node : ExpandUp(n) \/ OutputDown(n) \/ CutDown(n)
Spec == Init /\ [][Next]_vars

-----------------------------------------------------------------------------
(***************************************************************************)
(* What the rest of the program asks a finished tree.                      *)
(***************************************************************************)
AncestorsOrSelf[n \in Node] ==
  {n} \cup IF n = Root THEN {} ELSE AncestorsOrSelf[parent[n]]

Can_Be_Expanded(n) == \A a \in AncestorsOrSelf[n] : ~notExpand[a]
Has_Parent_Marked_For_Output(n) == \E a \in AncestorsOrSelf[n] : output[a]

Ready == phase = "ready"

\* Variables have their types; the flags as built never change.
TypeOK ==
  /\ \E n \in 0..MaxNodes : IsTree(parent, n)
  /\ FlagsOK
  /\ expand \in [Node -> BOOLEAN] /\ output \in [Node -> BOOLEAN]
  /\ cut \in [Node -> BOOLEAN]
  /\ done \subseteq Node
  /\ phase \in {"expand", "output", "cut", "ready", "failed"}

\* Get_Non_Expand_Includes asserts "Include can can not be expanded and
\* outputed at the same time!": it holds after every step of every sweep.
NeverBoth == \A n \in Node : ~(expand[n] /\ output[n])

\* The expanded nodes are a subtree with Root on top: a header whose text is
\* printed has the file around it printed too.
ExpandedIsSubtree ==
  Ready => expand[Root] /\ \A n \in Include : expand[n] => expand[parent[n]]

\* No header gets lost: one that is not expanded is on the command line, or
\* its directive or that of a file around it is output.
NothingLost ==
  Ready => \A n \in Node :
    \/ expand[n]
    \/ Has_Parent_Marked_For_Output(n)
    \/ \E a \in AncestorsOrSelf[n] : a # Root /\ FromRoot(a) /\ ~expand[a]

\* An #include that is output can be found from the main file.
OutputResolves == Ready => \A n \in Node : output[n] => ~notOutput[n]

\* What the user, the externalizer or the policy asked to expand is expanded
\* unless it lies in a header that must not be; Can_Be_Expanded is the test
\* Commit_Changes_To_Source relies on before it modifies a header.
RequestHonoured ==
  Ready => \A n \in Node :
    IF Can_Be_Expanded(n) THEN asked[n] => expand[n] ELSE ~expand[n]

(***************************************************************************)
(* The attributes as a function of the tree alone, from the comments at    *)
(* the top of the constructor.                                             *)
(***************************************************************************)
Asked(n) == \E d \in Node : asked[d] /\ n \in AncestorsOrSelf[d]
Expanded[n \in Node] ==
  \/ Asked(n)
  \/ n # Root /\ Expanded[parent[n]] /\ ~FromRoot(n) /\ notOutput[n]
Shown(n) == n # Root /\ Expanded[parent[n]] /\ ~Expanded[n] /\ ~FromRoot(n)
Below(n) == \E a \in AncestorsOrSelf[n] \ {n} : notExpand[a]

\* The result does not depend on the order in which siblings are visited: it
\* is the one the tree determines.
OrderIndependent ==
  Ready => \A n \in Node :
    /\ expand[n] <=> Expanded[n] /\ Can_Be_Expanded(n)
    /\ output[n] <=> ~Below(n) /\ (Shown(n) \/ notExpand[n])

\* The constructor throws only for a header that must not be expanded and can
\* not be output, and accepts no tree that has one outside a cut.
FailsOnlyWhenStuck ==
  LET stuck == {n \in Include : notExpand[n] /\ notOutput[n] /\ ~Below(n)}
  IN (phase = "failed" => stuck # {}) /\ (Ready => stuck = {})
=============================================================================
