------------------------- MODULE IncludeAttrs_proofs -------------------------
(***************************************************************************)
(* Proofs about the sweeps over the include tree, for trees of any size.   *)
(***************************************************************************)
EXTENDS IncludeAttrs, WellFoundedInduction, TLAPS

(***************************************************************************)
(* What each sweep has established for the nodes it has visited, and       *)
(* passes on to the next one.                                              *)
(***************************************************************************)
Tree == \E n \in 0..MaxNodes : IsTree(parent, n)

\* Set_Expansion_Attrs: visited nodes are closed under children, and have
\* handed their expansion on; nothing is output yet.
ExpandInv ==
  phase = "expand" =>
    /\ \A n \in Node : ~output[n]
    /\ \A n \in Include : parent[n] \in done => n \in done
    /\ \A n \in Include : n \in done /\ expand[n] => expand[parent[n]]

\* Set_Output_Attrs: the expanded nodes are a subtree throughout; what is not
\* visited is not output.
OutputInv ==
  phase = "output" =>
    /\ \A n \in Node : n \notin done => ~output[n]
    /\ \A n \in Include : expand[n] => expand[parent[n]]

\* Cut_Non_Expandable_Trees: visited nodes are closed under parents; where the
\* subtree is interrupted the cut is about to be passed down.
CutInv ==
  phase = "cut" =>
    /\ \A n \in Include : n \in done => parent[n] \in done
    /\ \A n \in Include : expand[n] =>
         expand[parent[n]] \/ (n \notin done /\ parent[n] \in done /\ cut[parent[n]])

ReadyInv ==
  phase = "ready" => \A n \in Include : expand[n] => expand[parent[n]]

OutputReachable == phase # "failed" => \A n \in Node : output[n] => ~notOutput[n]

IInv ==
  /\ TypeOK /\ NeverBoth
  /\ ExpandInv /\ OutputInv /\ CutInv /\ ReadyInv
  /\ expand[Root]
  /\ OutputReachable

-----------------------------------------------------------------------------
(***************************************************************************)
(* The tree.  AncestorsOrSelf and Expanded are recursive functions: that   *)
(* they satisfy their own equations has to be proved, and so has induction *)
(* along the tree.                                                         *)
(***************************************************************************)
\* Parents are older than their children.
LEMMA ParentIsOlder ==
  ASSUME Tree
  PROVE  /\ Node \subseteq Nat /\ Root \in Node
         /\ \A n \in Include : /\ parent[n] \in Node /\ parent[n] < n
                               /\ n \in Node /\ n # Root
<1>1. PICK n \in 0..MaxNodes : IsTree(parent, n)
  BY DEF Tree
<1>2. \A i \in 1..n : parent[i] \in 0..n /\ parent[i] < i
  BY <1>1 DEF IsTree
<1>3. n \in Nat /\ Include = 1..n
  BY <1>1, MaxNodesOK DEF IsTree, Include
<1>4. \A i \in 1..n : parent[i] = 0 \/ parent[i] \in 1..n
  BY <1>2, <1>3
<1>5. QED
  BY <1>2, <1>3, <1>4 DEF Node, Root

LEMMA Oldest ==
  ASSUME NEW S \in SUBSET Nat, S # {}
  PROVE  \E x \in S : \A y \in S : x <= y
<1> DEFINE Less == OpToRel(<, Nat)
<1>1. \A x, y \in Nat : y < x => <<y, x>> \in Less
  BY DEF OpToRel
<1>2. IsWellFoundedOn(Less, Nat)
  BY NatLessThanWellFounded
<1> HIDE DEF Less
<1>3. PICK x \in S : \A y \in S : ~ (<<y, x>> \in Less)
  BY <1>2, WFMin
<1>4. \A y \in S : x <= y
  <2> SUFFICES ASSUME NEW y \in S PROVE x <= y
    OBVIOUS
  <2>1. x \in Nat /\ y \in Nat /\ ~(y < x)
    BY <1>1, <1>3
  <2>2. QED
    BY <2>1
<1>5. QED
  BY <1>4

\* Induction from Root downwards: take the oldest node that is left out.
LEMMA TreeInduction ==
  ASSUME Tree, NEW S, Root \in S, \A n \in Include : parent[n] \in S => n \in S
  PROVE  Node \subseteq S
<1> SUFFICES ASSUME Node \ S # {} PROVE FALSE
  OBVIOUS
<1>1. Node \ S \in SUBSET Nat
  BY ParentIsOlder
<1>2. PICK n \in Node \ S : \A m \in Node \ S : n <= m
  BY <1>1, Oldest
<1>3. n \in Include
  BY <1>2 DEF Node
<1>4. parent[n] \in Node \ S /\ parent[n] < n /\ parent[n] \in Nat /\ n \in Nat
  BY <1>2, <1>3, ParentIsOlder
<1>5. QED
  BY <1>2, <1>4

\* A function on the nodes may be given by its value at Root and a step from the
\* parent's value to the node's.
StepsIn(step, T) == \A n \in Include, x \in T : step[n][x] \in T
GivenBy(f, T, b, step) ==
  f \in [Node -> T] /\ f[Root] = b /\ \A n \in Include : f[n] = step[n][f[parent[n]]]

LEMMA TreeRecursion ==
  ASSUME Tree, NEW T, NEW b \in T, NEW step, StepsIn(step, T)
  PROVE  \E f : GivenBy(f, T, b, step)
<1>1. PICK N \in 0..MaxNodes : IsTree(parent, N)
  BY DEF Tree
<1>2. N \in Nat /\ Include = 1..N /\ Node = 0..N
  BY <1>1, MaxNodesOK DEF IsTree, Include, Node, Root
<1>3. \A i \in 1..N : parent[i] \in Nat /\ parent[i] < i
  BY <1>1 DEF IsTree
<1> DEFINE Partial(m, f) == /\ f \in [0..m -> T] /\ f[0] = b
                            /\ \A n \in 1..m : f[n] = step[n][f[parent[n]]]
           Bad == {m \in 0..N : ~\E f : Partial(m, f)}
<1>4. Bad = {}
  <2> SUFFICES ASSUME Bad # {} PROVE FALSE
    OBVIOUS
  <2>0. Bad \in SUBSET Nat
    BY <1>2
  <2>1. PICK m \in Bad : \A k \in Bad : m <= k
    <3> HIDE DEF Bad
    <3>1. QED
      BY <2>0, Oldest
  <2>2. m # 0
    <3>1. Partial(0, [x \in 0..0 |-> b])
      BY <1>2
    <3>2. QED
      BY <3>1
  <2>3. m \in Nat /\ m \in 1..N /\ m - 1 \in 0..N /\ m - 1 \in Nat /\ ~(m <= m - 1)
    BY <2>1, <2>2, <1>2
  <2>4. PICK f : Partial(m - 1, f)
    BY <2>1, <2>3
  <2> DEFINE g == [x \in 0..m |-> IF x = m THEN step[m][f[parent[m]]] ELSE f[x]]
  <2>5. parent[m] \in 0..(m - 1)
    BY <2>3, <1>3
  <2>6. f[parent[m]] \in T
    BY <2>4, <2>5
  <2>7. step[m][f[parent[m]]] \in T
    BY <2>3, <2>6, <1>2 DEF StepsIn
  <2>8. g \in [0..m -> T] /\ g[0] = b
    BY <2>2, <2>3, <2>4, <2>7
  <2>9. ASSUME NEW n \in 1..m PROVE g[n] = step[n][g[parent[n]]]
    <3>1. parent[n] \in 0..m /\ parent[n] # m
      BY <2>3, <1>3
    <3>2. g[parent[n]] = f[parent[n]]
      BY <3>1
    <3>3. CASE n = m
      <4>1. g[n] = step[n][f[parent[n]]]
        BY <3>3, <2>3
      <4>2. QED
        BY <3>2, <4>1
    <3>4. CASE n # m
      <4>1. n \in 1..(m - 1)
        BY <3>4, <2>3
      <4>2. QED
        BY <4>1, <3>2, <3>4, <2>4
    <3>5. QED
      BY <3>3, <3>4
  <2>10. Partial(m, g)
    BY <2>8, <2>9
  <2> HIDE DEF Partial
  <2>11. QED
    BY <2>1, <2>10
<1>5. \E f : Partial(N, f)
  <2>1. N \in 0..N
    BY <1>2
  <2>2. QED
    BY <1>4, <2>1
<1>6. QED
  BY <1>2, <1>5 DEF Root, GivenBy

\* The files a header is in, up to the main file.
LEMMA AncestorsEq ==
  Tree => /\ AncestorsOrSelf \in [Node -> SUBSET Node]
          /\ AncestorsOrSelf[Root] = {Root}
          /\ \A n \in Include : AncestorsOrSelf[n] = {n} \cup AncestorsOrSelf[parent[n]]
<1> SUFFICES ASSUME Tree
             PROVE  /\ AncestorsOrSelf \in [Node -> SUBSET Node]
                    /\ AncestorsOrSelf[Root] = {Root}
                    /\ \A n \in Include :
                         AncestorsOrSelf[n] = {n} \cup AncestorsOrSelf[parent[n]]
  OBVIOUS
<1> DEFINE T == SUBSET Node
           step == [n \in Node |-> [A \in T |-> {n} \cup A]]
           Is(f) == f = [n \in Node |-> {n} \cup IF n = Root THEN {} ELSE f[parent[n]]]
<1>1. {Root} \in T /\ \A n \in Include, A \in T : step[n][A] = {n} \cup A /\ step[n][A] \in T
  BY ParentIsOlder
<1> HIDE DEF step, T
<1>2. PICK f : GivenBy(f, T, {Root}, step)
  BY <1>1, TreeRecursion DEF StepsIn
<1>3. f \in [Node -> T] /\ f[Root] = {Root} /\ \A n \in Include : f[n] = {n} \cup f[parent[n]]
  BY <1>1, <1>2, ParentIsOlder DEF GivenBy
<1>4. \A n \in Node : f[n] = {n} \cup IF n = Root THEN {} ELSE f[parent[n]]
  BY <1>3 DEF Node
<1>5. Is(f)
  BY <1>3, <1>4
<1>6. Is(AncestorsOrSelf)
  BY <1>5 DEF AncestorsOrSelf
<1>7. DOMAIN AncestorsOrSelf = Node
  BY <1>6
<1>8. \A n \in Node : AncestorsOrSelf[n] = {n} \cup IF n = Root THEN {} ELSE AncestorsOrSelf[parent[n]]
  BY <1>6
<1>9. QED
  <2> DEFINE S == {n \in Node : AncestorsOrSelf[n] \in SUBSET Node}
  <2>1. Node \subseteq S
    <3>1. Root \in S /\ \A n \in Include : parent[n] \in S => n \in S
      BY <1>8, ParentIsOlder
    <3> HIDE DEF S
    <3>2. QED
      BY <3>1, TreeInduction
  <2>2. AncestorsOrSelf \in [Node -> SUBSET Node]
    BY <1>6, <1>7, <2>1
  <2>3. QED
    BY <2>2, <1>8, ParentIsOlder

\* A file's ancestors are its own line of descent: none is younger than it, and
\* each but itself has a child on the line.
LEMMA AncestorFacts ==
  ASSUME Tree
  PROVE  /\ \A n \in Node : n \in AncestorsOrSelf[n] /\ AncestorsOrSelf[n] \subseteq Node
         /\ \A n \in Node : \A a \in AncestorsOrSelf[n] : a <= n
         /\ \A n \in Node : \A a \in AncestorsOrSelf[n] :
              a # Root => parent[a] \in AncestorsOrSelf[n]
         /\ \A n \in Node : \A a \in AncestorsOrSelf[n] :
              a # n => \E c \in Childs(a) : c \in AncestorsOrSelf[n]
<1>1. /\ AncestorsOrSelf \in [Node -> SUBSET Node]
      /\ AncestorsOrSelf[Root] = {Root}
      /\ \A n \in Include : AncestorsOrSelf[n] = {n} \cup AncestorsOrSelf[parent[n]]
  BY AncestorsEq
<1>2. \A n \in Node : n \in AncestorsOrSelf[n] /\ AncestorsOrSelf[n] \subseteq Node
  BY <1>1 DEF Node
<1>3. \A n \in Node : \A a \in AncestorsOrSelf[n] : a <= n
  <2> DEFINE S == {n \in Node : \A a \in AncestorsOrSelf[n] : a <= n}
  <2>1. Root \in S
    BY <1>1, ParentIsOlder
  <2>2. ASSUME NEW n \in Include, parent[n] \in S PROVE n \in S
    <3> SUFFICES ASSUME NEW a \in AncestorsOrSelf[n] PROVE a <= n
      BY ParentIsOlder
    <3>1. a = n \/ a <= parent[n]
      BY <2>2, <1>1
    <3>2. a \in Nat /\ n \in Nat /\ parent[n] \in Nat /\ parent[n] < n
      BY <2>2, <1>2, ParentIsOlder
    <3>3. QED
      BY <3>1, <3>2
  <2> HIDE DEF S
  <2>3. Node \subseteq S
    BY <2>1, <2>2, TreeInduction
  <2>4. QED
    BY <2>3 DEF S
<1>4. \A n \in Node : \A a \in AncestorsOrSelf[n] : a # Root => parent[a] \in AncestorsOrSelf[n]
  <2> DEFINE S == {n \in Node : \A a \in AncestorsOrSelf[n] :
                                   a # Root => parent[a] \in AncestorsOrSelf[n]}
  <2>1. Root \in S
    BY <1>1, ParentIsOlder
  <2>2. ASSUME NEW n \in Include, parent[n] \in S PROVE n \in S
    BY <2>2, <1>1, <1>2, ParentIsOlder
  <2> HIDE DEF S
  <2>3. Node \subseteq S
    BY <2>1, <2>2, TreeInduction
  <2>4. QED
    BY <2>3 DEF S
<1>5. \A n \in Node : \A a \in AncestorsOrSelf[n] :
        a # n => \E c \in Childs(a) : c \in AncestorsOrSelf[n]
  <2> DEFINE S == {n \in Node : \A a \in AncestorsOrSelf[n] :
                                   a # n => \E c \in Childs(a) : c \in AncestorsOrSelf[n]}
  <2>1. Root \in S
    BY <1>1, ParentIsOlder
  <2>2. ASSUME NEW n \in Include, parent[n] \in S PROVE n \in S
    <3> SUFFICES ASSUME NEW a \in AncestorsOrSelf[n], a # n
                 PROVE  \E c \in Childs(a) : c \in AncestorsOrSelf[n]
      BY ParentIsOlder
    <3>1. a \in AncestorsOrSelf[parent[n]] /\ n \in AncestorsOrSelf[n]
          /\ AncestorsOrSelf[parent[n]] \subseteq AncestorsOrSelf[n]
      BY <1>1
    <3>2. CASE a = parent[n]
      BY <3>1, <3>2 DEF Childs
    <3>3. CASE a # parent[n]
      BY <2>2, <3>1, <3>3
    <3>4. QED
      BY <3>2, <3>3
  <2> HIDE DEF S
  <2>3. Node \subseteq S
    BY <2>1, <2>2, TreeInduction
  <2>4. QED
    BY <2>3 DEF S
<1>6. QED
  BY <1>2, <1>3, <1>4, <1>5

\* A header is to be expanded if it was asked for, or one that it includes is.
LEMMA AskedFacts ==
  ASSUME Tree, FlagsOK
  PROVE  /\ \A n \in Node : asked[n] => Asked(n)
         /\ \A n \in Include : Asked(n) => Asked(parent[n])
         /\ \A n \in Node : Asked(n) => asked[n] \/ \E c \in Childs(n) : Asked(c)
<1>1. \A n \in Node : asked[n] => Asked(n)
  BY AncestorFacts DEF Asked
<1>2. \A n \in Include : Asked(n) => Asked(parent[n])
  BY AncestorFacts, ParentIsOlder DEF Asked
<1>3. \A n \in Node : Asked(n) => asked[n] \/ \E c \in Childs(n) : Asked(c)
  BY AncestorFacts DEF Asked
<1>4. QED
  BY <1>1, <1>2, <1>3

\* What the comments of the constructor say of the expansion determines it.
LEMMA ExpandedEq ==
  ASSUME Tree, FlagsOK
  PROVE  \A n \in Node :
           Expanded[n] <=> Asked(n) \/ (n # Root /\ Expanded[parent[n]] /\ ~FromRoot(n) /\ notOutput[n])
<1> DEFINE T == BOOLEAN
           step == [n \in Node |-> [x \in T |-> Asked(n) \/ (x /\ ~FromRoot(n) /\ notOutput[n])]]
           Is(f) == f = [n \in Node |->
                           Asked(n) \/ (n # Root /\ f[parent[n]] /\ ~FromRoot(n) /\ notOutput[n])]
<1>1. Asked(Root) \in T /\ \A n \in Include, x \in T :
           step[n][x] = (Asked(n) \/ (x /\ ~FromRoot(n) /\ notOutput[n])) /\ step[n][x] \in T
  BY ParentIsOlder DEF Asked
<1> HIDE DEF step, T
<1>2. PICK f : GivenBy(f, T, Asked(Root), step)
  BY <1>1, TreeRecursion DEF StepsIn
<1>3. /\ f \in [Node -> T] /\ f[Root] = Asked(Root)
      /\ \A n \in Include : f[n] = (Asked(n) \/ (f[parent[n]] /\ ~FromRoot(n) /\ notOutput[n]))
  BY <1>1, <1>2, ParentIsOlder DEF GivenBy
<1>4. \A n \in Node : f[n] = (Asked(n) \/ (n # Root /\ f[parent[n]] /\ ~FromRoot(n) /\ notOutput[n]))
  <2> SUFFICES ASSUME NEW n \in Node
               PROVE  f[n] = (Asked(n) \/ (n # Root /\ f[parent[n]] /\ ~FromRoot(n) /\ notOutput[n]))
    OBVIOUS
  <2>1. CASE n = Root
    <3>1. (n # Root /\ f[parent[n]] /\ ~FromRoot(n) /\ notOutput[n]) = FALSE
      BY <2>1
    <3>2. f[n] = Asked(n) /\ Asked(n) \in BOOLEAN
      BY <1>3, <2>1 DEF Asked
    <3>3. QED
      BY <3>1, <3>2
  <2>2. CASE n # Root
    BY <1>3, <2>2 DEF Node
  <2>3. QED
    BY <2>1, <2>2
<1>5. Is(f)
  BY <1>3, <1>4
<1>6. Is(Expanded)
  BY <1>5 DEF Expanded
<1>7. QED
  BY <1>6

LEMMA ParentIsNode ==
  ASSUME Tree
  PROVE  \A n \in Include : parent[n] \in Node /\ parent[n] # n /\ n # Root
<1> SUFFICES ASSUME NEW n \in Include PROVE parent[n] \in Node /\ parent[n] # n /\ n # Root
  OBVIOUS
<1>1. n \in Nat /\ parent[n] \in Nat /\ parent[n] < n /\ parent[n] \in Node /\ n # Root
  BY ParentIsOlder
<1>2. QED
  BY <1>1

-----------------------------------------------------------------------------
\* A step keeps the tree: Node and everything read off it stay the same.
LEMMA SameTree ==
  ASSUME UNCHANGED tree
  PROVE  /\ Node' = Node /\ Include' = Include
         /\ Tree' <=> Tree
         /\ FlagsOK' <=> FlagsOK
  BY DEF tree, Node, Include, Tree, FlagsOK, IsTree

\* So do the recursive functions over the tree.
LEMMA SameAncestors ==
  ASSUME UNCHANGED tree
  PROVE  /\ AncestorsOrSelf' = AncestorsOrSelf /\ Expanded' = Expanded
<1>1. AncestorsOrSelf' = AncestorsOrSelf
  BY DEF tree, Node, Include, AncestorsOrSelf
<1>2. Expanded' = Expanded
  BY <1>1 DEF tree, Node, Include, Expanded, Asked, FromRoot
<1>3. QED
  BY <1>1, <1>2

LEMMA InitIInv == Init => IInv
<1> SUFFICES ASSUME Init PROVE IInv
  OBVIOUS
<1>1. Tree
  BY DEF Init, Tree
<1>2. Root \in Node
  BY DEF Node
<1>3. /\ expand \in [Node -> BOOLEAN] /\ output \in [Node -> BOOLEAN]
      /\ cut \in [Node -> BOOLEAN] /\ done = {} /\ phase = "expand"
      /\ \A n \in Node : output[n] = FALSE
      /\ expand[Root]
  BY <1>2 DEF Init, Start, FlagsOK
<1>4. TypeOK
  BY <1>1, <1>3 DEF Init, TypeOK, Tree
<1>5. NeverBoth /\ ExpandInv /\ OutputInv /\ CutInv /\ ReadyInv /\ OutputReachable
  BY <1>3 DEF NeverBoth, ExpandInv, OutputInv, CutInv, ReadyInv, OutputReachable
<1>6. QED
  BY <1>3, <1>4, <1>5 DEF IInv

-----------------------------------------------------------------------------
LEMMA ExpandUpIInv ==
  ASSUME IInv, NEW n \in Node, ExpandUp(n)
  PROVE  IInv'
<1>1. Tree /\ Root \in Node
  BY DEF IInv, TypeOK, Tree, Node
<1>2. Node' = Node /\ Include' = Include /\ Tree' /\ (FlagsOK' <=> FlagsOK)
  BY <1>1, SameTree DEF ExpandUp
<1>3. \A m \in Include : parent[m] \in Node /\ parent[m] # m /\ m # Root
  BY <1>1, ParentIsNode
<1>4. /\ parent' = parent /\ cut' = cut /\ notOutput' = notOutput
      /\ phase = "expand" /\ n \notin done /\ Childs(n) \subseteq done
  BY DEF ExpandUp, tree
<1>5. n \in Include => parent[n] \in Node
  BY <1>3
<1>6. n # Root => n \in Include
  BY DEF Node
<1>7. \A m \in Node : ~output'[m]
  BY <1>4, <1>5, <1>6 DEF IInv, TypeOK, ExpandInv, ExpandUp
<1>8. /\ \A m \in Node : expand[m] => expand'[m]
      /\ \A m \in Node : m \in done => expand'[m] = expand[m]
      /\ n # Root /\ expand[n] => expand'[parent[n]]
      /\ expand'[n] = expand[n]
  <2>1. CASE n # Root /\ expand[n]
    <3>1. expand' = [expand EXCEPT ![parent[n]] = TRUE]
      BY <2>1 DEF ExpandUp
    <3>2. n \in Include /\ parent[n] \in Node /\ parent[n] # n
      BY <2>1, <1>3, <1>6
    <3>3. parent[n] \notin done
      BY <3>2, <1>4 DEF IInv, ExpandInv
    <3>4. expand \in [Node -> BOOLEAN]
      BY DEF IInv, TypeOK
    <3>5. QED
      BY <3>1, <3>2, <3>3, <3>4
  <2>2. CASE ~(n # Root /\ expand[n])
    BY <2>2 DEF ExpandUp
  <2>3. QED
    BY <2>1, <2>2
<1>9. \A m \in Include : m \in done \cup {n} /\ expand'[m] => expand'[parent[m]]
  <2> SUFFICES ASSUME NEW m \in Include, m \in done \cup {n}, expand'[m]
               PROVE  expand'[parent[m]]
    OBVIOUS
  <2>1. m \in Node /\ m # Root
    BY <1>3 DEF Node
  <2>2. CASE m = n
    BY <2>1, <2>2, <1>8
  <2>3. CASE m \in done
    BY <2>1, <2>3, <1>3, <1>4, <1>8 DEF IInv, ExpandInv
  <2>4. QED
    BY <2>2, <2>3
<1>10. \A m \in Include : parent[m] \in done \cup {n} => m \in done \cup {n}
  BY <1>4 DEF IInv, ExpandInv, Childs
<1>11. TypeOK'
  <2>1. expand' \in [Node -> BOOLEAN] /\ output' \in [Node -> BOOLEAN] /\ cut' \in [Node -> BOOLEAN]
    BY <1>4 DEF IInv, TypeOK, ExpandUp
  <2>2. done' \subseteq Node /\ phase' \in {"expand", "output"}
    BY <1>4 DEF IInv, TypeOK, ExpandUp, Visited
  <2>3. QED
    BY <1>2, <2>1, <2>2 DEF IInv, TypeOK, Tree
<1>12. NeverBoth' /\ OutputReachable'
  BY <1>2, <1>7 DEF NeverBoth, OutputReachable
<1>13. expand'[Root]
  BY <1>1, <1>8 DEF IInv
<1>14. CASE done \cup {n} = Node
  <2>1. done' = {} /\ phase' = "output"
    BY <1>14 DEF ExpandUp, Visited
  <2>2. \A m \in Include : expand'[m] => expand'[parent[m]]
    BY <1>9, <1>14 DEF Node
  <2>3. ExpandInv' /\ OutputInv' /\ CutInv' /\ ReadyInv'
    BY <2>1, <2>2, <1>2, <1>4, <1>7 DEF ExpandInv, OutputInv, CutInv, ReadyInv
  <2>4. QED
    BY <2>3, <1>11, <1>12, <1>13 DEF IInv, Root
<1>15. CASE done \cup {n} # Node
  <2>1. done' = done \cup {n} /\ phase' = "expand"
    BY <1>15, <1>4 DEF ExpandUp, Visited
  <2>2. ExpandInv' /\ OutputInv' /\ CutInv' /\ ReadyInv'
    BY <2>1, <1>2, <1>4, <1>7, <1>9, <1>10 DEF ExpandInv, OutputInv, CutInv, ReadyInv
  <2>3. QED
    BY <2>2, <1>11, <1>12, <1>13 DEF IInv, Root
<1>16. QED
  BY <1>14, <1>15
-----------------------------------------------------------------------------
LEMMA OutputDownIInv ==
  ASSUME IInv, NEW n \in Node, OutputDown(n)
  PROVE  IInv'
<1>1. Tree /\ Root \in Node
  BY DEF IInv, TypeOK, Tree, Node
<1>2. Node' = Node /\ Include' = Include /\ Tree' /\ (FlagsOK' <=> FlagsOK)
  BY <1>1, SameTree DEF OutputDown
<1>3. \A m \in Include : parent[m] \in Node /\ parent[m] # m /\ m # Root
  BY <1>1, ParentIsNode
<1>4. /\ parent' = parent /\ cut' = cut /\ notOutput' = notOutput
      /\ phase = "output" /\ n \notin done
  BY DEF OutputDown, tree
<1>5. /\ expand \in [Node -> BOOLEAN] /\ output \in [Node -> BOOLEAN]
      /\ notOutput \in [Node -> BOOLEAN]
  BY DEF IInv, TypeOK, FlagsOK
<1>6. /\ \A m \in Node : m # n => expand'[m] = expand[m] /\ output'[m] = output[m]
      /\ expand'[n] <=> expand[n] \/ (NeedsAttr(n) /\ notOutput[n])
      /\ output'[n] <=> output[n] \/ (NeedsAttr(n) /\ ~notOutput[n])
  BY <1>5 DEF OutputDown, ExpandInstead
<1>7. ~output[n]
  BY <1>4 DEF IInv, OutputInv
<1>8. \A m \in Include : expand'[m] => expand'[parent[m]]
  <2> SUFFICES ASSUME NEW m \in Include, expand'[m]
               PROVE  expand'[parent[m]]
    OBVIOUS
  <2>1. m \in Node /\ parent[m] \in Node
    BY <1>3 DEF Node
  <2>2. CASE expand[m]
    BY <2>1, <2>2, <1>4, <1>6 DEF IInv, OutputInv
  <2>3. CASE ~expand[m]
    <3>1. m = n /\ NeedsAttr(n)
      BY <2>1, <2>3, <1>6
    <3>2. expand[parent[m]]
      BY <3>1 DEF NeedsAttr
    <3>3. QED
      BY <3>2, <2>1, <1>6
  <2>4. QED
    BY <2>2, <2>3
<1>9. TypeOK'
  <2>1. expand' \in [Node -> BOOLEAN] /\ output' \in [Node -> BOOLEAN] /\ cut' \in [Node -> BOOLEAN]
    BY <1>4, <1>5 DEF IInv, TypeOK, OutputDown
  <2>2. done' \subseteq Node /\ phase' \in {"output", "cut"}
    BY <1>4 DEF IInv, TypeOK, OutputDown, Visited
  <2>3. QED
    BY <1>2, <2>1, <2>2 DEF IInv, TypeOK, Tree
<1>10. NeverBoth'
  <2>1. ~(expand'[n] /\ output'[n])
    BY <1>6, <1>7 DEF NeedsAttr
  <2>2. QED
    BY <2>1, <1>2, <1>6 DEF IInv, NeverBoth
<1>11. OutputReachable'
  BY <1>2, <1>4, <1>6, <1>7 DEF IInv, OutputReachable
<1>12. expand'[Root]
  BY <1>1, <1>6 DEF IInv
<1>13. CASE done \cup {n} = Node
  <2>1. done' = {} /\ phase' = "cut"
    BY <1>13 DEF OutputDown, Visited
  <2>2. ExpandInv' /\ OutputInv' /\ CutInv' /\ ReadyInv'
    BY <2>1, <1>2, <1>4, <1>8 DEF ExpandInv, OutputInv, CutInv, ReadyInv
  <2>3. QED
    BY <2>2, <1>9, <1>10, <1>11, <1>12 DEF IInv, Root
<1>14. CASE done \cup {n} # Node
  <2>1. done' = done \cup {n} /\ phase' = "output"
    BY <1>14, <1>4 DEF OutputDown, Visited
  <2>2. \A m \in Node : m \notin done' => ~output'[m]
    BY <2>1, <1>4, <1>6 DEF IInv, OutputInv
  <2>3. ExpandInv' /\ OutputInv' /\ CutInv' /\ ReadyInv'
    BY <2>1, <2>2, <1>2, <1>4, <1>8 DEF ExpandInv, OutputInv, CutInv, ReadyInv
  <2>4. QED
    BY <2>3, <1>9, <1>10, <1>11, <1>12 DEF IInv, Root
<1>15. QED
  BY <1>13, <1>14

-----------------------------------------------------------------------------
LEMMA CutDownIInv ==
  ASSUME IInv, NEW n \in Node, CutDown(n)
  PROVE  IInv'
<1>1. Tree /\ Root \in Node
  BY DEF IInv, TypeOK, Tree, Node
<1>2. Node' = Node /\ Include' = Include /\ Tree' /\ (FlagsOK' <=> FlagsOK)
  BY <1>1, SameTree DEF CutDown
<1>3. \A m \in Include : m \in Node /\ parent[m] \in Node /\ parent[m] # m /\ m # Root
  BY <1>1, ParentIsNode DEF Node
<1>4. /\ parent' = parent /\ notOutput' = notOutput
      /\ phase = "cut" /\ n \notin done /\ (n # Root => parent[n] \in done)
  BY DEF CutDown, tree
<1>5. /\ expand \in [Node -> BOOLEAN] /\ output \in [Node -> BOOLEAN]
      /\ cut \in [Node -> BOOLEAN]
      /\ notOutput \in [Node -> BOOLEAN] /\ notExpand \in [Node -> BOOLEAN]
      /\ ~notExpand[Root] /\ done \subseteq Node
  BY DEF IInv, TypeOK, FlagsOK
<1>6. n # Root => n \in Include
  BY DEF Node
<1>7. /\ \A m \in Node : m # n => /\ expand'[m] = expand[m] /\ output'[m] = output[m]
                                  /\ cut'[m] = cut[m]
      /\ expand'[n] <=> expand[n] /\ ~Cutting(n) /\ ~notExpand[n]
      /\ output'[n] <=> ~Cutting(n) /\ (output[n] \/ notExpand[n])
      /\ cut'[n] <=> Cutting(n) \/ notExpand[n]
  BY <1>5 DEF CutDown, StaysExpanded, IsOutput
<1>8. NeverBoth'
  <2>1. ~(expand'[n] /\ output'[n])
    BY <1>7 DEF IInv, NeverBoth
  <2>2. QED
    BY <2>1, <1>2, <1>7 DEF IInv, NeverBoth
<1>9. expand'[Root]
  BY <1>1, <1>5, <1>7 DEF IInv, Cutting
<1>10. ASSUME NEW m \in Include, expand'[m]
       PROVE  \/ expand'[parent[m]]
              \/ /\ m \notin done \cup {n} /\ parent[m] \in done \cup {n}
                 /\ cut'[parent[m]]
  <2>1. expand[m]
    BY <1>10, <1>3, <1>7
  <2>2. \/ expand[parent[m]]
        \/ m \notin done /\ parent[m] \in done /\ cut[parent[m]]
    BY <2>1, <1>4 DEF IInv, CutInv
  <2>3. CASE m = n
    <3>1. ~Cutting(n)
      BY <2>3, <1>10, <1>7
    <3>2. parent[n] # n /\ parent[n] \in Node /\ n # Root
      BY <2>3, <1>3
    <3>3. expand[parent[n]]
      BY <3>1, <3>2, <2>2, <2>3 DEF Cutting
    <3>4. QED
      BY <3>2, <3>3, <2>3, <1>7
  <2>4. CASE m # n /\ parent[m] = n
    <3>1. m \notin done
      BY <2>4, <1>4 DEF IInv, CutInv
    <3>2. expand[n]
      BY <2>2, <2>4, <1>4
    <3>3. QED
      BY <3>1, <3>2, <2>4, <1>7
  <2>5. CASE m # n /\ parent[m] # n
    BY <2>5, <2>2, <1>3, <1>7
  <2>6. QED
    BY <2>3, <2>4, <2>5
<1>11. \A m \in Include : m \in done \cup {n} => parent[m] \in done \cup {n}
  BY <1>3, <1>4 DEF IInv, CutInv
<1>12. /\ expand' \in [Node -> BOOLEAN] /\ output' \in [Node -> BOOLEAN]
       /\ cut' \in [Node -> BOOLEAN]
  BY <1>5 DEF CutDown, StaysExpanded, IsOutput
<1>13. CASE ~Cutting(n) /\ notExpand[n] /\ notOutput[n]
  <2>1. phase' = "failed" /\ done' = done
    BY <1>13 DEF CutDown, Unreachable
  <2>2. TypeOK'
    BY <2>1, <1>2, <1>5, <1>12 DEF IInv, TypeOK, Tree
  <2>3. ExpandInv' /\ OutputInv' /\ CutInv' /\ ReadyInv' /\ OutputReachable'
    BY <2>1 DEF ExpandInv, OutputInv, CutInv, ReadyInv, OutputReachable
  <2>4. QED
    BY <2>2, <2>3, <1>8, <1>9 DEF IInv, Root
<1>14. CASE ~(~Cutting(n) /\ notExpand[n] /\ notOutput[n])
  <2>1. Visited(n, "ready")
    BY <1>14 DEF CutDown, Unreachable
  <2>2. done' \subseteq Node /\ phase' \in {"cut", "ready"}
    BY <2>1, <1>4, <1>5 DEF Visited
  <2>3. TypeOK'
    BY <2>2, <1>2, <1>12 DEF IInv, TypeOK, Tree
  <2>4. OutputReachable'
    <3>1. output'[n] => ~notOutput[n]
      BY <1>4, <1>7, <1>14 DEF IInv, OutputReachable
    <3>2. QED
      BY <3>1, <1>2, <1>4, <1>7 DEF IInv, OutputReachable
  <2>5. CASE done \cup {n} = Node
    <3>1. done' = {} /\ phase' = "ready"
      BY <2>1, <2>5 DEF Visited
    <3>2. \A m \in Include : expand'[m] => expand'[parent[m]]
      BY <2>5, <1>3, <1>10
    <3>3. ExpandInv' /\ OutputInv' /\ CutInv' /\ ReadyInv'
      BY <3>1, <3>2, <1>2, <1>4 DEF ExpandInv, OutputInv, CutInv, ReadyInv
    <3>4. QED
      BY <3>3, <2>3, <2>4, <1>8, <1>9 DEF IInv, Root
  <2>6. CASE done \cup {n} # Node
    <3>1. done' = done \cup {n} /\ phase' = "cut"
      BY <2>1, <2>6, <1>4 DEF Visited
    <3>2. ExpandInv' /\ OutputInv' /\ CutInv' /\ ReadyInv'
      BY <3>1, <1>2, <1>4, <1>10, <1>11 DEF ExpandInv, OutputInv, CutInv, ReadyInv
    <3>3. QED
      BY <3>2, <2>3, <2>4, <1>8, <1>9 DEF IInv, Root
  <2>7. QED
    BY <2>5, <2>6
<1>15. QED
  BY <1>13, <1>14

-----------------------------------------------------------------------------
LEMMA StutterIInv == IInv /\ UNCHANGED vars => IInv'
<1> SUFFICES ASSUME IInv, UNCHANGED vars PROVE IInv'
  OBVIOUS
<1>1. /\ Node' = Node /\ Include' = Include /\ Tree' /\ FlagsOK'
      /\ parent' = parent /\ notOutput' = notOutput /\ expand' = expand
      /\ output' = output /\ cut' = cut /\ done' = done /\ phase' = phase
  BY SameTree DEF vars, tree, IInv, TypeOK, Tree
<1>2. TypeOK'
  BY <1>1 DEF IInv, TypeOK, Tree
<1>3. NeverBoth' /\ ReadyInv' /\ OutputReachable' /\ expand'[Root]
  BY <1>1 DEF IInv, NeverBoth, ReadyInv, OutputReachable
<1>4. ExpandInv' /\ OutputInv' /\ CutInv'
  BY <1>1 DEF IInv, ExpandInv, OutputInv, CutInv
<1>5. QED
  BY <1>2, <1>3, <1>4 DEF IInv, Root

\* The strengthened invariant of the three sweeps.
THEOREM Inductive == Spec => []IInv
<1>1. IInv /\ [Next]_vars => IInv'
  BY ExpandUpIInv, OutputDownIInv, CutDownIInv, StutterIInv DEF Next
<1>2. QED
  BY <1>1, InitIInv, PTL DEF Spec

\* Variables keep their types, for trees of any size.
THEOREM TypeCorrect == Spec => []TypeOK
<1>1. IInv => TypeOK
  BY DEF IInv
<1>2. QED
  BY <1>1, Inductive, PTL

\* The assertion of Get_Non_Expand_Includes never fails: no #include is both
\* expanded and output, in the middle of the sweeps or after them.
THEOREM NeverBothHolds == Spec => []NeverBoth
<1>1. IInv => NeverBoth
  BY DEF IInv
<1>2. QED
  BY <1>1, Inductive, PTL

\* After the sweeps the text of every expanded header has a place in the text
\* of the file that includes it.
THEOREM ExpandedIsSubtreeHolds == Spec => []ExpandedIsSubtree
<1>1. IInv => ExpandedIsSubtree
  BY DEF IInv, ExpandedIsSubtree, ReadyInv, Ready
<1>2. QED
  BY <1>1, Inductive, PTL

\* Every directive that is output names a header the compiler finds from the
\* main file.
THEOREM OutputResolvesHolds == Spec => []OutputResolves
<1>1. IInv => OutputResolves
  BY DEF IInv, OutputResolves, OutputReachable, Ready
<1>2. QED
  BY <1>1, Inductive, PTL

-----------------------------------------------------------------------------
(***************************************************************************)
(* The attributes while the sweeps are on their way: for the nodes a sweep *)
(* has visited what it is to leave there, and for the others what the      *)
(* sweep before it has left.                                               *)
(***************************************************************************)
AskedInv ==
  phase = "expand" =>
    /\ \A n \in Node : (asked[n] => expand[n]) /\ (expand[n] => Asked(n))
    /\ \A n \in done : Asked(n) => expand[n]

ShownInv ==
  phase = "output" =>
    /\ \A n \in Include : n \in done => parent[n] \in done
    /\ \A n \in done : (expand[n] <=> Expanded[n]) /\ (output[n] <=> Shown(n))
    /\ \A n \in Node : n \notin done => (expand[n] <=> Asked(n))

Stuck(n) == notExpand[n] /\ notOutput[n] /\ ~Below(n)

BelowInv ==
  phase = "cut" =>
    /\ \A n \in done :
         /\ expand[n] <=> Expanded[n] /\ Can_Be_Expanded(n)
         /\ output[n] <=> ~Below(n) /\ (Shown(n) \/ notExpand[n])
         /\ cut[n] <=> ~Can_Be_Expanded(n)
         /\ ~Stuck(n)
    /\ \A n \in Node : n \notin done => (expand[n] <=> Expanded[n]) /\ (output[n] <=> Shown(n))

AttrInv == AskedInv /\ ShownInv /\ BelowInv /\ OrderIndependent /\ FailsOnlyWhenStuck

\* A node lies below a cut if its parent can not be expanded.
LEMMA BelowFacts ==
  ASSUME Tree, FlagsOK
  PROVE  /\ \A n \in Include : Below(n) <=> ~Can_Be_Expanded(parent[n])
         /\ ~Below(Root)
         /\ \A n \in Node : Can_Be_Expanded(n) <=> ~Below(n) /\ ~notExpand[n]
<1>1. ASSUME NEW n \in Include PROVE Below(n) <=> ~Can_Be_Expanded(parent[n])
  <2>1. AncestorsOrSelf[n] = {n} \cup AncestorsOrSelf[parent[n]]
    BY AncestorsEq
  <2>2. n \notin AncestorsOrSelf[parent[n]]
    <3>1. parent[n] \in Node /\ parent[n] \in Nat /\ n \in Nat /\ parent[n] < n
      BY ParentIsOlder
    <3>2. n \in AncestorsOrSelf[parent[n]] => n <= parent[n]
      BY <3>1, AncestorFacts
    <3>3. QED
      BY <3>1, <3>2
  <2>3. AncestorsOrSelf[n] \ {n} = AncestorsOrSelf[parent[n]]
    BY <2>1, <2>2
  <2>4. QED
    BY <2>3 DEF Below, Can_Be_Expanded
<1>2. ~Below(Root)
  BY AncestorsEq DEF Below
<1>3. \A n \in Node : Can_Be_Expanded(n) <=> ~Below(n) /\ ~notExpand[n]
  BY AncestorFacts DEF Below, Can_Be_Expanded
<1>4. QED
  BY <1>1, <1>2, <1>3

\* What is read off the tree does not change in a step.
LEMMA SameMarks ==
  ASSUME UNCHANGED tree
  PROVE  /\ \A n \in Node : /\ Asked(n)' <=> Asked(n)
                            /\ Shown(n)' <=> Shown(n)
                            /\ Below(n)' <=> Below(n)
                            /\ Can_Be_Expanded(n)' <=> Can_Be_Expanded(n)
                            /\ Stuck(n)' <=> Stuck(n)
                            /\ notExpand'[n] = notExpand[n] /\ asked'[n] = asked[n]
         /\ Expanded' = Expanded /\ parent' = parent
         /\ Node' = Node /\ Include' = Include
<1>1. AncestorsOrSelf' = AncestorsOrSelf /\ Expanded' = Expanded /\ Node' = Node /\ Include' = Include
  BY SameAncestors, SameTree
<1>2. /\ parent' = parent /\ minus' = minus /\ notOutput' = notOutput
      /\ notExpand' = notExpand /\ asked' = asked
  BY DEF tree
<1>3. \A n \in Node : Asked(n)' <=> Asked(n)
  BY <1>1, <1>2 DEF Asked
<1>4. \A n \in Node : Shown(n)' <=> Shown(n)
  BY <1>1, <1>2 DEF Shown, FromRoot
<1>5. \A n \in Node : Below(n)' <=> Below(n)
  BY <1>1, <1>2 DEF Below
<1>6. \A n \in Node : Can_Be_Expanded(n)' <=> Can_Be_Expanded(n)
  BY <1>1, <1>2 DEF Can_Be_Expanded
<1>7. \A n \in Node : Stuck(n)' <=> Stuck(n)
  BY <1>2, <1>5 DEF Stuck
<1>8. QED
  BY <1>1, <1>2, <1>3, <1>4, <1>5, <1>6, <1>7

LEMMA InitAttrInv == Init => AttrInv
<1> SUFFICES ASSUME Init PROVE AttrInv
  OBVIOUS
<1>1. Tree /\ FlagsOK /\ phase = "expand" /\ done = {} /\ expand = asked
  BY DEF Init, Tree, Start
<1>2. AskedInv
  BY <1>1, AskedFacts DEF AskedInv
<1>3. QED
  BY <1>1, <1>2 DEF AttrInv, ShownInv, BelowInv, OrderIndependent, FailsOnlyWhenStuck, Ready

\* An #include hands its expansion to the one around it: children are visited
\* first, so what was asked for below it is known when its turn comes.
LEMMA ExpandUpAttrInv ==
  ASSUME IInv, AttrInv, NEW n \in Node, ExpandUp(n)
  PROVE  AttrInv'
<1>1. Tree /\ FlagsOK /\ Root \in Node /\ done \subseteq Node /\ expand \in [Node -> BOOLEAN]
  BY DEF IInv, TypeOK, Tree, Node
<1>2. /\ UNCHANGED tree /\ phase = "expand" /\ n \notin done /\ Childs(n) \subseteq done
      /\ ExpandInv /\ AskedInv
  BY DEF ExpandUp, IInv, AttrInv
<1>3. \A m \in Include : parent[m] \in Node /\ parent[m] # m /\ m # Root /\ m \in Node
  BY <1>1, ParentIsNode DEF Node
<1>4. \A m \in Node : expand'[m] <=> expand[m] \/ (n # Root /\ expand[n] /\ m = parent[n])
  BY <1>1, <1>2, <1>3 DEF ExpandUp
<1>5. \A m \in Node : (asked[m] => expand'[m]) /\ (expand'[m] => Asked(m))
  <2> SUFFICES ASSUME NEW m \in Node PROVE (asked[m] => expand'[m]) /\ (expand'[m] => Asked(m))
    OBVIOUS
  <2>1. (asked[m] => expand[m]) /\ (expand[m] => Asked(m))
    BY <1>2 DEF AskedInv
  <2>2. n # Root /\ expand[n] /\ m = parent[n] => Asked(m)
    BY <1>1, <1>2, AskedFacts DEF AskedInv, Node
  <2>3. QED
    BY <2>1, <2>2, <1>4
<1>6. \A m \in done \cup {n} : Asked(m) => expand'[m]
  <2>1. ASSUME Asked(n) PROVE expand[n]
    <3>1. CASE asked[n]
      BY <3>1, <1>2 DEF AskedInv
    <3>2. CASE \E c \in Childs(n) : Asked(c)
      <4>1. PICK c \in Childs(n) : Asked(c)
        BY <3>2
      <4>2. c \in Include /\ parent[c] = n /\ c \in done
        BY <1>2 DEF Childs
      <4>3. expand[c]
        BY <4>1, <4>2, <1>2 DEF AskedInv
      <4>4. QED
        BY <4>2, <4>3, <1>2 DEF ExpandInv
    <3>3. QED
      BY <2>1, <3>1, <3>2, <1>1, AskedFacts
  <2>2. QED
    BY <2>1, <1>1, <1>2, <1>4 DEF AskedInv
<1>7. CASE done \cup {n} = Node
  <2>1. done' = {} /\ phase' = "output"
    BY <1>7 DEF ExpandUp, Visited
  <2>2. \A m \in Node : expand'[m] <=> Asked(m)
    BY <1>5, <1>6, <1>7
  <2>3. ShownInv'
    BY <2>1, <2>2, <1>2, SameMarks DEF ShownInv
  <2>4. QED
    BY <2>1, <2>3 DEF AttrInv, AskedInv, BelowInv, OrderIndependent, FailsOnlyWhenStuck, Ready
<1>8. CASE done \cup {n} # Node
  <2>1. done' = done \cup {n} /\ phase' = "expand"
    BY <1>8, <1>2 DEF ExpandUp, Visited
  <2>2. AskedInv'
    BY <2>1, <1>1, <1>2, <1>5, <1>6, SameMarks DEF AskedInv
  <2>3. QED
    BY <2>1, <2>2 DEF AttrInv, ShownInv, BelowInv, OrderIndependent, FailsOnlyWhenStuck, Ready
<1>9. QED
  BY <1>7, <1>8

LEMMA OutputDownAttrInv ==
  ASSUME IInv, AttrInv, NEW n \in Node, OutputDown(n)
  PROVE  AttrInv'
<1>1. /\ Tree /\ FlagsOK /\ Root \in Node /\ done \subseteq Node
      /\ expand \in [Node -> BOOLEAN] /\ output \in [Node -> BOOLEAN] /\ notOutput \in [Node -> BOOLEAN]
  BY DEF IInv, TypeOK, Tree, Node, FlagsOK
<1>2. /\ UNCHANGED tree /\ phase = "output" /\ n \notin done /\ (n # Root => parent[n] \in done)
      /\ OutputInv /\ ShownInv
  BY DEF OutputDown, IInv, AttrInv
<1>3. \A m \in Include : parent[m] \in Node /\ parent[m] # m /\ m # Root /\ m \in Node
  BY <1>1, ParentIsNode DEF Node
<1>4. /\ \A m \in Node : m # n => expand'[m] = expand[m] /\ output'[m] = output[m]
      /\ expand'[n] <=> expand[n] \/ (NeedsAttr(n) /\ notOutput[n])
      /\ output'[n] <=> output[n] \/ (NeedsAttr(n) /\ ~notOutput[n])
  BY <1>1 DEF OutputDown, ExpandInstead
<1>5. ~output[n] /\ (expand[n] <=> Asked(n)) /\ (n # Root => (expand[parent[n]] <=> Expanded[parent[n]]))
  BY <1>2 DEF OutputInv, ShownInv
<1>6. expand'[n] <=> Expanded[n]
  <2>1. Expanded[n] <=> Asked(n) \/ (n # Root /\ Expanded[parent[n]] /\ ~FromRoot(n) /\ notOutput[n])
    BY <1>1, ExpandedEq
  <2>2. QED
    BY <2>1, <1>4, <1>5 DEF NeedsAttr
<1>7. output'[n] <=> Shown(n)
  <2>1. Expanded[n] <=> Asked(n) \/ (n # Root /\ Expanded[parent[n]] /\ ~FromRoot(n) /\ notOutput[n])
    BY <1>1, ExpandedEq
  <2>2. QED
    BY <2>1, <1>4, <1>5 DEF NeedsAttr, Shown
<1>8. \A m \in done \cup {n} : (expand'[m] <=> Expanded[m]) /\ (output'[m] <=> Shown(m))
  BY <1>1, <1>2, <1>4, <1>6, <1>7 DEF ShownInv
<1>9. CASE done \cup {n} = Node
  <2>1. done' = {} /\ phase' = "cut"
    BY <1>9 DEF OutputDown, Visited
  <2>2. BelowInv'
    BY <2>1, <1>2, <1>8, <1>9, SameMarks DEF BelowInv
  <2>3. QED
    BY <2>1, <2>2 DEF AttrInv, AskedInv, ShownInv, OrderIndependent, FailsOnlyWhenStuck, Ready
<1>10. CASE done \cup {n} # Node
  <2>1. done' = done \cup {n} /\ phase' = "output"
    BY <1>10, <1>2 DEF OutputDown, Visited
  <2>2. \A m \in Include : m \in done' => parent[m] \in done'
    BY <2>1, <1>2, <1>3 DEF ShownInv
  <2>3. \A m \in Node : m \notin done' => (expand'[m] <=> Asked(m))
    BY <2>1, <1>2, <1>4 DEF ShownInv
  <2>4. ShownInv'
    BY <2>1, <2>2, <2>3, <1>1, <1>2, <1>8, SameMarks DEF ShownInv
  <2>5. QED
    BY <2>1, <2>4 DEF AttrInv, AskedInv, BelowInv, OrderIndependent, FailsOnlyWhenStuck, Ready
<1>11. QED
  BY <1>9, <1>10

LEMMA CutDownAttrInv ==
  ASSUME IInv, AttrInv, NEW n \in Node, CutDown(n)
  PROVE  AttrInv'
<1>1. /\ Tree /\ FlagsOK /\ Root \in Node /\ done \subseteq Node
      /\ expand \in [Node -> BOOLEAN] /\ output \in [Node -> BOOLEAN] /\ cut \in [Node -> BOOLEAN]
      /\ notOutput \in [Node -> BOOLEAN] /\ notExpand \in [Node -> BOOLEAN]
  BY DEF IInv, TypeOK, Tree, Node, FlagsOK
<1>2. /\ UNCHANGED tree /\ phase = "cut" /\ n \notin done /\ (n # Root => parent[n] \in done)
      /\ BelowInv
  BY DEF CutDown, AttrInv
<1>3. n # Root => n \in Include /\ parent[n] \in Node
  BY <1>1, ParentIsNode DEF Node
<1>4. Cutting(n) <=> Below(n)
  BY <1>1, <1>2, <1>3, BelowFacts DEF Cutting, BelowInv
<1>5. Can_Be_Expanded(n) <=> ~Below(n) /\ ~notExpand[n]
  BY <1>1, BelowFacts
<1>6. /\ \A m \in Node : m # n => expand'[m] = expand[m] /\ output'[m] = output[m] /\ cut'[m] = cut[m]
      /\ expand'[n] <=> expand[n] /\ ~Cutting(n) /\ ~notExpand[n]
      /\ output'[n] <=> ~Cutting(n) /\ (output[n] \/ notExpand[n])
      /\ cut'[n] <=> Cutting(n) \/ notExpand[n]
  BY <1>1 DEF CutDown, StaysExpanded, IsOutput
<1>7. (expand[n] <=> Expanded[n]) /\ (output[n] <=> Shown(n))
  BY <1>2 DEF BelowInv
<1>8. CASE Stuck(n)
  <2>1. phase' = "failed"
    BY <1>4, <1>8 DEF CutDown, Unreachable, Stuck
  <2>2. n \in Include
    BY <1>3, <1>8, <1>1 DEF Stuck, FlagsOK
  <2>3. n \in {m \in Include : notExpand[m] /\ notOutput[m] /\ ~Below(m)}'
    BY <2>2, <1>2, <1>8, SameMarks DEF Stuck, tree
  <2>4. FailsOnlyWhenStuck'
    BY <2>1, <2>3 DEF FailsOnlyWhenStuck, Ready
  <2>5. QED
    BY <2>1, <2>4 DEF AttrInv, AskedInv, ShownInv, BelowInv, OrderIndependent, Ready
<1>9. CASE ~Stuck(n)
  <2>1. Visited(n, "ready")
    BY <1>4, <1>9 DEF CutDown, Unreachable, Stuck
  <2>2. \A m \in done \cup {n} :
          /\ expand'[m] <=> Expanded[m] /\ Can_Be_Expanded(m)
          /\ output'[m] <=> ~Below(m) /\ (Shown(m) \/ notExpand[m])
          /\ cut'[m] <=> ~Can_Be_Expanded(m)
          /\ ~Stuck(m)
    <3>1. /\ expand'[n] <=> Expanded[n] /\ Can_Be_Expanded(n)
          /\ output'[n] <=> ~Below(n) /\ (Shown(n) \/ notExpand[n])
          /\ cut'[n] <=> ~Can_Be_Expanded(n)
      BY <1>4, <1>5, <1>6, <1>7
    <3>2. QED
      BY <3>1, <1>1, <1>2, <1>6, <1>9 DEF BelowInv
  <2>3. CASE done \cup {n} = Node
    <3>1. done' = {} /\ phase' = "ready"
      BY <2>1, <2>3 DEF Visited
    <3>2. OrderIndependent'
      BY <2>2, <2>3, <1>2, SameMarks DEF OrderIndependent
    <3>3. {m \in Include : notExpand[m] /\ notOutput[m] /\ ~Below(m)}' = {}
      BY <2>2, <2>3, <1>2, SameMarks DEF Stuck, tree, Node
    <3>4. FailsOnlyWhenStuck'
      BY <3>1, <3>3 DEF FailsOnlyWhenStuck, Ready
    <3>5. QED
      BY <3>1, <3>2, <3>4 DEF AttrInv, AskedInv, ShownInv, BelowInv
  <2>4. CASE done \cup {n} # Node
    <3>1. done' = done \cup {n} /\ phase' = "cut"
      BY <2>1, <2>4, <1>2 DEF Visited
    <3>2. \A m \in Node : m \notin done' => (expand'[m] <=> Expanded[m]) /\ (output'[m] <=> Shown(m))
      BY <3>1, <1>2, <1>6 DEF BelowInv
    <3>3. BelowInv'
      BY <3>1, <3>2, <2>2, <1>1, <1>2, SameMarks DEF BelowInv
    <3>4. QED
      BY <3>1, <3>3 DEF AttrInv, AskedInv, ShownInv, OrderIndependent, FailsOnlyWhenStuck, Ready
  <2>5. QED
    BY <2>3, <2>4
<1>10. QED
  BY <1>8, <1>9

LEMMA StutterAttrInv == AttrInv /\ UNCHANGED vars => AttrInv'
<1> SUFFICES ASSUME AttrInv, UNCHANGED vars PROVE AttrInv'
  OBVIOUS
<1>1. UNCHANGED tree /\ expand' = expand /\ output' = output /\ cut' = cut /\ done' = done /\ phase' = phase
  BY DEF vars, tree
<1>2. QED
  BY <1>1, SameAncestors, SameTree
  DEF AttrInv, AskedInv, ShownInv, BelowInv, OrderIndependent, FailsOnlyWhenStuck, Ready,
      Asked, Shown, Below, Can_Be_Expanded, Stuck, FromRoot, tree

LEMMA AttrInductive == Spec => []AttrInv
<1>1. IInv /\ AttrInv /\ [Next]_vars => AttrInv'
  BY ExpandUpAttrInv, OutputDownAttrInv, CutDownAttrInv, StutterAttrInv DEF Next
<1>2. QED
  BY <1>1, InitAttrInv, Inductive, PTL DEF Spec

\* The result of the sweeps does not depend on the order in which siblings are
\* visited: every node has the attributes that the tree determines.
THEOREM OrderIndependentHolds == Spec => []OrderIndependent
<1>1. AttrInv => OrderIndependent
  BY DEF AttrInv
<1>2. QED
  BY <1>1, AttrInductive, PTL

\* The constructor throws exactly for a tree with a header that must not be
\* expanded, can not be found from the main file, and is below no cut.
THEOREM FailsOnlyWhenStuckHolds == Spec => []FailsOnlyWhenStuck
<1>1. AttrInv => FailsOnlyWhenStuck
  BY DEF AttrInv
<1>2. QED
  BY <1>1, AttrInductive, PTL

\* What was asked for is expanded wherever Can_Be_Expanded says it may be, and
\* nothing is expanded elsewhere.
THEOREM RequestHonouredHolds == Spec => []RequestHonoured
<1>1. IInv /\ AttrInv => RequestHonoured
  <2> SUFFICES ASSUME IInv, OrderIndependent, Ready, NEW n \in Node
               PROVE  IF Can_Be_Expanded(n) THEN asked[n] => expand[n] ELSE ~expand[n]
    BY DEF AttrInv, RequestHonoured
  <2>1. Tree /\ FlagsOK
    BY DEF IInv, TypeOK, Tree
  <2>2. expand[n] <=> Expanded[n] /\ Can_Be_Expanded(n)
    BY DEF OrderIndependent
  <2>3. asked[n] => Expanded[n]
    BY <2>1, AskedFacts, ExpandedEq
  <2>4. QED
    BY <2>2, <2>3
<1>2. QED
  BY <1>1, AttrInductive, Inductive, PTL

\* No header is lost: its text is there, or the directive of a file around it
\* is, or it is left to the command line.
THEOREM NothingLostHolds == Spec => []NothingLost
<1>1. IInv /\ AttrInv => NothingLost
  <2> SUFFICES ASSUME IInv, AttrInv, Ready PROVE NothingLost
    BY DEF NothingLost
  <2> DEFINE Kept(n) == \/ expand[n]
                        \/ Has_Parent_Marked_For_Output(n)
                        \/ \E a \in AncestorsOrSelf[n] : a # Root /\ FromRoot(a) /\ ~expand[a]
             S == {n \in Node : Kept(n)}
  <2>1. Tree /\ FlagsOK /\ OrderIndependent
    BY DEF IInv, AttrInv, TypeOK, Tree
  <2>2. Root \in S
    BY DEF IInv, Node
  <2>3. ASSUME NEW n \in Include, parent[n] \in S PROVE n \in S
    <3>1. n \in Node /\ n # Root /\ parent[n] \in Node
      BY <2>1, ParentIsOlder
    <3>2. AncestorsOrSelf[n] = {n} \cup AncestorsOrSelf[parent[n]]
      BY <2>1, AncestorsEq
    <3>3. CASE ~expand[parent[n]]
      BY <2>3, <3>1, <3>2, <3>3 DEF Has_Parent_Marked_For_Output
    <3>4. CASE FromRoot(n)
      BY <3>1, <3>2, <3>4
    <3>5. CASE expand[parent[n]] /\ ~FromRoot(n) /\ ~expand[n]
      <4>1. Expanded[parent[n]] /\ Can_Be_Expanded(parent[n])
        BY <2>1, <3>1, <3>5 DEF OrderIndependent
      <4>2. ~Below(n)
        BY <2>1, <4>1, BelowFacts
      <4>3. notExpand[n] \/ Shown(n)
        BY <2>1, <3>1, <3>5, <4>1, <4>2, BelowFacts DEF OrderIndependent, Shown
      <4>4. output[n]
        BY <2>1, <3>1, <4>2, <4>3 DEF OrderIndependent
      <4>5. QED
        BY <3>1, <3>2, <4>4 DEF Has_Parent_Marked_For_Output
    <3>6. QED
      BY <3>1, <3>3, <3>4, <3>5
  <2> HIDE DEF S
  <2>4. Node \subseteq S
    BY <2>1, <2>2, <2>3, TreeInduction
  <2>5. QED
    BY <2>4 DEF S, NothingLost
<1>2. QED
  BY <1>1, AttrInductive, Inductive, PTL
=============================================================================
