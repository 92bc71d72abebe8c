-------------------------- MODULE HeaderTree_proofs --------------------------
(***************************************************************************)
(* Proofs about Build_Header_Tree, for preprocessing records of any length *)
(* over any set of headers, and, in the second half, about what the whole  *)
(* constructor of IncludeTree makes of such a record.                      *)
(***************************************************************************)
EXTENDS IncludeTree, SequenceTheorems, WellFoundedInduction, TLAPS

(***************************************************************************)
(* s is a path of the tree from Root downwards, so its nodes get younger.  *)
(***************************************************************************)
Branch(s) ==
  /\ s \in Seq(Nat)
  /\ \A k \in 1..Len(s) : s[k] \in Inclusion
  /\ s # <<>> => s[1] = Root
  /\ \A k, m \in 1..Len(s) : k < m => s[k] < s[m]
  /\ \A k \in 1..Len(s) : k > 1 => nodes[s[k]].parent = s[k - 1]

\* The preprocessor's chain of open files: inclusions nest, and inside the main
\* file nothing is open unless the main file has been seen.
ChainInv ==
  /\ \A k, m \in 1..Len(lex) : k < m => lex[k] < lex[m]
  /\ inMain /\ Len(lex) > 1 => seenMain

\* The stack keeps up with the chain: every open header is on it.
FollowsInv ==
  /\ \A k \in 1..Len(lex) : lex[k] # Root => \E j \in 1..Len(stack) : stack[j] = lex[k]
  /\ seenMain => inMain /\ stack # <<>>
  /\ rootFile = IF seenMain THEN Main ELSE NoFile

IInv ==
  /\ TypeOK /\ Branch(stack) /\ ParentHasRightFile /\ MinusIncludeIsCommandLine
  /\ status = "build" => ChainInv /\ FollowsInv

-----------------------------------------------------------------------------
\* A non-empty set of positions has a last one.
LEMMA LastOne ==
  ASSUME NEW n \in Nat, NEW S \in SUBSET (1..n), S # {}
  PROVE  \E i \in S : \A j \in S : j <= i
<1> DEFINE Less == OpToRel(<, Nat)
           T == {m \in 0..n : n - m \in S}
<1>1. \A x, y \in Nat : y < x => <<y, x>> \in Less
  BY DEF OpToRel
<1>2. IsWellFoundedOn(Less, Nat)
  BY NatLessThanWellFounded
<1> HIDE DEF Less
<1>3. PICK j \in S : j \in 1..n
  OBVIOUS
<1>4. n - j \in 0..n /\ n - (n - j) = j
  BY <1>3
<1>5. n - j \in T
  BY <1>3, <1>4
<1>6. T \subseteq Nat /\ T # {}
  <2>1. T \subseteq Nat
    OBVIOUS
  <2>2. T # {}
    BY <1>5
  <2>3. QED
    BY <2>1, <2>2
<1>7. PICK x \in T : \A y \in T : ~ (<<y, x>> \in Less)
  BY <1>2, <1>6, WFMin
<1>8. \A y \in T : x <= y
  <2> SUFFICES ASSUME NEW y \in T PROVE x <= y
    OBVIOUS
  <2>1. x \in Nat /\ y \in Nat /\ ~(y < x)
    BY <1>1, <1>6, <1>7
  <2>2. QED
    BY <2>1
<1>9. \A k \in S : n - k \in T
  <2> SUFFICES ASSUME NEW k \in S PROVE n - k \in T
    OBVIOUS
  <2>1. k \in 1..n
    OBVIOUS
  <2>2. n - k \in 0..n /\ n - (n - k) = k
    BY <2>1
  <2>3. QED
    BY <2>2
<1>10. \A k \in S : k <= n - x
  <2> SUFFICES ASSUME NEW k \in S PROVE k <= n - x
    OBVIOUS
  <2>1. k \in 1..n /\ x \in 0..n /\ x <= n - k
    BY <1>8, <1>9
  <2>2. QED
    BY <2>1
<1>11. QED
  BY <1>10

\* When some element of the stack stands for the file, popping ends, at that
\* element or above it.
LEMMA RewindEnds ==
  ASSUME NEW st \in Seq(Nat), NEW rf, NEW f, NEW j \in 1..Len(st), FileGiven(rf, st[j]) = f
  PROVE  \E i \in 1..Len(st) : Rewinds(st, rf, f, i) /\ j <= i
<1> DEFINE S == {k \in 1..Len(st) : FileGiven(rf, st[k]) = f}
<1>1. Len(st) \in Nat /\ S \in SUBSET (1..Len(st)) /\ j \in S
  OBVIOUS
<1> HIDE DEF S
<1>2. PICK i \in S : \A k \in S : k <= i
  BY <1>1, LastOne
<1>3. i \in 1..Len(st) /\ FileGiven(rf, st[i]) = f /\ j <= i
  BY <1>1, <1>2 DEF S
<1>4. \A k \in 1..Len(st) : k > i => FileGiven(rf, st[k]) # f
  BY <1>1, <1>2, <1>3 DEF S
<1>5. QED
  BY <1>3, <1>4 DEF Rewinds

\* What is left after popping.
LEMMA PrefixFacts ==
  ASSUME NEW s \in Seq(Nat), NEW i \in 1..Len(s)
  PROVE  /\ SubSeq(s, 1, i) \in Seq(Nat) /\ Len(SubSeq(s, 1, i)) = i
         /\ \A k \in 1..i : SubSeq(s, 1, i)[k] = s[k]
         /\ SubSeq(s, 1, i) # <<>>
<1>1. Len(s) \in Nat /\ i \in 1..(Len(s) + 1)
  OBVIOUS
<1>2. /\ SubSeq(s, 1, i) \in Seq(Nat) /\ Len(SubSeq(s, 1, i)) = i
      /\ \A k \in 1..i : SubSeq(s, 1, i)[k] = s[k]
  OBVIOUS
<1>3. QED
  BY <1>1, <1>2

LEMMA PrefixIsBranch ==
  ASSUME NEW s, Branch(s), NEW i \in 1..Len(s)
  PROVE  Branch(SubSeq(s, 1, i))
<1>1. s \in Seq(Nat) /\ Len(s) \in Nat /\ s # <<>>
  BY DEF Branch
<1> DEFINE t == SubSeq(s, 1, i)
<1>2. t \in Seq(Nat) /\ Len(t) = i /\ t # <<>> /\ \A k \in 1..i : t[k] = s[k]
  BY <1>1, PrefixFacts
<1>3. i \in Nat /\ \A k \in 1..i : k \in 1..Len(s)
  BY <1>1
<1>4. t[1] = Root
  BY <1>1, <1>2, <1>3 DEF Branch
<1> HIDE DEF t
<1>5. \A k \in 1..i : k > 1 => nodes[t[k]].parent = t[k - 1]
  <2> SUFFICES ASSUME NEW k \in 1..i, k > 1 PROVE nodes[t[k]].parent = t[k - 1]
    OBVIOUS
  <2>1. k - 1 \in 1..i /\ k \in 1..Len(s)
    BY <1>3
  <2>2. nodes[s[k]].parent = s[k - 1]
    BY <2>1 DEF Branch
  <2>3. QED
    BY <1>2, <2>1, <2>2
<1>6. \A k, m \in 1..i : k < m => t[k] < t[m]
  BY <1>2, <1>3 DEF Branch
<1>7. \A k \in 1..i : t[k] \in Inclusion
  BY <1>2, <1>3 DEF Branch
<1>8. Branch(t)
  BY <1>2, <1>4, <1>5, <1>6, <1>7 DEF Branch
<1>9. QED
  BY <1>8 DEF t

\* A header file is not the main file, nor the null entry: only Root stands for
\* these two.
LEMMA FileOfNode ==
  ASSUME TypeOK, NEW n \in Inclusion, n # Root, NEW rf
  PROVE  FileGiven(rf, n) = nodes[n].file /\ nodes[n].file \in Headers
<1>1. n \in 1..Len(nodes) /\ nodes \in Seq(IncludeNode)
  BY DEF TypeOK, Inclusion, Root
<1>2. nodes[n] \in IncludeNode
  BY <1>1
<1>3. QED
  BY <1>2 DEF FileGiven, IncludeNode

\* The base of the stack an #include starts from, and the file of the entry.
LEMMA BaseFacts ==
  ASSUME IInv, status = "build"
  PROVE  /\ Branch(Base) /\ Base # <<>>
         /\ Top(lex) \in Inclusion
         /\ Top(lex) = Root => Len(lex) = 1 /\ ThisFile \in {NoFile, Main}
         /\ Top(lex) # Root => /\ ThisFile = nodes[Top(lex)].file /\ ThisFile \in Headers
                               /\ Base = stack /\ RootFileNow = rootFile
                               /\ \E j \in 1..Len(stack) : stack[j] = Top(lex)
         /\ Top(lex) = Root => RootFileNow = ThisFile \/ (seenMain /\ RootFileNow = Main)
<1>1. /\ lex \in Seq(Nat) /\ Len(lex) \in Nat /\ Len(lex) > 0 /\ lex[1] = Root
      /\ Top(lex) \in Inclusion /\ Inclusion \subseteq Nat
      /\ ChainInv /\ FollowsInv /\ Branch(stack) /\ TypeOK
  BY DEF IInv, TypeOK, Top, Inclusion
<1>2. ASSUME Top(lex) = Root PROVE Len(lex) = 1
  <2>1. lex[1] = 0 /\ lex[Len(lex)] = 0
    BY <1>1, <1>2 DEF Top, Root
  <2>2. Len(lex) \in Nat /\ Len(lex) > 0
    BY <1>1
  <2>3. ~(1 < Len(lex))
    <3> SUFFICES ASSUME 1 < Len(lex) PROVE FALSE
      OBVIOUS
    <3>1. 1 \in 1..Len(lex) /\ Len(lex) \in 1..Len(lex)
      BY <2>2
    <3>2. \A k, m \in 1..Len(lex) : k < m => lex[k] < lex[m]
      BY <1>1 DEF ChainInv
    <3>3. lex[1] < lex[Len(lex)]
      BY <3>1, <3>2
    <3>4. QED
      BY <2>1, <3>3
  <2>4. \A n \in Nat : n > 0 /\ ~(1 < n) => n = 1
    OBVIOUS
  <2>5. QED
    BY <2>2, <2>3, <2>4
<1>3. ASSUME Top(lex) = Root PROVE ThisFile \in {NoFile, Main}
  BY <1>3 DEF ThisFile
<1>4. ASSUME Top(lex) # Root
      PROVE  /\ ThisFile = nodes[Top(lex)].file /\ ThisFile \in Headers
             /\ Base = stack /\ RootFileNow = rootFile
             /\ \E j \in 1..Len(stack) : stack[j] = Top(lex)
  <2>1. ThisFile = nodes[Top(lex)].file /\ ThisFile \in Headers
    BY <1>1, <1>4, FileOfNode DEF ThisFile
  <2>2. Base = stack /\ RootFileNow = rootFile
    BY <2>1, FilesDiffer DEF Base, RootFileNow, SeesMain
  <2>3. Len(lex) \in 1..Len(lex)
    BY <1>1
  <2>4. \E j \in 1..Len(stack) : stack[j] = Top(lex)
    BY <1>1, <1>4, <2>3 DEF FollowsInv, Top
  <2>5. QED
    BY <2>1, <2>2, <2>4
<1>5. Branch(<<Root>>)
  BY DEF Branch, Inclusion, Root
<1>6. Branch(Base)
  BY <1>1, <1>5 DEF Base
<1>7. Base # <<>>
  <2>1. CASE Top(lex) # Root
    BY <1>4, <2>1
  <2>2. CASE Top(lex) = Root
    BY <1>1, <1>3, <2>2 DEF Base, FollowsInv
  <2>3. QED
    BY <2>1, <2>2
<1>8. ASSUME Top(lex) = Root
      PROVE  RootFileNow = ThisFile \/ (seenMain /\ RootFileNow = Main)
  BY <1>1, <1>3, <1>8 DEF RootFileNow, SeesMain, FollowsInv
<1>9. QED
  BY <1>1, <1>2, <1>3, <1>4, <1>6, <1>7, <1>8

\* For an entry of the main file, Root stands for it.
LEMMA RootStandsForMain ==
  ASSUME IInv, status = "build", Top(lex) = Root
  PROVE  RootFileNow = ThisFile
<1>1. inMain => ThisFile = Main
  BY DEF ThisFile
<1>2. QED
  BY <1>1, BaseFacts, FilesDiffer DEF IInv, FollowsInv

-----------------------------------------------------------------------------
LEMMA InitIInv == Init => IInv
<1> SUFFICES ASSUME Init PROVE IInv
  OBVIOUS
<1>1. /\ Len(lex) = 1 /\ lex[1] = Root /\ lex \in Seq(Nat)
      /\ Len(nodes) = 0 /\ Len(origin) = 0 /\ Len(stack) = 0
      /\ stack \in Seq(Nat) /\ origin \in Seq([from : Nat, cmdline : BOOLEAN])
      /\ nodes \in Seq(IncludeNode)
      /\ DOMAIN guards = {}
  BY DEF Init, Root
<1>2. TypeOK
  <2>1. Inclusion = {Root} /\ 1..0 = {}
    BY <1>1 DEF Inclusion, Root
  <2>2. \A k \in 1..Len(lex) : lex[k] \in Inclusion
    BY <1>1, <2>1
  <2>3. /\ inMain \in BOOLEAN /\ seenMain \in BOOLEAN /\ defined = {}
        /\ rootFile \in {NoFile, Main} /\ mustExpand \subseteq Headers
        /\ wanted \subseteq mustExpand /\ status = "build"
    BY DEF Init
  <2>4. QED
    BY <1>1, <2>1, <2>2, <2>3 DEF TypeOK
<1>3. Branch(stack) /\ ParentHasRightFile /\ MinusIncludeIsCommandLine
  BY <1>1 DEF Init, Branch, ParentHasRightFile, MinusIncludeIsCommandLine
<1>4. ChainInv /\ FollowsInv
  BY <1>1 DEF Init, ChainInv, FollowsInv
<1>5. QED
  BY <1>2, <1>3, <1>4 DEF IInv

\* The preprocessor leaves a file or enters the main file.
LEMMA LeaveFileIInv == IInv /\ LeaveFile => IInv'
<1> SUFFICES ASSUME IInv, LeaveFile PROVE IInv'
  OBVIOUS
<1> DEFINE n == Len(lex) - 1
<1>1. /\ lex \in Seq(Nat) /\ n \in 1..Len(lex) /\ lex' = SubSeq(lex, 1, n)
      /\ status = "build" /\ Len(lex) > 1 /\ lex[1] = Root
  BY DEF IInv, TypeOK, LeaveFile
<1>2. /\ lex' \in Seq(Nat) /\ Len(lex') = n
      /\ \A k \in 1..n : lex'[k] = lex[k]
  BY <1>1, PrefixFacts
<1>3. n \in Nat /\ n > 0 /\ \A k \in 1..n : k \in 1..Len(lex)
  BY <1>1
<1> HIDE DEF n
<1>4. UNCHANGED <<inMain, origin, defined, nodes, rootFile, stack, seenMain, mustExpand,
                  wanted, guards, status>> /\ Inclusion' = Inclusion
  BY DEF LeaveFile, treeVars, Inclusion
<1>5. TypeOK'
  <2>1. Len(lex') > 0 /\ lex'[1] = Root
    BY <1>1, <1>2, <1>3
  <2>2. \A k \in 1..Len(lex') : lex'[k] \in Inclusion'
    BY <1>2, <1>3, <1>4 DEF IInv, TypeOK
  <2>3. QED
    BY <1>2, <1>4, <2>1, <2>2 DEF IInv, TypeOK
<1>6. Branch(stack)' /\ ParentHasRightFile' /\ MinusIncludeIsCommandLine'
  BY <1>4 DEF IInv, Branch, ParentHasRightFile, MinusIncludeIsCommandLine
<1>7. ChainInv'
  BY <1>1, <1>2, <1>3, <1>4 DEF IInv, ChainInv
<1>8. FollowsInv'
  BY <1>1, <1>2, <1>3, <1>4 DEF IInv, FollowsInv
<1>9. QED
  BY <1>5, <1>6, <1>7, <1>8 DEF IInv

LEMMA EnterMainIInv == IInv /\ EnterMain => IInv'
<1> SUFFICES ASSUME IInv, EnterMain PROVE IInv'
  OBVIOUS
<1>1. UNCHANGED <<lex, origin, defined, nodes, rootFile, stack, seenMain, mustExpand,
                  wanted, guards, status>> /\ Inclusion' = Inclusion /\ inMain' = TRUE
  BY DEF EnterMain, treeVars, Inclusion
<1>2. status = "build" /\ Len(lex) = 1
  BY DEF EnterMain
<1>3. TypeOK'
  BY <1>1 DEF IInv, TypeOK
<1>4. Branch(stack)' /\ ParentHasRightFile' /\ MinusIncludeIsCommandLine'
  BY <1>1 DEF IInv, Branch, ParentHasRightFile, MinusIncludeIsCommandLine
<1>5. ChainInv' /\ FollowsInv'
  BY <1>1, <1>2 DEF IInv, ChainInv, FollowsInv
<1>6. QED
  BY <1>3, <1>4, <1>5 DEF IInv

-----------------------------------------------------------------------------
\* Appending a node below an element of a branch, and pushing it onto what is
\* left of the branch.
LEMMA PushIsBranch ==
  ASSUME nodes \in Seq(IncludeNode), NEW b, Branch(b), NEW i \in 1..Len(b),
         NEW rec, rec.parent = b[i], nodes' = Append(nodes, rec),
         stack' = Append(SubSeq(b, 1, i), Len(nodes) + 1)
  PROVE  /\ Branch(stack)'
         /\ Len(stack') = i + 1 /\ stack'[i + 1] = Len(nodes) + 1
         /\ \A k \in 1..i : stack'[k] = b[k]
<1> DEFINE t == SubSeq(b, 1, i)
           n == Len(nodes) + 1
<1>1. b \in Seq(Nat) /\ i \in Nat /\ i > 0 /\ Len(b) \in Nat /\ \A k \in 1..i : k \in 1..Len(b)
  BY DEF Branch
<1>2. t \in Seq(Nat) /\ Len(t) = i /\ (\A k \in 1..i : t[k] = b[k]) /\ Branch(t)
  BY <1>1, PrefixFacts, PrefixIsBranch
<1>3. /\ n \in Nat /\ Len(nodes') = n /\ nodes'[n] = rec
      /\ \A m \in 1..Len(nodes) : nodes'[m] = nodes[m]
  OBVIOUS
<1> HIDE DEF t
<1>4. /\ stack' \in Seq(Nat) /\ Len(stack') = i + 1 /\ stack'[i + 1] = n
      /\ \A k \in 1..i : stack'[k] = t[k]
  BY <1>1, <1>2, <1>3 DEF t
<1>5. \A k \in 1..(i + 1) : k \in 1..i \/ k = i + 1
  BY <1>1
<1>6. \A k \in 1..i : t[k] \in Inclusion /\ t[k] < n /\ t[k] \in Nat
  BY <1>2, <1>3 DEF Branch, Inclusion
<1> HIDE DEF n
<1>7. Inclusion' = 0..n /\ Inclusion \subseteq Inclusion' /\ n \in Inclusion'
  BY <1>3 DEF Inclusion, n
<1>8. \A k \in 1..(i + 1) : stack'[k] \in Inclusion'
  BY <1>4, <1>5, <1>6, <1>7
<1>9. stack'[1] = Root
  BY <1>1, <1>2, <1>4 DEF Branch
<1>10. \A k, m \in 1..(i + 1) : k < m => stack'[k] < stack'[m]
  <2> SUFFICES ASSUME NEW k \in 1..(i + 1), NEW m \in 1..(i + 1), k < m
               PROVE  stack'[k] < stack'[m]
    OBVIOUS
  <2>1. k \in 1..i
    BY <1>1
  <2>2. CASE m \in 1..i
    BY <1>2, <1>4, <2>1, <2>2 DEF Branch
  <2>3. CASE m = i + 1
    BY <1>4, <1>6, <2>1, <2>3
  <2>4. QED
    BY <1>5, <2>2, <2>3
<1>11. \A k \in 1..(i + 1) : k > 1 => nodes'[stack'[k]].parent = stack'[k - 1]
  <2> SUFFICES ASSUME NEW k \in 1..(i + 1), k > 1
               PROVE  nodes'[stack'[k]].parent = stack'[k - 1]
    OBVIOUS
  <2>1. k - 1 \in 1..i /\ 1 \in 1..i
    BY <1>1
  <2>2. CASE k = i + 1
    <3>1. nodes'[stack'[k]].parent = b[i] /\ i \in 1..i
      BY <1>1, <1>3, <1>4, <2>2 DEF n
    <3>2. QED
      BY <1>1, <1>2, <1>4, <2>2, <3>1
  <2>3. CASE k \in 1..i
    <3>1. t[1] = Root /\ t[1] < t[k]
      BY <1>2, <2>1, <2>3 DEF Branch
    <3>2. t[k] \in 1..Len(nodes)
      BY <1>2, <3>1, <2>3 DEF Branch, Inclusion, Root
    <3>3. nodes[t[k]].parent = t[k - 1]
      BY <1>2, <2>3 DEF Branch
    <3>4. QED
      BY <1>3, <1>4, <2>1, <2>3, <3>2, <3>3
  <2>4. QED
    BY <1>5, <2>2, <2>3
<1>12. stack' # <<>>
  <2>1. Len(stack') # 0
    BY <1>1, <1>4
  <2>2. QED
    BY <2>1
<1>13. Branch(stack)'
  BY <1>4, <1>8, <1>9, <1>10, <1>11, <1>12 DEF Branch
<1>14. Len(stack') = i + 1 /\ stack'[i + 1] = Len(nodes) + 1
  BY <1>4 DEF n
<1>15. \A k \in 1..i : stack'[k] = b[k]
  BY <1>2, <1>4
<1>16. QED
  BY <1>13, <1>14, <1>15

-----------------------------------------------------------------------------
\* Inside the last position the rewind leaves, the chain of open files is kept.
LEMMA ChainKept ==
  ASSUME IInv, status = "build", Top(lex) # Root,
         NEW i, Rewinds(stack, rootFile, ThisFile, i)
  PROVE  /\ i \in 1..Len(stack)
         /\ Top(lex) <= stack[i]
         /\ \A k \in 1..Len(lex) : lex[k] # Root => \E j \in 1..i : stack[j] = lex[k]
<1>1. /\ i \in 1..Len(stack)
      /\ \A m \in 1..Len(stack) : m > i => FileGiven(rootFile, stack[m]) # ThisFile
  BY DEF Rewinds
<1>2. PICK j \in 1..Len(stack) : stack[j] = Top(lex)
  BY BaseFacts
<1>3. Top(lex) \in Inclusion /\ ThisFile = nodes[Top(lex)].file
  BY BaseFacts
<1>4. FileGiven(rootFile, stack[j]) = ThisFile
  BY <1>2, <1>3, FileOfNode DEF IInv
<1>5. Len(stack) \in Nat
  BY DEF IInv, TypeOK
<1>6. j <= i
  BY <1>1, <1>4, <1>5
<1>7. /\ \A k, m \in 1..Len(stack) : k < m => stack[k] < stack[m]
      /\ \A k \in 1..Len(stack) : stack[k] \in Nat
  BY DEF IInv, Branch
<1>8. stack[j] <= stack[i]
  <2>1. CASE j = i
    BY <1>1, <1>7, <2>1
  <2>2. CASE j < i
    BY <1>1, <1>7, <2>2
  <2>3. QED
    BY <1>1, <1>5, <1>6, <2>1, <2>2
<1>9. ASSUME NEW k \in 1..Len(lex), lex[k] # Root
      PROVE  \E m \in 1..i : stack[m] = lex[k]
  <2>1. PICK m \in 1..Len(stack) : stack[m] = lex[k]
    BY <1>9 DEF IInv, FollowsInv
  <2>2. /\ lex \in Seq(Nat) /\ Len(lex) \in Nat
        /\ \A x, y \in 1..Len(lex) : x < y => lex[x] < lex[y]
    BY DEF IInv, TypeOK, ChainInv
  <2>3. Len(lex) \in 1..Len(lex) /\ lex[k] \in Nat /\ lex[Len(lex)] \in Nat
    BY <2>2
  <2>4. lex[k] <= lex[Len(lex)]
    <3>1. CASE k = Len(lex)
      BY <2>3, <3>1
    <3>2. CASE k < Len(lex)
      BY <2>2, <2>3, <3>2
    <3>3. QED
      BY <2>2, <3>1, <3>2
  <2>5. stack[m] <= stack[i]
    BY <1>1, <1>2, <1>7, <1>8, <2>1, <2>3, <2>4 DEF Top
  <2>6. ~(i < m)
    BY <1>1, <1>7, <2>5
  <2>7. m \in 1..i
    BY <1>1, <1>5, <2>6
  <2>8. QED
    BY <2>1, <2>7
<1>10. QED
  BY <1>1, <1>2, <1>8, <1>9

\* The file of an entry that is not in an include is Root's alone.
LEMMA RewindsToRoot ==
  ASSUME IInv, status = "build", Top(lex) = Root,
         NEW i, Rewinds(Base, RootFileNow, ThisFile, i)
  PROVE  Base[i] = Root
<1>1. Branch(Base) /\ ThisFile \in {NoFile, Main}
  BY BaseFacts
<1>2. i \in 1..Len(Base) /\ FileGiven(RootFileNow, Base[i]) = ThisFile
  BY DEF Rewinds
<1>3. Base[i] \in Inclusion
  BY <1>1, <1>2 DEF Branch
<1>4. QED
  BY <1>1, <1>2, <1>3, FileOfNode, FilesDiffer DEF IInv

\* An #include: the new node hangs below a node of the right file, and the stack
\* follows the preprocessor into it.
LEMMA IncludeIInv ==
  ASSUME IInv, NEW f \in Headers, NEW entered \in BOOLEAN, NEW verdict \in Verdicts,
         NEW reach \in Reach, Include(f, entered, verdict, reach)
  PROVE  IInv'
<1> DEFINE n == Len(nodes) + 1
<1>1. PICK i \in 1..Len(Base) :
        /\ Rewinds(Base, RootFileNow, ThisFile, i)
        /\ nodes' = Append(nodes, NewNode(f, verdict, reach, Base[i]))
        /\ stack' = Append(SubSeq(Base, 1, i), n)
  BY DEF Include
<1>2. /\ status = "build" /\ status' = "build"
      /\ seenMain' = (seenMain \/ SeesMain) /\ rootFile' = RootFileNow
      /\ wanted' = wanted \ {f} /\ mustExpand' = mustExpand /\ guards' = guards
      /\ inMain' = inMain /\ defined' = defined
      /\ origin' = Append(origin, [from |-> Top(lex), cmdline |-> ~inMain])
      /\ lex' = IF entered THEN Append(lex, n) ELSE lex
  BY DEF Include
<1>3. /\ Branch(Base) /\ Top(lex) \in Inclusion
      /\ nodes \in Seq(IncludeNode) /\ TypeOK /\ Len(nodes) \in Nat
      /\ Len(origin) = Len(nodes) /\ ChainInv /\ FollowsInv
  BY <1>2, BaseFacts DEF IInv, TypeOK
<1>4. /\ Base[i] \in Nat /\ Base[i] \in Inclusion
  BY <1>3 DEF Branch
<1>5. /\ NewNode(f, verdict, reach, Base[i]) \in IncludeNode
      /\ NewNode(f, verdict, reach, Base[i]).parent = Base[i]
      /\ NewNode(f, verdict, reach, Base[i]).file = f
      /\ NewNode(f, verdict, reach, Base[i]).minus = ~(seenMain \/ SeesMain)
  BY <1>4, InputsOK DEF NewNode, IncludeNode
<1>6. /\ Branch(stack)' /\ Len(stack') = i + 1 /\ stack'[i + 1] = n
      /\ \A k \in 1..i : stack'[k] = Base[k]
  BY <1>1, <1>3, <1>5, PushIsBranch
<1>7. /\ nodes' \in Seq(IncludeNode) /\ Len(nodes') = n /\ n \in Nat
      /\ \A m \in 1..Len(nodes) : nodes'[m] = nodes[m]
      /\ nodes'[n] = NewNode(f, verdict, reach, Base[i])
      /\ \A m \in 1..n : m \in 1..Len(nodes) \/ m = n
  BY <1>1, <1>3, <1>5
<1>8. /\ origin' \in Seq([from : Nat, cmdline : BOOLEAN]) /\ Len(origin') = n
      /\ \A m \in 1..Len(nodes) : origin'[m] = origin[m]
      /\ origin'[n] = [from |-> Top(lex), cmdline |-> ~inMain]
  <2>1. [from |-> Top(lex), cmdline |-> ~inMain] \in [from : Nat, cmdline : BOOLEAN]
    BY <1>3 DEF TypeOK, Inclusion
  <2>2. origin \in Seq([from : Nat, cmdline : BOOLEAN])
    BY <1>3 DEF TypeOK
  <2>3. QED
    BY <1>2, <1>3, <2>1, <2>2
<1>9. lex \in Seq(Nat) /\ Len(lex) \in Nat /\ Len(lex) > 0 /\ lex[1] = Root
  BY <1>3 DEF TypeOK
<1>11. /\ lex' \in Seq(Nat) /\ Len(lex') > 0 /\ lex'[1] = Root
       /\ \A k \in 1..Len(lex) : lex'[k] = lex[k]
       /\ \A k \in 1..Len(lex') : k \in 1..Len(lex) \/ (k = Len(lex) + 1 /\ lex'[k] = n)
       /\ entered => Len(lex') = Len(lex) + 1
       /\ ~entered => lex' = lex
  <2>1. CASE entered
    BY <2>1, <1>2, <1>7, <1>9
  <2>2. CASE ~entered
    BY <2>2, <1>2, <1>9
  <2>3. QED
    BY <2>1, <2>2
<1> HIDE DEF n
<1>12. Inclusion' = 0..n /\ Inclusion = 0..Len(nodes) /\ Inclusion \subseteq Inclusion'
       /\ n \in Inclusion' /\ \A m \in Inclusion : m < n /\ m \in Nat
  BY <1>3, <1>7 DEF Inclusion, n
<1>13. TypeOK'
  <2>1. \A k \in 1..Len(lex') : lex'[k] \in Inclusion'
    BY <1>3, <1>11, <1>12 DEF TypeOK
  <2>2. \A m \in 1..n : nodes'[m].parent < m
    BY <1>3, <1>4, <1>5, <1>7, <1>12 DEF TypeOK
  <2>3. ASSUME NEW m \in 1..n PROVE origin'[m].from < m
    <3>1. CASE m \in 1..Len(nodes)
      BY <1>3, <1>8, <3>1 DEF TypeOK
    <3>2. CASE m = n
      BY <1>3, <1>8, <1>12, <3>2
    <3>3. QED
      BY <1>7, <3>1, <3>2
  <2>4. stack' \in Seq(Nat) /\ \A k \in 1..Len(stack') : stack'[k] \in Inclusion'
    BY <1>6 DEF Branch
  <2>5. seenMain' \in BOOLEAN /\ rootFile' \in {NoFile, Main} /\ inMain' \in BOOLEAN
    BY <1>2, <1>3 DEF TypeOK, SeesMain, RootFileNow
  <2>6. /\ defined' \subseteq Inclusion' /\ mustExpand' \subseteq Headers
        /\ wanted' \subseteq mustExpand' /\ DOMAIN guards' \subseteq Inclusion'
        /\ \A m \in DOMAIN guards' : guards'[m] \in Inclusion'
    BY <1>2, <1>3, <1>12 DEF TypeOK
  <2>7. QED
    BY <1>2, <1>7, <1>8, <1>11, <2>1, <2>2, <2>3, <2>4, <2>5, <2>6 DEF TypeOK
<1>14. ASSUME Base[i] # Top(lex)
       PROVE  /\ Top(lex) < Base[i] /\ Top(lex) # Root
              /\ nodes[Base[i]].file = nodes[Top(lex)].file
  <2>1. Top(lex) # Root
    BY <1>1, <1>2, <1>14, RewindsToRoot
  <2>2. Base = stack /\ RootFileNow = rootFile /\ ThisFile = nodes[Top(lex)].file
    BY <1>2, <2>1, BaseFacts
  <2>3. Top(lex) <= Base[i]
    BY <1>1, <1>2, <2>1, <2>2, ChainKept
  <2>4. Top(lex) < Base[i] /\ Base[i] # Root
    BY <1>3, <1>4, <1>12, <1>14, <2>1, <2>3 DEF Root
  <2>5. FileGiven(RootFileNow, Base[i]) = ThisFile
    BY <1>1 DEF Rewinds
  <2>6. nodes[Base[i]].file = ThisFile
    BY <1>3, <1>4, <2>4, <2>5, FileOfNode
  <2>7. QED
    BY <2>1, <2>2, <2>4, <2>6
<1>15. ParentHasRightFile'
  <2> SUFFICES ASSUME NEW m \in 1..n, nodes'[m].parent # origin'[m].from
               PROVE  /\ origin'[m].from < nodes'[m].parent /\ origin'[m].from # Root
                      /\ nodes'[nodes'[m].parent].file = nodes'[origin'[m].from].file
    BY <1>7 DEF ParentHasRightFile
  <2>1. CASE m \in 1..Len(nodes)
    <3> DEFINE p == nodes[m].parent
               o == origin[m].from
    <3>1. /\ p # o => o < p /\ o # Root /\ nodes[p].file = nodes[o].file
          /\ nodes[m] \in IncludeNode /\ origin[m] \in [from : Nat, cmdline : BOOLEAN]
          /\ p < m /\ o < m
      <4>1. nodes[m] \in IncludeNode /\ p < m
        BY <1>3, <2>1 DEF TypeOK
      <4>2. origin[m] \in [from : Nat, cmdline : BOOLEAN] /\ o < m
        <5>1. m \in 1..Len(origin)
          BY <1>3, <2>1
        <5>2. /\ origin \in Seq([from : Nat, cmdline : BOOLEAN])
              /\ \A x \in 1..Len(origin) : origin[x].from < x
          BY <1>3 DEF TypeOK
        <5>3. origin[m] \in [from : Nat, cmdline : BOOLEAN]
          BY ONLY <5>1, <5>2, ElementOfSeq
        <5>4. o < m
          BY <5>1, <5>2
        <5>5. QED
          BY <5>3, <5>4
      <4>3. p # o => o < p /\ o # Root /\ nodes[p].file = nodes[o].file
        BY <2>1 DEF IInv, ParentHasRightFile
      <4>4. QED
        BY <4>1, <4>2, <4>3
    <3>2. p \in Nat /\ o \in Nat /\ nodes'[m].parent = p /\ origin'[m].from = o
      BY <1>7, <1>8, <2>1, <3>1 DEF IncludeNode
    <3>3. o < p /\ o # Root /\ nodes[p].file = nodes[o].file
      BY <3>1, <3>2
    <3>4. p \in 1..Len(nodes) /\ o \in 1..Len(nodes)
      BY <1>3, <2>1, <3>1, <3>2, <3>3 DEF Root
    <3>5. QED
      BY <1>7, <3>2, <3>3, <3>4
  <2>2. CASE m = n
    <3>1. nodes'[m].parent = Base[i] /\ origin'[m].from = Top(lex)
      BY <1>5, <1>7, <1>8, <2>2
    <3>2. Top(lex) < Base[i] /\ Top(lex) # Root /\ nodes[Base[i]].file = nodes[Top(lex)].file
      BY <1>14, <3>1
    <3>3. Base[i] \in 1..Len(nodes) /\ Top(lex) \in 1..Len(nodes)
      BY <1>3, <1>4, <1>12, <3>2 DEF Root
    <3>4. QED
      BY <1>7, <3>1, <3>2, <3>3
  <2>3. QED
    BY <1>7, <2>1, <2>2
<1>16. (seenMain \/ SeesMain) <=> inMain
  <2>1. CASE Top(lex) = Root
    BY <1>3, <2>1, FilesDiffer DEF SeesMain, ThisFile, FollowsInv
  <2>2. CASE Top(lex) # Root
    <3>1. ThisFile # Main
      BY <1>2, <2>2, BaseFacts, FilesDiffer
    <3>2. Len(lex) > 1
      BY <1>9, <2>2 DEF Top
    <3>3. QED
      BY <1>3, <3>1, <3>2 DEF SeesMain, ChainInv, FollowsInv
  <2>3. QED
    BY <2>1, <2>2
<1>17. MinusIncludeIsCommandLine'
  BY <1>3, <1>5, <1>7, <1>8, <1>16 DEF IInv, MinusIncludeIsCommandLine
<1>18. ChainInv'
  <2>1. \A k, m \in 1..Len(lex') : k < m => lex'[k] < lex'[m]
    <3> SUFFICES ASSUME NEW k \in 1..Len(lex'), NEW m \in 1..Len(lex'), k < m
                 PROVE  lex'[k] < lex'[m]
      OBVIOUS
    <3>1. k \in 1..Len(lex)
      BY <1>9, <1>11
    <3>2. CASE m \in 1..Len(lex)
      BY <1>3, <1>11, <3>1, <3>2 DEF ChainInv
    <3>3. CASE m = Len(lex) + 1 /\ lex'[m] = n
      BY <1>3, <1>11, <1>12, <3>1, <3>3 DEF TypeOK
    <3>4. QED
      BY <1>11, <3>2, <3>3
  <2>2. QED
    BY <1>2, <1>16, <2>1 DEF ChainInv
<1>19. FollowsInv'
  <2>1. ASSUME NEW k \in 1..Len(lex'), lex'[k] # Root
        PROVE  \E j \in 1..Len(stack') : stack'[j] = lex'[k]
    <3>1. CASE k \in 1..Len(lex)
      <4>1. lex[k] # Root /\ lex'[k] = lex[k]
        BY <1>11, <2>1, <3>1
      <4>2. Top(lex) # Root
        <5> SUFFICES ASSUME Top(lex) = Root PROVE FALSE
          OBVIOUS
        <5>1. Len(lex) = 1
          BY <1>2, BaseFacts
        <5>2. k = 1
          BY <3>1, <5>1
        <5>3. QED
          BY <1>9, <4>1, <5>2
      <4>3. Base = stack /\ RootFileNow = rootFile
        BY <1>2, <4>2, BaseFacts
      <4>4. PICK j \in 1..i : stack[j] = lex[k]
        BY <1>1, <1>2, <3>1, <4>1, <4>2, <4>3, ChainKept
      <4>5. j \in 1..Len(stack')
        BY <1>6
      <4>6. QED
        BY <1>6, <4>1, <4>3, <4>4, <4>5
    <3>2. CASE lex'[k] = n
      <4>1. i + 1 \in 1..Len(stack')
        BY <1>6
      <4>2. QED
        BY <1>6, <3>2, <4>1
    <3>3. QED
      BY <1>11, <3>1, <3>2
  <2>2. stack' # <<>>
    <3>1. Len(stack') # 0
      BY <1>6
    <3>2. QED
      BY <3>1
  <2>3. rootFile' = IF seenMain' THEN Main ELSE NoFile
    BY <1>2, <1>3 DEF FollowsInv, RootFileNow
  <2>4. QED
    BY <1>2, <1>16, <2>1, <2>2, <2>3 DEF FollowsInv
<1>20. QED
  BY <1>2, <1>6, <1>13, <1>15, <1>17, <1>18, <1>19 DEF IInv

-----------------------------------------------------------------------------
\* An #include that is refused ends the program.
LEMMA IncludeDeniedIInv ==
  ASSUME IInv, NEW f \in Headers, NEW verdict \in Verdicts, IncludeDenied(f, verdict)
  PROVE  IInv'
<1>1. PICK i \in 1..Len(Base) : stack' = SubSeq(Base, 1, i)
  BY DEF IncludeDenied
<1>2. /\ status = "build" /\ status' = "error" /\ seenMain' = (seenMain \/ SeesMain)
      /\ rootFile' = RootFileNow /\ wanted' = wanted \ {f}
      /\ UNCHANGED <<lex, inMain, origin, defined, nodes, mustExpand, guards>>
      /\ Inclusion' = Inclusion
  BY DEF IncludeDenied, ppVars, Inclusion
<1>3. Branch(stack')
  BY <1>1, <1>2, BaseFacts, PrefixIsBranch
<1>4. Branch(stack)'
  BY <1>2, <1>3 DEF Branch
<1>5. TypeOK'
  <2>1. stack' \in Seq(Nat) /\ \A k \in 1..Len(stack') : stack'[k] \in Inclusion
    BY <1>3 DEF Branch
  <2>2. seenMain' \in BOOLEAN /\ rootFile' \in {NoFile, Main}
    BY <1>2 DEF IInv, TypeOK, SeesMain, RootFileNow
  <2>3. QED
    BY <1>2, <2>1, <2>2 DEF IInv, TypeOK
<1>6. ParentHasRightFile' /\ MinusIncludeIsCommandLine'
  BY <1>2 DEF IInv, ParentHasRightFile, MinusIncludeIsCommandLine
<1>7. QED
  BY <1>2, <1>4, <1>5, <1>6 DEF IInv

\* A header guard: popping to the file that defines it keeps the open headers.
LEMMA GuardDefinitionIInv == IInv /\ GuardDefinition => IInv'
<1> SUFFICES ASSUME IInv, GuardDefinition PROVE IInv'
  OBVIOUS
<1>1. PICK i \in 1..Len(stack) :
        /\ Rewinds(stack, rootFile, ThisFile, i)
        /\ stack' = SubSeq(stack, 1, i)
        /\ guards' = IF stack[i] \in DOMAIN guards THEN guards
                     ELSE [m \in DOMAIN guards \cup {stack[i]} |->
                             IF m = stack[i] THEN Top(lex) ELSE guards[m]]
  BY DEF GuardDefinition
<1>2. /\ status = "build" /\ ThisFile # NoFile
      /\ defined' = defined \cup {Top(lex)}
      /\ UNCHANGED <<lex, inMain, origin, nodes, rootFile, seenMain, mustExpand, wanted, status>>
      /\ Inclusion' = Inclusion
  BY DEF GuardDefinition, Inclusion
<1>3. /\ Branch(stack) /\ TypeOK /\ ChainInv /\ FollowsInv /\ Top(lex) \in Inclusion
      /\ stack \in Seq(Nat) /\ Len(stack) \in Nat
  <2>1. Branch(stack) /\ TypeOK /\ ChainInv /\ FollowsInv
    BY <1>2 DEF IInv
  <2>2. Top(lex) \in Inclusion
    BY <1>2, BaseFacts
  <2>3. stack \in Seq(Nat) /\ Len(stack) \in Nat
    BY <2>1 DEF TypeOK
  <2>4. QED
    BY <2>1, <2>2, <2>3
<1>4. Branch(stack')
  BY <1>1, <1>3, PrefixIsBranch
<1>5. Branch(stack)'
  BY <1>2, <1>4 DEF Branch
<1>6. Len(stack') = i /\ stack' # <<>> /\ \A k \in 1..i : stack'[k] = stack[k]
  BY <1>1, <1>3, PrefixFacts
<1>7. stack[i] \in Inclusion
  BY <1>3 DEF Branch
<1>8. DOMAIN guards' \subseteq Inclusion /\ \A m \in DOMAIN guards' : guards'[m] \in Inclusion
  <2>1. CASE stack[i] \in DOMAIN guards
    BY <2>1, <1>1, <1>3 DEF TypeOK
  <2>2. CASE stack[i] \notin DOMAIN guards
    <3>1. DOMAIN guards' = DOMAIN guards \cup {stack[i]}
      BY <1>1, <2>2
    <3>2. \A m \in DOMAIN guards' : guards'[m] = IF m = stack[i] THEN Top(lex) ELSE guards[m]
      BY <1>1, <2>2, <3>1
    <3>3. QED
      BY <1>3, <1>7, <3>1, <3>2 DEF TypeOK
  <2>3. QED
    BY <2>1, <2>2
<1>9. TypeOK'
  <2>1. stack' \in Seq(Nat) /\ \A k \in 1..Len(stack') : stack'[k] \in Inclusion
    BY <1>4 DEF Branch
  <2>2. defined' \subseteq Inclusion
    BY <1>2, <1>3 DEF TypeOK
  <2>3. QED
    BY <1>2, <1>3, <1>8, <2>1, <2>2 DEF TypeOK
<1>10. ParentHasRightFile' /\ MinusIncludeIsCommandLine'
  BY <1>2 DEF IInv, ParentHasRightFile, MinusIncludeIsCommandLine
<1>11. ChainInv'
  BY <1>2, <1>3 DEF ChainInv
<1>12. FollowsInv'
  <2>1. ASSUME NEW k \in 1..Len(lex), lex[k] # Root
        PROVE  \E j \in 1..i : stack[j] = lex[k]
    <3>1. Top(lex) # Root
      <4> SUFFICES ASSUME Top(lex) = Root PROVE FALSE
        OBVIOUS
      <4>1. Len(lex) = 1
        BY <1>2, BaseFacts
      <4>2. k = 1 /\ lex[1] = Root
        BY <1>3, <4>1 DEF TypeOK
      <4>3. QED
        BY <2>1, <4>2
    <3>2. QED
      BY <1>1, <1>2, <2>1, <3>1, ChainKept
  <2>2. \A k \in 1..Len(lex) : lex[k] # Root => \E j \in 1..Len(stack') : stack'[j] = lex[k]
    BY <1>6, <2>1
  <2>3. QED
    BY <1>2, <1>3, <1>6, <2>2 DEF FollowsInv
<1>13. QED
  BY <1>5, <1>9, <1>10, <1>11, <1>12 DEF IInv

LEMMA GuardDefinitionUnderflowIInv == IInv /\ GuardDefinitionUnderflow => IInv'
<1> SUFFICES ASSUME IInv, GuardDefinitionUnderflow PROVE IInv'
  OBVIOUS
<1>1. /\ status = "build" /\ status' = "ub" /\ stack' = <<>>
      /\ defined' = defined \cup {Top(lex)}
      /\ UNCHANGED <<lex, inMain, origin, nodes, rootFile, seenMain, mustExpand, wanted, guards>>
      /\ Inclusion' = Inclusion
  BY DEF GuardDefinitionUnderflow, Inclusion
<1>2. Len(stack') = 0 /\ stack' \in Seq(Nat) /\ Top(lex) \in Inclusion
  BY <1>1, BaseFacts
<1>3. TypeOK'
  BY <1>1, <1>2 DEF IInv, TypeOK
<1>4. Branch(stack)'
  BY <1>1, <1>2 DEF Branch
<1>5. ParentHasRightFile' /\ MinusIncludeIsCommandLine'
  BY <1>1 DEF IInv, ParentHasRightFile, MinusIncludeIsCommandLine
<1>6. QED
  BY <1>1, <1>3, <1>4, <1>5 DEF IInv

LEMMA FinishIInv == IInv /\ Finish => IInv'
<1> SUFFICES ASSUME IInv, Finish PROVE IInv'
  OBVIOUS
<1>1. /\ status' = "built" /\ rootFile' = (IF seenMain THEN rootFile ELSE Main)
      /\ UNCHANGED <<lex, inMain, origin, defined, nodes, stack, seenMain, mustExpand, wanted, guards>>
      /\ Inclusion' = Inclusion
  BY DEF Finish, ppVars, Inclusion
<1>2. TypeOK'
  BY <1>1 DEF IInv, TypeOK
<1>3. Branch(stack)' /\ ParentHasRightFile' /\ MinusIncludeIsCommandLine'
  BY <1>1 DEF IInv, Branch, ParentHasRightFile, MinusIncludeIsCommandLine
<1>4. QED
  BY <1>1, <1>2, <1>3 DEF IInv

LEMMA StutterIInv == IInv /\ UNCHANGED vars => IInv'
<1> SUFFICES ASSUME IInv, UNCHANGED vars PROVE IInv'
  OBVIOUS
<1>1. UNCHANGED <<lex, inMain, origin, defined, nodes, rootFile, stack, seenMain, mustExpand,
                  wanted, guards, status>> /\ Inclusion' = Inclusion
  BY DEF vars, Inclusion
<1>2. TypeOK'
  BY <1>1 DEF IInv, TypeOK
<1>3. Branch(stack)' /\ ParentHasRightFile' /\ MinusIncludeIsCommandLine'
  BY <1>1 DEF IInv, Branch, ParentHasRightFile, MinusIncludeIsCommandLine
<1>4. ChainInv' <=> ChainInv
  BY <1>1 DEF ChainInv
<1>5. FollowsInv' <=> FollowsInv
  BY <1>1 DEF FollowsInv
<1>6. QED
  BY <1>1, <1>2, <1>3, <1>4, <1>5 DEF IInv

-----------------------------------------------------------------------------
\* The strengthened invariant of Build_Header_Tree.
THEOREM Inductive == Spec => []IInv
<1>1. IInv /\ [Next]_vars => IInv'
  BY LeaveFileIInv, EnterMainIInv, IncludeIInv, IncludeDeniedIInv, GuardDefinitionIInv,
     GuardDefinitionUnderflowIInv, FinishIInv, StutterIInv DEF Next
<1>2. QED
  BY <1>1, InitIInv, PTL DEF Spec

\* Variables keep their types for records of any length.
THEOREM TypeCorrect == Spec => []TypeOK
<1>1. IInv => TypeOK
  BY DEF IInv
<1>2. QED
  BY <1>1, Inductive, PTL

\* For an #include the search "Pop the stack until we find which HeaderNode we
\* currently are" always ends in the stack, whatever the record says.
THEOREM IncludeFindsItsFileHolds == Spec => []IncludeFindsItsFile
<1>1. IInv => IncludeFindsItsFile
  <2> SUFFICES ASSUME IInv, status = "build"
               PROVE  \E i \in 1..Len(Base) : Rewinds(Base, RootFileNow, ThisFile, i)
    BY DEF IncludeFindsItsFile
  <2>1. Base \in Seq(Nat) /\ Len(Base) \in Nat /\ Base # <<>> /\ Base[1] = Root
    BY BaseFacts DEF Branch
  <2>2. CASE Top(lex) = Root
    <3>1. 1 \in 1..Len(Base)
      BY <2>1
    <3>2. FileGiven(RootFileNow, Base[1]) = ThisFile
      BY <2>1, <2>2, RootStandsForMain DEF FileGiven
    <3>3. QED
      BY <2>1, <3>1, <3>2, RewindEnds
  <2>3. CASE Top(lex) # Root
    <3>1. PICK j \in 1..Len(Base) : Base[j] = Top(lex)
      BY <2>3, BaseFacts
    <3>2. FileGiven(RootFileNow, Base[j]) = ThisFile
      BY <2>3, <3>1, BaseFacts, FileOfNode DEF IInv
    <3>3. QED
      BY <2>1, <3>1, <3>2, RewindEnds
  <2>4. QED
    BY <2>2, <2>3
<1>2. QED
  BY <1>1, Inductive, PTL

\* The stack is always a path of the tree from Root downwards.
THEOREM StackIsBranchHolds == Spec => []StackIsBranch
<1>1. IInv => StackIsBranch
  BY DEF IInv, Branch, StackIsBranch
<1>2. QED
  BY <1>1, Inductive, PTL

\* A node hangs below a copy of the very file that includes it, and where it is
\* the wrong copy that copy was included later.
THEOREM ParentHasRightFileHolds == Spec => []ParentHasRightFile
<1>1. IInv => ParentHasRightFile
  BY DEF IInv
<1>2. QED
  BY <1>1, Inductive, PTL

\* IsFromMinusInclude is set exactly for what is read before the main file.
THEOREM MinusIncludeIsCommandLineHolds == Spec => []MinusIncludeIsCommandLine
<1>1. IInv => MinusIncludeIsCommandLine
  BY DEF IInv
<1>2. QED
  BY <1>1, Inductive, PTL

-----------------------------------------------------------------------------
\* Nodes are only ever appended, so a node keeps its file.
LEMMA FilesKept ==
  ASSUME TypeOK, [Next]_vars, NEW n \in Inclusion
  PROVE  FileGiven(Main, n)' = FileGiven(Main, n)
<1>1. CASE UNCHANGED nodes
  BY <1>1 DEF FileGiven
<1>2. CASE \E f \in Headers, entered \in BOOLEAN, verdict \in Verdicts, reach \in Reach :
             Include(f, entered, verdict, reach)
  <2>1. PICK f \in Headers, entered \in BOOLEAN, verdict \in Verdicts, reach \in Reach :
          Include(f, entered, verdict, reach)
    BY <1>2
  <2>2. PICK i \in 1..Len(Base) : nodes' = Append(nodes, NewNode(f, verdict, reach, Base[i]))
    BY <2>1 DEF Include
  <2>3. nodes \in Seq(IncludeNode) /\ n \in 0..Len(nodes)
    BY DEF TypeOK, Inclusion
  <2>4. n # Root => nodes'[n] = nodes[n]
    BY <2>2, <2>3 DEF Root
  <2>5. QED
    BY <2>4 DEF FileGiven
<1>3. QED
  BY <1>1, <1>2 DEF Next, vars, LeaveFile, EnterMain, IncludeDenied, GuardDefinition,
                    GuardDefinitionUnderflow, Finish, treeVars, ppVars

\* The node a header guard is given to is one of the file that defines it.
LEMMA GuardStep ==
  ASSUME IInv, GuardHasRightFile, GuardDefinition
  PROVE  GuardHasRightFile'
<1>1. PICK i \in 1..Len(stack) :
        /\ Rewinds(stack, rootFile, ThisFile, i)
        /\ guards' = IF stack[i] \in DOMAIN guards THEN guards
                     ELSE [m \in DOMAIN guards \cup {stack[i]} |->
                             IF m = stack[i] THEN Top(lex) ELSE guards[m]]
  BY DEF GuardDefinition
<1>2. status = "build" /\ ThisFile # NoFile /\ UNCHANGED nodes
  BY DEF GuardDefinition
<1>3. FileGiven(rootFile, stack[i]) = ThisFile /\ stack[i] \in Inclusion
  BY <1>1 DEF Rewinds, IInv, Branch
<1>4. FileGiven(Main, Top(lex)) = ThisFile
  BY <1>2, BaseFacts DEF FileGiven, ThisFile
<1>5. rootFile \in {NoFile, Main}
  BY DEF IInv, TypeOK
<1>6. FileGiven(Main, stack[i]) = ThisFile
  BY <1>2, <1>3, <1>5 DEF FileGiven
<1>7. ASSUME NEW n \in DOMAIN guards'
      PROVE  FileGiven(Main, n) = FileGiven(Main, guards'[n])
  <2>1. CASE n \in DOMAIN guards /\ guards'[n] = guards[n]
    BY <2>1 DEF GuardHasRightFile
  <2>2. CASE n = stack[i] /\ guards'[n] = Top(lex)
    BY <1>4, <1>6, <2>2
  <2>3. QED
    BY <1>1, <2>1, <2>2
<1>8. QED
  BY <1>2, <1>7 DEF GuardHasRightFile, FileGiven

\* A header guard is registered for an inclusion of the very file that defines
\* it, also where the stack was popped past other files to find one.
THEOREM GuardHasRightFileHolds == Spec => []GuardHasRightFile
<1>1. Init => GuardHasRightFile
  BY DEF Init, GuardHasRightFile
<1>2. IInv /\ GuardHasRightFile /\ [Next]_vars => GuardHasRightFile'
  <2> SUFFICES ASSUME IInv, GuardHasRightFile, [Next]_vars PROVE GuardHasRightFile'
    OBVIOUS
  <2>1. CASE GuardDefinition
    BY <2>1, GuardStep
  <2>2. CASE UNCHANGED guards
    <3> SUFFICES ASSUME NEW n \in DOMAIN guards
                 PROVE  FileGiven(Main, n)' = FileGiven(Main, guards[n])'
      BY <2>2 DEF GuardHasRightFile, FileGiven
    <3>1. TypeOK /\ n \in Inclusion /\ guards[n] \in Inclusion
      BY DEF IInv, TypeOK
    <3>2. FileGiven(Main, n)' = FileGiven(Main, n)
      BY <3>1, FilesKept
    <3>3. FileGiven(Main, guards[n])' = FileGiven(Main, guards[n])
      <4> DEFINE g == guards[n]
      <4>1. FileGiven(Main, g)' = FileGiven(Main, g)
        BY <2>2, <3>1, FilesKept DEF FileGiven
      <4>2. QED
        BY <4>1
    <3>4. FileGiven(Main, n) = FileGiven(Main, guards[n])
      BY DEF GuardHasRightFile
    <3>5. QED
      BY <3>2, <3>3, <3>4
  <2>3. QED
    BY <2>1, <2>2 DEF Next, vars, LeaveFile, EnterMain, Include, IncludeDenied,
                      GuardDefinitionUnderflow, Finish, treeVars, ppVars
<1>3. QED
  BY <1>1, <1>2, Inductive, PTL DEF Spec

-----------------------------------------------------------------------------
(***************************************************************************)
(* The tree as the sweeps and the map find it.                             *)
(***************************************************************************)
P(n) == nodes[n].parent

\* The directives are created in pre-order: once one hangs outside of n, none
\* that is younger hangs below what n had by then.
PreOrder ==
  \A n, m, c \in 1..Len(nodes) : n < m /\ m < c /\ P(m) < n => P(c) < n \/ P(c) >= m

\* What a command line header includes is read before the main file too.
MinusBelow == \A c \in 1..Len(nodes) : P(c) # Root => nodes[c].minus = nodes[P(c)].minus

\* Everything younger than an element of the stack is below that element, and
\* the elements were read in the part of the record that is read now.
Opened(s) ==
  s # Root => /\ nodes[s].minus = ~seenMain
              /\ \A m \in 1..Len(nodes) : m > s => P(m) >= s
StackOpen == \A k \in 1..Len(stack) : Opened(stack[k])

\* A header that is requested is requested of its first inclusion.
IsFirst(m, f) == /\ m \in 1..Len(nodes) /\ nodes[m].file = f
                 /\ \A k \in 1..Len(nodes) : k < m => nodes[k].file # f
FirstIsAsked ==
  \A f \in mustExpand :
    /\ f \in wanted => \A m \in 1..Len(nodes) : nodes[m].file # f
    /\ f \notin wanted => \E m \in 1..Len(nodes) : nodes[m].file = f
    /\ \A m \in 1..Len(nodes) : IsFirst(m, f) => nodes[m].expand

TreeInv ==
  /\ PreOrder /\ MinusBelow
  /\ status = "build" => StackOpen
  /\ status \in {"build", "built"} => FirstIsAsked

\* What an #include does to tree and stack.
LEMMA IncludeFacts ==
  ASSUME IInv, NEW f, NEW entered, NEW verdict, NEW reach,
         Include(f, entered, verdict, reach)
  PROVE  \E p \in Inclusion :
           /\ nodes' = Append(nodes, NewNode(f, verdict, reach, p))
           /\ \A k \in 1..Len(stack') :
                \/ stack'[k] = Len(nodes) + 1
                \/ stack'[k] = Root
                \/ stack'[k] <= p /\ ~SeesMain /\ \E j \in 1..Len(stack) : stack'[k] = stack[j]
           /\ p # Root => ~SeesMain /\ \E j \in 1..Len(stack) : p = stack[j]
<1>1. PICK i \in 1..Len(Base) :
        /\ nodes' = Append(nodes, NewNode(f, verdict, reach, Base[i]))
        /\ stack' = Append(SubSeq(Base, 1, i), Len(nodes) + 1)
  BY DEF Include
<1>2. Branch(Base) /\ nodes \in Seq(IncludeNode)
  BY BaseFacts DEF Include, IInv, TypeOK
<1>3. Base \in Seq(Nat) /\ Len(Base) \in Nat /\ Base[i] \in Inclusion
  BY <1>2 DEF Branch
<1>4. \A k \in 1..Len(Base) :
        Base[k] = Root \/ (~SeesMain /\ \E j \in 1..Len(stack) : Base[k] = stack[j])
  <2>1. CASE Base = <<Root>>
    BY <2>1
  <2>2. CASE Base # <<Root>>
    BY <2>2 DEF Base, SeesMain
  <2>3. QED
    BY <2>1, <2>2
<1>5. \A k \in 1..i : Base[k] <= Base[i]
  <2> SUFFICES ASSUME NEW k \in 1..i PROVE Base[k] <= Base[i]
    OBVIOUS
  <2>1. k \in 1..Len(Base) /\ Base[k] \in Nat /\ Base[i] \in Nat /\ (k < i \/ k = i)
    BY <1>3
  <2>2. k < i => Base[k] < Base[i]
    BY <1>2, <2>1 DEF Branch
  <2>3. QED
    BY <2>1, <2>2
<1>6. /\ SubSeq(Base, 1, i) \in Seq(Nat) /\ Len(SubSeq(Base, 1, i)) = i
      /\ \A k \in 1..i : SubSeq(Base, 1, i)[k] = Base[k]
  BY <1>3, PrefixFacts
<1>7. /\ Len(stack') = i + 1 /\ stack'[i + 1] = Len(nodes) + 1
      /\ \A k \in 1..i : stack'[k] = Base[k]
  <2> DEFINE t == SubSeq(Base, 1, i)
  <2> HIDE DEF t
  <2>1. t \in Seq(Nat) /\ Len(t) = i /\ stack' = Append(t, Len(nodes) + 1) /\ i \in Nat
    BY <1>1, <1>3, <1>6 DEF t
  <2>2. QED
    BY <2>1, <1>6 DEF t
<1>8. \A k \in 1..Len(stack') :
                \/ stack'[k] = Len(nodes) + 1
                \/ stack'[k] = Root
                \/ stack'[k] <= Base[i] /\ ~SeesMain /\ \E j \in 1..Len(stack) : stack'[k] = stack[j]
  <2> SUFFICES ASSUME NEW k \in 1..Len(stack'), stack'[k] # Len(nodes) + 1, stack'[k] # Root
               PROVE  stack'[k] <= Base[i] /\ ~SeesMain /\ \E j \in 1..Len(stack) : stack'[k] = stack[j]
    OBVIOUS
  <2>1. k \in 1..i /\ stack'[k] = Base[k] /\ k \in 1..Len(Base)
    BY <1>3, <1>7
  <2>2. QED
    BY <2>1, <1>4, <1>5
<1>9. QED
  BY <1>1, <1>3, <1>4, <1>8

LEMMA IncludeTreeInv ==
  ASSUME IInv, TreeInv, NEW f \in Headers, NEW entered, NEW verdict, NEW reach,
         Include(f, entered, verdict, reach)
  PROVE  TreeInv'
<1> DEFINE n == Len(nodes) + 1
<1>1. PICK p \in Inclusion :
           /\ nodes' = Append(nodes, NewNode(f, verdict, reach, p))
           /\ \A k \in 1..Len(stack') :
                \/ stack'[k] = Len(nodes) + 1
                \/ stack'[k] = Root
                \/ stack'[k] <= p /\ ~SeesMain /\ \E j \in 1..Len(stack) : stack'[k] = stack[j]
           /\ p # Root => ~SeesMain /\ \E j \in 1..Len(stack) : p = stack[j]
  BY IncludeFacts
<1>2. /\ status = "build" /\ status' = "build" /\ mustExpand' = mustExpand
      /\ wanted' = wanted \ {f} /\ seenMain' = (seenMain \/ SeesMain)
      /\ nodes \in Seq(IncludeNode) /\ Len(nodes) \in Nat /\ p \in Nat /\ p <= Len(nodes)
      /\ \A m \in 1..Len(nodes) : P(m) \in Nat /\ P(m) < m
      /\ StackOpen /\ PreOrder /\ MinusBelow /\ FirstIsAsked
      /\ \A k \in 1..Len(stack) : stack[k] \in Nat
  <2>1. nodes \in Seq(IncludeNode) /\ Len(nodes) \in Nat
    BY DEF IInv, TypeOK
  <2>2. \A m \in 1..Len(nodes) : nodes[m].parent \in Nat
    <3>1. \A m \in 1..Len(nodes) : nodes[m] \in IncludeNode
      BY <2>1
    <3>2. QED
      BY <3>1 DEF IncludeNode
  <2>3. stack \in Seq(Nat)
    BY DEF IInv, TypeOK
  <2>4. QED
    <3>1. \A m \in 1..Len(nodes) : P(m) \in Nat /\ P(m) < m
      BY <2>2 DEF IInv, TypeOK, P
    <3>2. \A k \in 1..Len(stack) : stack[k] \in Nat
      BY <2>3
    <3>3. p \in Nat /\ p <= Len(nodes)
      BY <2>1 DEF Inclusion
    <3>4. QED
      BY <2>1, <3>1, <3>2, <3>3 DEF Include, TreeInv
<1>3. /\ Len(nodes') = n
      /\ \A m \in 1..Len(nodes) : nodes'[m] = nodes[m]
      /\ nodes'[n] = NewNode(f, verdict, reach, p)
  BY <1>1, <1>2
<1>4. /\ nodes'[n].parent = p /\ nodes'[n].file = f
      /\ nodes'[n].minus = ~(seenMain \/ SeesMain)
      /\ f \in wanted => nodes'[n].expand
  <2>1. nodes'[n].expand = (f \in wanted \/ verdict = "expand")
    BY <1>3 DEF NewNode
  <2>2. nodes'[n].parent = p /\ nodes'[n].file = f
    BY <1>3 DEF NewNode
  <2>3. nodes'[n].minus = ~(seenMain \/ SeesMain)
    BY <1>3 DEF NewNode
  <2>4. f \in wanted => nodes'[n].expand
    BY <2>1, Zenon
  <2>5. QED
    BY <2>2, <2>3, <2>4
<1>5. \A m \in 1..Len(nodes') : m \in 1..Len(nodes) \/ m = n
  BY <1>2, <1>3
<1>6. p # Root => /\ nodes[p].minus = ~seenMain /\ ~SeesMain /\ p \in 1..Len(nodes)
                  /\ \A m \in 1..Len(nodes) : m > p => P(m) >= p
  BY <1>1, <1>2 DEF StackOpen, Opened, Root
<1> HIDE DEF n
<1>7. (PreOrder /\ MinusBelow)'
  <2>1. ASSUME NEW a \in 1..Len(nodes'), NEW m \in 1..Len(nodes'), NEW c \in 1..Len(nodes'),
               a < m, m < c, P(m)' < a
        PROVE  P(c)' < a \/ P(c)' >= m
    <3>1. a \in 1..Len(nodes) /\ m \in 1..Len(nodes) /\ P(m)' = P(m)
      BY <1>2, <1>3, <1>5, <2>1 DEF n, P
    <3>2. CASE c \in 1..Len(nodes)
      <4>1. P(c)' = P(c)
        BY <1>3, <3>2 DEF P
      <4>2. QED
        BY <3>1, <3>2, <4>1, <2>1, <1>2 DEF PreOrder
    <3>3. CASE c = n
      <4>1. P(c)' = p
        BY <1>4, <3>3 DEF P
      <4>2. p < a \/ p >= m
        <5>1. CASE p = Root
          BY <3>1, <5>1 DEF Root
        <5>2. CASE p # Root /\ m > p
          <6>1. P(m) >= p
            BY <1>6, <3>1, <5>2
          <6>2. P(m) \in Nat /\ P(m) < a /\ p \in Nat /\ a \in Nat
            BY <1>2, <2>1, <3>1
          <6>3. QED
            BY <6>1, <6>2
        <5>3. QED
          BY <5>1, <5>2, <1>2, <3>1
      <4>3. QED
        BY <4>1, <4>2
    <3>4. QED
      BY <1>5, <3>2, <3>3
  <2>2. ASSUME NEW c \in 1..Len(nodes'), P(c)' # Root
        PROVE  nodes'[c].minus = nodes'[P(c)'].minus
    <3>1. CASE c \in 1..Len(nodes)
      <4>1. P(c)' = P(c) /\ P(c) \in 1..Len(nodes)
        BY <1>2, <1>3, <2>2, <3>1 DEF P, Root
      <4>2. QED
        BY <1>2, <1>3, <2>2, <3>1, <4>1 DEF MinusBelow
    <3>2. CASE c = n
      <4>1. P(c)' = p
        BY <1>4, <3>2 DEF P
      <4>2. nodes'[p] = nodes[p] /\ nodes[p].minus = ~seenMain /\ ~SeesMain
        BY <1>3, <1>6, <2>2, <4>1
      <4>3. QED
        BY <1>4, <3>2, <4>1, <4>2
    <3>3. QED
      BY <1>5, <3>1, <3>2
  <2>3. QED
    BY <2>1, <2>2 DEF PreOrder, MinusBelow, P
<1>8. StackOpen'
  <2> SUFFICES ASSUME NEW k \in 1..Len(stack'), stack'[k] # Root
               PROVE  /\ nodes'[stack'[k]].minus = ~seenMain'
                      /\ \A m \in 1..Len(nodes') : m > stack'[k] => P(m)' >= stack'[k]
    BY DEF StackOpen, Opened
  <2>1. CASE stack'[k] = n
    <3>1. \A m \in 1..Len(nodes') : ~(m > n)
      BY <1>2, <1>3 DEF n
    <3>2. QED
      BY <2>1, <3>1, <1>2, <1>4
  <2>2. CASE stack'[k] # n
    <3>1. stack'[k] <= p /\ ~SeesMain /\ \E j \in 1..Len(stack) : stack'[k] = stack[j]
      BY <1>1, <2>2 DEF n
    <3>2. PICK s \in Nat : s = stack'[k] /\ \E j \in 1..Len(stack) : s = stack[j]
      BY <3>1, <1>2
    <3>3. s \in 1..Len(nodes) /\ s # Root /\ Opened(s) /\ s <= p
      BY <3>1, <3>2, <1>2 DEF StackOpen, Root
    <3>4. nodes'[s].minus = ~seenMain'
      BY <3>1, <3>3, <1>2, <1>3 DEF Opened
    <3>5. ASSUME NEW m \in 1..Len(nodes'), m > s PROVE P(m)' >= s
      <4>1. CASE m \in 1..Len(nodes)
        BY <1>3, <3>3, <3>5, <4>1 DEF Opened, P
      <4>2. CASE m = n
        BY <1>4, <3>3, <4>2 DEF P
      <4>3. QED
        BY <1>5, <4>1, <4>2
    <3>6. QED
      BY <3>2, <3>4, <3>5
  <2>3. QED
    BY <2>1, <2>2
<1>9. FirstIsAsked'
  <2> SUFFICES ASSUME NEW g \in mustExpand
               PROVE  /\ g \in wanted' => \A m \in 1..Len(nodes') : nodes'[m].file # g
                      /\ g \notin wanted' => \E m \in 1..Len(nodes') : nodes'[m].file = g
                      /\ \A m \in 1..Len(nodes') : IsFirst(m, g)' => nodes'[m].expand
    BY <1>2 DEF FirstIsAsked
  <2>1. ASSUME g \in wanted', NEW m \in 1..Len(nodes') PROVE nodes'[m].file # g
    <3>1. g \in wanted /\ g # f
      BY <1>2, <2>1
    <3>2. QED
      BY <3>1, <1>2, <1>3, <1>4, <1>5 DEF FirstIsAsked
  <2>2. ASSUME g \notin wanted' PROVE \E m \in 1..Len(nodes') : nodes'[m].file = g
    <3>1. CASE g = f
      <4>1. n \in 1..Len(nodes')
        BY <1>2, <1>3 DEF n
      <4>2. QED
        BY <3>1, <4>1, <1>4
    <3>2. CASE g # f
      <4>1. g \notin wanted
        BY <1>2, <2>2, <3>2
      <4>2. PICK m \in 1..Len(nodes) : nodes[m].file = g
        BY <1>2, <4>1 DEF FirstIsAsked
      <4>3. m \in 1..Len(nodes')
        BY <1>2, <1>3 DEF n
      <4>4. QED
        BY <4>2, <4>3, <1>3
    <3>3. QED
      BY <3>1, <3>2
  <2>3. ASSUME NEW m \in 1..Len(nodes'), IsFirst(m, g)' PROVE nodes'[m].expand
    <3>1. \A k \in 1..Len(nodes) : k \in 1..Len(nodes')
      BY <1>2, <1>3 DEF n
    <3>2. CASE m \in 1..Len(nodes)
      <4>1. IsFirst(m, g)
        BY <1>3, <2>3, <3>1, <3>2 DEF IsFirst
      <4>2. QED
        BY <1>2, <1>3, <3>2, <4>1 DEF FirstIsAsked
    <3>3. CASE m = n
      <4>1. g = f
        BY <1>4, <2>3, <3>3 DEF IsFirst
      <4>2. \A k \in 1..Len(nodes) : nodes[k].file # g
        BY <1>2, <1>3, <2>3, <3>1, <3>3 DEF IsFirst, n
      <4>3. g \in wanted
        BY <1>2, <4>2 DEF FirstIsAsked
      <4>4. QED
        BY <1>4, <3>3, <4>1, <4>3
    <3>4. QED
      BY <1>5, <3>2, <3>3
  <2>4. QED
    BY <2>1, <2>2, <2>3
<1>10. QED
  BY <1>2, <1>7, <1>8, <1>9 DEF TreeInv

\* The other steps leave the tree alone, and at most pop the stack.
LEMMA OthersTreeInv ==
  ASSUME IInv, TreeInv,
         \/ LeaveFile \/ EnterMain \/ GuardDefinition \/ GuardDefinitionUnderflow \/ Finish
         \/ \E f \in Headers, verdict \in Verdicts : IncludeDenied(f, verdict)
         \/ UNCHANGED vars
  PROVE  TreeInv'
<1>1. nodes' = nodes /\ mustExpand' = mustExpand
  BY DEF LeaveFile, EnterMain, GuardDefinition, GuardDefinitionUnderflow, Finish, IncludeDenied,
         vars, treeVars
<1>2. (PreOrder /\ MinusBelow)'
  BY <1>1 DEF TreeInv, PreOrder, MinusBelow, P
<1>3. \/ status' = "error" \/ status' = "ub"
      \/ wanted' = wanted /\ (status' = status \/ (status = "build" /\ status' = "built"))
  BY DEF LeaveFile, EnterMain, GuardDefinition, GuardDefinitionUnderflow, Finish, IncludeDenied,
         vars, treeVars
<1>4. status' \in {"build", "built"} => FirstIsAsked'
  BY <1>1, <1>3 DEF TreeInv, FirstIsAsked, IsFirst
<1>5. ASSUME status' = "build" PROVE StackOpen'
  <2>1. status = "build" /\ seenMain' = seenMain /\ StackOpen
    BY <1>5 DEF TreeInv, LeaveFile, EnterMain, GuardDefinition, GuardDefinitionUnderflow, Finish,
       IncludeDenied, vars, treeVars
  <2>2. \A k \in 1..Len(stack') : k \in 1..Len(stack) /\ stack'[k] = stack[k]
    <3>1. CASE GuardDefinition
      <4>1. PICK i \in 1..Len(stack) : stack' = SubSeq(stack, 1, i)
        BY <3>1 DEF GuardDefinition
      <4>2. stack \in Seq(Nat) /\ Len(stack) \in Nat
        BY DEF IInv, TypeOK
      <4>3. Len(stack') = i /\ \A k \in 1..i : stack'[k] = stack[k]
        BY <4>1, <4>2, PrefixFacts
      <4>4. QED
        BY <4>2, <4>3
    <3>2. CASE ~GuardDefinition
      <4>1. stack' = stack
        BY <1>5, <3>2 DEF LeaveFile, EnterMain, GuardDefinitionUnderflow, Finish, IncludeDenied,
           vars, treeVars
      <4>2. QED
        BY <4>1
    <3>3. QED
      BY <3>1, <3>2
  <2>3. QED
    BY <1>1, <2>1, <2>2 DEF StackOpen, Opened, P
<1>6. QED
  BY <1>2, <1>4, <1>5 DEF TreeInv

LEMMA InitTreeInv == Init => TreeInv
<1> SUFFICES ASSUME Init PROVE TreeInv
  OBVIOUS
<1>1. nodes = <<>> /\ stack = <<>> /\ wanted = mustExpand /\ 1..Len(nodes) = {} /\ 1..Len(stack) = {}
  BY DEF Init
<1>2. QED
  BY <1>1 DEF TreeInv, PreOrder, MinusBelow, StackOpen, FirstIsAsked

-----------------------------------------------------------------------------
(***************************************************************************)
(* The nodes above a node.  AncestorsOrSelf is a recursive function; what  *)
(* it returns is the least set with the node and the parents of its        *)
(* members.                                                                *)
(***************************************************************************)
Upward(S) == \A m \in S : m # Root => P(m) \in S
Above(n) == {a \in Inclusion : \A S \in SUBSET Inclusion : n \in S /\ Upward(S) => a \in S}

LEMMA TreeFacts ==
  ASSUME IInv
  PROVE  /\ nodes \in Seq(IncludeNode) /\ Len(nodes) \in Nat /\ Inclusion \subseteq Nat
         /\ Root \in Inclusion
         /\ \A n \in Inclusion : n # Root => n \in 1..Len(nodes)
         /\ \A n \in 1..Len(nodes) :
              /\ n \in Inclusion /\ n # Root /\ nodes[n] \in IncludeNode
              /\ P(n) \in Inclusion /\ P(n) < n
<1>1. nodes \in Seq(IncludeNode) /\ Len(nodes) \in Nat
      /\ \A n \in 1..Len(nodes) : nodes[n].parent < n
  BY DEF IInv, TypeOK
<1>2. \A n \in 1..Len(nodes) : nodes[n] \in IncludeNode
  BY <1>1
<1>3. \A n \in 1..Len(nodes) : nodes[n].parent \in Nat
  BY <1>2 DEF IncludeNode
<1>4. QED
  BY <1>1, <1>2, <1>3 DEF Inclusion, Root, P

LEMMA AboveFacts ==
  ASSUME IInv
  PROVE  /\ \A n \in Inclusion : n \in Above(n) /\ Upward(Above(n))
         /\ \A n \in Inclusion : \A a \in Above(n) : Above(a) \subseteq Above(n)
         /\ Above(Root) = {Root}
         /\ \A n \in 1..Len(nodes) : Above(n) = {n} \cup Above(P(n))
<1>1. ASSUME NEW n \in Inclusion PROVE n \in Above(n) /\ Upward(Above(n))
  <2>1. n \in Above(n)
    BY DEF Above
  <2>2. ASSUME NEW m \in Above(n), m # Root PROVE P(m) \in Above(n)
    BY <2>2, TreeFacts DEF Above, Upward
  <2>3. QED
    BY <2>1, <2>2 DEF Upward
<1>2. ASSUME NEW n \in Inclusion, NEW a \in Above(n) PROVE Above(a) \subseteq Above(n)
  <2>1. Above(n) \in SUBSET Inclusion
    BY DEF Above
  <2>2. QED
    BY <1>1, <2>1 DEF Above
<1>3. Above(Root) = {Root}
  <2>1. {Root} \in SUBSET Inclusion /\ Upward({Root})
    BY TreeFacts DEF Upward
  <2>2. Above(Root) \subseteq {Root}
    BY <2>1 DEF Above
  <2>3. QED
    BY <2>2, <1>1, TreeFacts
<1>4. ASSUME NEW n \in 1..Len(nodes) PROVE Above(n) = {n} \cup Above(P(n))
  <2>1. n \in Inclusion /\ n # Root /\ P(n) \in Inclusion
    BY TreeFacts
  <2>2. n \in Above(n) /\ P(n) \in Above(n) /\ Above(P(n)) \subseteq Above(n)
    BY <1>1, <1>2, <2>1 DEF Upward
  <2> DEFINE S == {n} \cup Above(P(n))
  <2>3. S \in SUBSET Inclusion
    BY <2>1 DEF Above
  <2>4. Upward(S)
    BY <1>1, <2>1 DEF Upward
  <2>5. Above(n) \subseteq S
    BY <2>3, <2>4 DEF Above
  <2>6. QED
    BY <2>2, <2>5
<1>5. QED
  BY <1>1, <1>2, <1>3, <1>4

\* A non-empty set of numbers has a least one.
LEMMA FirstOne ==
  ASSUME NEW S \in SUBSET Nat, S # {}
  PROVE  \E x \in S : \A y \in S : x <= y
<1> DEFINE Less == OpToRel(<, Nat)
<1>1. \A x, y \in Nat : y < x => <<y, x>> \in Less
  BY DEF OpToRel
<1>2. IsWellFoundedOn(Less, Nat)
  BY NatLessThanWellFounded
<1> HIDE DEF Less
<1>3. PICK x \in S : \A y \in S : ~ (<<y, x>> \in Less)
  BY <1>2, WFMin
<1>4. \A y \in S : x <= y
  <2> SUFFICES ASSUME NEW y \in S PROVE x <= y
    OBVIOUS
  <2>1. x \in Nat /\ y \in Nat /\ ~(y < x)
    BY <1>1, <1>3
  <2>2. QED
    BY <2>1
<1>5. QED
  BY <1>4

LEMMA AncestorsAre ==
  ASSUME IInv
  PROVE  \A n \in Inclusion : Attrs!AncestorsOrSelf[n] = Above(n)
<1> DEFINE parent == [n \in 1..Len(nodes) |-> nodes[n].parent]
           Is(f) == f = [n \in Inclusion |-> {n} \cup IF n = Root THEN {} ELSE f[parent[n]]]
           f == [n \in Inclusion |-> Above(n)]
<1>1. \A n \in 1..Len(nodes) : parent[n] = P(n)
  BY DEF P
<1>2. Attrs!Node = Inclusion /\ Attrs!Root = Root
  BY TreeFacts DEF Attrs!Node, Attrs!Include, Attrs!Root, Root, Inclusion
<1>3. \A n \in Inclusion : f[n] = {n} \cup IF n = Root THEN {} ELSE f[parent[n]]
  <2> SUFFICES ASSUME NEW n \in Inclusion
               PROVE  f[n] = {n} \cup IF n = Root THEN {} ELSE f[parent[n]]
    OBVIOUS
  <2>1. CASE n = Root
    BY <2>1, AboveFacts
  <2>2. CASE n # Root
    <3>1. n \in 1..Len(nodes) /\ P(n) \in Inclusion
      BY <2>2, TreeFacts
    <3>2. QED
      BY <2>2, <3>1, <1>1, AboveFacts
  <2>3. QED
    BY <2>1, <2>2
<1>4. Is(f)
  <2> HIDE DEF parent
  <2>1. f = [n \in Inclusion |-> f[n]]
    OBVIOUS
  <2> HIDE DEF f
  <2>2. QED
    BY <1>3, <2>1
<1> HIDE DEF f
<1>5. Is(Attrs!AncestorsOrSelf)
  <2> DEFINE Its(g) == g = [n \in Attrs!Node |->
                               {n} \cup (IF n = Attrs!Root THEN {} ELSE g[parent[n]])]
  <2>1. \A g : Is(g) <=> Its(g)
    <3> HIDE DEF parent
    <3>1. QED
      BY <1>2
  <2>2. \E g : Its(g)
    <3> HIDE DEF Is, Its
    <3>1. QED
      BY <1>4, <2>1
  <2>3. Its(Attrs!AncestorsOrSelf)
    BY <2>2 DEF Attrs!AncestorsOrSelf
  <2>4. QED
    <3> HIDE DEF Is, Its
    <3>1. QED
      BY <2>1, <2>3
<1> DEFINE A == Attrs!AncestorsOrSelf
<1>6. \A n \in Inclusion : A[n] = {n} \cup IF n = Root THEN {} ELSE A[parent[n]]
  <2> HIDE DEF parent
  <2>1. A = [n \in Inclusion |-> {n} \cup IF n = Root THEN {} ELSE A[parent[n]]]
    BY <1>5
  <2> HIDE DEF A
  <2>2. QED
    BY <2>1
<1> HIDE DEF A, parent, Is
<1> DEFINE Bad == {n \in Inclusion : A[n] # Above(n)}
<1>7. Bad = {}
  <2> SUFFICES ASSUME Bad # {} PROVE FALSE
    OBVIOUS
  <2>1. Bad \in SUBSET Nat
    BY TreeFacts
  <2>2. PICK n \in Bad : \A m \in Bad : n <= m
    <3> HIDE DEF Bad
    <3>1. QED
      BY <2>1, FirstOne
  <2>3. n # Root
    BY <1>6, <2>2, TreeFacts, AboveFacts
  <2>4. n \in 1..Len(nodes) /\ P(n) \in Inclusion /\ P(n) < n /\ n \in Nat /\ P(n) \in Nat
    BY <2>3, TreeFacts
  <2>5. A[P(n)] = Above(P(n))
    BY <2>2, <2>4
  <2>6. QED
    BY <1>1, <1>6, <2>3, <2>4, <2>5, AboveFacts
<1>8. QED
  BY <1>7 DEF A

-----------------------------------------------------------------------------
(***************************************************************************)
(* What the sweeps do to the tree that was built.                          *)
(***************************************************************************)
Wanted(n) == n # Root => nodes[n].expand
Barred(n) == n # Root /\ nodes[n].notExpand
Free(n) == \A a \in Above(n) : ~Barred(a)
FromMinus(n) == n # Root /\ nodes[n].minus

LEMMA FlagFacts ==
  ASSUME IInv, NEW n \in Inclusion
  PROVE  /\ AskedFlag[n] <=> Wanted(n)
         /\ Flag({m \in 1..Len(nodes) : nodes[m].notExpand}, FALSE)[n] <=> Barred(n)
         /\ Attrs!Can_Be_Expanded(n) <=> Free(n)
<1>1. \A m \in Inclusion : Flag({k \in 1..Len(nodes) : nodes[k].notExpand}, FALSE)[m] <=> Barred(m)
  BY TreeFacts DEF Flag, Barred
<1>2. AskedFlag[n] <=> Wanted(n)
  BY TreeFacts DEF AskedFlag, Requested, Flag, Wanted
<1>3. Above(n) \subseteq Inclusion
  BY DEF Above
<1>4. Attrs!Can_Be_Expanded(n) <=> Free(n)
  BY <1>1, <1>3, AncestorsAre DEF Attrs!Can_Be_Expanded, Free
<1>5. QED
  BY <1>1, <1>2, <1>4

SweepTypes ==
  /\ expand \in [Inclusion -> BOOLEAN] /\ output \in [Inclusion -> BOOLEAN]
  /\ cut \in [Inclusion -> BOOLEAN]

\* The sweep goes on, or is over and the next one starts.
Goes(n, next) ==
  \/ phase' = phase /\ done' = done \cup {n}
  \/ phase' = next /\ done' = {} /\ Inclusion \subseteq done \cup {n}

ExpandUpDid(n) ==
  /\ phase = "expand" /\ Goes(n, "output")
  /\ \A k \in Inclusion : expand[k] => expand'[k]

OutputDownDid(n) ==
  /\ phase = "output" /\ Goes(n, "cut")
  /\ n \notin done /\ (n # Root => P(n) \in done)
  /\ \A k \in Inclusion : (expand[k] => expand'[k]) /\ (output[k] => output'[k])
  /\ \/ n = Root \/ expand'[n] \/ output'[n] \/ FromMinus(n)
     \/ ~expand[P(n)]

IsCut(n) == n # Root /\ cut[P(n)]
CutDownDid(n) ==
  /\ phase = "cut"
  /\ phase' = "failed" \/ Goes(n, "ready")
  /\ n \notin done /\ (n # Root => P(n) \in done)
  /\ \A k \in Inclusion : k # n => /\ expand'[k] = expand[k] /\ output'[k] = output[k]
                                   /\ cut'[k] = cut[k]
  /\ expand'[n] <=> expand[n] /\ ~IsCut(n) /\ ~Barred(n)
  /\ output'[n] <=> ~IsCut(n) /\ (output[n] \/ Barred(n))
  /\ cut'[n] <=> IsCut(n) \/ Barred(n)

LEMMA NodesAre ==
  ASSUME IInv
  PROVE  /\ Attrs!Node = Inclusion /\ Attrs!Include = 1..Len(nodes) /\ Attrs!Root = Root
         /\ \A n \in 1..Len(nodes) : /\ [m \in 1..Len(nodes) |-> nodes[m].parent][n] = P(n)
                                     /\ [m \in 1..Len(nodes) |-> nodes[m].minus][n] = nodes[n].minus
BY TreeFacts DEF Attrs!Node, Attrs!Include, Attrs!Root, Root, Inclusion, P

LEMMA ExpandUpFacts ==
  ASSUME IInv, SweepTypes, NEW n \in Inclusion, Attrs!ExpandUp(n), nodes' = nodes
  PROVE  ExpandUpDid(n) /\ SweepTypes'
<1>1. phase = "expand" /\ Goes(n, "output") /\ cut' = cut /\ Inclusion' = Inclusion
  BY NodesAre DEF Attrs!ExpandUp, Attrs!Visited, Goes, Inclusion
<1>2. CASE n # Root /\ expand[n]
  <2>1. n \in 1..Len(nodes) /\ P(n) \in Inclusion
    BY <1>2, TreeFacts
  <2>2. /\ expand' = [expand EXCEPT ![P(n)] = TRUE]
        /\ output' = [output EXCEPT ![P(n)] = FALSE]
    BY <1>2, <2>1, NodesAre DEF Attrs!ExpandUp
  <2>3. QED
    BY <1>1, <2>1, <2>2 DEF SweepTypes, ExpandUpDid
<1>3. CASE ~(n # Root /\ expand[n])
  <2>1. expand' = expand /\ output' = output
    BY <1>3, NodesAre DEF Attrs!ExpandUp
  <2>2. QED
    BY <1>1, <2>1 DEF SweepTypes, ExpandUpDid
<1>4. QED
  BY <1>2, <1>3

LEMMA OutputDownFacts ==
  ASSUME IInv, SweepTypes, NEW n \in Inclusion, Attrs!OutputDown(n), nodes' = nodes
  PROVE  OutputDownDid(n) /\ SweepTypes'
<1>1. /\ phase = "output" /\ Goes(n, "cut") /\ cut' = cut /\ Inclusion' = Inclusion
      /\ n \notin done
  BY NodesAre DEF Attrs!OutputDown, Attrs!Visited, Goes, Inclusion
<1>2. n # Root => n \in 1..Len(nodes) /\ P(n) \in done
  BY NodesAre, TreeFacts DEF Attrs!OutputDown
<1> DEFINE e == expand[n] \/ Attrs!ExpandInstead(n)
           o == output[n] \/ (Attrs!NeedsAttr(n) /\ ~Attrs!ExpandInstead(n))
<1>3. expand' = [expand EXCEPT ![n] = e] /\ output' = [output EXCEPT ![n] = o]
  BY DEF Attrs!OutputDown
<1>4. \/ n = Root \/ e \/ o \/ FromMinus(n) \/ ~expand[P(n)]
  BY <1>2, NodesAre DEF Attrs!NeedsAttr, Attrs!FromRoot, FromMinus
<1>5. e \in BOOLEAN /\ o \in BOOLEAN
  OBVIOUS
<1> HIDE DEF e, o
<1>6. expand' \in [Inclusion -> BOOLEAN] /\ output' \in [Inclusion -> BOOLEAN]
      /\ expand'[n] = e /\ output'[n] = o
      /\ \A k \in Inclusion : k # n => expand'[k] = expand[k] /\ output'[k] = output[k]
  BY <1>3, <1>5 DEF SweepTypes
<1>7. (expand[n] => e) /\ (output[n] => o)
  BY DEF e, o
<1>8. \A k \in Inclusion : (expand[k] => expand'[k]) /\ (output[k] => output'[k])
  BY <1>6, <1>7
<1>9. \/ n = Root \/ expand'[n] \/ output'[n] \/ FromMinus(n) \/ ~expand[P(n)]
  BY <1>4, <1>6
<1>10. QED
  BY <1>1, <1>2, <1>6, <1>8, <1>9 DEF OutputDownDid, SweepTypes

LEMMA CutDownFacts ==
  ASSUME IInv, SweepTypes, NEW n \in Inclusion, Attrs!CutDown(n), nodes' = nodes
  PROVE  CutDownDid(n) /\ SweepTypes'
<1>1. /\ phase = "cut" /\ Inclusion' = Inclusion /\ n \notin done
      /\ phase' = "failed" \/ Goes(n, "ready")
  BY NodesAre DEF Attrs!CutDown, Attrs!Visited, Goes, Inclusion
<1>2. n # Root => n \in 1..Len(nodes) /\ P(n) \in done
  BY NodesAre, TreeFacts DEF Attrs!CutDown
<1>3. Attrs!Cutting(n) <=> IsCut(n)
  BY <1>2, NodesAre DEF Attrs!Cutting, IsCut
<1> DEFINE e == Attrs!StaysExpanded(n)
           o == Attrs!IsOutput(n)
           c == Attrs!Cutting(n) \/ Flag({k \in 1..Len(nodes) : nodes[k].notExpand}, FALSE)[n]
<1>4. /\ expand' = [expand EXCEPT ![n] = e] /\ output' = [output EXCEPT ![n] = o]
      /\ cut' = [cut EXCEPT ![n] = c]
  BY DEF Attrs!CutDown
<1>5. /\ e <=> expand[n] /\ ~IsCut(n) /\ ~Barred(n)
      /\ o <=> ~IsCut(n) /\ (output[n] \/ Barred(n))
      /\ c <=> IsCut(n) \/ Barred(n)
  BY <1>3, FlagFacts DEF Attrs!StaysExpanded, Attrs!IsOutput
<1>6. e \in BOOLEAN /\ o \in BOOLEAN /\ c \in BOOLEAN
  BY DEF Attrs!StaysExpanded, Attrs!IsOutput
<1> HIDE DEF e, o, c
<1>7. /\ expand' \in [Inclusion -> BOOLEAN] /\ output' \in [Inclusion -> BOOLEAN]
      /\ cut' \in [Inclusion -> BOOLEAN]
      /\ expand'[n] = e /\ output'[n] = o /\ cut'[n] = c
      /\ \A k \in Inclusion : k # n => /\ expand'[k] = expand[k] /\ output'[k] = output[k]
                                       /\ cut'[k] = cut[k]
  BY <1>4, <1>6 DEF SweepTypes
<1>8. QED
  BY <1>1, <1>2, <1>5, <1>7 DEF CutDownDid, SweepTypes

-----------------------------------------------------------------------------
(***************************************************************************)
(* The sweeps keep what was asked for and lose nothing.                    *)
(***************************************************************************)
HasOutput(n, S) == \E a \in Above(n) \cap S : output[a]
Provided(n, S) == expand[n] \/ FromMinus(n) \/ HasOutput(n, S)

\* What was asked for is expanded until a cut comes, and nothing gets lost: of a
\* node that is done the #include that brings it is done too.
SweepInv ==
  /\ phase # "idle" => status = "built"
  /\ phase \in {"expand", "output", "cut", "ready"} => SweepTypes
  /\ phase \in {"expand", "output"} => \A n \in Inclusion : Wanted(n) => expand[n]
  /\ phase = "output" => \A n \in Inclusion \cap done : Provided(n, done)
  /\ phase = "cut" =>
       \A n \in Inclusion :
         /\ Wanted(n) /\ (n \in done => Free(n)) => expand[n]
         /\ Provided(n, Inclusion)
         /\ n \in done /\ cut[n] => ~Free(n) /\ HasOutput(n, done)
  /\ phase = "ready" =>
       \A n \in Inclusion : (Wanted(n) /\ Free(n) => expand[n]) /\ Provided(n, Inclusion)

LEMMA SameNodes ==
  ASSUME nodes' = nodes
  PROVE  /\ Inclusion' = Inclusion
         /\ \A n : /\ Above(n)' = Above(n) /\ (Wanted(n)' <=> Wanted(n)) /\ (Barred(n)' <=> Barred(n))
                   /\ (Free(n)' <=> Free(n)) /\ (FromMinus(n)' <=> FromMinus(n))
BY DEF Inclusion, Above, Upward, P, Wanted, Barred, Free, FromMinus

LEMMA ExpandUpSweep ==
  ASSUME IInv, SweepInv, NEW n \in Inclusion, ExpandUpDid(n), SweepTypes',
         nodes' = nodes, status' = status
  PROVE  SweepInv'
<1>1. \A k \in Inclusion : Wanted(k) => expand'[k]
  BY DEF SweepInv, ExpandUpDid
<1>2. phase' = "expand" \/ (phase' = "output" /\ done' = {})
  BY DEF ExpandUpDid, Goes
<1>3. status' = "built"
  BY DEF SweepInv, ExpandUpDid
<1>4. QED
  BY <1>1, <1>2, <1>3, SameNodes DEF SweepInv

LEMMA OutputDownSweep ==
  ASSUME IInv, TreeInv, SweepInv, NEW n \in Inclusion, OutputDownDid(n), SweepTypes',
         nodes' = nodes, status' = status
  PROVE  SweepInv'
<1>1. \A k \in Inclusion : Wanted(k) => expand'[k]
  BY DEF SweepInv, OutputDownDid
<1>2. status' = "built"
  BY DEF SweepInv, OutputDownDid
<1> DEFINE D == done \cup {n}
           Now(k) == expand'[k] \/ FromMinus(k) \/ \E a \in Above(k) \cap D : output'[a]
<1>3. Above(n) \subseteq Inclusion /\ \A k \in Inclusion : Above(k) \subseteq Inclusion
  BY DEF Above
<1>4. ASSUME NEW k \in Inclusion \cap done PROVE Now(k)
  <2>1. Provided(k, done)
    BY <1>4 DEF SweepInv, OutputDownDid
  <2>2. \A a \in Inclusion : output[a] => output'[a]
    BY DEF OutputDownDid
  <2>3. expand[k] => expand'[k]
    BY DEF OutputDownDid
  <2>4. QED
    BY <1>3, <2>1, <2>2, <2>3 DEF Provided, HasOutput
<1>5. Now(n)
  <2>1. n \in Above(n)
    BY AboveFacts
  <2>2. CASE n = Root
    <3>1. Wanted(n)
      BY <2>2 DEF Wanted
    <3>2. QED
      BY <1>1, <3>1
  <2>3. CASE n # Root /\ ~expand[P(n)]
    <3>1. n \in 1..Len(nodes) /\ P(n) \in Inclusion /\ P(n) \in done
      BY <2>3, TreeFacts DEF OutputDownDid
    <3>2. Provided(P(n), done)
      BY <3>1 DEF SweepInv, OutputDownDid
    <3>3. Above(n) = {n} \cup Above(P(n))
      BY <3>1, AboveFacts
    <3>4. FromMinus(P(n)) => FromMinus(n)
      BY <2>3, <3>1 DEF TreeInv, MinusBelow, FromMinus
    <3>5. HasOutput(P(n), done) => \E a \in Above(n) \cap D : output'[a]
      <4>1. \A a \in Inclusion : output[a] => output'[a]
        BY DEF OutputDownDid
      <4>2. QED
        BY <1>3, <3>3, <4>1 DEF HasOutput
    <3>6. QED
      BY <2>3, <3>2, <3>4, <3>5 DEF Provided
  <2>4. CASE expand'[n] \/ output'[n] \/ FromMinus(n)
    BY <2>1, <2>4
  <2>5. QED
    BY <2>2, <2>3, <2>4 DEF OutputDownDid
<1>6. \A k \in Inclusion \cap D : Now(k)
  BY <1>4, <1>5
<1>7. CASE phase' = "output" /\ done' = D
  <2>1. \A k \in Inclusion \cap done' : Provided(k, done)'
    BY <1>6, <1>7, SameNodes DEF Provided, HasOutput
  <2>2. QED
    BY <1>1, <1>2, <1>7, <2>1, SameNodes DEF SweepInv
<1>8. CASE phase' = "cut" /\ done' = {} /\ Inclusion \subseteq D
  <2>1. \A k \in Inclusion : Provided(k, Inclusion)'
    BY <1>3, <1>6, <1>8, SameNodes DEF Provided, HasOutput
  <2>2. QED
    BY <1>1, <1>2, <1>8, <2>1, SameNodes DEF SweepInv
<1>9. QED
  BY <1>7, <1>8 DEF OutputDownDid, Goes

LEMMA CutDownSweep ==
  ASSUME IInv, SweepInv, NEW n \in Inclusion, CutDownDid(n), SweepTypes',
         nodes' = nodes, status' = status
  PROVE  SweepInv'
<1> DEFINE D == done \cup {n}
           Out(k, S) == \E a \in Above(k) \cap S : output'[a]
<1>1. status' = "built" /\ phase = "cut" /\ n \notin done
  BY DEF SweepInv, CutDownDid
<1>2. /\ \A k \in Inclusion : Above(k) \subseteq Inclusion /\ k \in Above(k)
      /\ \A k \in Inclusion : \A a \in Above(k) : Above(a) \subseteq Above(k)
  BY AboveFacts DEF Above
<1>3. \A a \in Inclusion : a # n => /\ expand'[a] = expand[a] /\ output'[a] = output[a]
                                    /\ cut'[a] = cut[a]
  BY DEF CutDownDid
<1>4. /\ expand'[n] <=> expand[n] /\ ~IsCut(n) /\ ~Barred(n)
      /\ output'[n] <=> ~IsCut(n) /\ (output[n] \/ Barred(n))
      /\ cut'[n] <=> IsCut(n) \/ Barred(n)
  BY DEF CutDownDid
\* Below a cut something that is done is output.
<1>5. ASSUME IsCut(n) PROVE ~Free(n) /\ \E a \in Above(n) \cap done : output'[a]
  <2>1. n \in 1..Len(nodes) /\ P(n) \in Inclusion /\ P(n) \in done /\ cut[P(n)]
    BY <1>5, TreeFacts DEF IsCut, CutDownDid
  <2>2. ~Free(P(n)) /\ HasOutput(P(n), done)
    BY <1>1, <2>1 DEF SweepInv
  <2>3. Above(n) = {n} \cup Above(P(n))
    BY <2>1, AboveFacts
  <2>4. ~Free(n)
    BY <2>2, <2>3 DEF Free
  <2>5. PICK a \in Above(P(n)) \cap done : output[a]
    BY <2>2 DEF HasOutput
  <2>6. a # n /\ a \in Inclusion /\ a \in Above(n)
    BY <1>1, <1>2, <2>1, <2>3
  <2>7. output'[a]
    BY <1>3, <2>5, <2>6
  <2>8. QED
    BY <2>4, <2>6, <2>7
<1>6. ASSUME IsCut(n) \/ Barred(n) PROVE ~Free(n) /\ Out(n, D)
  <2>1. CASE IsCut(n)
    BY <1>5, <2>1
  <2>2. CASE ~IsCut(n)
    <3>1. output'[n] /\ n \in Above(n) /\ Barred(n)
      BY <1>2, <1>4, <1>6, <2>2
    <3>2. QED
      BY <3>1 DEF Free
  <2>3. QED
    BY <2>1, <2>2
<1>7. ASSUME NEW k \in Inclusion, HasOutput(k, Inclusion) PROVE Out(k, Inclusion)
  <2>1. PICK a \in Above(k) \cap Inclusion : output[a]
    BY <1>7 DEF HasOutput
  <2>2. CASE a # n \/ ~IsCut(n)
    <3>1. output'[a]
      BY <1>3, <1>4, <2>1, <2>2
    <3>2. QED
      BY <2>1, <3>1
  <2>3. CASE a = n /\ IsCut(n)
    <3>1. PICK b \in Above(n) \cap done : output'[b]
      BY <1>5, <2>3
    <3>2. b \in Above(k) \cap Inclusion
      BY <1>2, <2>1, <2>3
    <3>3. QED
      BY <3>1, <3>2
  <2>4. QED
    BY <2>2, <2>3
<1>8. \A k \in Inclusion : expand'[k] \/ FromMinus(k) \/ Out(k, Inclusion)
  <2> SUFFICES ASSUME NEW k \in Inclusion PROVE expand'[k] \/ FromMinus(k) \/ Out(k, Inclusion)
    OBVIOUS
  <2>1. expand[k] \/ FromMinus(k) \/ HasOutput(k, Inclusion)
    BY <1>1 DEF SweepInv, Provided
  <2>2. CASE expand[k] /\ ~expand'[k]
    <3>1. k = n /\ (IsCut(n) \/ Barred(n))
      BY <1>3, <1>4, <2>2
    <3>2. Out(n, D)
      BY <1>6, <3>1
    <3>3. QED
      BY <1>2, <3>1, <3>2
  <2>3. QED
    BY <1>7, <2>1, <2>2
<1>9. \A k \in Inclusion : Wanted(k) /\ (k \in D => Free(k)) => expand'[k]
  <2> SUFFICES ASSUME NEW k \in Inclusion, Wanted(k), k \in D => Free(k) PROVE expand'[k]
    OBVIOUS
  <2>1. expand[k]
    BY <1>1 DEF SweepInv
  <2>2. QED
    BY <1>3, <1>4, <1>6, <2>1
<1>10. \A k \in Inclusion \cap D : cut'[k] => ~Free(k) /\ Out(k, D)
  <2> SUFFICES ASSUME NEW k \in Inclusion \cap D, cut'[k] PROVE ~Free(k) /\ Out(k, D)
    OBVIOUS
  <2>1. CASE k = n
    BY <1>4, <1>6, <2>1
  <2>2. CASE k # n
    <3>1. k \in done /\ cut[k]
      BY <1>3, <2>2
    <3>2. ~Free(k) /\ HasOutput(k, done)
      BY <1>1, <3>1 DEF SweepInv
    <3>3. PICK a \in Above(k) \cap done : output[a]
      BY <3>2 DEF HasOutput
    <3>4. a # n /\ a \in Inclusion
      BY <1>1, <1>2, <3>3
    <3>5. QED
      BY <1>3, <3>2, <3>3, <3>4
  <2>3. QED
    BY <2>1, <2>2
<1>11. CASE phase' = "failed"
  BY <1>1, <1>11 DEF SweepInv
<1>12. CASE phase' = "cut" /\ done' = D
  <2>1. \A k \in Inclusion : Provided(k, Inclusion)'
    BY <1>8, SameNodes DEF Provided, HasOutput
  <2>2. \A k \in Inclusion : k \in done' /\ cut'[k] => ~Free(k) /\ HasOutput(k, done)'
    BY <1>10, <1>12, SameNodes DEF HasOutput
  <2>3. \A k \in Inclusion : Wanted(k) /\ (k \in done' => Free(k)) => expand'[k]
    BY <1>9, <1>12
  <2>4. QED
    BY <1>1, <1>12, <2>1, <2>2, <2>3, SameNodes DEF SweepInv
<1>13. CASE phase' = "ready"
  <2>1. \A k \in Inclusion : Provided(k, Inclusion)'
    BY <1>8, SameNodes DEF Provided, HasOutput
  <2>2. \A k \in Inclusion : Wanted(k) /\ Free(k) => expand'[k]
    BY <1>9
  <2>3. QED
    BY <1>1, <1>13, <2>1, <2>2, SameNodes DEF SweepInv
<1>14. QED
  BY <1>1, <1>11, <1>12, <1>13 DEF CutDownDid, Goes

LEMMA SweepSweepInv ==
  ASSUME IInv, TreeInv, SweepInv, Sweep
  PROVE  SweepInv'
<1>1. nodes' = nodes /\ status' = status
  BY DEF Sweep, treeVars
<1>2. PICK n \in Inclusion : Attrs!ExpandUp(n) \/ Attrs!OutputDown(n) \/ Attrs!CutDown(n)
  BY NodesAre DEF Sweep, Attrs!Next
<1>3. phase \in {"expand", "output", "cut"}
  BY <1>2 DEF Attrs!ExpandUp, Attrs!OutputDown, Attrs!CutDown
<1>4. SweepTypes
  BY <1>3 DEF SweepInv
<1>5. CASE Attrs!ExpandUp(n)
  BY <1>1, <1>4, <1>5, ExpandUpFacts, ExpandUpSweep
<1>6. CASE Attrs!OutputDown(n)
  BY <1>1, <1>4, <1>6, OutputDownFacts, OutputDownSweep
<1>7. CASE Attrs!CutDown(n)
  BY <1>1, <1>4, <1>7, CutDownFacts, CutDownSweep
<1>8. QED
  BY <1>2, <1>5, <1>6, <1>7

LEMMA StartSweepsInv ==
  ASSUME IInv, StartSweeps
  PROVE  SweepInv'
<1>1. /\ nodes' = nodes /\ status' = "built" /\ phase' = "expand"
      /\ expand' = AskedFlag /\ done' = {}
      /\ output' = [n \in Inclusion |-> FALSE] /\ cut' = [n \in Inclusion |-> FALSE]
  BY DEF StartSweeps, Finish
<1>2. AskedFlag \in [Inclusion -> BOOLEAN]
  <2>1. AskedFlag = [n \in Inclusion |-> IF n = Root THEN TRUE ELSE n \in Requested]
    BY DEF AskedFlag, Flag
  <2> DEFINE F(n) == IF n = Root THEN TRUE ELSE n \in Requested
  <2>2. ASSUME NEW n \in Inclusion PROVE F(n) \in BOOLEAN
    <3>1. (n \in Requested) \in BOOLEAN
      OBVIOUS
    <3>2. CASE n = Root
      BY <3>2
    <3>3. CASE n # Root
      <4>1. F(n) = (n \in Requested)
        BY <3>3, Zenon
      <4>2. QED
        BY <4>1, <3>1, Zenon
    <3>4. QED
      BY <3>2, <3>3
  <2> HIDE DEF F
  <2>3. [n \in Inclusion |-> F(n)] \in [Inclusion -> BOOLEAN]
    BY <2>2
  <2>4. QED
    BY <2>1, <2>3 DEF F
<1>3. SweepTypes'
  BY <1>1, <1>2, SameNodes DEF SweepTypes
<1>4. \A n \in Inclusion : Wanted(n) => expand'[n]
  BY <1>1, FlagFacts
<1>5. QED
  BY <1>1, <1>3, <1>4, SameNodes DEF SweepInv

-----------------------------------------------------------------------------
(***************************************************************************)
(* Build_Header_Map.                                                       *)
(***************************************************************************)
Decreasing(s) == \A i, j \in 1..Len(s) : i < j => s[i] > s[j]
Lists(s, S) ==
  s \in Seq(Nat) /\ Len(s) \in Nat /\ Decreasing(s) /\ {s[i] : i \in 1..Len(s)} = S

\* Every set of numbers can be listed like that.
LEMMA DecreasingListing ==
  ASSUME NEW N \in Nat, NEW S \in SUBSET (1..N)
  PROVE  \E s \in SeqOf(S, N) : Decreasing(s) /\ {s[i] : i \in 1..Len(s)} = S
<1> DEFINE Upto(k) == S \cap 1..k
           Fine(k) == \E m \in 0..k : \E s \in [1..m -> S] :
                        /\ \A i, j \in 1..m : i < j => s[i] > s[j]
                        /\ {s[i] : i \in 1..m} = Upto(k)
<1>1. Fine(0)
  <2> DEFINE e == [i \in 1..0 |-> CHOOSE x \in S : TRUE]
  <2>1. e \in [1..0 -> S] /\ {e[i] : i \in 1..0} = Upto(0)
        /\ \A i, j \in 1..0 : i < j => e[i] > e[j]
    OBVIOUS
  <2>2. 0 \in 0..0
    OBVIOUS
  <2> HIDE DEF e, Upto
  <2>3. QED
    BY <2>1, <2>2
<1>2. ASSUME NEW k \in Nat, Fine(k) PROVE Fine(k + 1)
  <2>1. PICK m \in 0..k : \E s \in [1..m -> S] :
                        /\ \A i, j \in 1..m : i < j => s[i] > s[j]
                        /\ {s[i] : i \in 1..m} = Upto(k)
    BY <1>2
  <2>2. PICK s \in [1..m -> S] :
                        /\ \A i, j \in 1..m : i < j => s[i] > s[j]
                        /\ {s[i] : i \in 1..m} = Upto(k)
    BY <2>1
  <2>3. CASE k + 1 \notin S
    <3>1. Upto(k + 1) = Upto(k)
      BY <2>3
    <3>2. m \in 0..(k + 1)
      OBVIOUS
    <3> HIDE DEF Upto
    <3>3. QED
      BY <2>2, <3>1, <3>2
  <2>4. CASE k + 1 \in S
    <3> DEFINE r == [i \in 1..(m + 1) |-> IF i = 1 THEN k + 1 ELSE s[i - 1]]
    <3>1. m \in Nat /\ m + 1 \in 0..(k + 1)
      OBVIOUS
    <3>2. r[1] = k + 1 /\ 1 \in 1..(m + 1) /\ \A i \in 1..m : r[i + 1] = s[i] /\ i + 1 \in 1..(m + 1)
      BY <3>1
    <3>3. \A i \in 1..(m + 1) : i = 1 \/ (i - 1 \in 1..m /\ r[i] = s[i - 1])
      BY <3>1
    <3>4. \A i \in 1..m : s[i] \in Upto(k)
      BY <2>2
    <3>5. r \in [1..(m + 1) -> S]
      <4>1. \A i \in 1..(m + 1) : (IF i = 1 THEN k + 1 ELSE s[i - 1]) \in S
        BY <2>4, <3>1
      <4>2. QED
        BY <4>1
    <3> HIDE DEF r
    <3>6. \A i, j \in 1..(m + 1) : i < j => r[i] > r[j]
      <4> SUFFICES ASSUME NEW i \in 1..(m + 1), NEW j \in 1..(m + 1), i < j PROVE r[i] > r[j]
        OBVIOUS
      <4>1. j - 1 \in 1..m /\ r[j] = s[j - 1]
        BY <3>1, <3>3
      <4>2. CASE i = 1
        BY <4>1, <4>2, <3>2, <3>4
      <4>3. CASE i # 1
        <5>1. i - 1 \in 1..m /\ r[i] = s[i - 1] /\ i - 1 < j - 1
          BY <4>3, <3>1, <3>3
        <5>2. QED
          BY <4>1, <5>1, <2>2
      <4>4. QED
        BY <4>2, <4>3
    <3>7. {r[i] : i \in 1..(m + 1)} = Upto(k + 1)
      <4>1. ASSUME NEW i \in 1..(m + 1) PROVE r[i] \in Upto(k + 1)
        <5>1. CASE i = 1
          BY <5>1, <3>2, <2>4
        <5>2. CASE i # 1
          BY <5>2, <3>3, <3>4
        <5>3. QED
          BY <5>1, <5>2
      <4>2. ASSUME NEW x \in Upto(k + 1) PROVE \E i \in 1..(m + 1) : r[i] = x
        <5>1. CASE x = k + 1
          BY <5>1, <3>2
        <5>2. CASE x # k + 1
          <6>1. x \in Upto(k)
            BY <5>2
          <6>2. PICK i \in 1..m : s[i] = x
            BY <6>1, <2>2
          <6>3. QED
            BY <6>2, <3>2
        <5>3. QED
          BY <5>1, <5>2
      <4> HIDE DEF Upto
      <4>3. QED
        BY <4>1, <4>2
    <3> HIDE DEF Upto
    <3>8. QED
      BY <3>1, <3>5, <3>6, <3>7
  <2>5. QED
    BY <2>3, <2>4
<1> HIDE DEF Fine
<1>3. Fine(N)
  <2> DEFINE Bad == {k \in Nat : ~Fine(k)}
  <2>1. SUFFICES ASSUME Bad # {} PROVE FALSE
    OBVIOUS
  <2>2. PICK k \in Bad : \A j \in Bad : k <= j
    <3>1. Bad \in SUBSET Nat
      OBVIOUS
    <3> HIDE DEF Bad
    <3>2. QED
      BY <2>1, <3>1, FirstOne
  <2>3. k # 0 /\ k \in Nat /\ ~Fine(k)
    BY <1>1, <2>2
  <2>4. k - 1 \in Nat /\ (k - 1) + 1 = k /\ k - 1 < k
    BY <2>3
  <2>5. Fine(k - 1)
    BY <2>2, <2>4
  <2>6. Fine((k - 1) + 1)
    BY <1>2, <2>4, <2>5
  <2>7. QED
    BY <2>3, <2>4, <2>6
<1>4. PICK m \in 0..N : \E s \in [1..m -> S] :
                        /\ \A i, j \in 1..m : i < j => s[i] > s[j]
                        /\ {s[i] : i \in 1..m} = S
  <2>1. Upto(N) = S
    OBVIOUS
  <2>2. QED
    BY <1>3, <2>1 DEF Fine
<1>5. PICK s \in [1..m -> S] :
                        /\ \A i, j \in 1..m : i < j => s[i] > s[j]
                        /\ {s[i] : i \in 1..m} = S
  BY <1>4
<1>6. s \in SeqOf(S, N)
  BY DEF SeqOf
<1>7. s \in Seq(S) /\ Len(s) = m
  OBVIOUS
<1>8. QED
  BY <1>5, <1>6, <1>7 DEF Decreasing

\* The children of a node as they are pushed.
LEMMA PushedFacts ==
  ASSUME IInv, NEW n
  PROVE  Lists(Pushed(n), ChildsOf(n))
<1> DEFINE S == ChildsOf(n)
           N == Len(nodes)
<1>1. N \in Nat /\ S \in SUBSET (1..N)
  BY TreeFacts DEF ChildsOf
<1>2. \A s \in SeqOf(S, N) : s \in Seq(Nat) /\ Len(s) \in Nat /\ DOMAIN s = 1..Len(s)
  <2> SUFFICES ASSUME NEW s \in SeqOf(S, N)
               PROVE  s \in Seq(Nat) /\ Len(s) \in Nat /\ DOMAIN s = 1..Len(s)
    OBVIOUS
  <2> HIDE DEF S, N
  <2>1. PICK m \in 0..N : s \in [1..m -> S]
    BY DEF SeqOf
  <2>2. m \in Nat /\ s \in [1..m -> Nat]
    <3>1. \A x \in S : x \in Nat
      BY <1>1
    <3>2. \A i \in 1..m : s[i] \in Nat
      BY <2>1, <3>1
    <3>3. QED
      BY <1>1, <2>1, <3>2
  <2>3. QED
    BY <2>2
<1> HIDE DEF S, N
<1>3. PICK s \in SeqOf(S, N) : Decreasing(s) /\ {s[i] : i \in 1..Len(s)} = S
  BY <1>1, DecreasingListing
<1>4. \A r \in SeqOf(S, N) : Range(r) = {r[i] : i \in 1..Len(r)}
  BY <1>2 DEF Range
<1>5. Listings(n) = {r \in SeqOf(S, N) : Range(r) = S}
  BY DEF Listings, S, N
<1>6. s \in Listings(n) /\ \A i, j \in 1..Len(s) : i < j => s[i] > s[j]
  BY <1>3, <1>4, <1>5 DEF Decreasing
<1>7. Pushed(n) \in Listings(n) /\ Decreasing(Pushed(n))
  BY <1>6 DEF Pushed, Decreasing
<1>8. QED
  BY <1>2, <1>4, <1>5, <1>7 DEF Lists, S

\* One list behind another whose elements are smaller.
LEMMA ConcatFacts ==
  ASSUME NEW t, NEW T, Lists(t, T), NEW r, NEW R, Lists(r, R),
         \A a \in T, c \in R : a > c
  PROVE  Lists(t \o r, T \cup R)
<1>1. /\ t \in Seq(Nat) /\ Len(t) \in Nat /\ \A i \in 1..Len(t) : t[i] \in Nat
      /\ r \in Seq(Nat) /\ Len(r) \in Nat /\ \A i \in 1..Len(r) : r[i] \in Nat
      /\ \A i, j \in 1..Len(t) : i < j => t[i] > t[j]
      /\ \A i, j \in 1..Len(r) : i < j => r[i] > r[j]
      /\ T = {t[i] : i \in 1..Len(t)} /\ R = {r[i] : i \in 1..Len(r)}
  BY DEF Lists, Decreasing
<1>2. PICK k \in Nat : k = Len(t)
  BY <1>1
<1>3. PICK l \in Nat : l = Len(r)
  BY <1>1
<1> DEFINE u == t \o r
<1>4. /\ u \in Seq(Nat) /\ Len(u) = k + l
      /\ \A i \in 1..(k + l) : u[i] = IF i <= k THEN t[i] ELSE r[i - k]
  BY <1>1, <1>2, <1>3
<1> HIDE DEF u
<1>5. /\ \A i \in 1..k : u[i] = t[i] /\ i \in 1..(k + l)
      /\ \A i \in 1..l : k + i \in 1..(k + l) /\ ~(k + i <= k) /\ (k + i) - k = i
      /\ \A i \in 1..(k + l) : i \in 1..k \/ (i - k \in 1..l /\ ~(i <= k))
  BY <1>4
<1>6. /\ \A i \in 1..l : u[k + i] = r[i]
      /\ \A i \in 1..(k + l) : i \notin 1..k => u[i] = r[i - k]
  BY <1>4, <1>5
<1>7. Decreasing(u)
  <2> SUFFICES ASSUME NEW i \in 1..(k + l), NEW j \in 1..(k + l), i < j PROVE u[i] > u[j]
    BY <1>4 DEF Decreasing
  <2>1. CASE i \in 1..k /\ j \in 1..k
    BY <2>1, <1>1, <1>2, <1>5
  <2>2. CASE i \in 1..k /\ j \notin 1..k
    <3>1. u[i] \in T /\ u[j] \in R
      BY <2>2, <1>1, <1>2, <1>3, <1>5, <1>6
    <3>2. QED
      BY <3>1
  <2>3. CASE i \notin 1..k /\ j \notin 1..k
    <3>1. /\ i - k \in 1..l /\ u[i] = r[i - k] /\ j - k \in 1..l /\ u[j] = r[j - k]
          /\ i - k < j - k
      BY <2>3, <1>5, <1>6
    <3>2. QED
      BY <3>1, <1>1, <1>3
  <2>4. CASE i \notin 1..k /\ j \in 1..k
    BY <2>4, <1>5
  <2>5. QED
    BY <2>1, <2>2, <2>3, <2>4
<1>8. {u[i] : i \in 1..Len(u)} = T \cup R
  <2>1. ASSUME NEW i \in 1..(k + l) PROVE u[i] \in T \cup R
    BY <1>1, <1>2, <1>3, <1>5, <1>6
  <2>2. ASSUME NEW x \in T \cup R PROVE \E i \in 1..(k + l) : u[i] = x
    <3>1. CASE x \in T
      <4>1. PICK i \in 1..k : t[i] = x
        BY <3>1, <1>1, <1>2
      <4>2. QED
        BY <4>1, <1>5
    <3>2. CASE x \in R
      <4>1. PICK i \in 1..l : r[i] = x
        BY <3>2, <1>1, <1>3
      <4>2. QED
        BY <4>1, <1>5, <1>6
    <3>3. QED
      BY <3>1, <3>2
  <2>3. QED
    BY <1>4, <2>1, <2>2
<1>9. u \in Seq(Nat) /\ Len(u) \in Nat
  BY <1>4
<1>10. Lists(u, T \cup R)
  BY <1>7, <1>8, <1>9 DEF Lists
<1>11. QED
  BY <1>10 DEF u

\* Popping a list takes its least element.
LEMMA PopFacts ==
  ASSUME NEW s, NEW S, Lists(s, S), s # <<>>
  PROVE  /\ Top(s) \in S /\ \A a \in S : Top(s) <= a
         /\ Lists(SubSeq(s, 1, Len(s) - 1), S \ {Top(s)})
<1> DEFINE t == SubSeq(s, 1, Len(s) - 1)
<1>1. /\ s \in Seq(Nat) /\ Len(s) \in Nat /\ \A i \in 1..Len(s) : s[i] \in Nat
      /\ \A i, j \in 1..Len(s) : i < j => s[i] > s[j]
      /\ S = {s[i] : i \in 1..Len(s)}
  BY DEF Lists, Decreasing
<1>2. PICK k \in Nat : Len(s) = k + 1
  <2>1. Len(s) # 0
    BY <1>1
  <2>2. Len(s) - 1 \in Nat /\ Len(s) = (Len(s) - 1) + 1
    BY <2>1, <1>1
  <2>3. QED
    BY <2>2
<1>3. t \in Seq(Nat) /\ Len(t) = k /\ \A i \in 1..k : t[i] = s[i]
  <2>1. Len(s) - 1 = k
    BY <1>2
  <2>2. CASE k = 0
    BY <1>1, <2>1, <2>2
  <2>3. CASE k # 0
    <3>1. k \in 1..Len(s) /\ t = SubSeq(s, 1, k)
      BY <1>2, <2>1, <2>3
    <3>2. QED
      BY <1>1, <3>1, PrefixFacts
  <2>4. QED
    BY <2>2, <2>3
<1> HIDE DEF t
<1>4. /\ k + 1 \in 1..(k + 1) /\ \A i \in 1..(k + 1) : i = k + 1 \/ i \in 1..k
      /\ \A i \in 1..k : i \in 1..(k + 1) /\ i < k + 1
  OBVIOUS
<1>5. PICK x \in Nat : x = s[k + 1]
  BY <1>1, <1>2, <1>4
<1>6. \A i \in 1..k : s[i] > x /\ s[i] \in Nat
  BY <1>1, <1>2, <1>4, <1>5
<1>7. x \in S /\ \A a \in S : x <= a
  BY <1>1, <1>2, <1>4, <1>5, <1>6
<1>8. S \ {x} = {t[i] : i \in 1..k}
  BY <1>1, <1>2, <1>3, <1>4, <1>5, <1>6
<1>9. Decreasing(t)
  BY <1>1, <1>2, <1>3, <1>4 DEF Decreasing
<1>10. Lists(t, S \ {x})
  BY <1>3, <1>8, <1>9 DEF Lists
<1>11. Top(s) = x
  BY <1>2, <1>5 DEF Top
<1>12. QED
  BY <1>7, <1>10, <1>11 DEF t

\* Build_Header_Map goes through the tree in the order of creation: when it is at
\* node t, what was created before is in the map, and the stack has what is left of
\* the nodes that hang below those.
Frontier(t) == {m \in Inclusion : m >= t /\ (m = Root \/ P(m) < t)}
FileOf(n) == FileGiven(rootFile, n)
MapAt(t) ==
  /\ Lists(mapStack, Frontier(t))
  /\ \A f \in DOMAIN fileMap :
       /\ fileMap[f] \in Inclusion /\ fileMap[f] < t /\ FileOf(fileMap[f]) = f
       /\ \A k \in Inclusion : k < fileMap[f] => FileOf(k) # f
  /\ \A k \in Inclusion : k < t => FileOf(k) \in DOMAIN fileMap

MapInv ==
  /\ phase # "ready" => mapStack = <<>>
  /\ phase = "ready" => \E t \in Nat : MapAt(t)
  /\ phase # "ready" => fileMap = NoMap

\* The children of a node are below all that waits on the stack.
LEMMA FrontierFacts ==
  ASSUME IInv, TreeInv, NEW t \in Nat, NEW m \in Frontier(t)
  PROVE  /\ t \in Frontier(t)
         /\ \A a \in Frontier(t) \ {t}, c \in ChildsOf(t) : a > c
         /\ Frontier(t + 1) = (Frontier(t) \ {t}) \cup ChildsOf(t)
<1>1. t \in Frontier(t)
  <2>1. m \in 0..Len(nodes) /\ m >= t /\ Len(nodes) \in Nat
    BY TreeFacts DEF Frontier, Inclusion
  <2>2. t \in Inclusion
    BY <2>1 DEF Inclusion
  <2>3. t = Root \/ P(t) < t
    BY <2>2, TreeFacts
  <2>4. QED
    BY <2>2, <2>3 DEF Frontier
<1>2. ASSUME NEW a \in Frontier(t) \ {t}, NEW c \in ChildsOf(t) PROVE a > c
  <2>1. a \in Inclusion /\ a > t /\ a # Root
    BY TreeFacts DEF Frontier, Root
  <2>2. a \in 1..Len(nodes) /\ P(a) < t /\ P(a) \in Nat /\ a \in Nat
    BY <2>1, TreeFacts DEF Frontier
  <2>3. c \in 1..Len(nodes) /\ P(c) = t /\ c \in Nat
    BY TreeFacts DEF ChildsOf, P
  <2>4. t \in 1..Len(nodes)
    BY <2>1, <2>2, TreeFacts
  <2>5. ~(a < c)
    <3> SUFFICES ASSUME a < c PROVE FALSE
      OBVIOUS
    <3>1. P(c) < t \/ P(c) >= a
      BY <2>1, <2>2, <2>3, <2>4 DEF TreeInv, PreOrder
    <3>2. QED
      BY <3>1, <2>1, <2>2, <2>3
  <2>6. a # c
    BY <2>2, <2>3
  <2>7. QED
    BY <2>2, <2>3, <2>5, <2>6
<1>3. ASSUME NEW k \in Inclusion
      PROVE  k \in Frontier(t + 1) <=> k \in (Frontier(t) \ {t}) \cup ChildsOf(t)
  <2>1. k \in Nat
    BY TreeFacts
  <2>2. CASE k = Root
    <3>1. k \notin Frontier(t + 1)
      BY <2>2 DEF Frontier, Root
    <3>2. k \notin ChildsOf(t)
      BY <2>2 DEF ChildsOf, Root
    <3>3. k \in Frontier(t) => k = t
      BY <2>2 DEF Frontier, Root
    <3>4. QED
      BY <3>1, <3>2, <3>3
  <2>3. CASE k # Root
    <3>1. k \in 1..Len(nodes) /\ P(k) \in Nat /\ P(k) < k
      BY <2>3, TreeFacts
    <3>2. k \in ChildsOf(t) <=> P(k) = t
      BY <3>1 DEF ChildsOf, P
    <3>3. k \in Frontier(t) <=> k >= t /\ P(k) < t
      BY <2>3 DEF Frontier
    <3>4. k \in Frontier(t + 1) <=> k >= t + 1 /\ P(k) < t + 1
      BY <2>3 DEF Frontier
    <3>5. QED
      BY <2>1, <3>1, <3>2, <3>3, <3>4
  <2>4. QED
    BY <2>2, <2>3
<1>4. ChildsOf(t) \subseteq Inclusion /\ Frontier(t) \subseteq Inclusion /\ Frontier(t + 1) \subseteq Inclusion
  BY TreeFacts DEF ChildsOf, Frontier
<1>5. QED
  BY <1>1, <1>2, <1>3, <1>4

LEMMA MapNodeInv ==
  ASSUME IInv, TreeInv, MapInv, MapNode
  PROVE  MapInv'
<1>1. phase = "ready" /\ mapStack # <<>>
  BY DEF MapNode, MapInv
<1>2. PICK t \in Nat : MapAt(t)
  BY <1>1 DEF MapInv
<1>3. Lists(mapStack, Frontier(t))
  BY <1>2 DEF MapAt
<1>4. Top(mapStack) \in Frontier(t) /\ (\A a \in Frontier(t) : Top(mapStack) <= a)
  BY <1>1, <1>3, PopFacts
<1>5. Top(mapStack) = t /\ t \in Inclusion
  <2>1. t \in Frontier(t)
    BY <1>4, FrontierFacts
  <2>2. Top(mapStack) <= t /\ Top(mapStack) >= t /\ Top(mapStack) \in Inclusion
    BY <2>1, <1>4 DEF Frontier
  <2>3. QED
    BY <2>2, TreeFacts
<1>6. Lists(SubSeq(mapStack, 1, Len(mapStack) - 1), Frontier(t) \ {t})
  BY <1>1, <1>3, <1>5, PopFacts
<1>7. /\ \A a \in Frontier(t) \ {t}, c \in ChildsOf(t) : a > c
      /\ Frontier(t + 1) = (Frontier(t) \ {t}) \cup ChildsOf(t)
  BY <1>4, FrontierFacts
<1>8. /\ nodes' = nodes /\ rootFile' = rootFile /\ phase' = phase
      /\ mapStack' = SubSeq(mapStack, 1, Len(mapStack) - 1) \o Pushed(t)
      /\ fileMap' = IF FileOf(t) \in DOMAIN fileMap THEN fileMap
                    ELSE [g \in DOMAIN fileMap \cup {FileOf(t)} |->
                            IF g = FileOf(t) THEN t ELSE fileMap[g]]
  BY <1>5 DEF MapNode, treeVars, sweepVars, FileOf
<1>9. Lists(mapStack', Frontier(t + 1))
  <2>1. Lists(Pushed(t), ChildsOf(t))
    BY PushedFacts
  <2>2. QED
    BY <2>1, <1>6, <1>7, <1>8, ConcatFacts
<1>10. /\ Inclusion' = Inclusion /\ Frontier(t + 1)' = Frontier(t + 1)
       /\ \A k : FileOf(k)' = FileOf(k)
  BY <1>8 DEF Inclusion, Frontier, P, FileOf, FileGiven
<1>11. /\ \A f \in DOMAIN fileMap :
            /\ fileMap[f] \in Inclusion /\ fileMap[f] < t /\ FileOf(fileMap[f]) = f
            /\ \A k \in Inclusion : k < fileMap[f] => FileOf(k) # f
       /\ \A k \in Inclusion : k < t => FileOf(k) \in DOMAIN fileMap
  BY <1>2 DEF MapAt
<1>12. /\ DOMAIN fileMap' = DOMAIN fileMap \cup {FileOf(t)}
       /\ \A f \in DOMAIN fileMap : fileMap'[f] = fileMap[f]
       /\ FileOf(t) \notin DOMAIN fileMap => fileMap'[FileOf(t)] = t
  <2>1. CASE FileOf(t) \in DOMAIN fileMap
    BY <2>1, <1>8
  <2>2. CASE FileOf(t) \notin DOMAIN fileMap
    BY <2>2, <1>8
  <2>3. QED
    BY <2>1, <2>2
<1>13. ASSUME NEW f \in DOMAIN fileMap'
       PROVE  /\ fileMap'[f] \in Inclusion /\ fileMap'[f] < t + 1 /\ FileOf(fileMap'[f]) = f
              /\ \A k \in Inclusion : k < fileMap'[f] => FileOf(k) # f
  <2>1. CASE f \in DOMAIN fileMap
    <3>1. fileMap[f] \in Nat /\ fileMap[f] < t
      BY <2>1, <1>11, TreeFacts
    <3>2. fileMap[f] < t + 1
      BY <3>1
    <3>3. QED
      BY <2>1, <3>2, <1>11, <1>12
  <2>2. CASE f \notin DOMAIN fileMap
    BY <2>2, <1>5, <1>11, <1>12
  <2>3. QED
    BY <2>1, <2>2
<1>14. ASSUME NEW k \in Inclusion, k < t + 1 PROVE FileOf(k) \in DOMAIN fileMap'
  <2>1. k < t \/ k = t
    BY <1>14, TreeFacts
  <2>2. QED
    BY <2>1, <1>11, <1>12
<1>15. MapAt(t + 1)'
  <2>1. Lists(mapStack, Frontier(t + 1))'
    BY <1>9, <1>10 DEF Lists, Decreasing
  <2>2. QED
    BY <2>1, <1>10, <1>13, <1>14 DEF MapAt
<1>16. t + 1 \in Nat
  OBVIOUS
<1>17. QED
  BY <1>1, <1>8, <1>15, <1>16 DEF MapInv

\* The map is started with Root.
LEMMA SweepMapInv ==
  ASSUME IInv, MapInv, Sweep
  PROVE  MapInv'
<1>1. /\ nodes' = nodes /\ fileMap' = fileMap
      /\ mapStack' = IF phase' = "ready" THEN <<Root>> ELSE mapStack
  BY DEF Sweep, treeVars
<1>2. phase \in {"expand", "output", "cut"}
  BY DEF Sweep, Attrs!Next, Attrs!ExpandUp, Attrs!OutputDown, Attrs!CutDown
<1>3. mapStack = <<>> /\ fileMap = NoMap
  BY <1>2 DEF MapInv
<1>4. CASE phase' # "ready"
  BY <1>1, <1>3, <1>4 DEF MapInv, NoMap
<1>5. CASE phase' = "ready"
  <2>1. mapStack' = <<0>> /\ DOMAIN fileMap' = {}
    BY <1>1, <1>3, <1>5 DEF NoMap, Root
  <2>2. \A k \in Inclusion' : k \in Nat /\ ~(k < 0)
    BY <1>1, TreeFacts DEF Inclusion
  <2>3. Frontier(0)' = {0}
    <3>1. Frontier(0) = {0}
      <4>1. \A k \in 1..Len(nodes) : P(k) \in Nat /\ ~(P(k) < 0)
        BY TreeFacts
      <4>2. QED
        BY <4>1, TreeFacts DEF Frontier, Root
    <3>2. QED
      BY <1>1, <3>1 DEF Frontier, Inclusion, P
  <2>4. Lists(<<0>>, {0})
    <3>1. <<0>> \in Seq(Nat) /\ Len(<<0>>) = 1 /\ <<0>>[1] = 0 /\ 1..1 = {1}
      OBVIOUS
    <3>2. QED
      BY <3>1 DEF Lists, Decreasing
  <2>5. Lists(mapStack, Frontier(0))'
    BY <2>1, <2>3, <2>4 DEF Lists, Decreasing
  <2>6. MapAt(0)'
    BY <2>1, <2>2, <2>5 DEF MapAt
  <2>7. QED
    BY <1>5, <2>6 DEF MapInv
<1>6. QED
  BY <1>4, <1>5

-----------------------------------------------------------------------------
(***************************************************************************)
(* The constructor.                                                        *)
(***************************************************************************)
AllInv == IInv /\ TreeInv /\ SweepInv /\ MapInv

LEMMA BuildAllInv == AllInv /\ Build => AllInv'
<1> SUFFICES ASSUME AllInv, Build PROVE AllInv'
  OBVIOUS
<1>1. IInv /\ TreeInv /\ SweepInv /\ MapInv
  BY DEF AllInv
<1>2. /\ status = "build"
      /\ UNCHANGED <<sweepVars, mapVars>>
  BY DEF Build, LeaveFile, EnterMain, Include, IncludeDenied, GuardDefinition, GuardDefinitionUnderflow
<1>3. phase = "idle"
  BY <1>1, <1>2 DEF SweepInv
<1>4. /\ phase' = "idle" /\ mapStack' = mapStack /\ fileMap' = fileMap
  BY <1>2, <1>3 DEF sweepVars, mapVars
<1>5. SweepInv'
  BY <1>4 DEF SweepInv
<1>6. MapInv'
  BY <1>1, <1>3, <1>4 DEF MapInv, NoMap
<1>7. CASE \E f \in Headers, entered \in BOOLEAN, verdict \in Verdicts, reach \in Reach :
             Include(f, entered, verdict, reach)
  <2>1. PICK f \in Headers, entered \in BOOLEAN, verdict \in Verdicts, reach \in Reach :
             Include(f, entered, verdict, reach)
    BY <1>7
  <2>2. IInv'
    BY <1>1, <2>1, IncludeIInv
  <2>3. TreeInv'
    BY <1>1, <2>1, IncludeTreeInv
  <2>4. QED
    BY <1>5, <1>6, <2>2, <2>3 DEF AllInv
<1>8. CASE \/ LeaveFile \/ EnterMain \/ GuardDefinition \/ GuardDefinitionUnderflow
           \/ \E f \in Headers, verdict \in Verdicts : IncludeDenied(f, verdict)
  <2>1. IInv'
    BY <1>1, <1>8, LeaveFileIInv, EnterMainIInv, GuardDefinitionIInv,
       GuardDefinitionUnderflowIInv, IncludeDeniedIInv
  <2>2. TreeInv'
    BY <1>1, <1>8, OthersTreeInv
  <2>3. QED
    BY <1>5, <1>6, <2>1, <2>2 DEF AllInv
<1>9. QED
  BY <1>7, <1>8 DEF Build

LEMMA StartSweepsAllInv == AllInv /\ StartSweeps => AllInv'
<1> SUFFICES ASSUME AllInv, StartSweeps PROVE AllInv'
  OBVIOUS
<1>1. IInv /\ TreeInv /\ SweepInv /\ MapInv /\ Finish
  BY DEF AllInv, StartSweeps
<1>2. phase = "idle" /\ phase' = "expand" /\ mapStack' = mapStack /\ fileMap' = fileMap
  BY <1>1 DEF SweepInv, StartSweeps, Finish, mapVars
<1>3. IInv'
  BY <1>1, FinishIInv
<1>4. TreeInv'
  BY <1>1, OthersTreeInv
<1>5. SweepInv'
  BY <1>1, StartSweepsInv
<1>6. MapInv'
  BY <1>1, <1>2 DEF MapInv, NoMap
<1>7. QED
  BY <1>3, <1>4, <1>5, <1>6 DEF AllInv

LEMMA SweepAllInv == AllInv /\ Sweep => AllInv'
<1> SUFFICES ASSUME AllInv, Sweep PROVE AllInv'
  OBVIOUS
<1>1. IInv /\ TreeInv /\ SweepInv /\ MapInv /\ UNCHANGED vars
  BY DEF AllInv, Sweep, vars, ppVars, treeVars
<1>2. IInv'
  BY <1>1, StutterIInv
<1>3. TreeInv'
  BY <1>1, OthersTreeInv
<1>4. SweepInv'
  BY <1>1, SweepSweepInv
<1>5. MapInv'
  BY <1>1, SweepMapInv
<1>6. QED
  BY <1>2, <1>3, <1>4, <1>5 DEF AllInv

LEMMA MapNodeAllInv == AllInv /\ MapNode => AllInv'
<1> SUFFICES ASSUME AllInv, MapNode PROVE AllInv'
  OBVIOUS
<1>1. IInv /\ TreeInv /\ SweepInv /\ MapInv /\ UNCHANGED vars
  BY DEF AllInv, MapNode, vars, ppVars, treeVars
<1>2. IInv'
  BY <1>1, StutterIInv
<1>3. TreeInv'
  BY <1>1, OthersTreeInv
<1>4. /\ nodes' = nodes /\ status' = status /\ expand' = expand /\ output' = output
      /\ cut' = cut /\ done' = done /\ phase' = phase
  BY DEF MapNode, treeVars, sweepVars
<1>5. SweepInv'
  BY <1>1, <1>4, SameNodes DEF SweepInv, SweepTypes, Provided, HasOutput
<1>6. MapInv'
  BY <1>1, MapNodeInv
<1>7. QED
  BY <1>2, <1>3, <1>5, <1>6 DEF AllInv

LEMMA StutterAllInv == AllInv /\ UNCHANGED allVars => AllInv'
<1> SUFFICES ASSUME AllInv, UNCHANGED allVars PROVE AllInv'
  OBVIOUS
<1>1. IInv /\ TreeInv /\ SweepInv /\ MapInv /\ UNCHANGED vars
  BY DEF AllInv, allVars, vars
<1>2. IInv'
  BY <1>1, StutterIInv
<1>3. TreeInv'
  BY <1>1, OthersTreeInv
<1>4. /\ nodes' = nodes /\ status' = status /\ expand' = expand /\ output' = output
      /\ cut' = cut /\ done' = done /\ phase' = phase /\ mapStack' = mapStack
      /\ fileMap' = fileMap /\ rootFile' = rootFile
  BY DEF allVars
<1>5. SweepInv'
  BY <1>1, <1>4, SameNodes DEF SweepInv, SweepTypes, Provided, HasOutput
<1>6. MapInv'
  <2>1. CASE phase # "ready"
    BY <2>1, <1>1, <1>4 DEF MapInv, NoMap
  <2>2. CASE phase = "ready"
    <3>1. PICK t \in Nat : MapAt(t)
      BY <1>1, <2>2 DEF MapInv
    <3>2. MapAt(t)'
      BY <1>4, <3>1 DEF MapAt, Lists, Decreasing, Frontier, Inclusion, P, FileOf, FileGiven
    <3>3. QED
      BY <2>2, <3>2, <1>4 DEF MapInv
  <2>3. QED
    BY <2>1, <2>2
<1>7. QED
  BY <1>2, <1>3, <1>5, <1>6 DEF AllInv

LEMMA InitAllInv == TreeInit => AllInv
<1> SUFFICES ASSUME TreeInit PROVE AllInv
  OBVIOUS
<1>1. IInv /\ TreeInv
  BY InitIInv, InitTreeInv DEF TreeInit
<1>2. SweepInv /\ MapInv
  BY DEF TreeInit, SweepInv, MapInv
<1>3. QED
  BY <1>1, <1>2 DEF AllInv

\* The inductive invariant of the constructor: what Build_Header_Tree, the sweeps
\* and Build_Header_Map each leave behind for the next.
THEOREM TreeInductive == TreeSpec => []AllInv
<1>1. AllInv /\ [TreeNext]_allVars => AllInv'
  BY BuildAllInv, StartSweepsAllInv, SweepAllInv, MapNodeAllInv, StutterAllInv DEF TreeNext
<1>2. QED
  BY <1>1, InitAllInv, PTL DEF TreeSpec

\* A header that -DCE_EXPAND_INCLUDES or an earlier pass asked for is expanded at
\* the node Build_Header_Map finds for its file: that node is the one the request
\* went to, and no sweep takes a request back unless the node may not be expanded.
THEOREM RequestReachesMappedNodeHolds == TreeSpec => []RequestReachesMappedNode
<1>1. AllInv => RequestReachesMappedNode
  <2> SUFFICES ASSUME AllInv, Constructed, NEW f \in mustExpand \cap DOMAIN fileMap,
                      Attrs!Can_Be_Expanded(fileMap[f])
               PROVE  expand[fileMap[f]]
    BY DEF RequestReachesMappedNode
  <2>1. IInv /\ TreeInv /\ SweepInv /\ MapInv /\ phase = "ready"
    BY DEF AllInv, Constructed
  <2>2. PICK t \in Nat : MapAt(t)
    BY <2>1 DEF MapInv
  <2> DEFINE n == fileMap[f]
  <2>3. n \in Inclusion /\ FileOf(n) = f /\ \A k \in Inclusion : k < n => FileOf(k) # f
    BY <2>2 DEF MapAt
  <2> HIDE DEF n
  <2>4. n # Root
    <3>1. f \in Headers /\ rootFile \notin Headers
      BY <2>1, FilesDiffer DEF IInv, TypeOK
    <3>2. QED
      BY <2>3, <3>1 DEF FileOf, FileGiven
  <2>5. IsFirst(n, f)
    <3>1. n \in 1..Len(nodes)
      BY <2>1, <2>3, <2>4, TreeFacts
    <3>2. \A k \in 1..Len(nodes) : k \in Inclusion /\ k # Root
      BY <2>1, TreeFacts
    <3>3. QED
      BY <2>3, <2>4, <3>1, <3>2 DEF IsFirst, FileOf, FileGiven
  <2>6. nodes[n].expand
    BY <2>1, <2>5 DEF TreeInv, FirstIsAsked, SweepInv, IsFirst
  <2>7. Wanted(n) /\ Free(n)
    BY <2>1, <2>3, <2>6, FlagFacts DEF Wanted, n
  <2>8. QED
    BY <2>1, <2>3, <2>7 DEF SweepInv, n
<1>2. QED
  BY <1>1, TreeInductive, PTL

\* A file that is in the map but not expanded is provided by an #include that is
\* output or by the command line: Analyze_Includes may drop its declarations.
THEOREM UnexpandedFileIsProvidedHolds == TreeSpec => []UnexpandedFileIsProvided
<1>1. AllInv => UnexpandedFileIsProvided
  <2> SUFFICES ASSUME AllInv, Constructed, NEW f \in DOMAIN fileMap, ~expand[fileMap[f]]
               PROVE  \/ Attrs!Has_Parent_Marked_For_Output(fileMap[f])
                      \/ nodes[fileMap[f]].minus
    BY DEF UnexpandedFileIsProvided
  <2>1. IInv /\ SweepInv /\ MapInv /\ phase = "ready"
    BY DEF AllInv, Constructed
  <2>2. PICK t \in Nat : MapAt(t)
    BY <2>1 DEF MapInv
  <2> DEFINE n == fileMap[f]
  <2>3. n \in Inclusion
    BY <2>2 DEF MapAt
  <2> HIDE DEF n
  <2>4. Provided(n, Inclusion) /\ ~expand[n]
    BY <2>1, <2>3 DEF SweepInv, n
  <2>5. FromMinus(n) \/ HasOutput(n, Inclusion)
    BY <2>4 DEF Provided
  <2>6. Attrs!AncestorsOrSelf[n] = Above(n)
    BY <2>1, <2>3, AncestorsAre
  <2>7. HasOutput(n, Inclusion) => Attrs!Has_Parent_Marked_For_Output(n)
    BY <2>6 DEF HasOutput, Attrs!Has_Parent_Marked_For_Output
  <2>8. QED
    BY <2>5, <2>7 DEF FromMinus, n
<1>2. QED
  BY <1>1, TreeInductive, PTL
=============================================================================
