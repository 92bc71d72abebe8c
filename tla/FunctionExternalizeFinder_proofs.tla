------------------ MODULE FunctionExternalizeFinder_proofs ------------------
(***************************************************************************)
(* The two searches are exact whatever the graphs and the order of the     *)
(* calls: the inline closure is the least set that is closed under         *)
(* inlining, and the finder externalizes what is met from the functions    *)
(* copied and nothing else.  And the symbol cache answers what the library *)
(* says, or else what the last file says that has the symbol.              *)
(***************************************************************************)
EXTENDS FunctionExternalizeFinder, WellFoundedInduction, TLAPS

-----------------------------------------------------------------------------
(* Sequences.                                                              *)

(* A sequence without its last element. *)
LEMMA ButLast ==
    ASSUME NEW S, NEW s \in Seq(S), s # <<>>
    PROVE  /\ SubSeq(s, 1, Len(s) - 1) \in Seq(S)
           /\ Len(SubSeq(s, 1, Len(s) - 1)) = Len(s) - 1
           /\ \A i \in 1 .. Len(s) - 1 : SubSeq(s, 1, Len(s) - 1)[i] = s[i]
<1> DEFINE k == Len(s) - 1
<1>1. k \in Nat /\ \A i \in 1 .. k : s[i] \in S
  OBVIOUS
<1> HIDE DEF k
<1>2. SubSeq(s, 1, k) \in Seq(S)
  BY <1>1
<1>3. Len(SubSeq(s, 1, k)) = k
  BY <1>1
<1>4. \A i \in 1 .. k : SubSeq(s, 1, k)[i] = s[i]
  BY <1>1
<1> QED BY <1>2, <1>3, <1>4 DEF k

(* A set of calls that are active: the innermost goes on with one of its   *)
(* neighbours, a call is entered, or left.                                 *)
Frames(S) == [node : S, todo : SUBSET S]
Waits(s, n, m) == \E i \in 1 .. Len(s) : s[i].node = n /\ m \in s[i].todo

Advanced(S, s, m, t) ==
    /\ t \in Seq(Frames(S))
    /\ m \in S
    /\ Len(t) = Len(s)
    /\ s[Len(s)] \in Frames(S)
    /\ \A i \in 1 .. Len(s) : t[i].node = s[i].node /\ t[i].todo \subseteq s[i].todo
    /\ \A n, x : Waits(s, n, x) /\ x # m => Waits(t, n, x)

LEMMA Advance ==
    ASSUME NEW S, NEW s \in Seq(Frames(S)), s # <<>>, NEW m \in s[Len(s)].todo
    PROVE  Advanced(S, s, m, [s EXCEPT ![Len(s)].todo = @ \ {m}])
<1> DEFINE t == [s EXCEPT ![Len(s)].todo = @ \ {m}]
<1> DEFINE last == Len(s)
           top == [s[last] EXCEPT !.todo = @ \ {m}]
<1>1. last \in 1 .. Len(s) /\ Len(s) \in Nat /\ \A i \in 1 .. Len(s) : s[i] \in Frames(S)
  OBVIOUS
<1>2. t = [s EXCEPT ![last] = top]
  OBVIOUS
<1> HIDE DEF t
<1>3. top \in Frames(S) /\ top.node = s[last].node /\ top.todo = s[last].todo \ {m}
  BY <1>1 DEF Frames
<1> HIDE DEF top
<1>4. /\ t \in Seq(Frames(S)) /\ Len(t) = Len(s)
      /\ \A i \in 1 .. Len(s) : t[i] = IF i = last THEN top ELSE s[i]
  <2> DEFINE F == Frames(S)
  <2>1. s \in Seq(F) /\ top \in F /\ last \in 1 .. Len(s)
    BY <1>1, <1>3
  <2> HIDE DEF F, last
  <2>2. [s EXCEPT ![last] = top] \in Seq(F) /\ Len([s EXCEPT ![last] = top]) = Len(s)
    BY <2>1
  <2>3. \A i \in 1 .. Len(s) : [s EXCEPT ![last] = top][i] = IF i = last THEN top ELSE s[i]
    BY <2>1
  <2> QED BY <1>2, <2>2, <2>3 DEF F
<1>5. ASSUME NEW n, NEW x, Waits(s, n, x), x # m PROVE Waits(t, n, x)
  <2>1. PICK i \in 1 .. Len(s) : s[i].node = n /\ x \in s[i].todo
    BY <1>5 DEF Waits
  <2>2. t[i].node = n /\ x \in t[i].todo
    BY <1>3, <1>4, <1>5, <2>1
  <2> QED BY <1>4, <2>2 DEF Waits
<1> QED
  <2>1. m \in S
    BY <1>1 DEF Frames
  <2> HIDE DEF t
  <2>2. Advanced(S, s, m, t)
    BY <1>1, <1>3, <1>4, <1>5, <2>1 DEF Advanced
  <2> QED BY <2>2 DEF t

Pushed(S, s, n, T, t) ==
    /\ t \in Seq(Frames(S))
    /\ Len(t) = Len(s) + 1
    /\ \A i \in 1 .. Len(s) : t[i] = s[i]
    /\ t[Len(s) + 1] = [node |-> n, todo |-> T]
    /\ \A k, x : Waits(s, k, x) => Waits(t, k, x)
    /\ \A x \in T : Waits(t, n, x)

LEMMA Push ==
    ASSUME NEW S, NEW s \in Seq(Frames(S)), NEW n \in S, NEW T \in SUBSET S
    PROVE  Pushed(S, s, n, T, Append(s, [node |-> n, todo |-> T]))
<1> DEFINE r == [node |-> n, todo |-> T]
           t == Append(s, r)
<1>1. r \in Frames(S) /\ r.node = n /\ r.todo = T
  BY DEF Frames
<1> HIDE DEF r
<1>2. /\ t \in Seq(Frames(S)) /\ Len(t) = Len(s) + 1 /\ Len(s) \in Nat
      /\ \A i \in 1 .. Len(s) : t[i] = s[i]
      /\ t[Len(s) + 1] = r
  BY <1>1
<1> HIDE DEF t
<1>3. \A k, x : Waits(s, k, x) => Waits(t, k, x)
  BY <1>2 DEF Waits
<1>4. \A x \in T : Waits(t, n, x)
  BY <1>1, <1>2 DEF Waits
<1>5. Pushed(S, s, n, T, t)
  BY <1>2, <1>3, <1>4 DEF Pushed, r
<1> QED BY <1>5 DEF t, r

Popped(S, s, t) ==
    /\ t \in Seq(Frames(S))
    /\ \A i \in 1 .. Len(t) : i \in 1 .. Len(s) /\ t[i] = s[i]
    /\ \A n, x : Waits(s, n, x) => Waits(t, n, x)

LEMMA Pop ==
    ASSUME NEW S, NEW s \in Seq(Frames(S)), s # <<>>, s[Len(s)].todo = {}
    PROVE  Popped(S, s, SubSeq(s, 1, Len(s) - 1))
<1> DEFINE t == SubSeq(s, 1, Len(s) - 1)
<1>1. /\ t \in Seq(Frames(S)) /\ Len(t) = Len(s) - 1
      /\ \A i \in 1 .. Len(s) - 1 : t[i] = s[i]
  BY ButLast
<1> HIDE DEF t
<1>2. Len(s) \in Nat /\ Len(t) \in Nat
  BY <1>1
<1>3. ASSUME NEW n, NEW x, Waits(s, n, x) PROVE Waits(t, n, x)
  <2>1. PICK i \in 1 .. Len(s) : s[i].node = n /\ x \in s[i].todo
    BY <1>3 DEF Waits
  <2>2. i # Len(s)
    BY <2>1
  <2>3. i \in 1 .. Len(t) /\ t[i] = s[i]
    BY <1>1, <1>2, <2>2
  <2> QED BY <2>1, <2>3 DEF Waits
<1>4. Popped(S, s, t)
  BY <1>1, <1>2, <1>3 DEF Popped
<1> QED BY <1>4 DEF t

-----------------------------------------------------------------------------
(* The inline closure.                                                     *)
Nodes == UNION {{e[1], e[2]} : e \in Inlines}

\* The closure starts when the logs are read.
ClosureStarts ==
    ~Loaded => walk = <<>> /\ toAsk = input.symbols /\ visited = {} /\ result = {}

\* Whose calls are active was visited, and has neighbours to go to.
WalkIsVisited ==
    \A i \in 1 .. Len(walk) : /\ walk[i].node \in visited
                             /\ walk[i].todo \subseteq Next_Nodes(walk[i].node)

\* A neighbour of what was visited is in the result, or has its call to come.
NeighboursAreFollowed ==
    \A n \in visited : \A m \in Next_Nodes(n) : m \in visited \cap result \/ Waits(walk, n, m)

AskedAreVisited == \A n \in input.symbols \ toAsk : Known(n) => n \in visited
VisitedForAReason == result \subseteq visited /\ visited \subseteq result \cup input.symbols

\* Nothing is in the result that is not in all sets which could be it.
NothingElse == \A S \in SUBSET Names : HasNeighbours(S) => result \subseteq S

InlineInv ==
    /\ input \in Inputs
    /\ toRead \subseteq 1 .. Len(input.elfs)
    /\ lines \in 0 .. Len(input.ipa)
    /\ toAsk \subseteq input.symbols
    /\ walk \in Seq(Frames(Nodes))
    /\ ClosureStarts
    /\ WalkIsVisited
    /\ NeighboursAreFollowed
    /\ AskedAreVisited
    /\ VisitedForAReason
    /\ NothingElse

LEMMA InputFacts ==
    ASSUME input \in Inputs
    PROVE  Len(input.ipa) \in Nat /\ Len(input.elfs) \in Nat
BY InputsAssumption

LEMMA NextAreNodes == \A n : Next_Nodes(n) \subseteq Nodes
<1> SUFFICES ASSUME NEW n, NEW m \in Next_Nodes(n) PROVE m \in Nodes
  OBVIOUS
<1>1. \E e \in Inlines : m \in {e[1], e[2]}
  BY DEF Next_Nodes
<1> QED BY <1>1 DEF Nodes

LEMMA KnownAreNodes == \A n : Known(n) <=> n \in Nodes
BY DEF Known, Nodes

LEMMA UnknownHaveNone == \A n : ~Known(n) => Next_Nodes(n) = {}
BY DEF Known, Next_Nodes

(* The graph stays while the closure is computed. *)
LEMMA SameGraph ==
    ASSUME UNCHANGED <<input, elfVars, ipaVars>>
    PROVE  /\ Loaded' <=> Loaded
           /\ Nodes' = Nodes
           /\ \A n : Next_Nodes(n)' = Next_Nodes(n)
           /\ \A n : Known(n)' <=> Known(n)
           /\ \A S : HasNeighbours(S)' <=> HasNeighbours(S)
           /\ input' = input /\ toRead' = toRead /\ lines' = lines
<1>1. input' = input /\ toRead' = toRead /\ lines' = lines /\ Inlines' = Inlines
  BY DEF elfVars, ipaVars
<1>2. \A n : Next_Nodes(n)' = Next_Nodes(n)
  BY <1>1 DEF Next_Nodes
<1>3. \A S : HasNeighbours(S)' <=> HasNeighbours(S)
  BY <1>1, <1>2 DEF HasNeighbours
<1> QED BY <1>1, <1>2, <1>3 DEF Loaded, Nodes, Known

(* Entering n, which is in the graph and which an edge or a question leads *)
(* to: what is left to follow is followed later.                           *)
LEMMA VisitKeeps ==
    ASSUME InlineInv, Loaded, UNCHANGED <<input, elfVars, ipaVars>>,
           NEW n \in Nodes, NEW w \in Seq(Frames(Nodes)), Visit(n, w),
           result' \in {result, result \cup {n}}, toAsk' \subseteq toAsk,
           n \in input.symbols \/ n \in result',
           \A i \in 1 .. Len(w) : /\ w[i].node \in visited
                                 /\ w[i].todo \subseteq Next_Nodes(w[i].node),
           \A k, m : Waits(walk, k, m) => Waits(w, k, m) \/ (m = n /\ n \in result'),
           \A k \in toAsk \ toAsk' : Known(k) => k = n,
           \A S \in SUBSET Names : HasNeighbours(S) => result' \subseteq S
    PROVE  InlineInv'
<1>1. /\ input' = input /\ toRead' = toRead /\ lines' = lines /\ Nodes' = Nodes
      /\ \A k : Next_Nodes(k)' = Next_Nodes(k)
      /\ \A S : HasNeighbours(S)' <=> HasNeighbours(S)
  BY SameGraph
<1>2. /\ (Loaded' <=> Loaded)
      /\ \A k : Known(k)' <=> Known(k)
  BY SameGraph
<1>3. visited' = visited \cup {n} /\ visited \subseteq visited' /\ result \subseteq result'
  BY DEF Visit
<1>4. /\ walk' \in Seq(Frames(Nodes))
      /\ \A i \in 1 .. Len(walk') : /\ walk'[i].node \in visited'
                                    /\ walk'[i].todo \subseteq Next_Nodes(walk'[i].node)
      /\ \A k, m : Waits(w, k, m) => Waits(walk', k, m)
      /\ n \notin visited => \A m \in Next_Nodes(n) : Waits(walk', n, m)
  <2>1. CASE n \in visited
    BY <1>3, <2>1 DEF Visit
  <2>2. CASE n \notin visited
    <3>1. walk' = Append(w, [node |-> n, todo |-> Next_Nodes(n)]) /\ Next_Nodes(n) \in SUBSET Nodes
      BY <2>2, NextAreNodes DEF Visit
    <3>2. /\ walk' \in Seq(Frames(Nodes))
          /\ Len(walk') = Len(w) + 1
          /\ \A i \in 1 .. Len(w) : walk'[i] = w[i]
          /\ walk'[Len(w) + 1] = [node |-> n, todo |-> Next_Nodes(n)]
          /\ \A k, x : Waits(w, k, x) => Waits(walk', k, x)
          /\ \A x \in Next_Nodes(n) : Waits(walk', n, x)
      <4>1. Pushed(Nodes, w, n, Next_Nodes(n), walk')
        BY <3>1, Push
      <4> QED BY <4>1 DEF Pushed
    <3>3. \A i \in 1 .. Len(walk') : i \in 1 .. Len(w) \/ i = Len(w) + 1
      BY <3>2
    <3>4. ASSUME NEW i \in 1 .. Len(walk')
          PROVE  walk'[i].node \in visited' /\ walk'[i].todo \subseteq Next_Nodes(walk'[i].node)
      BY <1>3, <3>2, <3>3
    <3> QED BY <3>2, <3>4
  <2> QED BY <2>1, <2>2
<1>5. WalkIsVisited'
  BY <1>1, <1>4 DEF WalkIsVisited
<1>6. NeighboursAreFollowed'
  <2> SUFFICES ASSUME NEW k \in visited', NEW m \in Next_Nodes(k)
               PROVE  m \in visited' \cap result' \/ Waits(walk', k, m)
    BY <1>1 DEF NeighboursAreFollowed
  <2>1. CASE k \in visited
    <3>1. m \in visited \cap result \/ Waits(walk, k, m)
      BY <2>1 DEF InlineInv, NeighboursAreFollowed
    <3>2. m \in visited' \cap result' \/ Waits(w, k, m)
      BY <1>3, <3>1
    <3> QED BY <1>4, <3>2
  <2>2. CASE k \notin visited
    BY <1>3, <1>4, <2>2
  <2> QED BY <2>1, <2>2
<1>7. AskedAreVisited'
  BY <1>1, <1>2, <1>3 DEF InlineInv, AskedAreVisited
<1>8. VisitedForAReason'
  BY <1>1, <1>3 DEF InlineInv, VisitedForAReason
<1>9. NothingElse'
  BY <1>1 DEF NothingElse
<1>10. ClosureStarts'
  BY <1>2 DEF ClosureStarts
<1> QED BY <1>1, <1>4, <1>5, <1>6, <1>7, <1>8, <1>9, <1>10 DEF InlineInv

LEMMA AskKeeps ==
    ASSUME InlineInv, Ask
    PROVE  InlineInv'
<1>1. /\ Loaded /\ walk = <<>> /\ UNCHANGED <<input, elfVars, ipaVars>> /\ result' = result
  BY DEF Ask
<1>2. PICK n \in toAsk : /\ toAsk' = toAsk \ {n}
                         /\ IF Known(n) THEN Visit(n, walk) ELSE UNCHANGED <<walk, visited>>
  BY DEF Ask
<1>3. n \in input.symbols /\ toAsk' \subseteq toAsk
  BY <1>2 DEF InlineInv
<1>4. CASE Known(n)
  <2>1. n \in Nodes /\ Visit(n, walk)
    BY <1>2, <1>4, KnownAreNodes
  <2>2. /\ walk \in Seq(Frames(Nodes))
        /\ \A i \in 1 .. Len(walk) : /\ walk[i].node \in visited
                                     /\ walk[i].todo \subseteq Next_Nodes(walk[i].node)
        /\ \A S \in SUBSET Names : HasNeighbours(S) => result' \subseteq S
    BY <1>1 DEF InlineInv, WalkIsVisited, NothingElse
  <2>3. \A k \in toAsk \ toAsk' : Known(k) => k = n
    BY <1>2
  <2> QED BY <1>1, <1>3, <2>1, <2>2, <2>3, VisitKeeps
<1>5. CASE ~Known(n)
  <2>1. walk' = walk /\ visited' = visited
    BY <1>2, <1>5
  <2>2. /\ input' = input /\ toRead' = toRead /\ lines' = lines /\ Nodes' = Nodes
        /\ \A k : Next_Nodes(k)' = Next_Nodes(k)
        /\ \A S : HasNeighbours(S)' <=> HasNeighbours(S)
    BY <1>1, SameGraph
  <2>3. /\ (Loaded' <=> Loaded)
        /\ \A k : Known(k)' <=> Known(k)
    BY <1>1, SameGraph
  <2>4. WalkIsVisited' /\ NeighboursAreFollowed' /\ VisitedForAReason' /\ NothingElse'
    BY <1>1, <2>1, <2>2 DEF InlineInv, WalkIsVisited, NeighboursAreFollowed, VisitedForAReason, NothingElse
  <2>5. AskedAreVisited'
    BY <1>2, <1>5, <2>1, <2>2, <2>3 DEF InlineInv, AskedAreVisited
  <2>6. ClosureStarts'
    BY <1>1, <2>3 DEF ClosureStarts
  <2> QED BY <1>1, <1>3, <2>1, <2>2, <2>4, <2>5, <2>6 DEF InlineInv
<1> QED BY <1>4, <1>5

LEMMA FollowKeeps ==
    ASSUME InlineInv, Follow
    PROVE  InlineInv'
<1>1. Loaded
  BY DEF Follow, InlineInv, ClosureStarts
<1>2. /\ walk # <<>> /\ walk \in Seq(Frames(Nodes))
      /\ UNCHANGED <<input, elfVars, ipaVars>> /\ toAsk' = toAsk
  BY DEF Follow, InlineInv
<1>3. PICK n \in walk[Len(walk)].todo :
        result' = result \cup {n} /\ Visit(n, [walk EXCEPT ![Len(walk)].todo = @ \ {n}])
  BY DEF Follow, Added
<1>4. PICK w : w = [walk EXCEPT ![Len(walk)].todo = @ \ {n}]
  OBVIOUS
<1>5. Advanced(Nodes, walk, n, w)
  BY <1>2, <1>4, Advance
<1>6. /\ w \in Seq(Frames(Nodes)) /\ n \in Nodes
      /\ \A k, m : Waits(walk, k, m) => Waits(w, k, m) \/ (m = n /\ n \in result')
  BY <1>3, <1>5 DEF Advanced
<1>7. \A i \in 1 .. Len(w) : /\ w[i].node \in visited
                            /\ w[i].todo \subseteq Next_Nodes(w[i].node)
  BY <1>5 DEF Advanced, InlineInv, WalkIsVisited
<1>8. ASSUME NEW S \in SUBSET Names, HasNeighbours(S) PROVE result' \subseteq S
  <2>1. Len(walk) \in 1 .. Len(walk)
    BY <1>2
  <2>2. walk[Len(walk)].node \in visited /\ n \in Next_Nodes(walk[Len(walk)].node)
    BY <1>3, <2>1 DEF InlineInv, WalkIsVisited
  <2>3. result \subseteq S /\ walk[Len(walk)].node \in input.symbols \cup S
    BY <1>8, <2>2 DEF InlineInv, NothingElse, VisitedForAReason
  <2> QED BY <1>3, <1>8, <2>2, <2>3 DEF HasNeighbours
<1>9. Visit(n, w)
  BY <1>3, <1>4
<1>10. result' \in {result, result \cup {n}} /\ n \in result' /\ toAsk' \subseteq toAsk /\ toAsk \ toAsk' = {}
  BY <1>2, <1>3
<1> QED BY <1>1, <1>2, <1>6, <1>7, <1>8, <1>9, <1>10, VisitKeeps

LEMMA LeaveKeeps ==
    ASSUME InlineInv, Leave
    PROVE  InlineInv'
<1>1. /\ walk # <<>> /\ walk \in Seq(Frames(Nodes)) /\ walk[Len(walk)].todo = {}
      /\ walk' = SubSeq(walk, 1, Len(walk) - 1)
      /\ UNCHANGED <<input, elfVars, ipaVars>>
      /\ toAsk' = toAsk /\ visited' = visited /\ result' = result
  BY DEF Leave, InlineInv
<1>2. Popped(Nodes, walk, walk')
  BY <1>1, Pop
<1>3. /\ input' = input /\ toRead' = toRead /\ lines' = lines /\ Nodes' = Nodes
      /\ \A k : Next_Nodes(k)' = Next_Nodes(k)
      /\ \A S : HasNeighbours(S)' <=> HasNeighbours(S)
  BY <1>1, SameGraph
<1>4. /\ (Loaded' <=> Loaded)
      /\ \A k : Known(k)' <=> Known(k)
  BY <1>1, SameGraph
<1>5. WalkIsVisited'
  BY <1>1, <1>2, <1>3 DEF InlineInv, WalkIsVisited, Popped
<1>6. NeighboursAreFollowed'
  BY <1>1, <1>2, <1>3 DEF InlineInv, NeighboursAreFollowed, Popped
<1>7. VisitedForAReason' /\ NothingElse'
  BY <1>1, <1>3 DEF InlineInv, VisitedForAReason, NothingElse
<1>8. AskedAreVisited'
  BY <1>1, <1>3, <1>4 DEF InlineInv, AskedAreVisited
<1>9. ClosureStarts'
  BY <1>1, <1>4 DEF InlineInv, ClosureStarts
<1>10. walk' \in Seq(Frames(Nodes))
  BY <1>2 DEF Popped
<1> QED BY <1>1, <1>3, <1>5, <1>6, <1>7, <1>8, <1>9, <1>10 DEF InlineInv

\* Nothing was asked yet.
Unasked == walk = <<>> /\ toAsk = input.symbols /\ visited = {} /\ result = {}

LEMMA ReadKeeps ==
    ASSUME InlineInv, Analyze_ELF \/ Parse
    PROVE  InlineInv'
<1>1. UNCHANGED closureVars /\ input' = input
  BY DEF Analyze_ELF, Parse
<1>2. Len(input.ipa) \in Nat
  BY InputFacts DEF InlineInv
<1>3. ~Loaded
  BY <1>2 DEF Analyze_ELF, Parse, Loaded, InlineInv
<1>4. Unasked'
  BY <1>1, <1>3 DEF closureVars, InlineInv, ClosureStarts, Unasked
<1>5. toRead' \subseteq 1 .. Len(input'.elfs)
  BY <1>1 DEF InlineInv, Analyze_ELF, Parse, elfVars
<1>6. lines' \in 0 .. Len(input'.ipa)
  <2>1. CASE Analyze_ELF
    BY <1>1, <2>1 DEF InlineInv, Analyze_ELF, ipaVars
  <2>2. CASE Parse
    <3>1. lines' = lines + 1 /\ lines < Len(input.ipa) /\ lines \in 0 .. Len(input.ipa)
      BY <2>2 DEF InlineInv, Parse
    <3> QED BY <1>1, <1>2, <3>1
  <2> QED BY <2>1, <2>2
<1>7. input' \in Inputs
  BY <1>1 DEF InlineInv
<1>8. walk' \in Seq(Frames(Nodes')) /\ \A i \in 1 .. Len(walk') : FALSE
  BY <1>4 DEF Unasked
<1> QED BY <1>4, <1>5, <1>6, <1>7, <1>8
        DEF InlineInv, Unasked, ClosureStarts, WalkIsVisited, NeighboursAreFollowed,
            AskedAreVisited, VisitedForAReason, NothingElse

LEMMA InlineInitInv == ASSUME InlineInit PROVE InlineInv
<1>1. Unasked /\ input \in Inputs /\ toRead \subseteq 1 .. Len(input.elfs)
  BY DEF InlineInit, Unasked
<1>2. lines \in 0 .. Len(input.ipa)
  BY <1>1, InputFacts DEF InlineInit
<1>3. walk \in Seq(Frames(Nodes)) /\ \A i \in 1 .. Len(walk) : FALSE
  BY <1>1 DEF Unasked
<1> QED BY <1>1, <1>2, <1>3
        DEF InlineInv, Unasked, ClosureStarts, WalkIsVisited, NeighboursAreFollowed,
            AskedAreVisited, VisitedForAReason, NothingElse

LEMMA InlineStep == ASSUME InlineInv, InlineNext PROVE InlineInv'
BY ReadKeeps, AskKeeps, FollowKeeps, LeaveKeeps DEF InlineNext

LEMMA InlineStutter == ASSUME InlineInv, UNCHANGED iaVars PROVE InlineInv'
<1>1. UNCHANGED <<input, elfVars, ipaVars>> /\ UNCHANGED closureVars
  BY DEF iaVars
<1>2. /\ input' = input /\ toRead' = toRead /\ lines' = lines /\ Nodes' = Nodes
      /\ \A k : Next_Nodes(k)' = Next_Nodes(k)
      /\ \A S : HasNeighbours(S)' <=> HasNeighbours(S)
  BY <1>1, SameGraph
<1>3. /\ (Loaded' <=> Loaded)
      /\ \A k : Known(k)' <=> Known(k)
  BY <1>1, SameGraph
<1>4. walk' = walk /\ toAsk' = toAsk /\ visited' = visited /\ result' = result
  BY <1>1 DEF closureVars
<1>5. ClosureStarts' /\ AskedAreVisited'
  BY <1>2, <1>3, <1>4 DEF InlineInv, ClosureStarts, AskedAreVisited
<1>6. WalkIsVisited' /\ NeighboursAreFollowed' /\ VisitedForAReason' /\ NothingElse'
  BY <1>2, <1>4 DEF InlineInv, WalkIsVisited, NeighboursAreFollowed, VisitedForAReason, NothingElse
<1> QED BY <1>2, <1>4, <1>5, <1>6 DEF InlineInv

LEMMA InlineInvImplies == ASSUME InlineInv PROVE ClosureIsReachable
<1> SUFFICES ASSUME Answered
             PROVE  /\ HasNeighbours(result)
                    /\ \A S \in SUBSET Names : HasNeighbours(S) => result \subseteq S
  BY DEF ClosureIsReachable
<1>1. ASSUME NEW n \in input.symbols \cup result PROVE Next_Nodes(n) \subseteq result
  <2>1. n \in visited \/ ~Known(n)
    BY <1>1 DEF InlineInv, AskedAreVisited, VisitedForAReason, Answered
  <2>2. \A m : ~Waits(walk, n, m)
    BY DEF Answered, Waits
  <2>3. CASE n \in visited
    BY <2>2, <2>3 DEF InlineInv, NeighboursAreFollowed
  <2>4. CASE ~Known(n)
    BY <2>4, UnknownHaveNone
  <2> QED BY <2>1, <2>3, <2>4
<1>2. HasNeighbours(result)
  BY <1>1 DEF HasNeighbours
<1> QED BY <1>2 DEF InlineInv, NothingElse

-----------------------------------------------------------------------------
(* The walk down the call graph.                                           *)
Copied == {f \in AnalyzedNodes : ~Should_Externalize(f)}

\* The finder starts when the logs are read and the closure was answered.
FinderStarts ==
    ~Answered => /\ rootsLeft = Functions /\ calls = <<>>
                 /\ AnalyzedNodes = {} /\ MustExternalize = program.externalize

CallsAreCopied ==
    \A i \in 1 .. Len(calls) : /\ calls[i].node \in Copied
                              /\ calls[i].todo \subseteq program.calls[calls[i].node]

RootsAreAnalyzed == \A f \in Roots \ rootsLeft : f \in AnalyzedNodes

\* A function that is copied has its calls followed, or they wait on the stack.
CallsAreFollowed ==
    \A f \in Copied : \A g \in program.calls[f] : g \in AnalyzedNodes \/ Waits(calls, f, g)

AnalyzedForAReason == AnalyzedNodes \subseteq Roots \cup Called(Copied)
NoneCopiedElse == \A S \in SUBSET Functions : HasCopied(S) => Copied \subseteq S

ExternalizesItsOwn ==
    MustExternalize = program.externalize
                        \cup {f \in AnalyzedNodes : Should_Externalize(f)}
                        \cup UNION {Externalize_DeclRefs(f) : f \in Copied}

FinderInv ==
    /\ program \in Programs
    /\ AnalyzedNodes \subseteq Functions
    /\ rootsLeft \subseteq Functions
    /\ calls \in Seq(Frames(Functions))
    /\ FinderStarts
    /\ CallsAreCopied
    /\ RootsAreAnalyzed
    /\ CallsAreFollowed
    /\ AnalyzedForAReason
    /\ NoneCopiedElse
    /\ ExternalizesItsOwn

IInv == InlineInv /\ FinderInv

LEMMA ProgramFacts ==
    ASSUME program \in Programs
    PROVE  \A f \in Functions : program.calls[f] \subseteq Functions
BY ProgramsAssumption DEF Functions

LEMMA RootsAreCopied == \A f \in Roots : f \in Functions /\ ~Should_Externalize(f)
BY DEF Roots, Should_Externalize

(* While nothing is read any more, what the program and the binaries say   *)
(* stays the same.                                                         *)
LEMMA SameProgram ==
    ASSUME UNCHANGED <<iaVars, program>>
    PROVE  /\ \A f : Should_Externalize(f)' <=> Should_Externalize(f)
           /\ \A f : Externalize_DeclRefs(f)' = Externalize_DeclRefs(f)
           /\ \A S : HasCopied(S)' <=> HasCopied(S)
           /\ \A S : Called(S)' = Called(S)
           /\ Functions' = Functions /\ Roots' = Roots /\ program' = program
           /\ Answered' <=> Answered
<1>1. /\ program' = program /\ input' = input /\ DynsymMap' = DynsymMap /\ SymtabMap' = SymtabMap
      /\ toRead' = toRead /\ lines' = lines /\ toAsk' = toAsk /\ walk' = walk
  BY DEF iaVars, elfVars, ipaVars, closureVars
<1>2. ASSUME NEW f PROVE Needs_Externalization(f)' = Needs_Externalization(f)
  <2>1. Get_Symbol_Info(f)' = Get_Symbol_Info(f)
    BY <1>1 DEF Get_Symbol_Info
  <2>2. Get_Symbol_Module(f)' = Get_Symbol_Module(f)
    BY <1>1 DEF Get_Symbol_Module, Symvers
  <2> QED BY <1>1, <2>1, <2>2 DEF Needs_Externalization
<1>3. \A f : Should_Externalize(f)' <=> Should_Externalize(f)
  BY <1>1, <1>2 DEF Should_Externalize
<1>4. \A f : Externalize_DeclRefs(f)' = Externalize_DeclRefs(f)
  BY <1>1, <1>3 DEF Externalize_DeclRefs
<1>5. Functions' = Functions /\ Roots' = Roots /\ (\A S : Called(S)' = Called(S))
  BY <1>1 DEF Functions, Roots, Called, HasBody
<1>6. \A S : HasCopied(S)' <=> HasCopied(S)
  BY <1>3, <1>5 DEF HasCopied
<1>7. Answered' <=> Answered
  BY <1>1 DEF Answered, Loaded
<1> QED BY <1>1, <1>3, <1>4, <1>5, <1>6, <1>7

(* Analyze_Node(f, c) where f is reached: a root, or called from a function *)
(* that is copied, and c has what is left of the active calls.             *)
LEMMA AnalyzeKeeps ==
    ASSUME FinderInv, Answered, UNCHANGED <<iaVars, program>>,
           NEW f \in Functions, NEW c \in Seq(Frames(Functions)), Analyze_Node(f, c),
           f \in Roots \cup Called(Copied),
           \A i \in 1 .. Len(c) : /\ c[i].node \in Copied
                                 /\ c[i].todo \subseteq program.calls[c[i].node],
           \A g, h : Waits(calls, g, h) => Waits(c, g, h) \/ h = f,
           rootsLeft' \subseteq rootsLeft, \A g \in rootsLeft \ rootsLeft' : g = f
    PROVE  FinderInv'
<1>1. /\ \A g : Should_Externalize(g)' <=> Should_Externalize(g)
      /\ \A S : HasCopied(S)' <=> HasCopied(S)
      /\ Answered'
  BY SameProgram
<1>2. /\ \A g : Externalize_DeclRefs(g)' = Externalize_DeclRefs(g)
      /\ \A S : Called(S)' = Called(S)
      /\ Functions' = Functions /\ Roots' = Roots /\ program' = program
  BY SameProgram
<1>3. AnalyzedNodes' = AnalyzedNodes \cup {f}
  BY DEF Analyze_Node
<1>4. Copied' = Copied \cup {g \in {f} : ~Should_Externalize(f)}
  BY <1>1, <1>3 DEF Copied
<1> DEFINE new == f \notin AnalyzedNodes /\ ~Should_Externalize(f)
<1>5. calls' = IF new THEN Append(c, [node |-> f, todo |-> program.calls[f]]) ELSE c
  BY DEF Analyze_Node
<1>6. /\ calls' \in Seq(Frames(Functions))
      /\ \A i \in 1 .. Len(calls') : /\ calls'[i].node \in Copied'
                                     /\ calls'[i].todo \subseteq program.calls[calls'[i].node]
      /\ \A g, h : Waits(c, g, h) => Waits(calls', g, h)
      /\ new => \A h \in program.calls[f] : Waits(calls', f, h)
  <2>1. CASE new
    <3>1. program.calls[f] \in SUBSET Functions
      BY ProgramFacts DEF FinderInv
    <3>2. Pushed(Functions, c, f, program.calls[f], calls')
      BY <1>5, <2>1, <3>1, Push
    <3>3. \A i \in 1 .. Len(calls') : i \in 1 .. Len(c) \/ i = Len(c) + 1
      BY <3>2 DEF Pushed
    <3>4. ASSUME NEW i \in 1 .. Len(calls')
          PROVE  calls'[i].node \in Copied' /\ calls'[i].todo \subseteq program.calls[calls'[i].node]
      <4>1. CASE i \in 1 .. Len(c)
        BY <1>4, <3>2, <4>1 DEF Pushed
      <4>2. CASE i = Len(c) + 1
        BY <1>4, <2>1, <3>2, <4>2 DEF Pushed
      <4> QED BY <3>3, <4>1, <4>2
    <3> QED BY <3>2, <3>4 DEF Pushed
  <2>2. CASE ~new
    BY <1>4, <1>5, <2>2
  <2> QED BY <2>1, <2>2
<1>7. FinderStarts'
  BY <1>1 DEF FinderStarts
<1>8. CallsAreCopied'
  BY <1>2, <1>6 DEF CallsAreCopied
<1>9. RootsAreAnalyzed'
  BY <1>2, <1>3 DEF FinderInv, RootsAreAnalyzed
<1>10. CallsAreFollowed'
  <2> SUFFICES ASSUME NEW g \in Copied', NEW h \in program.calls[g]
               PROVE  h \in AnalyzedNodes' \/ Waits(calls', g, h)
    BY <1>2 DEF CallsAreFollowed
  <2>1. CASE g \in Copied
    <3>1. h \in AnalyzedNodes \/ Waits(calls, g, h)
      BY <2>1 DEF FinderInv, CallsAreFollowed
    <3> QED BY <1>3, <1>6, <3>1
  <2>2. CASE g \notin Copied
    <3>1. g = f /\ new
      BY <1>4, <2>2 DEF Copied
    <3> QED BY <1>6, <3>1
  <2> QED BY <2>1, <2>2
<1>11. AnalyzedForAReason'
  <2>1. Called(Copied) \subseteq Called(Copied')
    BY <1>4 DEF Called
  <2> QED BY <1>2, <1>3, <2>1 DEF FinderInv, AnalyzedForAReason
<1>12. NoneCopiedElse'
  <2> SUFFICES ASSUME NEW S \in SUBSET Functions, HasCopied(S) PROVE Copied' \subseteq S
    BY <1>1, <1>2 DEF NoneCopiedElse
  <2>1. Copied \subseteq S
    BY DEF FinderInv, NoneCopiedElse
  <2>2. ~Should_Externalize(f) => f \in S
    BY <2>1 DEF HasCopied, Called
  <2> QED BY <1>4, <2>1, <2>2
<1>13. ExternalizesItsOwn'
  <2>1. {g \in AnalyzedNodes' : Should_Externalize(g)'}
          = {g \in AnalyzedNodes : Should_Externalize(g)} \cup {g \in {f} : Should_Externalize(f)}
    BY <1>1, <1>3
  <2> DEFINE refs == UNION {Externalize_DeclRefs(g) : g \in Copied}
  <2>2. refs' = refs \cup IF Should_Externalize(f) THEN {} ELSE Externalize_DeclRefs(f)
    <3>1. refs' = UNION {Externalize_DeclRefs(g) : g \in Copied'}
      BY <1>2
    <3>2. CASE Should_Externalize(f)
      BY <1>4, <3>1, <3>2
    <3>3. CASE ~Should_Externalize(f)
      <4>1. Copied' = Copied \cup {f}
        BY <1>4, <3>3
      <4> QED BY <3>1, <3>3, <4>1
    <3> QED BY <3>2, <3>3
  <2>3. MustExternalize' = MustExternalize \cup {g \in {f} : Should_Externalize(f)}
                             \cup IF Should_Externalize(f) THEN {} ELSE Externalize_DeclRefs(f)
    <3>1. CASE f \notin AnalyzedNodes
      BY <3>1 DEF Analyze_Node
    <3>2. CASE f \in AnalyzedNodes
      <4>1. f \in Copied \/ Should_Externalize(f)
        BY <3>2 DEF Copied
      <4>2. f \in Copied => Externalize_DeclRefs(f) \subseteq MustExternalize /\ ~Should_Externalize(f)
        BY DEF FinderInv, ExternalizesItsOwn, Copied
      <4>3. Should_Externalize(f) => f \in MustExternalize
        BY <3>2 DEF FinderInv, ExternalizesItsOwn
      <4>4. MustExternalize' = MustExternalize
        BY <3>2 DEF Analyze_Node
      <4> QED BY <4>1, <4>2, <4>3, <4>4
    <3> QED BY <3>1, <3>2
  <2> DEFINE own == {g \in AnalyzedNodes : Should_Externalize(g)}
  <2>4. MustExternalize = program.externalize \cup own \cup refs
    BY DEF FinderInv, ExternalizesItsOwn
  <2>5. own' = own \cup {g \in {f} : Should_Externalize(f)}
    BY <2>1
  <2> HIDE DEF own, refs
  <2>6. MustExternalize' = program.externalize \cup own' \cup refs'
    BY <2>2, <2>3, <2>4, <2>5
  <2> QED BY <1>2, <2>6 DEF ExternalizesItsOwn, own, refs
<1>14. AnalyzedNodes' \subseteq Functions
  BY <1>3 DEF FinderInv
<1> QED BY <1>2, <1>6, <1>7, <1>8, <1>9, <1>10, <1>11, <1>12, <1>13, <1>14 DEF FinderInv

(* The stack has fewer calls, or a node is left out that is no root. *)
LEMMA LessToDoKeeps ==
    ASSUME FinderInv, UNCHANGED <<iaVars, program, AnalyzedNodes, MustExternalize>>,
           Answered \/ (rootsLeft' = rootsLeft /\ calls' = calls),
           calls' \in Seq(Frames(Functions)),
           \A i \in 1 .. Len(calls') : i \in 1 .. Len(calls) /\ calls'[i] = calls[i],
           \A g, h : Waits(calls, g, h) => Waits(calls', g, h),
           rootsLeft' \subseteq rootsLeft, \A g \in rootsLeft \ rootsLeft' : g \notin Roots
    PROVE  FinderInv'
<1>1. UNCHANGED <<iaVars, program>> /\ AnalyzedNodes' = AnalyzedNodes /\ MustExternalize' = MustExternalize
  OBVIOUS
<1>2. /\ \A g : Should_Externalize(g)' <=> Should_Externalize(g)
      /\ \A S : HasCopied(S)' <=> HasCopied(S)
      /\ Answered' <=> Answered
  BY <1>1, SameProgram
<1>3. /\ \A g : Externalize_DeclRefs(g)' = Externalize_DeclRefs(g)
      /\ \A S : Called(S)' = Called(S)
      /\ Functions' = Functions /\ Roots' = Roots /\ program' = program
  BY <1>1, SameProgram
<1>4. Copied' = Copied
  BY <1>1, <1>2 DEF Copied
<1>5. FinderStarts'
  BY <1>1, <1>2, <1>3 DEF FinderInv, FinderStarts
<1>6. CallsAreCopied' /\ CallsAreFollowed'
  BY <1>1, <1>3, <1>4 DEF FinderInv, CallsAreCopied, CallsAreFollowed
<1>7. RootsAreAnalyzed'
  BY <1>1, <1>3 DEF FinderInv, RootsAreAnalyzed
<1>8. AnalyzedForAReason' /\ NoneCopiedElse'
  BY <1>1, <1>2, <1>3, <1>4 DEF FinderInv, AnalyzedForAReason, NoneCopiedElse
<1>9. ExternalizesItsOwn'
  <2>1. {f \in AnalyzedNodes : Should_Externalize(f)}' = {f \in AnalyzedNodes : Should_Externalize(f)}
    BY <1>1, <1>2
  <2>2. (UNION {Externalize_DeclRefs(f) : f \in Copied})' = UNION {Externalize_DeclRefs(f) : f \in Copied}
    BY <1>3, <1>4
  <2> QED BY <1>1, <1>3, <2>1, <2>2 DEF FinderInv, ExternalizesItsOwn
<1> QED BY <1>1, <1>3, <1>5, <1>6, <1>7, <1>8, <1>9 DEF FinderInv

LEMMA RunAnalysisKeeps ==
    ASSUME FinderInv, Run_Analysis
    PROVE  FinderInv'
<1>1. Answered /\ calls = <<>> /\ UNCHANGED <<iaVars, program>>
  BY DEF Run_Analysis
<1>2. PICK f \in rootsLeft :
        /\ rootsLeft' = rootsLeft \ {f}
        /\ IF HasBody(f) /\ f \in program.extract
           THEN Analyze_Node(f, calls)
           ELSE UNCHANGED <<AnalyzedNodes, MustExternalize, calls>>
  BY DEF Run_Analysis
<1>3. /\ calls \in Seq(Frames(Functions)) /\ \A i \in 1 .. Len(calls) : FALSE
      /\ rootsLeft' \subseteq rootsLeft
  BY <1>1, <1>2
<1>4. CASE f \in Functions /\ HasBody(f) /\ f \in program.extract
  <2>1. f \in Roots
    BY <1>4 DEF Roots
  <2>2. \A g, h : Waits(calls, g, h) => Waits(calls, g, h) \/ h = f
    OBVIOUS
  <2>3. Analyze_Node(f, calls) /\ \A g \in rootsLeft \ rootsLeft' : g = f
    BY <1>2, <1>4
  <2> QED BY <1>1, <1>3, <1>4, <2>1, <2>2, <2>3, AnalyzeKeeps
<1>5. CASE ~(HasBody(f) /\ f \in program.extract)
  <2>1. \A g \in rootsLeft \ rootsLeft' : g \notin Roots
    BY <1>2, <1>5 DEF Roots
  <2>2. UNCHANGED <<iaVars, program, AnalyzedNodes, MustExternalize>> /\ calls' = calls
    BY <1>1, <1>2, <1>5
  <2> QED BY <1>1, <1>3, <2>1, <2>2, LessToDoKeeps
<1>6. f \in Functions
  BY <1>2 DEF FinderInv
<1> QED BY <1>4, <1>5, <1>6

LEMMA AnalyzeChildKeeps ==
    ASSUME FinderInv, Analyze_Child
    PROVE  FinderInv'
<1>1. /\ calls # <<>> /\ calls \in Seq(Frames(Functions))
      /\ UNCHANGED <<iaVars, program>> /\ rootsLeft' = rootsLeft
  BY DEF Analyze_Child, FinderInv
<1>2. Answered
  BY <1>1 DEF FinderInv, FinderStarts
<1>3. PICK f \in calls[Len(calls)].todo :
        Analyze_Node(f, [calls EXCEPT ![Len(calls)].todo = @ \ {f}])
  BY DEF Analyze_Child
<1>4. PICK c : c = [calls EXCEPT ![Len(calls)].todo = @ \ {f}]
  OBVIOUS
<1>5. Advanced(Functions, calls, f, c)
  BY <1>1, <1>4, Advance
<1>6. /\ c \in Seq(Frames(Functions)) /\ f \in Functions
      /\ \A g, h : Waits(calls, g, h) => Waits(c, g, h) \/ h = f
  BY <1>5 DEF Advanced
<1>7. \A i \in 1 .. Len(c) : c[i].node \in Copied /\ c[i].todo \subseteq program.calls[c[i].node]
  BY <1>5 DEF Advanced, FinderInv, CallsAreCopied
<1>8. f \in Called(Copied)
  <2>1. Len(calls) \in 1 .. Len(calls)
    BY <1>1
  <2>2. calls[Len(calls)].node \in Copied /\ f \in program.calls[calls[Len(calls)].node]
    BY <1>3, <2>1 DEF FinderInv, CallsAreCopied
  <2> QED BY <2>2 DEF Called
<1>9. Analyze_Node(f, c)
  BY <1>3, <1>4
<1>10. rootsLeft' \subseteq rootsLeft /\ rootsLeft \ rootsLeft' = {}
  BY <1>1
<1> QED BY <1>1, <1>2, <1>6, <1>7, <1>8, <1>9, <1>10, AnalyzeKeeps

LEMMA AnalyzedKeeps ==
    ASSUME FinderInv, Analyzed
    PROVE  FinderInv'
<1>1. /\ calls # <<>> /\ calls \in Seq(Frames(Functions)) /\ calls[Len(calls)].todo = {}
      /\ calls' = SubSeq(calls, 1, Len(calls) - 1)
      /\ UNCHANGED <<iaVars, program, AnalyzedNodes, MustExternalize>> /\ rootsLeft' = rootsLeft
  BY DEF Analyzed, FinderInv
<1>2. Answered
  BY <1>1 DEF FinderInv, FinderStarts
<1>3. Popped(Functions, calls, calls')
  BY <1>1, Pop
<1> QED BY <1>1, <1>2, <1>3, LessToDoKeeps DEF Popped

\* Nothing was analyzed yet.
Unanalyzed == /\ rootsLeft = Functions /\ calls = <<>>
              /\ AnalyzedNodes = {} /\ MustExternalize = program.externalize

LEMMA LoadKeeps ==
    ASSUME InlineInv, FinderInv, Load
    PROVE  FinderInv'
<1>1. Len(input.ipa) \in Nat
  BY InputFacts DEF InlineInv
<1>2. ~Answered
  BY <1>1 DEF Load, InlineNext, Analyze_ELF, Parse, Ask, Follow, Leave, Answered, Loaded, InlineInv
<1>3. /\ program' = program /\ rootsLeft' = rootsLeft /\ calls' = calls
      /\ AnalyzedNodes' = AnalyzedNodes /\ MustExternalize' = MustExternalize
  BY DEF Load
<1>4. Unanalyzed
  BY <1>2 DEF FinderInv, FinderStarts, Unanalyzed
<1>5. Unanalyzed' /\ Functions' = Functions /\ program' \in Programs
  BY <1>3, <1>4 DEF Unanalyzed, Functions, FinderInv
<1>6. calls' \in Seq(Frames(Functions')) /\ \A i \in 1 .. Len(calls') : FALSE
  BY <1>5 DEF Unanalyzed
<1>7. Copied' = {}
  BY <1>5 DEF Unanalyzed, Copied
<1>8. RootsAreAnalyzed'
  BY <1>5 DEF RootsAreAnalyzed, Unanalyzed, Roots
<1> QED BY <1>5, <1>6, <1>7, <1>8
        DEF FinderInv, Unanalyzed, FinderStarts, CallsAreCopied, CallsAreFollowed,
            AnalyzedForAReason, NoneCopiedElse, ExternalizesItsOwn

LEMMA FinderInitInv == ASSUME Init PROVE FinderInv
<1>1. Unanalyzed /\ program \in Programs
  BY DEF Init, Unanalyzed, Functions
<1>2. calls \in Seq(Frames(Functions)) /\ \A i \in 1 .. Len(calls) : FALSE
  BY <1>1 DEF Unanalyzed
<1>3. Copied = {}
  BY <1>1 DEF Unanalyzed, Copied
<1>4. RootsAreAnalyzed
  BY <1>1 DEF RootsAreAnalyzed, Unanalyzed, Roots
<1> QED BY <1>1, <1>2, <1>3, <1>4
        DEF FinderInv, Unanalyzed, FinderStarts, CallsAreCopied, CallsAreFollowed,
            AnalyzedForAReason, NoneCopiedElse, ExternalizesItsOwn

(* The inductive invariant holds in every state. *)
THEOREM SearchInvariant == Spec => []IInv
<1>1. Init => IInv
  BY InlineInitInv, FinderInitInv DEF Init, IInv
<1>2. IInv /\ [Next]_vars => IInv'
  <2> SUFFICES ASSUME InlineInv, FinderInv, [Next]_vars PROVE InlineInv' /\ FinderInv'
    BY DEF IInv
  <2>1. CASE Load
    BY <2>1, InlineStep, LoadKeeps DEF Load
  <2>2. CASE Run_Analysis
    BY <2>2, InlineStutter, RunAnalysisKeeps DEF Run_Analysis
  <2>3. CASE Analyze_Child
    BY <2>3, InlineStutter, AnalyzeChildKeeps DEF Analyze_Child
  <2>4. CASE Analyzed
    BY <2>4, InlineStutter, AnalyzedKeeps DEF Analyzed
  <2>5. CASE UNCHANGED vars
    <3>1. UNCHANGED iaVars /\ program' = program /\ rootsLeft' = rootsLeft /\ calls' = calls
          /\ AnalyzedNodes' = AnalyzedNodes /\ MustExternalize' = MustExternalize
      BY <2>5 DEF vars
    <3>2. calls' \in Seq(Frames(Functions))
      BY <3>1 DEF FinderInv
    <3> QED BY <3>1, <3>2, InlineStutter, LessToDoKeeps
  <2> QED BY <2>1, <2>2, <2>3, <2>4, <2>5 DEF Next
<1> QED BY <1>1, <1>2, PTL DEF Spec

(* The inline closure is the least set with the neighbours of the symbols  *)
(* asked for and of its members (IpaClosure), for every log, every set of  *)
(* symbols and every order in which they and the neighbours are visited.   *)
THEOREM ClosureIsReachableHolds == Spec => []ClosureIsReachable
BY SearchInvariant, InlineInvImplies, PTL DEF IInv

(* FunctionExternalizeFinder externalizes what was asked for and what it   *)
(* meets from the functions that are copied, and nothing else, for every   *)
(* call graph, cycles included, and every order of its nodes.              *)
THEOREM ExternalizesWhatIsMetHolds == Spec => []ExternalizesWhatIsMet
<1>1. IInv => ExternalizesWhatIsMet
  <2> SUFFICES ASSUME FinderInv, Finished
               PROVE  /\ Copied \in SUBSET Functions
                      /\ HasCopied(Copied)
                      /\ \A S \in SUBSET Functions : HasCopied(S) => Copied \subseteq S
                      /\ MustExternalize = program.externalize
                                             \cup {n \in Met(Copied) : Should_Externalize(n)}
                      /\ Intersection = program.externalize \cap program.extract
    BY DEF IInv, ExternalizesWhatIsMet
  <2>1. Copied \in SUBSET Functions
    BY DEF FinderInv, Copied
  <2>2. Called(Copied) \subseteq AnalyzedNodes
    <3>1. \A f, g : ~Waits(calls, f, g)
      BY DEF Finished, Waits
    <3> QED BY <3>1 DEF FinderInv, CallsAreFollowed, Called
  <2>3. Roots \subseteq Copied
    BY RootsAreCopied DEF FinderInv, RootsAreAnalyzed, Finished, Copied
  <2>4. HasCopied(Copied)
    BY <2>2, <2>3 DEF HasCopied, Copied
  <2>5. {f \in AnalyzedNodes : Should_Externalize(f)} = {f \in Called(Copied) : Should_Externalize(f)}
    BY <2>2, RootsAreCopied DEF FinderInv, AnalyzedForAReason
  <2>6. {n \in Met(Copied) : Should_Externalize(n)}
          = {f \in Called(Copied) : Should_Externalize(f)}
              \cup UNION {Externalize_DeclRefs(f) : f \in Copied}
    BY DEF Met, Called, Externalize_DeclRefs
  <2>7. MustExternalize = program.externalize
                            \cup {f \in AnalyzedNodes : Should_Externalize(f)}
                            \cup UNION {Externalize_DeclRefs(f) : f \in Copied}
    BY DEF FinderInv, ExternalizesItsOwn
  <2>8. MustExternalize = program.externalize \cup {n \in Met(Copied) : Should_Externalize(n)}
    BY <2>5, <2>6, <2>7
  <2>9. Intersection = program.externalize \cap program.extract
    BY <2>8 DEF Intersection, Should_Externalize
  <2> QED BY <2>1, <2>4, <2>8, <2>9 DEF FinderInv, NoneCopiedElse
<1> QED BY <1>1, SearchInvariant, PTL

-----------------------------------------------------------------------------
(* The symbol cache: of each name it has what the file read last says, of  *)
(* those that have the name in a table of that kind.                       *)
FilesRead == [k \in 1 .. Len(read) |-> input.elfs[read[k]]]
Having(files, n, table) == {k \in DOMAIN files : n \in DOMAIN SymbolsOf(files[k], table)}

LastWins(map, files, table) ==
    /\ \A n : n \in DOMAIN map <=> Having(files, n, table) # {}
    /\ \A n : \A k \in Having(files, n, table) :
          (\A l \in Having(files, n, table) : l <= k) => map[n] = SymbolsOf(files[k], table)[n]

\* Only one of the files has a .dynsym, which leaves its trace in ObjectPath.
OneLibrary ==
    \A k \in 1 .. Len(read) : DOMAIN SymbolsOf(FilesRead[k], "DYNSYM") # {} => ObjectPath = read[k]

CacheInv ==
    /\ toRead \subseteq 1 .. Len(input.elfs)
    /\ read \in Seq((1 .. Len(input.elfs)) \ toRead)
    /\ \A k, l \in 1 .. Len(read) : read[k] = read[l] => k = l
    /\ LastWins(DynsymMap, FilesRead, "DYNSYM")
    /\ LastWins(SymtabMap, FilesRead, "SYMTAB")
    /\ OneLibrary

LEMMA NoDynsymNoSymbols ==
    ASSUME NEW file, Dynsyms(file) = {}
    PROVE  DOMAIN SymbolsOf(file, "DYNSYM") = {}
<1>1. {i \in 1 .. Len(file) : file[i].table = "DYNSYM"} = {}
  BY DEF Dynsyms
<1> QED BY <1>1 DEF SymbolsOf

(* One more file: its names are those of the map, with what it says.       *)
LEMMA MapStep ==
    ASSUME NEW N \in Nat, NEW files, DOMAIN files = 1 .. N, NEW file, NEW table,
           NEW more, DOMAIN more = 1 .. (N + 1), more[N + 1] = file,
           \A k \in 1 .. N : more[k] = files[k],
           NEW map, LastWins(map, files, table)
    PROVE  LastWins(Insert_Symbols_Into_Hash(map, SymbolsOf(file, table)), more, table)
<1> DEFINE symbols == SymbolsOf(file, table)
           new == Insert_Symbols_Into_Hash(map, symbols)
           Had(n) == Having(files, n, table)
           Has(n) == Having(more, n, table)
<1>1. 1 .. (N + 1) = (1 .. N) \cup {N + 1} /\ \A k \in 1 .. N : k \in Nat /\ k < N + 1
  OBVIOUS
<1>2. \A n, k : k \in Had(n) <=> k \in 1 .. N /\ n \in DOMAIN SymbolsOf(files[k], table)
  BY DEF Having
<1>3. \A n, k : k \in Has(n) <=> k \in Had(n) \/ (k = N + 1 /\ n \in DOMAIN symbols)
  <2>1. \A n, k : k \in Has(n) <=> k \in 1 .. (N + 1) /\ n \in DOMAIN SymbolsOf(more[k], table)
    BY DEF Having
  <2> HIDE DEF Had, Has
  <2> QED BY <1>1, <1>2, <2>1
<1>4. /\ DOMAIN new = DOMAIN map \cup DOMAIN symbols
      /\ \A n \in DOMAIN new : new[n] = IF n \in DOMAIN symbols THEN symbols[n] ELSE map[n]
  <2> HIDE DEF symbols
  <2> QED BY DEF Insert_Symbols_Into_Hash
<1>5. /\ \A n : n \in DOMAIN map <=> Had(n) # {}
      /\ \A n : \A k \in Had(n) :
            (\A l \in Had(n) : l <= k) => map[n] = SymbolsOf(files[k], table)[n]
  BY DEF LastWins
<1> SUFFICES /\ \A n : n \in DOMAIN new <=> Has(n) # {}
             /\ \A n : \A k \in Has(n) :
                   (\A l \in Has(n) : l <= k) => new[n] = SymbolsOf(more[k], table)[n]
  BY DEF LastWins
<1> HIDE DEF symbols, new, Had, Has
<1>6. ASSUME NEW n PROVE n \in DOMAIN new <=> Has(n) # {}
  BY <1>3, <1>4, <1>5
<1>7. ASSUME NEW n, NEW k \in Has(n), \A l \in Has(n) : l <= k
      PROVE  new[n] = SymbolsOf(more[k], table)[n]
  <2>1. CASE n \in DOMAIN symbols
    <3>1. N + 1 <= k
      BY <1>3, <1>7, <2>1
    <3>2. k \in 1 .. N \/ k = N + 1
      BY <1>2, <1>3
    <3>3. k = N + 1
      BY <1>1, <3>1, <3>2
    <3> QED BY <1>4, <2>1, <3>3 DEF symbols
  <2>2. CASE n \notin DOMAIN symbols
    <3>1. k \in Had(n) /\ k \in 1 .. N /\ \A l \in Had(n) : l <= k
      BY <1>2, <1>3, <1>7, <2>2
    <3>2. map[n] = SymbolsOf(files[k], table)[n] /\ n \in DOMAIN map
      BY <1>5, <3>1
    <3> QED BY <1>4, <2>2, <3>1, <3>2
  <2> QED BY <2>1, <2>2
<1> QED BY <1>6, <1>7

LEMMA AnalyzeELFKeeps ==
    ASSUME CacheInv, Analyze_ELF
    PROVE  CacheInv'
<1>1. PICK i \in toRead :
        /\ Dynsyms(input.elfs[i]) # {} => ObjectPath = 0
        /\ toRead' = toRead \ {i} /\ read' = Append(read, i) /\ input' = input
        /\ DynsymMap' = Insert_Symbols_Into_Hash(DynsymMap, SymbolsOf(input.elfs[i], "DYNSYM"))
        /\ SymtabMap' = Insert_Symbols_Into_Hash(SymtabMap, SymbolsOf(input.elfs[i], "SYMTAB"))
        /\ ObjectPath' = IF Dynsyms(input.elfs[i]) # {} THEN i ELSE ObjectPath
  BY DEF Analyze_ELF
<1> DEFINE T == 1 .. Len(input.elfs)
<1>2. /\ i \in T /\ read \in Seq(T) /\ read \in Seq(T \ toRead) /\ toRead \subseteq T
      /\ \A k \in 1 .. Len(read) : read[k] \in T \ toRead
  BY DEF CacheInv
<1>3. /\ Len(read') = Len(read) + 1 /\ Len(read) \in Nat
      /\ read'[Len(read) + 1] = i /\ \A k \in 1 .. Len(read) : read'[k] = read[k]
  <2> HIDE DEF T
  <2> QED BY <1>1, <1>2
<1> DEFINE N == Len(read)
<1>8. /\ DOMAIN FilesRead = 1 .. N /\ DOMAIN FilesRead' = 1 .. (N + 1)
      /\ FilesRead'[N + 1] = input.elfs[i]
      /\ \A k \in 1 .. N : FilesRead'[k] = FilesRead[k]
  BY <1>1, <1>3 DEF FilesRead
<1>4. read' \in Seq(T' \ toRead') /\ toRead' \subseteq T'
  <2>1. T' = T /\ toRead' \subseteq T /\ i \in T \ toRead'
    BY <1>1, <1>2
  <2>2. read \in Seq(T \ toRead')
    <3>1. \A k \in 1 .. Len(read) : read[k] \in T \ toRead'
      BY <1>1, <1>2
    <3> QED BY <1>2, <3>1
  <2> HIDE DEF T
  <2>3. Append(read, i) \in Seq(T \ toRead')
    BY <2>1, <2>2
  <2> QED BY <1>1, <2>1, <2>3
<1>5. \A k, l \in 1 .. Len(read') : read'[k] = read'[l] => k = l
  <2> SUFFICES ASSUME NEW k \in 1 .. Len(read'), NEW l \in 1 .. Len(read'), read'[k] = read'[l]
               PROVE  k = l
    OBVIOUS
  <2>1. /\ k \in 1 .. Len(read) \/ k = Len(read) + 1
        /\ l \in 1 .. Len(read) \/ l = Len(read) + 1
    BY <1>3
  <2>2. \A m \in 1 .. Len(read) : read'[m] # i
    BY <1>2, <1>3
  <2>3. CASE k \in 1 .. Len(read) /\ l \in 1 .. Len(read)
    BY <1>3, <2>3 DEF CacheInv
  <2> QED BY <1>3, <2>1, <2>2, <2>3
<1>6. LastWins(DynsymMap, FilesRead, "DYNSYM")' /\ LastWins(SymtabMap, FilesRead, "SYMTAB")'
  <2>1. LastWins(DynsymMap, FilesRead, "DYNSYM") /\ LastWins(SymtabMap, FilesRead, "SYMTAB")
    BY DEF CacheInv
  <2>2. LastWins(DynsymMap', FilesRead', "DYNSYM")
    BY <1>1, <1>3, <1>8, <2>1, MapStep
  <2>3. LastWins(SymtabMap', FilesRead', "SYMTAB")
    BY <1>1, <1>3, <1>8, <2>1, MapStep
  <2> QED BY <2>2, <2>3
<1>7. OneLibrary'
  <2> SUFFICES ASSUME NEW k \in 1 .. Len(read'),
                      DOMAIN SymbolsOf(FilesRead'[k], "DYNSYM") # {}
               PROVE  ObjectPath' = read'[k]
    BY DEF OneLibrary
  <2>1. k \in 1 .. Len(read) \/ k = Len(read) + 1
    BY <1>3
  <2>2. CASE k = Len(read) + 1
    <3>1. Dynsyms(input.elfs[i]) # {}
      BY <1>8, <2>2, NoDynsymNoSymbols
    <3> QED BY <1>1, <1>3, <2>2, <3>1
  <2>3. CASE k \in 1 .. Len(read)
    <3>1. ObjectPath = read[k] /\ read[k] \in T
      BY <1>2, <1>8, <2>3 DEF CacheInv, OneLibrary
    <3>2. ObjectPath # 0
      BY <3>1
    <3> QED BY <1>1, <1>3, <2>3, <3>1, <3>2
  <2> QED BY <2>1, <2>2, <2>3
<1> QED BY <1>4, <1>5, <1>6, <1>7 DEF CacheInv

(* The decision on a symbol that no module exports                         *)
(* (ElfSymbolCache::Get_Symbol_Info, InlineAnalysis::Needs_Externalization)*)
(* is that of the .dynsym that has it, or else of the file read last that  *)
(* has it in a .symtab.                                                    *)
THEOREM LastFileDecidesHolds == Spec => []LastFileDecides
<1>1. Init => CacheInv
  <2> SUFFICES ASSUME Init PROVE CacheInv
    OBVIOUS
  <2>1. toRead = 1 .. Len(input.elfs) /\ read = <<>> /\ DynsymMap = <<>> /\ SymtabMap = <<>>
    BY DEF Init, InlineInit
  <2>2. 1 .. Len(read) = {} /\ DOMAIN DynsymMap = {} /\ DOMAIN SymtabMap = {}
    BY <2>1
  <2>3. \A n, table : Having(FilesRead, n, table) = {}
    BY <2>2 DEF Having, FilesRead
  <2>4. read \in Seq((1 .. Len(input.elfs)) \ toRead) /\ toRead \subseteq 1 .. Len(input.elfs)
    BY <2>1
  <2> QED BY <2>2, <2>3, <2>4 DEF CacheInv, LastWins, OneLibrary
<1>2. CacheInv /\ [Next]_vars => CacheInv'
  <2> SUFFICES ASSUME CacheInv, [Next]_vars PROVE CacheInv'
    OBVIOUS
  <2>1. CASE Analyze_ELF
    BY <2>1, AnalyzeELFKeeps
  <2>2. CASE input' = input /\ UNCHANGED elfVars
    <3>1. /\ toRead' = toRead /\ read' = read /\ DynsymMap' = DynsymMap /\ SymtabMap' = SymtabMap
          /\ ObjectPath' = ObjectPath /\ input' = input
      BY <2>2 DEF elfVars
    <3>2. FilesRead' = FilesRead
      BY <3>1 DEF FilesRead
    <3>3. /\ LastWins(DynsymMap, FilesRead, "DYNSYM")' /\ LastWins(SymtabMap, FilesRead, "SYMTAB")'
          /\ OneLibrary'
      BY <3>1, <3>2 DEF CacheInv, OneLibrary
    <3> QED BY <3>1, <3>3 DEF CacheInv
  <2>3. Analyze_ELF \/ (input' = input /\ UNCHANGED elfVars)
    <3>1. CASE Load
      BY <3>1 DEF Load, InlineNext, Parse, Ask, Follow, Leave
    <3>2. CASE Run_Analysis \/ Analyze_Child \/ Analyzed \/ UNCHANGED vars
      BY <3>2 DEF Run_Analysis, Analyze_Child, Analyzed, vars, iaVars
    <3> QED BY <3>1, <3>2 DEF Next
  <2> QED BY <2>1, <2>2, <2>3
<1>3. CacheInv => LastFileDecides
  <2> DEFINE Of(k, table) == SymbolsOf(FilesRead[k], table)
             Exporting(sym) == {k \in 1 .. Len(read) : Lookup(Of(k, "DYNSYM"), sym) # Absent}
  <2> SUFFICES ASSUME CacheInv, NEW sym, Get_Symbol_Module(sym) = NoModule
               PROVE  /\ \A k \in Exporting(sym) :
                           Needs_Externalization(sym) = Verdict(Of(k, "DYNSYM")[sym], "DYNSYM")
                      /\ Exporting(sym) = {} =>
                           /\ Having(FilesRead, sym, "SYMTAB") = {} => Needs_Externalization(sym) = "NONE"
                           /\ \A k \in Having(FilesRead, sym, "SYMTAB") :
                                (\A l \in Having(FilesRead, sym, "SYMTAB") : l <= k) =>
                                  Needs_Externalization(sym) = Verdict(Of(k, "SYMTAB")[sym], "SYMTAB")
    BY DEF LastFileDecides, FilesRead, Having
  <2>1. \A k, l \in Having(FilesRead, sym, "DYNSYM") : k = l
    BY DEF CacheInv, OneLibrary, Having, FilesRead
  <2>2. ASSUME NEW k \in Having(FilesRead, sym, "DYNSYM")
        PROVE  Lookup(DynsymMap, sym) = Lookup(Of(k, "DYNSYM"), sym)
    <3>1. k \in 1 .. Len(read) /\ sym \in DOMAIN Of(k, "DYNSYM")
      BY DEF Having, FilesRead
    <3>2. \A l \in Having(FilesRead, sym, "DYNSYM") : l <= k
      <4>1. k <= k
        BY <3>1
      <4> QED BY <2>1, <4>1
    <3>3. sym \in DOMAIN DynsymMap /\ DynsymMap[sym] = Of(k, "DYNSYM")[sym]
      BY <3>2 DEF CacheInv, LastWins
    <3> QED BY <3>1, <3>3 DEF Lookup
  <2>3. ASSUME NEW k \in Exporting(sym)
        PROVE  Needs_Externalization(sym) = Verdict(Of(k, "DYNSYM")[sym], "DYNSYM")
    <3>1. k \in Having(FilesRead, sym, "DYNSYM") /\ Lookup(Of(k, "DYNSYM"), sym) = Of(k, "DYNSYM")[sym]
      BY DEF Having, Lookup, FilesRead
    <3>2. Lookup(DynsymMap, sym) = Of(k, "DYNSYM")[sym] /\ Of(k, "DYNSYM")[sym] # Absent
      BY <2>2, <3>1
    <3>3. Get_Symbol_Info(sym) = [info |-> Of(k, "DYNSYM")[sym], table |-> "DYNSYM"]
      BY <3>2 DEF Get_Symbol_Info
    <3> QED BY <3>2, <3>3 DEF Needs_Externalization, NoModule, Verdict
  <2>4. ASSUME Exporting(sym) = {} PROVE Lookup(DynsymMap, sym) = Absent
    <3>1. CASE Having(FilesRead, sym, "DYNSYM") = {}
      BY <3>1 DEF CacheInv, LastWins, Lookup
    <3>2. CASE Having(FilesRead, sym, "DYNSYM") # {}
      <4>1. PICK k \in Having(FilesRead, sym, "DYNSYM") : TRUE
        BY <3>2
      <4>2. Lookup(Of(k, "DYNSYM"), sym) = Absent
        BY <2>4, <4>1 DEF Having, FilesRead
      <4> QED BY <2>2, <4>1, <4>2
    <3> QED BY <3>1, <3>2
  <2>5. ASSUME Exporting(sym) = {}, Having(FilesRead, sym, "SYMTAB") = {}
        PROVE  Needs_Externalization(sym) = "NONE"
    <3>1. Lookup(SymtabMap, sym) = Absent
      BY <2>5 DEF CacheInv, LastWins, Lookup
    <3>2. Get_Symbol_Info(sym).info = Absent
      BY <2>4, <2>5, <3>1 DEF Get_Symbol_Info
    <3> QED BY <3>2 DEF Needs_Externalization, NoModule
  <2>6. ASSUME Exporting(sym) = {}, NEW k \in Having(FilesRead, sym, "SYMTAB"),
               \A l \in Having(FilesRead, sym, "SYMTAB") : l <= k
        PROVE  Needs_Externalization(sym) = Verdict(Of(k, "SYMTAB")[sym], "SYMTAB")
    <3>1. sym \in DOMAIN SymtabMap /\ SymtabMap[sym] = Of(k, "SYMTAB")[sym]
      BY <2>6 DEF CacheInv, LastWins
    <3>2. Lookup(SymtabMap, sym) = Of(k, "SYMTAB")[sym]
      BY <3>1 DEF Lookup
    <3>3. CASE Of(k, "SYMTAB")[sym] = Absent
      <4>1. Get_Symbol_Info(sym).info = Absent
        BY <2>4, <2>6, <3>2, <3>3 DEF Get_Symbol_Info
      <4> QED BY <3>3, <4>1 DEF Needs_Externalization, NoModule, Verdict
    <3>4. CASE Of(k, "SYMTAB")[sym] # Absent
      <4>1. Get_Symbol_Info(sym) = [info |-> Of(k, "SYMTAB")[sym], table |-> "SYMTAB"]
        BY <2>4, <2>6, <3>2, <3>4 DEF Get_Symbol_Info
      <4> QED BY <3>4, <4>1 DEF Needs_Externalization, NoModule, Verdict
    <3> QED BY <3>3, <3>4
  <2> QED BY <2>3, <2>5, <2>6
<1> QED BY <1>1, <1>2, <1>3, PTL DEF Spec
=============================================================================
