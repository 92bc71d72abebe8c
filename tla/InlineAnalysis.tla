--------------------------- MODULE InlineAnalysis ---------------------------
(***************************************************************************)
(* InlineAnalysis: what the binaries and the compiler's logs say of a      *)
(* symbol.  The constructor reads ELF files into ElfSymbolCache, the       *)
(* .ipa-clones log into a graph of inlining decisions and Module.symvers   *)
(* into a map; IpaClosure walks the graph, and Needs_Externalization reads *)
(* the rest.                                                               *)
(*                                                                         *)
(* An input is a record: elfs, a sequence of ELF files, each a sequence of *)
(* sections; ipa and symvers, the lines of the logs; kernel; and the       *)
(* question asked of the graph: symbols and a direction.                   *)
(***************************************************************************)
EXTENDS Naturals, Sequences, FiniteSets, Functions

CONSTANTS Inputs,
          Names,       \* names of symbols
          BaseName,    \* of each name, the part before the first dot
          Quirk        \* of each name, what is between its first dots, or ""

Entries == [name : Names, bind : STRING, type : STRING]
Sections == [table : STRING, syms : Seq(Entries)]
Lines == [decision : STRING, clone : STRING, happened : STRING, original : STRING]
ASSUME InputsAssumption ==
    \A i \in Inputs : i.elfs \in Seq(Seq(Sections)) /\ i.ipa \in Seq(Lines)

VARIABLES input,
          toRead,      \* ELF files that were not read yet
          read,        \* the others, in the order in which they were read
          DynsymMap, SymtabMap, ObjectPath,
          lines,       \* lines of the .ipa-clones log that were parsed
          Inlines,     \* <<caller, callee>>: callee is inlined into caller
          toAsk,       \* symbols whose closure was not computed yet
          visited,     \* IpaClosure::Set
          walk,        \* the active calls of Find_*, innermost last
          result       \* the set that Action_Add_Node2 fills

elfVars == <<toRead, read, DynsymMap, SymtabMap, ObjectPath>>
ipaVars == <<lines, Inlines>>
closureVars == <<toAsk, visited, walk, result>>
iaVars == <<input, elfVars, ipaVars, closureVars>>

-----------------------------------------------------------------------------
(* ElfSymbolCache.                                                         *)

\* Get_Info: bind and type in one byte, which is 0 for a local symbol that has
\* no type.
Absent == [bind |-> "LOCAL", type |-> "NOTYPE"]

\* What Insert_Symbols_Into_Hash leaves of a section: of each name, the last.
Section_Symbols(section) ==
    LET used == {i \in 1 .. Len(section.syms) : section.syms[i].type # "FILE"}
        Last(n) == CHOOSE i \in used : /\ section.syms[i].name = n
                                       /\ \A j \in used : section.syms[j].name = n => j <= i
    IN [n \in {section.syms[i].name : i \in used} |->
          [bind |-> section.syms[Last(n)].bind, type |-> section.syms[Last(n)].type]]

\* The names of the sections of one kind go into the map, from the first section to
\* the last.
SymbolsOf(file, table) ==
    LET With(n) == {i \in 1 .. Len(file) : /\ file[i].table = table
                                           /\ n \in DOMAIN Section_Symbols(file[i])}
        Last(n) == CHOOSE i \in With(n) : \A j \in With(n) : j <= i
    IN [n \in UNION {DOMAIN Section_Symbols(file[i]) : i \in {i \in 1 .. Len(file) : file[i].table = table}}
          |-> Section_Symbols(file[Last(n)])[n]]

\* mutant: what is known of a name is kept
Insert_Symbols_Into_Hash_Once(map, symbols) ==
    [n \in DOMAIN map \cup DOMAIN symbols |-> IF n \in DOMAIN map THEN map[n] ELSE symbols[n]]
Insert_Symbols_Into_Hash(map, symbols) ==
    [n \in DOMAIN map \cup DOMAIN symbols |-> IF n \in DOMAIN symbols THEN symbols[n] ELSE map[n]]

Dynsyms(file) == {i \in 1 .. Len(file) : file[i].table = "DYNSYM"}

\* The next file; a second .dynsym, in the same file or another, fails an assertion.
Analyze_ELF ==
    \E i \in toRead :
        LET file == input.elfs[i]
        IN /\ Dynsyms(file) # {} => ObjectPath = 0
           /\ \A k, l \in Dynsyms(file) : k = l
           /\ toRead' = toRead \ {i}
           /\ read' = Append(read, i)
           /\ DynsymMap' = Insert_Symbols_Into_Hash(DynsymMap, SymbolsOf(file, "DYNSYM"))
           /\ SymtabMap' = Insert_Symbols_Into_Hash(SymtabMap, SymbolsOf(file, "SYMTAB"))
           /\ ObjectPath' = IF Dynsyms(file) # {} THEN i ELSE ObjectPath
           /\ UNCHANGED <<input, ipaVars, closureVars>>

Lookup(map, sym) == IF sym \in DOMAIN map THEN map[sym] ELSE Absent

Get_Symbol_Info(sym) ==
    IF Lookup(DynsymMap, sym) # Absent THEN [info |-> Lookup(DynsymMap, sym), table |-> "DYNSYM"]
    ELSE IF Lookup(SymtabMap, sym) # Absent THEN [info |-> Lookup(SymtabMap, sym), table |-> "SYMTAB"]
    ELSE [info |-> Absent, table |-> "NONE"]

-----------------------------------------------------------------------------
(* Symvers: the module of each symbol that Module.symvers lists.  Of two   *)
(* lines for one symbol the last counts.                                   *)
Symvers ==
    LET LinesOf(sym) == {i \in 1 .. Len(input.symvers) : input.symvers[i].name = sym}
        Last(sym) == CHOOSE i \in LinesOf(sym) : \A j \in LinesOf(sym) : j <= i
    IN [sym \in {input.symvers[i].name : i \in 1 .. Len(input.symvers)} |->
          input.symvers[Last(sym)].mod]

NoModule == "none"      \* the code has the empty string
Get_Symbol_Module(sym) == IF sym \in DOMAIN Symvers THEN Symvers[sym] ELSE NoModule

Needs_Externalization(sym) ==
    LET mod == Get_Symbol_Module(sym)
        found == Get_Symbol_Info(sym)
    IN CASE mod = "vmlinux" -> "WEAK"
         [] mod \notin {NoModule, "vmlinux"} -> "STRONG"
         [] mod = NoModule /\ found.info = Absent -> "NONE"
         [] mod = NoModule /\ found.info # Absent ->
              CASE found.info.bind = "GLOBAL" ->
                     IF input.kernel \/ found.table = "SYMTAB" THEN "STRONG" ELSE "WEAK"
                [] found.info.bind = "LOCAL" -> "STRONG"
                [] OTHER -> "NONE"

-----------------------------------------------------------------------------
(* IpaClones.                                                              *)

\* A part of a function, or one with another signature, passes for the function.
Handle_GCC_Symbol_Quirks(n) == IF Quirk[n] \in {"part", "isra"} THEN BaseName[n] ELSE n

\* The edges that a line adds to the graph.
Decision(line) ==
    IF line.decision # "Callgraph clone" THEN {}
    ELSE CASE line.happened = "inlining to" ->
                {e \in {<<Handle_GCC_Symbol_Quirks(line.clone), Handle_GCC_Symbol_Quirks(line.original)>>} :
                    e[1] # e[2]}
           [] line.happened = "isra" -> {<<line.clone, line.original>>}
           [] OTHER -> {}

Parse ==
    /\ toRead = {}
    /\ lines < Len(input.ipa)
    /\ lines' = lines + 1
    /\ Inlines' = Inlines \cup Decision(input.ipa[lines'])
    /\ UNCHANGED <<input, elfVars, closureVars>>

Loaded == toRead = {} /\ lines = Len(input.ipa)

-----------------------------------------------------------------------------
(* IpaClosure.                                                             *)

\* The neighbours of a node in the direction that is asked for.
Next_Nodes(n) ==
    IF input.direction = "Find_Inlined_Symbols"
    THEN {e[2] : e \in {e \in Inlines : e[1] = n}}
    ELSE {e[1] : e \in {e \in Inlines : e[2] = n}}

Known(n) == \E e \in Inlines : n \in {e[1], e[2]}

\* Find_Inlined_Symbols, Find_Where_Symbol_Is_Inlined: entering n on the calls w.
Visit(n, w) ==
    IF n \in visited
    THEN walk' = w /\ UNCHANGED visited
    ELSE /\ visited' = visited \cup {n}
         /\ walk' = Append(w, [node |-> n, todo |-> Next_Nodes(n)])

\* Get_Inline_Closure_Of_Symbols, Get_Where_Symbols_Is_Inlined: one closure object
\* for all symbols.
Ask ==
    /\ Loaded
    /\ walk = <<>>
    /\ \E n \in toAsk :
          /\ toAsk' = toAsk \ {n}
          /\ IF Known(n) THEN Visit(n, walk) ELSE UNCHANGED <<walk, visited>>
    /\ UNCHANGED <<input, elfVars, ipaVars, result>>

\* Action_Add_Node2: an edge to n was met.
Added_Unvisited(n) == result \cup ({n} \ visited)
Added(n) == result \cup {n}

Follow ==
    /\ walk # <<>>
    /\ \E n \in walk[Len(walk)].todo :
          /\ result' = Added(n)
          /\ Visit(n, [walk EXCEPT ![Len(walk)].todo = @ \ {n}])
    /\ UNCHANGED <<input, elfVars, ipaVars, toAsk>>

Leave ==
    /\ walk # <<>>
    /\ walk[Len(walk)].todo = {}
    /\ walk' = SubSeq(walk, 1, Len(walk) - 1)
    /\ UNCHANGED <<input, elfVars, ipaVars, toAsk, visited, result>>

Answered == Loaded /\ toAsk = {} /\ walk = <<>>

-----------------------------------------------------------------------------
InlineInit ==
    /\ input \in Inputs
    /\ toRead = 1 .. Len(input.elfs)
    /\ read = <<>>
    /\ DynsymMap = <<>>
    /\ SymtabMap = <<>>
    /\ ObjectPath = 0
    /\ lines = 0
    /\ Inlines = {}
    /\ toAsk = input.symbols
    /\ visited = {}
    /\ walk = <<>>
    /\ result = {}

InlineNext == Analyze_ELF \/ Parse \/ Ask \/ Follow \/ Leave

-----------------------------------------------------------------------------
(* The closure of several symbols, computed with one set of visited nodes  *)
(* on a graph that may have cycles, is what can be reached from one of     *)
(* them in one step or more, themselves included if a cycle or another     *)
(* symbol leads to them: the least set that has the neighbours of the      *)
(* symbols and of its members.                                             *)
HasNeighbours(S) == \A n \in input.symbols \cup S : Next_Nodes(n) \subseteq S

ClosureIsReachable ==
    Answered => /\ HasNeighbours(result)
                /\ \A S \in SUBSET Names : HasNeighbours(S) => result \subseteq S

(* What a library exports is decided by its .dynsym, whatever else is read *)
(* before or after it.  Of every other name the cache keeps one entry, and *)
(* each file overwrites it: the decision is the one that the file read     *)
(* last, of those that have the name in a .symtab, leads to by itself.  So *)
(* the order shows, but only where two files lead to different decisions:  *)
(* a local or a global symbol here, and there a weak one, or an untyped    *)
(* local one, which the code takes for none.                               *)
Verdict(e, table) ==
    IF e = Absent \/ e.bind \notin {"GLOBAL", "LOCAL"} THEN "NONE"
    ELSE IF e.bind = "GLOBAL" /\ table = "DYNSYM" /\ ~input.kernel THEN "WEAK"
    ELSE "STRONG"

LastFileDecides ==
    Loaded => \A sym \in Names : Get_Symbol_Module(sym) = NoModule =>
        LET Of(k, table) == SymbolsOf(input.elfs[read[k]], table)
            exporting == {k \in 1 .. Len(read) : Lookup(Of(k, "DYNSYM"), sym) # Absent}
            having == {k \in 1 .. Len(read) : sym \in DOMAIN Of(k, "SYMTAB")}
            decision == Needs_Externalization(sym)
        IN /\ \A k \in exporting : decision = Verdict(Of(k, "DYNSYM")[sym], "DYNSYM")
           /\ exporting = {} =>
                /\ having = {} => decision = "NONE"
                /\ \A k \in having : (\A l \in having : l <= k) =>
                       decision = Verdict(Of(k, "SYMTAB")[sym], "SYMTAB")
=============================================================================
