# A TLA+ development of clang-extract

clang-extract reads a C translation unit and prints a smaller one: the functions
the user names, everything they need (the *closure*), and replacements for the
symbols that a livepatch can not link against (*externalization*). This
directory models the parts of it that keep state or compute with it,
model-checks them with TLC and proves central invariants with TLAPS.

All source paths below are relative to `libcextract/`.

## 1. The system

The program is one thread. What makes it hard is not concurrency but that its
passes talk to each other through data structures that outlive them: source text
that is edited and parsed again, trees rebuilt from a flat record, lists of
names that have to follow the text, sets that are read after they were changed.

| Component | Source | State it keeps | Operations | Correct when |
|---|---|---|---|---|
| Command line | `ArgvParser.cpp`, `Main.cpp`, `Passes.cpp` 195-263 | the options, clang's arguments | parse, complete, remove `-include`s after the first AST | clang gets what is meant for it, the second time as well |
| Expansion policy | `ExpansionPolicy.cpp` | none | verdicts on paths | see header tree |
| Header tree | `IncludeTree.cpp` `Build_Header_Tree` | the tree, a stack, the requests not met yet, header guards | one step per entry of clang's preprocessing record | the stack holds the file being read; each node gets a parent, flags and a guard of the right file |
| Attributes | `IncludeTree.cpp`, three sweeps | `ShouldBeExpanded`, `ShouldBeOutput` per node | post-order, pre-order, pre-order with a cut | expanded nodes form a subtree; nothing is lost; nothing is both; what is output can be included |
| Include tree | `IncludeTree.cpp` constructor | both of the above, and the map from files to nodes | build, sweep, map | what is looked up by file is the node that the requests acted on |
| Closure | `Closure.cpp` | marked and analyzed declarations, the stack of calls | traversal | the least set closed under reference |
| Dependencies | `FunctionDepsFinder.cpp` | the closure | insert what kept headers need, remove what another text repeats, remove what a header brings | every use is still declared, nothing is printed twice |
| Printing | `TopLevelASTIterator.hh`, `PrettyPrint.cpp`, `MacroWalker.cpp` | three iterators, used-marks of macros, a place to skip to | merge in source order, print | macros mean what they meant; each declaration reaches the compiler once |
| Inline analysis | `InlineAnalysis.cpp`, `IpaClonesParser.cpp`, `SymversParser.cpp` | graph of inlining, symbol tables, map of modules | parse, reachability, decision per symbol | the result is the reachable set; the decision follows from the tables |
| ELF | `ElfCXX.cpp` | a file, a decoder and a buffer; cache of symbols of several files | open, decompress, merge, look up | the image is the file's; nothing stays open; one entry of each name decides |
| Externalize finder | `FunctionExternalizeFinder.cpp` | analyzed nodes, symbols to externalize | walk over the call graph | what the extracted code meets, and nothing else |
| Symbol externalizer | `SymbolExternalizer.cpp` | `SymbolsMap`, closure, log | AST visitor, late externalization, IBT form, macros | each use that is left is declared before it |
| Text modifications | `SymbolExternalizer.cpp` 338-478, `.hh` 140-250 | list of requests, clang's `Rewriter` | `Insert`, `Insert_Text`, `Solve`, `Commit` | kept edits commute; a request is only given up for a more important one |
| Interval tree | `IntervalTree.hh` | an augmented red-black tree | insert, remove, clear, four searches | a set of intervals; balanced; the limits are those of the subtrees |
| Pass list | `Passes.cpp` | AST, in-memory file system, lists of names, log, output stream | nine passes with gates, failures and exceptions | names, log and text agree from pass to pass |
| Helpers | `LLVMMisc.cpp`, `NonLLVMMisc.cpp` | none | searches, comparisons, file types | used by the above |

How they interact. `main` parses the command line and hands the options to the
`Context` of the passes, whose constructor reads the binaries
(`InlineAnalysis`, `ElfObject`). `Passes.cpp` then runs every other component. A
`ClosurePass` marks a closure, builds an `IncludeTree` (twice: once per
analysis), prints the result, puts the text into the in-memory file system and
parses that text. The externalize finder asks `InlineAnalysis` of every symbol
it meets. The externalizer visits the AST, files its edits with
`TextModifications`, which sorts out conflicts with an interval tree, and its
text is the next version of the main file. It also appends to the list of
headers that must be expanded, which the next `IncludeTree` takes as a request,
and to the log, from which the `.dsc` file, the IBT tail and the header are
generated.

Hard behaviours, in the order of what they cost when they go wrong:

* a search by file on a stack that may hold a file more than once, or not at all;
* three sweeps that each read what the one before wrote, and throw half-way;
* edits that are filed against the original text in one order and applied in
  another, some at once and some later, with an unstable sort in between;
* removal from a hash set while it is iterated, each removal deciding which
  declarations later rounds compare with;
* state that is kept across a pass that failed or returned early: the output
  stream, the in-memory file, the list of names;
* declarations, macros and `#undef`s from three sources, merged by location, with
  stretches of the source skipped;
* decompression in nested loops with errors at every call;
* one set of visited nodes for several searches in a cyclic graph.

`PROJECT.json` lists these at their lines ("hazards"), with the properties that
watch them or the reason why none does.

## 2. Modules

```
HeaderTree ----+                      ExpansionPolicy      InlineAnalysis
               +-- IncludeTree           |                       |
IncludeAttrs --+  (INSTANCE of Attrs) CommandLine  ElfObject   FunctionExternalizeFinder
                                         |            |
Closure -- FunctionDepsFinder          Startup -------+        Rewriter
                                                                 |
TopLevelASTIterator -- RecursivePrint                          TextModifications
                                                                 : promises
IntervalSet <== IntervalTree           PassManager             SymbolExternalizer
   (refinement)
```

A line is EXTENDS except where it says otherwise. `X_proofs` extends `X` and `MCX`
gives `X` its constants. `HeaderTree_proofs` goes on to `IncludeTree`, `Closure_proofs` to
`FunctionDepsFinder`; `FunctionExternalizeFinder_proofs` proves what
`InlineAnalysis` promises as well, `Startup_proofs` what `ElfObject` and
`CommandLine` do.

### HeaderTree

The preprocessing record is a flat list; an entry knows its file, but not which
*inclusion* of the file it belongs to. The model runs clang's preprocessor
(`lex`: the true chain of open inclusions; `inMain`; `origin`: where each
directive really came from) next to the code's reconstruction (`nodes`,
`stack`, `seenMain`, `wanted`, ...), so that the two can be compared. The
preprocessor's part is external.

| In the model | In the code |
|---|---|
| `Base`, `SeesMain`, `RootFileNow` | lines 134-147: until the main file shows up, command line directives start over with `Root`; the first directive of the main file does so for the last time |
| `Rewinds(st, rf, f, i)` | `while (!stack.top()->Is_Same_File(...)) stack.pop()` leaves the first `i` elements |
| `Include` | a directive from line 116 to 211, entered or skipped by clang because of its guard |
| `IncludeDenied` | the two exceptions, 177-197 |
| `GuardDefinition`, `GuardDefinitionUnderflow` | lines 212-226; the second is the call of `top()` on an empty stack (undefined behaviour, the model stops in `"ub"`) |
| `Finish` | lines 229-239 |

A header is one key. The code looks for a requested header by three spellings
of its name (as written, as found, absolute); they differ in what the user may
write, not in what happens then. `NotExpandList` and the policy's verdict are
inputs. The main file is not itself included by a header.

### IncludeAttrs

Starts from any tree of at most `MaxNodes` directives, with any flags that
`Build_Header_Tree` can produce (`FlagsOK`), and runs the three sweeps one node
at a time. A node may be visited as soon as the order of the sweep allows
(children first, or parent first), siblings in any order: the code uses
recursion in two sweeps and an explicit stack in the third, which are three such
orders. `Expanded`, `Shown` and `Below` say what the result should be as
recursive functions of the tree alone; `OrderIndependent` compares the two.

### IncludeTree

EXTENDS `HeaderTree`, instantiates `IncludeAttrs` with the tree that
`HeaderTree` built (`Attrs == INSTANCE IncludeAttrs WITH parent <- ...`), and
adds `Build_Header_Map`: `MapNode` pops a node, enters its file unless the map has it, and
pushes the children last one first (`Pushed`), so that the oldest is next.

### Closure, FunctionDepsFinder

A unit is the sequence of its declarations as clang reports them: kind, name,
range, what the type, body or initializer refers to, the tag the type is made of,
and how the source has it (`how`: text that can be copied, no text, or text with
unbalanced conditionals). `struct T {...} v;` is two declarations with nested
ranges, which is what the removal of redundant ones is about.

`Closure` is `DeclClosureVisitor`: one frame per active `TraverseDecl`, with the
calls it still has to make, in any order. `Calls`, `Marks` and `Requires` are the bodies
of the visitor's methods. `Compute_Closure_Of_Symbols` is the loop over top-level
declarations.

`Required` is the flag `isCompleteDefinitionRequired` of the tags. clang sets it while it
parses, for the whole unit (`required`, an input). The visitor sets it for what clang
overlooks: the type that a function returns, the types in an expression with a unary
operator (`Completes`), and the record around a nested tag that is met from outside of
it (`ParentToo`). `Print_Decl` prints a record without the flag as `struct T;`, so a tag
that is used through pointers only has no body in the output. `needs` says which
uses do need the body.

| `FunctionDepsFinder` | In the code |
|---|---|
| phases `closure` to `print` | `Run_Analysis`, with `Insert_Decls_From_Non_Expanded_Includes` |
| `RemoveRepeated` | the first loop of `Remove_Redundant_Decls`: erases from the hash set it iterates over, so any element may come next, and what was erased no longer does |
| `RemoveContained` | the second loop, over neighbours in source order |
| `Spans` | the text that is copied for a declaration, or its dump |
| `BodyIsRemoved`, `NotPrinted` | `Print_Decl` (`PrettyPrint.cpp` 63-108): a record whose body is not required, and one without a name |
| `Defines`, `Declares` | what the compiler learns from what is printed for a declaration: with its body, and at all |
| `WithBody`, `Available` | what it finds in the whole output, kept headers included: with its body, and at all |

What clang's order and C's rules give is stated as assumptions, which TLC evaluates for
every unit of a run and the proofs use for all units. `OrderAssumption`: a later
top-level declaration lies behind an earlier one or around it. `NestingAssumption`: nested
declarations are tags, and follow their record inside it. `EntityAssumption`: the declarations
of an entity agree in kind and linkage, and of a tag or a static function one is the
definition. `UsesAssumption`: what is used was declared before, except what a record
declares in itself; a typedef that names an anonymous tag uses nothing else.
`TextAssumption`: a text has, besides its own declaration, the declarators in front of it and
their tag, which it uses; the text of a tag has what is nested in it.
`CompleteAssumption`: a body that is needed is one that clang asks for, or one
that the visitor looks for. `AnonymousAssumption`: an anonymous record that no typedef names
is used by its own declarators only. `NamesAssumption`: nothing without a name is requested
(`Closure.cpp` 59-62 skips it).

Left out: templates, namespaces, and whatever else only C++ has.

### TopLevelASTIterator, RecursivePrint

A place in the source is a number. A source has its declarations, its
directives, the places where names are written that a macro may replace, and
where the preprocessor tests a guard. `TopLevelASTIterator` merges declarations,
directives and the `#undef`s that it collects from macro histories, by
location; `Skip_Until` drops what is inside a printed declaration.
`RecursivePrint` prints, for each, text, a dump of the AST (with the treatment
of `noinline`), a directive or an `#include`, and `macros` is what the compiler
that reads the output knows at that point.

### InlineAnalysis, FunctionExternalizeFinder

The inputs are the lines of the files. `Analyze_ELF` merges the symbol tables of
one file after the other (`ElfSymbolCache`); `Parse` adds edges for a line of the
`.ipa-clones` log; `Ask`, `Follow` and `Leave` are the recursive search
with its shared set of visited nodes; `Needs_Externalization` is the decision.
The finder's walk has a frame per active `Analyze_Node`. clang's call graph and the
references in a body are inputs.

An entry of a symbol table is one record, a section a sequence of them;
`Section_Symbols` is what a section contributes, and an entry hides the earlier ones
of its name. Two assumptions say what an input is: sequences of such records
(`InputsAssumption`), and a program whose calls lead to its functions
(`ProgramsAssumption`).

### CommandLine, ExpansionPolicy, ElfObject, Startup

`CommandLine` is `ArgvParser` (one step per argument), `main`'s checks, the
fields the `Context` takes from it, and `Update_Clang_Args`: a loop with an iterator
into the vector that it erases from, a round and the `it++` behind it being two
steps. An argument is a record with its kind, name
and comma-separated parts; a path is the sequence of its directories.

`ElfObject` opens a debuginfo file and decompresses it. A file is the yield of
each chunk that `read()` returns, and what goes wrong with it. The decompressed
data is 1, 2, ..., so that the contents of the buffer say what is where. zlib and
zstd are external: a call hands out what it can, at most a buffer full; zstd may
keep the rest for later, zlib may see the end of a stream one call late.
A read error is not noticed, because the variable is unsigned, and ends the
model in `"overread"`.

`Startup` composes them: the command line, then the constructor of the `Context`
with every debuginfo file in turn, then the first AST.

### Rewriter, TextModifications

`Rewriter` is clang's `RewriteBuffer` in the four operations that are used: a
position of the original source is mapped through the changes made so far.
`TextModifications` collects requests, then sorts, solves and commits. The code
sorts by priority with `std::sort`, which is not stable, so `SolveOne` takes any
request of the highest priority left. The interval tree is the set of its
intervals, as `ImplementsSet` of `IntervalTree` justifies; its search reports
intervals that merely *touch* (`boundary = true`), and its first result is the one
with the lowest start. Text is a sequence of cells: a non-negative cell is a
position of the source, a negative one is a piece of new text. There is one
file; requests to different files never meet.

What the callers file is restricted to what `SymbolExternalizer` asks for: a
removal or rewrite of a declarator, body or initializer (1000), renaming of an
identifier (100, or 10 in a macro), and insertions of a declaration in front of
another one. No range reaches across the start of a declaration, and no two
identifiers touch (`DeclaratorsOK`, `IdentifiersOK`); that a text is a sequence of
numbers is `TextsOK`.

### IntervalSet, IntervalTree

`IntervalSet` is the promise: a set and its size, and each search as a
comprehension. `IntervalTree` is the red-black tree with its limits: a node holds
all intervals of one lower bound. One action is one call (`Insert`, `Remove`,
`Clear`); the rotations, the fix-up after an insertion or a removal and the
passing up of limits are recursive operators that the action composes in the
code's order. Nodes are called by their lower bound, as addresses are not
observable.

### SymbolExternalizer

The translation unit is a sequence of declarators of functions and global
variables; the first `InHeader` of them are those of a header. A declarator has
a name, the names its body or initializer uses, perhaps a parameter, and may be
joined to the one before it (`int h, g;`). Text is seen as the parts of a
declarator that a request can replace: all of it, its name, its body, a use, and so
on; `Covers` says which part lies in which.

| In the model | In the code |
|---|---|
| `Closure`, `DependsOn` | `DeclClosureVisitor` on functions and variables; it is computed in the constructor and only read afterwards |
| `VisitStrong`, `VisitWeak`, `VisitRename` | `VisitDeclaratorDecl`, one action for each type of externalization |
| `nodes`, `Before` | what the visitor has yet to reach. Declarators come in the order of the source and before their own body, the uses in one body in any order |
| `VisitDeclRefExpr` | the same, for a use: the first use that the closure keeps, and the request to rewrite it |
| `Compute_Array`, `Late_Insert`, `Replace_Decl`, `Handle_IBT_Ext` | `Late_Externalize`; `SymbolsMap` is a hash map, so symbols come in any order |
| `Rewrite_Macros`, `MacroPlaces` | the rest of `Externalize_Symbols`: tokens in the definition of a macro, and identifiers in the text of an expansion, that is in its arguments |
| `Commit` | keeps any set of requests that satisfies what `TextModifications_proofs` proves of `Solve` (`KeptAreDisjointHolds`, `DroppedForAWinnerHolds`) |

`Visible` and `NameUsed` read the text that comes out: which names are declared in
front of a declarator, and under which name it uses a symbol. `Ordinary` is the
hypothesis of the properties and names three kinds of program on which the
code goes wrong: declarations with several declarators (removing one removes those
before it), parameters or local variables named like a symbol (they are taken for its
declaration), and weak symbols whose only other declaration comes after a use.

Extracted functions are the ones renamed and are not externalized themselves
(`MapsOK`); WEAK symbols are visible elsewhere and so not static. The text of an expansion
is searched by spelling (816-827), so that a member or a label that is called like a symbol
is renamed in an argument; the model has uses there and nothing else. Comments, TLS
warnings and messages are left out.

### PassManager

One action for each way a pass can end; `Skip` is a closed gate, `Return` the
rule of `Run_Passes` for a failed pass, `Throw` an exception. What a pass
computes from the program (which symbols to externalize, whether clang reports
errors) is any value that its guards admit. A text is abstracted to what the
passes can tell apart:

| Field | Meaning |
|---|---|
| `plain`, `renamed`, `strong` | symbols declared under their name, as `klpp_x`, and externalized (`klpe_x`) |
| `includes` | the text needs files from disk |
| `closed` | printed by a closure |

`AddFile` is `InMemoryFileSystem::addFile`: it never replaces a file. `Out` is
where `PrettyPrint` prints: standard output, the output file, nothing, or
`"dead"`, a string stream that died with the pass that made it.
`-DCE_DUMP_PASSES`, which only writes additional files, is left out.

### Mutants

A definition called `X_Something` in front of `X` is a faulty version of `X` in the
same shape (a dropped guard, a missing reset, a swapped order). No specification
uses it. `PROJECT.json` pairs every checked property with one of them: with `X`
replaced by it, TLC finds the property violated, so the property does depend
on that piece of the code.

## 3. What TLC checks

| Run | Instance | Question |
|---|---|---|
| `IncludeAttrs` | every tree of up to three directives, all flags | do the sweeps agree with the tree they were given, in any order? |
| `MCIncludeTree` | two headers, three directives | does the stack hold the file being read, do nodes get the right parent and guard, and does the map answer with the node that requests and sweeps acted on? |
| `MCFunctionDepsFinder` | up to three groups of declarations and the function that is extracted | is everything that the output uses declared, once, and with its body where that is needed; does the analysis end? |
| `MCFunctionDepsFinder_NestedAreOutput` | the same | violated, see 4 |
| `MCRecursivePrint` | three functions, two headers that include each other, a macro in six places | do macros mean what they meant, and does each declaration reach the compiler once? |
| `MCExternalizeFinder` | three functions, two objects, their clones, up to three binaries | is the inline closure reachability, which file decides on a symbol, is what is met externalized? |
| `MCStartup` | 19 options and `-include`s, three at a time; 17 debuginfo files | does clang get the right arguments, is the buffer right, is everything freed, does it end? |
| `MCIntervalTree` | nine intervals with eight lower bounds | does the tree implement the set, balanced and with tight limits? |
| `MCTextModifications` | three requests, one insertion, six positions | do edits commute, and who wins? |
| `MCSymbolExternalizer` | every unit of up to three declarators over three symbols | does the text declare what it uses, and does the log tell the truth? |
| `MCPassManager` | two symbols, every option | do names, log, stream and file stay consistent? |
| `MCStartup_ImageIsWhole` | as `MCStartup` | violated, see 4 |

Properties worth knowing:

* `IncludeFindsItsFile`: for a directive the search on the stack always ends,
  although header guards and skipped includes pop it at other times. For a
  header guard it need not (see 4).
* `ParentHasRightFile`: the parent of a node may be the wrong *copy* of the
  includer, but then it is a later copy of the same file.
* `RequestHonoured`, `FailsOnlyWhenStuck`, `NothingLost`, `OutputResolves`: what the
  three sweeps together promise, each stated of the final tree and independent
  of how they got there.
* `RequestReachesMappedNode`: the externalizer may only change a header that the
  next `IncludeTree` expands; it tests the node found *by file* and requests the
  header *by name*, and the two meet.
* `UnexpandedFileIsProvided`: what the closure leaves to headers is in a header that
  is included.
* `UsesAreAvailable`: after declarations were removed because another text has
  them or a header brings them, and bodies because nobody was found to need them, every use
  in what is left has a declaration before it or in the same text; every tag
  whose body is needed has it; and what was requested is there. `Ordinary` excludes units
  in which a declaration with another in its range is not copied as text, or repeats an
  earlier one: there a declaration is lost (4). `SearchSuffices` excludes units in which
  the search for declarators misses one that uses something of its own (4). `NestedFirst`
  excludes units in which a tag that is nested in a record is used outside of it, unless
  clang itself asks for the body of the record or everything meets the tag before the
  record: there the nested tag is lost (4, `NestedAreOutput`). Of the 2597 units of the
  run 1934 are ordinary, and of those the search does not suffice in one, and 116 are not
  `NestedFirst`.
* `MacrosAsInSource`: compares the macros known to a compiler that reads the output
  with those in force at the same place of the source. Its three exceptions are
  the ways in which the code loses a directive (4).
* `ClosureIsReachable`: the closure is the least set of names that is closed under
  being inlined, and has the neighbours of what was asked for; several searches share
  one set of visited nodes.
* `ExternalizesWhatIsMet`: the code that is copied is the least set with what is
  extracted and what copied code calls; a symbol is externalized exactly if copied code
  meets it and its decision says so.
* `LastFileDecides`: one entry is kept of each name, and each debuginfo file overwrites
  it. What a library exports is decided by its `.dynsym`, whenever that is read; of any
  other name the file read last decides that has it, local, global or weak. So the order
  of the files shows (4).
* `ClangGetsTheRest`: compares the vector that a loop erases from with a filter of
  the command line; `MinusIncludesAreProvided` relates its result to what
  `Build_Header_Tree` does with the same headers.
* `BufferHoldsPrefix`: doubling the buffer once is enough for the chunk to come, and
  what gzip hands out is stored without a gap.
* `ImplementsSet`, `LimitsAreTight`, `SearchesAreExact`: the searches prune by limits
  that insertion and removal pass up only as far as they change.
* `EditsCommute`: at every step of `Commit` the text is the source with the edits
  committed so far and all insertions, though insertions reach the `Rewriter` first and
  each edit is mapped through the ones before it.
* `SortOrderIrrelevant`: if no two requests of one priority conflict, the
  instability of the sort has no effect. `RequestsDoNotConflict`: the externalizer
  satisfies that hypothesis.
* `UsesAreDeclared`: where a declaration goes, where it is removed, and how uses are
  rewritten are decided in three places at three times (`FirstUse`, `Late_Externalize`
  and `Needs_Sym_Rename`); what the closure keeps is still declared before it is used.
* `FuncsStayDeclared`: what is looked up after the externalizer is named as in the
  text the externalizer wrote.
* `LogMatchesOutput`: the log agrees with the text in the output file, which has gone
  through the in-memory file system and two closures since.

### Bounds

`MaxIncludes = 3` and two headers: a file that includes itself through another one and goes
on after it takes three directives; what is proved of `HeaderTree` and `IncludeTree` covers
any number of both.
`MaxNodes = 3`: a node with a parent, a child and a sibling, or a chain of
Root and three, which is enough for each kind of flag to be above, at and
below a cut. In `MCIncludeTree` the policy never answers "expand", which sets the
same flag as a request of the user; `IncludeAttrs` varies the flags freely.

`FunctionDepsFinder`: `MaxGroups = 3` declarations of twenty in front of one of eight
extracted functions, in every legal order: two that repeat each other, and one that
uses what is removed. Among the functions are one that needs a body and one that only
the visitor knows to need it. The menu has a tag with one or several declarators, with and
without a definition, anonymous and nested tags, types that differ in a pointer,
static functions and one of the compiler's own, and each kind of text and file. Four
units are added that the menu does not give (`MoreUnits`). `RecursivePrint`: one macro
that may be defined and undefined before, between and inside of declarations,
and one guard of a header that is included twice. `ExternalizeFinder`: a
graph of inlining with cycles; binaries in which a name is
local in one, global in another, and weak in a third.

`Startup`: three items besides the name of the program and the functions, or a list
of debuginfo files and one item, so that two `-include`s can follow each other
with something before or behind them. `CHUNK = 2`, files of at most seven units in
at most three chunks: a chunk that fills a buffer exactly, twice, or not, and an
error after any of them. `IntervalTree`: eight lower bounds give trees of four
levels, in which a removal rotates above the node it started from; one lower bound
has two intervals.

`TextModifications`: `MaxDeltas = 3`, because a winner, a loser and a third that
only the loser would have beaten is the longest chain of reasons in `Solve`;
the ranges nest, share a start, share an end, and touch. `SymbolExternalizer`: an
extracted function and two symbols, one of which may use the other, in three
declarators: a use before the first one that counts, a prototype before or behind
its definition, and two symbols that are both being moved. `PassManager`: two
symbols, as every property relates at most an extracted and an externalized one;
the proofs cover any number.

Symmetry is only used for `Symbols` in `MCPassManager`, which no definition
tells apart. Deadlock is not checked where the program ends.

### Fairness

Liveness (`Terminates` of `FunctionDepsFinder` and `Startup`) is
checked under weak fairness of the next step. All of these are loops of the only
thread, which waits for nothing, so that a step that is possible is taken; no
choice among steps is assumed to be fair.

## 4. Where the code and its comments differ

Two disagreements are runs that TLC has to find violated (`findings` in
`PROJECT.json` quotes the lines).

`MCFunctionDepsFinder_NestedAreOutput`: a tag that is nested in a record may be
missing in the output. `ParentRecordDeclHelper` marks the body of the record as required, but
only when the nested tag is visited from somewhere else (`Closure.cpp` 494). In `struct P {
struct N { int x; } n; }; int f(struct P *p, struct N *q) { return q->x; }` the closure meets P
first and N from P; q finds N analyzed and changes nothing. Nothing needs the
body of P, so `struct P;` is printed, and the output has no N. With the two parameters swapped it
has.

`MCStartup_ImageIsWhole`: an intact compressed
debuginfo file does not reach libelf as it is. `decompress_gz` passes the last
return value of `inflate()`, which is 1, as the size of the image
(`ElfCXX.cpp` 230). `decompress_zstd` advances by the capacity of its buffer in place
of what was written (281), and stops when the input is taken though the decoder
may hold more (266).

Other things the models show, each at its place in a definition or a guard:

* Header tree. `Set_Parent` may set a later copy of the includer, if a header is open
  twice. A main file that defines a header guard before its first `#include` empties
  the stack (`GuardDefinitionUnderflow`).
* Text modifications. The error branch of `Solve` is dead: `a.Priority <= b.Priority`
  is always true of a sorted list, so one of two conflicting edits is dropped in
  silence (`SolveNeverThrows`).
* Externalizer. Late externalization puts the new declaration in front of the
  first use that the closure keeps, not of the first use, though all uses are
  renamed.
* Passes. `AddFile` keeps the file that is there, so after the externalizer the last
  closure parses the externalizer's text and not the one it has just printed
  (`Passes.cpp` 396). `ExternalizerGate` does not ask for `CE_NO_EXTERNALIZATION` (524);
  the text that is then parsed from memory alone may still include files. With errors
  ignored, the IBT tail may be written to a stream that is gone. The exception of
  `Commit` comes after its edits, which nobody can observe any more.
* Dependencies. `TypesAreNotLost` does not hold: the branch for declarators of
  `Remove_Redundant_Decls` (`FunctionDepsFinder.cpp` 197-200) compares ranges without asking
  whether the declarator is printed as text, which the branch for typedefs does
  (119-122). The second loop asks only that the text of the later declaration exists, not
  that it is copied (`HasText` in `InTextOf`, `FunctionDepsFinder.cpp` 263-270): where its
  conditionals do not match it is dumped, and the earlier declarators are lost.
  Declarators of one declaration are to be analyzed together (`Closure.cpp` 197), but
  `Get_Toplev_Decls_With_Same_Beginloc` searches for them by bisection in an array that is
  not sorted: of `static struct T {..} v = {h}, w;` clang reports T first, and T
  begins at the word `struct`, behind v and w. If the search meets T it misses both
  (`LLVMMisc.cpp` 231). Then w does not bring v into the closure, the text that is printed
  has v in it, and `h` is not declared.
* Printing. `UsedMacrosAreDefined` does not hold: everything up to the end of a
  declaration is skipped (`PrettyPrint.cpp` 717), also if the declaration is not printed
  as text, and a `#define` in it with it. An `#undef` in the main file of a macro that a
  kept header defines is lost (585 takes the mark away that 686 asks for).
  `Get_Macro_Info` finds a macro that is undefined again, so that a dump of a
  declaration defines `noinline` although 208 says "Only print it if the noinline macro
  is defined at location.", and the branch for unbalanced text (237) does not
  undefine it. The test for an `#include` inside a declaration (78-82) is made for tags only.
* Externalize finder. A function whose address is taken, or that an initializer uses,
  is not analyzed unless it is called (`FunctionExternalizeFinder.cpp` 199). A local symbol
  without a type has the value that means "not found".
* ELF. A read error is taken for a chunk of 4 GB (`ElfCXX.cpp` 188, 258). The handler in
  the constructor calls the destructor and throws, after which the `Parser` part is
  destroyed a second time (`dead = 2`). A file whose type can not be read stays open.
  zstd does not notice that a file ends early. gzip stops at the end of the first
  member of a file, and ignores what is behind it (`ends`).
  The symbol cache keeps the entry that was read last, and a weak symbol is not
  externalized (`InlineAnalysis.cpp` 352-355): where one file has a local or a global symbol and
  another a weak one of that name, the order of the files decides whether it is
  externalized at all.
* Command line. `Update_Clang_Args` moves its iterator back twice after it erased two
  arguments (`Passes.cpp` 225-229, 234-238), where once would do. For an `-include` right
  behind the program name that leaves the vector: the iterator stands before `begin()`
  until the loop's `it++`, which C++ leaves undefined and which does no harm to a pointer.
  `Back` and `Advance` are the two halves, and `ClangGetsTheRest` says how far it goes.
  Were the program name itself an `-include`, the next round would read there.
  Under the KERNEL policy, or with `CE_EXPAND_INCLUDES`, a header of an
  `-include` is expanded while the `-include` stays, against `Passes.cpp` 198-200.
  `-include` as the value of another option is taken for one. An empty
  `CE_OUTPUT_FILE` or `KBUILD_MODNAME` makes a string of a null pointer. The name in
  `KBUILD_MODNAME` has underscores where the name of a file may have dashes.

## 5. What is proved

`tlapm` checks these for every value of the constants. Assumptions are the named
`ASSUME`s of the modules.

**HeaderTree_proofs.** `TypeCorrect`, `IncludeFindsItsFileHolds`,
`StackIsBranchHolds`, `ParentHasRightFileHolds`, `MinusIncludeIsCommandLineHolds`,
`GuardHasRightFileHolds`.
None is inductive by itself: that the search ends needs to know that every open
header is on the stack. The strengthened invariant `IInv` has three parts.
`Branch(stack)`: the stack is a path from `Root` whose nodes get younger.
`ChainInv`: so is the preprocessor's chain, and headers are only open in the
main file when the main file has been seen. `FollowsInv`: every open header is on the
stack, and `Root` has its file exactly when the main file was seen. The key lemma is
`ChainKept`: popping to the file that is being read never pops an open header,
because the innermost one is of that file and those around it lie deeper.
`FilesKept` (a node keeps its file for good) carries the guards over an `#include`.
`LastOne` (a non-empty set of positions has a last one) is where the library's
well-founded induction comes in, through its theorem about minimal elements.

`RequestReachesMappedNodeHolds` and `UnexpandedFileIsProvidedHolds` are about the whole
constructor. `AllInv` adds three invariants to `IInv`, each the bridge from one part to
the next. `TreeInv`, of the building: the nodes are numbered in pre-order (`PreOrder`, which
needs that everything younger than an element of the stack hangs below it, `StackOpen`), and
of a requested header it is the first node that is asked to expand (`FirstIsAsked`).
`SweepInv`, of the sweeps: no request is taken back outside of a cut, and every done node is
`Provided`. `MapInv`, of the map: when it comes to node `t`, it has all
older nodes, and the stack has `Frontier(t)`, the younger ones that hang below those,
in decreasing order; `PreOrder` makes the children of `t` go below all of them. So the map
visits nodes in the order of creation, and finds the node that the request went to. The sweeps'
steps are read directly from the definitions of the instance (`ExpandUpFacts`,
`OutputDownFacts`, `CutDownFacts`), as theorems do not pass through an INSTANCE.

**IncludeAttrs_proofs.** `TypeCorrect`, `NeverBothHolds`, `ExpandedIsSubtreeHolds`,
`OutputResolvesHolds`, `OrderIndependentHolds`, `FailsOnlyWhenStuckHolds`,
`RequestHonouredHolds`, `NothingLostHolds`: every property of the three sweeps, for
trees of any size. `IInv` has one invariant for each sweep, over the nodes it has
done: `ExpandInv` (a done node that is expanded has an expanded parent), `OutputInv`
(expanded nodes are a subtree throughout, and what is not done is not output),
`CutInv` (where the subtree is interrupted the cut is about to be passed down), and
`ReadyInv` for what is left at the end.

The last four compare with functions that recurse up the tree (`Expanded`,
`Shown`, `Below`). That such a recursion has a value at all, and that a fact passes from
parents to children, is shown from the minimal elements of a well-founded order:
`Oldest`, `TreeInduction` and `TreeRecursion`, the last of which needs nothing but that a
parent has a smaller number. With the recursive equations as facts (`ExpandedEq`,
`BelowFacts`) `AttrInv` says of each sweep that a done node already has the value the
tree alone gives it (`AskedInv`, `ShownInv`, `BelowInv`); `OrderIndependent` is the end
of the last sweep, and `FailsOnlyWhenStuck` is what the third sweep finds in the node at which it stops.

**TextModifications_proofs.** `KeptAreDisjointHolds`, `DroppedForAWinnerHolds`,
`SortOrderIrrelevantHolds`, `SolveNeverThrows` and `EditsCommuteHolds`. The invariant `SolveInv` says that what is left to do has at
most the priority of everything that was kept.

`SortOrderIrrelevant` speaks of `Accepted`, the requests of each priority that
survive when conflicts inside one priority are not looked at, again a recursion, this time
over priorities (`AcceptedEq`). `AcceptedStep`: when everything above a priority has been
decided as `Accepted` says, so is this priority, in whatever order `Solve` takes it.

`EditsCommute` compares what the `Rewriter` holds with `OutputText`, which knows the set of
ranges committed so far and what was inserted where, and no order. Its invariant `BufferInv`
(`BufferInvariant`) adds what each edit relies on: a position that no committed range
has in its inside is mapped to the length of the output before it plus what was
inserted at it. An insertion (`InsertTextBuffer`) comes before any commit, so all
positions are such; a commit (`CommitOneBuffer`) finds its range as it is in the source,
since it touches no other that was kept (`KeptAreDisjoint`) and no declaration starts inside of
it (`DeclaratorsOK`), so that nothing was inserted there. Below that are two recursions over data,
`FlattenSeq` and the offset in `Mapped`: each is unfolded once, by an induction over a set
of numbers (`SetInduction`, from the library's `WFMin`), to `PrefixStep` and
`MappedStep`, "one more text" and "one more delta"; `SpliceConcat` and `EditTexts` are
what cutting a concatenation at a boundary of its texts gives.

**Closure_proofs.** `VisitorInvariant` and `ClosureIsLeast`: for every unit and every
order of the calls, what the visitor has analyzed when it is done is closed under
reference, has the requested symbols, and lies in every other such set. The
invariant has both directions. Soundness (`NothingElse`): what is analyzed, and
every call still to be made, lies in each closed set. Completeness
(`RefsAreFollowed`): what an analyzed declaration refers to is analyzed, or its call is
pending in a frame of that declaration; when the stack is empty nothing is pending.

`NothingTwiceHolds` is about the second loop of `Remove_Redundant_Decls`, after which no text
that is printed has another in it. `RangesInv`: `prev` is the last marked declaration so
far, and no earlier one is in the text of another. `OrderAssumption` is what clang's order
gives: a later declaration lies behind an earlier one or around it. The theorem is stated for
units with `OneText`, which all units of the run have: the loop compares with `prev` only, so that
where a declarator between two others has no text, because a macro holds it, the first one
is printed twice.

`UsesAreAvailableHolds`: nothing is missing in the output of an ordinary unit in which the
search suffices and nested tags are met first (`NestedFirst`). The argument has four parts.

* What was analyzed, and what is required (`ClosureInvariant`, `RequiredInvariant`). `AInv` is `IInv` for both loops that call the
  visitor, the one over requested symbols and the one over kept headers: in the end the
  analyzed declarations are closed under reference, and the marked ones are their marks. `RInv`
  is what both loops leave in the flags: the bodies that clang asked for and those that an
  analyzed declaration completes are required, and so is a record that is only met from what
  is nested in it.
* What is left (`SurvivorsInvariant`). Not the marked set but what stands for it is
  invariant: for each marked declaration and each analyzed tag there is one that says the
  same, is not later, and is `Alive`. In the first loop a tag is alive if it is in a
  text that is printed: the tag that a declarator repeats may go (`RepeatedTagIs`), and
  a declaration that repeats an earlier one may go since it carries no tag
  (`RepeatingCarriesNothing`); the earlier one may be gone too by then, since the hash set is
  visited in any order, but not without something that stands for it in turn
  (`StandsTransitive`). From the second loop on everything is in the range of something that is
  printed. This is about ranges (`Spans`) and not yet about bodies.
* What the output uses (`Served`). Each declaration in a text that is printed, marked
  or not, uses only what was analyzed: it was analyzed, or it is a declarator
  that the marked one brought, or a tag in the marked one's text (`DeclaredUses`).
* What is printed with its body. `RequiredHasBody`: a top-level tag that is required is
  defined by what spans it. `NestedHasBody`: so is a nested one, which is where
  `NestedFirst` is needed, as the record around it has to be required. `AnonymousHasBody`:
  a record without a name comes with its typedef or its declarators, which span it.
  `NeedsAreThere` puts these together with `RInv`.

From these, `MeantTagIsSpanned` and `StaticIsSpanned` follow because nothing that is
earlier says the same as a definition, and `UsedIsDeclared` because what stands for an
earlier declaration is earlier still; a tag used through pointers may have lost its body, but it
is declared. A record and what is nested in it go together
(`ClosedUnderNesting`); facts about nesting go from a record to its members by the
least counterexample (`NestingInduction`, with `LeastOne` from well-foundedness).

**PassManager_proofs.** `FuncsStayDeclaredHolds`, `LogMatchesOutputHolds`,
`TailFollowsCodeHolds`, for any set of symbols. `LogInv` is the invariant behind the
second: not only the text in the file but every text still in use (the AST's, the one
in memory) matches the log, so it does not matter which of them `AddFile` keeps. It is
stated of all texts because a closure pass takes its input from one place and
leaves its output in another. `EarlyInv` says what does not exist before the pass
that makes it, `OutputInv` that the last closure has run and left `Out` on the file. The
main step is `ExternalizerKeepsFuncs`: the list of names and the text are
renamed by different rules, which agree where nothing extracted is externalized.

**Startup_proofs.** `BufferHoldsPrefixHolds` and `NothingLeftOpenHolds`, for any files, any
division into chunks, any size of the buffers and any command line. `Resources`
says what is open or allocated in each state; `Capacity` that doubling once
makes room, because the buffer is never smaller than the decoder's;
`Gapless` what it holds.

`ClangGetsTheRestHolds` and `MinusIncludesAreProvidedHolds`, for any command line, policy and
set of headers. `CLInv` follows the arguments from the parser to the end of the loop
that erases from the vector it iterates over; at the head of the loop it says `Scanned`: `n` of
the arguments are behind the loop, the vector is what was kept of them and the rest,
and the iterator is at the first of the rest, or one before it after an erasure, at
an argument that is no `-include`. What is kept is `Chosen(s, K)`, the elements of `s` at
the positions of `K`; `ChosenIs` gives its recursion, `ChosenNeighbours` and
`ChosenNextTo` say who stands next to whom in it. Two premises: the program name is not
`-include` (`CommandLinesOK`: the loop would otherwise read before `begin()`), and
`Sensible`: no `-include` is for a header called `-include`. There the loop is of two
minds, and the theorem is false: it erases such a name with the `-include` before it,
but takes it for an option when it leaves that one where it is.

**SymbolExternalizer_proofs.** `RequestsDoNotConflictHolds`, `BystandersStayHolds`,
`LogIsTrueHolds`, `UsesAreDeclaredHolds`, for translation units of any length over any symbols.
The invariant `IInv` is `InputOK` and, for an `Ordinary` program, seven parts:
`VisitInv` (what is visited has been visited with everything before it),
`DeclInv` and `UseInv` (what the visit of a declarator or of a use has left in
`FirstUse`, `IsUsed`, the closure), `RequestInv` (each request is one of six kinds, and says
why it was filed), `RenamedInv` (the converse: a declarator or use that must change has
its request), `LogInv` (an entry for each symbol that is externalized, of the kind of
its declaration) and `KeptInv` (what was committed is what `Solve` promises).
From there the text is read. `ConflictFree`: requests of one priority do not overlap, because
a part of a declarator is covered only by the parts `PartFacts` lists; so the
hypothesis of `SortOrderIrrelevantHolds` is not an assumption about the callers but a
theorem. `ImportantKept` and `SmallKept`: a request is given up only for one that
replaces its place altogether, hence a use that is left has the name the
externalizer gave it, and its declaration is left too (`VisibleFacts`, `UseFacts`).

**FunctionExternalizeFinder_proofs.** `ClosureIsReachableHolds`,
`ExternalizesWhatIsMetHolds`, `LastFileDecidesHolds`, for all files, all programs and
all orders in which they are read and searched. The two searches are alike: a stack
of frames with what each has yet to follow, and a set of what was visited, that does
not shrink. `InlineInv` has the parts of `Closure_proofs`: what was visited has its
neighbours in the result or waiting in a frame (`NeighboursAreFollowed`), what was asked
has been visited (`AskedAreVisited`), nothing else is in the result
(`NothingElse`). What is new is that a start symbol is visited without being in the
result unless another one reaches it (`VisitedForAReason`). `FinderInv` says the same of
the walk over the calls, where only functions that are copied are followed
(`CallsAreFollowed`, `NoneCopiedElse`), and `ExternalizesItsOwn` ties each entry of the
output to the copied code that meets it. `Advance`, `Push` and `Pop` are the three
things either does to its stack. `LastFileDecides` rests on `CacheInv`: a map
has every name that a file read so far has in a table of that kind, with what the last
such file says of it (`LastWins`, kept by `MapStep`), and one file at most has a
`.dynsym` (`OneLibrary`).

Only model-checked:

* what `RecursivePrint` promises: its run gets by its inputs what a proof would have to
  assume of how declarations, directives and includes nest in a source;
* `IntervalTree`, which is recursive throughout (the prover loses its arithmetic in a
  module with RECURSIVE operators), and with it that it implements `IntervalSet`;
* liveness, since fairness and ENABLED are beyond the prover.

## 6. Not modelled, and what could be added

* Diagnostics, adapters to clang's versions, the loading of an AST: messages and calls
  of clang, no state of their own. The dump tool, build files and tests.
* Layout: how a declaration, a tree, a graph or a `.dsc` file is written; pass dumps.
* What only C++ has; comments and attributes in the closure; the iterator mode that
  skips macros in declarations.
* The iterators over sections and symbols of an ELF file, which wrap libelf. The
  decoders, libelf, clang's preprocessor, its rewriter and its call graph are external:
  modelled by what the code sees of them.
* Text that starts or ends inside a comment or a string, which the count of
  directives may be wrong about.

Worth adding: the composition of `IncludeTree` with `FunctionDepsFinder`, which takes
"expanded" and "included" from a file's name now; `SymbolExternalizer`'s `Commit` as an
INSTANCE of `TextModifications`.
