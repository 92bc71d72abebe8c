------------------------ MODULE MCExternalizeFinder ------------------------
(* Three functions that call and inline each other, an object, and the      *)
(* binaries that may or may not have them.                                  *)
EXTENDS FunctionExternalizeFinder

MCNames == {"f", "g", "h", "v", "l", "f.isra.0", "g.part.0", "h.constprop.0"}
MCBaseName == [n \in MCNames |-> CASE n = "f.isra.0" -> "f" [] n = "g.part.0" -> "g"
                                   [] n = "h.constprop.0" -> "h" [] OTHER -> n]
MCQuirk == [n \in MCNames |-> CASE n = "f.isra.0" -> "isra" [] n = "g.part.0" -> "part"
                                [] n = "h.constprop.0" -> "constprop" [] OTHER -> ""]

Sym(n, bind, type) == [name |-> n, bind |-> bind, type |-> type]
Section(table, syms) == [table |-> table, syms |-> syms]

Library == <<Section("DYNSYM", <<Sym("f", "GLOBAL", "FUNC"), Sym("v", "WEAK", "OBJECT")>>),
             Section("SYMTAB", <<Sym("f", "GLOBAL", "FUNC"), Sym("g", "LOCAL", "FUNC")>>)>>
Other == <<Section("DYNSYM", <<Sym("h", "GLOBAL", "FUNC")>>)>>
Debug == <<Section("PROGBITS", <<>>),
           Section("SYMTAB", <<Sym("g", "LOCAL", "FILE"), Sym("g", "LOCAL", "FUNC"), Sym("f", "LOCAL", "FUNC"),
                               Sym("g", "GLOBAL", "FUNC"), Sym("v", "LOCAL", "OBJECT"),
                               Sym("l", "LOCAL", "OBJECT")>>)>>
Debug2 == <<Section("SYMTAB", <<Sym("g", "GLOBAL", "FUNC"), Sym("h.constprop.0", "LOCAL", "FUNC")>>)>>
Weak == <<Section("SYMTAB", <<Sym("g", "WEAK", "FUNC"), Sym("f", "WEAK", "FUNC"), Sym("l", "LOCAL", "NOTYPE")>>)>>

Line(clone, happened, original) ==
    [decision |-> "Callgraph clone", clone |-> clone, happened |-> happened, original |-> original]
Log == <<Line("f", "inlining to", "g"), Line("g", "inlining to", "g.part.0"),
         Line("h.constprop.0", "constprop", "h"), Line("g.part.0", "inlining to", "h"),
         Line("f.isra.0", "isra", "f"),
         [decision |-> "Callgraph removal", clone |-> "", happened |-> "", original |-> "h"],
         Line("h", "inlining to", "f.isra.0"), Line("v", "inlining to", "f")>>

NoQuestion == [ipa |-> <<>>, symbols |-> {}, direction |-> "Find_Inlined_Symbols"]
NoBinary == [elfs |-> <<>>, symvers |-> <<>>, kernel |-> FALSE]
Both(a, b) == [x \in DOMAIN a \cup DOMAIN b |-> IF x \in DOMAIN a THEN a[x] ELSE b[x]]

Questions == [ipa : {SubSeq(Log, i, j) : i \in {1, 3}, j \in {7, 8}},
              symbols : {{"f"}, {"g", "v"}, {"f", "h"}, {"f", "g", "h"}},
              direction : {"Find_Inlined_Symbols", "Find_Where_Symbol_Is_Inlined"}]
Binaries == [elfs : {<<>>, <<Library>>, <<Debug>>, <<Library, Debug>>, <<Library, Debug, Debug2>>, <<Library, Other>>,
                     <<Library, Debug, Weak>>},
             symvers : {<<>>, <<[name |-> "h", mod |-> "vmlinux"], [name |-> "v", mod |-> "btrfs"]>>},
             kernel : BOOLEAN]

MCInputs == {Both(q, NoBinary) : q \in Questions} \cup {Both(NoQuestion, b) : b \in Binaries}

F == {"f", "g", "h"}
MCPrograms ==
    {[calls |-> [x \in F |-> CASE x = "f" -> fc [] x = "g" -> {"h", "f"} [] OTHER -> hc],
      refs |-> [x \in F |-> CASE x = "f" -> fc \cup {"v"} [] x = "g" -> {"h", "f"} [] OTHER -> hc \cup {"v", "l"}],
      defined |-> F, inlined |-> inl, locals |-> {"l"}, builtin |-> {},
      extract |-> ex, externalize |-> IF hc = {} THEN {"h"} ELSE {}] :
        fc \in {{"g"}, {"g", "h"}}, hc \in {{}, {"h", "f"}}, inl \in {{}, {"g"}}, ex \in {{"f"}, {"f", "h"}}}
=============================================================================
