------------------------ MODULE MCFunctionDepsFinder ------------------------
(* Units built from a list of source declarations, in every legal order.    *)
EXTENDS FunctionDepsFinder, SequencesExt

CONSTANT MaxGroups

\* needs: the tags, or the objects and types made of them, whose body is needed;
\* missed: those of them that only the visitor knows to be needed.
Tag(n, def, uses) == [kind |-> "tag", name |-> n, def |-> def, static |-> FALSE, spec |-> "",
                      uses |-> uses, tag |-> "", via |-> "direct", nested |-> FALSE,
                      needs |-> {}, missed |-> {}]
Dcl(k, n, spec, def, tag, via, uses) ==
    [kind |-> k, name |-> n, def |-> def, static |-> spec = "static", spec |-> spec, uses |-> uses,
     tag |-> tag, via |-> via, nested |-> FALSE, needs |-> {}, missed |-> {}]
Nested(n, uses) == [Tag(n, TRUE, uses) EXCEPT !.nested = TRUE]
Needs(m, needs) == [m EXCEPT !.needs = needs]
Misses(m, needs) == [m EXCEPT !.needs = needs, !.missed = needs]

G(how, file, members) == [how |-> how, file |-> file, members |-> members]

TFwd == G("text", "main", <<Tag("T", FALSE, {})>>)
TDef == G("text", "main", <<Tag("T", TRUE, {})>>)
ExtV == G("text", "main", <<Dcl("var", "v", "extern", FALSE, "T", "direct", {"T"})>>)
TV == G("text", "main", <<Tag("T", TRUE, {"T"}), Needs(Dcl("var", "v", "", FALSE, "T", "direct", {"T"}), {"T"})>>)
ExtTV(how) == G(how, "main", <<Tag("T", TRUE, {}), Dcl("var", "v", "extern", FALSE, "T", "direct", {"T"})>>)
TPQ == G("text", "main", <<Tag("T", TRUE, {}), Dcl("var", "p", "", FALSE, "T", "pointer", {"T"}),
                           Needs(Dcl("var", "v", "", FALSE, "T", "array", {"T"}), {"T"})>>)
TAB(how, file) == G(how, file, <<Tag("T", TRUE, {}), Dcl("typedef", "A", "typedef", FALSE, "T", "direct", {"T"}),
                           Dcl("typedef", "B", "typedef", FALSE, "T", "pointer", {"T"})>>)
AnonAB == G("text", "main", <<Tag("", TRUE, {}), Dcl("typedef", "A", "typedef", FALSE, "", "direct", {""}),
                           Dcl("typedef", "B", "typedef", FALSE, "", "pointer", {""})>>)
AnonPV == G("text", "main", <<Tag("", TRUE, {}), Dcl("var", "p", "", FALSE, "", "pointer", {""}),
                           Needs(Dcl("var", "v", "", FALSE, "", "direct", {""}), {""})>>)
TypA == G("text", "expanded", <<Dcl("typedef", "A", "typedef", FALSE, "T", "direct", {"T"})>>)
Nest == G("text", "expanded", <<Needs(Tag("P", TRUE, {"N"}), {"N"}), Needs(Nested("N", {"T"}), {"T"})>>)
VarN == G("text", "main", <<Needs(Dcl("var", "v", "", FALSE, "N", "direct", {"N"}), {"N"})>>)
VarA == G("text", "included", <<Dcl("var", "w", "extern", FALSE, "", "direct", {"A"})>>)
Builtin == G("text", "expanded", <<Dcl("func", "b", "", FALSE, "", "direct", {"A"})>>)
GDec == G("text", "main", <<Dcl("func", "g", "static", FALSE, "", "direct", {})>>)
GDef == G("text", "main", <<Needs(Dcl("func", "g", "static", TRUE, "", "direct", {"v", "g"}), {"v"})>>)
FDec == G("text", "main", <<Dcl("func", "f", "", FALSE, "", "direct", {})>>)
Function(uses) == Dcl("func", "f", "", TRUE, "", "direct", uses)
FDef(uses) == G("text", "main", <<Function(uses)>>)
FNeeds(uses, needs) == G("text", "main", <<Needs(Function(uses), needs)>>)
FMisses(uses, needs) == G("text", "main", <<Misses(Function(uses), needs)>>)

Menu == <<TFwd, TDef, ExtV, TV, ExtTV("text"), ExtTV("notext"), TPQ, TAB("text", "main"),
          TAB("unbalanced", "main"), TAB("text", "included"), AnonAB, AnonPV,
          TypA, Nest, VarN, VarA, Builtin, GDec, GDef, FDec>>

\* Among them `*a = *b`, or a returned struct, of which clang does not say that the
\* body is needed; and parameters `struct P *p, struct N *q` of which q->x is used.
Roots == <<FDef({"g"}), FNeeds({"v", "A"}, {"v"}), FDef({"w"}), FDef({"B"}), FDef({"w", "b"}),
           FMisses({"T"}, {"T"}), FMisses({"N"}, {"N"}), FNeeds({"N", "P"}, {"N"})>>

MembersOf(s) == {s[i] : i \in 1 .. Len(s)}
Declared(g) == {m.name : m \in MembersOf(g.members)}
Defined(g) == {m.name : m \in {k \in MembersOf(g.members) : k.def}} \ {""}
Needed(g) == (UNION {m.uses : m \in MembersOf(g.members)}) \ Declared(g)

\* What follows the groups gs uses what they declare, and defines nothing again.
Fits(gs, g) ==
    /\ \A n \in Needed(g) : \E i \in 1 .. Len(gs) : n \in Declared(gs[i])
    /\ \A i \in 1 .. Len(gs) : /\ Defined(gs[i]) \cap Defined(g) = {}
                              /\ gs[i] # g /\ "B" \notin Declared(gs[i]) \cap Declared(g)

\* The last declaration of a name among the first n of a unit, the anonymous tag
\* being the last one that has no name; 0 if there is none.
Latest(u, n, name) ==
    LET S == {i \in 1 .. n : u[i].name = name}
    IN IF S = {} THEN 0 ELSE CHOOSE i \in S : \A j \in S : j <= i

Flat(gs) ==
    LET Member(g, k) == [m |-> gs[g].members[k], g |-> g, k |-> k]
    IN FlattenSeq([g \in 1 .. Len(gs) |-> [k \in 1 .. Len(gs[g].members) |-> Member(g, k)]])

Built(gs) ==
    LET f == Flat(gs)
        names == [i \in 1 .. Len(f) |-> [name |-> f[i].m.name]]
        Owned(i) == f[i].m.kind = "tag"
        GroupEnd(i) == CHOOSE j \in i .. Len(f) : f[j].g = f[i].g /\ (j = Len(f) \/ f[j + 1].g # f[i].g)
        Spelled(i) == f[GroupEnd(i)].m.spec # ""
        Begin(i) == 10 * f[i].g + (IF f[i].m.nested THEN 2 ELSE IF Owned(i) /\ Spelled(i) THEN 1 ELSE 0)
        End(i) == 10 * f[i].g + (IF f[i].m.nested THEN 3 ELSE 3 + f[i].k)
        Where(i) == IF gs[f[i].g].how = "notext" THEN [b |-> 10 * f[i].g, e |-> 10 * f[i].g]
                    ELSE [b |-> Begin(i), e |-> End(i)]
        \* A tag may name what its own group declares after it.
        Ref(i, n) == Latest(names, IF Owned(i) THEN GroupEnd(i) ELSE i, n)
        TagOf(i) == IF f[i].m.tag = "" THEN (IF "" \in f[i].m.uses THEN Ref(i, "") ELSE 0) ELSE Ref(i, f[i].m.tag)
        \* The definition of the tag that j is or is made of.
        TagMeant(j) == IF Owned(j) THEN j ELSE TagOf(j)
        Body(j) == {k \in 1 .. Len(f) : f[k].m.def /\ Owned(k) /\ TagMeant(j) # 0 /\
                                        (k = TagMeant(j) \/ (f[k].m.name # "" /\ f[k].m.name = f[TagMeant(j)].m.name))}
        Bodies(i, ns) == UNION {Body(Ref(i, n)) : n \in ns}
    IN [i \in 1 .. Len(f) |->
          [kind |-> f[i].m.kind, name |-> f[i].m.name, def |-> f[i].m.def, static |-> f[i].m.static,
           enum |-> FALSE, needs |-> Bodies(i, f[i].m.needs), completes |-> Bodies(i, f[i].m.missed),
           required |-> \E j \in 1 .. Len(f) : i \in Bodies(j, f[j].m.needs \ f[j].m.missed),
           builtin |-> f[i].m.name = "b", begin |-> Where(i).b, end |-> Where(i).e,
           parent |-> IF f[i].m.nested THEN i - 1 ELSE 0,
           uses |-> {Ref(i, n) : n \in f[i].m.uses},
           tag |-> TagOf(i),
           via |-> f[i].m.via, spec |-> f[i].m.spec,
           how |-> gs[f[i].g].how, file |-> gs[f[i].g].file]]

\* Redeclarations agree, objects have a complete type, and a compiler's own
\* function is declared where one is called.
Legal(u) ==
    LET All(n) == {i \in 1 .. Len(u) : u[i].name = n}
        Def(n) == {i \in All(n) : u[i].def}
        SameType(i, j) == u[u[i].tag].name = u[u[j].tag].name /\ u[i].via = u[j].via
    IN /\ Def("T") # {} \/ All("T") = {}
       /\ \A n \in {"v", "A"} : \A i, j \in All(n) : SameType(i, j)
       /\ \A i, j \in All("v") : i # j => "extern" \in {u[i].spec, u[j].spec}
       /\ \A i \in All("b") : \E j \in 1 .. Len(u) : i \in u[j].uses
       /\ \A i \in All("v") : u[i].spec = "" => \E j \in Def(u[u[i].tag].name) : j < i
       /\ \A i \in 1 .. Len(u) : \A x \in u[i].needs : x < i \/ (u[i].begin <= u[x].begin /\ u[x].end <= u[i].end)

\* `static struct T {..} v = {h}, w;` is reported as T, v, w and T begins last: with
\* f in front the search for the begin of w meets T, and misses v and w.
HDec == G("text", "main", <<Dcl("func", "h", "", FALSE, "", "direct", {})>>)
StaticTVW == G("text", "main", <<Tag("T", TRUE, {}), Needs(Dcl("var", "v", "static", FALSE, "T", "direct", {"T", "h"}), {"T"}),
                                 Needs(Dcl("var", "w", "static", FALSE, "T", "direct", {"T"}), {"T"})>>)

\* The first declarator does not name the tag.
AnonBA == G("text", "main", <<Tag("", TRUE, {}), Dcl("typedef", "B", "typedef", FALSE, "", "pointer", {""}),
                           Dcl("typedef", "A", "typedef", FALSE, "", "direct", {""})>>)

MoreUnits == {Built(gs) : gs \in {<<HDec, StaticTVW, FDef({"w"})>>, <<FDec, HDec, StaticTVW, FDef({"w"})>>,
                                  <<AnonBA, FDef({"A"})>>, <<AnonBA, FDef({"B"})>>}}

\* Sequences of n groups of the menu, and of a root behind them.
Starts[n \in 0 .. MaxGroups] ==
    IF n = 0 THEN {<<>>}
    ELSE {Append(c[1], c[2]) : c \in {x \in Starts[n - 1] \X MembersOf(Menu) : Fits(x[1], x[2])}}

Sources ==
    LET Begun == (UNION {Starts[n] : n \in 0 .. MaxGroups}) \X MembersOf(Roots)
    IN {Append(c[1], c[2]) : c \in {x \in Begun : Fits(x[1], x[2])}}

MCUnits == {u \in {Built(gs) : gs \in Sources} : Legal(u)} \cup MoreUnits

MCNames == {"f"}
=============================================================================
