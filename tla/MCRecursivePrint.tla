-------------------------- MODULE MCRecursivePrint --------------------------
(* A file that includes a header h and a header k, which includes j and h   *)
(* again, then has three functions; a macro that may be defined and         *)
(* undefined before, between and inside of them.                            *)
EXTENDS RecursivePrint

M == "noinline"
G == "H_GUARD"
MCMacroNames == {M, G}

\* A slot is a directive for M, or nothing.
Slot(kind, at, file) == IF kind = "none" THEN <<>> ELSE <<[kind |-> kind, name |-> M, at |-> at, in |-> file]>>
Include(file, at, to, in) == <<[kind |-> "include", name |-> file, file |-> file, at |-> at, to |-> to, in |-> in]>>

Decl(kind, begin, loc, end, file) ==
    [kind |-> kind, begin |-> begin, loc |-> loc, end |-> end, furthest |-> end, in |-> file, complete |-> TRUE,
     included |-> FALSE, hastext |-> TRUE, noinline |-> FALSE, marked |-> TRUE]

\* The declaration that directives may be in.
Middle ==
    LET text == [Decl("function", 15, 16, 19, "main") EXCEPT !.furthest = 20]
    IN {text, [text EXCEPT !.marked = FALSE], [text EXCEPT !.hastext = FALSE, !.noinline = TRUE],
        [text EXCEPT !.kind = "tag", !.complete = FALSE], [text EXCEPT !.kind = "tag", !.included = TRUE],
        [text EXCEPT !.kind = "enum", !.complete = FALSE], [text EXCEPT !.loc = 18]}

Source(s, middle, expanded, keep) ==
    [directives |->
        Slot(s[1], 1, "builtin") \o Include("h", 2, 7, "main")
        \o <<[kind |-> "define", name |-> G, at |-> 3, in |-> "h"]>> \o Slot(s[2], 4, "h")
        \o Include("k", 8, 13, "main") \o Include("j", 10, 11, "k")
        \o Slot(s[3], 14, "main") \o Slot(s[4], 17, "main") \o Slot(s[5], 21, "main") \o Slot(s[6], 25, "main"),
     decls |-> <<Decl("variable", 5, 5, 6, "h"), Decl("variable", 11, 11, 11, "j"), Decl("variable", 12, 12, 12, "k"),
                 middle, Decl("function", 22, 23, 24, "main"), Decl("function", 26, 27, 28, "main")>>,
     uses |-> {[name |-> M, at |-> p] : p \in {6, 12, 18, 23, 27}},
     guards |-> {[name |-> G, at |-> 9]},
     files |-> [f \in {"builtin", "main", "h", "k", "j"} |->
                  [expanded |-> f \in {"builtin", "main"} \/ (f = "h" /\ expanded),
                   guard |-> IF f = "h" THEN 3 ELSE 0]],
     keep |-> keep, begin |-> 2, end |-> 30]

\* An #undef is listed if it undefines something.
Listed(src) ==
    \A i \in 1 .. Len(src.directives) :
        LET d == src.directives[i]
            before == {j \in 1 .. i - 1 : src.directives[j].name = d.name /\ src.directives[j].kind \in {"define", "undef"}}
        IN d.kind = "undef" => before # {} /\ src.directives[Max(before)].kind = "define"

Slots == {"none", "define"} \X {"none", "define"} \X {"none", "undef"} \X {"none", "define", "undef", "endif"}
            \X {"none", "define", "undef"} \X {"none", "define", "undef"}

MCSources == {src \in {Source(s, middle, expanded, keep) :
                          s \in Slots, middle \in Middle, expanded \in BOOLEAN, keep \in BOOLEAN} : Listed(src)}
=============================================================================
