------------------------ MODULE TopLevelASTIterator ------------------------
(***************************************************************************)
(* TopLevelASTIterator: one pass over the declarations of a file and the   *)
(* entries of its preprocessing record, by their place in the source.      *)
(* clang keeps no entry for an #undef: the iterator gathers those from the *)
(* history of each macro.                                                  *)
(*                                                                         *)
(* A place is a number.  A source is a record: directives, in their order, *)
(* each with a kind ("define", "undef", "include", "if", "endif"), a name, *)
(* its place at and the file in; decls, in their order; uses, the places   *)
(* where a name is written that a macro may replace; guards, those where   *)
(* the preprocessor tests a header guard; and end, the end of the file.    *)
(* An #undef is listed if it undefines something.                          *)
(***************************************************************************)
EXTENDS Naturals, Sequences, SequencesExt, FiniteSetsExt

CONSTANT Sources

VARIABLES source,
          DeclIt, MacroIt, UndefIt,    \* what comes next of each kind
          Current, Ended

iterVars == <<DeclIt, MacroIt, UndefIt, Current, Ended>>

-----------------------------------------------------------------------------
(* MacroWalker.                                                            *)

\* Preprocessor::getLocalMacroDirectiveHistory, the oldest first.
History(name) ==
    SelectSeq(source.directives, LAMBDA d : d.kind \in {"define", "undef"} /\ d.name = name)

\* MacroDirective::getMacroInfo: what the i-th entry of h defines or undefines.
MacroInfo(h, i) == IF h[i].kind = "define" THEN h[i] ELSE h[i - 1]

\* The last entry that is about the definition: its #undef, if it has one.
Get_Macro_Directive_First(def) ==
    LET h == History(def.name)
    IN h[Min({i \in 1 .. Len(h) : MacroInfo(h, i) = def})]

Get_Macro_Directive(def) ==
    LET h == History(def.name)
    IN h[Max({i \in 1 .. Len(h) : MacroInfo(h, i) = def})]

\* Get_Macro_Info(id, loc): the last definition before a place, also if it is
\* undefined there; none is 0, any other is named by its place.
Get_Macro_Info(name, loc) ==
    LET h == History(name)
    IN Max({0} \cup {MacroInfo(h, i).at : i \in {i \in 1 .. Len(h) : MacroInfo(h, i).at < loc}})

-----------------------------------------------------------------------------
PrepRec == SelectSeq(source.directives, LAMBDA d : d.kind \in {"define", "include"})

\* Populate_Needs_Undef: sorted by the place of the #undef.
NeedsUndef ==
    LET defs == {d \in Range(PrepRec) : d.kind = "define"}
    IN SetToSortSeq({u \in {Get_Macro_Directive(d) : d \in defs} : u.kind = "undef"},
                    LAMBDA a, b : a.at < b.at)

NextDecl == IF DeclIt <= Len(source.decls) THEN source.decls[DeclIt].loc ELSE source.end
NextPrep == IF MacroIt <= Len(PrepRec) THEN PrepRec[MacroIt].at ELSE source.end
NextUndef == IF UndefIt <= Len(NeedsUndef) THEN NeedsUndef[UndefIt].at ELSE source.end

IsDecl == Current.type = "DECL"

\* Return::Get_Location
Get_Location(cur) == IF cur.type = "DECL" THEN cur.item.loc ELSE cur.item.at

\* Advance, with macros inside of declarations.
Advance ==
    LET next == Min({NextDecl, NextPrep, NextUndef})
    IN CASE next = source.end ->
              Ended' = TRUE /\ UNCHANGED <<DeclIt, MacroIt, UndefIt, Current>>
         [] next # source.end /\ next = NextDecl ->
              /\ Current' = [type |-> "DECL", item |-> source.decls[DeclIt]]
              /\ DeclIt' = DeclIt + 1
              /\ Ended' = FALSE
              /\ UNCHANGED <<MacroIt, UndefIt>>
         [] next \notin {source.end, NextDecl} /\ next = NextPrep ->
              /\ Current' = [type |-> "PREPROCESSED_ENTITY", item |-> PrepRec[MacroIt]]
              /\ MacroIt' = MacroIt + 1
              /\ Ended' = FALSE
              /\ UNCHANGED <<DeclIt, UndefIt>>
         [] OTHER ->
              /\ Current' = [type |-> "MACRO_UNDEF", item |-> NeedsUndef[UndefIt]]
              /\ UndefIt' = UndefIt + 1
              /\ Ended' = FALSE
              /\ UNCHANGED <<DeclIt, MacroIt>>

\* One round of Skip_Until.
MustSkip(loc) == ~Ended /\ Get_Location(Current) < loc
=============================================================================
