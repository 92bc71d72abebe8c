------------------------ MODULE MCSymbolExternalizer ------------------------
(***************************************************************************)
(* A function f that is extracted, and g and h that it uses directly or    *)
(* through each other, in every order and as functions or variables; one   *)
(* or both are externalized, late or in place or for IBT.  Three           *)
(* declarators make room for a use before the first one that counts, for   *)
(* a prototype before or behind its definition, and for int h, g; in front *)
(* of f.                                                                   *)
(***************************************************************************)
EXTENDS SymbolExternalizer, TLC

CONSTANTS f, g, h
MCSymbols == {f, g, h}
MCExtract == {f}

D(s, joined, def, refs, param) ==
  [sym |-> s, joined |-> joined, def |-> def, refs |-> refs, param |-> param]
MCDeclarators ==
  {D(s, FALSE, FALSE, {}, NoSymbol) : s \in {f, g, h}}
    \cup {D(f, FALSE, TRUE, refs, NoSymbol) : refs \in {{g}, {h}, {g, h}}}
    \cup {D(s, FALSE, TRUE, refs, NoSymbol) : s \in {g, h}, refs \in {{}, {g}}}
    \cup {D(s, TRUE, FALSE, {}, NoSymbol) : s \in {g, h}}
    \cup {D(h, FALSE, FALSE, {}, g), D(f, FALSE, TRUE, {g}, g)}

MCSymbolsMaps ==
  {f :> "RENAME" @@ g :> "STRONG",
   f :> "RENAME" @@ g :> "STRONG" @@ h :> "STRONG",
   g :> "WEAK" @@ h :> "STRONG"}
MCMacroSets == {{}, {g}}
=============================================================================
