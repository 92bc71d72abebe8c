SPECIFICATION Spec
CONSTANTS
  f = f
  g = g
  h = h
  NoSymbol = NoSymbol
  Symbols <- MCSymbols
  Extract <- MCExtract
  Declarators <- MCDeclarators
  SymbolsMaps <- MCSymbolsMaps
  MacroSets <- MCMacroSets
  MaxDecls = 3
\* The visitor, the externalizer and Commit end.
CHECK_DEADLOCK FALSE
INVARIANTS
  UsesAreDeclared
  RequestsDoNotConflict
  LogIsTrue
  BystandersStay
