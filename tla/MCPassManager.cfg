SPECIFICATION Spec
CONSTANTS
  f = f
  g = g
  Symbols <- const_Symbols
SYMMETRY Symmetric
\* A run ends: with success, with a failed pass, or in undefined behaviour.
CHECK_DEADLOCK FALSE
INVARIANTS
  FuncsStayDeclared
  LogMatchesOutput
  TailFollowsCode
