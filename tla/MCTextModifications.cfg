SPECIFICATION Spec
CONSTANTS
  Length = 6
  Boundaries <- MCBoundaries
  Declarators <- MCDeclarators
  Identifiers <- MCIdentifiers
  Texts <- MCTexts
  MaxDeltas = 3
  MaxInserts = 1
INVARIANTS
  KeptAreDisjoint
  DroppedForAWinner
  SortOrderIrrelevant
  EditsCommute
CHECK_DEADLOCK FALSE
