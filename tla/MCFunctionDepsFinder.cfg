CONSTANTS
    Units <- MCUnits
    Names <- MCNames
    KeepIncludes = TRUE
    MaxGroups = 3
SPECIFICATION Spec
CHECK_DEADLOCK FALSE
INVARIANTS
    UsesAreAvailable
    NothingTwice
PROPERTY
    Terminates
