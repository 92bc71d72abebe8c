CONSTANTS
    Sources <- MCSources
    MacroNames <- MCMacroNames
SPECIFICATION Spec
CHECK_DEADLOCK FALSE
INVARIANTS
    MacrosAsInSource
    ReachesOnce
