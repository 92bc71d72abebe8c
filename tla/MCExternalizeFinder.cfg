CONSTANTS
    Inputs <- MCInputs
    Names <- MCNames
    BaseName <- MCBaseName
    Quirk <- MCQuirk
    Programs <- MCPrograms
SPECIFICATION Spec
CHECK_DEADLOCK FALSE
INVARIANTS
    ClosureIsReachable
    LastFileDecides
    ExternalizesWhatIsMet
