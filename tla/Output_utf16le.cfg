SPECIFICATION Spec
CONSTANTS
    Inputs <- Utf16leInputs
    Assigned <- MCAssigned
    ReadBufferSize = 4
INVARIANTS
    CompleteIfUndisturbed
    ParitiesDisjoint
    LinesAreFragments
    ScansDeliver
