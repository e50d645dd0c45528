SPECIFICATION ProgramSpec
CONSTANTS
    MaxSelect = 1
    Families <- NestedTry
    Tokens <- FamilyTokens
    Inputs <- FamilyInputs
INVARIANTS
    BlocksAroundTryClose
