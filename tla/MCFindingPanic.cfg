SPECIFICATION Spec
CONSTANTS
    MaxSelect = 1
    Families <- ScopeFamilies
    Tokens <- FamilyTokens
    Inputs <- FamilyInputs
INVARIANTS
    NeverPanics
