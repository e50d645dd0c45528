SPECIFICATION Spec
CONSTANTS
    MaxSelect = 1
    Families <- NotFamilies
    Tokens <- FamilyTokens
    Inputs <- FamilyInputs
INVARIANTS
    NotTakesTheComparison
