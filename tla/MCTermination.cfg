SPECIFICATION FairSpec
CONSTANTS
    MaxSelect = 1
    Families <- Everything
    Tokens <- FamilyTokens
    Inputs <- FamilyInputs
PROPERTIES
    Terminates
    ImplementsContract
