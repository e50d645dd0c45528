SPECIFICATION ProgramSpec
CONSTANTS
    MaxSelect = 1
    Families <- Modifying
    Forms <- QueryForms
    Tokens <- FamilyTokens
    Inputs <- FamilyInputs
INVARIANTS
    ParsedProgramsPrint
