SPECIFICATION ProgramSpec
CONSTANTS
    MaxSelect = 1
    Families <- AllFamilies
    Forms <- AllForms
    Tokens <- FormTokens
    Inputs <- FormInputs
INVARIANTS
    StatementTypeOK
    SourceOrder
    ClausesKept
    StatementsKeptApart
    BrokenOnlyWhereKnown
