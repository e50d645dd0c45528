SPECIFICATION ProgramFairSpec
CONSTANTS
    MaxSelect = 1
    Families <- IllFormed
    Forms <- QueryForms
    Tokens <- FormTokens
    Inputs <- FormInputs
INVARIANTS
    StatementTypeOK
    SourceOrder
    ClausesKept
    StatementsKeptApart
    BrokenOnlyWhereKnown
PROPERTY
    ProgramTerminates
