SPECIFICATION ControlSpec
CONSTANTS
    MaxSelect = 1
    Families <- Programs
    Tokens <- FamilyTokens
    Inputs <- FamilyInputs
INVARIANTS
    StatementTypeOK
    SourceOrder
    BlocksClose
    ElseBindsNearest
    NoStatementTokenLost
    BrokenOnlyWhereKnown
