SPECIFICATION Spec
CONSTANTS
    MaxSelect = 2
    Families <- Grammar
    Tokens <- GrammarTokens
    Inputs <- GrammarInputs
INVARIANTS
    TypeOK
    NilIsReported
    OperatorsBind
    SourceOrder
    NoTokenLost
    DepthBounded
    ChainsGroupByLevel
