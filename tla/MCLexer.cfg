SPECIFICATION Spec
CONSTANTS
    Families <- Everything
    Characters <- FamilyCharacters
    Texts <- FamilyTexts
INVARIANTS
    LexerTypeOK
    NothingLost
    PlacesAreTrue
    UnclosedIsReported
    CompoundsAreExact
PROPERTY
    Advances
