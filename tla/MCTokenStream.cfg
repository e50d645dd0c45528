SPECIFICATION Spec
CONSTANTS
    MaxLen = 5
    MaxErrors = 2
    Raws <- MCRaws
    Expected <- MCExpected
INVARIANTS
    TypeOK
    WindowIsConsecutive
PROPERTIES
    ErrorsInOrder
    ImplementsCursor
