SPECIFICATION Spec
CONSTANTS
    Families <- PartitionTexts
    Characters <- FamilyCharacters
    Texts <- FamilyTexts
INVARIANTS
    PartitionsBehindWith
