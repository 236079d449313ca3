CONSTANTS
    Bases <- MCBases
    Ids <- MCIds
    Types <- MCTypes
    NoId = NoId
    DocTypes <- MCDocTypes
    TableType <- MCTableType
    MaxLines <- MCMaxLines
    DocChoices <- MCDocChoices
    Catalogue <- MCCatalogue
SPECIFICATION Spec
INVARIANTS TypeOK DuplicateAliasesReported MissingDocMatchesFiles
PROPERTIES SignatureReportsMatchReference TerminatesWhenDelimited
CHECK_DEADLOCK FALSE
