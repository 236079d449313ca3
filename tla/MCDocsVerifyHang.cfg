CONSTANTS
    Bases <- MCBases
    Ids <- MCIds
    Types <- MCTypes
    NoId = NoId
    DocTypes <- MCDocTypes
    TableType <- MCTableType
    MaxLines <- MCMaxLines
    DocChoices <- MCDocChoices
    Catalogue <- MCCatalogue
SPECIFICATION Spec

PROPERTY Terminates
CHECK_DEADLOCK FALSE
