CONSTANTS
    Catalogue <- MCCatalogue
    DescChoices <- MCDescsAll
SPECIFICATION Spec
INVARIANT MissingDescriptionHandled
CHECK_DEADLOCK FALSE
