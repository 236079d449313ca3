CONSTANTS
    Catalogue <- MCCatalogue
    DescChoices <- MCDescsAll
SPECIFICATION Spec
INVARIANT SectionsFollowIndex
CHECK_DEADLOCK FALSE
