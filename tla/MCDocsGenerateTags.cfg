CONSTANTS
    NumFiles <- MCNumFiles
    Ids <- MCIds
    Tags <- MCTags
    MaxLines <- MCMaxLines
    DocChoices <- MCDocChoices
SPECIFICATION Spec
INVARIANT AllTaggedItemsIndexed
CHECK_DEADLOCK FALSE
