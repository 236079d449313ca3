CONSTANTS
    NumFiles <- MCNumFiles
    Ids <- MCIds
    Tags <- MCTags
    MaxLines <- MCMaxLines
    DocChoices <- MCDocChoices
SPECIFICATION Spec
INVARIANTS TypeOK LastFileWins IndexComplete
PROPERTIES TerminatesWhenDelimited FileRefinement
CHECK_DEADLOCK FALSE
