CONSTANTS
    Iterations <- MCIterations
    Cadence <- MCCadence
    MaxWidth <- MCMaxWidth
    MaxHeight <- MCMaxHeight
    PointBound <- MCPointBound
    NoRect = NoRect
SPECIFICATION Spec
INVARIANTS
    TypeOK
    HarnessNeverAborts
    CountersMatchCadence
CHECK_DEADLOCK FALSE
