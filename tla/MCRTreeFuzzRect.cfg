CONSTANTS
    Iterations <- MCIterations
    Cadence <- MCCadence
    MaxWidth <- MCMaxWidth
    MaxHeight <- MCMaxHeight
    PointBound <- MCPointBound
    NoRect = NoRect
SPECIFICATION Spec
INVARIANT
    RectangleWellFormed
CHECK_DEADLOCK FALSE
