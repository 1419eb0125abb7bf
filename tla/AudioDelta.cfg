SPECIFICATION Spec
CONSTANTS
    Movies <- MCStillMovie
    CommandLines <- MCAudioLines
    TimeCodeFiles <- MCNoFile
    MaxRuns = 1
    Fraction = 125
    CloseOnTie <- MCCloseOnTie
    ScaleShort <- MCScaleShort
    IntModulus = 1073741824
    TooLargeInt <- MCTooLargeInt
    MaxDuration = 4000
    RoundsLow <- MCRoundsLow
INVARIANT
    VideoInSync
CHECK_DEADLOCK FALSE
