SPECIFICATION Spec
CONSTANTS
    Movies <- MCFastMovie
    CommandLines <- MCFastLines
    TimeCodeFiles <- MCNoFile
    MaxRuns = 1
    Fraction = 60
    CloseOnTie <- MCCloseOnTie
    ScaleShort <- MCScaleShort
    IntModulus = 1073741824
    TooLargeInt <- MCTooLargeInt
    MaxDuration = 1500
    RoundsLow <- MCRoundsLow
INVARIANT
    WellKnownRatesTaken
CHECK_DEADLOCK FALSE
