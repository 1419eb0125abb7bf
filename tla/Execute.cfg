SPECIFICATION Spec
CONSTANTS
    Movies <- MCMovies
    CommandLines <- MCCommandLines
    TimeCodeFiles <- MCTimeCodeFiles
    MaxRuns = 2
    Fraction = 300
    CloseOnTie <- MCCloseOnTie
    ScaleShort <- MCScaleShort
    IntModulus = 1073741824
    TooLargeInt <- MCTooLargeInt
    MaxDuration = 1500
    RoundsLow <- MCRoundsLow
INVARIANTS
    TypeOK
    GroupsWithinOne
    GroupsAreMaximal
    EveryFrameTimed
    RefusedForAReason
    LiteralCodesIncrease
    PrintedRoundTrip
    OptimizedInSync
    RescaledInRange
    EditedWhenAsked
CHECK_DEADLOCK FALSE
