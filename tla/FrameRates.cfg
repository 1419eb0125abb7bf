SPECIFICATION FairSpec
CONSTANTS
    LastSlot = 5
    AudioTracks = {a1}
    Files <- MCFewFiles
    TimeCodeLists <- MCFewLists
    FrameRateLists <- MCManyRates
    Fraction = 2
    Delays <- MCDelays
    MaxRuns = 1
    Word = 65536
    IntModulus = 8192
    TooLargeInt <- MCLargestInt
    MaxDuration = 12000
    RoundsLow <- MCRoundsLow
    TicksShort <- MCTicksShort
INVARIANTS
    SteadyRates
    DurationFits
PROPERTY
    AlwaysEdited
CHECK_DEADLOCK FALSE
