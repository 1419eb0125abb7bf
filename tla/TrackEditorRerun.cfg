SPECIFICATION Spec
CONSTANTS
    LastSlot = 5
    AudioTracks = {a1}
    Files <- MCFiles
    TimeCodeLists <- MCRerunLists
    FrameRateLists <- MCFrameRateLists
    Fraction = 2
    Delays <- MCDelays
    MaxRuns = 2
    Word = 65536
    IntModulus = 65536
    TooLargeInt <- MCTooLargeInt
    MaxDuration = 30000
    RoundsLow <- MCRoundsLow
    TicksShort <- MCTicksShort
INVARIANTS
    PlainTiming
PROPERTY
    DisplayOrderKept
CHECK_DEADLOCK FALSE
