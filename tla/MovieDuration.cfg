SPECIFICATION Spec
CONSTANTS
    LastSlot = 5
    AudioTracks = {a1}
    Files <- MCFiles
    TimeCodeLists <- MCSteadyList
    FrameRateLists <- MCFrameRateLists
    Fraction = 1
    Delays <- MCDelays
    MaxRuns = 1
    Word = 65536
    IntModulus = 65536
    TooLargeInt <- MCTooLargeInt
    MaxDuration = 30000
    RoundsLow <- MCRoundsLow
    TicksShort <- MCTicksShort
INVARIANT
    MovieIsLongestTrack
CHECK_DEADLOCK FALSE
