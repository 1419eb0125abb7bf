SPECIFICATION Spec
CONSTANTS
    LastSlot = 5
    AudioTracks = {a1}
    Files <- MCFiles
    TimeCodeLists <- MCTimeCodeLists
    FrameRateLists <- MCFrameRateLists
    Fraction = 2
    Delays <- MCDelays
    MaxRuns = 1
    Word = 65536
    IntModulus = 65536
    TooLargeInt <- MCTooLargeInt
    MaxDuration = 30000
    RoundsLow <- MCRoundsLow
    TicksShort <- MCTicksShort
INVARIANTS
    TypeOK
    DecodeOrder
    DisplayOrder
    DecodedInTime
    ShortestDelay
    ReadBack
    PlainTiming
    ShiftWithinDelay
    DelayReached
PROPERTY
    CompressionHelps
CHECK_DEADLOCK FALSE
