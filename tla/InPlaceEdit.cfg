SPECIFICATION Spec
CONSTANTS
    MaxSize = 24
    TypeNames <- MCTypeNames
    Files <- MCFiles
    MoovSizes <- MCMoovSizes
    MaxEdits = 3
INVARIANTS
    TypeOK
    MediaKept
    ClosedIsPlayable
    GrowsSlowly
CHECK_DEADLOCK FALSE
PROPERTY
    OldNewOrNone
