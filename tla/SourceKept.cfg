SPECIFICATION Spec
CONSTANTS
    Movies <- MCMovies
    SamePath <- MCSamePath
    MaxUInt32 = 200
    FreeRoom = 4
    FtypSize = 10
    MoovSize = 20
INVARIANT
    SourceKept
CHECK_DEADLOCK FALSE
