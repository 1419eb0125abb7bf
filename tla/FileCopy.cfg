SPECIFICATION Spec
CONSTANTS
    Movies <- MCMovies
    SamePath <- MCDifferentPath
    MaxUInt32 = 200
    FreeRoom = 4
    FtypSize = 10
    MoovSize = 20
INVARIANTS
    TypeOK
    RoomSuffices
    SuccessIsPlayable
    FailureIsReadable
PROPERTY
    Remuxes
CHECK_DEADLOCK FALSE
