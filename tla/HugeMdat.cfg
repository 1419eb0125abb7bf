SPECIFICATION Spec
CONSTANTS
    MaxSize = 24
    TypeNames <- MCTypeNames
    Files <- MCHugeFile
    MoovSizes <- MCMoovSizes
    MaxEdits = 1
INVARIANT
    EditReachesDisk
CHECK_DEADLOCK FALSE
