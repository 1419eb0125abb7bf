SPECIFICATION Spec
CONSTANTS
    Word = 512
    Tracks <- MCTracks
INVARIANTS
    TypeOK
    TimesAsStored
    EverySampleCopied
    WindowBytes
    SteadyMaximum
CHECK_DEADLOCK FALSE
