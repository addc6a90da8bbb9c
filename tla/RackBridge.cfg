SPECIFICATION Spec
CONSTANTS
    MaxBlocks = 2
    MaxGeneration = 2
    MaxEdits = 2
    MaxSaves = 2
    EditCapacity = 1
    DrainAttempts = 2
INVARIANTS
    TypeOK
    BlockOwned
    GatesHold
    SavedIsWhole
CHECK_DEADLOCK FALSE
