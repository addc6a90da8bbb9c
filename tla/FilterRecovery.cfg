SPECIFICATION Spec
CONSTANTS
    Plugins = {p, q}
    Created = p
    None = None
    MaxEdits = 1
    MaxCommands = 1
    MaxFaults = 2
    StableReset = 1
    MaxShift = 1
    MaxBackoff = 2
    AttemptCap = 2
INVARIANTS
    TypeOK
    SavedMeansRestorable
PROPERTIES
    Recovers
CHECK_DEADLOCK FALSE
