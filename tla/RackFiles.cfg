SPECIFICATION Spec
CONSTANTS
    h1 = h1
    h2 = h2
    Helpers = {h1, h2}
    Setups <- MCSetups
    Session = session
    Presets = {p1}
    Missing = Missing
    Torn = Torn
    Nobody = Nobody
    MaxEdits = 2
    MaxCrashes = 1
INVARIANTS
    TypeOK
    PresetNotLost
    FallbackIsRecent
PROPERTIES
    SessionIsAtomic
CHECK_DEADLOCK FALSE
