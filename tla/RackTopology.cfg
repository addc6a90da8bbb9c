SPECIFICATION TopologySpec
CONSTANTS
    Plugs = {"eq", "gate"}
    Presets = {"p1", "p2"}
    Names = {"voice", "music"}
    None = None
    Setups <- MCSetups
    MaxSlots = 3
    MaxCommands = 4
INVARIANTS
    TopologyTypeOK
    RackCoherent
    EditorShowsRack
PROPERTIES
    EditHitsSeenSlot
    PendingClears
CHECK_DEADLOCK FALSE
