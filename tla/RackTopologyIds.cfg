SPECIFICATION TopologySpec
CONSTANTS
    Plugs = {"eq", "gate"}
    Presets = {"p1", "p2"}
    Names = {"voice", "music"}
    None = None
    Setups <- MCGapSetups
    MaxSlots = 4
    MaxCommands = 4
INVARIANTS
    UniqueIds
CHECK_DEADLOCK FALSE
