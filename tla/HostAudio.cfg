\* Two slots, so that one late block leaves a single slot; a one-place ring of
\* commands drained one per wake-up; and four tokens: a pause that times out and
\* is withdrawn, and another one that meets its late acknowledgement.
\* The worker may exit and the caller keeps going: nothing ever stops.
SPECIFICATION FairSpec
CONSTANTS
    SlotCount = 2
    SequenceModulus = 2
    Capacity = 1
    PerWake = 1
    MaxCommands = 2
    MaxGeneration = 5
INVARIANTS TypeOK EngineExclusive WetIsOwnBlock SlotLeft
PROPERTIES FrontierUnlessLate ProcessesNewest PauseEnds CommandsReachPlugin EngineIsLocked
