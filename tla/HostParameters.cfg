SPECIFICATION Spec
CONSTANTS
    Params = {a, b}
    None = None
    MaxWrites = 3
    RingCapacity = 1
    OverrideCapacity = 1
    CatchUpPasses = 2
INVARIANTS
    TypeOK
    ValuesSettle
CHECK_DEADLOCK FALSE
