\* Two plug-in addresses: one in use and one that replaces it, or one retired
\* and one that follows it. Numbers up to 4 are three edits, so that both generations
\* are rewritten once. Two attempts, so that a block can succeed at the second
\* or stay dry. The helper may end: it stops in the last state.
SPECIFICATION FairSpec
CONSTANTS
    Plugins = {p1, p2}
    Idle = Idle
    Stopped = Stopped
    MaxAttempts = 2
    MaxGeneration = 5
CHECK_DEADLOCK FALSE
INVARIANTS TypeOK OneOwner
PROPERTIES ChainIsAtomic ExitClosesAll
