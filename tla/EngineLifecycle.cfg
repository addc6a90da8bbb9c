\* Two restart requests, so that one arrives while the other is served, and one
\* command of OBS.  The helper exits, so deadlock is not checked.
SPECIFICATION FairSpec
CONSTANTS
    Layouts = {mono, stereo}
    MaxRequests = 2
    MaxCommands = 1
INVARIANTS TypeOK BlocksOnWholePlugin NoRequestLost
PROPERTIES PairKept RestartsServed
CHECK_DEADLOCK FALSE
