\* One filter, two audio threads on two hazard slots, one reaper, and so few
\* addresses that every restart reuses one a reader may still announce.
\* No symmetry: a liveness property is checked.
SPECIFICATION FairSpec
CONSTANTS
    Filters = {f1}
    Addresses = {a1, a2}
    Threads = {t1, t2}
    Reapers = {p1}
    HazardSlots = 2
    Null = Null
INVARIANTS TypeOK NoUseAfterDestroy OneOwner
PROPERTIES RetiredIsDestroyed
