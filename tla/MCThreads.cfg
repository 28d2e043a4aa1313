SPECIFICATION ThreadsSpec
CHECK_DEADLOCK FALSE
CONSTANTS
    Parts = {"locks", "writer"}
    Threads = {t1, t2, t3}
    NKeys = 3
    MaxRounds = 1
    N = 2
    QueueLimit = 2
    MaxPuts = 3
    MaxSelects = 2
INVARIANTS
    MutualExclusion
    ObjectsDistinct
    LockedIsHeld
    EachOnce
    NeverStaleNamespace
PROPERTIES
    
    WorkersLive
