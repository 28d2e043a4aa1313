SPECIFICATION ThreadsSpec
CONSTANTS
    Parts = {"writer"}
    Threads = {t1}
    NKeys = 1
    MaxRounds = 1
    N = 2
    QueueLimit = 2
    MaxPuts = 1
    MaxSelects = 1
INVARIANT OwnNamespace
CHECK_DEADLOCK FALSE
