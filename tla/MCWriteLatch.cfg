\* A worker, a client that saves and two slaves that need a snapshot.
\* The loop may really hang: a slave is added while a command is on its way.
SPECIFICATION Spec
CONSTANTS
    Loop = loop
    Workers = {w1}
    Clients = {c1}
    MaxOps = 2
    MaxSlaves = 2
    MaxPings = 0
    BackupStartsInTime = TRUE
CHECK_DEADLOCK FALSE
INVARIANTS
    ExactlyOnce
    SessionOrder
