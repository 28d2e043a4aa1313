\* Under fair scheduling, snapshots of a client and engine backups that may
\* start late.
SPECIFICATION FairSpec
CONSTANTS
    Loop = loop
    Workers = {w1}
    Clients = {c1}
    MaxOps = 2
    MaxSlaves = 0
    MaxPings = 1
    BackupStartsInTime = FALSE
 
PROPERTY EveryChangeLogged
INVARIANT NeverMissing
