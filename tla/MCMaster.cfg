SPECIFICATION FairSpec
CONSTANTS
    NoNamespace = none
    Slaves = {s1, s2}
    Namespaces = {a}
    Keep = 2
    MaxLag = 2
    MaxSnapshots = 1
    Backup = FALSE
    MaxLog = 3
    MaxObjects = 2
    MaxSaves = 1
    MaxConns = 2
    MaxRestarts = 1
CHECK_DEADLOCK FALSE
INVARIANTS
    
    NamespaceKnown
PROPERTIES
    Resynchronised
