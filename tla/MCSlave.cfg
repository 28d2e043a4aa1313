SPECIFICATION FairSpec
CONSTANTS
    NoNamespace = none
    Namespaces = {a, b}
    First = a
    Keep = 3
    KeepSlave = 2
    MaxLog = 8
    MaxCuts = 3
    MaxCrashes = 1
    MaxMidCrashes = 1
CHECK_DEADLOCK FALSE
INVARIANTS
    SlaveFollows
    LogIsMasters
    LoadedBeforeSynced

    
