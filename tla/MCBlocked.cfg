SPECIFICATION BlockedSpec
CHECK_DEADLOCK FALSE
CONSTANTS
    c1 = c1
    c2 = c2
    c3 = c3
    k1 = k1
    k2 = k2
    s1 = s1
    None = None
    Clients = {c1, c2, c3}
    ListKeys = {k1, k2, s1}
    StringKeys = {s1}
    MaxCommands <- MCMaxCommands
    Commands <- MCCommands
INVARIANTS
    ServedOnce
    LeftWaitingOnlyIfLate
PROPERTIES
    SignalledIsServed
