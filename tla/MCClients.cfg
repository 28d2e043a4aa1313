\* Connections may rest.
SPECIFICATION ClientsSpec
SYMMETRY Symmetry
CHECK_DEADLOCK FALSE
CONSTANTS
    Parts = {"session", "connection", "loops", "timer"}
    Clients = {c1, c2}
    Namespaces = {n1, n2}
    Channels = {ch1}
    Patterns = {p1}
    Matches <- MCMatches
    Families <- MCFamilies
    MaxCmds = 5
    MaxQueued = 2
    Streams <- MCStreams
    Room = 2
    MaxPushes = 1
    MaxFeeds = 3
    FileLen = 2
    Overloads = 1
    Main = main
    sub1 = sub1
    SubPool <- MCSubPool
    Repl = repl
    Other = other
    Chans = {1, 2}
    Fds = {1, 2}
    SetSize = 2
    PipeSize = 2
    MaxPosts = 1
    Tasks = {t1, t2, t3}
    Delays = {1, 2}
    Periods = {0, 1}
    Kilo = 2
    Horizon = 2
INVARIANTS
    
    
    SubscribersRight
    ConnectionRight
    LoopsRight
    TimerRight
