\* Two clients and their daemons; no process is killed.
CONSTANTS
    c1 = c1
    c2 = c2
    d1 = d1
    d2 = d2
    f1 = f1
    f2 = f2
    f3 = f3
    f4 = f4
    f5 = f5
    None = None
    Procs <- FourProcs
    Files <- FiveFiles
    Clients <- TwoClients
    UrlClients <- OneUrl
    Daemons <- TwoDaemons
    IdleLimit = 1
    Mortal <- Nobody
SPECIFICATION Spec
INVARIANTS
    InstantiatedOnce
CHECK_DEADLOCK FALSE
