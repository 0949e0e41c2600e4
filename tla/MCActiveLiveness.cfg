SPECIFICATION PairFairSpec
CONSTANTS
    b1 = b1
    b2 = b2
    r1 = r1
    r2 = r2
    p1 = p1
    p2 = p2
    n1 = n1
    n2 = n2
    n3 = n3
    None = None
    Builds <- OneBuild
    Requesters <- TwoUsers
    Owner <- OwnOne
    Want <- WantOne
    Procs <- OneProc
    Nonces <- TwoNonces
    MaxJobs = 1
    MaxPerRequester = 1
    WorkerSlots = 2
    Genesis = TRUE
CHECK_DEADLOCK FALSE
PROPERTY BothAreReleased
