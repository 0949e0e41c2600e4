SPECIFICATION Spec
CONSTANTS
    b1 = b1
    b2 = b2
    r1 = r1
    r2 = r2
    p1 = p1
    p2 = p2
    n1 = n1
    n2 = n2
    n3 = n3
    None = None
    Builds <- OneBuild
    Requesters <- TwoUsers
    Owner <- OwnOne
    Want <- WantOne
    Procs <- TwoProcs
    Nonces <- TwoNonces
    MaxJobs = 1
    MaxPerRequester = 1
    WorkerSlots = 2
    Genesis = FALSE
SYMMETRY Sym2
CHECK_DEADLOCK FALSE
INVARIANTS
    RunningIsCharged
    InFlightRecorded
    NothingLeftBehind
PROPERTY ClosingIsFinal
