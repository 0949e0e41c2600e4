SPECIFICATION Spec
CONSTANTS
    b1 = b1
    b2 = b2
    r1 = r1
    r2 = r2
    p1 = p1
    p2 = p2
    n1 = n1
    n2 = n2
    n3 = n3
    None = None
    Builds <- TwoBuilds
    Requesters <- TwoUsers
    Owner <- OwnApart
    Want <- WantTwo
    Procs <- TwoProcs
    Nonces <- OneNonce
    MaxJobs = 2
    MaxPerRequester = 1
    WorkerSlots = 3
    Genesis = FALSE
SYMMETRY Sym1
CHECK_DEADLOCK FALSE
CONSTRAINT NoUser
INVARIANTS
    LedgerValid
