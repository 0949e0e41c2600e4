SPECIFICATION Spec
CONSTANTS
    b1 = b1
    b2 = b2
    r1 = r1
    r2 = r2
    h1 = h1
    h2 = h2
    w1 = w1
    n1 = n1
    n2 = n2
    n3 = n3
    None = None
    Builds <- TwoBuilds
    Requesters <- TwoUsers
    Owner <- OwnTogether
    Nonces <- ThreeNonces
    Handlers <- TwoHandlers
    Workers <- OneWorker
    GlobalLimit = 2
    RequesterLimit = 1
    Genesis = TRUE
SYMMETRY Sym
INVARIANTS
    TypeOK
    BacklogWithinLimits
    InFlightCharged
    WaitingVerifies
    OneCreateAuthority
    CleanupKindTruthful
    SettledBeforeReleased
PROPERTY ReceiptOutlivesMark
