SPECIFICATION FairSpec
CONSTANTS
    b1 = b1
    b2 = b2
    r1 = r1
    r2 = r2
    h1 = h1
    h2 = h2
    w1 = w1
    n1 = n1
    n2 = n2
    n3 = n3
    None = None
    Builds <- OneBuild
    Requesters <- TwoUsers
    Owner <- OwnOne
    Nonces <- TwoNonces
    Handlers <- TwoHandlers
    Workers <- OneWorker
    GlobalLimit = 1
    RequesterLimit = 1
    Genesis = TRUE
PROPERTY FinishedIsReleased
