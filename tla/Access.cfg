SPECIFICATION AccessSpec
CONSTANTS
    u1 = u1
    u2 = u2
    h1 = h1
    h2 = h2
    a1 = a1
    s1 = s1
    s2 = s2
    s3 = s3
    None = None
    User <- TwoUsers
    Person <- TwoUsers
    Attempt <- TwoAttempts
    Admin <- OneAdmin
    Socket <- ThreeSockets
INVARIANTS
    AccessTypeOK
    CleanSessionIsReachable
    ConnectedClientsAreLive
    RegisteredSocketIsOwn
    RegisterOnce
    SuccessMeansComplete
    DriverSocketNeedsProfile
PROPERTY
    VerdictStands
SYMMETRY Symmetric
