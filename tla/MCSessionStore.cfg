SPECIFICATION Spec
CONSTANTS
    s1 = s1
    s2 = s2
    i1 = i1
    i2 = i2
    i3 = i3
    Senders <- MCSenders
    SessionIds <- MCSessionIds
    Owner <- MCOwner
    Platforms <- MCPlatforms
    SessionTTL = 3
    StateTTL = 1
    TurnTime = 1
    ExchangeTime = 1
    MaxTime = 5
INVARIANTS
    TypeOK
    IndexConsistent
    TokensReachTheirSession
    TurnHoldsLiveSession
    VerifiedCallbackFindsSession
CONSTRAINT FewAtOnce
SYMMETRY Symmetry
