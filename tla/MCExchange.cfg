SPECIFICATION ExchangeSpec
CONSTANTS
    cb1 = cb1
    cb2 = cb2
    s1 = s1
    s2 = s2
    c1 = c1
    c2 = c2
    home = home
    Callbacks <- MCCallbacks
    Keys <- MCKeys
    Codes <- MCCodes
    SessionOf <- MCSessionOf
    RemoteOf <- MCRemoteOf
    NoCode = NoCode
    Limit = 1
    RemoteLimit = 2
    Window = 1
    MaxTime = 2
    Retries = 1
    MaxBegun = 3
INVARIANTS
    TypeOK
    WindowBound
    RefusalJustified
    ExchangeTypeOK
    RejectionJustified
    ProviderSpared
PROPERTIES
    EveryCallbackEnds
CHECK_DEADLOCK FALSE
