SPECIFICATION Spec
CONSTANTS
    s1 = s1
    s2 = s2
    i1 = i1
    i2 = i2
    m1 = m1
    m2 = m2
    e1 = e1
    e2 = e2
    a1 = a1
    a2 = a2
    NoEvent = NoEvent
    NoMember = NoMember
    NoAttendee = NoAttendee
    DevMembers <- BothModes
    MaxTurns = 1
    Senders <- OneSender
    SessionIds <- TwoSessions
    Members <- TwoMembers
    Events <- OneEvent
    AttendeeIds <- TwoRows
INVARIANTS
    TypeOK
    AttendeeIsOwn
PROPERTIES
    NewRowsAuthorised
    AttendeeBindingStable
    ToldCheckedInIsStored
SYMMETRY Symmetry
