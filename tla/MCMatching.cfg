SPECIFICATION Spec
CONSTANTS
    q1 = q1
    q2 = q2
    m1 = m1
    m2 = m2
    m3 = m3
    e1 = e1
    e2 = e2
    a1 = a1
    a2 = a2
    a3 = a3
    NoEvent = NoEvent
    NoMember = NoMember
    NoRow = NoRow
    Requests <- MCRequests
    Members <- MCMembers
    Events <- MCEvents
    AttendeeIds <- MCAttendeeIds
    TopK = 2
    FinalK = 2
    MaxUnreadable = 1
    MaxFailures = 1
    MaxBegun = 4
INVARIANTS
    TypeOK
    DBTypeOK
    RowsConsistent
    RecordedUnlessGone
    StoredUnlessRefused
    SameAttendeeId
PROPERTIES
    KeepsThePromise
SYMMETRY Symmetry
CHECK_DEADLOCK FALSE
