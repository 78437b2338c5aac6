SPECIFICATION Spec
CONSTANTS
    m1 = m1
    m2 = m2
    e1 = e1
    a1 = a1
    a2 = a2
    a3 = a3
    Members <- MCMembers
    Events <- MCEvents
    AttendeeIds <- MCAttendeeIds
    RetentionDays = 2
    PurgeEvery = 1
    MaxDays = 5
    NoDate = NoDate
INVARIANTS
    TypeOK
    RetentionBound
SYMMETRY Symmetry
