------------------------------ MODULE MCCheckIn -----------------------------
(* Small instances of CheckIn.                                             *)
EXTENDS CheckIn, TLC

CONSTANTS s1, s2, i1, i2, m1, m2, e1, e2, a1, a2

OneSender   == {s1}
TwoSenders  == {s1, s2}
OneMember   == {m1}
TwoMembers  == {m1, m2}
OneEvent    == {e1}
TwoEvents   == {e1, e2}
OneRow      == {a1}
TwoRows     == {a1, a2}
TwoSessions == {i1, i2}
OneSession  == {i1}
ProductionOnly == {NoMember}
BothModes      == {NoMember} \cup Members

Symmetry ==
    Permutations(Senders) \cup Permutations(SessionIds) \cup Permutations(Members)
        \cup Permutations(Events) \cup Permutations(AttendeeIds)
=============================================================================
