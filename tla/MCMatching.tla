----------------------------- MODULE MCMatching -----------------------------
(* Two requests at a time over a room of up to three rows.                 *)
EXTENDS Matching, TLC

CONSTANTS q1, q2, m1, m2, m3, e1, e2, a1, a2, a3

MCRequests    == {q1, q2}
MCMembers     == {m1, m2, m3}
MCEvents      == {e1, e2}
MCAttendeeIds == {a1, a2, a3}

Symmetry ==
    Permutations(MCRequests) \cup Permutations(MCMembers) \cup Permutations(MCEvents)
        \cup Permutations(MCAttendeeIds)
=============================================================================
