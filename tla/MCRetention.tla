----------------------------- MODULE MCRetention ----------------------------
(* One event, two people, and a clock that runs past a purge of each row.  *)
EXTENDS Retention, TLC

CONSTANTS m1, m2, e1, a1, a2, a3

MCMembers     == {m1, m2}
MCEvents      == {e1}
MCAttendeeIds == {a1, a2, a3}

Symmetry == Permutations(MCMembers) \cup Permutations(MCAttendeeIds)
=============================================================================
