--------------------------- MODULE MCSessionStore ---------------------------
(* A small instance of SessionStore in which the four times are tight:     *)
(* SessionTTL is exactly TurnTime + StateTTL + ExchangeTime, and the clock *)
(* runs past the first eviction.  One sender has two message ids, so that  *)
(* a session that was evicted is followed by one with a new id or with the *)
(* same.                                                                   *)
EXTENDS SessionStore, FiniteSets, TLC

CONSTANTS s1, s2, i1, i2, i3

MCSenders    == {s1, s2}
MCSessionIds == {i1, i2, i3}
MCOwner      == [i \in MCSessionIds |-> IF i = i3 THEN s2 ELSE s1]
MCPlatforms  == {"linkedin", "github"}

(* Two outstanding links and one exchange at a time.                       *)
FewAtOnce == Cardinality(links) <= 2 /\ Cardinality(callbacks) <= 1

Symmetry == Permutations({i1, i2})
=============================================================================
