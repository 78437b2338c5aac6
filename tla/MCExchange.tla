----------------------------- MODULE MCExchange -----------------------------
(* Two sessions behind one address; the first has been sent a code twice.  *)
EXTENDS Exchange

CONSTANTS cb1, cb2, s1, s2, c1, c2, home

MCCallbacks == {cb1, cb2}
MCKeys      == {s1, s2}
MCCodes     == {c1, c2}

MCSessionOf(c) == IF c = c1 THEN s1 ELSE s2
MCRemoteOf(c)  == home
=============================================================================
