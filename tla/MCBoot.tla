------------------------------- MODULE MCBoot -------------------------------
(* Two turns and a status request around one start and one shutdown.       *)
EXTENDS Boot

CONSTANTS t1, t2, get, p1, p2, p3, p4

MCTurns    == {t1, t2}
MCStatuses == {get}
MCPools    == {p1, p2, p3, p4}
=============================================================================
