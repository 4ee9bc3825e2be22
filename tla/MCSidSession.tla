--------------------------- MODULE MCSidSession ---------------------------
(* SidSession for TLC: its state space is finite, so there is no bound.    *)
EXTENDS SidSession
=============================================================================
