--------------------------- MODULE MCCommandLanes ---------------------------
(***************************************************************************)
(* Small instances of CommandLanes for TLC.                                *)
(***************************************************************************)
EXTENDS CommandLanes

CONSTANTS s1, s2, main, nested

\* Two sessions, and the lane of users' runs and that of runs sent by an agent.
TwoSessions == {s1, s2}
MainAndNested == {main, nested}
=============================================================================
