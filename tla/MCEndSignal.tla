----------------------------- MODULE MCEndSignal -----------------------------
(* Small instances of EndSignal.                                            *)
EXTENDS EndSignal

\* One wait per call on WIN, where more lose their count; two on UNIX.
OneOnWin == [p \in Platforms |-> IF p = "WIN" THEN 1 ELSE 2]
Two == [p \in Platforms |-> 2]
=============================================================================
