---------------------------- MODULE MCEventOutbox -----------------------------
(***************************************************************************)
(* EventOutbox for TLC.                                                    *)
(***************************************************************************)
EXTENDS EventOutbox

CONSTANTS f1, f2, h1, h2, s1, s2, p1, p2

OneRef == {f1}
TwoRefs == {f1, f2}
TwoHandlers == {h1, h2}
OneHandler == {h1}
OneSweep == {s1}
TwoSweeps == {s1, s2}
OnePublisher == {p1}
TwoPublishers == {p1, p2}

AllFaults == {"stop", "cancel", "db", "broker"}
StopOnly == {"stop"}
AllButDb == {"stop", "cancel", "broker"}
NoFaults == {}
===============================================================================
