----------------------------- MODULE MCNodeStatus -----------------------------
(***************************************************************************)
(* NodeStatus for TLC.                                                     *)
(***************************************************************************)
EXTENDS NodeStatus

CONSTANTS d1, r1

OneDoc == {d1}
Nobody == {}
OneRequest == {r1}
AllFaults == {"link", "cancel", "db", "stop"}
===============================================================================
