----------------------------- MODULE MCSyncEngine -----------------------------
(***************************************************************************)
(* SyncEngine for TLC: documents, sweepers and the symmetry between        *)
(* documents the central DMS treats alike.                                 *)
(***************************************************************************)
EXTENDS SyncEngine, TLC

CONSTANTS d1, d2, d3, r1

AllDocs == {d1, d2, d3}
TwoDocs == {d1, d2}
LastTwoRejected == {d2, d3}
FirstRejected == {d1}
OneRequest == {r1}
Nobody == {}

AllFaults == {"link", "cancel", "db", "stop"}
LinkOnly == {"link"}
LinkAndCancel == {"link", "cancel"}
StopOnly == {"stop"}
NoFaults == {}

RefusedAlike == Permutations(Rejected)
===============================================================================
