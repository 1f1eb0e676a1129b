--------------------------- MODULE DocumentDelivery ---------------------------
(***************************************************************************)
(* What the depot node promises the field about a captured document,       *)
(* without sweeps, claims, queues or crashes:                              *)
(*                                                                         *)
(*   - a captured document is never lost;                                  *)
(*   - the node reports it confirmed ("synced") only after the central     *)
(*     DMS accepted it;                                                    *)
(*   - a confirmation is withdrawn only for a document that an operator    *)
(*     asked to send again.                                                *)
(*                                                                         *)
(* SyncEngine implements this specification (SyncEngine!Delivery).         *)
(***************************************************************************)

CONSTANT Docs           \* the documents the field may capture

VARIABLES
    captured,           \* documents the node has buffered
    accepted,           \* documents the central DMS has accepted
    confirmed,          \* documents the node reports as synced
    reopened            \* documents an operator has requeued

vars == <<captured, accepted, confirmed, reopened>>

Init ==
    /\ captured = {}
    /\ accepted = {}
    /\ confirmed = {}
    /\ reopened = {}

Capture(d) ==
    /\ d \notin captured
    /\ captured' = captured \cup {d}
    /\ UNCHANGED <<accepted, confirmed, reopened>>

\* The central DMS takes the document; repeating it changes nothing there.
Accept(d) ==
    /\ d \in captured
    /\ accepted' = accepted \cup {d}
    /\ UNCHANGED <<captured, confirmed, reopened>>

Confirm(d) ==
    /\ d \in accepted
    /\ confirmed' = confirmed \cup {d}
    /\ UNCHANGED <<captured, accepted, reopened>>

\* An operator requeues the document, whatever the node reported of it.
Reopen(d) ==
    /\ d \in captured
    /\ reopened' = reopened \cup {d}
    /\ confirmed' = confirmed \ {d}
    /\ UNCHANGED <<captured, accepted>>

\* A resent document is reported as not synced again.
Withdraw(d) ==
    /\ d \in reopened
    /\ confirmed' = confirmed \ {d}
    /\ UNCHANGED <<captured, accepted, reopened>>

Next ==
    \E d \in Docs :
        Capture(d) \/ Accept(d) \/ Confirm(d) \/ Reopen(d) \/ Withdraw(d)

Spec == Init /\ [][Next]_vars
===============================================================================
