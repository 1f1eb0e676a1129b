----------------------------- MODULE EventDelivery -----------------------------
(***************************************************************************)
(* What consumers of iag.operations may rely on about the depot.* events,  *)
(* without statements, leases, batches, publishers or crashes:             *)
(*                                                                         *)
(*   - an event is promised (queued) only for a change that happened, and  *)
(*     never a second time;                                                *)
(*   - what is promised stays promised: it is announced, as often as it    *)
(*     takes, and settled only after it was announced;                     *)
(*   - what is not promised is not announced.                              *)
(*                                                                         *)
(* Not every change is promised: between a change and its event the node   *)
(* may crash.  EventOutbox implements this specification.                  *)
(***************************************************************************)

CONSTANTS
    Refs,               \* references the field supplies
    Sweeps              \* what may record a document as synced

\* A document was captured, or a sweep recorded it as synced.
Events == {<<"buffered", f, "capture">> : f \in Refs}
          \cup {<<"synced", f, w>> : f \in Refs, w \in Sweeps}

VARIABLES
    happened,           \* changes made to the buffer
    promised,           \* events queued so far
    announced,          \* events that reached Kafka at least once
    settled             \* events that will not be sent again

vars == <<happened, promised, announced, settled>>

Init ==
    /\ happened = {}
    /\ promised = {}
    /\ announced = {}
    /\ settled = {}

\* A change is made once; a document is captured before it is synced.
Happen(e) ==
    /\ e \notin happened
    /\ e[1] = "synced" => <<"buffered", e[2], "capture">> \in happened
    /\ happened' = happened \cup {e}
    /\ UNCHANGED <<promised, announced, settled>>

Promise(e) ==
    /\ e \in happened \ promised
    /\ promised' = promised \cup {e}
    /\ UNCHANGED <<happened, announced, settled>>

\* Announcing an event again changes nothing for who treats it as one.
Announce(e) ==
    /\ e \in promised
    /\ announced' = announced \cup {e}
    /\ UNCHANGED <<happened, promised, settled>>

Settle(e) ==
    /\ e \in announced
    /\ settled' = settled \cup {e}
    /\ UNCHANGED <<happened, promised, announced>>

Next == \E e \in Events : Happen(e) \/ Promise(e) \/ Announce(e) \/ Settle(e)

Spec == Init /\ [][Next]_vars
===============================================================================
