---------------------------- MODULE CaptureReceipts ----------------------------
(***************************************************************************)
(* What a field client may rely on about its captures, without settings,   *)
(* tokens, connections, shutdowns or crashes:                              *)
(*                                                                         *)
(*   - a capture is acknowledged (201) once, and only while its document   *)
(*     is in the buffer;                                                   *)
(*   - consumers are told of it only while it is in the buffer;            *)
(*   - a durable node never loses a document; another one may lose what it *)
(*     has, all at once.                                                   *)
(*                                                                         *)
(* A document may also be kept, or announced, without an acknowledgement:  *)
(* the client then captures it again.  NodeProcess implements this         *)
(* specification.                                                          *)
(***************************************************************************)

CONSTANT Requests           \* captures, each of a document of its own

VARIABLES
    durable,                \* the buffer outlives the process
    stored,                 \* documents in the buffer
    announced,              \* documents consumers are told of
    acked                   \* captures that were acknowledged

vars == <<durable, stored, announced, acked>>

Init ==
    /\ durable \in BOOLEAN
    /\ stored = {} /\ announced = {} /\ acked = {}

Store(r) ==
    /\ stored' = stored \cup {r}
    /\ UNCHANGED <<durable, announced, acked>>

Announce(r) ==
    /\ r \in stored
    /\ announced' = announced \cup {r}
    /\ UNCHANGED <<durable, stored, acked>>

Acknowledge(r) ==
    /\ r \in stored \ acked
    /\ acked' = acked \cup {r}
    /\ UNCHANGED <<durable, stored, announced>>

Forget ==
    /\ ~durable
    /\ stored' = {}
    /\ UNCHANGED <<durable, announced, acked>>

Next ==
    \/ \E r \in Requests : Store(r) \/ Announce(r) \/ Acknowledge(r)
    \/ Forget

Spec == Init /\ [][Next]_vars
===============================================================================
