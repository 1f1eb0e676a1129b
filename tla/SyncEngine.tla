------------------------------ MODULE SyncEngine ------------------------------
(***************************************************************************)
(* The offline buffer and the sweeps that drain it to the central DMS      *)
(* (internal/sync/engine.go, internal/store, internal/dmsclient and the    *)
(* handlers that call them).                                               *)
(*                                                                         *)
(* A sweep is one call of Engine.RunOnce: it claims a batch, POSTs each    *)
(* document of it in turn and marks each one synced or failed.  The        *)
(* engine's ticker loop and every POST /v1/sync/run request run sweeps,    *)
(* concurrently.  Each statement of the store is one step: the Postgres    *)
(* store runs a single SQL statement, the memory store holds its mutex.    *)
(*                                                                         *)
(* Time is abstracted to the order in which claimable documents became     *)
(* available: due holds those whose available_at has passed, ahead their   *)
(* order.  sync_attempts only sets the length of a delay (BackoffDelay)    *)
(* and a log line, MAX_SYNC_ATTEMPTS only the latter: both are left out.   *)
(***************************************************************************)
EXTENDS Naturals, FiniteSets

CONSTANTS
    Docs,           \* documents the field may capture
    Engine,         \* the background sweeper
    Requests,       \* concurrent POST /v1/sync/run requests
    BatchSize,      \* SYNC_BATCH_SIZE
    SyncEnabled,    \* SYNC_ENABLED
    Backend,        \* "postgres" or "memory" (STORE_MODE)
    Rejected,       \* documents the central DMS answers with a non-2xx
    Faults,         \* what may go wrong: "link", "cancel", "db", "stop"
    MaxRequeues     \* bound: operator retries per document

ASSUME RequestsAssumption == Engine \notin Requests /\ IsFiniteSet(Requests)
ASSUME BatchSizeAssumption == BatchSize \in Nat \ {0}
ASSUME BoundsAssumption == MaxRequeues \in Nat
ASSUME RejectedAssumption == Rejected \subseteq Docs
ASSUME SyncEnabledAssumption == SyncEnabled \in BOOLEAN
\* The memory store has no connection to lose and does not outlive the process.
ASSUME BackendAssumption ==
    \/ Backend = "postgres" /\ Faults \subseteq {"link", "cancel", "db", "stop"}
    \/ Backend = "memory" /\ Faults \subseteq {"link", "cancel"}

Sweepers == {Engine} \cup Requests

VARIABLES
    status,         \* depot_documents.status, "absent" before the insert
    due,            \* claimable documents whose available_at has passed
    ahead,          \* ahead[d]: the due documents with an earlier available_at
    batch,          \* batch[w]: claimed by sweep w and not yet posted
    acked,          \* acked[w]: answered with a 2xx, not yet marked
    refused,        \* refused[w]: the POST returned an error, not yet marked
    cancelled,      \* requests whose client has gone: their context is done
    accepted,       \* documents the central DMS has accepted
    wire,           \* given up by the node, may still arrive at the DMS
    link,           \* the central DMS is reachable and healthy
    up,             \* the node's process is running
    requeues        \* operator retries of each document so far

buffer == <<status, due, ahead>>
sweeps == <<batch, acked, refused, cancelled>>
upstream == <<accepted, wire, link>>
vars == <<buffer, sweeps, upstream, up, requeues>>

Statuses == {"absent", "buffered", "syncing", "synced", "failed"}

TypeOK ==
    /\ status \in [Docs -> Statuses]
    /\ due \in SUBSET Docs
    /\ ahead \in [Docs -> SUBSET Docs]
    /\ batch \in [Sweepers -> SUBSET Docs]
    /\ acked \in [Sweepers -> SUBSET Docs]
    /\ refused \in [Sweepers -> SUBSET Docs]
    /\ cancelled \in SUBSET Requests
    /\ accepted \in SUBSET Docs
    /\ wire \in SUBSET Docs
    /\ link \in BOOLEAN
    /\ up \in BOOLEAN
    /\ requeues \in [Docs -> 0..MaxRequeues]

Init ==
    /\ status = [d \in Docs |-> "absent"]
    /\ due = {}
    /\ ahead = [d \in Docs |-> {}]
    /\ batch = [w \in Sweepers |-> {}]
    /\ acked = [w \in Sweepers |-> {}]
    /\ refused = [w \in Sweepers |-> {}]
    /\ cancelled = {}
    /\ accepted = {}
    /\ wire = {}
    /\ link = TRUE
    /\ up = TRUE
    /\ requeues = [d \in Docs |-> 0]

-------------------------------------------------------------------------------
(* The claim order: available_at, abstracted to a strict order on due.     *)

\* Mutant: available_at goes backwards, the newest document is claimed first.
ReleaseFirst(d) ==
    /\ due' = due \cup {d}
    /\ ahead' = [x \in Docs |-> IF x = d THEN {}
                              ELSE IF x \in due THEN ahead[x] \cup {d} ELSE {}]

\* available_at = NOW(): d becomes due, behind every document that already is.
Release(d) ==
    /\ due' = due \cup {d}
    /\ ahead' = [x \in Docs |-> IF x = d THEN due \ {d} ELSE ahead[x] \ {d}]

\* The documents of S are no longer claimable, or only at a later time.
Withdraw(S) ==
    /\ due' = due \ S
    /\ ahead' = [x \in Docs |-> IF x \in S THEN {} ELSE ahead[x] \ S]

\* Mutant: the claim's WHERE clause leaves out failed documents.
OldestBuffered(skipped) ==
    {d \in due \ skipped : /\ status[d] = "buffered"
                          /\ Cardinality(ahead[d] \ skipped) < BatchSize}

\* The first BatchSize due documents that are not in skipped.
Oldest(skipped) ==
    {d \in due \ skipped : Cardinality(ahead[d] \ skipped) < BatchSize}

-------------------------------------------------------------------------------
(* What a sweep holds.                                                     *)

Held(w) == batch[w] \cup acked[w] \cup refused[w]
Holders(d) == {w \in Sweepers : d \in Held(w)}

\* Rows a concurrent MarkSynced or MarkFailed may have locked.
Locked == UNION {acked[w] \cup refused[w] : w \in Sweepers}

\* A claim on a Postgres store skips locked rows; one on the memory store
\* fills the batch with failed documents whose backoff has not elapsed.
ClaimResults ==
    IF Backend = "postgres"
      THEN {Oldest(skipped) : skipped \in SUBSET (due \cap Locked)}
      ELSE LET waiting == {d \in Docs : status[d] = "failed"} \ due
               room == BatchSize - Cardinality(Oldest({}))
           IN {Oldest({}) \cup T : T \in {T \in SUBSET waiting :
                 \/ Cardinality(T) = room
                 \/ T = waiting /\ Cardinality(T) < room}}

\* Mutant: the claim sets the status but leaves the row claimable.
ClaimLeavesDue(S) ==
    /\ status' = [d \in Docs |-> IF d \in S THEN "syncing" ELSE status[d]]
    /\ UNCHANGED <<due, ahead>>

\* The rows the claim statement updates.
Claim(S) ==
    /\ status' = [d \in Docs |-> IF d \in S THEN "syncing" ELSE status[d]]
    /\ Withdraw(S)

\* RunSync answers 409 when sync is disabled; the engine's loop does not ask.
MaySweep(w) ==
    /\ up
    /\ Held(w) = {}
    /\ w \in Requests => SyncEnabled

-------------------------------------------------------------------------------
(* Capture, retry and the sweep, one action per store statement or POST.   *)

CreateDocument(d) ==
    /\ up
    /\ status[d] = "absent"
    /\ status' = [status EXCEPT ![d] = "buffered"]
    /\ Release(d)
    /\ UNCHANGED <<sweeps, upstream, up, requeues>>

ClaimPending(w) ==
    /\ MaySweep(w)
    /\ \E S \in ClaimResults \ {{}} :
         /\ Claim(S)
         /\ batch' = [batch EXCEPT ![w] = S]
    /\ UNCHANGED <<acked, refused, cancelled, upstream, up, requeues>>

\* The claim commits, but its rows never reach the sweep: the client goes away
\* or the connection breaks while they are read, and RunOnce returns the error.
ClaimLost(w) ==
    /\ Backend = "postgres"
    /\ MaySweep(w)
    /\ "db" \in Faults \/ ("cancel" \in Faults /\ w \in Requests)
    /\ \E S \in ClaimResults \ {{}} : Claim(S)
    /\ UNCHANGED <<sweeps, upstream, up, requeues>>

\* The loop body of RunOnce: one document at a time, posted and then marked.
Posting(w, d) ==
    /\ up
    /\ d \in batch[w]
    /\ acked[w] \cup refused[w] = {}
    /\ batch' = [batch EXCEPT ![w] = @ \ {d}]
    /\ UNCHANGED <<buffer, cancelled, link, up, requeues>>

\* Mutant: a 2xx whose body carries no id is taken for a failure.
PostAcceptedUnread(w, d) ==
    /\ Posting(w, d)
    /\ link /\ w \notin cancelled /\ d \notin Rejected
    /\ refused' = [refused EXCEPT ![w] = {d}]
    /\ accepted' = accepted \cup {d}
    /\ UNCHANGED <<acked, wire>>

PostAccepted(w, d) ==
    /\ Posting(w, d)
    /\ link /\ w \notin cancelled /\ d \notin Rejected
    /\ acked' = [acked EXCEPT ![w] = {d}]
    /\ accepted' = accepted \cup {d}
    /\ UNCHANGED <<refused, wire>>

PostRejected(w, d) ==
    /\ Posting(w, d)
    /\ link /\ w \notin cancelled /\ d \in Rejected
    /\ refused' = [refused EXCEPT ![w] = {d}]
    /\ UNCHANGED <<acked, accepted, wire>>

\* Mutant: the error of the request is dropped.
PostFailsUnseen(w, d) ==
    /\ Posting(w, d)
    /\ ~link \/ w \in cancelled
    /\ acked' = [acked EXCEPT ![w] = {d}]
    /\ UNCHANGED <<refused, accepted, wire>>

\* No token, no connection, a 5xx or a context that is already done.
PostFails(w, d) ==
    /\ Posting(w, d)
    /\ ~link \/ w \in cancelled
    /\ refused' = [refused EXCEPT ![w] = {d}]
    /\ UNCHANGED <<acked, accepted, wire>>

\* The request left the node; its answer is lost or comes after the timeout.
PostLost(w, d) ==
    /\ Posting(w, d)
    /\ ~link \/ w \in cancelled
    /\ d \notin Rejected
    /\ refused' = [refused EXCEPT ![w] = {d}]
    /\ wire' = wire \cup {d}
    /\ UNCHANGED <<acked, accepted>>

\* Mutant: the memory store refuses a context that is done as well.
StoreRefusesDone(w) == w \in cancelled

\* Statements of a Postgres store fail on a context that is done.
StoreRefuses(w) == Backend = "postgres" /\ w \in cancelled

\* Sweep w is through with d; its context ends with its last document.
Finish(w, d) ==
    /\ acked' = [acked EXCEPT ![w] = @ \ {d}]
    /\ refused' = [refused EXCEPT ![w] = @ \ {d}]
    /\ cancelled' = IF batch[w] = {} THEN cancelled \ {w} ELSE cancelled
    /\ UNCHANGED <<batch, upstream, up, requeues>>

\* Mutant: the row is marked but a retried one stays claimable.
MarkSyncedStaysDue(w, d) ==
    /\ up /\ d \in acked[w] /\ ~StoreRefuses(w)
    /\ status' = [status EXCEPT ![d] = "synced"]
    /\ UNCHANGED <<due, ahead>>
    /\ Finish(w, d)

MarkSynced(w, d) ==
    /\ up /\ d \in acked[w] /\ ~StoreRefuses(w)
    /\ status' = [status EXCEPT ![d] = "synced"]
    /\ Withdraw({d})
    /\ Finish(w, d)

\* Mutant: a status outside the lifecycle.
MarkFailedOddStatus(w, d) ==
    /\ up /\ d \in refused[w] /\ ~StoreRefuses(w)
    /\ status' = [status EXCEPT ![d] = "error"]
    /\ Withdraw({d})
    /\ Finish(w, d)

MarkFailed(w, d) ==
    /\ up /\ d \in refused[w] /\ ~StoreRefuses(w)
    /\ status' = [status EXCEPT ![d] = "failed"]
    /\ Withdraw({d})
    /\ Finish(w, d)

\* The store returns an error: RunOnce logs or ignores it and goes on.
MarkLost(w, d) ==
    /\ up /\ d \in acked[w] \cup refused[w]
    /\ StoreRefuses(w) \/ "db" \in Faults
    /\ Finish(w, d)
    /\ UNCHANGED buffer

\* POST /v1/documents/:id/retry: ResetForRetry does not look at the status.
ResetForRetry(d) ==
    /\ up
    /\ status[d] # "absent"
    /\ requeues[d] < MaxRequeues
    /\ status' = [status EXCEPT ![d] = "buffered"]
    /\ Release(d)
    /\ requeues' = [requeues EXCEPT ![d] = @ + 1]
    /\ UNCHANGED <<sweeps, upstream, up>>

-------------------------------------------------------------------------------
(* The environment: time, clients, the link and the process itself.        *)

\* Mutant: documents in flight are released too once their time has come.
BackoffElapsesInFlight(d) ==
    /\ status[d] \in {"failed", "syncing"} /\ d \notin due
    /\ Release(d)
    /\ UNCHANGED <<status, sweeps, upstream, up, requeues>>

BackoffElapses(d) ==
    /\ status[d] = "failed" /\ d \notin due
    /\ Release(d)
    /\ UNCHANGED <<status, sweeps, upstream, up, requeues>>

\* The client of POST /v1/sync/run disconnects while its sweep runs.
CancelRequest(w) ==
    /\ "cancel" \in Faults
    /\ up /\ Held(w) # {} /\ w \notin cancelled
    /\ cancelled' = cancelled \cup {w}
    /\ UNCHANGED <<buffer, batch, acked, refused, upstream, up, requeues>>

LateArrival(d) ==
    /\ d \in wire
    /\ wire' = wire \ {d}
    /\ accepted' = accepted \cup {d}
    /\ UNCHANGED <<buffer, sweeps, link, up, requeues>>

LinkChanges ==
    /\ "link" \in Faults
    /\ link' = ~link
    /\ UNCHANGED <<buffer, sweeps, accepted, wire, up, requeues>>

\* A crash, or a shutdown: main cancels the engine's context and returns
\* without waiting for the sweep.
Stop ==
    /\ "stop" \in Faults
    /\ up
    /\ up' = FALSE
    /\ batch' = [w \in Sweepers |-> {}]
    /\ acked' = [w \in Sweepers |-> {}]
    /\ refused' = [w \in Sweepers |-> {}]
    /\ cancelled' = {}
    /\ UNCHANGED <<buffer, upstream, requeues>>

\* Mutant: a boot puts every document it finds back into the queue.
RestartRebuffers ==
    /\ ~up
    /\ up' = TRUE
    /\ status' = [d \in Docs |-> IF status[d] = "absent" THEN "absent" ELSE "buffered"]
    /\ due' = {d \in Docs : status[d] # "absent"}
    /\ UNCHANGED <<ahead, sweeps, upstream, requeues>>

Restart ==
    /\ ~up
    /\ up' = TRUE
    /\ UNCHANGED <<buffer, sweeps, upstream, requeues>>

-------------------------------------------------------------------------------

Post(w, d) ==
    \/ PostAccepted(w, d) \/ PostRejected(w, d)
    \/ PostFails(w, d) \/ PostLost(w, d)

Mark(w, d) == MarkSynced(w, d) \/ MarkFailed(w, d) \/ MarkLost(w, d)

Next ==
    \/ \E d \in Docs : CreateDocument(d) \/ ResetForRetry(d)
    \/ \E w \in Sweepers : ClaimPending(w) \/ ClaimLost(w)
    \/ \E w \in Sweepers, d \in Docs : Post(w, d) \/ Mark(w, d)
    \/ \E w \in Requests : CancelRequest(w)
    \/ \E d \in Docs : BackoffElapses(d) \/ LateArrival(d)
    \/ LinkChanges \/ Stop \/ Restart

Spec == Init /\ [][Next]_vars

\* A running sweep goes on (client timeout, context), the ticker keeps
\* calling RunOnce, backoffs elapse, and the process is restarted.
Fairness ==
    /\ WF_vars(Restart)
    /\ WF_vars(ClaimPending(Engine))
    /\ \A w \in Sweepers : WF_vars(\E d \in Docs : Post(w, d) \/ Mark(w, d))
    /\ \A d \in Docs : WF_vars(BackoffElapses(d))

FairSpec == Spec /\ Fairness

-------------------------------------------------------------------------------
(* Safety.                                                                 *)

\* "synced" means what models/document.go says: the central DMS accepted the
\* document, whatever crashes, retries or lost answers came before the mark.
SyncedIsAccepted == \A d \in Docs : status[d] = "synced" => d \in accepted

\* Sweeps do not post the same document side by side: FOR UPDATE SKIP LOCKED
\* gives a document to one sweep, and only an operator's retry of a document
\* in flight can give it to one more.
HoldersBounded ==
    \A d \in Docs : Cardinality(Holders(d)) <= 1 + requeues[d]

\* A document nobody retried is "syncing" for as long as a sweep holds it.
HeldIsSyncing ==
    \A d \in Docs, w \in Sweepers :
        d \in Held(w) /\ requeues[d] = 0 => status[d] = "syncing"

\* The buffered documents can all be claimed at once, and of the others only
\* failed ones ever can: the claim's WHERE clause and the available_at that
\* the insert, the retry and the marks leave behind agree.
BufferedIsDue ==
    /\ \A d \in Docs : status[d] = "buffered" => d \in due
    /\ \A d \in due : status[d] \in {"buffered", "failed"}

\* A document in "syncing" is in flight: a running sweep holds it and will
\* mark it.  Nothing else takes a document out of that status.
SyncingIsHeld ==
    \A d \in Docs : status[d] = "syncing" => Holders(d) # {}

(* The inductive invariant behind these, beyond their conjunction: what is   *)
(* on its way was captured, a 2xx was an acceptance, a sweep holds a         *)
(* document in one place, and a document outside "syncing" counts as one     *)
(* more holder, the one its next claim will make.                            *)

CapturedFirst ==
    \A d \in Docs : status[d] = "absent" =>
        requeues[d] = 0 /\ d \notin accepted \cup wire

AckedIsAccepted == \A w \in Sweepers : acked[w] \subseteq accepted

HeldOnce == \A w \in Sweepers : batch[w] \cap (acked[w] \cup refused[w]) = {}

Claimants(d) ==
    Cardinality(Holders(d)) + (IF status[d] = "syncing" THEN 0 ELSE 1)

ClaimantsBounded == \A d \in Docs : Claimants(d) <= 1 + requeues[d]

IInv ==
    /\ TypeOK
    /\ BufferedIsDue
    /\ CapturedFirst
    /\ AckedIsAccepted
    /\ SyncedIsAccepted
    /\ HeldOnce
    /\ ClaimantsBounded

(* Where every claim reaches its sweep and every sweep its marks: the memory *)
(* store, or a Postgres store whose only fault is the link.                  *)
ClaimsSurvive == Backend = "memory" \/ Faults \subseteq {"link"}

CancelsOnlyIfTheyMay == "cancel" \notin Faults => cancelled = {}

(* What a step may never do.                                               *)

\* Once synced, a document that no operator retried is never sent, failed or
\* buffered again: a claim, a late mark and a crash all leave it alone.
SyncedIsFinal ==
    [][\A d \in Docs :
         status[d] = "synced" /\ requeues'[d] = 0 => status'[d] = "synced"]_vars

\* A sweep marks a document that is still in flight and in no other sweep's hands,
\* unless an operator retried it: no mark overwrites another one's outcome.
MarkDecidesAlone ==
    [][\A w \in Sweepers, d \in Docs :
         (MarkSynced(w, d) \/ MarkFailed(w, d)) /\ requeues[d] = 0 =>
             status[d] = "syncing" /\ Holders(d) = {w}]_vars

\* How often a document may still be marked synced if nobody retries it again:
\* once by each sweep that holds it, once more if a claim may yet take it.
Chances(d) ==
    Cardinality(Holders(d)) + (IF status[d] \in {"syncing", "synced"} THEN 0 ELSE 1)

\* A document, and its synced event, is not marked more often than once plus once
\* per operator's retry: a mark uses up one of the document's chances, and of all
\* claims, late marks, backoffs, lost answers and crashes only a retry adds one.
MarksUseChances ==
    [][\A d \in Docs :
         Chances(d)' + (IF \E w \in Sweepers : MarkSynced(w, d) THEN 1 ELSE 0)
             <= Chances(d) + (requeues'[d] - requeues[d])]_vars

\* A document reported accepted is not reported failed next.
SyncedNeverTurnsFailed ==
    [][\A d \in Docs : status[d] = "synced" => status'[d] # "failed"]_vars

(* Liveness.                                                               *)

\* Once the process and the link stay up and clients no longer disconnect, every
\* captured document that the central DMS does not refuse and no fault strands
\* becomes synced, in spite of refused neighbours, full batches and claims of
\* the failed and cancelled sweeps.
Delivered ==
    <>[](up /\ link /\ cancelled = {}) => \A d \in Docs \ Rejected :
        [](status[d] = "syncing" => Holders(d) # {}) =>
            (status[d] # "absent" ~> status[d] = "synced")

\* A due document is taken by some claim: no batch limit, stream of failing
\* documents or concurrent request keeps it waiting for ever.
NoStarvation == <>[]up => \A d \in Docs : d \in due ~> d \notin due

\* After the last crash and outage the buffer drains whatever else goes wrong:
\* what is not synced in the end is a claim that a fault left in "syncing".
DrainsOrStrands ==
    <>[](up /\ link) => \A d \in Docs \ Rejected :
                            <>[](status[d] \in {"absent", "syncing", "synced"})

\* After the last crash no document stays claimed by a sweep that is gone.
CrashReleases ==
    <>[]up => \A d \in Docs : status[d] = "syncing" ~> status[d] # "syncing"

-------------------------------------------------------------------------------
(* Refinement: the node keeps what DocumentDelivery promises.              *)

Delivery == INSTANCE DocumentDelivery WITH
    captured <- {d \in Docs : status[d] # "absent"},
    confirmed <- {d \in Docs : status[d] = "synced"},
    reopened <- {d \in Docs : requeues[d] > 0}

ImplementsDelivery == Delivery!Spec
===============================================================================
