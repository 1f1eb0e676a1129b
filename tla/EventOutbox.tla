----------------------------- MODULE EventOutbox ------------------------------
(***************************************************************************)
(* Capture and the depot.* events (internal/handlers CaptureDocument,      *)
(* internal/events, internal/outbox).                                      *)
(*                                                                         *)
(* A capture inserts a document unless its reference is taken, reads it    *)
(* back and enqueues a "buffered" event; a sweep marks a document synced   *)
(* and enqueues a "synced" event.  Each of these is a statement of its     *)
(* own.  The publisher leases the due outbox rows, writes each to Kafka    *)
(* and marks it.  A batch takes every due row: LIMIT 32 is not reached.    *)
(*                                                                         *)
(* The sweeps are abstracted to what SyncEngine shows of them: a document  *)
(* is marked synced once, and once more for every operator's retry, each   *)
(* time by another sweep (SyncEngine's MarksUseChances).                   *)
(***************************************************************************)
EXTENDS Naturals, FiniteSets

CONSTANTS
    Refs,           \* references the field supplies, one document each
    Handlers,       \* concurrent POST /v1/documents requests
    Sweeps,         \* the sweeps, which publish the synced events
    Publishers,     \* outbox publishers, one per running process
    Faults,         \* what may go wrong: "stop", "cancel", "db", "broker"
    MaxRequeues,    \* bound: operator retries per document
    WriteCap        \* bound: Kafka writes of a row are counted up to this value

ASSUME HandlersAssumption == Sweeps \cap Handlers = {}
ASSUME FaultsAssumption == Faults \subseteq {"stop", "cancel", "db", "broker"}
ASSUME BoundsAssumption == WriteCap \in Nat \ {0} /\ MaxRequeues \in Nat

Writers == Handlers \cup Sweeps

\* A row of depot_event_outbox: the document it is about and who enqueued it, a
\* handler a buffered event, a sweep a synced one.
Rows == [ref : Refs, by : Writers]

VARIABLES
    stored,         \* references with a row in depot_documents
    synced,         \* synced[w]: those sweep w has marked synced
    requeues,       \* operator retries of each document so far
    inserted,       \* inserted[h]: inserted by handler h, not yet read back
    owes,           \* owes[w]: changed by w, event not yet enqueued
    pending,        \* outbox rows whose dispatched_at is NULL
    dispatched,     \* outbox rows whose dispatched_at is set
    available,      \* pending rows whose available_at has passed
    claimed,        \* claimed[p]: leased by publisher p, not yet written
    written,        \* written[p]: written to Kafka, not yet marked
    refused,        \* refused[p]: Kafka returned an error, not yet marked
    writes,         \* writes[r]: times row r was written to Kafka, saturating
    broker,         \* Kafka is reachable
    up              \* the process is running

changes == <<stored, synced, requeues, inserted, owes>>
outbox == <<pending, dispatched, available>>
drain == <<claimed, written, refused>>
vars == <<changes, outbox, drain, writes, broker, up>>

TypeOK ==
    /\ stored \in SUBSET Refs
    /\ synced \in [Sweeps -> SUBSET Refs]
    /\ requeues \in [Refs -> 0..MaxRequeues]
    /\ inserted \in [Handlers -> SUBSET Refs]
    /\ owes \in [Writers -> SUBSET Refs]
    /\ pending \in SUBSET Rows
    /\ dispatched \in SUBSET Rows
    /\ available \in SUBSET Rows
    /\ claimed \in [Publishers -> SUBSET Rows]
    /\ written \in [Publishers -> SUBSET Rows]
    /\ refused \in [Publishers -> SUBSET Rows]
    /\ writes \in [Rows -> 0..WriteCap]
    /\ broker \in BOOLEAN
    /\ up \in BOOLEAN

Init ==
    /\ stored = {}
    /\ synced = [w \in Sweeps |-> {}]
    /\ requeues = [f \in Refs |-> 0]
    /\ inserted = [h \in Handlers |-> {}]
    /\ owes = [w \in Writers |-> {}]
    /\ pending = {} /\ dispatched = {} /\ available = {}
    /\ claimed = [p \in Publishers |-> {}]
    /\ written = [p \in Publishers |-> {}]
    /\ refused = [p \in Publishers |-> {}]
    /\ writes = [r \in Rows |-> 0]
    /\ broker = TRUE /\ up = TRUE

-------------------------------------------------------------------------------
(* Changes to documents and the events they owe.                           *)

\* Mutant: the insert does not look for the reference.
CaptureInsertBlindly(h, f) ==
    /\ up /\ inserted[h] \cup owes[h] = {}
    /\ stored' = stored \cup {f}
    /\ inserted' = [inserted EXCEPT ![h] = {f}]
    /\ UNCHANGED <<synced, requeues, owes, outbox, drain, writes, broker, up>>

\* INSERT ... ON CONFLICT DO NOTHING.  A replay of a stored reference inserts
\* nothing, is answered with the stored row and publishes nothing.
CaptureInsert(h, f) ==
    /\ up /\ inserted[h] \cup owes[h] = {}
    /\ f \notin stored
    /\ stored' = stored \cup {f}
    /\ inserted' = [inserted EXCEPT ![h] = {f}]
    /\ UNCHANGED <<synced, requeues, owes, outbox, drain, writes, broker, up>>

\* Mutant: the event is keyed by its request.
CaptureReloadWrongKey(h, f) ==
    /\ up /\ f \in inserted[h]
    /\ inserted' = [inserted EXCEPT ![h] = @ \ {f}]
    /\ owes' = [owes EXCEPT ![h] = {h}]
    /\ UNCHANGED <<stored, synced, requeues, outbox, drain, writes, broker, up>>

\* The inserted row is read back: created = true.
CaptureReload(h, f) ==
    /\ up /\ f \in inserted[h]
    /\ inserted' = [inserted EXCEPT ![h] = @ \ {f}]
    /\ owes' = [owes EXCEPT ![h] = {f}]
    /\ UNCHANGED <<stored, synced, requeues, outbox, drain, writes, broker, up>>

\* Reading back fails: the handler answers 500 and the insert stands.
CaptureFails(h, f) ==
    /\ up /\ f \in inserted[h]
    /\ Faults \cap {"cancel", "db"} # {}
    /\ inserted' = [inserted EXCEPT ![h] = @ \ {f}]
    /\ UNCHANGED <<stored, synced, requeues, owes, outbox, drain, writes, broker, up>>

\* POST /v1/documents/:id/retry puts the document up for another sweep.
ResetForRetry(f) ==
    /\ up /\ f \in stored
    /\ requeues[f] < MaxRequeues
    /\ requeues' = [requeues EXCEPT ![f] = @ + 1]
    /\ UNCHANGED <<stored, synced, inserted, owes, outbox, drain, writes, broker, up>>

MarkersOf(f) == {w \in Sweeps : f \in synced[w]}

\* Mutant: the event is published before, and without, the mark.
MarkSyncedAnnouncesFirst(w, f) ==
    /\ up /\ f \in stored \ synced[w]
    /\ Cardinality(MarkersOf(f)) <= requeues[f]
    /\ owes' = [owes EXCEPT ![w] = @ \cup {f}]
    /\ UNCHANGED <<stored, synced, requeues, inserted, outbox, drain, writes, broker, up>>

\* A sweep marks a document.  The UPDATE would not refuse another mark: that one
\* takes another sweep and an operator's retry is what SyncEngine shows.
MarkSynced(w, f) ==
    /\ up /\ f \in stored \ synced[w]
    /\ Cardinality(MarkersOf(f)) <= requeues[f]
    /\ synced' = [synced EXCEPT ![w] = @ \cup {f}]
    /\ owes' = [owes EXCEPT ![w] = @ \cup {f}]
    /\ UNCHANGED <<stored, requeues, inserted, outbox, drain, writes, broker, up>>

Enqueue(w, f) ==
    /\ up /\ f \in owes[w]
    /\ LET r == [ref |-> f, by |-> w] IN
         /\ pending' = pending \cup {r}
         /\ available' = available \cup {r}
    /\ owes' = [owes EXCEPT ![w] = @ \ {f}]
    /\ UNCHANGED <<stored, synced, requeues, inserted, dispatched, drain, writes, broker, up>>

\* Publish logs the error of Enqueue and returns nil.
EnqueueFails(w, f) ==
    /\ up /\ f \in owes[w]
    /\ Faults \cap {"cancel", "db"} # {}
    /\ owes' = [owes EXCEPT ![w] = @ \ {f}]
    /\ UNCHANGED <<stored, synced, requeues, inserted, outbox, drain, writes, broker, up>>

-------------------------------------------------------------------------------
(* The publisher.                                                          *)

Idle(p) == claimed[p] \cup written[p] \cup refused[p] = {}

\* Mutant: a claim takes its rows out of the table.
ClaimBatchDeletes(p) ==
    /\ up /\ Idle(p) /\ available # {}
    /\ claimed' = [claimed EXCEPT ![p] = available]
    /\ available' = {}
    /\ pending' = pending \ available
    /\ UNCHANGED <<changes, dispatched, written, refused, writes, broker, up>>

ClaimBatch(p) ==
    /\ up /\ Idle(p) /\ available # {}
    /\ claimed' = [claimed EXCEPT ![p] = available]
    /\ available' = {}
    /\ UNCHANGED <<changes, pending, dispatched, written, refused, writes, broker, up>>

\* The lease commits but its rows do not reach the publisher.
ClaimLost(p) ==
    /\ "db" \in Faults
    /\ up /\ Idle(p) /\ available # {}
    /\ available' = {}
    /\ UNCHANGED <<changes, pending, dispatched, drain, writes, broker, up>>

\* The lease of a second, or the delay after a failure, has passed.
AvailableAgain(r) ==
    /\ r \in pending \ available
    /\ available' = available \cup {r}
    /\ UNCHANGED <<changes, pending, dispatched, drain, writes, broker, up>>

Dispatching(p, r) ==
    /\ up /\ r \in claimed[p]
    /\ written[p] \cup refused[p] = {}
    /\ claimed' = [claimed EXCEPT ![p] = @ \ {r}]
    /\ UNCHANGED <<changes, outbox, broker, up>>

Write(r) == writes' = [writes EXCEPT ![r] = IF @ < WriteCap THEN @ + 1 ELSE @]

\* Mutant: the publisher runs without a writer, DispatchOutbox returns nil.
DispatchOutboxDisabled(p, r) ==
    /\ Dispatching(p, r)
    /\ written' = [written EXCEPT ![p] = {r}]
    /\ UNCHANGED <<refused, writes>>

DispatchOutbox(p, r) ==
    /\ Dispatching(p, r)
    /\ broker
    /\ Write(r)
    /\ written' = [written EXCEPT ![p] = {r}]
    /\ UNCHANGED refused

\* Mutant: an error of the writer is swallowed.
DispatchFailsSilently(p, r) ==
    /\ Dispatching(p, r)
    /\ ~broker
    /\ written' = [written EXCEPT ![p] = {r}]
    /\ UNCHANGED <<refused, writes>>

DispatchFails(p, r) ==
    /\ Dispatching(p, r)
    /\ ~broker
    /\ refused' = [refused EXCEPT ![p] = {r}]
    /\ UNCHANGED <<written, writes>>

\* Kafka appends the message, its acknowledgement is lost.
DispatchUnacked(p, r) ==
    /\ Dispatching(p, r)
    /\ ~broker
    /\ Write(r)
    /\ refused' = [refused EXCEPT ![p] = {r}]
    /\ UNCHANGED written

\* Mutant: dispatched_at is not set.
MarkDispatchedForgets(p, r) ==
    /\ up /\ r \in written[p]
    /\ written' = [written EXCEPT ![p] = {}]
    /\ UNCHANGED <<changes, outbox, claimed, refused, writes, broker, up>>

MarkDispatched(p, r) ==
    /\ up /\ r \in written[p]
    /\ dispatched' = dispatched \cup {r}
    /\ pending' = pending \ {r}
    /\ available' = available \ {r}
    /\ written' = [written EXCEPT ![p] = {}]
    /\ UNCHANGED <<changes, claimed, refused, writes, broker, up>>

\* Mutant: a row that Kafka refused is given up.
MarkFailedGivesUp(p, r) ==
    /\ up /\ r \in refused[p]
    /\ available' = available \ {r}
    /\ pending' = pending \ {r}
    /\ refused' = [refused EXCEPT ![p] = {}]
    /\ UNCHANGED <<changes, dispatched, claimed, written, writes, broker, up>>

MarkFailed(p, r) ==
    /\ up /\ r \in refused[p]
    /\ available' = available \ {r}
    /\ refused' = [refused EXCEPT ![p] = {}]
    /\ UNCHANGED <<changes, pending, dispatched, claimed, written, writes, broker, up>>

\* drainOnce ignores the error of either mark.
MarkLost(p) ==
    /\ "db" \in Faults
    /\ up /\ written[p] \cup refused[p] # {}
    /\ written' = [written EXCEPT ![p] = {}]
    /\ refused' = [refused EXCEPT ![p] = {}]
    /\ UNCHANGED <<changes, outbox, claimed, writes, broker, up>>

-------------------------------------------------------------------------------
(* The environment.                                                        *)

BrokerChanges ==
    /\ "broker" \in Faults
    /\ broker' = ~broker
    /\ UNCHANGED <<changes, outbox, drain, writes, up>>

Stop ==
    /\ "stop" \in Faults
    /\ up
    /\ up' = FALSE
    /\ inserted' = [h \in Handlers |-> {}]
    /\ owes' = [w \in Writers |-> {}]
    /\ claimed' = [p \in Publishers |-> {}]
    /\ written' = [p \in Publishers |-> {}]
    /\ refused' = [p \in Publishers |-> {}]
    /\ UNCHANGED <<stored, synced, requeues, outbox, writes, broker>>

Restart ==
    /\ ~up
    /\ up' = TRUE
    /\ UNCHANGED <<changes, outbox, drain, writes, broker>>

Capture(h, f) == CaptureInsert(h, f) \/ CaptureReload(h, f) \/ CaptureFails(h, f)

Publish(w, f) == Enqueue(w, f) \/ EnqueueFails(w, f)

DrainRow(p, r) ==
    \/ DispatchOutbox(p, r) \/ DispatchFails(p, r) \/ DispatchUnacked(p, r)
    \/ MarkDispatched(p, r) \/ MarkFailed(p, r)

Next ==
    \/ \E h \in Handlers, f \in Refs : Capture(h, f)
    \/ \E f \in Refs : ResetForRetry(f)
    \/ \E w \in Sweeps, f \in Refs : MarkSynced(w, f)
    \/ \E w \in Writers, f \in Refs : Publish(w, f)
    \/ \E p \in Publishers : ClaimBatch(p) \/ ClaimLost(p) \/ MarkLost(p)
    \/ \E p \in Publishers, r \in Rows : DrainRow(p, r)
    \/ \E r \in Rows : AvailableAgain(r)
    \/ BrokerChanges \/ Stop \/ Restart

Spec == Init /\ [][Next]_vars

\* Handlers and sweeps run on, the publisher's ticker keeps draining, leases
\* and delays pass, and the process is restarted.
Fairness ==
    /\ WF_vars(Restart)
    /\ \A h \in Handlers : WF_vars(\E f \in Refs :
            CaptureReload(h, f) \/ CaptureFails(h, f))
    /\ \A w \in Writers, f \in Refs : WF_vars(Publish(w, f))
    /\ \A p \in Publishers :
          /\ WF_vars(ClaimBatch(p))
          /\ WF_vars(MarkLost(p) \/ \E r \in Rows : DrainRow(p, r))
    /\ \A r \in Rows : WF_vars(AvailableAgain(r))

FairSpec == Spec /\ Fairness

-------------------------------------------------------------------------------
(* Safety.                                                                 *)

\* Capture is idempotent for its event too: concurrent captures and replays of
\* one reference enqueue at most one buffered event.
OneRowPerChange ==
    \A r, s \in pending \cup dispatched :
        {r.by, s.by} \subseteq Handlers /\ r.ref = s.ref => r = s

\* Consumers of iag.operations never hear of a document the node does not have,
\* or of a sync that the sweep did not record.
AnnouncedHappened ==
    \A r \in Rows : writes[r] > 0 =>
        r.ref \in IF r.by \in Sweeps THEN synced[r.by] ELSE stored

\* A row is only retired once Kafka has it, whatever marks and leases raced.
DispatchedWasWritten == \A r \in dispatched : writes[r] > 0

\* With one publisher and nothing going wrong no event is sent twice, although
\* a lease can run out while its batch is still being written.
WrittenOnce == \A r \in Rows : writes[r] <= 1

(* The inductive invariant behind these: every row and every event still     *)
(* owed follows a change that happened, a document is in the hands of one    *)
(* writer at a time, at one stage, and what that writer owes has no row yet. *)

Queued == pending \cup dispatched

RowsFollowChanges ==
    \A r \in Queued :
        /\ r \in Rows
        /\ r.ref \in IF r.by \in Sweeps THEN synced[r.by] ELSE stored

OwedFollowsChange ==
    /\ \A h \in Handlers : inserted[h] \cup owes[h] \subseteq stored
    /\ \A w \in Sweeps : owes[w] \subseteq synced[w] /\ synced[w] \subseteq stored

OneWriterEach ==
    /\ \A h \in Handlers : inserted[h] \cap owes[h] = {}
    /\ \A g, h \in Handlers : g # h =>
          (inserted[g] \cup owes[g]) \cap (inserted[h] \cup owes[h]) = {}

OwedHasNoRow ==
    \A r \in Queued :
        IF r.by \in Sweeps THEN r.ref \notin owes[r.by]
        ELSE \A h \in Handlers : r.ref \notin inserted[h] \cup owes[h]

OnlyQueuedIsWritten ==
    /\ available \subseteq pending
    /\ \A p \in Publishers : claimed[p] \cup written[p] \cup refused[p] \subseteq Queued
    /\ \A r \in Rows : writes[r] > 0 => r \in Queued

WrittenReachedKafka ==
    \A p \in Publishers : \A r \in written[p] : writes[r] > 0

IInv ==
    /\ TypeOK
    /\ RowsFollowChanges
    /\ OwedFollowsChange
    /\ OneWriterEach
    /\ OwedHasNoRow
    /\ OneRowPerChange
    /\ OnlyQueuedIsWritten
    /\ WrittenReachedKafka
    /\ DispatchedWasWritten

(* Where WrittenOnce is meant to hold: one publisher, and no fault that can   *)
(* cost it its batch, an answer or a mark.  What a client that leaves costs  *)
(* is an event, not a publisher.                                             *)
Undisturbed ==
    /\ \A p, q \in Publishers : p = q
    /\ Faults \subseteq {"cancel"}

(* And what makes it inductive: a row that Kafka has is retired or is the    *)
(* one the publisher marks next; a lease that has run out gives it to nobody *)
(* because the one who could take it has it in hand.                         *)

NothingRefused == broker /\ up /\ \A p \in Publishers : refused[p] = {}

TakenIsPending ==
    /\ pending \cap dispatched = {}
    /\ \A p \in Publishers : claimed[p] \cup written[p] \subseteq pending

ClaimedIsUnsent == \A p \in Publishers : \A r \in claimed[p] : writes[r] = 0

SentIsInHand ==
    \A r \in pending : writes[r] > 0 => \E p \in Publishers : written[p] = {r}

SentOnceInv ==
    /\ NothingRefused
    /\ TakenIsPending
    /\ ClaimedIsUnsent
    /\ SentIsInHand
    /\ WrittenOnce

(* Liveness.                                                               *)

\* A claim or a mark is lost to the database.
DatabaseErrs == \E p \in Publishers : ClaimLost(p) \/ MarkLost(p)

\* After the last crash, outage and database error.
CalmInTheEnd == <>[](broker /\ up) /\ <>[][~DatabaseErrs]_vars

\* At least once: crashes, outages of the broker and database errors only delay
\* a row; the lease of a publisher that is gone runs out and the row is taken
\* over.
RowsReachKafka ==
    CalmInTheEnd => \A r \in Rows : r \in pending ~> r \in dispatched

ReachedKafka(f, w) == writes[[ref |-> f, by |-> w]] > 0

\* Every captured document and every sync that was marked is announced: Kafka
\* has its event in the end.
EveryChangeAnnounced ==
    CalmInTheEnd => \A f \in Refs :
        /\ f \in stored ~> \E h \in Handlers : ReachedKafka(f, h)
        /\ \A w \in Sweeps : f \in synced[w] ~> ReachedKafka(f, w)

-------------------------------------------------------------------------------
(* Refinement: consumers are told what EventDelivery promises them.        *)

Events == {<<"buffered", f, "capture">> : f \in Refs}
          \cup {<<"synced", f, w>> : f \in Refs, w \in Sweeps}

\* Whichever handler enqueued it, a document has one buffered event.
Announces(r) == IF r.by \in Sweeps THEN <<"synced", r.ref, r.by>>
                                   ELSE <<"buffered", r.ref, "capture">>

EventsOf(S) == {Announces(r) : r \in S}

Happened == {e \in Events : e[2] \in IF e[1] = "synced" THEN synced[e[3]] ELSE stored}

Delivery == INSTANCE EventDelivery WITH
    happened <- Happened,
    promised <- EventsOf(pending \cup dispatched),
    announced <- EventsOf({r \in Rows : writes[r] > 0}),
    settled <- EventsOf(dispatched)

\* Rows, leases, races of publishers, lost marks and crashes never drop, repeat or
\* invent an event on its way from the change through the outbox to Kafka.
ImplementsEventDelivery == Delivery!Spec
===============================================================================
