# Verification of the depot node

TLA+ models of `iag-dms-depot-node`, the edge service that buffers documents
captured at a distributor depot and syncs them to the central DMS. Paths are
relative to `src/`. Every definition that models code names its lines in
`PROJECT.json` (`map`).

## 1. The system

| Component | State | Operations | Interacts with |
|---|---|---|---|
| Offline buffer (`internal/store`: Postgres, memory) | `depot_documents`: status, `sync_attempts`, `available_at`; `depot_sync_state` | `CreateDocument`, `ClaimPending`, `MarkSynced`, `MarkFailed`, `ResetForRetry`, reads | called by handlers and engine; each Postgres operation is one SQL statement (`CreateDocument` is two), each memory operation runs under one mutex |
| Sync engine (`internal/sync/engine.go`) | the batch in hand, the online flag | `Run` (ticker loop), `RunOnce` (one sweep), `heartbeatLoop` | buffer, upstream client, event bus; `RunOnce` also runs inside `POST /v1/sync/run` |
| Upstream client (`internal/dmsclient`) | the service token (`serviceauth`) | `Sync` (15 s timeout), `Ping` | central DMS, token endpoint |
| HTTP handlers (`internal/handlers`) | none | capture, list, get, retry, status, run | buffer, engine, bus; run with the context of their request |
| Event bus (`internal/events`) | none | `Publish` (enqueue, or write to Kafka when there is no outbox), `DispatchOutbox` | outbox, Kafka |
| Outbox (`internal/outbox`) | `depot_event_outbox`: `available_at`, `dispatched_at`, `attempts` | `Enqueue`, `ClaimBatch` (lease of 1 s), `MarkDispatched`, `MarkFailed`, the publisher's `drainOnce` every 2 s | bus, Kafka |
| Migrations (`internal/migrate`) | `schema_migrations` | `Up` at boot | Postgres |
| Inbound auth (`internal/auth`, `middleware`, `platformauth`) | JWKS key set | verify, permission checks, refresh loop | handlers |
| Lifecycle (`main.go`) | the process | boot, shutdown, permission registration loop | all |
| Configuration (`internal/config`, `runtimeenv`) | the settings, read once | `Load`, `Validate`, `HardenedRuntime` | `main`, RBAC |

Router, database connection, telemetry, the vendored token cache and the
vendored packages the node does not import are listed in `PROJECT.json`, with
what is modelled of them or the reason why nothing is.

What is hard, and what each component must keep in spite of it:

* **Sweeps run side by side**: the ticker's and one for each `POST /v1/sync/run`.
  A document must not be in two of them, except by an operator's retry of a
  document in flight, which `ResetForRetry` does not refuse.
* **Crashes and shutdowns** cut a sweep anywhere between claim, POST and mark.
  Nothing captured may be lost; nothing may be reported synced that the central
  DMS did not accept.
* **Lost and late answers**: a POST the node gave up may still arrive.
* **Contexts**: the sweep of a request whose client leaves fails its posts, and
  on Postgres its marks.
* **Scheduling**: batches are limited and ordered by `available_at`; every
  document must get its turn.
* **Two tables, separate statements**: a document, its mark and their events are
  written one after the other.
* **Leases shorter than the work**: the publisher's lease can run out while its
  batch is being written.
* **One flag, one row, many writers**: sweeps and pings write the online flag,
  sweeps the sync-state row, and nobody compares times.
* **Boots side by side**: processes of different builds migrate one database.
* **Shutdown in order**: requests, loops, bus and pool end one after the other,
  with one deadline among them; keys and permissions are fetched and registered
  by loops that must survive a bad boot.
* **Numbers**: the backoff is computed before it is capped.

`PROJECT.json` lists them line by line under `hazards`, with the properties
that cover them, or the reason why none does.

## 2. Modules

| Module | What it is |
|---|---|
| `DocumentDelivery` | abstract: captured, accepted, confirmed, reopened; what the field is promised |
| `SyncEngine` | the buffer (both stores), the sweeps, the upstream client, retry, crash and restart; implements `DocumentDelivery` |
| `EventDelivery` | abstract: happened, promised, announced, settled; what consumers of the events are promised |
| `EventOutbox` | capture, the sweep's mark, the events they owe, the outbox, its publishers, Kafka; implements `EventDelivery` |
| `BackoffDelay` | the delay of a retry in int64 nanoseconds |
| `NodeStatus` | what the node tells about itself: online flag, sync-state row, heartbeats; runs beside `SyncEngine`, whose actions it extends |
| `SchemaHistory` | abstract: one history of whole files, and who serves on it; what operators are promised |
| `Migrations` | processes that boot against one database; implements `SchemaHistory` |
| `CaptureReceipts` | abstract: stored, announced, acknowledged, on a durable buffer or not; what field clients are promised |
| `NodeProcess` | one process from boot to exit: settings, keys, permissions, captures in flight, shutdown; implements `CaptureReceipts` |
| `MC...` | sets of values and the symmetry for TLC |
| `...Proofs` | theorems, section 6 |

### SyncEngine

One action is one statement of the store, one POST or one event of the
environment:

| Action | Code |
|---|---|
| `CreateDocument(d)` | `CaptureDocument` of a new reference; the row is due at once |
| `ClaimPending(w)` | the claim of `RunOnce` in sweep `w` (the engine or a request); takes a full batch, oldest `available_at` first, skipping rows a mark has locked; the memory store, ordered by `UpdatedAt`, fills a batch with failed documents whose backoff still runs |
| `ClaimLost(w)` | the claim commits and its rows are lost (`rows.Scan`, connection, context) |
| `PostAccepted`, `PostRejected`, `PostFails`, `PostLost` | `Client.Sync`: 2xx; an answer outside 2xx; no answer because there was no token or connection or the context is done; no answer although the DMS may still take the document (`LateArrival`) |
| `MarkSynced`, `MarkFailed`, `MarkLost` | the marks, and the marks whose error `RunOnce` ignores |
| `ResetForRetry(d)` | `POST /v1/documents/:id/retry`, for a document in any status, as in the code |
| `BackoffElapses(d)` | `available_at` of a failed document passes |
| `CancelRequest`, `LinkChanges`, `Stop`, `Restart` | client, link, process |

Time is abstracted to order: `due` holds the claimable documents whose
`available_at` has passed, `ahead` who is older. This is the code's behaviour
as long as delays are not negative, which holds for 33 attempts; beyond that
see `BackoffDelay`. The memory store has no `Stop`, since its buffer ends with
the process (production refuses it), and no `"db"` fault. Operator
retries are bounded by `MaxRequeues`; `sync_attempts` only decides the length of
a delay and is not kept.

### EventOutbox

`CaptureInsert`/`CaptureReload` are the two statements of `CreateDocument`,
`Enqueue` the one of `Publish`; a document or a mark whose event is not yet
enqueued is in `owes`. `ClaimBatch` leases all rows that are available,
`AvailableAgain` is the end of a lease or of a delay, and between
`DispatchOutbox` (Kafka has it) and `MarkDispatched` anything can happen. Sweeps
appear as `MarkSynced(w, f)` only: that a document is marked at most once, and
once more for every operator's retry (`ResetForRetry`), each time by another
sweep, is what `SyncEngine` shows (`MarksUseChances`) and what the guard of
`MarkSynced` takes over. A row is known by its document and by who enqueued it,
so that the synced events of two sweeps are two rows. References that are empty
are not captured: such a document has no replay. The batch limit of 32 is not
reached.

### NodeStatus

`SweepClaims`, `SweepPosts` and `SweepMarks` are `SyncEngine`'s actions together
with what `RunOnce` keeps of them; `SetOnline` is the end of `RunOnce` up to the
`time.Now()` of `recordState`, `RecordState` and `RecordLost` the upsert. The
heartbeat loop is `Ping`, `NotePing`, `Stats`, `PublishHeartbeat` and
`HeartbeatLost`, with everything else free to happen in between. Times are kept
as an order: `earlier[w]` has the sweeps that read the clock before `w`,
`overtaken` those that will write an older time than the row's, and `stale` says
that they did. Of the counts of `Stats` the synced documents are kept; a
published heartbeat says `online` and `counted` as they are when it is put
together, and stands for its row in the outbox.

### Migrations

A process reads `schema_migrations` once (`LoadApplied`) and goes through its
files: `Skip`, `Mismatch`, or `RunBody`, `InsertRow`, `Commit`. A body and its
row become durable together (`Committed`). The insert waits while another
transaction holds the key (`KeyHeld`) and fails once it has committed
(`Conflict`, 23505). A body that meets the same file of another transaction may
itself fail (`BodyRaces`), as may a second `CREATE TABLE IF NOT EXISTS`. A
process dies anywhere (`Fails`), also after a commit it never heard of
(`CommitUnseen`), and is started again. `schema` is the history of committed
bodies. What a body does is not modelled: how Postgres locks the objects of a
file is left to `BodyRaces`, which may or may not occur.

### NodeProcess

`stage` follows `main`: settings (`Start`, refused ones never get further),
connection, migration, first refresh of the keys, serving, `srv.Shutdown`
(`draining`), `cancelApp`, `eventBus.Close` and `pool.Close`, exit; `Crash` may
come at any stage and is followed by a new boot. A capture is admitted by
`AttachPrincipal` and `RequirePerm` and then goes through its statements, each
of which needs the pool or the bus to be open; what the statements do is
`EventOutbox`'s. An insert or an enqueue in progress holds a connection that
`pool.Close` waits for. A request counts from its admission: one that is still
being authenticated when the signal comes ends like one that came too late. The
deferred shutdown of telemetry, at most 5 s, is left out, and so are the loops'
own statements at the moment of `cancelApp`, which end at once because their
context is done.

### BackoffDelay

`time.Duration(math.Pow(2, attempts)) * time.Second` is `1953125 * 2^9` ns moved
up by `attempts` places and cut to 64 bits. The module works on those bits,
since TLC's own integers have 32, and counts in units of `2^9` ns, of which
every delay is a multiple. From `attempts = 63` on the float does not fit an
int64 and the conversion is implementation-defined; both outcomes give a delay
of zero or less.

## 3. Runs that pass

| Run | Instance | Question and answer |
|---|---|---|
| `sync_safety` | 3 documents (two refused), engine and one request, batches of 2, one operator retry each, all faults | No order of crashes, outages, lost answers, database errors and retries confirms what was not accepted, hands a document to more sweeps, or marks it synced more often, than once plus its retries, or loses one: `SyncedIsAccepted`, `HoldersBounded`, `SyncedIsFinal`, `MarkDecidesAlone`, `MarksUseChances`, and the refinement `ImplementsDelivery` |
| `sync_progress` | 2 documents (one refused), engine and one request, batches of 1, one operator retry each, all faults | What no fault strands in `syncing` is delivered (`Delivered`), no due document starves (`NoStarvation`), and the buffer ends with synced and stranded documents only (`DrainsOrStrands`) |
| `sync_memory` | the memory store, 2 documents, link and client cancels, one retry | The same for a store that ignores contexts and backoffs, where nothing is stranded: `SyncingIsHeld`, `Delivered`. That it hands out nothing twice, though it claims before a backoff has elapsed, is theorem `ExclusiveClaims`, for either store |
| `outbox_safety` | one reference, 2 handlers, a sweep, 2 publishers, all faults | No capture is queued for announcement twice, no change is announced before it happened, no row is retired unwritten, and every row reaches Kafka: `OneRowPerChange`, `AnnouncedHappened`, `DispatchedWasWritten`, `RowsReachKafka`. To consumers it is `EventDelivery` (`ImplementsEventDelivery`): promised once, kept until announced |
| `outbox_once` | one reference retried once, 2 handlers, 2 sweeps, 1 publisher, no faults | An expired lease alone sends nothing twice (`WrittenOnce`), and the capture and each sync of the document have their events in Kafka in the end (`EveryChangeAnnounced`) |
| `node_status` | one document, engine and one request, every fault, one operator retry | A heartbeat never reports more documents synced than were accepted (`ReportedWasAccepted`); an error-free sweep means its documents were accepted (`OkSweepDelivered`); the flag that sweeps and pings overwrite ends up right after an outage and after a recovery (`OutageIsReported`, `RecoveryIsReported`); a row that went back in time heals with the engine's next sweep (`StaleRowHeals`) |
| `migrations` | three processes of three builds, one with a file less, two with different second files; two faults | No file is applied twice (`AppliedOnce`) or out of order (`InOrder`), nobody serves on another build's schema (`ServesOnItsSchema`), and every process ends up serving unless another build contradicts its files (`AllServe`); the database looks as if one file at a time had been applied (`ImplementsHistory`) |
| `node_process` | a production node, a host where nothing is set, a laptop, five refused settings; two captures, two tokens, two keys; one fault, two changes of the authentication service | Acknowledged captures of a production node survive (`AckedIsKept`), empty permission lists pass only in development (`EmptyListIsNoPass`), an orderly shutdown cuts nothing short (`CleanStop`), every shutdown ends (`Terminates`), and keys and permissions catch up after bad boots (`KeysCatchUp`, `PermissionsRegistered`); a 201 is a receipt for a document in the buffer on either store (`ImplementsReceipts`) |

Why these bounds: a hazard needs two holders of a document (the engine and one
request), a document left behind by a full batch (3 documents with batches of 2,
2 with batches of 1), one that never succeeds (the refused one) and one operator
retry per document; a second retry only adds a third holder. One reference is
enough for races about one reference, as rows of different references never
meet; what outlives a lease is a batch of several rows, and in `outbox_once` the
capture's event and those of two sweeps make one. `outbox_safety` has one sweep
and no retry, since two publishers under all faults multiply with every row;
that a retry changes nothing for its safety is part of the theorems. A row goes back in time when two sweeps end together, for which one
document and one retry in flight suffice. Three builds are the least with a
predecessor and a contradiction; with two faults a process can fail, be started
again, and fail once more or lose a commit. One fault in `node_process` is a
crash, a failed statement or a failed registration; two changes are an outage
and its end, or two rotations. In `sync_safety` the two refused documents, which
fill the batches beside the one that can be delivered, are interchangeable
(symmetry; no liveness is checked there); that the safety properties do not
depend on these numbers is what the theorems add.

`CHECK_DEADLOCK FALSE` appears where the system may really stop: when all
documents are synced, no operator retries and nothing fails, when a bound on
attempts is reached, when settings are refused, and after an exit.

## 4. Runs that show a disagreement

Each checks one property taken from a comment or a doc; TLC finds it violated.

| Run | What is said | What happens |
|---|---|---|
| `sync_crash_releases` | a crash re-releases claimed documents (`store.go:39`) | the claim selects `buffered` and `failed` only; `syncing` rows of a crash stay for ever |
| `sync_late_failure` | `synced` is "accepted", `failed` "last attempt failed" (`document.go:14`) | after a retry in flight, the failure of the older sweep overwrites the newer success |
| `outbox_lost_event` | events are enqueued transactionally (`bus.go:80`) | a crash between two statements loses the event |
| `backoff_overflow` | retry forever with backoff (`config.go:90`) | from the 34th failure the delay is negative or zero for most attempts |

More were met that have no run of their own:

* A client that leaves `POST /v1/sync/run` strands the documents of its sweep as
  a crash does, since the marks use the request's context (`SyncingIsHeld` holds
  for Postgres only without the faults `"cancel"`, `"db"` and `"stop"`; theorem
  `NothingIsStranded`). The memory store claims failed documents before their
  backoff has elapsed.
* `MAX_SYNC_ATTEMPTS` decides a log line only: `engine.go:119` says "leaving
  failed", and the document is claimed again.
* `SYNC_ENABLED=false` is asked by `POST /v1/sync/run` (`handlers.go:160`) and
  not by `main.go:128`: the engine drains in the background all the same.
* `depot_sync_state` records "the outcome of the most recent sync sweep"
  (`0001_initial.sql:57`); of two sweeps that end together the older may write
  last. `StaleRowHeals` shows how long that lasts.
* One document the central DMS refuses, or a client that leaves its sweep, sets
  the node offline until the next ping, although `engine.go:59` speaks of
  reachability. Without the event bus there is no ping: the flag is then that of
  the last sweep.
* `config.go:129-131` cannot be reached: line 87 makes `SyncEnabled` false
  without an upstream URL.
* The backoff of the permission registration (`main.go:234`) doubles once more
  after it has reached 256 s, to 512 s, past the five minutes it is compared with.
* A JWKS without a usable key leaves the old keys in place: withdrawing all keys
  at once has no effect (`KeysCatchUp` says so).

Releasing `syncing` rows when `available_at` passes would not mend the first by
itself: the claim's two minutes are shorter than 25 posts of 15 seconds, and the
mutant `BackoffElapsesInFlight` shows two sweeps holding, and marking, one
document (`MarkDecidesAlone`).

## 5. Fairness

`SyncEngine!Fairness`: a process that is down is restarted; the engine's ticker
keeps calling `RunOnce`; a sweep in progress goes on, since every post ends by
the client's timeout or its context; backoffs elapse. Which outcome a post has is
not fair: the link may fail whenever it likes. Requests, operators, clients,
crashes and late arrivals have no fairness. `Delivered` is therefore conditional:
*once process and link stay up and clients no longer disconnect*, and for the
documents no fault strands. The second condition is needed for the memory store,
where a client that keeps claiming and leaving can have a document failed again
each time. `DrainsOrStrands`, `NoStarvation` and `CrashReleases` assume that
crashes come to an end, `RowsReachKafka` and `EveryChangeAnnounced` that brokers
and process stay up and the database stops failing eventually.

`EventOutbox!Fairness`: handlers and sweeps run on, the publisher claims again
and again and works off its batch, leases and delays end, the process is
restarted.

`NodeStatus!StatusFairness`: as in `SyncEngine`; the end of `RunOnce` and the
heartbeat's ticker run on. `Stats` and `PublishHeartbeat` are strongly fair: a
database that fails every heartbeat for ever reports nothing, and the properties
about heartbeats are about databases that answer now and then. What the link
does has no fairness. `RecoveryIsReported` assumes that posts no longer fail,
since each failing sweep sets the flag anew; `StaleRowHeals` that the engine's
sweeps go on recording and no forced ones run beside them.

`Migrations!Fairness`: a process runs on and is started again when it has exited.
The outcomes that need a fault or a race are part of `Next` only.

`NodeProcess!Fairness`: `main` and its loops run on, tickers and delays end, a
statement or a write in progress ends with an answer or an error. There is none
for a handler between two statements, so that `Terminates` holds for handlers
that hang there: the 30 s of `srv.Shutdown` pass, and only connections in use
hold up `pool.Close`; a statement that never ended would hold it up for ever, and
whether one does is not the node's to decide. A process whose boot goes on failing is `Crash`, bounded
by `MaxFaults`. `KeysCatchUp` and `PermissionsRegistered` are about nodes that
stay up with an authentication service that stays up.

## 6. Proofs

Proved with TLAPS for all values of the constants that meet the modules' named
assumptions (`SyncEngine`: finite set of requests apart from the engine, batch
size at least 1, faults that fit the backend; `EventOutbox`: sweeps are not
handlers, `WriteCap` at least 1; `Migrations`: versions are numbers, every build
has a content or nothing for each; `NodeProcess`: settings and tokens of the
right shape).

`SyncEngineProofs`: `Invariance` (`Spec => []IInv`), from it `TypeCorrectness`,
`SyncedWasAccepted`, `ExclusiveClaims`, `HeldAreSyncing`, `BufferedIsClaimable`,
`SyncedForGood`, `MarksDecideAlone`, `MarksAreBacked`, then `NothingIsStranded` and `Refinement`.

* *Exclusive claims.* `HoldersBounded` is not inductive: the next claim of a
  document that is not `syncing` adds a holder. `ClaimantsBounded` counts that
  claim in advance: holders, plus one when the status is not `syncing`, are at
  most one plus the retries. A claim then trades the pending claimant for a
  holder, a mark gives back its holder and at most restores the claimant, and a
  retry pays for the one it adds. `HoldersBounded` follows, and `HeldIsSyncing`:
  what a sweep holds of the documents nobody retried is `syncing`. This needs
  `HeldOnce` (a sweep holds a document in one place, so its mark really lets go)
  and `BufferedIsDue` (nothing due is `syncing`).
* *Marks decide alone.* `UPDATE ... WHERE id = $1` looks at nothing it
  overwrites. That a mark of a document nobody retried overwrites no other
  outcome follows from the two: `HeldIsSyncing` gives its status, and the bound
  on holders leaves room for this sweep only.
* *Marks are backed.* `Chances` counts how often a document can still be marked
  synced: its holders, plus one when a claim may yet take it. What a step does to
  one document is of four kinds (`DocumentStep`: retried, claimed, marked, kept),
  and only the first lets `Chances` grow, by the one retry. A `MarkSynced` ends a
  hold and leaves the document unclaimable (`MarkEndsHold`), so it uses one up. A
  document starts with one chance: it is marked at most once, and once more per
  retry.
* *Accepted.* A mark finds its document in `acked`, which is contained in
  `accepted` (`AckedIsAccepted`), and `accepted` only grows.
* *Refinement.* `captured`, `confirmed` and `reopened` are read off `status` and
  `requeues`. A claim or a late failure of a synced document maps to `Withdraw`,
  which the abstract specification allows only after a retry: that is where
  `SyncedIsFinal` enters.
* *Nothing stranded* is proved under `ClaimsSurvive`, where neither claims nor
  marks can be lost. The runs of section 4 show that it fails otherwise.

`EventOutboxProofs`: `Invariance`, `TypeCorrectness`, `OneEventPerChange`,
`EventsAreTrue`, `RetiredRowsWereSent`, `SentOnce`, `Refinement`. A buffered
event has at most one row because a document is, from the moment of its insert,
in the hands of one handler at one stage (`OneWriterEach`), and what a handler
still owes has no row (`OwedHasNoRow`); an announced change happened because a
written row is in the table (`OnlyQueuedIsWritten`) and every row follows its
change (`RowsFollowChanges`).

* *Sent once* (`SentOnce`). `WrittenOnce` is false with a second publisher, a
  crash or a lost mark, so the theorem is about an outbox that is
  `Undisturbed`: one publisher, and no fault but clients that leave. It holds for
  any number of references and handlers. Leases end all the same
  (`AvailableAgain` is free to occur at any moment), and the proof says why that
  does no harm: a row Kafka has is retired, or is the one row the publisher has
  in hand (`SentIsInHand`), and that publisher, the only one that could claim the
  row again, claims nothing before it has marked it. What is in its batch is
  pending and unsent (`TakenIsPending`, `ClaimedIsUnsent`), and nothing is
  refused (`NothingRefused`). The conjunction, `SentOnceInv`, is inductive
  beside `IInv`.
* *Refinement.* `EventDelivery` has sets of events where the outbox has rows,
  leases and counters. Its `Promise` requires that the event was not promised
  before: that is `OwedHasNoRow`. Its `Happen` requires that a change is made
  once, and a capture before a sync. A second write of a row announces again what
  was announced and is a stutter; a lost batch, a lost mark and a crash are
  stutters too. An event that was owed when the process died stays unpromised for
  ever, which the abstract specification allows, and `outbox_lost_event` shows.

`NodeStatusProofs`: `EngineRuns` shows that every behaviour of `NodeStatus` is one
of `SyncEngine`, so that all theorems about it hold beside the status too. Then
`StatusTypes`, `HeartbeatsAreTrue` and `OkIsDelivered`. A heartbeat is true
because what `Stats` counts is synced, hence accepted, and `accepted` only grows:
the count stays a lower bound whatever happens before it is published. A sweep
without an error has, for every document it claimed, either still to post it or
had it accepted (`Traced`), and it writes its outcome only when it holds none
(`TimedIsThrough`).

`MigrationsProofs`: `Invariance`, `TypeCorrectness`, `MigratedOnce`,
`ServedSchema`, `MigratedInOrder`, `Refinement`. Who has inserted the row of a
version holds its key alone (`Alone`), and the row is not there yet (`Fresh`);
so rows are written once, and what a process read (`Snapshots`) or has passed
(`Passed`) stays true while others go on. For the order, rows have no gap
(`Closed`) as long as builds are of one history (`Linear`). For the refinement
only `Committed` and the steps to `serving` and away from it are visible: a
commit appends a file that nobody has appended (`Alone`, `Fresh`) and whose
predecessors in its build are there, because the process has passed them
(`Passed`). This needs no `Linear`: builds that contradict each other share one
history too, and those it leaves out do not serve.

`NodeProcessProofs`: `Invariance`, `TypeCorrectness`, `AcknowledgedIsKept`,
`EmptyListsAreRefused`, `ShutdownIsClean`, `Refinement`. Nobody is admitted
under settings that were refused (`Booted`), what is past its insert is stored
unless the store is the process's memory (`Kept`), which production settings
exclude; without faults and overruns whatever is about to be answered was
announced (`Told`), because bus and pool are still open for every request that
runs (`NobodyLeft`). The refinement is about both stores: a capture past its
insert has its document in the buffer, in memory too, because requests and
memory end together (`Underway`); so `Acknowledge` and `Announce` are only taken
over a stored document, and once (`Kept`). An exit or a crash is `Forget` on the
memory store, which the abstract specification refuses to a durable node:
`Booted` and `Validate` give that a production node is never on it.

Only model-checked: everything about liveness (`Delivered`, `NoStarvation`,
`DrainsOrStrands`, `RowsReachKafka`, `EveryChangeAnnounced`, `OutageIsReported`,
`RecoveryIsReported`, `StaleRowHeals`, `AllServe`, `Terminates`, `KeysCatchUp`,
`PermissionsRegistered`), since fairness and `ENABLED` are out of the prover's
reach; and the arithmetic of `BackoffDelay`, whose powers of two are sums over a
recursive function, that is, induction over data.

## 7. Not modelled

* The order of the events of one document, which nothing in the code promises,
  and the batch limit of the publisher.
* The cache of the service token: vendored code behind one call of `Client.Sync`.
  Whatever it does, a post ends as one of the outcomes `SyncEngine` allows; its
  waiting times are not modelled, as time is nowhere but as order.
* Routes other than the capture's, whose permission check is the same; headers,
  CORS, error bodies, parsing of settings, logging, telemetry: no state.
* The content of documents, events and migrations.
* Vendored packages the node does not import.

What is left of the plan is a composition of captures, sweeps and outbox in one
module. It would join what `MarksUseChances` and `AnnouncedHappened` say of its
parts; its instances are products of theirs and beyond a run, so that the parts
meet in the assumption stated at `EventOutbox!MarkSynced`.

## 8. Reproducing

`tlc -config SyncSafety.cfg MCSyncEngine.tla` and so on, as listed under `runs`
in `PROJECT.json`; `tlapm SyncEngineProofs.tla`, and the same for the other
four `...Proofs` modules.
Operators marked *Mutant* in the modules are plausible faults of the code; each
replaces the definition after it (`mutants` in `PROJECT.json`) and makes one
property fail.
