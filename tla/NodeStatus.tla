------------------------------ MODULE NodeStatus ------------------------------
(***************************************************************************)
(* What a node tells about itself: the engine's online flag, the row of    *)
(* depot_sync_state and the heartbeat events (the rest of                  *)
(* internal/sync/engine.go, Ping, and the status half of the store).       *)
(*                                                                         *)
(* The module runs beside SyncEngine: its sweeps, which end with setOnline *)
(* and recordState, and the heartbeat loop write the same flag, and two    *)
(* sweeps the same row.  Times are abstracted to their order: a sweep      *)
(* reads the clock in one step and writes the row in a later one, and only *)
(* whether another sweep got in between is kept.                           *)
(***************************************************************************)
EXTENDS SyncEngine

CONSTANT Heartbeat      \* HEARTBEAT_ENABLED, and the event bus is enabled

ASSUME HeartbeatAssumption == Heartbeat \in BOOLEAN

VARIABLES
    stage,          \* stage[w]: how far RunOnce has come in sweep w
    claimed,        \* claimed[w]: the documents RunOnce goes through
    lastErr,        \* the sweeps whose lastErr is not nil
    gone,           \* requests whose client left before their batch was through
    online,         \* Engine.online
    lastSyncOK,     \* last_sync_ok of the depot's row, FALSE without a row
    earlier,        \* earlier[w]: sweeps that read the clock before w, row unwritten
    overtaken,      \* sweeps that will write a time older than the row's
    stale,          \* last_sync_at is older than one the row held before
    beat,           \* how far emitHeartbeat has come
    counted         \* documents Stats found synced, for that heartbeat

runs == <<stage, claimed, lastErr, gone>>
times == <<earlier, overtaken, stale>>
beats == <<beat, counted>>
status_vars == <<runs, online, lastSyncOK, times, beats>>
allVars == <<vars, status_vars>>

StatusTypeOK ==
    /\ stage \in [Sweepers -> {"idle", "batch", "timed"}]
    /\ claimed \in [Sweepers -> SUBSET Docs]
    /\ lastErr \in SUBSET Sweepers
    /\ gone \in SUBSET Requests
    /\ online \in BOOLEAN
    /\ lastSyncOK \in BOOLEAN
    /\ earlier \in [Sweepers -> SUBSET Sweepers]
    /\ overtaken \in SUBSET Sweepers
    /\ stale \in BOOLEAN
    /\ beat \in {"idle", "reached", "failed", "stats", "counted"}
    /\ counted \in Nat

StatusInit ==
    /\ Init
    /\ stage = [w \in Sweepers |-> "idle"]
    /\ claimed = [w \in Sweepers |-> {}]
    /\ lastErr = {} /\ gone = {}
    /\ online = FALSE
    /\ lastSyncOK = FALSE
    /\ earlier = [w \in Sweepers |-> {}]
    /\ overtaken = {} /\ stale = FALSE
    /\ beat = "idle" /\ counted = 0

-------------------------------------------------------------------------------
(* The sweep, from the claim to recordState.                               *)

\* RunOnce returns after an empty or a lost claim, before it observes anything.
SweepClaims(w) ==
    /\ stage[w] = "idle"
    /\ \/ /\ ClaimPending(w)
          /\ stage' = [stage EXCEPT ![w] = "batch"]
          /\ claimed' = [claimed EXCEPT ![w] = batch'[w]]
       \/ ClaimLost(w) /\ UNCHANGED <<stage, claimed>>
    /\ UNCHANGED <<lastErr, gone, online, lastSyncOK, times, beats>>

\* Mutant: a document whose answer is late does not count as an error.
SweepPostsLate(w, d) ==
    /\ Post(w, d)
    /\ lastErr' = IF d \in refused'[w] \ wire' THEN lastErr \cup {w} ELSE lastErr
    /\ UNCHANGED <<stage, claimed, gone, online, lastSyncOK, times, beats>>

SweepPosts(w, d) ==
    /\ Post(w, d)
    /\ lastErr' = IF d \in refused'[w] THEN lastErr \cup {w} ELSE lastErr
    /\ UNCHANGED <<stage, claimed, gone, online, lastSyncOK, times, beats>>

\* An error of MarkSynced or MarkFailed does not count as the sweep's.
SweepMarks(w, d) ==
    /\ Mark(w, d)
    /\ gone' = gone \cup (cancelled \ cancelled')
    /\ UNCHANGED <<stage, claimed, lastErr, online, lastSyncOK, times, beats>>

\* setOnline, and recordState up to now := time.Now(): the flag and the clock
\* concern different readers, so one step stands for both.
SetOnline(w) ==
    /\ up /\ stage[w] = "batch" /\ Held(w) = {}
    /\ online' = (w \notin lastErr)
    /\ earlier' = [earlier EXCEPT ![w] = {v \in Sweepers : stage[v] = "timed"}]
    /\ stage' = [stage EXCEPT ![w] = "timed"]
    /\ UNCHANGED <<vars, claimed, lastErr, gone, lastSyncOK, overtaken, stale, beats>>

\* RunOnce of sweep w returns.
SweepReturns(w) ==
    /\ stage' = [stage EXCEPT ![w] = "idle"]
    /\ claimed' = [claimed EXCEPT ![w] = {}]
    /\ lastErr' = lastErr \ {w}
    /\ gone' = gone \ {w}
    /\ earlier' = [v \in Sweepers |-> IF v = w THEN {} ELSE earlier[v] \ {w}]
    /\ UNCHANGED <<vars, online, beats>>

Outcome(w) == w \notin lastErr

\* Mutant: the row is written when the outcome changes.
RecordChange(w) ==
    /\ up /\ stage[w] = "timed"
    /\ Backend = "postgres" => w \notin gone
    /\ lastSyncOK' = Outcome(w)
    /\ stale' = IF lastSyncOK = Outcome(w) THEN stale ELSE w \in overtaken
    /\ overtaken' = (overtaken \cup earlier[w]) \ {w}
    /\ SweepReturns(w)

\* recordState: the upsert of SetSyncState does not compare times.
RecordState(w) ==
    /\ up /\ stage[w] = "timed"
    /\ Backend = "postgres" => w \notin gone
    /\ lastSyncOK' = Outcome(w)
    /\ stale' = (w \in overtaken)
    /\ overtaken' = (overtaken \cup earlier[w]) \ {w}
    /\ SweepReturns(w)

\* The upsert fails, with the database or with the request's context.
RecordLost(w) ==
    /\ up /\ stage[w] = "timed" /\ Backend = "postgres"
    /\ "db" \in Faults \/ ("cancel" \in Faults /\ w \in Requests)
    /\ overtaken' = overtaken \ {w}
    /\ SweepReturns(w)
    /\ UNCHANGED <<lastSyncOK, stale>>

-------------------------------------------------------------------------------
(* The heartbeat loop.                                                     *)

\* GET /health of the central DMS: any answer below 500.
Ping ==
    /\ up /\ Heartbeat /\ beat = "idle"
    /\ beat' = IF link THEN "reached" ELSE "failed"
    /\ UNCHANGED <<vars, runs, online, lastSyncOK, times, counted>>

\* Mutant: only a ping that got through sets the flag.
NotePingReached ==
    /\ up /\ beat \in {"reached", "failed"}
    /\ online' = (online \/ beat = "reached")
    /\ beat' = "stats"
    /\ UNCHANGED <<vars, runs, lastSyncOK, times, counted>>

\* Mutant: the ping can only take the node offline.
NotePingFailed ==
    /\ up /\ beat \in {"reached", "failed"}
    /\ online' = (online /\ beat = "reached")
    /\ beat' = "stats"
    /\ UNCHANGED <<vars, runs, lastSyncOK, times, counted>>

NotePing ==
    /\ up /\ beat \in {"reached", "failed"}
    /\ online' = (beat = "reached")
    /\ beat' = "stats"
    /\ UNCHANGED <<vars, runs, lastSyncOK, times, counted>>

\* Mutant: documents in flight are counted as synced.
StatsOptimistic ==
    /\ up /\ beat = "stats"
    /\ counted' = Cardinality({d \in Docs : status[d] \in {"syncing", "synced"}})
    /\ beat' = "counted"
    /\ UNCHANGED <<vars, runs, online, lastSyncOK, times>>

\* Of the counts the synced documents are kept; the row is not published.
Stats ==
    /\ up /\ beat = "stats"
    /\ counted' = Cardinality({d \in Docs : status[d] = "synced"})
    /\ beat' = "counted"
    /\ UNCHANGED <<vars, runs, online, lastSyncOK, times>>

\* Mutant: the loop does not go on.
PublishHeartbeatOnce ==
    /\ up /\ beat = "counted"
    /\ beat' = "done" /\ counted' = 0
    /\ UNCHANGED <<vars, runs, online, lastSyncOK, times>>

\* The event says online and counted: the flag is read after the counts, when
\* the event is put together.
PublishHeartbeat ==
    /\ up /\ beat = "counted"
    /\ beat' = "idle" /\ counted' = 0
    /\ UNCHANGED <<vars, runs, online, lastSyncOK, times>>

\* Stats or the enqueue fails.
HeartbeatLost ==
    /\ up /\ beat \in {"stats", "counted"}
    /\ "db" \in Faults
    /\ beat' = "idle" /\ counted' = 0
    /\ UNCHANGED <<vars, runs, online, lastSyncOK, times>>

-------------------------------------------------------------------------------

\* The process takes its sweeps, its heartbeat and its flag with it.
StatusStop ==
    /\ Stop
    /\ stage' = [w \in Sweepers |-> "idle"]
    /\ claimed' = [w \in Sweepers |-> {}]
    /\ lastErr' = {} /\ gone' = {}
    /\ online' = FALSE
    /\ earlier' = [w \in Sweepers |-> {}]
    /\ overtaken' = {}
    /\ beat' = "idle" /\ counted' = 0
    /\ UNCHANGED <<lastSyncOK, stale>>

\* What SyncEngine does without the status.
Besides ==
    /\ \/ \E d \in Docs : CreateDocument(d) \/ ResetForRetry(d)
       \/ \E w \in Requests : CancelRequest(w)
       \/ \E d \in Docs : BackoffElapses(d) \/ LateArrival(d)
       \/ LinkChanges \/ Restart
    /\ UNCHANGED status_vars

SweepEnds(w) == SetOnline(w) \/ RecordState(w) \/ RecordLost(w)

EmitHeartbeat == Ping \/ NotePing \/ Stats \/ PublishHeartbeat \/ HeartbeatLost

StatusNext ==
    \/ \E w \in Sweepers : SweepClaims(w) \/ SweepEnds(w)
    \/ \E w \in Sweepers, d \in Docs : SweepPosts(w, d) \/ SweepMarks(w, d)
    \/ EmitHeartbeat
    \/ Besides \/ StatusStop

StatusSpec == StatusInit /\ [][StatusNext]_allVars

\* As in SyncEngine; the rest of RunOnce runs on, the heartbeat's ticker ticks,
\* and the database does not fail every heartbeat.
StatusFairness ==
    /\ WF_allVars(Restart /\ UNCHANGED status_vars)
    /\ WF_allVars(SweepClaims(Engine))
    /\ \A w \in Sweepers :
        WF_allVars(SweepEnds(w) \/ \E d \in Docs : SweepPosts(w, d) \/ SweepMarks(w, d))
    /\ \A d \in Docs : WF_allVars(BackoffElapses(d) /\ UNCHANGED status_vars)
    /\ WF_allVars(EmitHeartbeat) /\ SF_allVars(Stats) /\ SF_allVars(PublishHeartbeat)

StatusFairSpec == StatusSpec /\ StatusFairness

-------------------------------------------------------------------------------
(* Properties.                                                             *)

\* last_sync_ok means that the central DMS accepted every document of the sweep
\* that wrote it, though the marks of some of them may have been lost.
OkSweepDelivered ==
    [][\A w \in Sweepers :
         RecordState(w) /\ lastSyncOK' => claimed[w] \subseteq accepted]_allVars

\* No heartbeat claims more documents synced than the central DMS accepted,
\* whatever was retried, failed late or crashed between the count and the event.
ReportedWasAccepted == counted <= Cardinality(accepted)

\* After the last outage began, heartbeats end up saying offline: no sweep or
\* ping that saw the link before can leave the flag set for good.
OutageIsReported == <>[](up /\ ~link) => <>[][PublishHeartbeat => ~online]_allVars

\* Once the link stays up and no post fails any more, heartbeats go out and end
\* up saying online, whatever an older sweep wrote, and with nothing to sync.
RecoveryIsReported ==
    Heartbeat /\ <>[](up /\ link /\ \A w \in Sweepers : refused[w] = {}) =>
        /\ []<><<PublishHeartbeat>>_allVars
        /\ <>[][PublishHeartbeat => online]_allVars

\* A sweep that writes last_sync_at after a newer one does lasting harm only
\* until the next sweep of the engine: then the row moves forward again, as
\* long as no more sweeps are forced beside the engine's.
StaleRowHeals ==
    /\ <>[](\A r \in Requests : stage[r] = "idle")
    /\ []<><<RecordState(Engine)>>_allVars
    => <>[](~stale)
===============================================================================
