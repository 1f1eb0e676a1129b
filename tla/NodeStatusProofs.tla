--------------------------- MODULE NodeStatusProofs ---------------------------
(***************************************************************************)
(* Theorems about NodeStatus, for all documents, requests, batch sizes and *)
(* faults.  The status only watches the engine, so that what holds of      *)
(* SyncEngine holds here; on top of it an error-free sweep has posted what *)
(* it claimed, and a heartbeat counts no more than was accepted.           *)
(***************************************************************************)
EXTENDS NodeStatus, SyncEngineProofs

\* What an error-free sweep claimed is still to be posted or was accepted.
Traced == \A w \in Sweepers : w \notin lastErr => claimed[w] \subseteq batch[w] \cup accepted

\* A sweep that has read the clock is through with its batch.
TimedIsThrough == \A w \in Sweepers : stage[w] = "timed" => Held(w) = {}

StatusInv ==
    /\ IInv
    /\ StatusTypeOK
    /\ Traced
    /\ TimedIsThrough
    /\ IsFiniteSet(accepted)
    /\ ReportedWasAccepted

-------------------------------------------------------------------------------

\* A step of the node with its status is a step of the engine or none.
LEMMA EngineStep == [StatusNext]_allVars => [Next]_vars
<1> SUFFICES ASSUME [StatusNext]_allVars PROVE [Next]_vars
  OBVIOUS
<1>1. CASE UNCHANGED allVars
  BY <1>1 DEF allVars
<1>2. ASSUME NEW w \in Sweepers, SweepClaims(w) PROVE [Next]_vars
  BY <1>2 DEF SweepClaims, Next
<1>3. ASSUME NEW w \in Sweepers, SweepEnds(w) PROVE [Next]_vars
  BY <1>3 DEF SweepEnds, SetOnline, RecordState, RecordLost, SweepReturns
<1>4. ASSUME NEW w \in Sweepers, NEW d \in Docs, SweepPosts(w, d) \/ SweepMarks(w, d)
      PROVE  [Next]_vars
  BY <1>4 DEF SweepPosts, SweepMarks, Next
<1>5. CASE EmitHeartbeat
  BY <1>5 DEF EmitHeartbeat, Ping, NotePing, Stats, PublishHeartbeat, HeartbeatLost
<1>6. CASE Besides
  BY <1>6 DEF Besides, Next
<1>7. CASE StatusStop
  BY <1>7 DEF StatusStop, Next
<1> QED
  BY <1>1, <1>2, <1>3, <1>4, <1>5, <1>6, <1>7 DEF StatusNext

\* The central DMS forgets nothing, and accepts one document at a time.
LEMMA AcceptedGrows ==
    ASSUME [Next]_vars
    PROVE  \/ accepted' = accepted
           \/ \E d \in Docs : accepted' = accepted \cup {d}
<1> USE DEF buffer, sweeps, upstream
<1>1. CASE UNCHANGED vars
  BY <1>1 DEF vars
<1>2. ASSUME NEW d \in Docs,
             CreateDocument(d) \/ ResetForRetry(d) \/ BackoffElapses(d) \/ LateArrival(d)
      PROVE  accepted' = accepted \/ accepted' = accepted \cup {d}
  BY <1>2 DEF CreateDocument, ResetForRetry, BackoffElapses, LateArrival
<1>3. ASSUME NEW w \in Sweepers, ClaimPending(w) \/ ClaimLost(w)
      PROVE  accepted' = accepted
  BY <1>3 DEF ClaimPending, ClaimLost
<1>4. ASSUME NEW w \in Sweepers, NEW d \in Docs, Post(w, d)
      PROVE  accepted' = accepted \/ accepted' = accepted \cup {d}
  BY <1>4 DEF Post, PostAccepted, PostRejected, PostFails, PostLost
<1>5. ASSUME NEW w \in Sweepers, NEW d \in Docs, Mark(w, d)
      PROVE  accepted' = accepted
  BY <1>5 DEF Mark, MarkSynced, MarkFailed, MarkLost, Finish
<1>6. ASSUME NEW w \in Requests, CancelRequest(w) PROVE accepted' = accepted
  BY <1>6 DEF CancelRequest
<1>7. CASE LinkChanges \/ Stop \/ Restart
  BY <1>7 DEF LinkChanges, Stop, Restart
<1> QED
  BY <1>1, <1>2, <1>3, <1>4, <1>5, <1>6, <1>7 DEF Next

-------------------------------------------------------------------------------

LEMMA StatusInvInit == StatusInit => StatusInv
<1> SUFFICES ASSUME StatusInit PROVE StatusInv
  OBVIOUS
<1>1. IInv
  BY IInvInit DEF StatusInit
<1>2. StatusTypeOK
  BY DEF StatusInit, StatusTypeOK
<1>3. Traced /\ TimedIsThrough
  BY DEF StatusInit, Traced, TimedIsThrough
<1>4. accepted = {}
  BY DEF StatusInit, Init
<1>5. IsFiniteSet(accepted) /\ Cardinality(accepted) = 0
  BY <1>4, FS_EmptySet
<1>6. ReportedWasAccepted
  BY <1>5 DEF StatusInit, ReportedWasAccepted
<1> QED
  BY <1>1, <1>2, <1>3, <1>5, <1>6 DEF StatusInv

\* The documents Stats counts are among the accepted ones.
LEMMA SyncedCount ==
    ASSUME StatusInv
    PROVE  LET synced == {d \in Docs : status[d] = "synced"}
           IN  Cardinality(synced) \in Nat /\ Cardinality(synced) <= Cardinality(accepted)
<1> DEFINE synced == {d \in Docs : status[d] = "synced"}
<1>1. synced \subseteq accepted
  BY DEF StatusInv, IInv, SyncedIsAccepted
<1>2. IsFiniteSet(accepted)
  BY DEF StatusInv
<1>3. IsFiniteSet(synced) /\ Cardinality(synced) <= Cardinality(accepted)
  BY <1>1, <1>2, FS_Subset
<1>4. Cardinality(synced) \in Nat
  BY <1>3, FS_CardinalityType
<1> QED
  BY <1>3, <1>4

\* The types: beside the engine's, no step leaves what RunOnce and the
\* heartbeat keep.
LEMMA StatusTypeStep ==
    ASSUME StatusInv, IInv', [StatusNext]_allVars
    PROVE  StatusTypeOK'
<1> USE DEF StatusTypeOK, runs, times, beats, status_vars
<1>t. StatusTypeOK /\ TypeOK'
  BY DEF StatusInv, IInv
<1>1. CASE UNCHANGED allVars
  BY <1>t, <1>1 DEF allVars
<1>2. ASSUME NEW w \in Sweepers, SweepClaims(w) PROVE StatusTypeOK'
  BY <1>t, <1>2 DEF SweepClaims, TypeOK
<1>3. ASSUME NEW w \in Sweepers, SetOnline(w) PROVE StatusTypeOK'
  BY <1>t, <1>3 DEF SetOnline
<1>4. ASSUME NEW w \in Sweepers, RecordState(w) PROVE StatusTypeOK'
  BY <1>t, <1>4 DEF RecordState, SweepReturns, Outcome
<1>5. ASSUME NEW w \in Sweepers, RecordLost(w) PROVE StatusTypeOK'
  BY <1>t, <1>5 DEF RecordLost, SweepReturns
<1>6. ASSUME NEW w \in Sweepers, NEW d \in Docs, SweepPosts(w, d) PROVE StatusTypeOK'
  BY <1>t, <1>6 DEF SweepPosts
<1>7. ASSUME NEW w \in Sweepers, NEW d \in Docs, SweepMarks(w, d) PROVE StatusTypeOK'
  BY <1>t, <1>7 DEF SweepMarks, StatusInv, IInv, TypeOK
<1>8. CASE Ping
  <2>1. beat' \in {"reached", "failed"}
    BY <1>8 DEF Ping
  <2> QED
    BY <1>t, <1>8, <2>1 DEF Ping
<1>9. CASE NotePing
  <2>1. online' \in BOOLEAN
    BY <1>9 DEF NotePing
  <2> QED
    BY <1>t, <1>9, <2>1 DEF NotePing
<1>10. CASE Stats
  BY <1>t, <1>10, SyncedCount DEF Stats
<1>11. CASE PublishHeartbeat
  BY <1>t, <1>11 DEF PublishHeartbeat
<1>12. CASE HeartbeatLost
  BY <1>t, <1>12 DEF HeartbeatLost
<1>13. CASE Besides
  BY <1>t, <1>13 DEF Besides
<1>14. CASE StatusStop
  BY <1>t, <1>14 DEF StatusStop
<1> QED
  BY <1>1, <1>2, <1>3, <1>4, <1>5, <1>6, <1>7, <1>8, <1>9, <1>10, <1>11, <1>12, <1>13, <1>14
     DEF StatusNext, SweepEnds, EmitHeartbeat

\* A document leaves an error-free sweep's batch only by being accepted.
LEMMA TracedStep ==
    ASSUME StatusInv, [StatusNext]_allVars
    PROVE  Traced'
<1> USE DEF Traced, runs, times, beats, status_vars
<1>t. StatusTypeOK /\ TypeOK /\ Traced
  BY DEF StatusInv, IInv
<1>g. accepted \subseteq accepted'
  BY EngineStep, AcceptedGrows
<1>1. CASE UNCHANGED allVars
  BY <1>t, <1>1 DEF allVars, vars, sweeps, upstream
<1>2. ASSUME NEW w \in Sweepers, SweepClaims(w) PROVE Traced'
  <2>1. CASE ClaimPending(w) /\ claimed' = [claimed EXCEPT ![w] = batch'[w]]
    BY <1>t, <1>2, <2>1 DEF SweepClaims, ClaimPending, StatusTypeOK, TypeOK, upstream
  <2>2. CASE ClaimLost(w) /\ UNCHANGED <<stage, claimed>>
    BY <1>t, <1>2, <2>2 DEF SweepClaims, ClaimLost, sweeps, upstream
  <2> QED
    BY <1>2, <2>1, <2>2 DEF SweepClaims
<1>3. ASSUME NEW w \in Sweepers, SetOnline(w) PROVE Traced'
  BY <1>t, <1>3 DEF SetOnline, vars, sweeps, upstream
<1>4. ASSUME NEW w \in Sweepers, SweepReturns(w) PROVE Traced'
  <2>1. \A v \in Sweepers : claimed'[v] = IF v = w THEN {} ELSE claimed[v]
    BY <1>t, <1>4 DEF SweepReturns, StatusTypeOK
  <2> QED
    BY <1>t, <1>4, <2>1 DEF SweepReturns, vars, sweeps, upstream
<1>5. ASSUME NEW w \in Sweepers, NEW d \in Docs, SweepPosts(w, d) PROVE Traced'
  <2>1. \A v \in Sweepers : batch'[v] = IF v = w THEN batch[v] \ {d} ELSE batch[v]
    BY <1>t, <1>5 DEF SweepPosts, Post, Posting, PostAccepted, PostRejected, PostFails, PostLost, TypeOK
  <2>2. d \in accepted' \/ d \in refused'[w]
    BY <1>t, <1>5 DEF SweepPosts, Post, PostAccepted, PostRejected, PostFails, PostLost, TypeOK
  <2>3. claimed' = claimed
    BY <1>5 DEF SweepPosts
  <2>4. lastErr' = IF d \in refused'[w] THEN lastErr \cup {w} ELSE lastErr
    BY <1>5 DEF SweepPosts
  <2> QED
    BY <1>t, <1>g, <2>1, <2>2, <2>3, <2>4
<1>6. ASSUME NEW w \in Sweepers, NEW d \in Docs, SweepMarks(w, d) PROVE Traced'
  BY <1>t, <1>6 DEF SweepMarks, Mark, MarkSynced, MarkFailed, MarkLost, Finish, upstream
<1>7. CASE EmitHeartbeat
  BY <1>t, <1>7 DEF EmitHeartbeat, Ping, NotePing, Stats, PublishHeartbeat, HeartbeatLost,
                    vars, sweeps, upstream
<1>8. CASE Besides
  <2>1. batch' = batch /\ claimed' = claimed /\ lastErr' = lastErr
    BY <1>8 DEF Besides, CreateDocument, ResetForRetry, CancelRequest, BackoffElapses,
                LateArrival, LinkChanges, Restart, sweeps
  <2> QED
    BY <1>t, <1>g, <2>1
<1>9. CASE StatusStop
  BY <1>9 DEF StatusStop
<1> QED
  BY <1>1, <1>2, <1>3, <1>4, <1>5, <1>6, <1>7, <1>8, <1>9
     DEF StatusNext, SweepEnds, RecordState, RecordLost

\* Nothing comes into a sweep's hands after it has read the clock.
LEMMA TimedStep ==
    ASSUME StatusInv, [StatusNext]_allVars
    PROVE  TimedIsThrough'
<1> USE DEF TimedIsThrough, Held, runs, times, beats, status_vars
<1>t. StatusTypeOK /\ TypeOK /\ TimedIsThrough
  BY DEF StatusInv, IInv
<1>1. CASE UNCHANGED allVars
  BY <1>t, <1>1 DEF allVars, vars, sweeps
<1>2. ASSUME NEW w \in Sweepers, SweepClaims(w) PROVE TimedIsThrough'
  <2>1. CASE ClaimPending(w) /\ stage' = [stage EXCEPT ![w] = "batch"]
    BY <1>t, <2>1 DEF ClaimPending, StatusTypeOK, TypeOK
  <2>2. CASE ClaimLost(w) /\ UNCHANGED <<stage, claimed>>
    BY <1>t, <2>2 DEF ClaimLost, sweeps
  <2> QED
    BY <1>2, <2>1, <2>2 DEF SweepClaims
<1>3. ASSUME NEW w \in Sweepers, SetOnline(w) PROVE TimedIsThrough'
  BY <1>t, <1>3 DEF SetOnline, vars, sweeps, StatusTypeOK
<1>4. ASSUME NEW w \in Sweepers, SweepReturns(w) PROVE TimedIsThrough'
  BY <1>t, <1>4 DEF SweepReturns, vars, sweeps, StatusTypeOK
<1>5. ASSUME NEW w \in Sweepers, NEW d \in Docs, SweepPosts(w, d) PROVE TimedIsThrough'
  <2>1. d \in batch[w] /\ stage' = stage
    BY <1>5 DEF SweepPosts, Post, Posting, PostAccepted, PostRejected, PostFails, PostLost
  <2>2. \A v \in Sweepers \ {w} :
          batch'[v] = batch[v] /\ acked'[v] = acked[v] /\ refused'[v] = refused[v]
    BY <1>t, <1>5 DEF SweepPosts, Post, Posting, PostAccepted, PostRejected, PostFails, PostLost, TypeOK
  <2> QED
    BY <1>t, <2>1, <2>2
<1>6. ASSUME NEW w \in Sweepers, NEW d \in Docs, SweepMarks(w, d) PROVE TimedIsThrough'
  <2>1. Finish(w, d) /\ stage' = stage
    BY <1>6 DEF SweepMarks, Mark, MarkSynced, MarkFailed, MarkLost
  <2>2. \A v \in Sweepers :
          batch'[v] = batch[v] /\ acked'[v] \subseteq acked[v] /\ refused'[v] \subseteq refused[v]
    BY <1>t, <2>1 DEF Finish, TypeOK
  <2> QED
    BY <1>t, <2>1, <2>2
<1>7. CASE EmitHeartbeat
  BY <1>t, <1>7 DEF EmitHeartbeat, Ping, NotePing, Stats, PublishHeartbeat, HeartbeatLost,
                    vars, sweeps
<1>8. CASE Besides
  <2>1. batch' = batch /\ acked' = acked /\ refused' = refused /\ stage' = stage
    BY <1>8 DEF Besides, CreateDocument, ResetForRetry, CancelRequest, BackoffElapses,
                LateArrival, LinkChanges, Restart, sweeps
  <2> QED
    BY <1>t, <2>1
<1>9. CASE StatusStop
  BY <1>9 DEF StatusStop
<1> QED
  BY <1>1, <1>2, <1>3, <1>4, <1>5, <1>6, <1>7, <1>8, <1>9
     DEF StatusNext, SweepEnds, RecordState, RecordLost

\* The number of accepted documents only grows, and only Stats counts anew.
LEMMA ReportedStep ==
    ASSUME StatusInv, StatusTypeOK', [StatusNext]_allVars
    PROVE  IsFiniteSet(accepted') /\ ReportedWasAccepted'
<1>1. IsFiniteSet(accepted')
  <2>1. CASE accepted' = accepted
    BY <2>1 DEF StatusInv
  <2>2. CASE \E d \in Docs : accepted' = accepted \cup {d}
    BY <2>2, FS_AddElement DEF StatusInv
  <2> QED
    BY <2>1, <2>2, EngineStep, AcceptedGrows
<1>2. accepted \subseteq accepted'
  BY EngineStep, AcceptedGrows
<1>3. /\ Cardinality(accepted) <= Cardinality(accepted')
      /\ Cardinality(accepted) \in Nat /\ Cardinality(accepted') \in Nat
  BY <1>1, <1>2, FS_Subset, FS_CardinalityType DEF StatusInv
<1>4. counted \in Nat /\ counted <= Cardinality(accepted)
  BY DEF StatusInv, StatusTypeOK, ReportedWasAccepted
<1>5. counted' = counted \/ counted' = 0
        \/ counted' = Cardinality({d \in Docs : status[d] = "synced"})
  <2> USE DEF beats
  <2>1. CASE UNCHANGED allVars
    BY <2>1 DEF allVars, status_vars
  <2>2. ASSUME NEW w \in Sweepers, SweepClaims(w) \/ SweepEnds(w) PROVE counted' = counted
    BY <2>2 DEF SweepClaims, SweepEnds, SetOnline, RecordState, RecordLost, SweepReturns
  <2>3. ASSUME NEW w \in Sweepers, NEW d \in Docs, SweepPosts(w, d) \/ SweepMarks(w, d)
        PROVE  counted' = counted
    BY <2>3 DEF SweepPosts, SweepMarks
  <2>4. CASE EmitHeartbeat
    BY <2>4 DEF EmitHeartbeat, Ping, NotePing, Stats, PublishHeartbeat, HeartbeatLost
  <2>5. CASE Besides \/ StatusStop
    BY <2>5 DEF Besides, StatusStop, status_vars
  <2> QED
    BY <2>1, <2>2, <2>3, <2>4, <2>5 DEF StatusNext
<1>6. counted' <= Cardinality(accepted')
  BY <1>3, <1>4, <1>5, SyncedCount
<1> QED
  BY <1>1, <1>6 DEF ReportedWasAccepted

LEMMA StatusInvStep == StatusInv /\ [StatusNext]_allVars => StatusInv'
<1> SUFFICES ASSUME StatusInv, [StatusNext]_allVars PROVE StatusInv'
  OBVIOUS
<1>1. IInv'
  BY EngineStep, IInvStep DEF StatusInv
<1>2. StatusTypeOK'
  BY <1>1, StatusTypeStep
<1> QED
  BY <1>1, <1>2, TracedStep, TimedStep, ReportedStep DEF StatusInv

-------------------------------------------------------------------------------

\* The inductive invariant of the engine and of what it tells about itself.
THEOREM StatusInvariance == StatusSpec => []StatusInv
  BY StatusInvInit, StatusInvStep, PTL DEF StatusSpec

\* The node with its status behaves as SyncEngine: every theorem about Spec
\* holds of the node that also reports (RunOnce, Run, heartbeatLoop).
THEOREM EngineRuns == StatusSpec => Spec
<1>1. StatusInit => Init
  BY DEF StatusInit
<1> QED
  BY <1>1, EngineStep, PTL DEF StatusSpec, Spec

\* Every reachable state of the status is well typed.
THEOREM StatusTypes == StatusSpec => []StatusTypeOK
<1>1. StatusInv => StatusTypeOK
  BY DEF StatusInv
<1> QED
  BY <1>1, StatusInvariance, PTL

\* A heartbeat claims no more documents synced than the central DMS accepted.
THEOREM HeartbeatsAreTrue == StatusSpec => []ReportedWasAccepted
<1>1. StatusInv => ReportedWasAccepted
  BY DEF StatusInv
<1> QED
  BY <1>1, StatusInvariance, PTL

\* recordState writes last_sync_ok only for a sweep whose every document was
\* accepted, whatever the size of its batch and the faults it met.
THEOREM OkIsDelivered == StatusSpec => OkSweepDelivered
<1>1. StatusInv => (\A w \in Sweepers :
        RecordState(w) /\ lastSyncOK' => claimed[w] \subseteq accepted)
  <2> SUFFICES ASSUME StatusInv, NEW w \in Sweepers, RecordState(w), lastSyncOK'
               PROVE  claimed[w] \subseteq accepted
    OBVIOUS
  <2>1. w \notin lastErr /\ stage[w] = "timed"
    BY DEF RecordState, Outcome
  <2>2. batch[w] = {}
    BY <2>1 DEF StatusInv, TimedIsThrough, Held
  <2> QED
    BY <2>1, <2>2 DEF StatusInv, Traced
<1> QED
  BY <1>1, StatusInvariance, PTL DEF OkSweepDelivered
===============================================================================
