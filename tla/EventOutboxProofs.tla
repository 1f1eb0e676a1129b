-------------------------- MODULE EventOutboxProofs ---------------------------
(***************************************************************************)
(* Theorems about EventOutbox for every set of references, handlers and    *)
(* publishers and every set of faults.                                     *)
(***************************************************************************)
EXTENDS EventOutbox, TLAPS

(***************************************************************************)
(* Every action of capture, publisher and environment keeps the types.     *)
(***************************************************************************)
LEMMA TypeStep ==
  ASSUME TypeOK, [Next]_vars
  PROVE  TypeOK'
<1> USE BoundsAssumption DEF TypeOK, changes, outbox, drain, Writers
<1>1. ASSUME NEW h \in Handlers, NEW f \in Refs, Capture(h, f)
      PROVE  TypeOK'
  BY <1>1 DEF Capture, CaptureInsert, CaptureReload, CaptureFails
<1>2. ASSUME NEW f \in Refs, ResetForRetry(f) \/ \E w \in Sweeps : MarkSynced(w, f)
      PROVE  TypeOK'
  <2>1. CASE ResetForRetry(f)
    <3>1. requeues[f] + 1 \in 0..MaxRequeues
      BY <2>1 DEF ResetForRetry
    <3>2. QED  BY <2>1, <3>1 DEF ResetForRetry
  <2>2. ASSUME NEW w \in Sweeps, MarkSynced(w, f)
        PROVE  TypeOK'
    BY <2>2 DEF MarkSynced
  <2>3. QED  BY <1>2, <2>1, <2>2
<1>3. ASSUME NEW w \in Writers, NEW f \in Refs, Publish(w, f)
      PROVE  TypeOK'
  <2>1. [ref |-> f, by |-> w] \in Rows
    BY DEF Rows
  <2>2. QED  BY <1>3, <2>1 DEF Publish, Enqueue, EnqueueFails
<1>4. ASSUME NEW p \in Publishers, ClaimBatch(p) \/ ClaimLost(p) \/ MarkLost(p)
      PROVE  TypeOK'
  BY <1>4 DEF ClaimBatch, ClaimLost, MarkLost
<1>5. ASSUME NEW p \in Publishers, NEW r \in Rows, DrainRow(p, r)
      PROVE  TypeOK'
  <2>1. CASE DispatchOutbox(p, r) \/ DispatchFails(p, r) \/ DispatchUnacked(p, r)
    BY <2>1 DEF DispatchOutbox, DispatchFails, DispatchUnacked, Dispatching, Write
  <2>2. CASE MarkDispatched(p, r) \/ MarkFailed(p, r)
    BY <2>2 DEF MarkDispatched, MarkFailed
  <2>3. QED  BY <1>5, <2>1, <2>2 DEF DrainRow
<1>6. ASSUME NEW r \in Rows, AvailableAgain(r)
      PROVE  TypeOK'
  BY <1>6 DEF AvailableAgain
<1>7. CASE BrokerChanges \/ Stop \/ Restart \/ UNCHANGED vars
  BY <1>7 DEF BrokerChanges, Stop, Restart, vars
<1>8. QED
  BY <1>1, <1>2, <1>3, <1>4, <1>5, <1>6, <1>7 DEF Next

-------------------------------------------------------------------------------
(***************************************************************************)
(* What the conjuncts about changes and rows speak of.  The publisher and  *)
(* the environment leave the changes alone, and Queued too: a mark only    *)
(* moves a row from pending to dispatched.                                 *)
(***************************************************************************)
LEMMA QueuedStep ==
  ASSUME IInv, Next,
         ~ \E h \in Handlers, f \in Refs : Capture(h, f),
         ~ \E w \in Sweeps, f \in Refs : MarkSynced(w, f),
         ~ \E w \in Writers, f \in Refs : Publish(w, f)
  PROVE  /\ Queued' = Queued
         /\ UNCHANGED <<stored, synced>>
         /\ \A h \in Handlers : inserted'[h] \subseteq inserted[h]
         /\ \A w \in Writers : owes'[w] \subseteq owes[w]
<1> USE DEF IInv, TypeOK, Queued, changes, outbox, drain
<1>1. ASSUME NEW p \in Publishers, ClaimBatch(p) \/ ClaimLost(p) \/ MarkLost(p)
      PROVE  Queued' = Queued /\ UNCHANGED changes
  BY <1>1 DEF ClaimBatch, ClaimLost, MarkLost
<1>2. ASSUME NEW p \in Publishers, NEW r \in Rows, DrainRow(p, r)
      PROVE  Queued' = Queued /\ UNCHANGED changes
  <2>1. CASE MarkDispatched(p, r)
    <3>1. r \in Queued
      BY <2>1 DEF MarkDispatched, OnlyQueuedIsWritten
    <3>2. QED  BY <2>1, <3>1 DEF MarkDispatched
  <2>2. CASE ~MarkDispatched(p, r)
    BY <1>2, <2>2 DEF DrainRow, DispatchOutbox, DispatchFails, DispatchUnacked,
                      Dispatching, MarkFailed
  <2>3. QED  BY <2>1, <2>2
<1>3. ASSUME NEW r \in Rows, AvailableAgain(r)
      PROVE  Queued' = Queued /\ UNCHANGED changes
  BY <1>3 DEF AvailableAgain
<1>4. CASE BrokerChanges \/ Restart
  BY <1>4 DEF BrokerChanges, Restart
<1>5. CASE Stop
  BY <1>5 DEF Stop
<1>6. ASSUME NEW f \in Refs, ResetForRetry(f)
      PROVE  Queued' = Queued /\ UNCHANGED <<stored, synced, inserted, owes>>
  BY <1>6 DEF ResetForRetry
<1>7. QED
  BY <1>1, <1>2, <1>3, <1>4, <1>5, <1>6 DEF Next

(***************************************************************************)
(* One row per change: the insert gives a new document to one handler, the *)
(* mark gives it to a sweep once, and Enqueue ends what either owes.       *)
(***************************************************************************)
LEMMA RowsStep ==
  ASSUME IInv, Next
  PROVE  /\ RowsFollowChanges'
         /\ OwedFollowsChange'
         /\ OneWriterEach'
         /\ OwedHasNoRow'
         /\ OneRowPerChange'
<1> DEFINE Inv == /\ RowsFollowChanges
                  /\ OwedFollowsChange
                  /\ OneWriterEach
                  /\ OwedHasNoRow
                  /\ OneRowPerChange
<1> USE HandlersAssumption
    DEF IInv, TypeOK, Writers, RowsFollowChanges, OwedFollowsChange, OneWriterEach,
        OwedHasNoRow, OneRowPerChange, Queued, changes, outbox
<1>1. ASSUME NEW h \in Handlers, NEW f \in Refs, Capture(h, f)
      PROVE  Inv'
  <2>1. /\ UNCHANGED <<pending, dispatched, synced>>
        /\ \A w \in Sweeps : owes'[w] = owes[w]
    BY <1>1 DEF Capture, CaptureInsert, CaptureReload, CaptureFails
  <2>2. CASE CaptureInsert(h, f)
    <3>1. \A r \in Queued : r.by \notin Sweeps => r.ref # f
      BY <2>2 DEF CaptureInsert
    <3>2. \A g \in Handlers : f \notin inserted[g] \cup owes[g]
      BY <2>2 DEF CaptureInsert
    <3>3. /\ stored' = stored \cup {f} /\ owes' = owes
          /\ inserted' = [inserted EXCEPT ![h] = {f}]
          /\ inserted[h] \cup owes[h] = {}
      BY <2>2 DEF CaptureInsert
    <3>4. QED  BY <2>1, <3>1, <3>2, <3>3
  <2>3. CASE CaptureReload(h, f)
    BY <2>1, <2>3 DEF CaptureReload
  <2>4. CASE CaptureFails(h, f)
    BY <2>1, <2>4 DEF CaptureFails
  <2>5. QED  BY <1>1, <2>2, <2>3, <2>4 DEF Capture
<1>2. ASSUME NEW w \in Sweeps, NEW f \in Refs, MarkSynced(w, f)
      PROVE  Inv'
  <2>1. \A r \in Queued : r.by = w => r.ref # f
    BY <1>2 DEF MarkSynced
  <2>2. QED  BY <1>2, <2>1 DEF MarkSynced
<1>3. ASSUME NEW w \in Writers, NEW f \in Refs, Publish(w, f)
      PROVE  Inv'
  <2>1. CASE Enqueue(w, f)
    <3> DEFINE r == [ref |-> f, by |-> w]
    <3>1. r \in Rows /\ r.ref = f /\ r.by = w
      BY DEF Rows
    <3>2. \A s \in Queued : {s.by, r.by} \subseteq Handlers => s.ref # f
      BY <2>1, <3>1 DEF Enqueue
    <3>3. /\ Queued' = Queued \cup {r}
          /\ owes' = [owes EXCEPT ![w] = @ \ {f}]
          /\ f \in owes[w]
          /\ UNCHANGED <<stored, synced, inserted>>
      BY <2>1 DEF Enqueue
    <3>4. RowsFollowChanges' /\ OwedFollowsChange' /\ OneWriterEach'
      BY <3>1, <3>3
    <3>5. OneRowPerChange'
      BY <3>1, <3>2, <3>3
    <3>6. OwedHasNoRow'
      BY <3>1, <3>3
    <3>7. QED  BY <3>4, <3>5, <3>6
  <2>2. CASE EnqueueFails(w, f)
    BY <2>2 DEF EnqueueFails
  <2>3. QED  BY <1>3, <2>1, <2>2 DEF Publish
<1>4. CASE /\ ~ \E h \in Handlers, f \in Refs : Capture(h, f)
           /\ ~ \E w \in Sweeps, f \in Refs : MarkSynced(w, f)
           /\ ~ \E w \in Writers, f \in Refs : Publish(w, f)
  <2>1. /\ Queued' = Queued
        /\ UNCHANGED <<stored, synced>>
        /\ \A h \in Handlers : inserted'[h] \subseteq inserted[h]
        /\ \A w \in Writers : owes'[w] \subseteq owes[w]
    BY <1>4, QueuedStep
  <2>2. QED  BY <2>1
<1>5. QED  BY <1>1, <1>2, <1>3, <1>4

(***************************************************************************)
(* A row's writes only grow, and a write is one more, counted up to the    *)
(* bound.                                                                  *)
(***************************************************************************)
LEMMA WriteCounts ==
  ASSUME TypeOK, NEW r \in Rows, Write(r)
  PROVE  /\ writes'[r] > 0
         /\ \A s \in Rows : writes[s] > 0 => writes'[s] > 0
         /\ \A s \in Rows : s # r => writes'[s] = writes[s]
BY BoundsAssumption DEF TypeOK, Write

(***************************************************************************)
(* The publisher's side: only queued rows are claimed and written, and     *)
(* what is marked dispatched was written.                                  *)
(***************************************************************************)
LEMMA WritesStep ==
  ASSUME IInv, Next
  PROVE  /\ OnlyQueuedIsWritten'
         /\ WrittenReachedKafka'
         /\ DispatchedWasWritten'
<1> DEFINE Inv == /\ OnlyQueuedIsWritten
                  /\ WrittenReachedKafka
                  /\ DispatchedWasWritten
<1> USE DEF IInv, TypeOK, OnlyQueuedIsWritten, WrittenReachedKafka,
            DispatchedWasWritten, Queued, changes, outbox, drain
<1>1. ASSUME NEW h \in Handlers, NEW f \in Refs, Capture(h, f)
      PROVE  Inv'
  BY <1>1 DEF Capture, CaptureInsert, CaptureReload, CaptureFails
<1>2. ASSUME NEW f \in Refs, ResetForRetry(f) \/ \E w \in Sweeps : MarkSynced(w, f)
      PROVE  Inv'
  BY <1>2 DEF ResetForRetry, MarkSynced
<1>3. ASSUME NEW w \in Writers, NEW f \in Refs, Publish(w, f)
      PROVE  Inv'
  BY <1>3 DEF Publish, Enqueue, EnqueueFails
<1>4. ASSUME NEW p \in Publishers, ClaimBatch(p) \/ ClaimLost(p) \/ MarkLost(p)
      PROVE  Inv'
  BY <1>4 DEF ClaimBatch, ClaimLost, MarkLost
<1>5. ASSUME NEW p \in Publishers, NEW r \in Rows, DrainRow(p, r)
      PROVE  Inv'
  <2>1. CASE DispatchOutbox(p, r) \/ DispatchUnacked(p, r)
    <3>1. r \in Queued /\ Write(r) /\ UNCHANGED <<pending, dispatched, available>>
      BY <2>1 DEF DispatchOutbox, DispatchUnacked, Dispatching
    <3>2. /\ writes'[r] > 0
          /\ \A s \in Rows : writes[s] > 0 => writes'[s] > 0
          /\ \A s \in Rows : s # r => writes'[s] = writes[s]
      BY <3>1, WriteCounts
    <3>3. \A q \in Publishers :
             /\ (claimed[q] \cup written[q] \cup refused[q])' \subseteq Queued
             /\ \A s \in written'[q] : s = r \/ s \in written[q]
      BY <2>1, <3>1 DEF DispatchOutbox, DispatchUnacked, Dispatching
    <3>4. QED  BY <3>1, <3>2, <3>3
  <2>2. CASE DispatchFails(p, r)
    BY <2>2 DEF DispatchFails, Dispatching
  <2>3. CASE MarkDispatched(p, r)
    <3>1. r \in Queued /\ writes[r] > 0
      BY <2>3 DEF MarkDispatched
    <3>2. QED  BY <2>3, <3>1 DEF MarkDispatched
  <2>4. CASE MarkFailed(p, r)
    BY <2>4 DEF MarkFailed
  <2>5. QED  BY <1>5, <2>1, <2>2, <2>3, <2>4 DEF DrainRow
<1>6. ASSUME NEW r \in Rows, AvailableAgain(r)
      PROVE  Inv'
  BY <1>6 DEF AvailableAgain
<1>7. CASE BrokerChanges \/ Stop \/ Restart
  BY <1>7 DEF BrokerChanges, Stop, Restart
<1>8. QED
  BY <1>1, <1>2, <1>3, <1>4, <1>5, <1>6, <1>7 DEF Next

-------------------------------------------------------------------------------
(***************************************************************************)
(* A fresh database satisfies the inductive invariant.                     *)
(***************************************************************************)
LEMMA InitEstablishes ==
  ASSUME Init
  PROVE  IInv
BY BoundsAssumption
   DEF Init, IInv, TypeOK, Writers, Queued, RowsFollowChanges, OwedFollowsChange,
       OneWriterEach, OwedHasNoRow, OneRowPerChange, OnlyQueuedIsWritten,
       WrittenReachedKafka, DispatchedWasWritten

(***************************************************************************)
(* So does a step that changes nothing.                                    *)
(***************************************************************************)
LEMMA StutterKeeps ==
  ASSUME IInv, UNCHANGED vars
  PROVE  IInv'
BY DEF vars, changes, outbox, drain, IInv, TypeOK, Queued, RowsFollowChanges,
       OwedFollowsChange, OneWriterEach, OwedHasNoRow, OneRowPerChange,
       OnlyQueuedIsWritten, WrittenReachedKafka, DispatchedWasWritten

(***************************************************************************)
(* What the provers need of a reachable state: rows follow changes, a      *)
(* change is owed or in the table but not both, and only rows of the table *)
(* are written (CaptureDocument, Publish and drainOnce together).          *)
(***************************************************************************)
THEOREM Invariance == Spec => []IInv
<1>1. Init => IInv
  BY InitEstablishes
<1>2. ASSUME IInv, [Next]_vars
      PROVE  IInv'
  <2>1. CASE Next
    <3>1. TypeOK'
      BY <2>1, <1>2, TypeStep DEF IInv
    <3>2. /\ RowsFollowChanges' /\ OwedFollowsChange' /\ OneWriterEach'
          /\ OwedHasNoRow' /\ OneRowPerChange'
      BY <2>1, <1>2, RowsStep
    <3>3. OnlyQueuedIsWritten' /\ WrittenReachedKafka' /\ DispatchedWasWritten'
      BY <2>1, <1>2, WritesStep
    <3>4. QED  BY <3>1, <3>2, <3>3 DEF IInv
  <2>2. CASE UNCHANGED vars
    BY <2>2, <1>2, StutterKeeps
  <2>3. QED  BY <1>2, <2>1, <2>2
<1>3. QED  BY <1>1, <1>2, PTL DEF Spec

(***************************************************************************)
(* Every state of capture, outbox and publisher is well typed.             *)
(***************************************************************************)
THEOREM TypeCorrectness == Spec => []TypeOK
<1>1. IInv => TypeOK
  BY DEF IInv
<1>2. QED  BY <1>1, Invariance, PTL

(***************************************************************************)
(* However many handlers capture one reference side by side or again, and  *)
(* whatever crashes, one buffered event at most is queued for it.          *)
(***************************************************************************)
THEOREM OneEventPerChange == Spec => []OneRowPerChange
<1>1. IInv => OneRowPerChange
  BY DEF IInv
<1>2. QED  BY <1>1, Invariance, PTL

(***************************************************************************)
(* What reaches Kafka is true: the document is stored, or was marked synced *)
(* by the sweep that says so.                                              *)
(***************************************************************************)
THEOREM EventsAreTrue == Spec => []AnnouncedHappened
<1>1. IInv => AnnouncedHappened
  <2> SUFFICES ASSUME IInv, NEW r \in Rows, writes[r] > 0
               PROVE  r.ref \in IF r.by \in Sweeps THEN synced[r.by] ELSE stored
    BY DEF AnnouncedHappened
  <2>1. r \in Queued
    BY DEF IInv, OnlyQueuedIsWritten
  <2>2. QED  BY <2>1 DEF IInv, RowsFollowChanges
<1>2. QED  BY <1>1, Invariance, PTL

(***************************************************************************)
(* dispatched_at is set only on rows Kafka has, whatever publishers race   *)
(* over expired leases and whichever marks are lost.                       *)
(***************************************************************************)
THEOREM RetiredRowsWereSent == Spec => []DispatchedWasWritten
<1>1. IInv => DispatchedWasWritten
  BY DEF IInv
<1>2. QED  BY <1>1, Invariance, PTL

-------------------------------------------------------------------------------
(***************************************************************************)
(* A step of the publisher's row in hand, undisturbed: the row is pending  *)
(* and not yet sent, and is sent at most this once (writeEnvelope), or it  *)
(* is in Kafka and is retired (MarkDispatched).                            *)
(***************************************************************************)
LEMMA DrainSendsOnce ==
  ASSUME Undisturbed, IInv, SentOnceInv,
         NEW p \in Publishers, NEW r \in Rows, DrainRow(p, r)
  PROVE  SentOnceInv'
<1> USE DEF IInv, TypeOK, SentOnceInv, NothingRefused, TakenIsPending, ClaimedIsUnsent,
            SentIsInHand, WrittenOnce, changes, outbox
<1>1. \A q \in Publishers : q = p
  BY DEF Undisturbed
<1>2. CASE DispatchOutbox(p, r)
  <2>1. /\ r \in claimed[p] /\ r \in pending /\ writes[r] = 0
        /\ written[p] = {}
    BY <1>2 DEF DispatchOutbox, Dispatching
  <2>2. writes'[r] = 1 /\ \A s \in Rows \ {r} : writes'[s] = writes[s]
    <3>1. 0 < WriteCap
      BY BoundsAssumption
    <3>2. writes' = [writes EXCEPT ![r] = writes[r] + 1]
      BY <1>2, <2>1, <3>1 DEF DispatchOutbox, Write
    <3>3. QED  BY <2>1, <3>2
  <2>3. /\ claimed' = [claimed EXCEPT ![p] = @ \ {r}]
        /\ written' = [written EXCEPT ![p] = {r}]
        /\ UNCHANGED <<pending, dispatched, refused, broker, up>>
    BY <1>2 DEF DispatchOutbox, Dispatching
  <2>4. claimed'[p] = claimed[p] \ {r} /\ written'[p] = {r}
    BY <2>3
  <2>5. NothingRefused' /\ TakenIsPending'
    BY <1>1, <2>1, <2>3, <2>4
  <2>6. ClaimedIsUnsent'
    BY <1>1, <2>2, <2>4
  <2>7. SentIsInHand'
    <3> SUFFICES ASSUME NEW s \in pending, s # r, writes[s] > 0
                 PROVE  FALSE
      BY <2>2, <2>3, <2>4
    <3>1. written[p] = {s}
      BY <1>1
    <3>2. QED  BY <2>1, <3>1
  <2>8. WrittenOnce'
    BY <2>2
  <2>9. QED  BY <2>5, <2>6, <2>7, <2>8
<1>3. ~DispatchFails(p, r) /\ ~DispatchUnacked(p, r) /\ ~MarkFailed(p, r)
  BY DEF DispatchFails, DispatchUnacked, MarkFailed
<1>4. CASE MarkDispatched(p, r)
  <2>1. written[p] # {} /\ r \in written[p]
    BY <1>4 DEF MarkDispatched
  <2>2. ASSUME NEW s \in pending, writes[s] > 0
        PROVE  s = r
    <3>1. PICK q \in Publishers : written[q] = {s}
      BY <2>2
    <3>2. q = p
      BY <1>1
    <3>3. QED  BY <2>1, <3>1, <3>2
  <2>3. /\ pending' = pending \ {r} /\ dispatched' = dispatched \cup {r}
        /\ written' = [written EXCEPT ![p] = {}] /\ written'[p] = {}
        /\ UNCHANGED <<claimed, refused, writes, broker, up>>
    BY <1>4 DEF MarkDispatched
  <2>4. writes[r] > 0
    BY <2>1 DEF WrittenReachedKafka
  <2>5. r \notin claimed[p]
    BY <2>4
  <2>6. QED  BY <1>1, <2>2, <2>3, <2>5
<1>5. QED
  BY <1>2, <1>3, <1>4 DEF DrainRow

(***************************************************************************)
(* The steps around it: a new row is one Kafka has never seen, and a claim *)
(* finds the publisher without a row in hand, so all it can take is unsent *)
(* (ClaimBatch), however long ago the leases before it ran out.            *)
(***************************************************************************)
LEMMA SentOnceStep ==
  ASSUME Undisturbed, IInv, SentOnceInv, [Next]_vars
  PROVE  SentOnceInv'
<1> USE DEF SentOnceInv, NothingRefused, TakenIsPending, ClaimedIsUnsent,
            SentIsInHand, WrittenOnce, changes, outbox, drain
<1>1. ASSUME NEW h \in Handlers, NEW f \in Refs, Capture(h, f)
      PROVE  SentOnceInv'
  BY <1>1 DEF Capture, CaptureInsert, CaptureReload, CaptureFails
<1>2. ASSUME NEW f \in Refs, ResetForRetry(f) \/ \E w \in Sweeps : MarkSynced(w, f)
      PROVE  SentOnceInv'
  BY <1>2 DEF ResetForRetry, MarkSynced
<1>3. ASSUME NEW w \in Writers, NEW f \in Refs, Enqueue(w, f)
      PROVE  SentOnceInv'
  <2> DEFINE r == [ref |-> f, by |-> w]
  <2>1. r \notin Queued /\ r \in Rows
    <3>1. r.by = w /\ r.ref = f /\ f \in owes[w] /\ r \in Rows
      BY <1>3 DEF Enqueue, Rows
    <3>2. QED  BY <3>1, HandlersAssumption DEF IInv, OwedHasNoRow, Writers
  <2>2. writes[r] = 0
    BY <2>1 DEF IInv, TypeOK, OnlyQueuedIsWritten
  <2>3. /\ pending' = pending \cup {r}
        /\ UNCHANGED <<dispatched, claimed, written, refused, writes, broker, up>>
    BY <1>3 DEF Enqueue
  <2>4. QED  BY <2>1, <2>2, <2>3 DEF Queued
<1>4. ASSUME NEW w \in Writers, NEW f \in Refs, EnqueueFails(w, f)
      PROVE  SentOnceInv'
  BY <1>4 DEF EnqueueFails
<1>5. ASSUME NEW p \in Publishers, ClaimBatch(p)
      PROVE  SentOnceInv'
  <2>1. \A q \in Publishers : q = p
    BY DEF Undisturbed
  <2>2. \A r \in available : r \in pending /\ writes[r] = 0
    <3>1. written[p] = {} /\ available \subseteq pending /\ pending \subseteq Rows
      BY <1>5 DEF ClaimBatch, Idle, IInv, OnlyQueuedIsWritten, TypeOK
    <3>2. \A r \in pending : ~(writes[r] > 0)
      BY <2>1, <3>1
    <3>3. QED  BY <3>1, <3>2 DEF IInv, TypeOK
  <2>3. /\ claimed'[p] = available
        /\ UNCHANGED <<pending, dispatched, written, refused, writes, broker, up>>
    BY <1>5 DEF ClaimBatch, IInv, TypeOK
  <2>4. QED  BY <2>1, <2>2, <2>3
<1>6. ASSUME NEW p \in Publishers
      PROVE  ~ClaimLost(p) /\ ~MarkLost(p)
  BY DEF Undisturbed, ClaimLost, MarkLost
<1>7. ASSUME NEW p \in Publishers, NEW r \in Rows, DrainRow(p, r)
      PROVE  SentOnceInv'
  BY <1>7, DrainSendsOnce
<1>8. ASSUME NEW r \in Rows, AvailableAgain(r)
      PROVE  SentOnceInv'
  BY <1>8 DEF AvailableAgain
<1>9. ~BrokerChanges /\ ~Stop /\ ~Restart
  BY DEF Undisturbed, BrokerChanges, Stop, Restart
<1>10. CASE UNCHANGED vars
  BY <1>10 DEF vars
<1>11. QED
  BY <1>1, <1>2, <1>3, <1>4, <1>5, <1>6, <1>7, <1>8, <1>9, <1>10 DEF Next, Publish

(***************************************************************************)
(* With one publisher whose database, broker and process hold, every row   *)
(* reaches Kafka at most once, however short the lease is compared to the  *)
(* work on a batch (ClaimBatch, drainOnce).                                *)
(***************************************************************************)
THEOREM SentOnce == Undisturbed => (Spec => []WrittenOnce)
<1> DEFINE Inv == Undisturbed => SentOnceInv
<1>1. Init => Inv
  BY DEF Init, SentOnceInv, NothingRefused, TakenIsPending, ClaimedIsUnsent,
         SentIsInHand, WrittenOnce
<1>2. IInv /\ Inv /\ [Next]_vars => Inv'
  BY SentOnceStep DEF Undisturbed
<1>3. Spec => []Inv
  BY <1>1, <1>2, Invariance, PTL DEF Spec
<1>4. Undisturbed /\ Inv => WrittenOnce
  BY DEF SentOnceInv
<1>5. Undisturbed => []Undisturbed
  BY DEF Undisturbed
<1>6. QED  BY <1>3, <1>4, <1>5, PTL

-------------------------------------------------------------------------------
(***************************************************************************)
(* One row more announces one event more.                                  *)
(***************************************************************************)
LEMMA EventsOfMore ==
  ASSUME NEW S, NEW r
  PROVE  EventsOf(S \cup {r}) = EventsOf(S) \cup {Announces(r)}
BY DEF EventsOf

(***************************************************************************)
(* A row of the outbox announces an event, one EventDelivery knows.        *)
(***************************************************************************)
LEMMA EventsAgree ==
  /\ Events = Delivery!Events
  /\ \A r \in Rows : Announces(r) \in Events
BY DEF Rows, Announces, Events, Delivery!Events

(***************************************************************************)
(* The changes: an insert, or a mark, makes one change happen, for the     *)
(* first time.                                                             *)
(***************************************************************************)
LEMMA ChangeDelivers ==
  ASSUME IInv, NEW f \in Refs,
         \/ \E w \in Sweeps : MarkSynced(w, f)
         \/ \E h \in Handlers : Capture(h, f)
  PROVE  [Delivery!Next]_(Delivery!vars)
<1> USE DEF outbox, Happened
<1>1. ASSUME NEW w \in Sweeps, MarkSynced(w, f)
      PROVE  Delivery!Next
  <2> DEFINE e == <<"synced", f, w>>
  <2>1. /\ f \in stored \ synced[w]
        /\ synced' = [synced EXCEPT ![w] = @ \cup {f}]
        /\ UNCHANGED <<stored, pending, dispatched, writes>>
    BY <1>1 DEF MarkSynced
  <2>2. e \in Events /\ <<"buffered", f, "capture">> \in Events
    BY DEF Events
  <2>3. e \notin Happened /\ <<"buffered", f, "capture">> \in Happened
    BY <2>1, <2>2
  <2>4. Happened' = Happened \cup {e}
    <3>1. \A x \in Events : x \in Happened' <=> x \in Happened \/ x = e
      BY <2>1 DEF Events, IInv, TypeOK
    <3>2. QED  BY <2>2, <3>1
  <2>5. Delivery!Happen(e)
    BY <2>1, <2>3, <2>4 DEF Delivery!Happen
  <2>6. QED  BY <2>2, <2>5, EventsAgree DEF Delivery!Next
<1>2. ASSUME NEW h \in Handlers, CaptureInsert(h, f)
      PROVE  Delivery!Next
  <2> DEFINE e == <<"buffered", f, "capture">>
  <2>1. /\ f \notin stored
        /\ stored' = stored \cup {f}
        /\ UNCHANGED <<synced, pending, dispatched, writes>>
    BY <1>2 DEF CaptureInsert
  <2>2. e \in Events /\ e \notin Happened
    BY <2>1 DEF Events
  <2>3. Happened' = Happened \cup {e}
    <3>1. \A x \in Events : x \in Happened' <=> x \in Happened \/ x = e
      BY <2>1 DEF Events
    <3>2. QED  BY <2>2, <3>1
  <2>4. Delivery!Happen(e)
    BY <2>1, <2>2, <2>3 DEF Delivery!Happen
  <2>5. QED  BY <2>2, <2>4, EventsAgree DEF Delivery!Next
<1>3. ASSUME NEW h \in Handlers, CaptureReload(h, f) \/ CaptureFails(h, f)
      PROVE  UNCHANGED Delivery!vars
  BY <1>3 DEF CaptureReload, CaptureFails, Delivery!vars
<1>4. QED  BY <1>1, <1>2, <1>3 DEF Capture

(***************************************************************************)
(* Enqueue promises an event that has not been promised: what a writer     *)
(* owes has no row, and rows of one event are one (Publish).               *)
(***************************************************************************)
LEMMA EnqueuePromises ==
  ASSUME IInv, NEW w \in Writers, NEW f \in Refs, Enqueue(w, f)
  PROVE  \E e \in Delivery!Events : Delivery!Promise(e)
<1> DEFINE r == [ref |-> f, by |-> w]
<1>1. r \in Rows /\ r.ref = f /\ r.by = w
  BY DEF Rows
<1>2. f \in owes[w] /\ UNCHANGED <<stored, synced, dispatched, writes>>
  BY DEF Enqueue, outbox
<1>3. pending' \cup dispatched' = (pending \cup dispatched) \cup {r}
  BY DEF Enqueue
<1>4. EventsOf(pending \cup dispatched)' = EventsOf(pending \cup dispatched) \cup {Announces(r)}
  BY <1>3, EventsOfMore DEF EventsOf
<1>5. Announces(r) \notin EventsOf(pending \cup dispatched)
  <2> SUFFICES ASSUME NEW s \in Queued, Announces(s) = Announces(r)
               PROVE  FALSE
    BY DEF EventsOf, Queued
  <2>1. s.by \in Writers
    BY DEF IInv, RowsFollowChanges, Rows
  <2>2. s.ref = f /\ (s.by \in Sweeps <=> w \in Sweeps) /\ (w \in Sweeps => s.by = w)
    BY <1>1 DEF Announces
  <2>3. QED
    BY <1>2, <2>1, <2>2 DEF IInv, OwedHasNoRow, Writers
<1>6. Announces(r) \in Happened
  <2>1. f \in IF w \in Sweeps THEN synced[w] ELSE stored
    BY <1>2 DEF IInv, OwedFollowsChange, Writers
  <2>2. QED  BY <1>1, <2>1, EventsAgree DEF Announces, Happened
<1>7. Delivery!Promise(Announces(r))
  BY <1>2, <1>4, <1>5, <1>6 DEF Delivery!Promise, Happened
<1>8. QED  BY <1>1, <1>7, EventsAgree

(***************************************************************************)
(* A write announces a promised event; a mark settles an announced one;    *)
(* nothing else the publisher does to a row is seen by consumers.          *)
(***************************************************************************)
LEMMA DrainDelivers ==
  ASSUME IInv, NEW p \in Publishers, NEW r \in Rows, DrainRow(p, r)
  PROVE  [Delivery!Next]_(Delivery!vars)
<1> USE DEF changes, outbox, Happened
<1>1. CASE DispatchOutbox(p, r) \/ DispatchUnacked(p, r)
  <2>1. /\ r \in Queued /\ Write(r)
        /\ UNCHANGED <<stored, synced, pending, dispatched>>
    BY <1>1 DEF DispatchOutbox, DispatchUnacked, Dispatching, IInv, OnlyQueuedIsWritten
  <2>2. /\ writes'[r] > 0
        /\ \A s \in Rows : s # r => writes'[s] = writes[s]
    BY <2>1, WriteCounts DEF IInv
  <2>3. {s \in Rows : writes'[s] > 0} = {s \in Rows : writes[s] > 0} \cup {r}
    BY <2>2
  <2>4. EventsOf({s \in Rows : writes[s] > 0})' =
            EventsOf({s \in Rows : writes[s] > 0}) \cup {Announces(r)}
    BY <2>3, EventsOfMore DEF EventsOf
  <2>5. Announces(r) \in EventsOf(pending \cup dispatched)
    BY <2>1 DEF EventsOf, Queued
  <2>6. Delivery!Announce(Announces(r))
    BY <2>1, <2>4, <2>5 DEF Delivery!Announce
  <2>7. QED  BY <2>6, EventsAgree DEF Delivery!Next
<1>2. CASE MarkDispatched(p, r)
  <2>1. /\ dispatched' = dispatched \cup {r}
        /\ pending' = pending \ {r}
        /\ UNCHANGED <<stored, synced, writes>>
        /\ r \in Queued /\ writes[r] > 0
    BY <1>2 DEF MarkDispatched, IInv, OnlyQueuedIsWritten, WrittenReachedKafka
  <2>2. pending' \cup dispatched' = pending \cup dispatched
    BY <2>1 DEF Queued
  <2>3. EventsOf(dispatched)' = EventsOf(dispatched) \cup {Announces(r)}
    BY <2>1, EventsOfMore DEF EventsOf
  <2>4. Announces(r) \in EventsOf({s \in Rows : writes[s] > 0})
    BY <2>1 DEF EventsOf
  <2>5. Delivery!Settle(Announces(r))
    BY <2>1, <2>2, <2>3, <2>4 DEF Delivery!Settle
  <2>6. QED  BY <2>5, EventsAgree DEF Delivery!Next
<1>3. CASE DispatchFails(p, r) \/ MarkFailed(p, r)
  BY <1>3 DEF DispatchFails, MarkFailed, Dispatching, Delivery!vars
<1>4. QED  BY <1>1, <1>2, <1>3 DEF DrainRow

LEMMA DeliveryStep ==
  ASSUME IInv, [Next]_vars
  PROVE  [Delivery!Next]_(Delivery!vars)
<1> USE DEF changes, outbox, drain, Happened
<1>1. ASSUME NEW h \in Handlers, NEW f \in Refs, Capture(h, f)
      PROVE  [Delivery!Next]_(Delivery!vars)
  BY <1>1, ChangeDelivers
<1>2. ASSUME NEW w \in Sweeps, NEW f \in Refs, MarkSynced(w, f)
      PROVE  [Delivery!Next]_(Delivery!vars)
  BY <1>2, ChangeDelivers
<1>3. ASSUME NEW w \in Writers, NEW f \in Refs, Enqueue(w, f)
      PROVE  Delivery!Next
  BY <1>3, EnqueuePromises DEF Delivery!Next
<1>4. ASSUME NEW w \in Writers, NEW f \in Refs, EnqueueFails(w, f)
      PROVE  UNCHANGED Delivery!vars
  BY <1>4 DEF EnqueueFails, Delivery!vars
<1>5. ASSUME NEW p \in Publishers, ClaimBatch(p) \/ ClaimLost(p) \/ MarkLost(p)
      PROVE  UNCHANGED Delivery!vars
  BY <1>5 DEF ClaimBatch, ClaimLost, MarkLost, Delivery!vars
<1>6. ASSUME NEW p \in Publishers, NEW r \in Rows, DrainRow(p, r)
      PROVE  [Delivery!Next]_(Delivery!vars)
  BY <1>6, DrainDelivers
<1>7. ASSUME NEW r \in Rows, AvailableAgain(r)
      PROVE  UNCHANGED Delivery!vars
  BY <1>7 DEF AvailableAgain, Delivery!vars
<1>8. CASE BrokerChanges \/ Stop \/ Restart \/ UNCHANGED vars
  BY <1>8 DEF BrokerChanges, Stop, Restart, vars, Delivery!vars
<1>9. ASSUME NEW f \in Refs, ResetForRetry(f)
      PROVE  UNCHANGED Delivery!vars
  BY <1>9 DEF ResetForRetry, Delivery!vars
<1>10. QED
  BY <1>1, <1>2, <1>3, <1>4, <1>5, <1>6, <1>7, <1>8, <1>9 DEF Next, Publish

(***************************************************************************)
(* Capture, mark, outbox and publishers, with every fault, implement       *)
(* EventDelivery: at least once for what is queued, nothing untrue, and    *)
(* nothing given up (events, outbox).                                      *)
(***************************************************************************)
THEOREM Refinement == Spec => ImplementsEventDelivery
<1>1. Init => Delivery!Init
  <2>1. Init => Happened = {}
    BY DEF Init, Happened, Events
  <2>2. QED  BY <2>1 DEF Init, Delivery!Init, EventsOf
<1>2. QED
  BY <1>1, DeliveryStep, Invariance, PTL DEF Spec, ImplementsEventDelivery, Delivery!Spec
===============================================================================
