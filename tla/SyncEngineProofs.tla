--------------------------- MODULE SyncEngineProofs ---------------------------
(***************************************************************************)
(* Theorems about SyncEngine for every set of documents, every finite set  *)
(* of requests, every batch size, both stores and every set of faults.     *)
(***************************************************************************)
EXTENDS SyncEngine, TLAPS, FiniteSetTheorems

(***************************************************************************)
(* The rows a claim returns are buffered or failed ones: the claim's       *)
(* WHERE clause, for either store.                                         *)
(***************************************************************************)
LEMMA ClaimResultsClaimable ==
  ASSUME TypeOK, BufferedIsDue, NEW S \in ClaimResults
  PROVE  /\ S \subseteq Docs
         /\ \A d \in S : status[d] \in {"buffered", "failed"}
<1>1. ASSUME NEW skipped
      PROVE  /\ Oldest(skipped) \subseteq Docs
             /\ \A d \in Oldest(skipped) : status[d] \in {"buffered", "failed"}
  BY DEF TypeOK, BufferedIsDue, Oldest
<1>2. CASE Backend = "postgres"
  <2>1. PICK skipped : S = Oldest(skipped)
    BY <1>2 DEF ClaimResults
  <2>2. QED  BY <1>1, <2>1
<1>3. CASE Backend # "postgres"
  <2>1. PICK T : T \subseteq {d \in Docs : status[d] = "failed"} /\ S = Oldest({}) \cup T
    BY <1>3 DEF ClaimResults
  <2>2. QED  BY <1>1, <2>1
<1>4. QED  BY <1>2, <1>3

-------------------------------------------------------------------------------
(***************************************************************************)
(* Every variable keeps its type: no step leaves the lifecycle of          *)
(* models/document.go or the bounds of the counters.                       *)
(***************************************************************************)
LEMMA TypeInit == Init => TypeOK
BY BoundsAssumption DEF Init, TypeOK, Statuses

LEMMA TypeStep ==
  ASSUME TypeOK, BufferedIsDue, [Next]_vars
  PROVE  TypeOK'
<1> USE BoundsAssumption DEF TypeOK, Statuses, buffer, sweeps, upstream
<1>1. ASSUME NEW d \in Docs, CreateDocument(d)
      PROVE  TypeOK'
  BY <1>1 DEF CreateDocument, Release
<1>2. ASSUME NEW d \in Docs, ResetForRetry(d)
      PROVE  TypeOK'
  BY <1>2 DEF ResetForRetry, Release
<1>3. ASSUME NEW S \in ClaimResults, Claim(S)
      PROVE  /\ status' \in [Docs -> Statuses]
             /\ due' \in SUBSET Docs
             /\ ahead' \in [Docs -> SUBSET Docs]
             /\ S \in SUBSET Docs
  <2>1. S \in SUBSET Docs
    BY ClaimResultsClaimable
  <2>2. QED  BY <1>3, <2>1 DEF Claim, Withdraw
<1>4. ASSUME NEW w \in Sweepers, ClaimPending(w)
      PROVE  TypeOK'
  <2>1. PICK S \in ClaimResults : Claim(S) /\ batch' = [batch EXCEPT ![w] = S]
    BY <1>4 DEF ClaimPending
  <2>2. QED  BY <1>3, <1>4, <2>1 DEF ClaimPending
<1>5. ASSUME NEW w \in Sweepers, ClaimLost(w)
      PROVE  TypeOK'
  <2>1. PICK S \in ClaimResults : Claim(S)
    BY <1>5 DEF ClaimLost
  <2>2. QED  BY <1>3, <1>5, <2>1 DEF ClaimLost
<1>6. ASSUME NEW w \in Sweepers, NEW d \in Docs, Post(w, d)
      PROVE  TypeOK'
  BY <1>6 DEF Post, Posting, PostAccepted, PostRejected, PostFails, PostLost
<1>7. ASSUME NEW w \in Sweepers, NEW d \in Docs, Mark(w, d)
      PROVE  TypeOK'
  BY <1>7 DEF Mark, MarkSynced, MarkFailed, MarkLost, Finish, Withdraw
<1>8. ASSUME NEW w \in Requests, CancelRequest(w)
      PROVE  TypeOK'
  BY <1>8 DEF CancelRequest
<1>9. ASSUME NEW d \in Docs, BackoffElapses(d)
      PROVE  TypeOK'
  BY <1>9 DEF BackoffElapses, Release
<1>10. ASSUME NEW d \in Docs, LateArrival(d)
       PROVE  TypeOK'
  BY <1>10 DEF LateArrival
<1>11. CASE LinkChanges
  BY <1>11 DEF LinkChanges
<1>12. CASE Stop
  BY <1>12 DEF Stop
<1>13. CASE Restart
  BY <1>13 DEF Restart
<1>14. CASE UNCHANGED vars
  BY <1>14 DEF vars
<1>15. QED
  BY <1>1, <1>2, <1>4, <1>5, <1>6, <1>7, <1>8, <1>9, <1>10, <1>11, <1>12,
     <1>13, <1>14 DEF Next

-------------------------------------------------------------------------------
(***************************************************************************)
(* A buffered document stays due and only buffered or failed ones are due: *)
(* the insert, the retry, the claim and the marks keep status and          *)
(* available_at in step.                                                   *)
(***************************************************************************)
LEMMA DueInit == Init => BufferedIsDue
BY DEF Init, BufferedIsDue

LEMMA DueStep ==
  ASSUME TypeOK, BufferedIsDue, [Next]_vars
  PROVE  BufferedIsDue'
<1> USE DEF TypeOK, BufferedIsDue, buffer, sweeps, upstream
<1>1. ASSUME NEW d \in Docs, CreateDocument(d)
      PROVE  BufferedIsDue'
  BY <1>1 DEF CreateDocument, Release
<1>2. ASSUME NEW d \in Docs, ResetForRetry(d)
      PROVE  BufferedIsDue'
  BY <1>2 DEF ResetForRetry, Release
<1>3. ASSUME NEW w \in Sweepers, ClaimPending(w) \/ ClaimLost(w)
      PROVE  BufferedIsDue'
  <2>1. PICK S \in ClaimResults : Claim(S)
    BY <1>3 DEF ClaimPending, ClaimLost
  <2>2. QED  BY <2>1 DEF Claim, Withdraw
<1>4. ASSUME NEW w \in Sweepers, NEW d \in Docs, Post(w, d)
      PROVE  BufferedIsDue'
  BY <1>4 DEF Post, Posting, PostAccepted, PostRejected, PostFails, PostLost
<1>5. ASSUME NEW w \in Sweepers, NEW d \in Docs, Mark(w, d)
      PROVE  BufferedIsDue'
  BY <1>5 DEF Mark, MarkSynced, MarkFailed, MarkLost, Withdraw
<1>6. ASSUME NEW w \in Requests, CancelRequest(w)
      PROVE  BufferedIsDue'
  BY <1>6 DEF CancelRequest
<1>7. ASSUME NEW d \in Docs, BackoffElapses(d)
      PROVE  BufferedIsDue'
  BY <1>7 DEF BackoffElapses, Release
<1>8. ASSUME NEW d \in Docs, LateArrival(d)
      PROVE  BufferedIsDue'
  BY <1>8 DEF LateArrival
<1>9. CASE LinkChanges \/ Stop \/ Restart \/ UNCHANGED vars
  BY <1>9 DEF LinkChanges, Stop, Restart, vars
<1>10. QED
  BY <1>1, <1>2, <1>3, <1>4, <1>5, <1>6, <1>7, <1>8, <1>9 DEF Next

-------------------------------------------------------------------------------
(***************************************************************************)
(* Counting holders.  Sweepers is finite, so a set of sweepers grows by at *)
(* most one when one joins and shrinks by one when a member leaves.        *)
(***************************************************************************)
LEMMA SweepersFinite == IsFiniteSet(Sweepers)
BY RequestsAssumption, FS_Singleton, FS_Union DEF Sweepers

LEMMA Counting ==
  ASSUME NEW H \in SUBSET Sweepers
  PROVE  /\ Cardinality(H) \in Nat
         /\ H = {} => Cardinality(H) = 0
         /\ H # {} => Cardinality(H) >= 1
         /\ \A G \in SUBSET H : Cardinality(G) <= Cardinality(H)
         /\ \A w : Cardinality(H \cup {w}) <= Cardinality(H) + 1
         /\ \A w \in H : Cardinality(H \ {w}) = Cardinality(H) - 1
<1>1. IsFiniteSet(H)
  BY SweepersFinite, FS_Subset
<1>2. Cardinality(H) \in Nat
  BY <1>1, FS_CardinalityType
<1>3. Cardinality(H) = 0 <=> H = {}
  BY <1>1, FS_EmptySet
<1>4. \A G \in SUBSET H : Cardinality(G) <= Cardinality(H)
  BY <1>1, FS_Subset
<1>5. \A w : Cardinality(H \cup {w}) <= Cardinality(H) + 1
  BY <1>1, <1>2, FS_AddElement
<1>6. \A w \in H : Cardinality(H \ {w}) = Cardinality(H) - 1
  BY <1>1, FS_RemoveElement
<1>7. QED  BY <1>2, <1>3, <1>4, <1>5, <1>6

LEMMA HoldersType == \A d : Holders(d) \in SUBSET Sweepers /\ Holders(d)' \in SUBSET Sweepers
BY DEF Holders

(***************************************************************************)
(* A document that was never captured is held by no sweep, and one that a  *)
(* sweep holds and nobody retried is syncing.                              *)
(***************************************************************************)
LEMMA HeldWasClaimed ==
  ASSUME TypeOK, CapturedFirst, ClaimantsBounded,
         NEW w \in Sweepers, NEW d \in Held(w)
  PROVE  /\ d \in Docs
         /\ status[d] # "absent"
         /\ requeues[d] = 0 => status[d] = "syncing"
<1>1. d \in Docs
  BY DEF TypeOK, Held
<1>2. w \in Holders(d)
  BY DEF Holders
<1>3. Cardinality(Holders(d)) \in Nat /\ Cardinality(Holders(d)) >= 1
  BY <1>2, Counting, HoldersType
<1>4. requeues[d] = 0 => status[d] = "syncing"
  BY <1>1, <1>3 DEF ClaimantsBounded, Claimants
<1>5. QED  BY <1>1, <1>4 DEF CapturedFirst

-------------------------------------------------------------------------------
(***************************************************************************)
(* A sweep never holds a document both as claimed and as posted: it takes  *)
(* a document out of its batch before it posts, and claims only when idle. *)
(***************************************************************************)
LEMMA HeldOnceStep ==
  ASSUME TypeOK, HeldOnce, [Next]_vars
  PROVE  HeldOnce'
<1> USE DEF TypeOK, HeldOnce, buffer, sweeps, upstream
<1>1. ASSUME NEW d \in Docs,
             CreateDocument(d) \/ ResetForRetry(d) \/ BackoffElapses(d) \/ LateArrival(d)
      PROVE  HeldOnce'
  BY <1>1 DEF CreateDocument, ResetForRetry, BackoffElapses, LateArrival
<1>2. ASSUME NEW w \in Sweepers, ClaimPending(w) \/ ClaimLost(w)
      PROVE  HeldOnce'
  BY <1>2 DEF ClaimPending, ClaimLost, MaySweep, Held
<1>3. ASSUME NEW w \in Sweepers, NEW d \in Docs, Post(w, d)
      PROVE  HeldOnce'
  BY <1>3 DEF Post, Posting, PostAccepted, PostRejected, PostFails, PostLost
<1>4. ASSUME NEW w \in Sweepers, NEW d \in Docs, Mark(w, d)
      PROVE  HeldOnce'
  BY <1>4 DEF Mark, MarkSynced, MarkFailed, MarkLost, Finish
<1>5. ASSUME NEW w \in Requests, CancelRequest(w)
      PROVE  HeldOnce'
  BY <1>5 DEF CancelRequest
<1>6. CASE LinkChanges \/ Stop \/ Restart \/ UNCHANGED vars
  BY <1>6 DEF LinkChanges, Stop, Restart, vars
<1>7. QED
  BY <1>1, <1>2, <1>3, <1>4, <1>5, <1>6 DEF Next

-------------------------------------------------------------------------------
(***************************************************************************)
(* Nothing reaches the central DMS before it was captured, a 2xx is an     *)
(* acceptance, and a document is marked synced on a 2xx only.              *)
(***************************************************************************)
LEMMA AcceptedStep ==
  ASSUME IInv, [Next]_vars
  PROVE  (CapturedFirst /\ AckedIsAccepted /\ SyncedIsAccepted)'
<1> DEFINE Inv == CapturedFirst /\ AckedIsAccepted /\ SyncedIsAccepted
<1> USE DEF IInv, TypeOK, CapturedFirst, AckedIsAccepted, SyncedIsAccepted,
            buffer, sweeps, upstream
<1>1. ASSUME NEW d \in Docs,
             CreateDocument(d) \/ ResetForRetry(d) \/ BackoffElapses(d) \/ LateArrival(d)
      PROVE  Inv'
  BY <1>1 DEF CreateDocument, ResetForRetry, BackoffElapses, LateArrival
<1>2. ASSUME NEW w \in Sweepers, ClaimPending(w) \/ ClaimLost(w)
      PROVE  Inv'
  <2>1. PICK S \in ClaimResults : Claim(S)
    BY <1>2 DEF ClaimPending, ClaimLost
  <2>2. \A d \in S : status[d] \in {"buffered", "failed"}
    BY ClaimResultsClaimable
  <2>3. UNCHANGED <<acked, accepted, wire, requeues>>
    BY <1>2 DEF ClaimPending, ClaimLost
  <2>4. QED  BY <2>1, <2>2, <2>3 DEF Claim
<1>3. ASSUME NEW w \in Sweepers, NEW d \in Docs, Post(w, d)
      PROVE  Inv'
  <2>1. status[d] # "absent"
    BY <1>3, HeldWasClaimed
       DEF Post, Posting, PostAccepted, PostRejected, PostFails, PostLost, Held
  <2>2. CASE PostAccepted(w, d)
    BY <2>1, <2>2 DEF PostAccepted, Posting
  <2>3. CASE PostRejected(w, d) \/ PostFails(w, d)
    BY <2>3 DEF PostRejected, PostFails, Posting
  <2>4. CASE PostLost(w, d)
    BY <2>1, <2>4 DEF PostLost, Posting
  <2>5. QED  BY <1>3, <2>2, <2>3, <2>4 DEF Post
<1>4. ASSUME NEW w \in Sweepers, NEW d \in Docs, Mark(w, d)
      PROVE  Inv'
  <2>1. \A v \in Sweepers : acked'[v] \subseteq acked[v]
    BY <1>4 DEF Mark, MarkSynced, MarkFailed, MarkLost, Finish
  <2>2. CASE MarkSynced(w, d)
    <3>1. d \in accepted
      BY <2>2 DEF MarkSynced
    <3>2. QED  BY <2>1, <2>2, <3>1 DEF MarkSynced, Finish
  <2>3. CASE MarkFailed(w, d) \/ MarkLost(w, d)
    BY <2>1, <2>3 DEF MarkFailed, MarkLost, Finish
  <2>4. QED  BY <1>4, <2>2, <2>3 DEF Mark
<1>5. ASSUME NEW w \in Requests, CancelRequest(w)
      PROVE  Inv'
  BY <1>5 DEF CancelRequest
<1>6. CASE LinkChanges \/ Stop \/ Restart \/ UNCHANGED vars
  BY <1>6 DEF LinkChanges, Stop, Restart, vars
<1>7. QED
  BY <1>1, <1>2, <1>3, <1>4, <1>5, <1>6 DEF Next

-------------------------------------------------------------------------------
(***************************************************************************)
(* What a step does to a document and its holders: a retry buffers it, a   *)
(* claim gives a buffered or failed one to at most one sweep more, a mark  *)
(* ends with its sweep, and nothing else moves it.                         *)
(***************************************************************************)
Retried(x) ==
    /\ Holders(x)' = Holders(x)
    /\ status'[x] = "buffered" /\ requeues'[x] = requeues[x] + 1

Claimed(x) ==
    /\ Cardinality(Holders(x)') <= Cardinality(Holders(x)) + 1
    /\ status[x] \in {"buffered", "failed"} /\ status'[x] = "syncing"
    /\ requeues'[x] = requeues[x]

Marked(x) ==
    /\ Cardinality(Holders(x)') = Cardinality(Holders(x)) - 1
    /\ status'[x] \in {"synced", "failed", status[x]}
    /\ requeues'[x] = requeues[x]

Kept(x) ==
    /\ Holders(x)' \subseteq Holders(x)
    /\ status'[x] = status[x] \/ (status[x] = "absent" /\ status'[x] = "buffered")
    /\ requeues'[x] = requeues[x]

LEMMA MarkEndsHold ==
  ASSUME IInv, NEW x \in Docs, NEW w \in Sweepers, Mark(w, x)
  PROVE  /\ Marked(x)
         /\ MarkSynced(w, x) => status'[x] = "synced"
<1> USE DEF IInv, TypeOK, buffer
<1>1. /\ x \in acked[w] \cup refused[w] /\ batch' = batch
      /\ acked' = [acked EXCEPT ![w] = @ \ {x}]
      /\ refused' = [refused EXCEPT ![w] = @ \ {x}]
      /\ requeues' = requeues
  BY DEF Mark, MarkSynced, MarkFailed, MarkLost, Finish
<1>2. w \in Holders(x) /\ Holders(x)' = Holders(x) \ {w}
  <2>1. x \notin batch[w]
    BY <1>1 DEF HeldOnce
  <2>2. QED  BY <1>1, <2>1 DEF Holders, Held
<1>3. Cardinality(Holders(x)') = Cardinality(Holders(x)) - 1
  BY <1>2, Counting, HoldersType
<1>4. /\ status'[x] \in {"synced", "failed", status[x]}
      /\ MarkSynced(w, x) => status'[x] = "synced"
  BY DEF Mark, MarkSynced, MarkFailed, MarkLost
<1>5. QED  BY <1>1, <1>3, <1>4 DEF Marked

LEMMA DocumentStep ==
  ASSUME IInv, [Next]_vars, NEW x \in Docs
  PROVE  Retried(x) \/ Claimed(x) \/ Marked(x) \/ Kept(x)
<1> USE DEF IInv, TypeOK, buffer, sweeps, upstream
<1>1. ASSUME NEW d \in Docs, CreateDocument(d)
      PROVE  Kept(x)
  BY <1>1 DEF CreateDocument, Holders, Held, Kept
<1>2. ASSUME NEW d \in Docs, ResetForRetry(d)
      PROVE  Retried(x) \/ Kept(x)
  <2>1. Holders(x)' = Holders(x)
    BY <1>2 DEF ResetForRetry, Holders, Held
  <2>2. QED  BY <1>2, <2>1 DEF ResetForRetry, Retried, Kept
<1>3. ASSUME NEW w \in Sweepers, ClaimPending(w) \/ ClaimLost(w)
      PROVE  Claimed(x) \/ Kept(x)
  <2>1. PICK S \in ClaimResults :
          /\ Claim(S)
          /\ batch' = [batch EXCEPT ![w] = S] \/ batch' = batch
    BY <1>3 DEF ClaimPending, ClaimLost
  <2>2. Held(w) = {} /\ UNCHANGED <<acked, refused, requeues>>
    BY <1>3 DEF ClaimPending, ClaimLost, MaySweep
  <2>3. CASE x \in S
    <3>1. status[x] \in {"buffered", "failed"} /\ status'[x] = "syncing"
      BY <2>1, <2>3, ClaimResultsClaimable DEF Claim
    <3>2. Holders(x)' = Holders(x) \/ Holders(x)' = Holders(x) \cup {w}
      BY <2>1, <2>2, <2>3 DEF Holders, Held
    <3>3. Cardinality(Holders(x)') <= Cardinality(Holders(x)) + 1
      BY <3>2, Counting, HoldersType
    <3>4. QED  BY <2>2, <3>1, <3>3 DEF Claimed
  <2>4. CASE x \notin S
    <3>1. status'[x] = status[x]
      BY <2>1, <2>4 DEF Claim
    <3>2. Holders(x)' = Holders(x)
      BY <2>1, <2>2, <2>4 DEF Holders, Held
    <3>3. QED  BY <2>2, <3>1, <3>2 DEF Kept
  <2>5. QED  BY <2>3, <2>4
<1>4. ASSUME NEW w \in Sweepers, NEW d \in Docs, Post(w, d)
      PROVE  Kept(x)
  <2>1. Holders(x)' = Holders(x)
    <3>1. \A v \in Sweepers : x \in Held(v)' <=> x \in Held(v)
      BY <1>4 DEF Post, Posting, PostAccepted, PostRejected, PostFails, PostLost, Held
    <3>2. QED  BY <3>1 DEF Holders
  <2>2. UNCHANGED <<status, requeues>>
    BY <1>4 DEF Post, Posting, PostAccepted, PostRejected, PostFails, PostLost
  <2>3. QED  BY <2>1, <2>2 DEF Kept
<1>5. ASSUME NEW w \in Sweepers, NEW d \in Docs, Mark(w, d)
      PROVE  Marked(x) \/ Kept(x)
  <2>1. CASE x = d
    BY <1>5, <2>1, MarkEndsHold
  <2>2. CASE x # d
    <3>1. status'[x] = status[x] /\ requeues' = requeues
      BY <1>5, <2>2 DEF Mark, MarkSynced, MarkFailed, MarkLost, Finish
    <3>2. Holders(x)' \subseteq Holders(x)
      BY <1>5 DEF Mark, MarkSynced, MarkFailed, MarkLost, Finish, Holders, Held
    <3>3. QED  BY <3>1, <3>2 DEF Kept
  <2>3. QED  BY <2>1, <2>2
<1>6. CASE \/ \E w \in Requests : CancelRequest(w)
           \/ \E d \in Docs : BackoffElapses(d) \/ LateArrival(d)
           \/ LinkChanges \/ Stop \/ Restart \/ UNCHANGED vars
  <2>1. UNCHANGED <<status, requeues>>
    BY <1>6 DEF CancelRequest, BackoffElapses, LateArrival, LinkChanges, Stop,
                Restart, vars
  <2>2. Holders(x)' \subseteq Holders(x)
    BY <1>6 DEF CancelRequest, BackoffElapses, LateArrival, LinkChanges, Stop,
                Restart, vars, Holders, Held
  <2>3. QED  BY <2>1, <2>2 DEF Kept
<1>7. QED
  BY <1>1, <1>2, <1>3, <1>4, <1>5, <1>6 DEF Next

LEMMA HoldersCounted ==
  ASSUME IInv, NEW x \in Docs
  PROVE  /\ Cardinality(Holders(x)) \in Nat /\ Cardinality(Holders(x)') \in Nat
         /\ Holders(x)' \subseteq Holders(x) =>
                Cardinality(Holders(x)') <= Cardinality(Holders(x))
         /\ requeues[x] \in Nat
<1>1. requeues[x] \in Nat
  BY BoundsAssumption DEF IInv, TypeOK
<1>2. QED  BY <1>1, Counting, HoldersType

(***************************************************************************)
(* Holders plus the claim a document outside "syncing" still allows: a     *)
(* claim trades that permission for a holder, a mark at best trades back,  *)
(* and only an operator's retry creates one.                               *)
(***************************************************************************)
LEMMA ClaimantsStep ==
  ASSUME IInv, [Next]_vars
  PROVE  ClaimantsBounded'
<1> SUFFICES ASSUME NEW x \in Docs
             PROVE  Claimants(x)' <= 1 + requeues'[x]
  BY DEF ClaimantsBounded
<1>1. /\ Cardinality(Holders(x)) + (IF status[x] = "syncing" THEN 0 ELSE 1) <= 1 + requeues[x]
      /\ Claimants(x)' = Cardinality(Holders(x)') + (IF status'[x] = "syncing" THEN 0 ELSE 1)
  BY DEF IInv, ClaimantsBounded, Claimants
<1>2. CASE Retried(x)
  BY <1>1, <1>2, HoldersCounted DEF Retried
<1>3. CASE Claimed(x)
  BY <1>1, <1>3, HoldersCounted DEF Claimed
<1>4. CASE Marked(x)
  BY <1>1, <1>4, HoldersCounted DEF Marked
<1>5. CASE Kept(x)
  BY <1>1, <1>5, HoldersCounted DEF Kept
<1>6. QED  BY <1>2, <1>3, <1>4, <1>5, DocumentStep

-------------------------------------------------------------------------------
LEMMA IInvInit == Init => IInv
<1> SUFFICES ASSUME Init
             PROVE  IInv
  OBVIOUS
<1>1. TypeOK /\ BufferedIsDue
  BY TypeInit, DueInit
<1>2. CapturedFirst /\ AckedIsAccepted /\ SyncedIsAccepted /\ HeldOnce
  BY DEF Init, CapturedFirst, AckedIsAccepted, SyncedIsAccepted, HeldOnce
<1>3. ClaimantsBounded
  <2>1. \A d \in Docs : Holders(d) = {}
    BY DEF Init, Holders, Held
  <2>2. QED  BY <2>1, FS_EmptySet DEF Init, ClaimantsBounded, Claimants
<1>4. QED  BY <1>1, <1>2, <1>3 DEF IInv

LEMMA IInvStep == IInv /\ [Next]_vars => IInv'
BY TypeStep, DueStep, AcceptedStep, HeldOnceStep, ClaimantsStep DEF IInv

LEMMA IInvImplies ==
  ASSUME IInv
  PROVE  HoldersBounded /\ HeldIsSyncing
<1>1. HeldIsSyncing
  BY HeldWasClaimed DEF IInv, HeldIsSyncing
<1>2. HoldersBounded
  <2> SUFFICES ASSUME NEW d \in Docs
               PROVE  Cardinality(Holders(d)) <= 1 + requeues[d]
    BY DEF HoldersBounded
  <2>1. Cardinality(Holders(d)) \in Nat /\ requeues[d] \in Nat
    BY BoundsAssumption, Counting, HoldersType DEF IInv, TypeOK
  <2>2. QED  BY <2>1 DEF IInv, ClaimantsBounded, Claimants
<1>3. QED  BY <1>1, <1>2

(***************************************************************************)
(* The inductive invariant of the sweeps.                                  *)
(***************************************************************************)
THEOREM Invariance == Spec => []IInv
BY IInvInit, IInvStep, PTL DEF Spec

(***************************************************************************)
(* Type correctness of every reachable state.                              *)
(***************************************************************************)
THEOREM TypeCorrectness == Spec => []TypeOK
<1>1. IInv => TypeOK
  BY DEF IInv
<1>2. QED  BY <1>1, Invariance, PTL

(***************************************************************************)
(* RunOnce, MarkSynced and the late answers of lost requests: a document   *)
(* shown as synced was accepted by the central DMS.                        *)
(***************************************************************************)
THEOREM SyncedWasAccepted == Spec => []SyncedIsAccepted
<1>1. IInv => SyncedIsAccepted
  BY DEF IInv
<1>2. QED  BY <1>1, Invariance, PTL

(***************************************************************************)
(* ClaimPending and concurrent sweeps: without an operator's retry one     *)
(* document is in the hands of one sweep, and every retry adds at most one.*)
(***************************************************************************)
THEOREM ExclusiveClaims == Spec => []HoldersBounded
<1>1. IInv => HoldersBounded
  BY IInvImplies
<1>2. QED  BY <1>1, Invariance, PTL

(***************************************************************************)
(* ClaimPending sets 'syncing' and only the sweep that claimed a document  *)
(* takes it out of that status: as long as a sweep holds a document that   *)
(* was not retried, readers of the buffer see it in flight.                *)
(***************************************************************************)
THEOREM HeldAreSyncing == Spec => []HeldIsSyncing
<1>1. IInv => HeldIsSyncing
  BY IInvImplies
<1>2. QED  BY <1>1, Invariance, PTL

(***************************************************************************)
(* CreateDocument, ResetForRetry and the marks: the claim query finds      *)
(* every buffered document at once, and no document in any other status    *)
(* than buffered or failed.                                                *)
(***************************************************************************)
THEOREM BufferedIsClaimable == Spec => []BufferedIsDue
<1>1. IInv => BufferedIsDue
  BY DEF IInv
<1>2. QED  BY <1>1, Invariance, PTL

(***************************************************************************)
(* Nothing but an operator's retry takes a document out of "synced":       *)
(* neither a late mark of another sweep, nor a claim, nor a restart.       *)
(***************************************************************************)
THEOREM SyncedForGood == Spec => SyncedIsFinal
<1> DEFINE Final == \A d \in Docs :
             status[d] = "synced" /\ requeues'[d] = 0 => status'[d] = "synced"
<1>1. IInv /\ [Next]_vars => [Final]_vars
  <2> SUFFICES ASSUME IInv, Next, NEW d \in Docs,
                      status[d] = "synced", requeues'[d] = 0
               PROVE  status'[d] = "synced"
    OBVIOUS
  <2> USE DEF IInv, TypeOK, buffer
  <2>1. CASE \E c \in Docs : CreateDocument(c)
    BY <2>1 DEF CreateDocument
  <2>2. CASE \E c \in Docs : ResetForRetry(c)
    BY <2>2, BoundsAssumption DEF ResetForRetry
  <2>3. CASE \E w \in Sweepers : ClaimPending(w) \/ ClaimLost(w)
    <3>1. PICK S \in ClaimResults : Claim(S)
      BY <2>3 DEF ClaimPending, ClaimLost
    <3>2. d \notin S
      BY ClaimResultsClaimable
    <3>3. QED  BY <3>1, <3>2 DEF Claim
  <2>4. CASE \E w \in Sweepers, c \in Docs : Post(w, c)
    BY <2>4 DEF Post, Posting, PostAccepted, PostRejected, PostFails, PostLost
  <2>5. CASE \E w \in Sweepers, c \in Docs : Mark(w, c)
    <3>1. PICK w \in Sweepers, c \in Docs : Mark(w, c)
      BY <2>5
    <3>2. c \in Held(w) /\ requeues' = requeues
      BY <3>1 DEF Mark, MarkSynced, MarkFailed, MarkLost, Finish, Held
    <3>3. c # d
      BY <3>2, HeldWasClaimed
    <3>4. QED  BY <3>1, <3>3 DEF Mark, MarkSynced, MarkFailed, MarkLost
  <2>6. CASE \/ \E w \in Requests : CancelRequest(w)
             \/ \E c \in Docs : BackoffElapses(c) \/ LateArrival(c)
             \/ LinkChanges \/ Stop \/ Restart
    BY <2>6 DEF CancelRequest, BackoffElapses, LateArrival, LinkChanges, Stop, Restart
  <2>7. QED
    BY <2>1, <2>2, <2>3, <2>4, <2>5, <2>6 DEF Next
<1>2. QED  BY <1>1, Invariance, PTL DEF Spec, SyncedIsFinal

(***************************************************************************)
(* MarkSynced and MarkFailed do not look at the row they update; that they *)
(* overwrite no other sweep's outcome follows from the exclusive claims.   *)
(***************************************************************************)
THEOREM MarksDecideAlone == Spec => MarkDecidesAlone
<1> DEFINE Alone == \A w \in Sweepers, d \in Docs :
             (MarkSynced(w, d) \/ MarkFailed(w, d)) /\ requeues[d] = 0 =>
                 status[d] = "syncing" /\ Holders(d) = {w}
<1>1. IInv => Alone
  <2> SUFFICES ASSUME IInv, NEW w \in Sweepers, NEW d \in Docs,
                      MarkSynced(w, d) \/ MarkFailed(w, d), requeues[d] = 0
               PROVE  status[d] = "syncing" /\ Holders(d) = {w}
    OBVIOUS
  <2>1. d \in Held(w) /\ w \in Holders(d)
    BY DEF MarkSynced, MarkFailed, Held, Holders
  <2>2. status[d] = "syncing"
    BY <2>1, HeldWasClaimed DEF IInv
  <2>3. Cardinality(Holders(d)) <= 1
    BY IInvImplies DEF HoldersBounded
  <2>4. /\ Cardinality(Holders(d) \ {w}) = Cardinality(Holders(d)) - 1
        /\ Cardinality(Holders(d)) \in Nat
    BY <2>1, Counting, HoldersType
  <2>5. Holders(d) \ {w} = {}
    <3>1. Holders(d) \ {w} \in SUBSET Sweepers
      BY HoldersType
    <3>2. Holders(d) \ {w} # {} => Cardinality(Holders(d) \ {w}) >= 1
      BY <3>1, Counting
    <3>3. QED  BY <2>3, <2>4, <3>2
  <2>6. QED  BY <2>1, <2>2, <2>5
<1>2. IInv /\ [Next]_vars => [Alone]_vars
  BY <1>1
<1>3. QED  BY <1>2, Invariance, PTL DEF Spec, MarkDecidesAlone

(***************************************************************************)
(* Claims, marks and retries together: a mark uses up one of a document's  *)
(* chances and only a retry adds one, so that MarkSynced runs at most once *)
(* for a document and once more per retry, whatever fails or crashes.      *)
(***************************************************************************)
THEOREM MarksAreBacked == Spec => MarksUseChances
<1> DEFINE Backed == \A d \in Docs :
             Chances(d)' + (IF \E w \in Sweepers : MarkSynced(w, d) THEN 1 ELSE 0)
                 <= Chances(d) + (requeues'[d] - requeues[d])
<1>1. IInv /\ [Next]_vars => Backed
  <2> SUFFICES ASSUME IInv, [Next]_vars, NEW x \in Docs
               PROVE  Chances(x)' + (IF \E w \in Sweepers : MarkSynced(w, x) THEN 1 ELSE 0)
                          <= Chances(x) + (requeues'[x] - requeues[x])
    OBVIOUS
  <2> DEFINE Open(st) == IF st \in {"syncing", "synced"} THEN 0 ELSE 1
  <2>1. /\ Chances(x) = Cardinality(Holders(x)) + Open(status[x])
        /\ Chances(x)' = Cardinality(Holders(x)') + Open(status'[x])
    BY DEF Chances
  <2>2. CASE \E w \in Sweepers : MarkSynced(w, x)
    <3>1. Marked(x) /\ status'[x] = "synced"
      BY <2>2, MarkEndsHold DEF Mark
    <3>2. QED  BY <2>1, <3>1, HoldersCounted DEF Marked
  <2>3. CASE ~ \E w \in Sweepers : MarkSynced(w, x)
    <3>1. Chances(x)' <= Chances(x) + (requeues'[x] - requeues[x])
      <4>1. CASE Retried(x)
        BY <2>1, <4>1, HoldersCounted DEF Retried
      <4>2. CASE Claimed(x)
        BY <2>1, <4>2, HoldersCounted DEF Claimed
      <4>3. CASE Marked(x)
        BY <2>1, <4>3, HoldersCounted DEF Marked
      <4>4. CASE Kept(x)
        BY <2>1, <4>4, HoldersCounted DEF Kept
      <4>5. QED  BY <4>1, <4>2, <4>3, <4>4, DocumentStep
    <3>2. Chances(x)' \in Nat
      BY <2>1, HoldersCounted
    <3>3. QED  BY <2>3, <3>1, <3>2
  <2>4. QED  BY <2>2, <2>3
<1>2. QED  BY <1>1, Invariance, PTL DEF Spec, MarksUseChances

-------------------------------------------------------------------------------
(***************************************************************************)
(* Where claims survive, "syncing" means in flight: RunOnce marks every    *)
(* document it claimed, so no document is left behind in that status.      *)
(***************************************************************************)
LEMMA SurvivalStep ==
  ASSUME ClaimsSurvive, IInv, CancelsOnlyIfTheyMay, SyncingIsHeld, [Next]_vars
  PROVE  (CancelsOnlyIfTheyMay /\ SyncingIsHeld)'
<1> DEFINE Inv == CancelsOnlyIfTheyMay /\ SyncingIsHeld
<1> USE DEF IInv, TypeOK, CancelsOnlyIfTheyMay, SyncingIsHeld, Holders, Held,
            buffer, sweeps, upstream
<1>1. ASSUME NEW d \in Docs,
             CreateDocument(d) \/ ResetForRetry(d) \/ BackoffElapses(d) \/ LateArrival(d)
      PROVE  Inv'
  BY <1>1 DEF CreateDocument, ResetForRetry, BackoffElapses, LateArrival
<1>2. ASSUME NEW w \in Sweepers, ClaimPending(w)
      PROVE  Inv'
  <2>1. PICK S \in ClaimResults : Claim(S) /\ batch' = [batch EXCEPT ![w] = S]
    BY <1>2 DEF ClaimPending
  <2>2. Held(w) = {} /\ UNCHANGED <<acked, refused, cancelled>>
    BY <1>2 DEF ClaimPending, MaySweep
  <2>3. QED  BY <2>1, <2>2 DEF Claim
<1>3. ASSUME NEW w \in Sweepers, ClaimLost(w)
      PROVE  FALSE
  BY <1>3 DEF ClaimLost, ClaimsSurvive
<1>4. ASSUME NEW w \in Sweepers, NEW d \in Docs, Post(w, d)
      PROVE  Inv'
  <2>1. \A x \in Docs, v \in Sweepers : x \in Held(v)' <=> x \in Held(v)
    BY <1>4 DEF Post, Posting, PostAccepted, PostRejected, PostFails, PostLost
  <2>2. UNCHANGED <<status, cancelled>>
    BY <1>4 DEF Post, Posting, PostAccepted, PostRejected, PostFails, PostLost
  <2>3. QED  BY <2>1, <2>2
<1>5. ASSUME NEW w \in Sweepers, NEW d \in Docs, Mark(w, d)
      PROVE  Inv'
  <2>1. ~MarkLost(w, d)
    BY BackendAssumption DEF MarkLost, StoreRefuses, ClaimsSurvive
  <2>2. /\ status' = [status EXCEPT ![d] = "synced"] \/ status' = [status EXCEPT ![d] = "failed"]
        /\ \A x \in Docs \ {d}, v \in Sweepers : x \in Held(v) => x \in Held(v)'
        /\ cancelled' \subseteq cancelled
    BY <1>5, <2>1 DEF Mark, MarkSynced, MarkFailed, Finish
  <2>3. QED  BY <2>2
<1>6. ASSUME NEW w \in Requests, CancelRequest(w)
      PROVE  Inv'
  BY <1>6 DEF CancelRequest
<1>7. ~Stop
  BY BackendAssumption DEF Stop, ClaimsSurvive
<1>8. CASE LinkChanges \/ Restart \/ UNCHANGED vars
  BY <1>8 DEF LinkChanges, Restart, vars
<1>9. QED
  BY <1>1, <1>2, <1>3, <1>4, <1>5, <1>6, <1>7, <1>8 DEF Next

THEOREM NothingIsStranded == ClaimsSurvive => (Spec => []SyncingIsHeld)
<1> DEFINE Inv == ClaimsSurvive => CancelsOnlyIfTheyMay /\ SyncingIsHeld
<1>1. Init => Inv
  BY DEF Init, CancelsOnlyIfTheyMay, SyncingIsHeld
<1>2. IInv /\ Inv /\ [Next]_vars => Inv'
  BY SurvivalStep
<1>3. Spec => []Inv
  BY <1>1, <1>2, Invariance, PTL DEF Spec
<1>4. ClaimsSurvive /\ Inv => SyncingIsHeld
  OBVIOUS
<1>5. ClaimsSurvive => []ClaimsSurvive
  OBVIOUS
<1>6. QED  BY <1>3, <1>4, <1>5, PTL

-------------------------------------------------------------------------------
(***************************************************************************)
(* The buffer, its sweeps and their faults implement DocumentDelivery:     *)
(* captured documents are kept, reported synced after acceptance only, and *)
(* reported unsynced again after an operator's retry only.                 *)
(***************************************************************************)
LEMMA DeliveryInit == Init => Delivery!Init
BY DEF Init, Delivery!Init

LEMMA DeliveryStep ==
  ASSUME IInv, [Next]_vars
  PROVE  [Delivery!Next]_(Delivery!vars)
<1> USE DEF IInv, TypeOK, Delivery!vars, buffer, sweeps, upstream
<1>1. ASSUME NEW d \in Docs, CreateDocument(d)
      PROVE  Delivery!Capture(d)
  BY <1>1 DEF CreateDocument, Delivery!Capture
<1>2. ASSUME NEW d \in Docs, ResetForRetry(d)
      PROVE  Delivery!Reopen(d)
  BY <1>2, BoundsAssumption DEF ResetForRetry, Delivery!Reopen
<1>3. ASSUME NEW w \in Sweepers, ClaimPending(w) \/ ClaimLost(w)
      PROVE  UNCHANGED Delivery!vars
  <2>1. PICK S \in ClaimResults : Claim(S)
    BY <1>3 DEF ClaimPending, ClaimLost
  <2>2. \A d \in S : status[d] \in {"buffered", "failed"}
    BY ClaimResultsClaimable
  <2>3. UNCHANGED <<accepted, requeues>>
    BY <1>3 DEF ClaimPending, ClaimLost
  <2>4. QED  BY <2>1, <2>2, <2>3 DEF Claim
<1>4. ASSUME NEW w \in Sweepers, NEW d \in Docs, Post(w, d)
      PROVE  Delivery!Accept(d) \/ UNCHANGED Delivery!vars
  <2>1. status[d] # "absent"
    BY <1>4, HeldWasClaimed
       DEF Post, Posting, PostAccepted, PostRejected, PostFails, PostLost, Held
  <2>2. QED
    BY <1>4, <2>1 DEF Post, Posting, PostAccepted, PostRejected, PostFails, PostLost,
                      Delivery!Accept
<1>5. ASSUME NEW w \in Sweepers, NEW d \in Docs, MarkSynced(w, d)
      PROVE  Delivery!Confirm(d)
  <2>1. d \in accepted
    BY <1>5 DEF MarkSynced, AckedIsAccepted
  <2>2. status[d] # "absent"
    BY <2>1 DEF CapturedFirst
  <2>3. QED  BY <1>5, <2>1, <2>2 DEF MarkSynced, Finish, Delivery!Confirm
<1>6. ASSUME NEW w \in Sweepers, NEW d \in Docs, MarkFailed(w, d)
      PROVE  Delivery!Withdraw(d) \/ UNCHANGED Delivery!vars
  <2>1. status[d] # "absent" /\ (requeues[d] = 0 => status[d] = "syncing")
    BY <1>6, HeldWasClaimed DEF MarkFailed, Held
  <2>2. CASE requeues[d] = 0
    BY <1>6, <2>1, <2>2 DEF MarkFailed, Finish
  <2>3. CASE requeues[d] > 0
    BY <1>6, <2>1, <2>3 DEF MarkFailed, Finish, Delivery!Withdraw
  <2>4. QED  BY <2>2, <2>3, BoundsAssumption
<1>7. ASSUME NEW w \in Sweepers, NEW d \in Docs, MarkLost(w, d)
      PROVE  UNCHANGED Delivery!vars
  BY <1>7 DEF MarkLost, Finish
<1>8. ASSUME NEW d \in Docs, LateArrival(d)
      PROVE  Delivery!Accept(d)
  BY <1>8 DEF LateArrival, CapturedFirst, Delivery!Accept
<1>9. CASE \/ \E w \in Requests : CancelRequest(w)
           \/ \E d \in Docs : BackoffElapses(d)
           \/ LinkChanges \/ Stop \/ Restart \/ UNCHANGED vars
  BY <1>9 DEF CancelRequest, BackoffElapses, LinkChanges, Stop, Restart, vars
<1>10. QED
  BY <1>1, <1>2, <1>3, <1>4, <1>5, <1>6, <1>7, <1>8, <1>9
     DEF Next, Mark, Delivery!Next

THEOREM Refinement == Spec => ImplementsDelivery
BY DeliveryInit, DeliveryStep, Invariance, PTL
   DEF Spec, ImplementsDelivery, Delivery!Spec

===============================================================================
