--------------------------- MODULE NodeProcessProofs ---------------------------
(***************************************************************************)
(* Theorems about NodeProcess, for all settings, callers, keys and faults. *)
(***************************************************************************)
EXTENDS NodeProcess, TLAPS

\* Only a node whose settings were accepted has had requests.
Booted ==
    /\ stage # "down" => Validate(env)
    /\ \A r \in Requests : at[r] # "new" => Validate(env)

\* What was acknowledged, or is past its insert, is in a buffer that outlives
\* the process.
Kept ==
    /\ \A r \in acked : at[r] = "ended"
    /\ ~env.memory =>
         \A r \in Requests :
            r \in acked \/ at[r] \in {"inserted", "enqueuing", "answering"} => r \in stored

\* Without faults and overrun shutdowns, what is answered was announced.
Told ==
    faults = 0 /\ ~overran /\ env.bus =>
        \A r \in Requests : r \in acked \/ at[r] = "answering" => r \in announced

NobodyLeft == stage \in {"cancelled", "closing"} /\ ~overran => Open = {}

IInv ==
    /\ TypeOK
    /\ Booted
    /\ Kept
    /\ Told
    /\ NobodyLeft
    /\ EmptyListIsNoPass

USE DEF auth, registration, documents

-------------------------------------------------------------------------------

LEMMA InitInvariant == Init => IInv
<1> SUFFICES ASSUME Init PROVE IInv
  OBVIOUS
<1>1. (CHOOSE t \in Tokens : TRUE) \in Tokens
  BY TokensAssumption
<1>2. TypeOK
  <2>1. token \in [Requests -> Tokens] /\ at \in [Requests -> Places]
    BY <1>1 DEF Init, Places
  <2>2. faults \in 0..MaxFaults /\ changes \in 0..MaxChanges
    BY BoundsAssumption DEF Init
  <2> QED
    BY <2>1, <2>2 DEF Init, TypeOK, Stages
<1>3. Open = {}
  BY DEF Init, Open
<1>4. Booted /\ Kept /\ Told
  BY DEF Init, Booted, Kept, Told
<1> QED
  BY <1>2, <1>3, <1>4 DEF IInv, NobodyLeft, EmptyListIsNoPass

\* One more fault is one within the bound.
LEMMA FaultType == TypeOK /\ Fault => faults' \in 0..MaxFaults /\ faults' # 0
  BY BoundsAssumption DEF TypeOK, Fault

LEMMA TypeStep == TypeOK /\ [Next]_vars => TypeOK'
<1> SUFFICES ASSUME TypeOK, [Next]_vars PROVE TypeOK'
  OBVIOUS
<1> USE DEF TypeOK
<1>1. CASE UNCHANGED vars
  BY <1>1 DEF vars
<1>2. CASE Start \/ Connect \/ Migrate
  BY <1>2 DEF Start, Connect, Migrate, Stages
<1>3. ASSUME NEW loaded, Listen(loaded) PROVE TypeOK'
  BY <1>3 DEF Listen, Stages
<1>4. CASE Refresh \/ Register \/ RegisterAgain
  BY <1>4 DEF Refresh, Register, RegisterAgain
<1>5. CASE RegisterFails
  BY <1>5, FaultType DEF RegisterFails
<1>6. ASSUME NEW r \in Requests, NEW t \in Tokens, Admit(r, t) PROVE TypeOK'
  BY <1>6 DEF Admit, Move, Places
<1>7. ASSUME NEW r \in Requests,
             Insert(r) \/ Stored(r) \/ PublishNothing(r) \/ Publish(r) \/ Published(r) \/ Answer(r)
      PROVE  TypeOK'
  BY <1>7 DEF Insert, Stored, PublishNothing, Publish, Published, Answer, Move, Places
<1>8. ASSUME NEW r \in Requests, InsertFails(r) \/ PublishFails(r) PROVE TypeOK'
  BY <1>8, FaultType DEF InsertFails, PublishFails, Move, Places
<1>9. CASE Signal \/ CloseBus
  BY <1>9 DEF Signal, CloseBus, Stages
<1>10. CASE Drained \/ Overrun
  BY <1>10 DEF Drained, Overrun, Cancel, Stages
<1>11. ASSUME Gone PROVE /\ at' \in [Requests -> Places] /\ stored' \subseteq Requests
                         /\ keys' \subseteq Keys /\ registrar' = "off"
  BY <1>11 DEF Gone, Places
<1>12. CASE Exit
  BY <1>11, <1>12 DEF Exit, Gone, Stages
<1>13. CASE Crash
  BY <1>11, <1>13, FaultType DEF Crash, Gone, Stages
<1>14. ASSUME NEW new \in SUBSET Keys, Rotate(new) PROVE TypeOK'
  BY <1>14, BoundsAssumption DEF Rotate
<1>15. CASE AuthChanges
  BY <1>15, BoundsAssumption DEF AuthChanges
<1> QED
  BY <1>1, <1>2, <1>3, <1>4, <1>5, <1>6, <1>7, <1>8, <1>9, <1>10, <1>12, <1>13, <1>14, <1>15
     DEF Next, Boot, Handle

\* Requests are let in by a process that has booted.
LEMMA BootedStep == TypeOK /\ Booted /\ [Next]_vars => Booted'
<1> SUFFICES ASSUME TypeOK, Booted, [Next]_vars PROVE Booted'
  OBVIOUS
<1> USE DEF TypeOK, Booted
<1>1. CASE UNCHANGED vars
  BY <1>1 DEF vars
<1>2. CASE Start \/ Connect \/ Migrate
  BY <1>2 DEF Start, Connect, Migrate
<1>3. ASSUME NEW loaded, Listen(loaded) PROVE Booted'
  BY <1>3 DEF Listen
<1>4. CASE Refresh \/ Register \/ RegisterFails \/ RegisterAgain
  BY <1>4 DEF Refresh, Register, RegisterFails, RegisterAgain
<1>5. ASSUME NEW r \in Requests, NEW t \in Tokens, Admit(r, t) PROVE Booted'
  BY <1>5 DEF Admit, Move
<1>6. ASSUME NEW r \in Requests, Handle(r) PROVE Booted'
  <2>1. at[r] # "new" /\ env' = env /\ stage' = stage
    BY <1>6 DEF Handle, Insert, Stored, InsertFails, PublishNothing, Publish, Published,
                PublishFails, Answer
  <2>2. \A q \in Requests \ {r} : at'[q] = at[q]
    BY <1>6 DEF Handle, Insert, Stored, InsertFails, PublishNothing, Publish, Published,
                PublishFails, Answer, Move
  <2> QED
    BY <2>1, <2>2
<1>7. CASE Signal \/ CloseBus \/ Drained \/ Overrun
  BY <1>7 DEF Signal, CloseBus, Drained, Overrun, Cancel
<1>8. ASSUME Gone, stage # "down" PROVE env' = env /\ Validate(env)
  BY <1>8 DEF Gone
<1>9. CASE Exit \/ Crash
  <2>1. env' = env /\ Validate(env)
    BY <1>8, <1>9 DEF Exit, Crash
  <2> QED
    BY <2>1
<1>10. ASSUME NEW new \in SUBSET Keys, Rotate(new) PROVE Booted'
  BY <1>10 DEF Rotate
<1>11. CASE AuthChanges
  BY <1>11 DEF AuthChanges
<1> QED
  BY <1>1, <1>2, <1>3, <1>4, <1>5, <1>6, <1>7, <1>9, <1>10, <1>11 DEF Next, Boot

\* What was stored stays stored where the process is not the store.
LEMMA KeptStep == TypeOK /\ Kept /\ [Next]_vars => Kept'
<1> SUFFICES ASSUME TypeOK, Kept, [Next]_vars PROVE Kept'
  OBVIOUS
<1> USE DEF TypeOK, Kept
<1>1. CASE UNCHANGED vars
  BY <1>1 DEF vars
<1>2. CASE Start \/ Connect \/ Migrate
  BY <1>2 DEF Start, Connect, Migrate
<1>3. ASSUME NEW loaded, Listen(loaded) PROVE Kept'
  BY <1>3 DEF Listen
<1>4. CASE Refresh \/ Register \/ RegisterFails \/ RegisterAgain
  BY <1>4 DEF Refresh, Register, RegisterFails, RegisterAgain
<1>5. ASSUME NEW r \in Requests, NEW t \in Tokens, Admit(r, t) PROVE Kept'
  BY <1>5 DEF Admit, Move
<1>6. ASSUME NEW r \in Requests, Insert(r) \/ PublishNothing(r) \/ Publish(r) PROVE Kept'
  BY <1>6 DEF Insert, PublishNothing, Publish, Move
<1>7. ASSUME NEW r \in Requests, Stored(r) \/ InsertFails(r) PROVE Kept'
  BY <1>7 DEF Stored, InsertFails, Move
<1>8. ASSUME NEW r \in Requests, Published(r) \/ PublishFails(r) PROVE Kept'
  BY <1>8 DEF Published, PublishFails, Move
<1>9. ASSUME NEW r \in Requests, Answer(r) PROVE Kept'
  BY <1>9 DEF Answer, Move
<1>10. CASE Signal \/ CloseBus \/ Drained \/ Overrun
  BY <1>10 DEF Signal, CloseBus, Drained, Overrun, Cancel
<1>11. CASE Exit \/ Crash
  <2>1. Gone
    BY <1>11 DEF Exit, Crash
  <2>2. \A r \in Requests : at'[r] = IF r \in Open THEN "ended" ELSE at[r]
    BY <2>1 DEF Gone
  <2>3. \A r \in Requests : at'[r] \in {"new", "ended"}
    BY <2>2 DEF Open
  <2>4. env' = env /\ acked' = acked /\ (~env.memory => stored' = stored)
    BY <2>1 DEF Gone
  <2>5. \A r \in acked : at'[r] = "ended"
    BY <2>2
  <2> QED
    BY <2>3, <2>4, <2>5
<1>12. ASSUME NEW new \in SUBSET Keys, Rotate(new) PROVE Kept'
  BY <1>12 DEF Rotate
<1>13. CASE AuthChanges
  BY <1>13 DEF AuthChanges
<1> QED
  BY <1>1, <1>2, <1>3, <1>4, <1>5, <1>6, <1>7, <1>8, <1>9, <1>10, <1>11, <1>12, <1>13
     DEF Next, Boot, Handle

\* A request that goes on is the same request, and may end.
LEMMA HandleStep ==
    ASSUME TypeOK, NEW r \in Requests, Handle(r)
    PROVE  /\ env' = env /\ stage' = stage /\ overran' = overran /\ token' = token
           /\ r \in Open /\ Open' \subseteq Open
<1>1. env' = env /\ stage' = stage /\ overran' = overran /\ token' = token
  BY DEF Handle, Insert, Stored, InsertFails, PublishNothing, Publish, Published, PublishFails, Answer
<1>2. at[r] \notin {"new", "ended"}
  BY DEF Handle, Insert, Stored, InsertFails, PublishNothing, Publish, Published, PublishFails, Answer
<1>3. \A q \in Requests \ {r} : at'[q] = at[q]
  BY DEF Handle, Insert, Stored, InsertFails, PublishNothing, Publish, Published, PublishFails,
         Answer, Move, TypeOK
<1> QED
  BY <1>1, <1>2, <1>3 DEF Open

\* The process takes its requests with it.
LEMMA GoneStep == Gone => Open' = {}
  BY DEF Gone, Open

\* An orderly shutdown begins with nobody left, and nobody is let in after it.
LEMMA NobodyStep == TypeOK /\ NobodyLeft /\ [Next]_vars => NobodyLeft'
<1> SUFFICES ASSUME TypeOK, NobodyLeft, [Next]_vars PROVE NobodyLeft'
  OBVIOUS
<1> USE DEF NobodyLeft
<1>1. CASE UNCHANGED vars
  BY <1>1 DEF vars, Open
<1>2. CASE Start \/ Connect \/ Migrate
  BY <1>2 DEF Start, Connect, Migrate
<1>3. ASSUME NEW loaded, Listen(loaded) PROVE NobodyLeft'
  BY <1>3 DEF Listen
<1>4. CASE Refresh \/ Register \/ RegisterFails \/ RegisterAgain
  BY <1>4 DEF Refresh, Register, RegisterFails, RegisterAgain, Open
<1>5. ASSUME NEW r \in Requests, NEW t \in Tokens, Admit(r, t) PROVE NobodyLeft'
  BY <1>5 DEF Admit
<1>6. ASSUME NEW r \in Requests, Handle(r) PROVE NobodyLeft'
  BY <1>6, HandleStep
<1>7. CASE Signal \/ CloseBus \/ Drained \/ Overrun
  BY <1>7 DEF Signal, CloseBus, Drained, Overrun, Cancel, Open
<1>8. CASE Exit \/ Crash
  BY <1>8 DEF Exit, Crash
<1>9. ASSUME NEW new \in SUBSET Keys, Rotate(new) PROVE NobodyLeft'
  BY <1>9 DEF Rotate, Open
<1>10. CASE AuthChanges
  BY <1>10 DEF AuthChanges, Open
<1> QED
  BY <1>1, <1>2, <1>3, <1>4, <1>5, <1>6, <1>7, <1>8, <1>9, <1>10 DEF Next, Boot

\* Publish is refused only by a fault, or when the shutdown did not wait.
LEMMA ToldStep == TypeOK /\ Kept /\ NobodyLeft /\ Told /\ [Next]_vars => Told'
<1> SUFFICES ASSUME TypeOK, Kept, NobodyLeft, Told, [Next]_vars PROVE Told'
  OBVIOUS
<1> USE DEF Told
<1>0. faults \in 0..MaxFaults
  BY DEF TypeOK
<1>1. CASE UNCHANGED vars
  BY <1>1 DEF vars
<1>2. CASE Start \/ Connect \/ Migrate
  BY <1>2 DEF Start, Connect, Migrate
<1>3. ASSUME NEW loaded, Listen(loaded) PROVE Told'
  BY <1>3 DEF Listen
<1>4. CASE Refresh \/ Register \/ RegisterAgain
  BY <1>4 DEF Refresh, Register, RegisterAgain
<1>5. CASE RegisterFails
  BY <1>5, FaultType DEF RegisterFails
<1>6. ASSUME NEW r \in Requests, NEW t \in Tokens, Admit(r, t) PROVE Told'
  BY <1>6 DEF Admit, Move, TypeOK
<1>7. ASSUME NEW r \in Requests, Insert(r) \/ Stored(r) \/ PublishNothing(r) \/ Publish(r)
      PROVE  Told'
  BY <1>7 DEF Insert, Stored, PublishNothing, Publish, Move, TypeOK
<1>8. ASSUME NEW r \in Requests, InsertFails(r) PROVE Told'
  BY <1>8, FaultType DEF InsertFails, Move, TypeOK
<1>9. ASSUME NEW r \in Requests, Published(r) \/ Answer(r) PROVE Told'
  BY <1>9 DEF Published, Answer, Move, TypeOK
<1>10. ASSUME NEW r \in Requests, PublishFails(r) PROVE Told'
  <2>1. CASE Fault
    BY <2>1, FaultType
  <2>2. CASE ~Fault
    <3>1. stage \in {"cancelled", "closing"} /\ r \in Open
      BY <1>10, <2>2 DEF PublishFails, PoolOpen, Open
    <3>2. overran /\ overran' = overran
      BY <3>1, <1>10 DEF NobodyLeft, PublishFails, TypeOK
    <3> QED
      BY <3>2
  <2> QED
    BY <2>1, <2>2
<1>11. CASE Signal \/ CloseBus \/ Drained \/ Overrun
  BY <1>11 DEF Signal, CloseBus, Drained, Overrun, Cancel
<1>12. CASE Exit
  BY <1>12 DEF Exit, Gone
<1>13. CASE Crash
  BY <1>13, FaultType DEF Crash
<1>14. ASSUME NEW new \in SUBSET Keys, Rotate(new) PROVE Told'
  BY <1>14 DEF Rotate
<1>15. CASE AuthChanges
  BY <1>15 DEF AuthChanges
<1> QED
  BY <1>1, <1>2, <1>3, <1>4, <1>5, <1>6, <1>7, <1>8, <1>9, <1>10, <1>11, <1>12, <1>13, <1>14, <1>15
     DEF Next, Boot, Handle

\* RequirePerm looks at the same token and the same settings throughout.
LEMMA PassStep == TypeOK /\ EmptyListIsNoPass /\ [Next]_vars => EmptyListIsNoPass'
<1> SUFFICES ASSUME TypeOK, EmptyListIsNoPass, [Next]_vars PROVE EmptyListIsNoPass'
  OBVIOUS
<1> USE DEF EmptyListIsNoPass
<1>1. CASE UNCHANGED vars
  BY <1>1 DEF vars, Open
<1>2. CASE Start \/ Connect \/ Migrate
  BY <1>2 DEF Start, Connect, Migrate, Open
<1>3. ASSUME NEW loaded, Listen(loaded) PROVE EmptyListIsNoPass'
  BY <1>3 DEF Listen, Open
<1>4. CASE Refresh \/ Register \/ RegisterFails \/ RegisterAgain
  BY <1>4 DEF Refresh, Register, RegisterFails, RegisterAgain, Open
<1>5. ASSUME NEW r \in Requests, NEW t \in Tokens, Admit(r, t) PROVE EmptyListIsNoPass'
  <2>1. /\ env' = env
        /\ \A q \in Requests : at'[q] = IF q = r THEN "admitted" ELSE at[q]
        /\ \A q \in Requests : token'[q] = IF q = r THEN t ELSE token[q]
    BY <1>5 DEF Admit, Move, TypeOK
  <2>2. t.staff \/ t.permissions # {} \/ ~HardenedRuntime(env)
    BY <1>5 DEF Admit, RequirePerm, StrictRBAC
  <2>3. ~HardenedRuntime(env) =>
          env.environment = "development" \/ (env.environment = "unset" /\ ~env.deployed)
    BY DEF HardenedRuntime, Environment
  <2> QED
    BY <2>1, <2>2, <2>3 DEF Open
<1>6. ASSUME NEW r \in Requests, Handle(r) PROVE EmptyListIsNoPass'
  BY <1>6, HandleStep
<1>7. CASE Signal \/ CloseBus \/ Drained \/ Overrun
  BY <1>7 DEF Signal, CloseBus, Drained, Overrun, Cancel, Open
<1>8. CASE Exit \/ Crash
  BY <1>8, GoneStep DEF Exit, Crash
<1>9. ASSUME NEW new \in SUBSET Keys, Rotate(new) PROVE EmptyListIsNoPass'
  BY <1>9 DEF Rotate, Open
<1>10. CASE AuthChanges
  BY <1>10 DEF AuthChanges, Open
<1> QED
  BY <1>1, <1>2, <1>3, <1>4, <1>5, <1>6, <1>7, <1>8, <1>9, <1>10 DEF Next, Boot

-------------------------------------------------------------------------------

\* The inductive invariant of one process from boot to exit.
THEOREM Invariance == Spec => []IInv
<1>1. IInv /\ [Next]_vars => IInv'
  BY TypeStep, BootedStep, KeptStep, NobodyStep, ToldStep, PassStep DEF IInv
<1> QED
  BY <1>1, InitInvariant, PTL DEF Spec

\* Every reachable state is well typed.
THEOREM TypeCorrectness == Spec => []TypeOK
<1>1. IInv => TypeOK
  BY DEF IInv
<1> QED
  BY <1>1, Invariance, PTL

\* No settings that Validate accepts in production, no crash and no shutdown
\* lose a document whose capture was acknowledged.
THEOREM AcknowledgedIsKept == Spec => []AckedIsKept
<1>1. IInv => AckedIsKept
  <2> SUFFICES ASSUME IInv, IsProduction(env), NEW r \in acked PROVE r \in stored
    BY DEF AckedIsKept
  <2>1. r \in Requests /\ at[r] = "ended"
    BY DEF IInv, TypeOK, Kept
  <2>2. ~env.memory
    BY <2>1 DEF IInv, Booted, Validate
  <2> QED
    BY <2>1, <2>2 DEF IInv, Kept
<1> QED
  BY <1>1, Invariance, PTL

\* On a hardened node nobody is served on an empty list of permissions.
THEOREM EmptyListsAreRefused == Spec => []EmptyListIsNoPass
<1>1. IInv => EmptyListIsNoPass
  BY DEF IInv
<1> QED
  BY <1>1, Invariance, PTL

\* A shutdown within its 30 s cuts no capture short and loses no event.
THEOREM ShutdownIsClean == Spec => []CleanStop
<1>1. IInv => CleanStop
  BY DEF IInv, CleanStop, NobodyLeft, Told, TypeOK
<1> QED
  BY <1>1, Invariance, PTL

-------------------------------------------------------------------------------
(* CaptureReceipts: what a step is to a field client.                      *)

\* A capture that is past its insert has its document in the buffer, in memory
\* too: the requests of a process end with it.
Underway == \A r \in Requests : at[r] \in {"inserted", "enqueuing", "answering"} => r \in stored

\* Only Stored moves a request past its insert.
LEMMA UnderwayStep == TypeOK /\ Underway /\ [Next]_vars => Underway'
<1> SUFFICES ASSUME TypeOK, Underway, [Next]_vars PROVE Underway'
  OBVIOUS
<1> USE DEF TypeOK, Underway
<1>1. CASE UNCHANGED vars
  BY <1>1 DEF vars
<1>2. CASE Start \/ Connect \/ Migrate
  BY <1>2 DEF Start, Connect, Migrate
<1>3. ASSUME NEW loaded, Listen(loaded) PROVE Underway'
  BY <1>3 DEF Listen
<1>4. CASE Refresh \/ Register \/ RegisterFails \/ RegisterAgain
  BY <1>4 DEF Refresh, Register, RegisterFails, RegisterAgain
<1>5. ASSUME NEW r \in Requests, NEW t \in Tokens, Admit(r, t) PROVE Underway'
  BY <1>5 DEF Admit, Move
<1>6. ASSUME NEW r \in Requests, Insert(r) \/ PublishNothing(r) \/ Publish(r) PROVE Underway'
  BY <1>6 DEF Insert, PublishNothing, Publish, Move
<1>7. ASSUME NEW r \in Requests, Stored(r) \/ InsertFails(r) PROVE Underway'
  BY <1>7 DEF Stored, InsertFails, Move
<1>8. ASSUME NEW r \in Requests, Published(r) \/ PublishFails(r) \/ Answer(r) PROVE Underway'
  BY <1>8 DEF Published, PublishFails, Answer, Move
<1>9. CASE Signal \/ CloseBus \/ Drained \/ Overrun
  BY <1>9 DEF Signal, CloseBus, Drained, Overrun, Cancel
<1>10. CASE Exit \/ Crash
  <2>1. \A r \in Requests : at'[r] = IF r \in Open THEN "ended" ELSE at[r]
    BY <1>10 DEF Exit, Crash, Gone
  <2> QED
    BY <2>1 DEF Open
<1>11. ASSUME NEW new \in SUBSET Keys, Rotate(new) PROVE Underway'
  BY <1>11 DEF Rotate
<1>12. CASE AuthChanges
  BY <1>12 DEF AuthChanges
<1> QED
  BY <1>1, <1>2, <1>3, <1>4, <1>5, <1>6, <1>7, <1>8, <1>9, <1>10, <1>11, <1>12
     DEF Next, Boot, Handle

\* What a client relies on is left alone.
Quiet == env' = env /\ documents' = documents

LEMMA QuietIsReceipt == Quiet => UNCHANGED Receipts!vars
  BY DEF Quiet, Receipts!vars, IsProduction, Environment

\* An insert keeps the document, and one that fails may have kept it.
LEMMA StoredIsReceipt ==
    ASSUME NEW r \in Requests, Stored(r) \/ InsertFails(r)
    PROVE  [Receipts!Next]_Receipts!vars
<1>1. /\ env' = env /\ announced' = announced /\ acked' = acked
      /\ stored' = stored \cup {r} \/ stored' = stored
  BY DEF Stored, InsertFails
<1>2. CASE stored' = stored
  BY <1>1, <1>2, QuietIsReceipt DEF Quiet
<1>3. CASE stored' = stored \cup {r}
  <2>1. Receipts!Store(r)
    BY <1>1, <1>3 DEF Receipts!Store, IsProduction, Environment
  <2> QED
    BY <2>1 DEF Receipts!Next
<1> QED
  BY <1>1, <1>2, <1>3

\* An event is published after the insert, whether or not Publish reports an error.
LEMMA PublishedIsReceipt ==
    ASSUME Underway, NEW r \in Requests, Published(r) \/ PublishFails(r)
    PROVE  [Receipts!Next]_Receipts!vars
<1>1. /\ env' = env /\ stored' = stored /\ acked' = acked
      /\ announced' = announced \cup {r} \/ announced' = announced
  BY DEF Published, PublishFails
<1>2. CASE announced' = announced
  BY <1>1, <1>2, QuietIsReceipt DEF Quiet
<1>3. CASE announced' = announced \cup {r}
  <2>1. r \in stored
    BY DEF Published, PublishFails, Underway
  <2>2. Receipts!Announce(r)
    BY <1>1, <1>3, <2>1 DEF Receipts!Announce, IsProduction, Environment
  <2> QED
    BY <2>2 DEF Receipts!Next
<1> QED
  BY <1>1, <1>2, <1>3

\* The 201 is sent once, over a document that is in the buffer.
LEMMA AnswerIsReceipt ==
    ASSUME Kept, Underway, NEW r \in Requests, Answer(r)
    PROVE  [Receipts!Next]_Receipts!vars
<1>1. r \in stored \ acked
  BY DEF Answer, Underway, Kept
<1>2. Receipts!Acknowledge(r)
  BY <1>1 DEF Answer, Receipts!Acknowledge, IsProduction, Environment
<1> QED
  BY <1>2 DEF Receipts!Next

\* Only a node on the memory store loses documents with its process, and none
\* such has booted in production.
LEMMA GoneIsReceipt ==
    ASSUME Booted, stage # "down", Gone
    PROVE  [Receipts!Next]_Receipts!vars
<1>1. env' = env /\ announced' = announced /\ acked' = acked
  BY DEF Gone
<1>2. CASE env.memory
  <2>1. ~(IsProduction(env) \/ ~env.memory)
    BY <1>2 DEF Booted, Validate
  <2>2. stored' = {}
    BY <1>2 DEF Gone
  <2>3. Receipts!Forget
    BY <1>1, <2>1, <2>2 DEF Receipts!Forget
  <2> QED
    BY <2>3 DEF Receipts!Next
<1>3. CASE ~env.memory
  BY <1>1, <1>3, QuietIsReceipt DEF Gone, Quiet
<1> QED
  BY <1>2, <1>3

LEMMA ReceiptStep ==
    TypeOK /\ Booted /\ Kept /\ Underway /\ [Next]_vars => [Receipts!Next]_Receipts!vars
<1> SUFFICES ASSUME TypeOK, Booted, Kept, Underway, [Next]_vars
             PROVE  [Receipts!Next]_Receipts!vars
  OBVIOUS
<1>1. CASE UNCHANGED vars
  BY <1>1, QuietIsReceipt DEF vars, Quiet
<1>2. CASE Start \/ Connect \/ Migrate
  BY <1>2, QuietIsReceipt DEF Start, Connect, Migrate, Quiet
<1>3. ASSUME NEW loaded, Listen(loaded) PROVE [Receipts!Next]_Receipts!vars
  BY <1>3, QuietIsReceipt DEF Listen, Quiet
<1>4. CASE Refresh \/ Register \/ RegisterFails \/ RegisterAgain
  BY <1>4, QuietIsReceipt DEF Refresh, Register, RegisterFails, RegisterAgain, Quiet
<1>5. ASSUME NEW r \in Requests, NEW t \in Tokens, Admit(r, t)
      PROVE  [Receipts!Next]_Receipts!vars
  BY <1>5, QuietIsReceipt DEF Admit, Quiet
<1>6. ASSUME NEW r \in Requests, Insert(r) \/ PublishNothing(r) \/ Publish(r)
      PROVE  [Receipts!Next]_Receipts!vars
  BY <1>6, QuietIsReceipt DEF Insert, PublishNothing, Publish, Quiet
<1>7. ASSUME NEW r \in Requests, Handle(r) PROVE [Receipts!Next]_Receipts!vars
  BY <1>6, <1>7, StoredIsReceipt, PublishedIsReceipt, AnswerIsReceipt DEF Handle
<1>8. CASE Signal \/ CloseBus \/ Drained \/ Overrun
  BY <1>8, QuietIsReceipt DEF Signal, CloseBus, Drained, Overrun, Cancel, Quiet
<1>9. CASE Exit \/ Crash
  BY <1>9, GoneIsReceipt DEF Exit, Crash
<1>10. ASSUME NEW new \in SUBSET Keys, Rotate(new) PROVE [Receipts!Next]_Receipts!vars
  BY <1>10, QuietIsReceipt DEF Rotate, Quiet
<1>11. CASE AuthChanges
  BY <1>11, QuietIsReceipt DEF AuthChanges, Quiet
<1> QED
  BY <1>1, <1>2, <1>3, <1>4, <1>5, <1>7, <1>8, <1>9, <1>10, <1>11 DEF Next, Boot

\* A node implements what a field client may rely on about its captures, on
\* either store and under all settings that were accepted.
THEOREM Refinement == Spec => ImplementsReceipts
<1>1. Init => Underway /\ Receipts!Init
  BY DEF Init, Underway, Receipts!Init
<1>2. IInv /\ Underway /\ [Next]_vars => Underway'
  BY UnderwayStep DEF IInv
<1>3. IInv /\ Underway /\ [Next]_vars => [Receipts!Next]_Receipts!vars
  BY ReceiptStep DEF IInv
<1> QED
  BY <1>1, <1>2, <1>3, Invariance, PTL DEF Spec, ImplementsReceipts, Receipts!Spec
===============================================================================
