----------------------------- MODULE NodeProcess -----------------------------
(***************************************************************************)
(* One process of the node from boot to exit: its settings, the key set    *)
(* that lets callers in, captures in flight, the registration of its       *)
(* permissions and the order in which main shuts down (main.go,            *)
(* internal/config, internal/platformauth, internal/middleware,            *)
(* internal/auth).                                                         *)
(*                                                                         *)
(* What a capture does to buffer and outbox is EventOutbox's matter, a     *)
(* migration is Migrations'; here a capture is the statements that need    *)
(* the pool or the bus while main closes them.  A crash is followed by a   *)
(* new boot, an exit after a signal is final.                              *)
(***************************************************************************)
EXTENDS Naturals, FiniteSets

CONSTANTS
    Settings,       \* the environments a process may find itself in
    Requests,       \* captures, each of a document of its own
    Tokens,         \* what callers may carry
    Keys,           \* signing keys of the authentication service
    MaxFaults,      \* bound: crashes, failed statements, failed registrations
    MaxChanges      \* bound: key rotations and outages of authentication

Environments == {"unset", "development", "staging", "production"}
Permissions == {"*", "view", "capture", "manage"}
Capture == "capture"

Setting == [environment : Environments, deployed : BOOLEAN, memory : BOOLEAN,
            database : BOOLEAN, secret : {"none", "short", "long"},
            migrate : BOOLEAN, wildcard : BOOLEAN, bus : BOOLEAN]

\* valid: signature, issuer and audience are right and it has not expired.
Token == [bearer : BOOLEAN, kid : Keys, valid : BOOLEAN,
          staff : BOOLEAN, permissions : SUBSET Permissions]

ASSUME SettingsAssumption == Settings \subseteq Setting
ASSUME TokensAssumption == Tokens \subseteq Token /\ Tokens # {}
ASSUME BoundsAssumption == MaxFaults \in Nat /\ MaxChanges \in Nat

VARIABLES
    env,            \* the settings of this node
    stage,          \* how far main has come
    overran,        \* the 30 s of srv.Shutdown ran out
    published,      \* the keys the JWKS shows
    authUp,         \* the authentication service answers
    keys,           \* Verifier.keys
    registrar,      \* registerPermissionsLoop
    registered,     \* the catalogue is at the authentication service
    at,             \* at[r]: where request r is
    token,          \* token[r]: what the caller of an admitted request carried
    stored,         \* documents in the buffer
    announced,      \* documents whose event is in the outbox or in Kafka
    acked,          \* documents whose 201 was sent
    faults, changes \* so far

auth == <<published, authUp, changes>>
registration == <<registrar, registered>>
documents == <<stored, announced, acked>>
vars == <<env, stage, overran, auth, keys, registration, at, token, documents, faults>>

Stages == {"down", "connecting", "migrating", "keying", "serving",
           "draining", "cancelled", "closing", "exited"}
Places == {"new", "admitted", "inserting", "inserted", "enqueuing", "answering", "ended"}

TypeOK ==
    /\ env \in Settings /\ stage \in Stages /\ overran \in BOOLEAN
    /\ published \subseteq Keys /\ authUp \in BOOLEAN
    /\ keys \subseteq Keys
    /\ registrar \in {"off", "trying", "waiting"} /\ registered \in BOOLEAN
    /\ at \in [Requests -> Places] /\ token \in [Requests -> Tokens]
    /\ stored \subseteq Requests /\ announced \subseteq Requests /\ acked \subseteq Requests
    /\ faults \in 0..MaxFaults /\ changes \in 0..MaxChanges

-------------------------------------------------------------------------------
(* Settings: config.Load, Validate and runtimeenv.HardenedFrom.  The other *)
(* names of an environment, and a blank DEPOT_ID, are treated alike.       *)

Environment(s) == IF s.environment = "unset" THEN "development" ELSE s.environment

IsProduction(s) == Environment(s) = "production"

\* Mutant: the memory store is accepted anywhere.
ValidateAnyStore(s) ==
    /\ s.memory \/ s.database
    /\ IsProduction(s) => ~s.wildcard /\ s.secret = "long" /\ ~s.migrate

Validate(s) ==
    /\ s.memory \/ s.database
    /\ IsProduction(s) => ~s.wildcard /\ s.secret = "long" /\ ~s.migrate /\ ~s.memory

\* Mutant: the safeguards as they were before there was runtimeenv.
HardenedInProduction(s) == IsProduction(s)

HardenedRuntime(s) ==
    \/ IsProduction(s)
    \/ IF s.environment # "unset" THEN Environment(s) # "development" ELSE s.deployed

\* main hands the outbox to the bus.
UsesOutbox == env.bus /\ ~env.memory

Init ==
    /\ env \in Settings
    /\ stage = "down" /\ overran = FALSE
    /\ published \in SUBSET Keys /\ authUp = TRUE
    /\ keys = {}
    /\ registrar = "off" /\ registered = FALSE
    /\ at = [r \in Requests |-> "new"] /\ token = [r \in Requests |-> CHOOSE t \in Tokens : TRUE]
    /\ stored = {} /\ announced = {} /\ acked = {}
    /\ faults = 0 /\ changes = 0

Fault == faults < MaxFaults /\ faults' = faults + 1

Open == {r \in Requests : at[r] \notin {"new", "ended"}}

-------------------------------------------------------------------------------
(* Boot.                                                                   *)

\* Load: a process whose settings are refused exits at once, every time.
Start ==
    /\ stage = "down" /\ Validate(env)
    /\ stage' = IF env.memory THEN "keying" ELSE "connecting"
    /\ UNCHANGED <<env, overran, auth, keys, registration, at, token, documents, faults>>

Connect ==
    /\ stage = "connecting"
    /\ stage' = IF env.migrate THEN "migrating" ELSE "keying"
    /\ UNCHANGED <<env, overran, auth, keys, registration, at, token, documents, faults>>

Migrate ==
    /\ stage = "migrating"
    /\ stage' = "keying"
    /\ UNCHANGED <<env, overran, auth, keys, registration, at, token, documents, faults>>

\* The first refresh, whatever becomes of it; then the loops and the listener.
Listen(loaded) ==
    /\ stage = "keying"
    /\ loaded # {} => authUp /\ loaded = published
    /\ keys' = loaded
    /\ stage' = "serving"
    /\ registrar' = IF env.secret = "none" THEN "off" ELSE "trying"
    /\ UNCHANGED <<env, overran, auth, registered, at, token, documents, faults>>

-------------------------------------------------------------------------------
(* Verifier.Refresh, every 15 minutes, and registerPermissionsLoop.        *)

AppRuns == stage \in {"serving", "draining"}

\* Mutant: the keys are added to those the verifier has.
RefreshMerging ==
    /\ AppRuns
    /\ authUp /\ published # {}
    /\ keys' = keys \cup published
    /\ UNCHANGED <<env, stage, overran, auth, registration, at, token, documents, faults>>

\* The answer holds a usable key; otherwise the refresh fails and changes
\* nothing.  The set is replaced under the lock; only this loop replaces it.
Refresh ==
    /\ AppRuns
    /\ authUp /\ published # {}
    /\ keys' = published
    /\ UNCHANGED <<env, stage, overran, auth, registration, at, token, documents, faults>>

Register ==
    /\ AppRuns /\ registrar = "trying"
    /\ authUp
    /\ registrar' = "off" /\ registered' = TRUE
    /\ UNCHANGED <<env, stage, overran, auth, keys, at, token, documents, faults>>

\* Mutant: one attempt.
RegisterGivesUp ==
    /\ AppRuns /\ registrar = "trying"
    /\ registrar' = "off"
    /\ \/ ~authUp /\ UNCHANGED <<registered, faults>>
       \/ authUp /\ Fault /\ registered' \in {registered, TRUE}
    /\ UNCHANGED <<env, stage, overran, auth, keys, at, token, documents>>

\* No answer, or an error; the catalogue may have arrived all the same.
RegisterFails ==
    /\ AppRuns /\ registrar = "trying"
    /\ registrar' = "waiting"
    /\ \/ ~authUp /\ UNCHANGED <<registered, faults>>
       \/ authUp /\ Fault /\ registered' \in {registered, TRUE}
    /\ UNCHANGED <<env, stage, overran, auth, keys, at, token, documents>>

RegisterAgain ==
    /\ AppRuns /\ registrar = "waiting"
    /\ registrar' = "trying"
    /\ UNCHANGED <<env, stage, overran, auth, keys, registered, at, token, documents, faults>>

-------------------------------------------------------------------------------
(* A capture: AttachPrincipal, RequirePerm, CaptureDocument.               *)

Verify(t) == t.valid /\ t.kid \in keys

AttachPrincipal(t) == t.bearer /\ Verify(t)

StrictRBAC == HardenedRuntime(env)

RequirePerm(t) ==
    \/ t.staff
    \/ IF t.permissions = {} THEN ~StrictRBAC ELSE {"*", Capture} \cap t.permissions # {}

Move(r, to) == at' = [at EXCEPT ![r] = to]

Admit(r, t) ==
    /\ stage = "serving" /\ at[r] = "new"
    /\ AttachPrincipal(t) /\ RequirePerm(t)
    /\ Move(r, "admitted")
    /\ token' = [token EXCEPT ![r] = t]
    /\ UNCHANGED <<env, stage, overran, auth, keys, registration, documents, faults>>

\* pool.Close lets nobody in any more.
PoolOpen == stage # "closing"

\* CreateDocument takes a connection of the pool.
Insert(r) ==
    /\ at[r] = "admitted" /\ ~env.memory /\ PoolOpen
    /\ Move(r, "inserting")
    /\ UNCHANGED <<env, stage, overran, auth, keys, registration, token, documents, faults>>

Stored(r) ==
    /\ \/ at[r] = "inserting"
       \/ at[r] = "admitted" /\ env.memory
    /\ stored' = stored \cup {r}
    /\ Move(r, "inserted")
    /\ UNCHANGED <<env, stage, overran, auth, keys, registration, token, announced, acked, faults>>

\* Mutant: the handler goes on after the error.
InsertFailsUnseen(r) ==
    /\ \/ at[r] = "admitted" /\ ~env.memory /\ ~PoolOpen /\ UNCHANGED <<stored, faults>>
       \/ at[r] = "inserting" /\ Fault /\ stored' \in {stored, stored \cup {r}}
    /\ Move(r, "inserted")
    /\ UNCHANGED <<env, stage, overran, auth, keys, registration, token, announced, acked>>

\* 500: no connection, or the statement failed, possibly after its commit.
InsertFails(r) ==
    /\ \/ at[r] = "admitted" /\ ~env.memory /\ ~PoolOpen /\ UNCHANGED <<stored, faults>>
       \/ at[r] = "inserting" /\ Fault /\ stored' \in {stored, stored \cup {r}}
    /\ Move(r, "ended")
    /\ UNCHANGED <<env, stage, overran, auth, keys, registration, token, announced, acked>>

\* Publish with a disabled bus.
PublishNothing(r) ==
    /\ at[r] = "inserted" /\ ~env.bus
    /\ Move(r, "answering")
    /\ UNCHANGED <<env, stage, overran, auth, keys, registration, token, documents, faults>>

\* Publish takes a connection for the outbox row, or writes to Kafka itself.
Publish(r) ==
    /\ at[r] = "inserted" /\ env.bus
    /\ IF UsesOutbox THEN PoolOpen ELSE stage \notin {"cancelled", "closing"}
    /\ Move(r, "enqueuing")
    /\ UNCHANGED <<env, stage, overran, auth, keys, registration, token, documents, faults>>

Published(r) ==
    /\ at[r] = "enqueuing"
    /\ announced' = announced \cup {r}
    /\ Move(r, "answering")
    /\ UNCHANGED <<env, stage, overran, auth, keys, registration, token, stored, acked, faults>>

\* Publish logs the error and the handler ignores it.
PublishFails(r) ==
    /\ \/ /\ at[r] = "inserted" /\ env.bus
          /\ IF UsesOutbox THEN ~PoolOpen ELSE stage \in {"cancelled", "closing"}
          /\ UNCHANGED <<announced, faults>>
       \/ /\ at[r] = "enqueuing" /\ Fault
          /\ announced' \in {announced, announced \cup {r}}
    /\ Move(r, "answering")
    /\ UNCHANGED <<env, stage, overran, auth, keys, registration, token, stored, acked>>

Answer(r) ==
    /\ at[r] = "answering"
    /\ acked' = acked \cup {r}
    /\ Move(r, "ended")
    /\ UNCHANGED <<env, stage, overran, auth, keys, registration, token, stored, announced, faults>>

-------------------------------------------------------------------------------
(* Shutdown, in the order of main and its deferred calls.                  *)

\* A signal: the listener is closed.
Signal ==
    /\ stage = "serving"
    /\ stage' = "draining"
    /\ UNCHANGED <<env, overran, auth, keys, registration, at, token, documents, faults>>

\* Mutant: a state of its own for a registration that was cancelled.
CancelStops ==
    /\ stage' = "cancelled"
    /\ registrar' = "stopped"

\* cancelApp.
Cancel ==
    /\ stage' = "cancelled"
    /\ registrar' = "off"

\* Mutant: the requests in flight are not waited for.
DrainedAtOnce ==
    /\ stage = "draining"
    /\ Cancel
    /\ UNCHANGED <<env, overran, auth, keys, registered, at, token, documents, faults>>

Drained ==
    /\ stage = "draining" /\ Open = {}
    /\ Cancel
    /\ UNCHANGED <<env, overran, auth, keys, registered, at, token, documents, faults>>

\* Mutant: Shutdown without a deadline.
OverrunNever ==
    /\ stage = "draining" /\ Open = {}
    /\ overran' = TRUE
    /\ Cancel
    /\ UNCHANGED <<env, auth, keys, registered, at, token, documents, faults>>

Overrun ==
    /\ stage = "draining" /\ Open # {}
    /\ overran' = TRUE
    /\ Cancel
    /\ UNCHANGED <<env, auth, keys, registered, at, token, documents, faults>>

\* eventBus.Close, which ends writes in progress, then pool.Close.
CloseBus ==
    /\ stage = "cancelled"
    /\ UsesOutbox \/ \A r \in Requests : at[r] # "enqueuing"
    /\ stage' = "closing"
    /\ UNCHANGED <<env, overran, auth, keys, registration, at, token, documents, faults>>

\* The requests this process had are over; memory goes with the process.
Gone ==
    /\ at' = [r \in Requests |-> IF r \in Open THEN "ended" ELSE at[r]]
    /\ keys' = {} /\ registrar' = "off"
    /\ stored' = IF env.memory THEN {} ELSE stored
    /\ UNCHANGED <<env, auth, registered, token, announced, acked>>

\* pool.Close waits for the connections in use; main returns.
Exit ==
    /\ stage = "closing"
    /\ ~env.memory => \A r \in Requests : at[r] \notin {"inserting", "enqueuing"}
    /\ stage' = "exited"
    /\ Gone
    /\ UNCHANGED <<overran, faults>>

\* A crash, a boot that fails, a listener that dies: os.Exit, nothing deferred.
Crash ==
    /\ stage \notin {"down", "exited"}
    /\ Fault
    /\ stage' = "down" /\ overran' = FALSE
    /\ Gone

-------------------------------------------------------------------------------
(* The authentication service.                                             *)

\* Rotation: a new set of keys, or a document without a usable one.
Rotate(new) ==
    /\ changes < MaxChanges /\ changes' = changes + 1
    /\ new # published
    /\ published' = new
    /\ UNCHANGED <<env, stage, overran, authUp, keys, registration, at, token, documents, faults>>

AuthChanges ==
    /\ changes < MaxChanges /\ changes' = changes + 1
    /\ authUp' = ~authUp
    /\ UNCHANGED <<env, stage, overran, published, keys, registration, at, token, documents, faults>>

-------------------------------------------------------------------------------

Boot == Start \/ Connect \/ Migrate \/ Listen({}) \/ (published # {} /\ Listen(published))

Handle(r) ==
    \/ Insert(r) \/ Stored(r) \/ InsertFails(r) \/ PublishNothing(r)
    \/ Publish(r) \/ Published(r) \/ PublishFails(r) \/ Answer(r)

Next ==
    \/ Boot
    \/ Refresh \/ Register \/ RegisterFails \/ RegisterAgain
    \/ \E r \in Requests : Handle(r) \/ \E t \in Tokens : Admit(r, t)
    \/ Signal \/ Drained \/ Overrun \/ CloseBus \/ Exit \/ Crash
    \/ \E new \in SUBSET Keys : Rotate(new)
    \/ AuthChanges

Spec == Init /\ [][Next]_vars

\* Main's goroutines run on; a statement or a write in progress ends, with an
\* answer or an error.  No fairness for a handler between two statements.
Fairness ==
    /\ WF_vars(Boot)
    /\ WF_vars(Refresh) /\ WF_vars(Register) /\ WF_vars(RegisterFails) /\ WF_vars(RegisterAgain)
    /\ WF_vars(Drained \/ Overrun) /\ WF_vars(CloseBus) /\ WF_vars(Exit)
    /\ \A r \in Requests : WF_vars((Stored(r) \/ Published(r)) /\ at[r] # "admitted")

FairSpec == Spec /\ Fairness

-------------------------------------------------------------------------------
(* Properties.                                                             *)

\* A document whose capture a production node answered with 201 is in its
\* buffer, through crashes, restarts and every shutdown.
AckedIsKept == IsProduction(env) => acked \subseteq stored

\* A token without permissions opens the API only where someone chose a
\* development environment, or chose none and nothing looks deployed.
EmptyListIsNoPass ==
    \A r \in Open :
        \/ token[r].staff \/ token[r].permissions # {}
        \/ env.environment = "development"
        \/ env.environment = "unset" /\ ~env.deployed

\* A shutdown that did not run out of its 30 s cuts no capture short: while a
\* request runs, the bus and the pool are open; and without faults every
\* capture that was acknowledged has its event.
CleanStop ==
    /\ stage \in {"cancelled", "closing"} /\ ~overran => Open = {}
    /\ faults = 0 /\ ~overran /\ env.bus => acked \subseteq announced

\* A signal ends the process, although handlers may hang between statements.
Terminates == stage = "draining" ~> stage \in {"down", "exited"}

\* A node that stays up, with an authentication service that stays up, ends up
\* with the published keys: a boot without keys heals, and a key that was
\* withdrawn is refused.  A document without a usable key changes nothing.
KeysCatchUp ==
    <>[](stage = "serving" /\ authUp) => <>[](published # {} => keys = published)

\* Its permissions end up registered.
PermissionsRegistered ==
    env.secret # "none" => (<>[](stage = "serving" /\ authUp) => <>registered)

-------------------------------------------------------------------------------
(* Refinement: a 201 is a receipt.                                         *)

\* The buffer of a production node outlives its process, whatever STORE_MODE says.
Receipts == INSTANCE CaptureReceipts WITH
    durable <- IsProduction(env) \/ ~env.memory

\* Refused settings, failing statements, a pool and a bus that close under a request,
\* crashes and new boots never acknowledge or announce what is not in the buffer.
ImplementsReceipts == Receipts!Spec
===============================================================================
