------------------------------ MODULE Migrations ------------------------------
(***************************************************************************)
(* Processes that boot against one database and migrate its schema         *)
(* (internal/migrate/migrate.go, autoMigrate in main.go).                  *)
(*                                                                         *)
(* Up reads schema_migrations once and then applies every file it misses,  *)
(* each in a transaction of its own: the body, the row of its version, the *)
(* commit.  Processes may carry different builds.  A process whose Up      *)
(* fails exits and is started again.                                       *)
(***************************************************************************)
EXTENDS Naturals, Sequences

CONSTANTS
    Procs,          \* processes with AUTO_MIGRATE, by build
    Versions,       \* file names without .sql, numbered in their order
    Checksums,      \* contents of the files
    Files,          \* Files[p][v]: content of file v in p's build, or Missing
    Missing,        \* no such file
    MaxFaults       \* bound: crashes, lost connections and expired contexts

ASSUME VersionsAssumption == Versions \subseteq Nat
ASSUME FilesAssumption ==
    Missing \notin Checksums /\ Files \in [Procs -> [Versions -> Checksums \cup {Missing}]]
ASSUME FaultsAssumption == MaxFaults \in Nat

VARIABLES
    created,        \* schema_migrations exists
    recorded,       \* its rows: recorded[v] is a checksum, or Missing
    schema,         \* the bodies committed so far, in this order
    stage,          \* stage[p]: how far p has come
    applied,        \* applied[p]: the rows loadApplied read
    next,           \* next[p]: no file before this version is left to look at
    faults          \* faults so far

vars == <<created, recorded, schema, stage, applied, next, faults>>

Stages == {"down", "boot", "loaded", "body", "inserted", "serving"}

Body == [version : Versions, checksum : Checksums]

TypeOK ==
    /\ created \in BOOLEAN
    /\ recorded \in [Versions -> Checksums \cup {Missing}]
    /\ schema \in Seq(Body)
    /\ stage \in [Procs -> Stages]
    /\ applied \in [Procs -> [Versions -> Checksums \cup {Missing}]]
    /\ next \in [Procs -> Nat]
    /\ faults \in 0..MaxFaults

NoRows == [v \in Versions |-> Missing]

Init ==
    /\ created = FALSE
    /\ recorded = NoRows
    /\ schema = <<>>
    /\ stage = [p \in Procs |-> "down"]
    /\ applied = [p \in Procs |-> NoRows]
    /\ next = [p \in Procs |-> 0]
    /\ faults = 0

-------------------------------------------------------------------------------

\* load, sorted: the files p has yet to look at, and the first of them.
Pending(p) == {v \in Versions : Files[p][v] # Missing /\ v >= next[p]}

\* Mutant: the files come in any order.
IsAny(p, v) == v \in Pending(p)

IsFirst(p, v) == v \in Pending(p) /\ \A u \in Pending(p) : v <= u

Goto(p, s) == stage' = [stage EXCEPT ![p] = s]

\* Mutant: a status of its own for a process that exited.
ExitFailed(p) ==
    /\ Goto(p, "failed")
    /\ applied' = [applied EXCEPT ![p] = NoRows]
    /\ next' = [next EXCEPT ![p] = 0]

\* Up returns an error: os.Exit(1), and a transaction in progress is undone.
Exit(p) ==
    /\ Goto(p, "down")
    /\ applied' = [applied EXCEPT ![p] = NoRows]
    /\ next' = [next EXCEPT ![p] = 0]

Start(p) ==
    /\ stage[p] = "down"
    /\ Goto(p, "boot")
    /\ UNCHANGED <<created, recorded, schema, applied, next, faults>>

\* CREATE TABLE IF NOT EXISTS.
CreateTable(p) ==
    /\ stage[p] = "boot" /\ ~created
    /\ created' = TRUE
    /\ UNCHANGED <<recorded, schema, stage, applied, next, faults>>

\* Two of them side by side: Postgres may refuse the second with an error.
CreateTableRaces(p) ==
    /\ stage[p] = "boot" /\ ~created
    /\ \E q \in Procs \ {p} : stage[q] = "boot"
    /\ created' = TRUE
    /\ Exit(p)
    /\ UNCHANGED <<recorded, schema, faults>>

\* Mutant: the rows are not read.
LoadNothing(p) ==
    /\ stage[p] = "boot" /\ created
    /\ Goto(p, "loaded")
    /\ UNCHANGED <<created, recorded, schema, applied, next, faults>>

LoadApplied(p) ==
    /\ stage[p] = "boot" /\ created
    /\ applied' = [applied EXCEPT ![p] = recorded]
    /\ Goto(p, "loaded")
    /\ UNCHANGED <<created, recorded, schema, next, faults>>

\* Mutant: a version that was applied is not compared.
SkipUnchecked(p, v) ==
    /\ stage[p] = "loaded" /\ IsFirst(p, v)
    /\ applied[p][v] # Missing
    /\ next' = [next EXCEPT ![p] = v + 1]
    /\ UNCHANGED <<created, recorded, schema, stage, applied, faults>>

\* A version that was applied, with the same content.
Skip(p, v) ==
    /\ stage[p] = "loaded" /\ IsFirst(p, v)
    /\ applied[p][v] = Files[p][v]
    /\ next' = [next EXCEPT ![p] = v + 1]
    /\ UNCHANGED <<created, recorded, schema, stage, applied, faults>>

Mismatch(p, v) ==
    /\ stage[p] = "loaded" /\ IsFirst(p, v)
    /\ applied[p][v] \notin {Missing, Files[p][v]}
    /\ Exit(p)
    /\ UNCHANGED <<created, recorded, schema, faults>>

\* Mutant: the body is not part of the transaction.
RunBodyAutocommits(p, v) ==
    /\ stage[p] = "loaded" /\ IsFirst(p, v)
    /\ applied[p][v] = Missing
    /\ schema' = Append(schema, [version |-> v, checksum |-> Files[p][v]])
    /\ Goto(p, "body")
    /\ UNCHANGED <<created, recorded, applied, next, faults>>

\* apply: Begin and the body.
RunBody(p, v) ==
    /\ stage[p] = "loaded" /\ IsFirst(p, v)
    /\ applied[p][v] = Missing
    /\ Goto(p, "body")
    /\ UNCHANGED <<created, recorded, schema, applied, next, faults>>

\* The body meets what a concurrent transaction made of the same file.
BodyRaces(p, v) ==
    /\ stage[p] = "loaded" /\ IsFirst(p, v)
    /\ applied[p][v] = Missing
    /\ \/ recorded[v] # Missing
       \/ \E q \in Procs \ {p} : IsFirst(q, v) /\ stage[q] \in {"body", "inserted"}
    /\ Exit(p)
    /\ UNCHANGED <<created, recorded, schema, faults>>

\* Another transaction holds the key of version v: the insert waits for it.
KeyHeld(p, v) == \E q \in Procs \ {p} : IsFirst(q, v) /\ stage[q] = "inserted"

\* Mutant: INSERT ... ON CONFLICT DO NOTHING.
InsertRowIgnoring(p, v) ==
    /\ stage[p] = "body" /\ IsFirst(p, v)
    /\ ~KeyHeld(p, v)
    /\ Goto(p, "inserted")
    /\ UNCHANGED <<created, recorded, schema, applied, next, faults>>

InsertRow(p, v) ==
    /\ stage[p] = "body" /\ IsFirst(p, v)
    /\ ~KeyHeld(p, v) /\ recorded[v] = Missing
    /\ Goto(p, "inserted")
    /\ UNCHANGED <<created, recorded, schema, applied, next, faults>>

\* 23505, "concurrent migration".
Conflict(p, v) ==
    /\ stage[p] = "body" /\ IsFirst(p, v)
    /\ recorded[v] # Missing
    /\ Exit(p)
    /\ UNCHANGED <<created, recorded, schema, faults>>

\* Postgres makes body and row durable together.
Committed(p, v) ==
    /\ stage[p] = "inserted" /\ IsFirst(p, v)
    /\ recorded' = [recorded EXCEPT ![v] = Files[p][v]]
    /\ schema' = Append(schema, [version |-> v, checksum |-> Files[p][v]])
    /\ UNCHANGED created

Commit(p, v) ==
    /\ Committed(p, v)
    /\ next' = [next EXCEPT ![p] = v + 1]
    /\ Goto(p, "loaded")
    /\ UNCHANGED <<applied, faults>>

Fault == faults < MaxFaults /\ faults' = faults + 1

\* The answer to the commit is lost, or the process dies before it reads it.
CommitUnseen(p, v) ==
    /\ Committed(p, v)
    /\ Fault
    /\ Exit(p)

\* Up has been through all files; main goes on to serve.
Serve(p) ==
    /\ stage[p] = "loaded" /\ Pending(p) = {}
    /\ Goto(p, "serving")
    /\ UNCHANGED <<created, recorded, schema, applied, next, faults>>

\* A crash, a lost connection, or the two minutes of autoMigrate are over.
Fails(p) ==
    /\ stage[p] # "down"
    /\ Fault
    /\ Exit(p)
    /\ UNCHANGED <<created, recorded, schema>>

-------------------------------------------------------------------------------

Step(p, v) ==
    \/ Skip(p, v) \/ Mismatch(p, v) \/ RunBody(p, v) \/ BodyRaces(p, v)
    \/ InsertRow(p, v) \/ Conflict(p, v) \/ Commit(p, v) \/ CommitUnseen(p, v)

Next ==
    \/ \E p \in Procs, v \in Versions : Step(p, v)
    \/ \E p \in Procs :
         \/ Start(p) \/ CreateTable(p) \/ CreateTableRaces(p)
         \/ LoadApplied(p) \/ Serve(p) \/ Fails(p)

Spec == Init /\ [][Next]_vars

\* A process runs on, and the platform starts it again when it has exited.
Fairness ==
    \A p \in Procs :
        WF_vars(\/ \E v \in Versions : Step(p, v)
                \/ Start(p) \/ CreateTable(p) \/ LoadApplied(p) \/ Serve(p))

FairSpec == Spec /\ Fairness

-------------------------------------------------------------------------------
(* Properties.                                                             *)

\* No body is run twice to its commit, by whichever processes and builds, and
\* schema_migrations says exactly which were: a process that dies or loses its
\* answer at any point finds out on its next boot.
AppliedOnce ==
    /\ \A i, j \in DOMAIN schema : schema[i].version = schema[j].version => i = j
    /\ \A v \in Versions, c \in Checksums :
         recorded[v] = c <=> \E i \in DOMAIN schema : schema[i] = [version |-> v, checksum |-> c]

\* A process serves only on a schema that has all of its files, as they are in
\* its build, although it read schema_migrations before others went on with it.
ServesOnItsSchema ==
    \A p \in Procs : stage[p] = "serving" =>
        \A v \in Versions : Files[p][v] \in {Missing, recorded[v]}

\* Builds of one history: a build that has a file has all those before it.
Linear ==
    \A p, q \in Procs, u, v \in Versions :
        u < v /\ Files[p][v] # Missing /\ Files[q][u] # Missing => Files[p][u] # Missing

\* Then the bodies are committed in the order of the file names.
InOrder ==
    Linear => \A i, j \in DOMAIN schema : i < j => schema[i].version < schema[j].version

\* A file of p's build was applied with another content, by another build.
Contradicted(p) == \E v \in Versions : recorded[v] # Missing /\ Files[p][v] \notin {Missing, recorded[v]}

\* However boots race and fail, each process ends up serving, unless another
\* build got in first with another content of a file: processes do not block or
\* defeat each other for ever.
AllServe == \A p \in Procs : <>[](stage[p] = "serving") \/ <>Contradicted(p)

-------------------------------------------------------------------------------
(* Refinement: the database has one history.                               *)

History == INSTANCE SchemaHistory WITH
    history <- schema,
    serving <- {p \in Procs : stage[p] = "serving"}

\* Boots of different builds that read, run bodies, wait for keys, crash and start
\* again in any order leave the schema as if they had applied one file at a time.
ImplementsHistory == History!Spec
===============================================================================
