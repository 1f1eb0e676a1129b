----------------------------- MODULE SchemaHistory -----------------------------
(***************************************************************************)
(* What operators may rely on about the schema of a database that several  *)
(* builds migrate, without schema_migrations, transactions, races or       *)
(* failures: it has one history, which only grows.  A file is added to it  *)
(* whole and once, by a build whose earlier files are all in it; and a     *)
(* process serves when all of its files are, with the contents it knows.   *)
(*                                                                         *)
(* Migrations implements this specification: boots that race look as if    *)
(* one file at a time had been applied.                                    *)
(***************************************************************************)
EXTENDS Naturals, Sequences

CONSTANTS
    Procs,              \* processes, by build
    Versions,           \* file names, numbered in their order
    Files,              \* Files[p][v]: content of file v in p's build, or Missing
    Missing             \* no such file

VARIABLES
    history,            \* the files in the schema, in the order they came
    serving             \* processes that serve

vars == <<history, serving>>

Init == history = <<>> /\ serving = {}

File(p, v) == [version |-> v, checksum |-> Files[p][v]]

InSchema(file) == \E i \in DOMAIN history : history[i] = file

\* The schema has what p's build knows as file v.
UpToDate(p, v) == Files[p][v] = Missing \/ InSchema(File(p, v))

Apply(p, v) ==
    /\ Files[p][v] # Missing
    /\ \A i \in DOMAIN history : history[i].version # v
    /\ \A u \in Versions : u < v => UpToDate(p, u)
    /\ history' = Append(history, File(p, v))
    /\ UNCHANGED serving

Serve(p) ==
    /\ p \notin serving
    /\ \A v \in Versions : UpToDate(p, v)
    /\ serving' = serving \cup {p}
    /\ UNCHANGED history

Leave(p) ==
    /\ serving' = serving \ {p}
    /\ UNCHANGED history

Next == \E p \in Procs : Serve(p) \/ Leave(p) \/ \E v \in Versions : Apply(p, v)

Spec == Init /\ [][Next]_vars
===============================================================================
