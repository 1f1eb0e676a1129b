--------------------------- MODULE MigrationsProofs ---------------------------
(***************************************************************************)
(* Theorems about Migrations, for all processes, builds, files and faults. *)
(*                                                                         *)
(* The argument: a process that has inserted a version's row holds its key *)
(* alone (Alone) and the row is not there yet (Fresh), so a row is written *)
(* once and never changes; what a process read before (Snapshots) or has   *)
(* passed (Passed) therefore stays true while others go on.                *)
(***************************************************************************)
EXTENDS Migrations, TLAPS

\* A process inserts or commits version v.
Holds(p, v) == stage[p] = "inserted" /\ IsFirst(p, v)

Snapshots == \A p \in Procs, v \in Versions : applied[p][v] \in {Missing, recorded[v]}

Passed == \A p \in Procs, v \in Versions : v < next[p] => Files[p][v] \in {Missing, recorded[v]}

Fresh == \A p \in Procs, v \in Versions : Holds(p, v) => recorded[v] = Missing

Alone == \A p, q \in Procs, v \in Versions : Holds(p, v) /\ Holds(q, v) => p = q

Through == \A p \in Procs : stage[p] = "serving" => Pending(p) = {}

\* In one history of builds the rows have no gap.
Closed ==
    Linear => \A u, v \in Versions, q \in Procs :
        u < v /\ recorded[v] # Missing /\ Files[q][u] # Missing => recorded[u] # Missing

IInv ==
    /\ TypeOK
    /\ Snapshots
    /\ Passed
    /\ Fresh
    /\ Alone
    /\ Through
    /\ AppliedOnce
    /\ Closed
    /\ InOrder

\* A step of one process that writes no row.
Quiet(p) ==
    /\ created' \in BOOLEAN
    /\ recorded' = recorded /\ schema' = schema
    /\ faults' \in 0..MaxFaults
    /\ \E s \in Stages : stage' = [stage EXCEPT ![p] = s]
    /\ \E a \in [Versions -> Checksums \cup {Missing}] : applied' = [applied EXCEPT ![p] = a]
    /\ \E n \in Nat : next' = [next EXCEPT ![p] = n]

-------------------------------------------------------------------------------

\* What a process does to itself does not touch the others.
LEMMA Others ==
    ASSUME TypeOK, NEW p \in Procs, NEW q \in Procs, q # p,
           NEW s, NEW a, NEW n,
           stage' = [stage EXCEPT ![p] = s],
           applied' = [applied EXCEPT ![p] = a],
           next' = [next EXCEPT ![p] = n]
    PROVE  /\ stage'[q] = stage[q] /\ applied'[q] = applied[q] /\ next'[q] = next[q]
           /\ stage'[p] = s /\ applied'[p] = a /\ next'[p] = n
  BY DEF TypeOK

\* A file that is first is a file of the build, and nothing before it is open.
LEMMA FirstFile ==
    ASSUME TypeOK, NEW p \in Procs, NEW v \in Versions, IsFirst(p, v)
    PROVE  /\ Files[p][v] \in Checksums
           /\ v >= next[p]
           /\ \A u \in Versions : u >= next[p] /\ u < v => Files[p][u] = Missing
  BY VersionsAssumption, FilesAssumption DEF TypeOK, IsFirst, Pending

\* The invariant holds initially.
LEMMA InitInvariant == Init => IInv
<1> SUFFICES ASSUME Init PROVE IInv
  OBVIOUS
<1>1. TypeOK
  <2>1. schema \in Seq(Body)
    BY DEF Init
  <2>2. faults \in 0..MaxFaults
    BY FaultsAssumption DEF Init
  <2> QED
    BY <2>1, <2>2 DEF Init, TypeOK, NoRows, Stages
<1>2. Snapshots /\ Fresh /\ Alone /\ Through
  BY DEF Init, Snapshots, Fresh, Alone, Through, Holds, NoRows
<1>3. Passed
  BY VersionsAssumption DEF Init, Passed
<1>4. AppliedOnce
  BY FilesAssumption DEF Init, AppliedOnce, NoRows
<1>5. Closed /\ InOrder
  BY DEF Init, Closed, InOrder, NoRows
<1> QED
  BY <1>1, <1>2, <1>3, <1>4, <1>5 DEF IInv

\* A step of p that writes no row preserves the invariant if p's own snapshot,
\* position and key are right afterwards.
LEMMA QuietStep ==
    ASSUME IInv, NEW p \in Procs, Quiet(p),
           \A v \in Versions : applied'[p][v] \in {Missing, recorded[v]},
           \A v \in Versions : v < next'[p] => Files[p][v] \in {Missing, recorded[v]},
           \A v \in Versions : Holds(p, v)' =>
               recorded[v] = Missing /\ \A q \in Procs \ {p} : ~Holds(q, v),
           stage'[p] = "serving" => Pending(p)' = {}
    PROVE  IInv'
<1>1. PICK s \in Stages, a \in [Versions -> Checksums \cup {Missing}], n \in Nat :
        /\ stage' = [stage EXCEPT ![p] = s]
        /\ applied' = [applied EXCEPT ![p] = a]
        /\ next' = [next EXCEPT ![p] = n]
  BY DEF Quiet
<1>2. recorded' = recorded /\ schema' = schema
  BY DEF Quiet
<1>3. TypeOK'
  BY <1>1, <1>2 DEF IInv, TypeOK, Quiet
<1>4. \A q \in Procs \ {p} : stage'[q] = stage[q] /\ applied'[q] = applied[q] /\ next'[q] = next[q]
  BY <1>1 DEF IInv, TypeOK
<1>5. \A q \in Procs \ {p} : Pending(q)' = Pending(q)
  BY <1>4 DEF Pending
<1>6. \A q \in Procs \ {p}, v \in Versions : Holds(q, v)' <=> Holds(q, v)
  BY <1>4, <1>5 DEF Holds, IsFirst
<1>7. Snapshots'
  BY <1>2, <1>4 DEF IInv, Snapshots
<1>8. Passed'
  BY <1>2, <1>4 DEF IInv, Passed
<1>9. Fresh'
  BY <1>2, <1>6 DEF IInv, Fresh
<1>10. Alone'
  BY <1>6 DEF IInv, Alone
<1>11. Through'
  BY <1>4, <1>5 DEF IInv, Through
<1>12. AppliedOnce' /\ Closed' /\ InOrder'
  BY <1>2 DEF IInv, AppliedOnce, Closed, InOrder, Linear
<1> QED
  BY <1>3, <1>7, <1>8, <1>9, <1>10, <1>11, <1>12 DEF IInv

\* The commit of a version's row and body preserves the invariant, whether p
\* sees it and goes on or is gone.
LEMMA CommitStep ==
    ASSUME IInv, NEW p \in Procs, NEW v \in Versions, Committed(p, v),
           faults' \in 0..MaxFaults,
           NEW s \in Stages, s \notin {"inserted", "serving"},
           NEW a \in [Versions -> Checksums \cup {Missing}], a \in {applied[p], NoRows},
           NEW n \in {0, v + 1},
           stage' = [stage EXCEPT ![p] = s],
           applied' = [applied EXCEPT ![p] = a],
           next' = [next EXCEPT ![p] = n]
    PROVE  IInv'
<1>1. TypeOK /\ Holds(p, v)
  BY DEF IInv, Committed, Holds
<1>2. /\ Files[p][v] \in Checksums
      /\ v >= next[p]
      /\ \A u \in Versions : u >= next[p] /\ u < v => Files[p][u] = Missing
  BY <1>1, FirstFile DEF Holds
<1>3. recorded[v] = Missing
  BY <1>1 DEF IInv, Fresh
<1>4. recorded' = [recorded EXCEPT ![v] = Files[p][v]]
  BY DEF Committed
<1>5. /\ recorded'[v] = Files[p][v]
      /\ \A u \in Versions \ {v} : recorded'[u] = recorded[u]
  BY <1>1, <1>4 DEF TypeOK
<1>6. schema' = Append(schema, [version |-> v, checksum |-> Files[p][v]])
  BY DEF Committed
<1>7. /\ \A q \in Procs \ {p} : stage'[q] = stage[q] /\ applied'[q] = applied[q] /\ next'[q] = next[q]
      /\ stage'[p] = s /\ applied'[p] = a /\ next'[p] = n
  BY <1>1 DEF TypeOK
<1>8. \A q \in Procs \ {p} : Pending(q)' = Pending(q)
  BY <1>7 DEF Pending
<1>9. \A q \in Procs, u \in Versions : Holds(q, u)' => q # p /\ u # v /\ Holds(q, u)
  <2> SUFFICES ASSUME NEW q \in Procs, NEW u \in Versions, Holds(q, u)'
               PROVE  q # p /\ u # v /\ Holds(q, u)
    OBVIOUS
  <2>1. q # p
    BY <1>7 DEF Holds
  <2>2. Holds(q, u)
    BY <2>1, <1>7, <1>8 DEF Holds, IsFirst
  <2> QED
    BY <2>1, <2>2, <1>1 DEF IInv, Alone
<1>10. TypeOK'
  <2>1. [version |-> v, checksum |-> Files[p][v]] \in Body
    BY <1>2 DEF Body
  <2>2. schema' \in Seq(Body)
    BY <2>1, <1>1, <1>6 DEF TypeOK
  <2>3. recorded' \in [Versions -> Checksums \cup {Missing}]
    BY <1>1, <1>2, <1>4 DEF TypeOK
  <2>4. n \in Nat
    BY VersionsAssumption
  <2> QED
    BY <2>2, <2>3, <2>4, <1>1 DEF TypeOK, Committed
<1>11. Snapshots'
  <2> SUFFICES ASSUME NEW q \in Procs, NEW u \in Versions
               PROVE  applied'[q][u] \in {Missing, recorded'[u]}
    BY DEF Snapshots
  <2>1. applied'[q][u] \in {Missing, applied[q][u]}
    BY <1>7 DEF NoRows
  <2>2. applied[q][u] \in {Missing, recorded[u]}
    BY DEF IInv, Snapshots
  <2> QED
    BY <2>1, <2>2, <1>3, <1>5
<1>12. Passed'
  <2> SUFFICES ASSUME NEW q \in Procs, NEW u \in Versions, u < next'[q]
               PROVE  Files[q][u] \in {Missing, recorded'[u]}
    BY DEF Passed
  <2>1. CASE u < next[q]
    <3>1. Files[q][u] \in {Missing, recorded[u]}
      BY <2>1 DEF IInv, Passed
    <3> QED
      BY <3>1, <1>3, <1>5
  <2>2. CASE ~(u < next[q])
    <3>1. q = p /\ n = v + 1 /\ u < v + 1
      BY <2>2, <1>7, VersionsAssumption DEF IInv, TypeOK
    <3>2. u = v \/ (u < v /\ u >= next[p])
      BY <3>1, <2>2, <1>1, VersionsAssumption DEF TypeOK
    <3> QED
      BY <3>1, <3>2, <1>2, <1>5
  <2> QED
    BY <2>1, <2>2
<1>13. Fresh'
  BY <1>9, <1>5 DEF IInv, Fresh
<1>14. Alone'
  BY <1>9 DEF IInv, Alone
<1>15. Through'
  BY <1>7, <1>8 DEF IInv, Through
<1>16. /\ schema \in Seq(Body)
       /\ DOMAIN schema = 1..Len(schema) /\ Len(schema) \in Nat
       /\ DOMAIN schema' = 1..(Len(schema) + 1)
       /\ schema'[Len(schema) + 1] = [version |-> v, checksum |-> Files[p][v]]
       /\ \A i \in DOMAIN schema : schema'[i] = schema[i]
  BY <1>1, <1>2, <1>6 DEF TypeOK, Body
<1>17. \A i \in DOMAIN schema : schema[i] \in Body /\ recorded[schema[i].version] = schema[i].checksum
  <2> SUFFICES ASSUME NEW i \in DOMAIN schema
               PROVE  schema[i] \in Body /\ recorded[schema[i].version] = schema[i].checksum
    OBVIOUS
  <2>1. schema[i] \in Body
    BY <1>16
  <2>2. /\ schema[i].version \in Versions /\ schema[i].checksum \in Checksums
        /\ schema[i] = [version |-> schema[i].version, checksum |-> schema[i].checksum]
    BY <2>1 DEF Body
  <2> QED
    BY <2>1, <2>2 DEF IInv, AppliedOnce
<1>18. \A i \in DOMAIN schema : schema[i].version # v
  BY <1>17, <1>3, FilesAssumption DEF Body
<1>19. AppliedOnce'
  <2>1. ASSUME NEW i \in DOMAIN schema', NEW j \in DOMAIN schema',
               schema'[i].version = schema'[j].version
        PROVE  i = j
    <3>1. CASE i \in DOMAIN schema /\ j \in DOMAIN schema
      BY <2>1, <3>1, <1>16 DEF IInv, AppliedOnce
    <3>2. CASE i = Len(schema) + 1 \/ j = Len(schema) + 1
      BY <2>1, <3>2, <1>16, <1>18
    <3> QED
      BY <3>1, <3>2, <1>16
  <2>2. ASSUME NEW u \in Versions, NEW c \in Checksums
        PROVE  recorded'[u] = c <=> \E i \in DOMAIN schema' : schema'[i] = [version |-> u, checksum |-> c]
    <3>1. CASE u = v
      <4>1. \A i \in DOMAIN schema : schema'[i] # [version |-> u, checksum |-> c]
        BY <3>1, <1>16, <1>18
      <4>2. (\E i \in DOMAIN schema' : schema'[i] = [version |-> u, checksum |-> c])
              <=> schema'[Len(schema) + 1] = [version |-> u, checksum |-> c]
        BY <4>1, <1>16
      <4>3. schema'[Len(schema) + 1] = [version |-> u, checksum |-> c] <=> Files[p][v] = c
        BY <3>1, <1>16
      <4> QED
        BY <4>2, <4>3, <3>1, <1>5
    <3>2. CASE u # v
      <4>1. schema'[Len(schema) + 1] # [version |-> u, checksum |-> c]
        BY <3>2, <1>16
      <4>2. (\E i \in DOMAIN schema' : schema'[i] = [version |-> u, checksum |-> c])
              <=> \E i \in DOMAIN schema : schema[i] = [version |-> u, checksum |-> c]
        BY <4>1, <1>16
      <4> QED
        BY <4>2, <3>2, <1>5 DEF IInv, AppliedOnce
    <3> QED
      BY <3>1, <3>2
  <2> QED
    BY <2>1, <2>2 DEF AppliedOnce
<1>20. ASSUME Linear, NEW u \in Versions, NEW q \in Procs, u < v, Files[q][u] # Missing
       PROVE  recorded[u] # Missing
  <2>1. Files[p][u] # Missing
    BY <1>20, <1>2, FilesAssumption DEF Linear
  <2>2. u < next[p]
    BY <2>1, <1>20, <1>2, <1>1, VersionsAssumption DEF TypeOK
  <2> QED
    BY <2>1, <2>2 DEF IInv, Passed
<1>21. Closed'
  <2> SUFFICES ASSUME Linear, NEW u \in Versions, NEW w \in Versions, NEW q \in Procs,
                      u < w, recorded'[w] # Missing, Files[q][u] # Missing
               PROVE  recorded'[u] # Missing
    BY DEF Closed, Linear
  <2>1. CASE u = v
    BY <2>1, <1>5, <1>2, FilesAssumption
  <2>2. CASE u # v /\ w = v
    BY <2>2, <1>20, <1>5
  <2>3. CASE u # v /\ w # v
    BY <2>3, <1>5 DEF IInv, Closed
  <2> QED
    BY <2>1, <2>2, <2>3
<1>22. InOrder'
  <2> SUFFICES ASSUME Linear, NEW i \in DOMAIN schema', NEW j \in DOMAIN schema', i < j
               PROVE  schema'[i].version < schema'[j].version
    BY DEF InOrder, Linear
  <2>1. i \in DOMAIN schema /\ schema'[i] = schema[i]
    BY <1>16
  <2>2. CASE j \in DOMAIN schema
    BY <2>1, <2>2, <1>16 DEF IInv, InOrder
  <2>3. CASE j = Len(schema) + 1
    <3>1. schema'[j].version = v
      BY <2>3, <1>16
    <3>2. schema[i].version \in Versions /\ recorded[schema[i].version] # Missing
      BY <2>1, <1>17, FilesAssumption DEF Body
    <3>3. ~(v < schema[i].version)
      BY <3>2, <1>2, <1>3, FilesAssumption DEF IInv, Closed
    <3>4. schema[i].version # v
      BY <2>1, <1>18
    <3> QED
      BY <2>1, <3>1, <3>2, <3>3, <3>4, VersionsAssumption
  <2> QED
    BY <2>2, <2>3, <1>16
<1> QED
  BY <1>10, <1>11, <1>12, <1>13, <1>14, <1>15, <1>19, <1>21, <1>22 DEF IInv

-------------------------------------------------------------------------------

\* A process that exits, for whatever reason, has forgotten everything.
LEMMA ExitStep ==
    ASSUME IInv, NEW p \in Procs, Exit(p), recorded' = recorded, schema' = schema,
           created' \in BOOLEAN, faults' \in 0..MaxFaults
    PROVE  IInv'
<1>1. /\ stage' = [stage EXCEPT ![p] = "down"]
      /\ applied' = [applied EXCEPT ![p] = NoRows]
      /\ next' = [next EXCEPT ![p] = 0]
  BY DEF Exit, Goto
<1>2. NoRows \in [Versions -> Checksums \cup {Missing}]
  BY DEF NoRows
<1>3. Quiet(p)
  BY <1>1, <1>2 DEF Quiet, Stages
<1>4. stage'[p] = "down" /\ applied'[p] = NoRows /\ next'[p] = 0
  BY <1>1 DEF IInv, TypeOK
<1>5. \A v \in Versions : applied'[p][v] = Missing
  BY <1>4 DEF NoRows
<1>6. \A v \in Versions : ~(v < next'[p])
  BY <1>4, VersionsAssumption
<1>7. \A v \in Versions : ~Holds(p, v)'
  BY <1>4 DEF Holds
<1> QED
  BY <1>3, <1>4, <1>5, <1>6, <1>7, QuietStep

\* A process that moves on without touching its snapshot or its position.
LEMMA GotoStep ==
    ASSUME IInv, NEW p \in Procs, NEW s \in Stages, Goto(p, s),
           s \notin {"inserted", "serving"},
           UNCHANGED <<recorded, schema, applied, next, faults>>, created' \in BOOLEAN
    PROVE  IInv'
<1>1. applied[p] \in [Versions -> Checksums \cup {Missing}] /\ next[p] \in Nat
  BY DEF IInv, TypeOK
<1>2. applied' = [applied EXCEPT ![p] = applied[p]] /\ next' = [next EXCEPT ![p] = next[p]]
  BY DEF IInv, TypeOK
<1>3. Quiet(p)
  BY <1>1, <1>2 DEF Quiet, Goto, IInv, TypeOK
<1>4. stage'[p] = s
  BY DEF Goto, IInv, TypeOK
<1>5. \A v \in Versions : ~Holds(p, v)'
  BY <1>4 DEF Holds
<1> QED
  BY <1>3, <1>4, <1>5, QuietStep DEF IInv, Snapshots, Passed

\* Every step preserves the invariant.
LEMMA NextInvariant == IInv /\ [Next]_vars => IInv'
<1> SUFFICES ASSUME IInv, [Next]_vars PROVE IInv'
  OBVIOUS
<1>t. TypeOK
  BY DEF IInv
<1>1. CASE UNCHANGED vars
  BY <1>1 DEF vars, IInv, TypeOK, Snapshots, Passed, Fresh, Alone, Through, Holds, IsFirst,
              Pending, AppliedOnce, Closed, InOrder, Linear
<1>2. ASSUME NEW p \in Procs, Start(p) PROVE IInv'
  <2>1. Goto(p, "boot") /\ UNCHANGED <<created, recorded, schema, applied, next, faults>>
    BY <1>2 DEF Start
  <2> QED
    BY <2>1, <1>t, GotoStep DEF Stages, TypeOK
<1>3. ASSUME NEW p \in Procs, CreateTable(p) PROVE IInv'
  <2>1. Goto(p, "boot")
    BY <1>3, <1>t DEF CreateTable, Goto, TypeOK
  <2>2. UNCHANGED <<recorded, schema, applied, next, faults>> /\ created' \in BOOLEAN
    BY <1>3 DEF CreateTable
  <2> QED
    BY <2>1, <2>2, GotoStep DEF Stages
<1>4. ASSUME NEW p \in Procs, CreateTableRaces(p) PROVE IInv'
  BY <1>4, <1>t, ExitStep DEF CreateTableRaces, TypeOK
<1>5. ASSUME NEW p \in Procs, LoadApplied(p) PROVE IInv'
  <2>1. /\ stage' = [stage EXCEPT ![p] = "loaded"]
        /\ applied' = [applied EXCEPT ![p] = recorded]
        /\ UNCHANGED <<created, recorded, schema, next, faults>>
    BY <1>5 DEF LoadApplied, Goto
  <2>2. next' = [next EXCEPT ![p] = next[p]] /\ next[p] \in Nat
    BY <2>1, <1>t DEF TypeOK
  <2>3. Quiet(p)
    BY <2>1, <2>2, <1>t DEF Quiet, TypeOK, Stages
  <2>4. stage'[p] = "loaded" /\ applied'[p] = recorded /\ next'[p] = next[p]
    BY <2>1, <1>t DEF TypeOK
  <2>5. \A v \in Versions : ~Holds(p, v)'
    BY <2>4 DEF Holds
  <2> QED
    BY <2>3, <2>4, <2>5, QuietStep DEF IInv, Passed
<1>6. ASSUME NEW p \in Procs, Serve(p) PROVE IInv'
  <2>1. /\ Pending(p) = {}
        /\ stage' = [stage EXCEPT ![p] = "serving"]
        /\ UNCHANGED <<created, recorded, schema, applied, next, faults>>
    BY <1>6 DEF Serve, Goto
  <2>2. applied' = [applied EXCEPT ![p] = applied[p]] /\ next' = [next EXCEPT ![p] = next[p]]
    BY <2>1, <1>t DEF TypeOK
  <2>3. Quiet(p)
    BY <2>1, <2>2, <1>t DEF Quiet, TypeOK, Stages
  <2>4. stage'[p] = "serving" /\ Pending(p)' = {}
    BY <2>1, <1>t DEF TypeOK, Pending
  <2>5. \A v \in Versions : ~Holds(p, v)'
    BY <2>4 DEF Holds
  <2> QED
    BY <2>1, <2>3, <2>4, <2>5, QuietStep DEF IInv, Snapshots, Passed
<1>7. ASSUME NEW p \in Procs, Fails(p) PROVE IInv'
  <2>1. faults' \in 0..MaxFaults
    BY <1>7, <1>t, FaultsAssumption DEF Fails, Fault, TypeOK
  <2> QED
    BY <2>1, <1>7, <1>t, ExitStep DEF Fails, TypeOK
<1>8. ASSUME NEW p \in Procs, NEW v \in Versions, Skip(p, v) PROVE IInv'
  <2>1. /\ stage[p] = "loaded" /\ IsFirst(p, v)
        /\ applied[p][v] = Files[p][v]
        /\ next' = [next EXCEPT ![p] = v + 1]
        /\ UNCHANGED <<created, recorded, schema, stage, applied, faults>>
    BY <1>8 DEF Skip
  <2>2. /\ stage' = [stage EXCEPT ![p] = "loaded"]
        /\ applied' = [applied EXCEPT ![p] = applied[p]]
        /\ v + 1 \in Nat
    BY <2>1, <1>t, VersionsAssumption DEF TypeOK
  <2>3. Quiet(p)
    BY <2>1, <2>2, <1>t DEF Quiet, TypeOK, Stages
  <2>4. stage'[p] = "loaded" /\ applied'[p] = applied[p] /\ next'[p] = v + 1
    BY <2>1, <1>t DEF TypeOK
  <2>5. \A u \in Versions : ~Holds(p, u)'
    BY <2>4 DEF Holds
  <2>6. ASSUME NEW u \in Versions, u < next'[p]
        PROVE  Files[p][u] \in {Missing, recorded[u]}
    <3>1. u < next[p] \/ (u >= next[p] /\ u < v) \/ u = v
      BY <2>6, <2>4, <1>t, VersionsAssumption DEF TypeOK
    <3>2. CASE u < next[p]
      BY <3>2 DEF IInv, Passed
    <3>3. CASE u >= next[p] /\ u < v
      BY <3>3, <2>1, <1>t, FirstFile
    <3>4. CASE u = v
      BY <3>4, <2>1 DEF IInv, Snapshots
    <3> QED
      BY <3>1, <3>2, <3>3, <3>4
  <2> QED
    BY <2>3, <2>4, <2>5, <2>6, QuietStep DEF IInv, Snapshots
<1>9. ASSUME NEW p \in Procs, NEW v \in Versions, Mismatch(p, v) PROVE IInv'
  BY <1>9, <1>t, ExitStep DEF Mismatch, TypeOK
<1>10. ASSUME NEW p \in Procs, NEW v \in Versions, RunBody(p, v) PROVE IInv'
  <2>1. Goto(p, "body") /\ UNCHANGED <<created, recorded, schema, applied, next, faults>>
    BY <1>10 DEF RunBody
  <2> QED
    BY <2>1, <1>t, GotoStep DEF Stages, TypeOK
<1>11. ASSUME NEW p \in Procs, NEW v \in Versions, BodyRaces(p, v) PROVE IInv'
  BY <1>11, <1>t, ExitStep DEF BodyRaces, TypeOK
<1>12. ASSUME NEW p \in Procs, NEW v \in Versions, InsertRow(p, v) PROVE IInv'
  <2>1. /\ IsFirst(p, v) /\ ~KeyHeld(p, v) /\ recorded[v] = Missing
        /\ stage' = [stage EXCEPT ![p] = "inserted"]
        /\ UNCHANGED <<created, recorded, schema, applied, next, faults>>
    BY <1>12 DEF InsertRow, Goto
  <2>2. applied' = [applied EXCEPT ![p] = applied[p]] /\ next' = [next EXCEPT ![p] = next[p]]
    BY <2>1, <1>t DEF TypeOK
  <2>3. Quiet(p)
    BY <2>1, <2>2, <1>t DEF Quiet, TypeOK, Stages
  <2>4. stage'[p] = "inserted"
    BY <2>1, <1>t DEF TypeOK
  <2>5. ASSUME NEW u \in Versions, Holds(p, u)' PROVE u = v
    <3>1. IsFirst(p, u)
      BY <2>5, <2>1 DEF Holds, IsFirst, Pending
    <3> QED
      BY <3>1, <2>1, VersionsAssumption DEF IsFirst, Pending
  <2>6. \A q \in Procs \ {p} : ~Holds(q, v)
    BY <2>1 DEF Holds, KeyHeld
  <2> QED
    BY <2>1, <2>3, <2>4, <2>5, <2>6, QuietStep DEF IInv, Snapshots, Passed
<1>13. ASSUME NEW p \in Procs, NEW v \in Versions, Conflict(p, v) PROVE IInv'
  BY <1>13, <1>t, ExitStep DEF Conflict, TypeOK
<1>14. ASSUME NEW p \in Procs, NEW v \in Versions, Commit(p, v) PROVE IInv'
  <2>1. /\ Committed(p, v)
        /\ next' = [next EXCEPT ![p] = v + 1]
        /\ stage' = [stage EXCEPT ![p] = "loaded"]
        /\ applied' = applied /\ faults' = faults
    BY <1>14 DEF Commit, Goto
  <2>2. applied' = [applied EXCEPT ![p] = applied[p]]
        /\ applied[p] \in [Versions -> Checksums \cup {Missing}]
    BY <2>1, <1>t DEF TypeOK
  <2> QED
    BY <2>1, <2>2, <1>t, CommitStep DEF Stages, TypeOK
<1>15. ASSUME NEW p \in Procs, NEW v \in Versions, CommitUnseen(p, v) PROVE IInv'
  <2>1. /\ Committed(p, v)
        /\ stage' = [stage EXCEPT ![p] = "down"]
        /\ applied' = [applied EXCEPT ![p] = NoRows]
        /\ next' = [next EXCEPT ![p] = 0]
    BY <1>15 DEF CommitUnseen, Exit, Goto
  <2>2. faults' \in 0..MaxFaults
    BY <1>15, <1>t, FaultsAssumption DEF CommitUnseen, Fault, TypeOK
  <2>3. NoRows \in [Versions -> Checksums \cup {Missing}]
    BY DEF NoRows
  <2> QED
    BY <2>1, <2>2, <2>3, CommitStep DEF Stages
<1> QED
  BY <1>1, <1>2, <1>3, <1>4, <1>5, <1>6, <1>7, <1>8, <1>9, <1>10, <1>11, <1>12, <1>13, <1>14, <1>15
     DEF Next, Step

-------------------------------------------------------------------------------

\* The inductive invariant of concurrent boots (migrate.Up by any number of
\* processes, with any files and faults).
THEOREM Invariance == Spec => []IInv
<1>1. Init => IInv
  BY InitInvariant
<1>2. IInv /\ [Next]_vars => IInv'
  BY NextInvariant
<1> QED
  BY <1>1, <1>2, PTL DEF Spec

\* Every reachable state is well typed.
THEOREM TypeCorrectness == Spec => []TypeOK
<1>1. IInv => TypeOK
  BY DEF IInv
<1> QED
  BY <1>1, Invariance, PTL

\* Whichever processes race, crash or lose an answer, no migration's body is
\* committed twice, and schema_migrations says which were.
THEOREM MigratedOnce == Spec => []AppliedOnce
<1>1. IInv => AppliedOnce
  BY DEF IInv
<1> QED
  BY <1>1, Invariance, PTL

\* Up returns without an error only when the database has each of the build's
\* files, as they are in the build, and so it stays.
THEOREM ServedSchema == Spec => []ServesOnItsSchema
<1>1. IInv => ServesOnItsSchema
  <2> SUFFICES ASSUME IInv, NEW p \in Procs, stage[p] = "serving", NEW v \in Versions
               PROVE  Files[p][v] \in {Missing, recorded[v]}
    BY DEF ServesOnItsSchema
  <2>1. Pending(p) = {}
    BY DEF IInv, Through
  <2>2. Files[p][v] = Missing \/ v < next[p]
    BY <2>1, VersionsAssumption DEF Pending, IInv, TypeOK
  <2> QED
    BY <2>2 DEF IInv, Passed
<1> QED
  BY <1>1, Invariance, PTL

\* Builds of one history commit their migrations in the order of the names.
THEOREM MigratedInOrder == Spec => []InOrder
<1>1. IInv => InOrder
  BY DEF IInv
<1> QED
  BY <1>1, Invariance, PTL

-------------------------------------------------------------------------------

\* A row of schema_migrations stands for a body in the history, so what is
\* recorded with a build's content is in the schema as that build knows it.
LEMMA RecordedIsInSchema ==
    ASSUME IInv, NEW p \in Procs, NEW v \in Versions, Files[p][v] \in {Missing, recorded[v]}
    PROVE  History!UpToDate(p, v)
<1>1. CASE Files[p][v] = Missing
  BY <1>1 DEF History!UpToDate
<1>2. CASE Files[p][v] # Missing
  <2>1. Files[p][v] \in Checksums /\ recorded[v] = Files[p][v]
    BY <1>2, FilesAssumption
  <2>2. \E i \in DOMAIN schema : schema[i] = [version |-> v, checksum |-> Files[p][v]]
    BY <2>1 DEF IInv, AppliedOnce
  <2>3. QED
    BY <2>2 DEF History!UpToDate, History!InSchema, History!File
<1>3. QED  BY <1>1, <1>2

\* A commit adds a file to the history that is not in it, and the files before it
\* are: nobody else holds its key (Alone, Fresh), and p has been through the rest.
LEMMA CommitApplies ==
    ASSUME IInv, NEW p \in Procs, NEW v \in Versions, Committed(p, v),
           stage'[p] # "serving",
           \A q \in Procs \ {p} : stage'[q] = stage[q]
    PROVE  History!Apply(p, v)
<1>1. IsFirst(p, v) /\ stage[p] = "inserted"
  BY DEF Committed
<1>2. /\ Files[p][v] \in Checksums /\ Files[p][v] # Missing
      /\ \A u \in Versions : u >= next[p] /\ u < v => Files[p][u] = Missing
  BY <1>1, FirstFile, FilesAssumption DEF IInv
<1>3. \A i \in DOMAIN schema : schema[i].version # v
  <2> SUFFICES ASSUME NEW i \in DOMAIN schema, schema[i].version = v
               PROVE  FALSE
    OBVIOUS
  <2>1. schema[i] \in Body
    BY DEF IInv, TypeOK
  <2>2. PICK c \in Checksums : schema[i] = [version |-> v, checksum |-> c]
    BY <2>1 DEF Body
  <2>3. recorded[v] = c
    BY <2>2 DEF IInv, AppliedOnce
  <2>4. recorded[v] = Missing
    BY <1>1 DEF IInv, Fresh, Holds
  <2>5. QED  BY <2>3, <2>4, FilesAssumption
<1>4. ASSUME NEW u \in Versions, u < v
      PROVE  History!UpToDate(p, u)
  <2>1. u < next[p] \/ u >= next[p]
    BY VersionsAssumption DEF IInv, TypeOK
  <2>2. Files[p][u] \in {Missing, recorded[u]}
    BY <1>2, <1>4, <2>1 DEF IInv, Passed
  <2>3. QED  BY <2>2, RecordedIsInSchema
<1>5. schema' = Append(schema, History!File(p, v))
  BY DEF Committed, History!File
<1>6. {q \in Procs : stage'[q] = "serving"} = {q \in Procs : stage[q] = "serving"}
  BY <1>1
<1>7. QED
  BY <1>2, <1>3, <1>4, <1>5, <1>6 DEF History!Apply

\* A step of p that writes no row is one of the history's only if p comes to serve,
\* which needs every file, or leaves.
LEMMA QuietImplements ==
    ASSUME IInv, NEW p \in Procs, NEW s, stage' = [stage EXCEPT ![p] = s], schema' = schema,
           s = "serving" => stage[p] # "serving" /\ Pending(p) = {}
    PROVE  [History!Next]_(History!vars)
<1> DEFINE serving == {q \in Procs : stage[q] = "serving"}
<1>1. stage'[p] = s /\ \A q \in Procs \ {p} : stage'[q] = stage[q]
  BY DEF IInv, TypeOK
<1>2. CASE s = "serving"
  <2>1. serving' = serving \cup {p} /\ p \notin serving
    BY <1>1, <1>2
  <2>2. ASSUME NEW v \in Versions
        PROVE  History!UpToDate(p, v)
    <3>1. Files[p][v] = Missing \/ v < next[p]
      BY <1>2, VersionsAssumption DEF Pending, IInv, TypeOK
    <3>2. Files[p][v] \in {Missing, recorded[v]}
      BY <3>1 DEF IInv, Passed
    <3>3. QED  BY <3>2, RecordedIsInSchema
  <2>3. History!Serve(p)
    BY <2>1, <2>2 DEF History!Serve
  <2>4. QED  BY <2>3 DEF History!Next
<1>3. CASE s # "serving"
  <2>1. serving' = serving \ {p}
    BY <1>1, <1>3
  <2>2. History!Leave(p)
    BY <2>1 DEF History!Leave
  <2>3. QED  BY <2>2 DEF History!Next
<1>4. QED  BY <1>2, <1>3

LEMMA HistoryStep ==
    ASSUME IInv, [Next]_vars
    PROVE  [History!Next]_(History!vars)
<1> USE DEF Goto, Exit
<1>1. CASE UNCHANGED vars
  BY <1>1 DEF vars, History!vars
<1>2. ASSUME NEW p \in Procs, CreateTable(p)
      PROVE  UNCHANGED History!vars
  BY <1>2 DEF CreateTable, History!vars
<1>3. ASSUME NEW p \in Procs, Start(p) \/ LoadApplied(p) \/ CreateTableRaces(p) \/ Fails(p)
      PROVE  [History!Next]_(History!vars)
  <2>1. PICK s \in {"boot", "loaded", "down"} :
          stage' = [stage EXCEPT ![p] = s] /\ schema' = schema
    BY <1>3 DEF Start, LoadApplied, CreateTableRaces, Fails
  <2>2. QED  BY <2>1, QuietImplements
<1>4. ASSUME NEW p \in Procs, Serve(p)
      PROVE  [History!Next]_(History!vars)
  <2>1. /\ stage' = [stage EXCEPT ![p] = "serving"] /\ schema' = schema
        /\ stage[p] # "serving" /\ Pending(p) = {}
    BY <1>4 DEF Serve
  <2>2. QED  BY <2>1, QuietImplements
<1>5. ASSUME NEW p \in Procs, NEW v \in Versions, Skip(p, v)
      PROVE  UNCHANGED History!vars
  BY <1>5 DEF Skip, History!vars
<1>6. ASSUME NEW p \in Procs, NEW v \in Versions,
             Mismatch(p, v) \/ RunBody(p, v) \/ BodyRaces(p, v) \/ InsertRow(p, v) \/ Conflict(p, v)
      PROVE  [History!Next]_(History!vars)
  <2>1. PICK s \in {"body", "inserted", "down"} :
          stage' = [stage EXCEPT ![p] = s] /\ schema' = schema
    BY <1>6 DEF Mismatch, RunBody, BodyRaces, InsertRow, Conflict
  <2>2. QED  BY <2>1, QuietImplements
<1>7. ASSUME NEW p \in Procs, NEW v \in Versions, Commit(p, v) \/ CommitUnseen(p, v)
      PROVE  History!Next
  <2>1. Committed(p, v)
    BY <1>7 DEF Commit, CommitUnseen
  <2>2. PICK s \in {"loaded", "down"} : stage' = [stage EXCEPT ![p] = s]
    BY <1>7 DEF Commit, CommitUnseen
  <2>3. stage'[p] # "serving" /\ \A q \in Procs \ {p} : stage'[q] = stage[q]
    BY <2>2 DEF IInv, TypeOK
  <2>4. QED  BY <2>1, <2>3, CommitApplies DEF History!Next
<1>8. QED
  BY <1>1, <1>2, <1>3, <1>4, <1>5, <1>6, <1>7 DEF Next, Step

\* Whatever boots, races, crashes and lost commits do, the database has one history
\* of whole files in the order of some build, and processes serve on it
\* (migrate.Up, apply).
THEOREM Refinement == Spec => ImplementsHistory
<1>1. Init => History!Init
  BY DEF Init, History!Init
<1>2. QED
  BY <1>1, HistoryStep, Invariance, PTL DEF Spec, ImplementsHistory, History!Spec
===============================================================================
