------------------------ MODULE DrizzleMigratorProofs ------------------------
(***************************************************************************)
(* For every set of runs, every script, every bound on retries and on      *)
(* failures, whether runs overlap or not: types, the prefix property, that *)
(* recorded statements took effect, in order, that success is complete,    *)
(* that a result's counts add up, and that the migrator implements         *)
(* StatementLog.                                                           *)
(***************************************************************************)
EXTENDS DrizzleMigrator, TLAPS, FiniteSetTheorems, WellFoundedInduction

LEMMA LenNat == Len(Script) \in Nat
BY MigratorAssumption

-----------------------------------------------------------------------------
(* The inductive invariant.                                                *)

\* A run's map only holds rows of the table, and the loop is past rows only.
SnapRecorded == \A r \in Runs : snap[r] \subseteq rows
PassedRecorded == \A r \in Runs : \A q \in 1..(pos[r] - 1) : q \in rows

\* A run commits a statement only with all the earlier ones recorded, and only
\* once: it is then at the statement, past its execution, or beyond it.
CommittedInOrder == \A c \in committed : \A q \in 1..(c[2] - 1) : q \in rows
BeforeExecution == {"idle", "schema", "table", "load", "scan", "execute"}
CommittedOnce ==
  \A c \in committed :
    /\ c[2] <= pos[c[1]]
    /\ c[2] = pos[c[1]] => pc[c[1]] \notin BeforeExecution

\* Only a committed statement has a job.
JobCommitted ==
  \A r \in Runs, p \in Chunk : job[r][p] # "none" => <<r, p>> \in committed

\* A statement about to be recorded took effect.
RecordReady == \A r \in Runs : pc[r] = "record" => Applied(pos[r])

\* A run reports success past the last chunk only.
SuccessAtEnd == \A r \in Runs : pc[r] = "success" => pos[r] = Len(Script) + 1

IInv ==
  /\ TypeOK
  /\ RecordedIsPrefix
  /\ RecordedIsApplied
  /\ SnapRecorded
  /\ PassedRecorded
  /\ CommittedInOrder
  /\ CommittedOnce
  /\ JobCommitted
  /\ RecordReady
  /\ SuccessAtEnd

-----------------------------------------------------------------------------
(* Type correctness.                                                       *)

LEMMA InitType == Init => TypeOK
BY LenNat, MigratorAssumption DEF Init, TypeOK, Labels, DbOps, Ended, Chunk

\* What the two helpers of the loop body keep.
LEMMA NextChunkType ==
  ASSUME TypeOK, NEW r \in Runs, pos[r] \in Chunk, NEW pending \in BOOLEAN,
         NextChunk(r, pending)
  PROVE  /\ pos' \in [Runs -> 1..(Len(Script) + 1)]
         /\ \A q \in Runs : q # r => pos'[q] = pos[q]
         /\ pos'[r] = pos[r] + 1
         /\ hadPending' \in [Runs -> BOOLEAN]
         /\ completed' \in [Runs -> Nat]
<1>1. pos[r] + 1 \in 1..(Len(Script) + 1)
  BY LenNat DEF Chunk
<1>2. pos' \in [Runs -> 1..(Len(Script) + 1)]
  BY <1>1 DEF NextChunk, TypeOK
<1>3. (pending /\ ~EndsMigration(pos[r])) \in BOOLEAN
  OBVIOUS
<1>4. hadPending' \in [Runs -> BOOLEAN]
  BY <1>3 DEF NextChunk, TypeOK
<1>5. completed' \in [Runs -> Nat]
  BY DEF NextChunk, TypeOK
<1>6. QED
  BY <1>2, <1>4, <1>5 DEF NextChunk, TypeOK

LEMMA CommitsType ==
  ASSUME TypeOK, NEW r \in Runs, pos[r] \in Chunk, Commits(r)
  PROVE  /\ committed' \subseteq Runs \X Chunk
         /\ catalog' \subseteq Chunk
         /\ job' \in [Runs -> [Chunk -> {"none", "running", "succeeded", "failed"}]]
<1>1. committed' \subseteq Runs \X Chunk /\ catalog' \subseteq Chunk
  BY DEF Commits, TypeOK
<1>2. CASE StartsJob(pos[r])
  BY <1>1, <1>2 DEF Commits, TypeOK
<1>3. CASE ~StartsJob(pos[r])
  BY <1>1, <1>3 DEF Commits, TypeOK
<1>4. QED
  BY <1>2, <1>3

\* A run that moves to a label at which it needs no position.
LEMMA GotoType ==
  ASSUME TypeOK, NEW r \in Runs, NEW label \in Labels, Goto(r, label),
         label \notin DbOps \ {"schema", "table", "load"}
  PROVE  /\ pc' \in [Runs -> Labels] /\ tries' \in [Runs -> 0..MaxRetries]
         /\ \A q \in Runs : pc'[q] \in DbOps \ {"schema", "table", "load"} => pos[q] \in Chunk
<1>1. pc' = [pc EXCEPT ![r] = label] /\ tries' = [tries EXCEPT ![r] = 0]
  BY DEF Goto
<1>2. pc \in [Runs -> Labels] /\ tries \in [Runs -> 0..MaxRetries]
  BY DEF TypeOK
<1>3. tries' \in [Runs -> 0..MaxRetries]
  BY <1>1, <1>2, MigratorAssumption
<1>4. \A q \in Runs : pc'[q] \in DbOps \ {"schema", "table", "load"} => pc'[q] = pc[q]
  BY <1>1, <1>2
<1>5. QED
  BY <1>1, <1>2, <1>3, <1>4 DEF TypeOK

LEMMA ActionType ==
  ASSUME TypeOK, NEW r \in Runs, Start(r) \/ Operation(r) \/ Failure(r)
  PROVE  TypeOK'
<1> USE LenNat, MigratorAssumption
<1> USE DEF TypeOK, Labels, DbOps, Ended, dbVars, runVars
<1>1. CASE Start(r)
  BY <1>1 DEF Start, Goto
<1>2. CASE EnsureSchema(r)
  <2>1. Goto(r, "table") /\ created' \subseteq {"schema", "table"}
    BY <1>2 DEF EnsureSchema
  <2>2. QED
    BY <1>2, <2>1, GotoType DEF EnsureSchema
<1>3. CASE EnsureTable(r)
  <2>1. Goto(r, "load") /\ created' \subseteq {"schema", "table"}
    BY <1>3 DEF EnsureTable
  <2>2. QED
    BY <1>3, <2>1, GotoType DEF EnsureTable
<1>4. CASE LoadApplied(r)
  <2>1. Goto(r, "scan") /\ snap' \in [Runs -> SUBSET Chunk]
    BY <1>4 DEF LoadApplied
  <2>2. QED
    BY <1>4, <2>1, GotoType DEF LoadApplied
<1> USE DEF Goto
<1>5. CASE SkipRecorded(r)
  <2>1. hadPending[r] \in BOOLEAN /\ pos[r] \in Chunk
    BY <1>5 DEF SkipRecorded, Scanning
  <2>2. QED
    BY <1>5, <2>1, NextChunkType DEF SkipRecorded, Scanning
<1>6. CASE Dispatch(r)
  BY <1>6 DEF Dispatch, Scanning
<1>7. CASE Finish(r)
  BY <1>7 DEF Finish
<1>8. CASE Execute(r)
  <2>1. pos[r] \in Chunk
    BY <1>8 DEF Execute
  <2>2. QED
    BY <1>8, <2>1, CommitsType DEF Execute
<1>9. CASE ExecuteRefused(r)
  BY <1>9 DEF ExecuteRefused
<1>10. CASE WaitForDsqlJob(r)
  BY <1>10 DEF WaitForDsqlJob
<1>11. CASE RecordStatement(r)
  <2>1. hadPending[r] \in BOOLEAN /\ pos[r] \in Chunk
    BY <1>11 DEF RecordStatement
  <2>2. /\ pos' \in [Runs -> 1..(Len(Script) + 1)]
        /\ \A q \in Runs : q # r => pos'[q] = pos[q]
        /\ hadPending' \in [Runs -> BOOLEAN] /\ completed' \in [Runs -> Nat]
    BY <1>11, <2>1, NextChunkType DEF RecordStatement
  <2>3. rows' \subseteq Chunk /\ appliedCount' \in [Runs -> Nat]
    BY <1>11, <2>1 DEF RecordStatement
  <2>4. pc' = [pc EXCEPT ![r] = "scan"] /\ tries' = [tries EXCEPT ![r] = 0]
    BY <1>11 DEF RecordStatement
  <2>5. QED
    BY <1>11, <2>2, <2>3, <2>4 DEF RecordStatement
<1>12. CASE Conflict(r)
  BY <1>12 DEF Conflict
<1>13. CASE RetriesExhausted(r)
  BY <1>13 DEF RetriesExhausted, Fault, Thrown
<1>14. CASE OperationFails(r)
  BY <1>14 DEF OperationFails, Fault, Thrown
<1>15. CASE ReplyLost(r)
  <2>1. pc[r] \in {"execute", "record"} => pos[r] \in Chunk
    BY <1>15 DEF ReplyLost
  <2>2. CASE pc[r] = "execute"
    <3>1. /\ Commits(r) /\ rows' = rows /\ created' = created
          /\ Goto(r, "failed") /\ Fault
      BY <1>15, <2>2 DEF ReplyLost, Thrown
    <3>2. /\ committed' \subseteq Runs \X Chunk /\ catalog' \subseteq Chunk
          /\ job' \in [Runs -> [Chunk -> {"none", "running", "succeeded", "failed"}]]
      BY <2>1, <2>2, <3>1, CommitsType
    <3>3. /\ pc' \in [Runs -> Labels] /\ tries' \in [Runs -> 0..MaxRetries]
          /\ \A q \in Runs :
               pc'[q] \in DbOps \ {"schema", "table", "load"} => pos[q] \in Chunk
      BY <3>1, GotoType
    <3>4. UNCHANGED runVars /\ faults' \in 0..MaxFaults
      BY <1>15 DEF ReplyLost, Fault
    <3>5. QED
      BY <3>1, <3>2, <3>3, <3>4
  <2>3. CASE pc[r] = "record"
    <3>1. Thrown(r) \in Ended
      BY DEF Thrown
    <3>2. rows' = rows \cup {pos[r]} /\ UNCHANGED <<created, catalog, committed, job>>
      BY <1>15, <2>3 DEF ReplyLost
    <3>3. /\ pc' = [pc EXCEPT ![r] = Thrown(r)] /\ tries' = [tries EXCEPT ![r] = 0]
          /\ UNCHANGED runVars /\ faults < MaxFaults /\ faults' = faults + 1
      BY <1>15 DEF ReplyLost, Fault
    <3>4. QED
      BY <2>1, <2>3, <3>1, <3>2, <3>3
  <2>4. CASE pc[r] \in {"schema", "table"}
    <3>1. Thrown(r) = "threw"
      BY <2>4 DEF Thrown
    <3>2. created' \subseteq {"schema", "table"}
      BY <1>15, <2>4 DEF ReplyLost
    <3>3. UNCHANGED <<rows, catalog, committed, job>>
      BY <1>15, <2>4 DEF ReplyLost
    <3>4. /\ pc' = [pc EXCEPT ![r] = "threw"] /\ tries' = [tries EXCEPT ![r] = 0]
          /\ UNCHANGED runVars /\ faults < MaxFaults /\ faults' = faults + 1
      BY <1>15, <3>1 DEF ReplyLost, Fault
    <3>5. \A q \in Runs : pc'[q] \in DbOps => pc'[q] = pc[q]
      BY <3>4
    <3>6. QED
      BY <3>2, <3>3, <3>4, <3>5
  <2>5. QED
    BY <1>15, <2>2, <2>3, <2>4 DEF ReplyLost
<1>16. CASE Crash(r)
  BY <1>16 DEF Crash, Fault
<1>17. QED
  BY <1>1, <1>2, <1>3, <1>4, <1>5, <1>6, <1>7, <1>8, <1>9, <1>10, <1>11,
     <1>12, <1>13, <1>14, <1>15, <1>16 DEF Operation, Failure

LEMMA JobType ==
  ASSUME TypeOK, NEW r \in Runs, NEW p \in Chunk, Job(r, p)
  PROVE  TypeOK'
<1> USE LenNat, MigratorAssumption
<1> USE DEF TypeOK, Labels, DbOps, Ended, Chunk, dbVars, runVars
<1>1. CASE JobSucceeds(r, p)
  BY <1>1 DEF JobSucceeds
<1>2. CASE JobFails(r, p)
  <2>1. job' = [job EXCEPT ![r][p] = "failed"] /\ faults' = faults + 1
        /\ faults < MaxFaults
    BY <1>2 DEF JobFails, Fault
  <2>2. job' \in [Runs -> [Chunk -> {"none", "running", "succeeded", "failed"}]]
        /\ faults' \in 0..MaxFaults
    BY <2>1
  <2>3. catalog' \subseteq Chunk
    BY <1>2 DEF JobFails
  <2>4. QED
    BY <1>2, <2>2, <2>3 DEF JobFails
<1>3. QED
  BY <1>1, <1>2 DEF Job

\* Every variable keeps its type, and a run is at a chunk of the script
\* whenever it executes, awaits or records one.
THEOREM TypeCorrect == Spec => []TypeOK
<1>1. TypeOK /\ [Next]_vars => TypeOK'
  <2>1. CASE UNCHANGED vars
    BY <2>1 DEF TypeOK, vars, dbVars, runVars
  <2>2. CASE Next
    BY <2>2, ActionType, JobType DEF Next
  <2>3. QED
    BY <2>1, <2>2
<1>2. QED
  BY <1>1, InitType, PTL DEF Spec

LEMMA CommittedType ==
  ASSUME TypeOK, NEW c \in committed
  PROVE  c[1] \in Runs /\ c[2] \in Chunk /\ c[2] \in Nat /\ c = <<c[1], c[2]>>
<1>1. committed \subseteq Runs \X Chunk
  BY DEF TypeOK
<1>2. c[1] \in Runs /\ c[2] \in Chunk /\ c = <<c[1], c[2]>>
  BY <1>1
<1>3. QED
  BY <1>2, LenNat DEF Chunk

-----------------------------------------------------------------------------
(* The inductive step. A statement that took effect stays applied, because *)
(* commits and successful jobs are never taken back.                       *)

LEMMA AppliedStable ==
  ASSUME committed \subseteq committed',
         \A r \in Runs, p \in Chunk :
           job[r][p] = "succeeded" => job'[r][p] = "succeeded",
         NEW p \in Chunk, Applied(p)
  PROVE  Applied(p)'
<1>1. CASE Kind(p) = "empty"
  BY <1>1 DEF Applied
<1>2. CASE Kind(p) \in {"index", "validate"}
  BY <1>2 DEF Applied
<1>3. CASE Kind(p) \notin {"empty", "index", "validate"}
  BY <1>3 DEF Applied
<1>4. QED
  BY <1>1, <1>2, <1>3

\* What a step that leaves rows, commits and jobs alone cannot disturb.
LEMMA DatabaseFrame ==
  ASSUME IInv, UNCHANGED <<rows, committed, job>>
  PROVE  /\ RecordedIsPrefix' /\ RecordedIsApplied'
         /\ CommittedInOrder' /\ JobCommitted'
         /\ \A p \in Chunk : Applied(p) => Applied(p)'
<1>1. \A p \in Chunk : Applied(p) => Applied(p)'
  BY AppliedStable
<1>2. rows \subseteq Chunk
  BY DEF IInv, TypeOK
<1>3. QED
  BY <1>1, <1>2 DEF IInv, RecordedIsPrefix, RecordedIsApplied, CommittedInOrder,
                    JobCommitted

\* The steps that only move one run to another label.
LEMMA ControlStep ==
  ASSUME IInv, TypeOK', UNCHANGED <<rows, committed, job, snap, pos>>,
         NEW r \in Runs, NEW label, pc' = [pc EXCEPT ![r] = label],
         label = "success" => pos[r] = Len(Script) + 1,
         label = "record" => pos[r] \in Chunk /\ Applied(pos[r]),
         label \in BeforeExecution => pc[r] \in BeforeExecution
  PROVE  IInv'
<1>1. pc \in [Runs -> Labels]
  BY DEF IInv, TypeOK
<1>2. SnapRecorded' /\ PassedRecorded'
  BY DEF IInv, SnapRecorded, PassedRecorded
<1>3. CommittedOnce'
  <2>1. committed \subseteq Runs \X Chunk
    BY DEF IInv, TypeOK
  <2>2. QED
    BY <1>1, <2>1 DEF IInv, CommittedOnce
<1>4. RecordReady'
  <2> SUFFICES ASSUME NEW q \in Runs, pc'[q] = "record"
               PROVE  Applied(pos[q])'
    BY DEF RecordReady
  <2>1. pos[q] \in Chunk /\ Applied(pos[q])
    <3>1. CASE q = r
      BY <1>1, <3>1
    <3>2. CASE q # r
      <4>1. pc[q] = "record"
        BY <1>1, <3>2
      <4>2. QED
        BY <4>1 DEF IInv, TypeOK, RecordReady, DbOps
    <3>3. QED
      BY <3>1, <3>2
  <2>2. QED
    BY <2>1, DatabaseFrame
<1>5. SuccessAtEnd'
  BY <1>1 DEF IInv, SuccessAtEnd
<1>6. QED
  BY <1>2, <1>3, <1>4, <1>5, DatabaseFrame DEF IInv

\* The steps that read or advance the loop without touching the database.
LEMMA LoadStep ==
  ASSUME IInv, TypeOK', NEW r \in Runs, LoadApplied(r)
  PROVE  IInv'
<1>1. pc \in [Runs -> Labels] /\ snap \in [Runs -> SUBSET Chunk]
  BY DEF IInv, TypeOK
<1>2. UNCHANGED <<rows, committed, job, pos>>
  BY DEF LoadApplied, dbVars
<1>3. pc[r] = "load" /\ pc' = [pc EXCEPT ![r] = "scan"]
      /\ snap' = [snap EXCEPT ![r] = rows]
  BY DEF LoadApplied, Goto
<1>4. SnapRecorded' /\ PassedRecorded' /\ SuccessAtEnd'
  BY <1>1, <1>2, <1>3 DEF IInv, SnapRecorded, PassedRecorded, SuccessAtEnd
<1>5. CommittedOnce'
  <2>1. committed \subseteq Runs \X Chunk
    BY DEF IInv, TypeOK
  <2>2. QED
    BY <1>1, <1>2, <1>3, <2>1 DEF IInv, CommittedOnce, BeforeExecution
<1>6. \A q \in Runs : pc'[q] = "record" => pc[q] = "record" /\ pos[q] \in Chunk
  BY <1>1, <1>3 DEF IInv, TypeOK, DbOps
<1>7. RecordReady'
  BY <1>2, <1>6, DatabaseFrame DEF IInv, RecordReady
<1>8. QED
  BY <1>2, <1>4, <1>5, <1>7, DatabaseFrame DEF IInv

LEMMA SkipStep ==
  ASSUME IInv, TypeOK', NEW r \in Runs, SkipRecorded(r)
  PROVE  IInv'
<1>1. /\ pos \in [Runs -> 1..(Len(Script) + 1)]
      /\ pc[r] = "scan" /\ pos[r] \in Chunk /\ pos[r] \in rows
  BY DEF SkipRecorded, Scanning, IInv, TypeOK, SnapRecorded
<1>2. UNCHANGED <<rows, committed, job, snap, pc>>
  BY DEF SkipRecorded, dbVars
<1>3. pos' = [pos EXCEPT ![r] = @ + 1]
  BY DEF SkipRecorded, NextChunk
<1>4. SnapRecorded'
  BY <1>2 DEF IInv, SnapRecorded
<1>5. PassedRecorded'
  <2> SUFFICES ASSUME NEW q \in Runs, NEW p \in 1..(pos'[q] - 1)
               PROVE  p \in rows
    BY <1>2 DEF PassedRecorded
  <2>1. CASE p \in 1..(pos[q] - 1)
    BY <2>1 DEF IInv, PassedRecorded
  <2>2. CASE p \notin 1..(pos[q] - 1)
    <3>1. q = r /\ p = pos[r]
      BY <1>1, <1>3, <2>2, LenNat
    <3>2. QED
      BY <1>1, <3>1
  <2>3. QED
    BY <2>1, <2>2
<1>6. CommittedOnce'
  <2> SUFFICES ASSUME NEW c \in committed
               PROVE  /\ c[2] <= pos'[c[1]]
                      /\ c[2] = pos'[c[1]] => pc[c[1]] \notin BeforeExecution
    BY <1>2 DEF CommittedOnce
  <2>1. c[1] \in Runs /\ c[2] \in Nat
    BY CommittedType DEF IInv
  <2>2. /\ c[2] <= pos[c[1]]
        /\ c[2] = pos[c[1]] => pc[c[1]] \notin BeforeExecution
    BY DEF IInv, CommittedOnce
  <2>3. CASE c[1] = r
    BY <1>1, <1>3, <2>1, <2>2, <2>3, LenNat
  <2>4. CASE c[1] # r
    BY <1>1, <1>3, <2>1, <2>2, <2>4
  <2>5. QED
    BY <2>3, <2>4
<1>7. \A q \in Runs : pc[q] = "record" => q # r /\ pos[q] \in Chunk
  BY <1>1 DEF IInv, TypeOK, DbOps
<1>8. RecordReady'
  <2> SUFFICES ASSUME NEW q \in Runs, pc[q] = "record"
               PROVE  Applied(pos[q])'
    BY <1>2 DEF RecordReady
  <2>1. pos'[q] = pos[q] /\ Applied(pos[q]) /\ pos[q] \in Chunk
    BY <1>1, <1>3, <1>7 DEF IInv, RecordReady
  <2>2. QED
    BY <1>2, <2>1, DatabaseFrame
<1>9. SuccessAtEnd'
  BY <1>1, <1>2, <1>3 DEF IInv, SuccessAtEnd
<1>10. QED
  BY <1>2, <1>4, <1>5, <1>6, <1>8, <1>9, DatabaseFrame DEF IInv

\* Run r commits the statement it is at and goes on to label.
LEMMA CommitStep ==
  ASSUME IInv, TypeOK', NEW r \in Runs, pc[r] = "execute", Commits(r),
         UNCHANGED <<rows, snap, pos>>,
         NEW label \in {"wait", "record", "failed"},
         pc' = [pc EXCEPT ![r] = label],
         label = "record" => ~StartsJob(pos[r])
  PROVE  IInv'
<1>1. /\ pos[r] \in Chunk /\ pos[r] \in Nat
      /\ pc \in [Runs -> Labels]
      /\ job \in [Runs -> [Chunk -> {"none", "running", "succeeded", "failed"}]]
  <2>1. /\ pos[r] \in Chunk
        /\ pc \in [Runs -> Labels]
        /\ job \in [Runs -> [Chunk -> {"none", "running", "succeeded", "failed"}]]
    BY DEF IInv, TypeOK, DbOps
  <2>2. QED
    BY <2>1, LenNat DEF Chunk
<1>2. <<r, pos[r]>> \notin committed
  BY <1>1 DEF IInv, CommittedOnce, BeforeExecution
<1>3. job[r][pos[r]] = "none"
  BY <1>1, <1>2 DEF IInv, JobCommitted
<1>4. /\ committed' = committed \cup {<<r, pos[r]>>}
      /\ \A q \in Runs, p \in Chunk :
           /\ job[q][p] = "succeeded" => job'[q][p] = "succeeded"
           /\ job'[q][p] # "none" => job[q][p] # "none" \/ (q = r /\ p = pos[r])
  <2>1. CASE StartsJob(pos[r])
    BY <1>1, <1>3, <2>1 DEF Commits
  <2>2. CASE ~StartsJob(pos[r])
    BY <2>2 DEF Commits
  <2>3. QED
    BY <2>1, <2>2
<1>5. \A p \in Chunk : Applied(p) => Applied(p)'
  BY <1>4, AppliedStable
<1>6. RecordedIsPrefix' /\ SnapRecorded' /\ PassedRecorded'
  BY DEF IInv, RecordedIsPrefix, SnapRecorded, PassedRecorded
<1>7. RecordedIsApplied'
  BY <1>5 DEF IInv, TypeOK, RecordedIsApplied
<1>8. CommittedInOrder'
  BY <1>4 DEF IInv, CommittedInOrder, PassedRecorded
<1>9. CommittedOnce'
  <2> SUFFICES ASSUME NEW c \in committed'
               PROVE  /\ c[2] <= pos[c[1]]
                      /\ c[2] = pos[c[1]] => pc'[c[1]] \notin BeforeExecution
    BY DEF CommittedOnce
  <2>1. CASE c = <<r, pos[r]>>
    BY <1>1, <2>1 DEF BeforeExecution
  <2>2. CASE c \in committed
    <3>1. c[1] \in Runs
      BY <2>2, CommittedType DEF IInv
    <3>2. QED
      BY <1>1, <2>2, <3>1 DEF IInv, CommittedOnce, BeforeExecution
  <2>3. QED
    BY <1>4, <2>1, <2>2
<1>10. JobCommitted'
  BY <1>4 DEF IInv, JobCommitted
<1>11. RecordReady'
  <2> SUFFICES ASSUME NEW q \in Runs, pc'[q] = "record"
               PROVE  Applied(pos[q])'
    BY DEF RecordReady
  <2>1. CASE q = r
    <3>1. ~StartsJob(pos[r]) /\ <<r, pos[r]>> \in committed'
      BY <1>1, <1>4, <2>1
    <3>2. Kind(pos[r]) \notin {"index", "validate"}
      BY <3>1 DEF StartsJob, AsyncKinds, IfNotExists
    <3>3. QED
      BY <2>1, <3>1, <3>2 DEF Applied
  <2>2. CASE q # r
    <3>1. pc[q] = "record" /\ pos[q] \in Chunk
      BY <1>1, <2>2 DEF IInv, TypeOK, DbOps
    <3>2. QED
      BY <1>5, <3>1 DEF IInv, RecordReady
  <2>3. QED
    BY <2>1, <2>2
<1>12. SuccessAtEnd'
  BY <1>1 DEF IInv, SuccessAtEnd
<1>13. QED
  BY <1>6, <1>7, <1>8, <1>9, <1>10, <1>11, <1>12 DEF IInv

\* What the insertion of a tracking row keeps, whatever the run does next.
LEMMA RowAdded ==
  ASSUME IInv, NEW r \in Runs, pc[r] = "record", rows' = rows \cup {pos[r]},
         UNCHANGED <<committed, job, snap>>
  PROVE  /\ RecordedIsPrefix' /\ RecordedIsApplied' /\ SnapRecorded'
         /\ CommittedInOrder' /\ JobCommitted'
         /\ \A p \in Chunk : Applied(p) => Applied(p)'
<1>1. pos[r] \in Chunk /\ rows \subseteq Chunk /\ Applied(pos[r])
  BY DEF IInv, TypeOK, RecordReady, DbOps
<1>2. \A p \in Chunk : Applied(p) => Applied(p)'
  BY AppliedStable
<1>3. RecordedIsPrefix'
  <2>1. \A q \in 1..(pos[r] - 1) : q \in rows
    BY DEF IInv, PassedRecorded
  <2>2. 1..pos[r] \subseteq rows'
    BY <1>1, <2>1, LenNat DEF Chunk
  <2>3. QED
    BY <2>2 DEF IInv, RecordedIsPrefix
<1>4. RecordedIsApplied'
  BY <1>1, <1>2 DEF IInv, RecordedIsApplied
<1>5. SnapRecorded' /\ CommittedInOrder' /\ JobCommitted'
  BY DEF IInv, SnapRecorded, CommittedInOrder, JobCommitted
<1>6. QED
  BY <1>2, <1>3, <1>4, <1>5

LEMMA RecordStep ==
  ASSUME IInv, TypeOK', NEW r \in Runs, RecordStatement(r)
  PROVE  IInv'
<1>1. /\ pc \in [Runs -> Labels] /\ pos \in [Runs -> 1..(Len(Script) + 1)]
      /\ pc[r] = "record" /\ pos[r] \in Chunk
  BY DEF RecordStatement, IInv, TypeOK, DbOps
<1>2. UNCHANGED <<committed, job, snap>> /\ rows' = rows \cup {pos[r]}
  BY DEF RecordStatement
<1>3. pos' = [pos EXCEPT ![r] = @ + 1] /\ pc' = [pc EXCEPT ![r] = "scan"]
  BY DEF RecordStatement, NextChunk, Goto
<1>4. PassedRecorded'
  <2> SUFFICES ASSUME NEW q \in Runs, NEW p \in 1..(pos'[q] - 1)
               PROVE  p \in rows'
    BY DEF PassedRecorded
  <2>1. CASE p \in 1..(pos[q] - 1)
    BY <1>2, <2>1 DEF IInv, PassedRecorded
  <2>2. CASE p \notin 1..(pos[q] - 1)
    <3>1. q = r /\ p = pos[r]
      BY <1>1, <1>3, <2>2, LenNat
    <3>2. QED
      BY <1>2, <3>1
  <2>3. QED
    BY <2>1, <2>2
<1>5. CommittedOnce'
  <2> SUFFICES ASSUME NEW c \in committed
               PROVE  /\ c[2] <= pos'[c[1]]
                      /\ c[2] = pos'[c[1]] => pc'[c[1]] \notin BeforeExecution
    BY <1>2 DEF CommittedOnce
  <2>1. c[1] \in Runs /\ c[2] \in Nat
    BY CommittedType DEF IInv
  <2>2. /\ c[2] <= pos[c[1]]
        /\ c[2] = pos[c[1]] => pc[c[1]] \notin BeforeExecution
    BY DEF IInv, CommittedOnce
  <2>3. CASE c[1] = r
    BY <1>1, <1>3, <2>1, <2>2, <2>3, LenNat
  <2>4. CASE c[1] # r
    BY <1>1, <1>3, <2>1, <2>2, <2>4
  <2>5. QED
    BY <2>3, <2>4
<1>6. RecordReady'
  <2> SUFFICES ASSUME NEW q \in Runs, pc'[q] = "record"
               PROVE  Applied(pos[q])'
    BY DEF RecordReady
  <2>1. q # r /\ pc[q] = "record"
    BY <1>1, <1>3
  <2>2. pos'[q] = pos[q] /\ pos[q] \in Chunk /\ Applied(pos[q])
    BY <1>1, <1>3, <2>1 DEF IInv, TypeOK, RecordReady, DbOps
  <2>3. \A p \in Chunk : Applied(p) => Applied(p)'
    BY <1>1, <1>2, RowAdded
  <2>4. QED
    BY <2>2, <2>3
<1>7. SuccessAtEnd'
  BY <1>1, <1>3 DEF IInv, SuccessAtEnd
<1>8. QED
  BY <1>1, <1>2, <1>4, <1>5, <1>6, <1>7, RowAdded DEF IInv

\* The reply to a committed execution or to a committed row is lost.
LEMMA ReplyLostStep ==
  ASSUME IInv, TypeOK', NEW r \in Runs, ReplyLost(r)
  PROVE  IInv'
<1>1. pc \in [Runs -> Labels] /\ UNCHANGED <<snap, pos>>
  BY DEF ReplyLost, IInv, TypeOK, runVars
<1>2. Thrown(r) \in {"failed", "threw"} /\ pc' = [pc EXCEPT ![r] = Thrown(r)]
  BY DEF ReplyLost, Thrown, Goto
<1>3. CASE pc[r] = "execute"
  <2>1. Thrown(r) = "failed" /\ Commits(r) /\ UNCHANGED rows
    BY <1>3 DEF ReplyLost, Thrown
  <2>2. QED
    BY <1>1, <1>2, <1>3, <2>1, CommitStep
<1>4. CASE pc[r] = "record"
  <2>1. rows' = rows \cup {pos[r]} /\ UNCHANGED <<committed, job>>
    BY <1>4 DEF ReplyLost
  <2>2. PassedRecorded' /\ SuccessAtEnd'
    BY <1>1, <1>2, <2>1 DEF IInv, PassedRecorded, SuccessAtEnd
  <2>3. CommittedOnce'
    <3>1. \A c \in committed : c[1] \in Runs
      BY CommittedType DEF IInv
    <3>2. QED
      BY <1>1, <1>2, <2>1, <3>1 DEF IInv, CommittedOnce, BeforeExecution
  <2>4. RecordReady'
    <3> SUFFICES ASSUME NEW q \in Runs, pc'[q] = "record"
                 PROVE  Applied(pos[q])'
      BY <1>1 DEF RecordReady
    <3>1. pc[q] = "record"
      BY <1>1, <1>2, <1>4
    <3>2. pos[q] \in Chunk /\ Applied(pos[q])
      BY <3>1 DEF IInv, TypeOK, RecordReady, DbOps
    <3>3. QED
      BY <1>1, <1>4, <2>1, <3>2, RowAdded
  <2>5. QED
    BY <1>1, <1>4, <2>1, <2>2, <2>3, <2>4, RowAdded DEF IInv
<1>5. CASE pc[r] \in {"schema", "table"}
  <2>1. UNCHANGED <<rows, committed, job>>
    BY <1>5 DEF ReplyLost
  <2>2. QED
    BY <1>1, <1>2, <2>1, ControlStep DEF BeforeExecution
<1>6. QED
  BY <1>3, <1>4, <1>5 DEF ReplyLost

LEMMA JobStep ==
  ASSUME IInv, TypeOK', NEW r \in Runs, NEW p \in Chunk, Job(r, p)
  PROVE  IInv'
<1>1. /\ UNCHANGED <<rows, committed, pc, pos, snap>>
      /\ job[r][p] = "running"
      /\ \/ job' = [job EXCEPT ![r][p] = "succeeded"]
         \/ job' = [job EXCEPT ![r][p] = "failed"]
  BY DEF Job, JobSucceeds, JobFails, runVars
<1>2. job \in [Runs -> [Chunk -> {"none", "running", "succeeded", "failed"}]]
  BY DEF IInv, TypeOK
<1>3. \A q \in Runs, x \in Chunk :
        /\ job[q][x] = "succeeded" => job'[q][x] = "succeeded"
        /\ job'[q][x] # "none" => job[q][x] # "none"
  BY <1>1, <1>2
<1>4. \A x \in Chunk : Applied(x) => Applied(x)'
  BY <1>1, <1>3, AppliedStable
<1>5. RecordedIsApplied'
  BY <1>1, <1>4 DEF IInv, TypeOK, RecordedIsApplied
<1>6. JobCommitted'
  BY <1>1, <1>3 DEF IInv, JobCommitted
<1>7. RecordReady'
  <2> SUFFICES ASSUME NEW q \in Runs, pc[q] = "record"
               PROVE  Applied(pos[q])'
    BY <1>1 DEF RecordReady
  <2>1. pos[q] \in Chunk /\ Applied(pos[q])
    BY DEF IInv, TypeOK, RecordReady, DbOps
  <2>2. QED
    BY <1>1, <1>4, <2>1
<1>8. RecordedIsPrefix' /\ SnapRecorded' /\ PassedRecorded'
  BY <1>1 DEF IInv, RecordedIsPrefix, SnapRecorded, PassedRecorded
<1>9. CommittedInOrder' /\ CommittedOnce' /\ SuccessAtEnd'
  BY <1>1 DEF IInv, CommittedInOrder, CommittedOnce, SuccessAtEnd
<1>10. QED
  BY <1>5, <1>6, <1>7, <1>8, <1>9 DEF IInv

LEMMA InitIInv == Init => IInv
<1> SUFFICES ASSUME Init PROVE IInv
  OBVIOUS
<1>1. TypeOK
  BY InitType
<1>2. QED
  BY <1>1 DEF Init, IInv, RecordedIsPrefix, RecordedIsApplied, SnapRecorded,
     PassedRecorded, CommittedInOrder, CommittedOnce, JobCommitted, RecordReady,
     SuccessAtEnd

\* Every action but the database steps above is a ControlStep.
LEMMA RunStep ==
  ASSUME IInv, NEW r \in Runs, Start(r) \/ Operation(r) \/ Failure(r)
  PROVE  IInv'
<1> USE DEF dbVars, runVars, Goto
<1>0. TypeOK' /\ TypeOK
  BY ActionType DEF IInv
<1>a. /\ pc \in [Runs -> Labels] /\ pos[r] \in 1..(Len(Script) + 1)
      /\ pc[r] \in {"execute", "wait", "record"} => pos[r] \in Chunk
  BY <1>0 DEF TypeOK, DbOps
<1>1. CASE Start(r)
  BY <1>0, <1>1, ControlStep DEF Start, BeforeExecution
<1>2. CASE EnsureSchema(r)
  BY <1>0, <1>2, ControlStep DEF EnsureSchema, BeforeExecution
<1>3. CASE EnsureTable(r)
  BY <1>0, <1>3, ControlStep DEF EnsureTable, BeforeExecution
<1>4. CASE LoadApplied(r)
  BY <1>0, <1>4, LoadStep
<1>5. CASE SkipRecorded(r)
  BY <1>0, <1>5, SkipStep
<1>6. CASE Dispatch(r)
  <2>1. PICK label \in {"failed", "record", "execute"} :
          /\ pc' = [pc EXCEPT ![r] = label]
          /\ label = "record" => Kind(pos[r]) = "empty"
    BY <1>6 DEF Dispatch
  <2>2. label = "record" => pos[r] \in Chunk /\ Applied(pos[r])
    BY <1>6, <2>1 DEF Dispatch, Scanning, Applied
  <2>3. label \in BeforeExecution => pc[r] \in BeforeExecution
    BY <1>6 DEF Dispatch, Scanning, BeforeExecution
  <2>4. QED
    BY <1>0, <1>6, <2>1, <2>2, <2>3, ControlStep DEF Dispatch
<1>7. CASE Finish(r)
  <2>1. pos[r] = Len(Script) + 1
    BY <1>a, <1>7, LenNat DEF Finish, Chunk
  <2>2. QED
    BY <1>0, <1>7, <2>1, ControlStep DEF Finish, BeforeExecution
<1>8. CASE Execute(r)
  <2>1. PICK label \in {"wait", "record"} :
          /\ pc' = [pc EXCEPT ![r] = label]
          /\ label = "record" => ~StartsJob(pos[r])
    BY <1>8 DEF Execute
  <2>2. QED
    BY <1>0, <1>8, <2>1, CommitStep DEF Execute
<1>9. CASE ExecuteRefused(r)
  BY <1>0, <1>9, ControlStep DEF ExecuteRefused, BeforeExecution
<1>10. CASE WaitForDsqlJob(r)
  <2>1. CASE job[r][pos[r]] = "succeeded"
    <3>1. <<r, pos[r]>> \in committed /\ pos[r] \in Chunk
      BY <1>a, <1>10, <2>1 DEF WaitForDsqlJob, IInv, JobCommitted
    <3>2. Applied(pos[r])
      BY <2>1, <3>1 DEF Applied
    <3>3. pc' = [pc EXCEPT ![r] = "record"]
      BY <1>10, <2>1 DEF WaitForDsqlJob
    <3>4. QED
      BY <1>0, <1>10, <3>1, <3>2, <3>3, ControlStep
         DEF WaitForDsqlJob, BeforeExecution
  <2>2. CASE job[r][pos[r]] # "succeeded"
    BY <1>0, <1>10, <2>2, ControlStep DEF WaitForDsqlJob, BeforeExecution
  <2>3. QED
    BY <2>1, <2>2
<1>11. CASE RecordStatement(r)
  BY <1>0, <1>11, RecordStep
<1>12. CASE Conflict(r)
  <2>1. pc' = [pc EXCEPT ![r] = pc[r]] /\ pc[r] # "success"
    BY <1>a, <1>12 DEF Conflict, DbOps
  <2>2. pc[r] = "record" => Applied(pos[r]) /\ pos[r] \in Chunk
    BY <1>a DEF IInv, RecordReady
  <2>3. QED
    BY <1>0, <1>12, <2>1, <2>2, ControlStep DEF Conflict
<1>13. CASE RetriesExhausted(r) \/ OperationFails(r)
  <2>1. Thrown(r) \in {"failed", "threw"}
    BY DEF Thrown
  <2>2. QED
    BY <1>0, <1>13, <2>1, ControlStep
       DEF RetriesExhausted, OperationFails, BeforeExecution
<1>14. CASE ReplyLost(r)
  BY <1>0, <1>14, ReplyLostStep
<1>15. CASE Crash(r)
  BY <1>0, <1>15, ControlStep DEF Crash, BeforeExecution
<1>16. QED
  BY <1>1, <1>2, <1>3, <1>4, <1>5, <1>6, <1>7, <1>8, <1>9, <1>10, <1>11,
     <1>12, <1>13, <1>14, <1>15 DEF Operation, Failure

LEMMA NextIInv == IInv /\ [Next]_vars => IInv'
<1> SUFFICES ASSUME IInv, [Next]_vars PROVE IInv'
  OBVIOUS
<1>1. CASE UNCHANGED vars
  BY <1>1 DEF vars, dbVars, runVars, IInv, TypeOK, RecordedIsPrefix,
     RecordedIsApplied, SnapRecorded, PassedRecorded, CommittedInOrder,
     CommittedOnce, JobCommitted, RecordReady, SuccessAtEnd, Applied
<1>2. CASE \E r \in Runs : Start(r) \/ Operation(r) \/ Failure(r)
  BY <1>2, RunStep
<1>3. CASE \E r \in Runs, p \in Chunk : Job(r, p)
  <2>1. PICK r \in Runs, p \in Chunk : Job(r, p)
    BY <1>3
  <2>2. TypeOK'
    BY <2>1, JobType DEF IInv
  <2>3. QED
    BY <2>1, <2>2, JobStep
<1>4. QED
  BY <1>1, <1>2, <1>3 DEF Next

LEMMA Inductive == Spec => []IInv
BY InitIInv, NextIInv, PTL DEF Spec

-----------------------------------------------------------------------------
(* The safety theorems.                                                    *)

\* The tracking table never has a gap (migrator.ts:340-445).
THEOREM TrackingHasNoGap == Spec => []RecordedIsPrefix
BY Inductive, PTL DEF IInv

\* Nothing is recorded before it took effect (migrator.ts:392-440).
THEOREM RecordedTookEffect == Spec => []RecordedIsApplied
BY Inductive, PTL DEF IInv

\* A statement only runs over the completed effects of the earlier ones
\* (migrator.ts:397-400).
THEOREM ExecutedInOrder == Spec => []DependenciesReady
<1>1. IInv => DependenciesReady
  <2> SUFFICES ASSUME IInv, NEW c \in committed, NEW q \in 1..(c[2] - 1)
               PROVE  Applied(q)
    BY DEF DependenciesReady
  <2>1. QED
    BY DEF IInv, CommittedInOrder, RecordedIsApplied
<1>2. QED
  BY <1>1, Inductive, PTL

\* A successful run leaves no statement of the script pending
\* (migrator.ts:447-453).
THEOREM SuccessLeavesNothing == Spec => []SuccessIsComplete
<1>1. IInv => SuccessIsComplete
  <2> SUFFICES ASSUME IInv, NEW r \in Runs, pc[r] = "success"
               PROVE  rows = Chunk /\ \A p \in Chunk : Applied(p)
    BY DEF SuccessIsComplete
  <2>1. \A q \in Chunk : q \in rows
    BY LenNat DEF IInv, SuccessAtEnd, PassedRecorded, Chunk
  <2>2. QED
    BY <2>1 DEF IInv, TypeOK, RecordedIsApplied
<1>2. QED
  BY <1>1, Inductive, PTL

\* The claim of migrator.ts:397-400 does hold of the scripts that create no
\* index with IF NOT EXISTS: a recorded asynchronous statement has a job that
\* succeeded.
THEOREM JobAwaitedWithoutIfNotExists ==
  ASSUME \A p \in Chunk : Kind(p) # "indexIfNotExists"
  PROVE  Spec => []JobAwaited
<1>1. IInv => JobAwaited
  <2> SUFFICES ASSUME IInv, NEW p \in rows, Kind(p) \in AsyncKinds
               PROVE  \E r \in Runs : job[r][p] = "succeeded"
    BY DEF JobAwaited
  <2>1. p \in Chunk /\ Applied(p)
    BY DEF IInv, TypeOK, RecordedIsApplied
  <2>2. Kind(p) \in {"index", "validate"}
    BY <2>1 DEF AsyncKinds
  <2>3. QED
    BY <2>1, <2>2 DEF Applied
<1>2. QED
  BY <1>1, Inductive, PTL

-----------------------------------------------------------------------------
(* The refinement.                                                         *)

AppliedSet == {p \in Chunk : Applied(p)}

\* A step after which statement p, and no other, may have taken effect.
LEMMA ApplyStep ==
  ASSUME UNCHANGED rows, NEW p \in Chunk, \A q \in 1..(p - 1) : q \in rows,
         \A x \in Chunk : Applied(x) => Applied(x)',
         \A x \in Chunk : x # p /\ Applied(x)' => Applied(x)
  PROVE  [Log!LogNext]_(Log!logVars)
<1>1. CASE AppliedSet' = AppliedSet
  BY <1>1 DEF Log!logVars, AppliedSet
<1>2. CASE AppliedSet' # AppliedSet
  <2>1. AppliedSet' = AppliedSet \cup {p}
    BY <1>2 DEF AppliedSet
  <2>2. Log!Apply(p)
    BY <2>1 DEF Log!Apply, Log!EarlierRecorded, AppliedSet
  <2>3. QED
    BY <2>2 DEF Log!LogNext, Chunk
<1>3. QED
  BY <1>1, <1>2

LEMMA QuietStep ==
  ASSUME UNCHANGED <<rows, committed, job>>
  PROVE  [Log!LogNext]_(Log!logVars)
<1>1. AppliedSet' = AppliedSet
  BY DEF AppliedSet, Applied
<1>2. QED
  BY <1>1 DEF Log!logVars, AppliedSet

LEMMA CommitRefines ==
  ASSUME IInv, NEW r \in Runs, pc[r] = "execute", Commits(r), UNCHANGED rows
  PROVE  [Log!LogNext]_(Log!logVars)
<1>1. pos[r] \in Chunk /\ \A q \in 1..(pos[r] - 1) : q \in rows
  BY DEF IInv, TypeOK, DbOps, PassedRecorded
<1>2. job \in [Runs -> [Chunk -> {"none", "running", "succeeded", "failed"}]]
  BY DEF IInv, TypeOK
<1>3. job[r][pos[r]] = "none"
  BY <1>1 DEF IInv, JobCommitted, CommittedOnce, BeforeExecution
<1>4. /\ committed' = committed \cup {<<r, pos[r]>>}
      /\ \A q \in Runs, x \in Chunk : job[q][x] = "succeeded" <=> job'[q][x] = "succeeded"
  <2>1. CASE StartsJob(pos[r])
    BY <1>1, <1>2, <1>3, <2>1 DEF Commits
  <2>2. CASE ~StartsJob(pos[r])
    BY <2>2 DEF Commits
  <2>3. QED
    BY <2>1, <2>2
<1>5. \A x \in Chunk : Applied(x) => Applied(x)'
  BY <1>4, AppliedStable
<1>6. \A x \in Chunk : x # pos[r] /\ Applied(x)' => Applied(x)
  <2> SUFFICES ASSUME NEW x \in Chunk, x # pos[r], Applied(x)'
               PROVE  Applied(x)
    OBVIOUS
  <2>1. \A q \in Runs : <<q, x>> \in committed' => <<q, x>> \in committed
    BY <1>4
  <2>2. CASE Kind(x) = "empty"
    BY <2>2 DEF Applied
  <2>3. CASE Kind(x) \in {"index", "validate"}
    BY <1>4, <2>3 DEF Applied
  <2>4. CASE Kind(x) \notin {"empty", "index", "validate"}
    BY <2>1, <2>4 DEF Applied
  <2>5. QED
    BY <2>2, <2>3, <2>4
<1>7. QED
  BY <1>1, <1>5, <1>6, ApplyStep

LEMMA RowRefines ==
  ASSUME IInv, NEW r \in Runs, pc[r] = "record", rows' = rows \cup {pos[r]},
         UNCHANGED <<committed, job>>
  PROVE  [Log!LogNext]_(Log!logVars)
<1>1. /\ pos[r] \in Chunk /\ Applied(pos[r])
      /\ \A q \in 1..(pos[r] - 1) : q \in rows
  BY DEF IInv, TypeOK, DbOps, PassedRecorded, RecordReady
<1>2. AppliedSet' = AppliedSet /\ pos[r] \in AppliedSet
  BY <1>1 DEF AppliedSet, Applied
<1>3. Log!Record(pos[r])
  BY <1>1, <1>2 DEF Log!Record, Log!EarlierRecorded, AppliedSet
<1>4. QED
  BY <1>1, <1>3 DEF Log!LogNext, Chunk

LEMMA JobRefines ==
  ASSUME IInv, NEW r \in Runs, NEW p \in Chunk, Job(r, p)
  PROVE  [Log!LogNext]_(Log!logVars)
<1>1. /\ UNCHANGED <<rows, committed>>
      /\ job[r][p] = "running"
      /\ \/ job' = [job EXCEPT ![r][p] = "succeeded"]
         \/ job' = [job EXCEPT ![r][p] = "failed"]
  BY DEF Job, JobSucceeds, JobFails
<1>2. job \in [Runs -> [Chunk -> {"none", "running", "succeeded", "failed"}]]
  BY DEF IInv, TypeOK
<1>3. \A q \in 1..(p - 1) : q \in rows
  <2>1. <<r, p>> \in committed
    BY <1>1 DEF IInv, JobCommitted
  <2>2. QED
    BY <2>1 DEF IInv, CommittedInOrder
<1>4. \A q \in Runs, x \in Chunk :
        /\ job[q][x] = "succeeded" => job'[q][x] = "succeeded"
        /\ x # p => job'[q][x] = job[q][x]
  BY <1>1, <1>2
<1>5. \A x \in Chunk : Applied(x) => Applied(x)'
  BY <1>1, <1>4, AppliedStable
<1>6. \A x \in Chunk : x # p /\ Applied(x)' => Applied(x)
  <2> SUFFICES ASSUME NEW x \in Chunk, x # p, Applied(x)'
               PROVE  Applied(x)
    OBVIOUS
  <2>1. \A q \in Runs : job'[q][x] = job[q][x]
    BY <1>4
  <2>2. CASE Kind(x) = "empty"
    BY <2>2 DEF Applied
  <2>3. CASE Kind(x) \in {"index", "validate"}
    BY <2>1, <2>3 DEF Applied
  <2>4. CASE Kind(x) \notin {"empty", "index", "validate"}
    BY <1>1, <2>4 DEF Applied
  <2>5. QED
    BY <2>2, <2>3, <2>4
<1>7. QED
  BY <1>1, <1>3, <1>5, <1>6, ApplyStep

\* Every run of the migrator, however its steps interleave with those of
\* others and wherever it is cut off, implements the log of statements.
THEOREM MigratorImplementsLog == Spec => ImplementsLog
<1>1. Init => Log!LogInit
  <2> SUFFICES ASSUME Init PROVE Log!LogInit
    OBVIOUS
  <2>1. ASSUME NEW p \in Chunk PROVE Applied(p) <=> Kind(p) = "empty"
    BY <2>1 DEF Init, Applied
  <2>2. QED
    BY <2>1 DEF Init, Log!LogInit
<1>2. IInv /\ [Next]_vars => [Log!LogNext]_(Log!logVars)
  <2> SUFFICES ASSUME IInv, [Next]_vars PROVE [Log!LogNext]_(Log!logVars)
    OBVIOUS
  <2>1. CASE UNCHANGED vars
    BY <2>1, QuietStep DEF vars, dbVars
  <2>2. ASSUME NEW r \in Runs, Start(r) \/ Operation(r) \/ Failure(r)
        PROVE  [Log!LogNext]_(Log!logVars)
    <3>1. CASE Execute(r)
      BY <3>1, CommitRefines DEF Execute
    <3>2. CASE RecordStatement(r)
      BY <3>2, RowRefines DEF RecordStatement
    <3>3. CASE ReplyLost(r)
      BY <3>3, CommitRefines, RowRefines, QuietStep DEF ReplyLost
    <3>4. CASE ~(Execute(r) \/ RecordStatement(r) \/ ReplyLost(r))
      <4>1. UNCHANGED <<rows, committed, job>>
        BY <2>2, <3>4 DEF Operation, Failure, Start, EnsureSchema, EnsureTable,
           LoadApplied, SkipRecorded, Dispatch, Finish, ExecuteRefused,
           WaitForDsqlJob, Conflict, RetriesExhausted, OperationFails, Crash,
           dbVars
      <4>2. QED
        BY <4>1, QuietStep
    <3>5. QED
      BY <3>1, <3>2, <3>3, <3>4
  <2>3. CASE \E r \in Runs, p \in Chunk : Job(r, p)
    BY <2>3, JobRefines
  <2>4. QED
    BY <2>1, <2>2, <2>3 DEF Next
<1>3. QED
  BY <1>1, <1>2, Inductive, PTL DEF Spec, ImplementsLog, Log!LogSpec

-----------------------------------------------------------------------------
(* One run at a time.                                                      *)

\* While no other run is active, the map read at the start is not stale: what
\* it misses is what the run itself recorded since.
LoopLabels == {"scan", "execute", "wait", "record"}
OneActive == \A q1, q2 \in Runs : Active(q1) /\ Active(q2) => q1 = q2
SnapCurrent ==
  \A r \in Runs : pc[r] \in LoopLabels => rows \subseteq snap[r] \cup 1..(pos[r] - 1)
ExecutePending == \A r \in Runs : pc[r] = "execute" => pos[r] \notin snap[r]
SeqInv == OneActive /\ SnapCurrent /\ ExecutePending

LEMMA SeqFrame ==
  ASSUME NEW r \in Runs, \A q \in Runs : q # r => ~Active(q) /\ pc'[q] = pc[q],
         pc'[r] \in LoopLabels => rows' \subseteq snap'[r] \cup 1..(pos'[r] - 1),
         pc'[r] = "execute" => pos'[r] \notin snap'[r]
  PROVE  SeqInv'
<1>1. \A q \in Runs : q # r => pc'[q] \notin LoopLabels
  BY DEF Active, Ended, LoopLabels
<1>2. OneActive'
  BY DEF OneActive, Active
<1>3. QED
  BY <1>1, <1>2 DEF SeqInv, SnapCurrent, ExecutePending, LoopLabels

LEMMA SeqRunStep ==
  ASSUME ~Concurrent, IInv, SeqInv,
         NEW r \in Runs, Start(r) \/ Operation(r) \/ Failure(r)
  PROVE  SeqInv'
<1> USE DEF Goto
<1>1. /\ pc \in [Runs -> Labels] /\ snap \in [Runs -> SUBSET Chunk]
      /\ pos \in [Runs -> 1..(Len(Script) + 1)]
  BY DEF IInv, TypeOK
<1>2. \A q \in Runs : q # r => ~Active(q)
  <2>1. CASE Start(r)
    BY <2>1 DEF Start
  <2>2. CASE Operation(r) \/ Failure(r)
    <3>1. Active(r)
      BY <2>2 DEF Operation, Failure, EnsureSchema, EnsureTable, LoadApplied,
         SkipRecorded, Dispatch, Scanning, Finish, Execute, ExecuteRefused,
         WaitForDsqlJob, RecordStatement, Conflict, RetriesExhausted,
         OperationFails, ReplyLost, Crash, DbOps, Active, Ended
    <3>2. QED
      BY <3>1 DEF SeqInv, OneActive
  <2>3. QED
    BY <2>1, <2>2
<1>3. \A q \in Runs : q # r => pc'[q] = pc[q]
  BY <1>1 DEF Operation, Failure, Start, EnsureSchema, EnsureTable, LoadApplied,
     SkipRecorded, Dispatch, Finish, Execute, ExecuteRefused, WaitForDsqlJob,
     RecordStatement, Conflict, RetriesExhausted, OperationFails, ReplyLost, Crash
<1>4. CASE \/ Start(r) \/ EnsureSchema(r) \/ EnsureTable(r) \/ Finish(r)
           \/ ExecuteRefused(r) \/ RetriesExhausted(r) \/ OperationFails(r)
           \/ ReplyLost(r) \/ Crash(r)
  <2>1. pc'[r] \notin LoopLabels
    BY <1>1, <1>4 DEF Start, EnsureSchema, EnsureTable, Finish, ExecuteRefused,
       RetriesExhausted, OperationFails, ReplyLost, Crash, Thrown, LoopLabels
  <2>2. QED
    BY <1>2, <1>3, <2>1, SeqFrame DEF LoopLabels
<1>5. CASE LoadApplied(r)
  <2>1. snap'[r] = rows /\ rows' = rows /\ pc'[r] = "scan"
    BY <1>1, <1>5 DEF LoadApplied, dbVars
  <2>2. QED
    BY <1>2, <1>3, <2>1, SeqFrame
<1>6. CASE SkipRecorded(r)
  <2>1. /\ pc'[r] = "scan" /\ rows' = rows /\ snap'[r] = snap[r]
        /\ pos'[r] = pos[r] + 1
    BY <1>1, <1>6 DEF SkipRecorded, Scanning, NextChunk, dbVars
  <2>2. rows \subseteq snap[r] \cup 1..(pos[r] - 1)
    BY <1>6 DEF SkipRecorded, Scanning, SeqInv, SnapCurrent, LoopLabels
  <2>3. 1..(pos[r] - 1) \subseteq 1..pos[r]
    BY <1>1, LenNat
  <2>4. QED
    BY <1>1, <1>2, <1>3, <2>1, <2>2, <2>3, LenNat, SeqFrame
<1>7. CASE Dispatch(r) \/ Execute(r) \/ WaitForDsqlJob(r) \/ Conflict(r)
  <2>1. rows' = rows /\ snap' = snap /\ pos' = pos
    BY <1>7 DEF Dispatch, Execute, WaitForDsqlJob, Conflict, dbVars, runVars
  <2>2. pc'[r] \in LoopLabels => pc[r] \in LoopLabels
    BY <1>1, <1>7 DEF Dispatch, Scanning, Execute, WaitForDsqlJob, Conflict, LoopLabels
  <2>3. pc'[r] = "execute" => pos[r] \notin snap[r]
    BY <1>1, <1>7 DEF Dispatch, Execute, WaitForDsqlJob, Conflict, SeqInv,
       ExecutePending
  <2>4. QED
    BY <1>2, <1>3, <2>1, <2>2, <2>3, SeqFrame DEF SeqInv, SnapCurrent
<1>8. CASE RecordStatement(r)
  <2>1. /\ pc'[r] = "scan" /\ rows' = rows \cup {pos[r]} /\ snap'[r] = snap[r]
        /\ pos'[r] = pos[r] + 1 /\ pos[r] \in Nat /\ pos[r] >= 1
    BY <1>1, <1>8, LenNat DEF RecordStatement, NextChunk
  <2>2. rows \subseteq snap[r] \cup 1..(pos[r] - 1)
    BY <1>8 DEF RecordStatement, SeqInv, SnapCurrent, LoopLabels
  <2>3. 1..(pos[r] - 1) \subseteq 1..pos[r] /\ pos[r] \in 1..pos[r]
    BY <2>1
  <2>4. rows' \subseteq snap'[r] \cup 1..(pos'[r] - 1)
    BY <2>1, <2>2, <2>3
  <2>5. QED
    BY <1>2, <1>3, <2>1, <2>4, SeqFrame
<1>9. QED
  BY <1>4, <1>5, <1>6, <1>7, <1>8 DEF Operation, Failure

\* Deploys that run one after the other never execute a recorded statement
\* again (migrator.ts:162-165).
THEOREM SequentialNeverReruns ==
  ASSUME ~Concurrent
  PROVE  Spec => RecordedNeverRerun
<1>1. Init => SeqInv
  BY DEF Init, SeqInv, OneActive, SnapCurrent, ExecutePending, Active, LoopLabels
<1>2. IInv /\ SeqInv /\ [Next]_vars => SeqInv'
  <2> SUFFICES ASSUME IInv, SeqInv, [Next]_vars PROVE SeqInv'
    OBVIOUS
  <2>1. CASE UNCHANGED vars
    BY <2>1 DEF vars, dbVars, runVars, SeqInv, OneActive, SnapCurrent,
       ExecutePending, Active
  <2>2. CASE \E r \in Runs : Start(r) \/ Operation(r) \/ Failure(r)
    BY <2>2, SeqRunStep
  <2>3. CASE \E r \in Runs, p \in Chunk : Job(r, p)
    BY <2>3 DEF Job, JobSucceeds, JobFails, runVars, SeqInv, OneActive,
       SnapCurrent, ExecutePending, Active
  <2>4. QED
    BY <2>1, <2>2, <2>3 DEF Next
<1>3. IInv /\ SeqInv /\ [Next]_vars =>
        [\A c \in committed' \ committed : c[2] \notin rows]_vars
  <2> SUFFICES ASSUME IInv, SeqInv, Next, NEW c \in committed' \ committed
               PROVE  c[2] \notin rows
    OBVIOUS
  <2>1. PICK r \in Runs : pc[r] = "execute" /\ c = <<r, pos[r]>>
    BY DEF Next, Operation, Failure, Job, Start, EnsureSchema, EnsureTable,
       LoadApplied, SkipRecorded, Dispatch, Finish, Execute, ExecuteRefused,
       WaitForDsqlJob, RecordStatement, Conflict, RetriesExhausted,
       OperationFails, ReplyLost, Crash, JobSucceeds, JobFails, Commits, dbVars
  <2>2. pos[r] \notin snap[r] /\ rows \subseteq snap[r] \cup 1..(pos[r] - 1)
    BY <2>1 DEF SeqInv, ExecutePending, SnapCurrent, LoopLabels
  <2>3. pos[r] \notin 1..(pos[r] - 1)
    BY LenNat DEF IInv, TypeOK
  <2>4. QED
    BY <2>1, <2>2, <2>3
<1>4. QED
  BY <1>1, <1>2, <1>3, Inductive, PTL DEF Spec, RecordedNeverRerun

-----------------------------------------------------------------------------
(* The counts of a result.                                                 *)

\* What a run with map s has counted when the loop comes to chunk n: the
\* statements it recorded itself, and the ends of the migrations in which it
\* found something pending. hadPending speaks of the migration n belongs to.
PassedPending(s, n) == (1..(n - 1)) \ s
PassedEnds(s, n) ==
  {e \in MigrationEnds : e < n /\ ~(MigrationChunks(e) \subseteq s)}
PendingSince(s, n) ==
  \E q \in 1..(n - 1) : q \notin s /\ \A x \in q..(n - 1) : ~EndsMigration(x)

SetUp  == {"idle", "schema", "table", "load"}
InHand == {"execute", "wait", "record"}

Counted(r) ==
  /\ pc[r] \in SetUp => pos[r] = 1
  /\ appliedCount[r] = Cardinality(PassedPending(snap[r], pos[r]))
  /\ completed[r] = Cardinality(PassedEnds(snap[r], pos[r]))
  /\ pc[r] \in SetUp \cup {"scan"} =>
       (hadPending[r] <=> PendingSince(snap[r], pos[r]))
  /\ pc[r] \in InHand => hadPending[r]
  /\ pc[r] \in InHand \cup {"failed"} => pos[r] \in Chunk /\ pos[r] \notin snap[r]

CountsInv == \A r \in Runs : Counted(r)

\* At the first chunk nothing has been counted, whatever the map holds.
LEMMA NothingPassed ==
  ASSUME NEW s
  PROVE  /\ Cardinality(PassedPending(s, 1)) = 0
         /\ Cardinality(PassedEnds(s, 1)) = 0
         /\ ~PendingSince(s, 1)
<1>1. 1..(1 - 1) = {}
  OBVIOUS
<1>2. PassedPending(s, 1) = {} /\ ~PendingSince(s, 1)
  BY <1>1 DEF PassedPending, PendingSince
<1>3. PassedEnds(s, 1) = {}
  BY LenNat DEF PassedEnds, MigrationEnds, Chunk
<1>4. QED
  BY <1>2, <1>3, FS_EmptySet

\* What was counted is finite, so that one more element is one more.
LEMMA PassedFinite ==
  ASSUME NEW s, NEW n \in 1..(Len(Script) + 1)
  PROVE  IsFiniteSet(PassedPending(s, n)) /\ IsFiniteSet(PassedEnds(s, n))
<1>1. IsFiniteSet(1..(n - 1)) /\ IsFiniteSet(Chunk)
  BY LenNat, FS_Interval DEF Chunk
<1>2. PassedPending(s, n) \in SUBSET (1..(n - 1)) /\ PassedEnds(s, n) \in SUBSET Chunk
  BY DEF PassedPending, PassedEnds, MigrationEnds
<1>3. QED
  BY <1>1, <1>2, FS_Subset

\* Past chunk n, one statement more is counted if n was pending.
LEMMA PendingPassed ==
  ASSUME NEW s, NEW n \in Chunk
  PROVE  Cardinality(PassedPending(s, n + 1)) =
           IF n \in s THEN Cardinality(PassedPending(s, n))
           ELSE Cardinality(PassedPending(s, n)) + 1
<1>1. n \in Nat /\ n >= 1 /\ n \in 1..(Len(Script) + 1)
  BY LenNat DEF Chunk
<1>2. 1..((n + 1) - 1) = (1..(n - 1)) \cup {n} /\ n \notin 1..(n - 1)
  BY <1>1
<1>3. CASE n \in s
  BY <1>2, <1>3 DEF PassedPending
<1>4. CASE n \notin s
  <2>1. PassedPending(s, n + 1) = PassedPending(s, n) \cup {n}
    BY <1>2, <1>4 DEF PassedPending
  <2>2. n \notin PassedPending(s, n)
    BY <1>2 DEF PassedPending
  <2>3. QED
    BY <1>1, <1>4, <2>1, <2>2, PassedFinite, FS_AddElement
<1>5. QED
  BY <1>3, <1>4

\* The migration that ends with n had something pending exactly if n was, or
\* an earlier chunk of the same migration.
LEMMA PendingMigration ==
  ASSUME NEW s, NEW n \in Chunk
  PROVE  ~(MigrationChunks(n) \subseteq s) <=> n \notin s \/ PendingSince(s, n)
<1>1. n \in Nat /\ n >= 1
  BY LenNat DEF Chunk
<1>2. 1..n = (1..(n - 1)) \cup {n} /\ n..(n - 1) = {}
  BY <1>1
<1>3. n \in MigrationChunks(n)
  BY <1>2 DEF MigrationChunks
<1>4. \A q \in 1..(n - 1) :
        q \in MigrationChunks(n) <=> \A x \in q..(n - 1) : ~EndsMigration(x)
  BY <1>2 DEF MigrationChunks
<1>5. MigrationChunks(n) \subseteq (1..(n - 1)) \cup {n}
  BY <1>2 DEF MigrationChunks
<1>6. QED
  BY <1>3, <1>4, <1>5 DEF PendingSince

\* Past chunk n, one migration more is counted if n ends one that had
\* something pending.
LEMMA EndPassed ==
  ASSUME NEW s, NEW n \in Chunk
  PROVE  Cardinality(PassedEnds(s, n + 1)) =
           IF EndsMigration(n) /\ (n \notin s \/ PendingSince(s, n))
           THEN Cardinality(PassedEnds(s, n)) + 1
           ELSE Cardinality(PassedEnds(s, n))
<1>1. n \in Nat /\ n \in 1..(Len(Script) + 1) /\ MigrationEnds \subseteq Nat
  BY LenNat DEF Chunk, MigrationEnds
<1>2. \A e \in MigrationEnds : e < n + 1 <=> e < n \/ e = n
  BY <1>1
<1>3. n \notin PassedEnds(s, n)
  BY <1>1 DEF PassedEnds
<1>4. CASE EndsMigration(n) /\ (n \notin s \/ PendingSince(s, n))
  <2>1. n \in MigrationEnds /\ ~(MigrationChunks(n) \subseteq s)
    BY <1>4, PendingMigration DEF MigrationEnds
  <2>2. PassedEnds(s, n + 1) = PassedEnds(s, n) \cup {n}
    BY <1>2, <2>1 DEF PassedEnds
  <2>3. QED
    BY <1>1, <1>3, <1>4, <2>2, PassedFinite, FS_AddElement
<1>5. CASE ~(EndsMigration(n) /\ (n \notin s \/ PendingSince(s, n)))
  <2>1. ~(n \in MigrationEnds /\ ~(MigrationChunks(n) \subseteq s))
    BY <1>5, PendingMigration DEF MigrationEnds
  <2>2. PassedEnds(s, n + 1) = PassedEnds(s, n)
    BY <1>2, <2>1 DEF PassedEnds
  <2>3. QED
    BY <1>5, <2>2
<1>6. QED
  BY <1>4, <1>5

\* Past chunk n, something is pending in the migration of the next chunk if
\* the migration goes on and something was.
LEMMA SincePassed ==
  ASSUME NEW s, NEW n \in Chunk
  PROVE  PendingSince(s, n + 1) <=>
           (n \notin s \/ PendingSince(s, n)) /\ ~EndsMigration(n)
<1>1. n \in Nat /\ n >= 1
  BY LenNat DEF Chunk
<1>2. (n + 1) - 1 = n /\ 1..n = (1..(n - 1)) \cup {n} /\ n..n = {n}
  BY <1>1
<1>3. \A q \in 1..(n - 1) : q..n = (q..(n - 1)) \cup {n}
  BY <1>1
<1>4. PendingSince(s, n + 1) <=>
        \E q \in (1..(n - 1)) \cup {n} :
          q \notin s /\ \A x \in q..n : ~EndsMigration(x)
  BY <1>2 DEF PendingSince
<1>5. (\A x \in n..n : ~EndsMigration(x)) <=> ~EndsMigration(n)
  BY <1>2
<1>6. \A q \in 1..(n - 1) :
        (\A x \in q..n : ~EndsMigration(x)) <=>
          (\A x \in q..(n - 1) : ~EndsMigration(x)) /\ ~EndsMigration(n)
  BY <1>3
<1>7. QED
  BY <1>4, <1>5, <1>6 DEF PendingSince

\* The loop body's end, for a chunk that was skipped (nothing of it counts) or
\* recorded (it counts).
LEMMA CountChunk ==
  ASSUME IInv, TypeOK', NEW r \in Runs, pos[r] \in Chunk, Counted(r),
         NextChunk(r, hadPending[r]), snap' = snap, pc'[r] = "scan",
         hadPending[r] <=> (pos[r] \notin snap[r] \/ PendingSince(snap[r], pos[r])),
         appliedCount'[r] = IF pos[r] \in snap[r] THEN appliedCount[r]
                            ELSE appliedCount[r] + 1
  PROVE  Counted(r)'
<1>1. /\ pos \in [Runs -> 1..(Len(Script) + 1)] /\ hadPending \in [Runs -> BOOLEAN]
      /\ completed \in [Runs -> Nat]
  BY DEF IInv, TypeOK
<1>2. /\ pos'[r] = pos[r] + 1
      /\ hadPending'[r] = (hadPending[r] /\ ~EndsMigration(pos[r]))
      /\ completed'[r] = IF hadPending[r] /\ EndsMigration(pos[r])
                         THEN completed[r] + 1 ELSE completed[r]
  BY <1>1 DEF NextChunk
<1>3. PICK s, n : s = snap[r] /\ n = pos[r]
  OBVIOUS
<1>4. n \in Chunk /\ snap'[r] = s /\ pos'[r] = n + 1
  BY <1>2, <1>3
<1>5. /\ appliedCount[r] = Cardinality(PassedPending(s, n))
      /\ completed[r] = Cardinality(PassedEnds(s, n))
  BY <1>3 DEF Counted
<1>6. appliedCount'[r] = Cardinality(PassedPending(s, n + 1))
  BY <1>3, <1>4, <1>5, PendingPassed
<1>7. completed'[r] = Cardinality(PassedEnds(s, n + 1))
  BY <1>2, <1>3, <1>4, <1>5, EndPassed
<1>8. hadPending'[r] <=> PendingSince(s, n + 1)
  BY <1>2, <1>3, <1>4, SincePassed
<1>9. pc'[r] \notin SetUp /\ pc'[r] \notin InHand /\ pc'[r] # "failed"
  BY DEF SetUp, InHand
<1>10. QED
  BY <1>4, <1>6, <1>7, <1>8, <1>9 DEF Counted, PassedPending, PassedEnds, PendingSince,
     MigrationEnds, MigrationChunks

\* What is said of a run only depends on its own variables.
LEMMA CountFrame ==
  ASSUME NEW q \in Runs, Counted(q), pc'[q] = pc[q], snap'[q] = snap[q],
         pos'[q] = pos[q], hadPending'[q] = hadPending[q],
         appliedCount'[q] = appliedCount[q], completed'[q] = completed[q]
  PROVE  Counted(q)'
BY DEF Counted, PassedPending, PassedEnds, PendingSince, MigrationEnds, MigrationChunks

\* A step that only moves a run to another label: into the loop from before it,
\* within the handling of one chunk, or to an end.
LEMMA CountLabel ==
  ASSUME NEW r \in Runs, Counted(r), UNCHANGED runVars,
         pc'[r] \in SetUp => pc[r] \in SetUp,
         pc'[r] = "scan" => pc[r] \in SetUp \cup {"scan"},
         pc'[r] \in InHand => pc[r] \in InHand,
         pc'[r] = "failed" => pc[r] \in InHand \cup {"failed"}
  PROVE  Counted(r)'
BY DEF Counted, runVars, SetUp, InHand, PassedPending, PassedEnds, PendingSince,
   MigrationEnds, MigrationChunks

\* What a run's own step makes of its counts.
LEMMA CountOwnStep ==
  ASSUME IInv, NEW r \in Runs, Counted(r), Start(r) \/ Operation(r) \/ Failure(r)
  PROVE  Counted(r)'
<1> USE DEF Goto
<1>1. /\ pc \in [Runs -> Labels] /\ snap \in [Runs -> SUBSET Chunk]
      /\ pos \in [Runs -> 1..(Len(Script) + 1)] /\ hadPending \in [Runs -> BOOLEAN]
      /\ appliedCount \in [Runs -> Nat]
  BY DEF IInv, TypeOK
<1>2. TypeOK'
  BY ActionType DEF IInv
<1>3. CASE \/ Start(r) \/ EnsureSchema(r) \/ EnsureTable(r) \/ Finish(r)
           \/ Execute(r) \/ ExecuteRefused(r) \/ WaitForDsqlJob(r) \/ Conflict(r)
           \/ RetriesExhausted(r) \/ OperationFails(r) \/ ReplyLost(r) \/ Crash(r)
  <2>1. UNCHANGED runVars
    BY <1>3 DEF Start, EnsureSchema, EnsureTable, Finish, Execute, ExecuteRefused,
       WaitForDsqlJob, Conflict, RetriesExhausted, OperationFails, ReplyLost, Crash
  <2>2. pc'[r] \in SetUp => pc[r] \in SetUp
    BY <1>1, <1>3 DEF Start, EnsureSchema, EnsureTable, Finish, Execute,
       ExecuteRefused, WaitForDsqlJob, Conflict, RetriesExhausted, OperationFails,
       ReplyLost, Crash, Thrown, SetUp
  <2>3. pc'[r] # "scan"
    BY <1>1, <1>3 DEF Start, EnsureSchema, EnsureTable, Finish, Execute,
       ExecuteRefused, WaitForDsqlJob, Conflict, RetriesExhausted, OperationFails,
       ReplyLost, Crash, Thrown, DbOps
  <2>4. pc'[r] \in InHand => pc[r] \in InHand
    BY <1>1, <1>3 DEF Start, EnsureSchema, EnsureTable, Finish, Execute,
       ExecuteRefused, WaitForDsqlJob, Conflict, RetriesExhausted, OperationFails,
       ReplyLost, Crash, Thrown, InHand
  <2>5. pc'[r] = "failed" => pc[r] \in InHand \cup {"failed"}
    BY <1>1, <1>3 DEF Start, EnsureSchema, EnsureTable, Finish, Execute,
       ExecuteRefused, WaitForDsqlJob, Conflict, RetriesExhausted, OperationFails,
       ReplyLost, Crash, Thrown, InHand, DbOps
  <2>6. QED
    BY <2>1, <2>2, <2>3, <2>4, <2>5, CountLabel
<1>4. CASE LoadApplied(r)
  <2>1. /\ pc'[r] = "scan" /\ pos'[r] = 1 /\ hadPending'[r] = hadPending[r]
        /\ appliedCount'[r] = appliedCount[r] /\ completed'[r] = completed[r]
    BY <1>1, <1>4 DEF LoadApplied, Counted, SetUp
  <2>2. PICK s, t : s = snap[r] /\ t = snap'[r]
    OBVIOUS
  <2>3. /\ appliedCount[r] = Cardinality(PassedPending(s, 1))
        /\ completed[r] = Cardinality(PassedEnds(s, 1))
        /\ hadPending[r] <=> PendingSince(s, 1)
    BY <1>4, <2>2 DEF LoadApplied, Counted, SetUp
  <2>4. /\ appliedCount'[r] = Cardinality(PassedPending(t, 1))
        /\ completed'[r] = Cardinality(PassedEnds(t, 1))
        /\ hadPending'[r] <=> PendingSince(t, 1)
    BY <2>1, <2>3, NothingPassed
  <2>5. pc'[r] \notin SetUp /\ pc'[r] \notin InHand /\ pc'[r] # "failed"
    BY <2>1 DEF SetUp, InHand
  <2>6. QED
    BY <2>1, <2>2, <2>4, <2>5 DEF Counted, PassedPending, PassedEnds, PendingSince,
       MigrationEnds, MigrationChunks
<1>5. CASE SkipRecorded(r)
  <2>1. pos[r] \in Chunk /\ pos[r] \in snap[r] /\ pc'[r] = "scan"
    BY <1>5 DEF SkipRecorded, Scanning
  <2>2. hadPending[r] <=> PendingSince(snap[r], pos[r])
    BY <1>5 DEF SkipRecorded, Scanning, Counted
  <2>3. snap' = snap /\ appliedCount'[r] = appliedCount[r] /\ NextChunk(r, hadPending[r])
    BY <1>5 DEF SkipRecorded
  <2>4. QED
    BY <1>2, <2>1, <2>2, <2>3, CountChunk
<1>6. CASE Dispatch(r)
  <2>1. /\ pos[r] \in Chunk /\ pos[r] \notin snap[r] /\ hadPending'[r]
        /\ UNCHANGED <<snap, pos, appliedCount, completed>>
    BY <1>1, <1>6 DEF Dispatch, Scanning
  <2>2. pc'[r] \notin SetUp \cup {"scan"}
    BY <1>1, <1>6 DEF Dispatch, SetUp
  <2>3. QED
    BY <2>1, <2>2 DEF Counted, PassedPending, PassedEnds, PendingSince,
       MigrationEnds, MigrationChunks
<1>7. CASE RecordStatement(r)
  <2>1. pos[r] \in Chunk /\ pos[r] \notin snap[r] /\ hadPending[r]
    BY <1>7 DEF RecordStatement, Counted, InHand
  <2>2. /\ snap' = snap /\ pc'[r] = "scan" /\ NextChunk(r, hadPending[r])
        /\ appliedCount'[r] = appliedCount[r] + 1
    BY <1>1, <1>7 DEF RecordStatement
  <2>3. QED
    BY <1>2, <2>1, <2>2, CountChunk
<1>8. QED
  BY <1>3, <1>4, <1>5, <1>6, <1>7 DEF Operation, Failure

LEMMA CountStep ==
  ASSUME IInv, CountsInv, NEW r \in Runs, Start(r) \/ Operation(r) \/ Failure(r)
  PROVE  CountsInv'
<1> SUFFICES ASSUME NEW q \in Runs PROVE Counted(q)'
  BY DEF CountsInv
<1>1. Counted(q) /\ Counted(r)
  BY DEF CountsInv
<1>2. CASE q = r
  BY <1>1, <1>2, CountOwnStep
<1>3. CASE q # r
  <2> USE DEF Goto, runVars, NextChunk
  <2>1. /\ pc \in [Runs -> Labels] /\ snap \in [Runs -> SUBSET Chunk]
        /\ pos \in [Runs -> 1..(Len(Script) + 1)] /\ hadPending \in [Runs -> BOOLEAN]
        /\ appliedCount \in [Runs -> Nat] /\ completed \in [Runs -> Nat]
    BY DEF IInv, TypeOK
  <2>2. pc'[q] = pc[q]
    BY <1>3, <2>1 DEF Operation, Failure, Start, EnsureSchema, EnsureTable,
       LoadApplied, SkipRecorded, Dispatch, Finish, Execute, ExecuteRefused,
       WaitForDsqlJob, RecordStatement, Conflict, RetriesExhausted, OperationFails,
       ReplyLost, Crash
  <2>3. snap'[q] = snap[q] /\ pos'[q] = pos[q]
    BY <1>3, <2>1 DEF Operation, Failure, Start, EnsureSchema, EnsureTable,
       LoadApplied, SkipRecorded, Dispatch, Finish, Execute, ExecuteRefused,
       WaitForDsqlJob, RecordStatement, Conflict, RetriesExhausted, OperationFails,
       ReplyLost, Crash
  <2>4. /\ hadPending'[q] = hadPending[q] /\ appliedCount'[q] = appliedCount[q]
        /\ completed'[q] = completed[q]
    BY <1>3, <2>1 DEF Operation, Failure, Start, EnsureSchema, EnsureTable,
       LoadApplied, SkipRecorded, Dispatch, Finish, Execute, ExecuteRefused,
       WaitForDsqlJob, RecordStatement, Conflict, RetriesExhausted, OperationFails,
       ReplyLost, Crash
  <2>5. QED
    BY <1>1, <2>2, <2>3, <2>4, CountFrame
<1>4. QED
  BY <1>2, <1>3

\* Some migration is left at chunk n: the one whose end comes first from n on.
LEMMA EndAhead ==
  ASSUME NEW n \in Chunk
  PROVE  \E e \in MigrationEnds : e >= n /\ n \in MigrationChunks(e)
<1> DEFINE Ahead == {e \in MigrationEnds : e >= n}
           Less == OpToRel(<, Nat)
<1>1. n \in Nat /\ n >= 1 /\ Len(Script) \in Nat /\ Len(Script) >= n /\ Ahead \subseteq Nat
  BY LenNat DEF Chunk, MigrationEnds
<1>2. Len(Script) \in Ahead
  BY <1>1, MigratorAssumption DEF Chunk, MigrationEnds, EndsMigration
<1>3. IsWellFoundedOn(Less, Nat)
  BY NatLessThanWellFounded
<1>4. \A v, w \in Nat : w < v => <<w, v>> \in Less
  BY DEF OpToRel
<1>5. \E e \in Ahead : \A w \in Ahead : ~(<<w, e>> \in Less)
  <2> HIDE DEF Less, Ahead
  <2>1. QED
    BY <1>1, <1>2, <1>3, WFMin, Zenon
<1>6. PICK e \in Ahead : \A w \in Ahead : ~(w < e)
  <2> HIDE DEF Less, Ahead
  <2>1. QED
    BY <1>1, <1>4, <1>5, Zenon
<1>7. \A x \in n..(e - 1) : ~EndsMigration(x)
  <2> SUFFICES ASSUME NEW x \in n..(e - 1), EndsMigration(x) PROVE FALSE
    OBVIOUS
  <2>1. x \in Chunk /\ x >= n /\ x < e
    BY <1>1 DEF Chunk, MigrationEnds
  <2>2. QED
    BY <1>6, <2>1 DEF MigrationEnds
<1>8. QED
  BY <1>1, <1>6, <1>7 DEF MigrationChunks

\* A strict subset counts less.
LEMMA FewerElements ==
  ASSUME NEW T, IsFiniteSet(T), NEW S \in SUBSET T, NEW x \in T, x \notin S
  PROVE  Cardinality(S) < Cardinality(T)
<1>1. Cardinality(T) \in Nat /\ IsFiniteSet(S) /\ Cardinality(S) \in Nat
  BY FS_CardinalityType, FS_Subset
<1>2. Cardinality(S) <= Cardinality(T) /\ (Cardinality(T) = Cardinality(S) => T = S)
  BY FS_Subset
<1>3. QED
  BY <1>1, <1>2

\* The result of every run adds up, however runs overlap and fail
\* (migrator.ts:274-287, 318-338, 439-453).
THEOREM ResultsAddUp == Spec => []CountsAddUp
<1>1. Init => CountsInv
  <2> SUFFICES ASSUME Init, NEW r \in Runs PROVE Counted(r)
    BY DEF CountsInv
  <2>1. /\ pc[r] = "idle" /\ snap[r] = {} /\ pos[r] = 1 /\ hadPending[r] = FALSE
        /\ appliedCount[r] = 0 /\ completed[r] = 0
    BY DEF Init
  <2>2. QED
    BY <2>1, NothingPassed DEF Counted, InHand
<1>2. IInv /\ CountsInv /\ [Next]_vars => CountsInv'
  <2> SUFFICES ASSUME IInv, CountsInv, [Next]_vars PROVE CountsInv'
    OBVIOUS
  <2>1. CASE UNCHANGED <<pc, runVars>>
    <3>1. ASSUME NEW q \in Runs PROVE Counted(q)'
      BY <2>1, CountFrame DEF runVars, CountsInv
    <3>2. QED
      BY <3>1 DEF CountsInv
  <2>2. CASE \E r \in Runs : Start(r) \/ Operation(r) \/ Failure(r)
    BY <2>2, CountStep
  <2>3. CASE \E r \in Runs, p \in Chunk : Job(r, p)
    BY <2>1, <2>3 DEF Job, JobSucceeds, JobFails
  <2>4. QED
    BY <2>1, <2>2, <2>3 DEF Next, vars
<1>3. IInv /\ CountsInv => CountsAddUp
  <2> SUFFICES ASSUME IInv, CountsInv, NEW r \in Runs
               PROVE  /\ pc[r] = "success" => /\ appliedCount[r] = TotalStatements(r)
                                              /\ completed[r] = TotalMigrations(r)
                      /\ pc[r] = "failed" => /\ appliedCount[r] < TotalStatements(r)
                                             /\ completed[r] < TotalMigrations(r)
                      /\ completed[r] <= Cardinality({e \in AppliedMigrations :
                                           ~(MigrationChunks(e) \subseteq snap[r])})
    BY DEF CountsAddUp
  <2> DEFINE s == snap[r]
             n == pos[r]
             Pending == Chunk \ s
             Ends == {e \in MigrationEnds : ~(MigrationChunks(e) \subseteq s)}
  <2>1. /\ appliedCount[r] = Cardinality(PassedPending(s, n))
        /\ completed[r] = Cardinality(PassedEnds(s, n))
        /\ n \in 1..(Len(Script) + 1) /\ n \in Nat
    BY LenNat DEF CountsInv, Counted, IInv, TypeOK
  <2>2. IsFiniteSet(Chunk) /\ MigrationEnds \subseteq Chunk /\ Chunk \subseteq Nat
    BY LenNat, FS_Interval DEF Chunk, MigrationEnds
  <2>3. IsFiniteSet(Pending) /\ IsFiniteSet(Ends)
    BY <2>2, FS_Subset
  <2>4. PassedPending(s, n) \subseteq Pending /\ PassedEnds(s, n) \subseteq Ends
    BY <2>1, LenNat DEF PassedPending, PassedEnds, Chunk
  <2>a. TotalStatements(r) = Cardinality(Pending) /\ TotalMigrations(r) = Cardinality(Ends)
    BY Zenon DEF TotalStatements, TotalMigrations
  <2>5. ASSUME pc[r] = "success"
        PROVE  appliedCount[r] = TotalStatements(r) /\ completed[r] = TotalMigrations(r)
    <3>1. n = Len(Script) + 1
      BY <2>5 DEF IInv, SuccessAtEnd
    <3>2. PassedPending(s, n) = Pending
      BY <3>1, LenNat DEF PassedPending, Chunk
    <3>3. PassedEnds(s, n) = Ends
      BY <3>1, LenNat DEF PassedEnds, MigrationEnds, Chunk
    <3>4. QED
      BY <2>1, <2>a, <3>2, <3>3
  <2>6. ASSUME pc[r] = "failed"
        PROVE  appliedCount[r] < TotalStatements(r) /\ completed[r] < TotalMigrations(r)
    <3>1. n \in Chunk /\ n \in Pending /\ n \notin s
      BY <2>6 DEF CountsInv, Counted
    <3>2. n \notin PassedPending(s, n)
      BY <2>1 DEF PassedPending
    <3>3. PICK e \in MigrationEnds : e >= n /\ n \in MigrationChunks(e)
      BY <3>1, EndAhead
    <3>4. e \in Ends /\ e \notin PassedEnds(s, n)
      BY <2>1, <2>2, <3>1, <3>3 DEF PassedEnds
    <3>5. /\ Cardinality(PassedPending(s, n)) < Cardinality(Pending)
          /\ Cardinality(PassedEnds(s, n)) < Cardinality(Ends)
      BY <2>3, <2>4, <3>1, <3>2, <3>4, FewerElements
    <3>6. QED
      BY <2>1, <2>a, <3>5
  <2>7. completed[r] <= Cardinality({e \in AppliedMigrations :
                          ~(MigrationChunks(e) \subseteq snap[r])})
    <3> DEFINE Shown == {e \in AppliedMigrations : ~(MigrationChunks(e) \subseteq s)}
    <3>1. ASSUME NEW e \in PassedEnds(s, n) PROVE MigrationChunks(e) \subseteq rows
      <4>1. e \in Nat /\ e < n
        BY <2>2 DEF PassedEnds
      <4>2. MigrationChunks(e) \subseteq 1..(n - 1)
        BY <2>1, <4>1 DEF MigrationChunks
      <4>3. QED
        BY <4>2 DEF IInv, PassedRecorded
    <3>2. PassedEnds(s, n) \subseteq Shown
      BY <3>1 DEF PassedEnds, AppliedMigrations
    <3>3. IsFiniteSet(Shown)
      BY <2>2, FS_Subset DEF AppliedMigrations
    <3>4. QED
      BY <2>1, <3>2, <3>3, FS_Subset
  <2>8. QED
    BY <2>5, <2>6, <2>7
<1>4. QED
  BY <1>1, <1>2, <1>3, Inductive, PTL DEF Spec
=============================================================================
