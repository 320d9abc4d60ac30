------------------------- MODULE IngestionJobsProofs -------------------------
(***************************************************************************)
(* Proofs about IngestionJobs for every set of workers, jobs and requests, *)
(* every pool size, any number of crashes, cancellations and failures.     *)
(***************************************************************************)
EXTENDS IngestionJobs, TLAPS

\* The steps between taking the lease and giving it back.
Leased == {"start", "select", "insert", "loop", "stage", "write", "hooks",
           "complete", "fail", "unlock"}

\* A worker holds its lease from AcquireLease to Release.
LeaseHeld ==
  \A w \in Workers :
    (run[w].pc \in Leased /\ ~run[w].dropped) => batchLock[run[w].req.batch] = w

\* Between the SELECT and the INSERT of Start the worker holds its key, so
\* what the SELECT saw stays true.
KeyHeld ==
  \A w \in Workers :
    /\ run[w].pc \in {"select", "insert"} => keyLock[run[w].req.key] = w
    /\ run[w].pc = "insert" => Active(run[w].req.key) = {}

\* A driver drives a row in use, of its own request, that nobody else drives.
DriversOwn ==
  \A w \in Workers :
    Driving(w) =>
      /\ run[w].job \in Jobs
      /\ Used(run[w].job)
      /\ row[run[w].job].req = run[w].req

DriversDiffer ==
  \A v, w \in Workers :
    (Driving(v) /\ Driving(w) /\ run[v].job = run[w].job) => v = w

\* Until it gives up or finishes, a driver drives a running row.
DriversRun ==
  \A w \in Workers :
    run[w].pc \in {"loop", "stage", "write", "hooks", "complete"} =>
      row[run[w].job].status = "running"

IInv ==
  /\ TypeOK
  /\ LeaseHeld
  /\ KeyHeld
  /\ DriversOwn
  /\ DriversDiffer
  /\ DriversRun
  /\ OneActiveJobPerKey
  /\ DuplicateReportedAsConflict

(***************************************************************************)
(* Facts about the constants and the helpers.                              *)
(***************************************************************************)
LEMMA AnyRequestIsOne == AnyRequest \in Requests
  BY JobsAssumption DEF AnyRequest

LEMMA KeysAndBatches ==
  ASSUME NEW r \in Requests PROVE r.key \in Keys /\ r.batch \in Batches
  BY DEF Keys, Batches

LEMMA NoRowType == NoRow \in Rows
  BY AnyRequestIsOne DEF NoRow, Rows, Stages, Terminal

LEMMA FreshRunType ==
  ASSUME NEW r \in Requests PROVE FreshRun(r) \in Locals
  BY DEF FreshRun, Locals, Steps, Stages, Kinds, Causes

LEMMA NextStageType ==
  ASSUME NEW k, NEW s PROVE NextStage(k, s) \in Stages
  BY DEF NextStage, Stages

LEMMA Names ==
  /\ "start" \in Steps /\ "select" \in Steps /\ "insert" \in Steps
  /\ "loop" \in Steps /\ "stage" \in Steps /\ "write" \in Steps
  /\ "hooks" \in Steps /\ "complete" \in Steps /\ "fail" \in Steps
  /\ "unlock" \in Steps /\ "returned" \in Steps /\ "crashed" \in Steps
  /\ "none" \in Causes /\ "conflict" \in Causes /\ "unique" \in Causes
  /\ "cancelled" \in Causes /\ "db" \in Causes /\ "source" \in Causes
  /\ "policy" \in Causes
  /\ "batch" \in Stages
  /\ "upsert" \in Kinds /\ "excluded" \in Kinds /\ "delete" \in Kinds
  BY DEF Steps, Causes, Stages, Kinds

(***************************************************************************)
(* Type correctness: first the updates that several actions share.         *)
(***************************************************************************)
LEMMA OneRun ==
  ASSUME TypeOK, NEW w \in Workers, NEW l \in Locals,
         run' = [run EXCEPT ![w] = l]
  PROVE  run' \in [Workers -> Locals]
  BY DEF TypeOK

LEMMA OneRow ==
  ASSUME TypeOK, NEW j, NEW r, j \in Jobs => r \in Rows,
         row' = [row EXCEPT ![j] = r]
  PROVE  row' \in [Jobs -> Rows]
  BY DEF TypeOK

LEMMA PcType ==
  ASSUME TypeOK, NEW w \in Workers, NEW next \in Steps,
         run' = [run EXCEPT ![w].pc = next]
  PROVE  run' \in [Workers -> Locals]
  <1>1. [run[w] EXCEPT !.pc = next] \in Locals
    BY DEF TypeOK, Locals
  <1>2. run' = [run EXCEPT ![w] = [run[w] EXCEPT !.pc = next]]
    OBVIOUS
  <1> QED
    BY <1>1, <1>2, OneRun

LEMMA PcCauseType ==
  ASSUME TypeOK, NEW w \in Workers, NEW next \in Steps, NEW c \in Causes,
         run' = [run EXCEPT ![w].pc = next, ![w].cause = c]
  PROVE  run' \in [Workers -> Locals]
  <1>1. [run[w] EXCEPT !.pc = next, !.cause = c] \in Locals
    BY DEF TypeOK, Locals
  <1>2. run' = [run EXCEPT ![w] = [run[w] EXCEPT !.pc = next, !.cause = c]]
    OBVIOUS
  <1> QED
    BY <1>1, <1>2, OneRun

LEMMA PcCauseAtType ==
  ASSUME TypeOK, NEW w \in Workers, NEW next \in Steps, NEW c \in Causes,
         NEW s \in Stages,
         run' = [run EXCEPT ![w].pc = next, ![w].cause = c, ![w].at = s]
  PROVE  run' \in [Workers -> Locals]
  <1>1. [run[w] EXCEPT !.pc = next, !.cause = c, !.at = s] \in Locals
    BY DEF TypeOK, Locals
  <1>2. run' = [run EXCEPT ![w] = [run[w] EXCEPT !.pc = next, !.cause = c, !.at = s]]
    OBVIOUS
  <1> QED
    BY <1>1, <1>2, OneRun

LEMMA PcKindType ==
  ASSUME TypeOK, NEW w \in Workers, NEW next \in Steps, NEW k \in Kinds,
         run' = [run EXCEPT ![w].pc = next, ![w].kind = k]
  PROVE  run' \in [Workers -> Locals]
  <1>1. [run[w] EXCEPT !.pc = next, !.kind = k] \in Locals
    BY DEF TypeOK, Locals
  <1>2. run' = [run EXCEPT ![w] = [run[w] EXCEPT !.pc = next, !.kind = k]]
    OBVIOUS
  <1> QED
    BY <1>1, <1>2, OneRun

LEMMA RefusedType ==
  ASSUME TypeOK, NEW w \in Workers, NEW next \in Steps, Refused(w, next)
  PROVE  run' \in [Workers -> Locals] /\ faults' \in Nat
  <1>1. faults' \in Nat
    BY DEF TypeOK, Refused, Fault
  <1>2. run' \in [Workers -> Locals]
    BY PcCauseType, Names DEF Refused
  <1> QED
    BY <1>1, <1>2

LEMMA LostType ==
  ASSUME TypeOK, NEW w \in Workers, NEW next \in Steps, Lost(w, next)
  PROVE  run' \in [Workers -> Locals] /\ faults' \in Nat
  <1>1. faults' \in Nat
    BY DEF TypeOK, Lost, Fault
  <1>2. ASSUME run' = [run EXCEPT ![w].pc = next, ![w].cause = "cancelled",
                                  ![w].ctx = "cancelled"]
        PROVE  run' \in [Workers -> Locals]
    <2> DEFINE l == [run[w] EXCEPT !.pc = next, !.cause = "cancelled",
                                   !.ctx = "cancelled"]
    <2>1. l \in Locals
      BY Names DEF TypeOK, Locals
    <2>2. run' = [run EXCEPT ![w] = l]
      BY <1>2
    <2> QED
      BY <2>1, <2>2, OneRun
  <1> QED
    BY <1>1, <1>2, PcCauseType, Names DEF Lost

LEMMA FinishedType ==
  ASSUME TypeOK, NEW j, NEW status \in Terminal, NEW stage \in Stages
  PROVE  Finished(j, status, stage) \in [Jobs -> Rows]
  <1> DEFINE n == IF status = "failed" THEN 1 ELSE 0
             r == [row[j] EXCEPT !.status = status, !.stage = stage, !.failed = @ + n]
             new == [row EXCEPT ![j] = r]
  <1>1. n \in Nat
    OBVIOUS
  <1> HIDE DEF n
  <1>2. ASSUME j \in Jobs PROVE r \in Rows
    <2>1. row[j] \in Rows
      BY <1>2 DEF TypeOK
    <2>2. row[j].failed + n \in Nat
      BY <1>1, <2>1 DEF Rows
    <2> QED
      BY <2>1, <2>2 DEF Rows
  <1>3. new \in [Jobs -> Rows]
    BY <1>2 DEF TypeOK
  <1>4. [row EXCEPT ![j].status = status, ![j].stage = stage, ![j].failed = @ + n] = new
    OBVIOUS
  <1> QED
    BY <1>3, <1>4 DEF Finished, TypeOK, n

LEMMA UnlockedType ==
  ASSUME TypeOK, NEW w \in Workers
  PROVE  /\ BatchUnlocked(w) \in [Batches -> Workers \cup {NoWorker}]
         /\ KeyUnlocked(w) \in [Keys -> Workers \cup {NoWorker}]
  BY DEF TypeOK, BatchUnlocked, KeyUnlocked

LEMMA InitType == Init => TypeOK
  <1> SUFFICES ASSUME Init PROVE TypeOK
    OBVIOUS
  <1>1. IdleRun \in Locals
    BY AnyRequestIsOne DEF IdleRun, FreshRun, Locals, Steps, Stages, Kinds, Causes
  <1> QED
    BY <1>1, NoRowType, JobsAssumption DEF Init, TypeOK

(***************************************************************************)
(* One step per action; each names what the action puts in run, row, the   *)
(* locks and faults.                                                       *)
(***************************************************************************)
LEMMA StepType == TypeOK /\ [Next]_vars => TypeOK'
  <1> SUFFICES ASSUME TypeOK, [Next]_vars PROVE TypeOK'
    OBVIOUS
  <1> USE DEF TypeOK
  <1>0. CASE UNCHANGED vars
    BY <1>0 DEF vars
  <1>1. ASSUME NEW w \in Workers, Submit(w) PROVE TypeOK'
    BY <1>1, FreshRunType DEF Submit
  <1>2. ASSUME NEW w \in Workers, AcquireLease(w) PROVE TypeOK'
    <2>1. run' \in [Workers -> Locals]
      BY <1>2, PcType, Names DEF AcquireLease
    <2> QED
      BY <1>2, <2>1 DEF AcquireLease
  <1>3. ASSUME NEW w \in Workers, StartLocksKey(w) PROVE TypeOK'
    <2>1. run' \in [Workers -> Locals]
      BY <1>3, PcType, Names DEF StartLocksKey
    <2> QED
      BY <1>3, <2>1 DEF StartLocksKey
  <1>4. ASSUME NEW w \in Workers, AcquireFails(w) PROVE TypeOK'
    BY <1>4, RefusedType, Names DEF AcquireFails
  <1>5. ASSUME NEW w \in Workers, StartSelects(w) PROVE TypeOK'
    <2>1. run' \in [Workers -> Locals]
      BY <1>5, PcType, PcCauseType, Names DEF StartSelects
    <2> QED
      BY <1>5, <2>1, UnlockedType DEF StartSelects
  <1>6. ASSUME NEW w \in Workers, StartInserts(w) PROVE TypeOK'
    <2>1. NewRow(w) \in Rows
      BY NoRowType DEF NewRow, Rows, Locals
    <2>2. row' \in [Jobs -> Rows]
      BY <1>6, <2>1, OneRow DEF StartInserts
    <2>3. run' \in [Workers -> Locals] /\ faults' \in Nat
      <3>1. ASSUME NEW j \in Jobs,
                   run' = [run EXCEPT ![w].pc = "loop", ![w].job = j]
            PROVE  run' \in [Workers -> Locals]
        <4>1. [run[w] EXCEPT !.pc = "loop", !.job = j] \in Locals
          BY Names DEF Locals
        <4>2. run' = [run EXCEPT ![w] = [run[w] EXCEPT !.pc = "loop", !.job = j]]
          BY <3>1
        <4> QED
          BY <4>1, <4>2, OneRun
      <3>2. CASE Active(run[w].req.key) = {}
        BY <1>6, <3>1, <3>2, LostType, Names DEF StartInserts
      <3>3. CASE Active(run[w].req.key) # {}
        BY <1>6, <3>3, PcCauseType, Names DEF StartInserts
      <3> QED
        BY <3>2, <3>3
    <2> QED
      BY <1>6, <2>2, <2>3, UnlockedType DEF StartInserts
  <1>7. ASSUME NEW w \in Workers, StartFails(w) PROVE TypeOK'
    BY <1>7, RefusedType, UnlockedType, Names DEF StartFails
  <1>8. ASSUME NEW w \in Workers, NextEvent(w) PROVE TypeOK'
    <2>1. PICK k \in {"upsert", "delete"} :
            run' = [run EXCEPT ![w].pc = "stage", ![w].kind = k]
      BY <1>8 DEF NextEvent
    <2>2. k \in Kinds
      BY Names
    <2>3. run' \in [Workers -> Locals]
      BY <2>1, <2>2, PcKindType, Names
    <2> QED
      BY <1>8, <2>3 DEF NextEvent
  <1>9. ASSUME NEW w \in Workers, EventFails(w) PROVE TypeOK'
    <2>1. PICK s \in {"batch", run[w].at} :
            run' = [run EXCEPT ![w].pc = "fail", ![w].cause = "source", ![w].at = s]
      BY <1>9 DEF EventFails
    <2>2. s \in Stages
      BY Names DEF Locals
    <2>3. run' \in [Workers -> Locals]
      BY <2>1, <2>2, PcCauseAtType, Names
    <2> QED
      BY <1>9, <2>3 DEF EventFails
  <1>10. ASSUME NEW w \in Workers, EventsEnd(w) PROVE TypeOK'
    <2>1. run' \in [Workers -> Locals]
      BY <1>10, PcType, Names DEF EventsEnd
    <2> QED
      BY <1>10, <2>1 DEF EventsEnd
  <1>11. ASSUME NEW w \in Workers, Interrupted(w) PROVE TypeOK'
    <2>1. run' \in [Workers -> Locals]
      BY <1>11, PcCauseType, Names DEF Interrupted
    <2> QED
      BY <1>11, <2>1 DEF Interrupted
  <1>12. ASSUME NEW w \in Workers, SetStage(w) PROVE TypeOK'
    <2> DEFINE next == NextStage(run[w].kind, run[w].at)
               j == run[w].job
               r == [row[j] EXCEPT !.stage = next]
    <2>1. next \in Stages
      BY NextStageType
    <2> HIDE DEF next
    <2>2. j \in Jobs => r \in Rows
      BY <2>1 DEF Rows
    <2>3. ASSUME run' = [run EXCEPT ![w].pc = "write", ![w].at = next]
          PROVE  run' \in [Workers -> Locals]
      <3>1. [run[w] EXCEPT !.pc = "write", !.at = next] \in Locals
        BY <2>1, Names DEF Locals
      <3>2. run' = [run EXCEPT ![w] = [run[w] EXCEPT !.pc = "write", !.at = next]]
        BY <2>3
      <3> QED
        BY <3>1, <3>2, OneRun
    <2>4. ASSUME row' = [row EXCEPT ![j].stage = next]
          PROVE  row' \in [Jobs -> Rows]
      <3>1. row' = [row EXCEPT ![j] = r]
        BY <2>4
      <3> QED
        BY <2>2, <3>1, OneRow
    <2>5. run' \in [Workers -> Locals]
      <3>1. CASE run' = [run EXCEPT ![w].pc = "write", ![w].at = next]
        BY <2>3, <3>1
      <3>2. CASE run' = [run EXCEPT ![w].pc = "fail", ![w].cause = "db", ![w].at = next]
        BY <2>1, <3>2, PcCauseAtType, Names
      <3>3. CASE run' = [run EXCEPT ![w].pc = "fail", ![w].cause = "cancelled"]
        BY <3>3, PcCauseType, Names
      <3>4. CASE run' = [run EXCEPT ![w].pc = "fail", ![w].cause = "cancelled",
                                    ![w].at = next, ![w].ctx = "cancelled"]
        <4>1. [run[w] EXCEPT !.pc = "fail", !.cause = "cancelled", !.at = next,
                             !.ctx = "cancelled"] \in Locals
          BY <2>1, Names DEF Locals
        <4>2. run' = [run EXCEPT ![w] = [run[w] EXCEPT !.pc = "fail", !.cause = "cancelled",
                                                       !.at = next, !.ctx = "cancelled"]]
          BY <3>4
        <4> QED
          BY <4>1, <4>2, OneRun
      <3> QED
        BY <1>12, <3>1, <3>2, <3>3, <3>4 DEF SetStage, next
    <2>6. row' \in [Jobs -> Rows]
      BY <1>12, <2>4 DEF SetStage, next
    <2> QED
      BY <1>12, <2>5, <2>6 DEF SetStage, Fault
  <1>13. ASSUME NEW w \in Workers, PersistRaw(w) PROVE TypeOK'
    <2> DEFINE j == run[w].job
               r == [row[j] EXCEPT !.raw = @ + 1]
    <2>1. j \in Jobs => r \in Rows
      BY DEF Rows
    <2>2. row' = [row EXCEPT ![j] = r]
      BY <1>13 DEF PersistRaw, Counted
    <2>3. run' \in [Workers -> Locals] /\ faults' \in Nat
      BY <1>13, PcType, LostType, Names DEF PersistRaw, Counted
    <2> QED
      BY <1>13, <2>1, <2>2, <2>3, OneRow DEF PersistRaw
  <1>14. ASSUME NEW w \in Workers, Normalize(w) PROVE TypeOK'
    <2>1. run' \in [Workers -> Locals] /\ faults' \in Nat
      BY <1>14, PcType, LostType, Names DEF Normalize, Counted
    <2> QED
      BY <1>14, <2>1 DEF Normalize, Counted
  <1>15. ASSUME NEW w \in Workers, EvaluatePolicy(w) PROVE TypeOK'
    <2>1. run' \in [Workers -> Locals]
      BY <1>15, PcKindType, PcCauseType, Names DEF EvaluatePolicy
    <2> QED
      BY <1>15, <2>1 DEF EvaluatePolicy
  <1>16. ASSUME NEW w \in Workers, Settle(w) PROVE TypeOK'
    <2> DEFINE j == run[w].job
               r == [row[j] EXCEPT !.settled = @ + 1]
               p == IF run[w].kind = "upsert" THEN "hooks" ELSE "loop"
               l == [run[w] EXCEPT !.pc = p, !.done = @ + 1]
    <2>1. j \in Jobs => r \in Rows
      BY DEF Rows
    <2>2. row' = [row EXCEPT ![j] = r]
      BY <1>16 DEF Settle
    <2>3. p \in Steps
      BY Names
    <2> HIDE DEF p
    <2>4. l \in Locals
      <3>1. run[w].done + 1 \in Nat
        BY DEF Locals
      <3> QED
        BY <2>3, <3>1 DEF Locals
    <2>5. ASSUME run' = [run EXCEPT ![w].pc = p, ![w].done = @ + 1]
          PROVE  run' \in [Workers -> Locals]
      <3>1. run' = [run EXCEPT ![w] = l]
        BY <2>5
      <3> QED
        BY <2>4, <3>1, OneRun
    <2>6. run' \in [Workers -> Locals] /\ faults' \in Nat
      BY <1>16, <2>5, LostType, Names DEF Settle, p
    <2> QED
      BY <1>16, <2>1, <2>2, <2>6, OneRow DEF Settle
  <1>17. ASSUME NEW w \in Workers, WriteFails(w) PROVE TypeOK'
    BY <1>17, RefusedType, Names DEF WriteFails
  <1>18. ASSUME NEW w \in Workers, RunHooks(w) PROVE TypeOK'
    <2>1. PICK broken \in {FALSE, HasHooks} :
            run' = [run EXCEPT ![w].pc = "loop", ![w].side = @ \/ broken]
      BY <1>18 DEF RunHooks
    <2>2. [run[w] EXCEPT !.pc = "loop", !.side = @ \/ broken] \in Locals
      BY Names DEF Locals
    <2>3. run' = [run EXCEPT ![w] = [run[w] EXCEPT !.pc = "loop", !.side = @ \/ broken]]
      BY <2>1
    <2>4. run' \in [Workers -> Locals]
      BY <2>2, <2>3, OneRun
    <2> QED
      BY <1>18, <2>4 DEF RunHooks
  <1>19. ASSUME NEW w \in Workers, Complete(w) PROVE TypeOK'
    <2>1. Finished(run[w].job, "succeeded", run[w].at) \in [Jobs -> Rows]
      BY FinishedType DEF Terminal, Locals
    <2>2. run' \in [Workers -> Locals] /\ faults' \in Nat
      BY <1>19, PcType, LostType, RefusedType, Names DEF Complete
    <2> QED
      BY <1>19, <2>1, <2>2 DEF Complete
  <1>20. ASSUME NEW w \in Workers, FinishFailure(w) PROVE TypeOK'
    <2>1. Finished(run[w].job, TerminalFor(run[w].cause), run[w].at) \in [Jobs -> Rows]
      BY FinishedType DEF Terminal, TerminalFor, Locals
    <2>2. run' \in [Workers -> Locals]
      BY <1>20, PcType, Names DEF FinishFailure
    <2> QED
      BY <1>20, <2>1, <2>2 DEF FinishFailure, Fault
  <1>21. ASSUME NEW w \in Workers, Release(w) PROVE TypeOK'
    <2> DEFINE l == [run[w] EXCEPT !.pc = "returned", !.at = "batch",
                                   !.kind = "upsert", !.ctx = "live"]
    <2>1. l \in Locals
      BY Names DEF Locals
    <2>2. run' = [run EXCEPT ![w] = l]
      BY <1>21 DEF Release
    <2>3. run' \in [Workers -> Locals]
      BY <2>1, <2>2, OneRun
    <2> QED
      BY <1>21, <2>3, UnlockedType DEF Release
  <1>22. ASSUME NEW w \in Workers, Cancel(w) PROVE TypeOK'
    BY <1>22 DEF Cancel, Locals
  <1>23. ASSUME NEW w \in Workers, Crash(w) PROVE TypeOK'
    <2>1. [FreshRun(run[w].req) EXCEPT !.pc = "crashed"] \in Locals
      BY FreshRunType, Names DEF Locals
    <2>2. run' \in [Workers -> Locals]
      BY <1>23, <2>1, OneRun DEF Crash
    <2> QED
      BY <1>23, <2>2, UnlockedType DEF Crash, Fault
  <1>24. ASSUME NEW w \in Workers, LeaseDrops(w) PROVE TypeOK'
    <2>1. [run[w] EXCEPT !.dropped = TRUE] \in Locals
      BY DEF Locals
    <2>2. run' = [run EXCEPT ![w] = [run[w] EXCEPT !.dropped = TRUE]]
      BY <1>24 DEF LeaseDrops
    <2>3. run' \in [Workers -> Locals]
      BY <2>1, <2>2, OneRun
    <2> QED
      BY <1>24, <2>3, UnlockedType DEF LeaseDrops, Fault
  <1> QED
    BY <1>0, <1>1, <1>2, <1>3, <1>4, <1>5, <1>6, <1>7, <1>8, <1>9, <1>10, <1>11,
       <1>12, <1>13, <1>14, <1>15, <1>16, <1>17, <1>18, <1>19, <1>20, <1>21,
       <1>22, <1>23, <1>24 DEF Next, Progress

\* Every variable stays in its domain, in every instance.
THEOREM TypeCorrect == Spec => []TypeOK
  <1> QED
    BY InitType, StepType, PTL DEF Spec


(***************************************************************************)
(* What the steps of a driver have in common, with a cancellation: they    *)
(* keep the worker's request, job and locks; only its own row changes, and *)
(* only while that is running.                                             *)
(***************************************************************************)
DriverStep(w) ==
  /\ \A v \in Workers : v # w => run'[v] = run[v]
  /\ run'[w].req = run[w].req
  /\ run'[w].job = run[w].job
  /\ run'[w].dropped = run[w].dropped
  /\ \/ run'[w].pc = run[w].pc /\ UNCHANGED row
     \/ /\ Driving(w)
        /\ run'[w].pc \in {"loop", "stage", "write", "hooks", "complete", "fail", "unlock"}
  /\ run'[w].cause = "unique" => run[w].cause = "unique"
  /\ UNCHANGED <<batchLock, keyLock>>
  /\ \A j \in Jobs :
       /\ row'[j].req = row[j].req
       /\ row'[j].status = row[j].status \/ row'[j].status \in Terminal
       /\ (j # run[w].job \/ row[j].status # "running") => row'[j] = row[j]
  /\ run'[w].pc \in {"loop", "stage", "write", "hooks", "complete"} =>
       /\ run[w].pc \in {"loop", "stage", "write", "hooks", "complete"}
       /\ run[w].job \in Jobs => row'[run[w].job].status = row[run[w].job].status

LEMMA DriverActions ==
  ASSUME IInv, NEW w \in Workers,
         \/ NextEvent(w) \/ EventFails(w) \/ EventsEnd(w) \/ Interrupted(w)
         \/ SetStage(w) \/ PersistRaw(w) \/ Normalize(w) \/ EvaluatePolicy(w)
         \/ Settle(w) \/ WriteFails(w) \/ RunHooks(w) \/ Complete(w)
         \/ FinishFailure(w) \/ Cancel(w)
  PROVE  DriverStep(w)
  <1>0. /\ TypeOK
        /\ run[w].pc \in {"loop", "stage", "write", "hooks", "complete"} =>
             run[w].job \in Jobs /\ row[run[w].job].status = "running"
    BY DEF IInv, DriversOwn, DriversRun, Driving
  <1> USE <1>0 DEF DriverStep, Driving, TypeOK
  <1>1. CASE NextEvent(w)
    BY <1>1 DEF NextEvent, Locals
  <1>2. CASE EventFails(w)
    BY <1>2 DEF EventFails, Locals
  <1>3. CASE EventsEnd(w)
    BY <1>3 DEF EventsEnd, Locals
  <1>4. CASE Interrupted(w)
    BY <1>4 DEF Interrupted, Locals
  <1>5. CASE SetStage(w)
    <2>1. \A j \in Jobs : row'[j].req = row[j].req /\ row'[j].status = row[j].status
      BY <1>5 DEF SetStage, Rows
    <2>2. \A v \in Workers : v # w => run'[v] = run[v]
      BY <1>5 DEF SetStage
    <2> QED
      BY <1>5, <2>1, <2>2 DEF SetStage, Locals
  <1>6. CASE PersistRaw(w)
    BY <1>6 DEF PersistRaw, Counted, Lost, Locals, Rows
  <1>7. CASE Normalize(w)
    BY <1>7 DEF Normalize, Counted, Lost, Locals
  <1>8. CASE EvaluatePolicy(w)
    BY <1>8 DEF EvaluatePolicy, Locals
  <1>9. CASE Settle(w)
    BY <1>9 DEF Settle, Lost, Locals, Rows
  <1>10. CASE WriteFails(w)
    BY <1>10 DEF WriteFails, Refused, Locals
  <1>11. CASE RunHooks(w)
    BY <1>11 DEF RunHooks, Locals
  <1>12. CASE Complete(w)
    BY <1>12 DEF Complete, Finished, Refused, Lost, Terminal, Locals, Rows
  <1>13. CASE FinishFailure(w)
    BY <1>13 DEF FinishFailure, Finished, TerminalFor, Terminal, Locals, Rows
  <1>14. CASE Cancel(w)
    BY <1>14 DEF Cancel, Locals
  <1> QED
    BY <1>1, <1>2, <1>3, <1>4, <1>5, <1>6, <1>7, <1>8, <1>9, <1>10, <1>11,
       <1>12, <1>13, <1>14

LEMMA DriverKeeps ==
  ASSUME IInv, TypeOK', NEW w \in Workers, DriverStep(w)
  PROVE  IInv'
  <1> USE DEF DriverStep, Driving
  <1>1. LeaseHeld'
    BY DEF IInv, LeaseHeld, Leased
  <1>2. \A k : Active(k)' \subseteq Active(k)
    BY DEF Active, ActiveStatuses, Terminal
  <1>3. KeyHeld'
    BY <1>2 DEF IInv, KeyHeld
  <1>4. DriversOwn'
    BY DEF IInv, DriversOwn, Used, Terminal
  <1>5. DriversDiffer'
    BY DEF IInv, DriversDiffer
  <1>6. DriversRun'
    BY DEF IInv, DriversOwn, DriversRun, DriversDiffer
  <1>7. OneActiveJobPerKey'
    BY DEF IInv, OneActiveJobPerKey, Terminal
  <1>8. DuplicateReportedAsConflict'
    BY DEF IInv, DuplicateReportedAsConflict
  <1> QED
    BY <1>1, <1>3, <1>4, <1>5, <1>6, <1>7, <1>8 DEF IInv

\* The INSERT: a fresh row, driven by nobody, under a key that the worker
\* holds and that no active row has.
LEMMA StartInsertsKeeps ==
  ASSUME IInv, TypeOK', NEW w \in Workers, StartInserts(w)
  PROVE  IInv'
  <1> DEFINE k == run[w].req.key
  <1>1. TypeOK
    BY DEF IInv
  <1>2. run[w].pc = "insert" /\ keyLock[k] = w /\ Active(k) = {}
    BY DEF StartInserts, IInv, KeyHeld
  <1>3. PICK i \in Jobs :
          /\ ~Used(i)
          /\ row' = [row EXCEPT ![i] = NewRow(w)]
          /\ \/ run' = [run EXCEPT ![w].pc = "loop", ![w].job = i]
             \/ Lost(w, "unlock")
    BY <1>2 DEF StartInserts
  <1>4. /\ row'[i].status = "running"
        /\ row'[i].req = run[w].req
        /\ \A j \in Jobs : j # i => row'[j] = row[j]
    BY <1>1, <1>3 DEF NewRow, NoRow, TypeOK
  <1>5. /\ run'[w].req = run[w].req /\ run'[w].dropped = run[w].dropped
        /\ \/ run'[w].pc = "loop" /\ run'[w].job = i
           \/ run'[w].pc = "unlock"
        /\ run'[w].cause = "unique" => run[w].cause = "unique"
        /\ \A v \in Workers : v # w => run'[v] = run[v]
    BY <1>1, <1>3 DEF Lost, TypeOK, Locals
  <1>6. UNCHANGED batchLock /\ keyLock' = KeyUnlocked(w)
    BY DEF StartInserts
  <1>7. LeaseHeld'
    BY <1>2, <1>5, <1>6 DEF IInv, LeaseHeld, Leased
  <1>8. KeyHeld'
    <2>1. ASSUME NEW v \in Workers, run'[v].pc \in {"select", "insert"}
          PROVE  v # w /\ run'[v] = run[v] /\ keyLock[run[v].req.key] = v
      BY <1>5, <2>1 DEF IInv, KeyHeld
    <2>2. ASSUME NEW v \in Workers, run'[v].pc \in {"select", "insert"}
          PROVE  keyLock'[run'[v].req.key] = v /\ run[v].req.key # k
      <3>1. run[v].req.key \in Keys
        BY <1>1, KeysAndBatches DEF TypeOK, Locals
      <3> QED
        BY <1>1, <1>2, <1>6, <2>1, <2>2, <3>1 DEF KeyUnlocked, TypeOK
    <2>3. ASSUME NEW v \in Workers, run'[v].pc = "insert"
          PROVE  Active(run[v].req.key)' = {}
      <3>1. Active(run[v].req.key) = {}
        BY <2>1, <2>3 DEF IInv, KeyHeld
      <3> QED
        BY <1>4, <2>1, <2>2, <2>3, <3>1 DEF Active
    <2> QED
      BY <2>1, <2>2, <2>3 DEF KeyHeld, Active
  <1>9. ASSUME NEW v \in Workers, Driving(v)
        PROVE  run[v].job # i
    BY <1>3, <1>9 DEF IInv, DriversOwn
  <1>10. DriversOwn'
    BY <1>4, <1>5, <1>9 DEF IInv, DriversOwn, Driving, Used
  <1>11. DriversDiffer'
    BY <1>5, <1>9 DEF IInv, DriversDiffer, Driving
  <1>12. DriversRun'
    BY <1>4, <1>5, <1>9 DEF IInv, DriversOwn, DriversRun, Driving
  <1>13. OneActiveJobPerKey'
    <2>1. \A j \in Jobs : row[j].status = "running" => row[j].req.key # k
      BY <1>2 DEF Active, ActiveStatuses
    <2> QED
      BY <1>4, <2>1 DEF IInv, OneActiveJobPerKey
  <1>14. DuplicateReportedAsConflict'
    BY <1>5 DEF IInv, DuplicateReportedAsConflict
  <1> QED
    BY <1>7, <1>8, <1>10, <1>11, <1>12, <1>13, <1>14 DEF IInv

(***************************************************************************)
(* The invariant is inductive: the steps that take and give locks, and the *)
(* steps of Start, one by one; the others by DriverKeeps.                  *)
(***************************************************************************)
LEMMA InitInv == Init => IInv
  <1> SUFFICES ASSUME Init PROVE IInv
    OBVIOUS
  <1>1. \A w \in Workers : run[w].pc = "idle" /\ run[w].cause = "none"
    BY DEF Init, IdleRun, FreshRun
  <1>2. \A j \in Jobs : row[j].status = "none"
    BY DEF Init, NoRow
  <1> QED
    BY <1>1, <1>2, InitType
    DEF IInv, LeaseHeld, Leased, KeyHeld, DriversOwn, DriversDiffer, DriversRun, Driving,
        OneActiveJobPerKey, DuplicateReportedAsConflict

LEMMA StepInv == IInv /\ [Next]_vars => IInv'
  <1> SUFFICES ASSUME IInv, [Next]_vars PROVE IInv'
    OBVIOUS
  <1>0. TypeOK /\ TypeOK'
    BY StepType DEF IInv
  <1> USE DEF IInv
  <1>1. CASE UNCHANGED vars
    BY <1>0, <1>1 DEF vars, LeaseHeld, KeyHeld, Active, DriversOwn, DriversDiffer,
      DriversRun, Driving, Used, OneActiveJobPerKey, DuplicateReportedAsConflict
  <1>2. ASSUME NEW w \in Workers, Submit(w) PROVE IInv'
    <2>1. /\ run'[w].pc = "acquire" /\ run'[w].cause = "none"
          /\ \A v \in Workers : v # w => run'[v] = run[v]
          /\ UNCHANGED <<row, batchLock, keyLock>>
      BY <1>0, <1>2 DEF Submit, FreshRun, TypeOK
    <2> QED
      BY <1>0, <2>1 DEF LeaseHeld, Leased, KeyHeld, Active, DriversOwn, DriversDiffer,
        DriversRun, Driving, Used, OneActiveJobPerKey, DuplicateReportedAsConflict
  <1>3. ASSUME NEW w \in Workers, AcquireLease(w) PROVE IInv'
    <2> DEFINE b == run[w].req.batch
    <2>1. /\ run'[w].pc = "start"
          /\ run'[w].req = run[w].req /\ run'[w].cause = run[w].cause
          /\ \A v \in Workers : v # w => run'[v] = run[v]
          /\ UNCHANGED <<row, keyLock>>
      BY <1>0, <1>3 DEF AcquireLease, TypeOK, Locals
    <2>2. b \in Batches
      BY <1>0, KeysAndBatches DEF TypeOK, Locals
    <2>3. /\ batchLock[b] = NoWorker
          /\ batchLock'[b] = w
          /\ \A c \in Batches : c # b => batchLock'[c] = batchLock[c]
      BY <1>0, <1>3, <2>2 DEF AcquireLease, TypeOK
    <2>4. LeaseHeld'
      <3> SUFFICES ASSUME NEW v \in Workers, run'[v].pc \in Leased, ~run'[v].dropped
                   PROVE  batchLock'[run'[v].req.batch] = v
        BY DEF LeaseHeld
      <3>1. CASE v = w
        BY <2>1, <2>3, <3>1
      <3>2. CASE v # w
        <4>1. run[v].req.batch \in Batches
          BY <1>0, KeysAndBatches DEF TypeOK, Locals
        <4> QED
          BY <2>1, <2>3, <3>2, <4>1, JobsAssumption DEF LeaseHeld
      <3> QED
        BY <3>1, <3>2
    <2> QED
      BY <1>0, <2>1, <2>4 DEF KeyHeld, Active, DriversOwn, DriversDiffer,
        DriversRun, Driving, Used, OneActiveJobPerKey, DuplicateReportedAsConflict
  <1>4. ASSUME NEW w \in Workers, AcquireFails(w) PROVE IInv'
    <2>1. /\ run'[w].pc = "returned" /\ run'[w].cause # "unique"
          /\ \A v \in Workers : v # w => run'[v] = run[v]
          /\ UNCHANGED <<row, batchLock, keyLock>>
      BY <1>0, <1>4 DEF AcquireFails, Refused, TypeOK, Locals
    <2> QED
      BY <1>0, <2>1 DEF LeaseHeld, Leased, KeyHeld, Active, DriversOwn, DriversDiffer,
        DriversRun, Driving, Used, OneActiveJobPerKey, DuplicateReportedAsConflict
  <1>5. ASSUME NEW w \in Workers, StartLocksKey(w) PROVE IInv'
    <2> DEFINE k == run[w].req.key
    <2>1. /\ run[w].pc = "start" /\ run'[w].pc = "select"
          /\ run'[w].req = run[w].req /\ run'[w].cause = run[w].cause
          /\ run'[w].dropped = run[w].dropped
          /\ \A v \in Workers : v # w => run'[v] = run[v]
          /\ UNCHANGED <<row, batchLock>>
      BY <1>0, <1>5 DEF StartLocksKey, TypeOK, Locals
    <2>2. k \in Keys
      BY <1>0, KeysAndBatches DEF TypeOK, Locals
    <2>3. /\ keyLock[k] = NoWorker
          /\ keyLock'[k] = w
          /\ \A c \in Keys : c # k => keyLock'[c] = keyLock[c]
      BY <1>0, <1>5, <2>2 DEF StartLocksKey, TypeOK
    <2>4. KeyHeld'
      <3>1. ASSUME NEW v \in Workers, run'[v].pc \in {"select", "insert"}
            PROVE  keyLock'[run'[v].req.key] = v
        <4>1. CASE v = w
          BY <2>1, <2>3, <4>1
        <4>2. CASE v # w
          <5>1. run[v].req.key \in Keys
            BY <1>0, KeysAndBatches DEF TypeOK, Locals
          <5> QED
            BY <2>1, <2>3, <3>1, <4>2, <5>1, JobsAssumption DEF KeyHeld
        <4> QED
          BY <4>1, <4>2
      <3>2. \A v \in Workers : run'[v].pc = "insert" => run'[v] = run[v]
        BY <2>1
      <3> QED
        BY <2>1, <3>1, <3>2 DEF KeyHeld, Active
    <2> QED
      BY <1>0, <2>1, <2>4 DEF LeaseHeld, Leased, DriversOwn, DriversDiffer,
        DriversRun, Driving, Used, OneActiveJobPerKey, DuplicateReportedAsConflict
  <1>6. ASSUME NEW w \in Workers, StartSelects(w) PROVE IInv'
    <2>1. /\ run[w].pc = "select"
          /\ run'[w].req = run[w].req /\ run'[w].dropped = run[w].dropped
          /\ \/ run'[w].pc = "insert" /\ Active(run[w].req.key) = {} /\ UNCHANGED keyLock
             \/ run'[w].pc = "unlock" /\ keyLock' = KeyUnlocked(w)
          /\ run'[w].cause = "unique" => run[w].cause = "unique"
          /\ \A v \in Workers : v # w => run'[v] = run[v]
          /\ UNCHANGED <<row, batchLock>>
      BY <1>0, <1>6 DEF StartSelects, TypeOK, Locals
    <2>2. \A v \in Workers : v # w =>
            (keyLock[run[v].req.key] = v => keyLock'[run[v].req.key] = v)
      BY <1>0, <2>1, KeysAndBatches DEF KeyUnlocked, TypeOK, Locals
    <2>3. KeyHeld'
      BY <2>1, <2>2 DEF KeyHeld, Active
    <2> QED
      BY <1>0, <2>1, <2>3 DEF LeaseHeld, Leased, DriversOwn, DriversDiffer,
        DriversRun, Driving, Used, OneActiveJobPerKey, DuplicateReportedAsConflict
  <1>7. ASSUME NEW w \in Workers, StartFails(w) PROVE IInv'
    <2>1. /\ run[w].pc \in {"start", "select", "insert"} /\ run'[w].pc = "unlock"
          /\ run'[w].req = run[w].req /\ run'[w].dropped = run[w].dropped
          /\ run'[w].cause # "unique"
          /\ \A v \in Workers : v # w => run'[v] = run[v]
          /\ UNCHANGED <<row, batchLock>>
      BY <1>0, <1>7 DEF StartFails, Refused, TypeOK, Locals
    <2>2. \A v \in Workers : v # w =>
            (keyLock[run[v].req.key] = v => keyLock'[run[v].req.key] = v)
      BY <1>0, <1>7, KeysAndBatches DEF StartFails, KeyUnlocked, TypeOK, Locals
    <2>3. KeyHeld'
      BY <2>1, <2>2 DEF KeyHeld, Active
    <2> QED
      BY <1>0, <2>1, <2>3 DEF LeaseHeld, Leased, DriversOwn, DriversDiffer,
        DriversRun, Driving, Used, OneActiveJobPerKey, DuplicateReportedAsConflict
  <1>8. ASSUME NEW w \in Workers, StartInserts(w) PROVE IInv'
    BY <1>0, <1>8, StartInsertsKeeps
  <1>9. ASSUME NEW w \in Workers, Release(w) PROVE IInv'
    <2>1. /\ run'[w].pc = "returned" /\ run'[w].cause = run[w].cause
          /\ \A v \in Workers : v # w => run'[v] = run[v]
          /\ UNCHANGED <<row, keyLock>>
      BY <1>0, <1>9 DEF Release, TypeOK, Locals
    <2>2. \A v \in Workers : v # w =>
            (batchLock[run[v].req.batch] = v => batchLock'[run[v].req.batch] = v)
      BY <1>0, <1>9, KeysAndBatches DEF Release, BatchUnlocked, TypeOK, Locals
    <2> QED
      BY <1>0, <2>1, <2>2 DEF LeaseHeld, Leased, KeyHeld, Active, DriversOwn, DriversDiffer,
        DriversRun, Driving, Used, OneActiveJobPerKey, DuplicateReportedAsConflict
  <1>10. ASSUME NEW w \in Workers, Crash(w) PROVE IInv'
    <2>1. /\ run'[w].pc = "crashed" /\ run'[w].cause = "none"
          /\ \A v \in Workers : v # w => run'[v] = run[v]
          /\ UNCHANGED row
      BY <1>0, <1>10 DEF Crash, FreshRun, TypeOK
    <2>2. \A v \in Workers : v # w =>
            /\ batchLock[run[v].req.batch] = v => batchLock'[run[v].req.batch] = v
            /\ keyLock[run[v].req.key] = v => keyLock'[run[v].req.key] = v
      BY <1>0, <1>10, KeysAndBatches DEF Crash, BatchUnlocked, KeyUnlocked, TypeOK, Locals
    <2> QED
      BY <1>0, <2>1, <2>2 DEF LeaseHeld, Leased, KeyHeld, Active, DriversOwn, DriversDiffer,
        DriversRun, Driving, Used, OneActiveJobPerKey, DuplicateReportedAsConflict
  <1>11. ASSUME NEW w \in Workers, LeaseDrops(w) PROVE IInv'
    <2>1. run'[w] = [run[w] EXCEPT !.dropped = TRUE]
      BY <1>0, <1>11 DEF LeaseDrops, TypeOK
    <2>2. /\ run'[w].pc = run[w].pc /\ run'[w].req = run[w].req
          /\ run'[w].job = run[w].job /\ run'[w].cause = run[w].cause
          /\ run'[w].dropped = TRUE
      BY <1>0, <2>1 DEF TypeOK, Locals
    <2>3. /\ \A v \in Workers : v # w => run'[v] = run[v]
          /\ UNCHANGED <<row, keyLock>>
      BY <1>0, <1>11 DEF LeaseDrops, TypeOK
    <2>4. \A v \in Workers : v # w =>
            (batchLock[run[v].req.batch] = v => batchLock'[run[v].req.batch] = v)
      BY <1>0, <1>11, KeysAndBatches DEF LeaseDrops, BatchUnlocked, TypeOK, Locals
    <2>5. LeaseHeld'
      BY <2>2, <2>3, <2>4 DEF LeaseHeld
    <2>6. KeyHeld'
      BY <2>2, <2>3 DEF KeyHeld, Active
    <2> QED
      BY <1>0, <2>2, <2>3, <2>5, <2>6 DEF DriversOwn, DriversDiffer, DriversRun, Driving, Used,
        OneActiveJobPerKey, DuplicateReportedAsConflict
  <1>12. ASSUME NEW w \in Workers, DriverStep(w) PROVE IInv'
    BY <1>0, <1>12, DriverKeeps
  <1> QED
    BY <1>0, <1>1, <1>2, <1>3, <1>4, <1>5, <1>6, <1>7, <1>8, <1>9, <1>10, <1>11,
       <1>12, DriverActions DEF Next, Progress

THEOREM Invariant == Spec => []IInv
  <1> QED
    BY InitInv, StepInv, PTL DEF Spec

\* Two active jobs never share an idempotency key (Start and the partial
\* unique index), for any number of workers, crashes and lost answers.
THEOREM ActiveKeysAreUnique == Spec => []OneActiveJobPerKey
  <1>1. IInv => OneActiveJobPerKey
    BY DEF IInv
  <1> QED
    BY <1>1, Invariant, PTL

\* A duplicate run meets the conflict Start reports, never the unique index.
THEOREM DuplicatesAreReported == Spec => []DuplicateReportedAsConflict
  <1>1. IInv => DuplicateReportedAsConflict
    BY DEF IInv
  <1> QED
    BY <1>1, Invariant, PTL

\* Run holds its lease until its job is finished.
THEOREM LeaseCovers == Spec => []LeaseCoversRunningJob
  <1>1. IInv => LeaseCoversRunningJob
    BY DEF IInv, LeaseHeld, Leased, LeaseCoversRunningJob, Driving
  <1> QED
    BY <1>1, Invariant, PTL

\* A job has one driver, and it drives the request it was asked for.
THEOREM DriverIsUnique == Spec => []OneDriverPerJob
  <1>1. IInv => OneDriverPerJob
    BY DEF IInv, DriversOwn, DriversDiffer, OneDriverPerJob
  <1> QED
    BY <1>1, Invariant, PTL

\* A finished job is frozen: a driver's counters, stages and last UPDATE reach
\* only a running row, and a new job takes a fresh one.
THEOREM FinishedJobsStay == Spec => FinishedJobsAreFrozen
  <1> DEFINE A == \A j \in Jobs : row[j].status \in Terminal => row'[j] = row[j]
  <1>1. IInv /\ [Next]_vars => [A]_vars
    <2> SUFFICES ASSUME IInv, Next, NEW j \in Jobs, row[j].status \in Terminal
                 PROVE  row'[j] = row[j]
      OBVIOUS
    <2>1. row[j].status # "running" /\ Used(j)
      BY DEF Terminal, Used
    <2>2. ASSUME NEW w \in Workers, DriverStep(w) PROVE row'[j] = row[j]
      BY <2>1, <2>2 DEF DriverStep
    <2>3. ASSUME NEW w \in Workers, StartInserts(w) PROVE row'[j] = row[j]
      BY <2>1, <2>3 DEF StartInserts, IInv, TypeOK
    <2>4. CASE UNCHANGED row
      BY <2>4
    <2> QED
      BY <2>2, <2>3, <2>4, DriverActions DEF Next, Progress, Submit, AcquireLease,
        StartLocksKey, AcquireFails, StartSelects, StartFails, Release, Crash, LeaseDrops
  <1> QED
    BY <1>1, Invariant, PTL DEF FinishedJobsAreFrozen, Spec

(***************************************************************************)
(* How far an event came is told twice: by the counters and the stage of   *)
(* the row, and by the locals of its driver.  The properties of rows alone *)
(* follow from how the two agree.                                          *)
(***************************************************************************)
\* Before its job is started, a run has settled nothing and is at no stage.
NothingDone(w) ==
  run[w].pc \in {"acquire", "start", "select", "insert"} =>
    run[w].done = 0 /\ run[w].at = "batch"

\* A driver between two events has settled what it counted; within an event
\* one snapshot is outstanding from the raw write to the settling one.
DriverTallies(w) ==
  LET r == row[run[w].job]
      s == run[w].at IN
  /\ run[w].pc \in {"loop", "hooks", "complete"} =>
       s \in {"batch", "project"} /\ r.raw = r.settled
  /\ run[w].pc = "stage" =>
       r.raw = IF s \in {"raw", "normalize", "policy"} THEN r.settled + 1 ELSE r.settled
  /\ run[w].pc = "write" =>
       /\ s # "batch"
       /\ r.stage = s
       /\ r.raw = IF s = "raw" THEN r.settled ELSE r.settled + 1
  /\ run[w].pc \in {"loop", "stage", "write", "hooks", "complete"} =>
       r.settled = run[w].done

\* A run that gives up says why, and the stage it would report fits the row,
\* unless the row is finished already (a Complete whose answer was lost).
FailureLocates(w) ==
  LET r == row[run[w].job]
      s == run[w].at IN
  run[w].pc = "fail" =>
    /\ run[w].cause # "none"
    /\ r.status = "running" =>
         /\ s \in {"normalize", "policy"} => r.raw = r.settled + 1
         /\ s = "batch" => r.raw = r.settled

\* From the answer of Complete on, a run without an error has a finished job.
SuccessReported(w) ==
  (run[w].pc \in {"unlock", "returned"} /\ run[w].cause = "none") =>
    /\ run[w].job \in Jobs
    /\ row[run[w].job].status = "succeeded"
    /\ row[run[w].job].settled = run[w].done

WorkerFits(w) ==
  NothingDone(w) /\ DriverTallies(w) /\ FailureLocates(w) /\ SuccessReported(w)

\* What CountersTrackEvents and StageLocatesProgress say of one row.
RowFits(j) ==
  /\ row[j].raw \in {row[j].settled, row[j].settled + 1}
  /\ row[j].status = "succeeded" => row[j].raw = row[j].settled
  /\ row[j].failed = IF row[j].status = "failed" THEN 1 ELSE 0
  /\ row[j].stage \in {"normalize", "policy"} => row[j].raw = row[j].settled + 1
  /\ row[j].stage = "batch" => row[j].raw = row[j].settled

ProgressInv ==
  /\ \A w \in Workers : WorkerFits(w)
  /\ \A j \in Jobs : RowFits(j)

\* A step of one driver is no business of the other workers and rows.
LEMMA OthersFit ==
  ASSUME IInv, ProgressInv, NEW w \in Workers, DriverStep(w), WorkerFits(w)',
         run[w].job \in Jobs => RowFits(run[w].job)'
  PROVE  ProgressInv'
  <1>1. ASSUME NEW v \in Workers, v # w PROVE WorkerFits(v)'
    <2>1. run'[v] = run[v]
      BY <1>1 DEF DriverStep
    <2>2. WorkerFits(v)
      BY DEF ProgressInv
    <2>3. ASSUME Driving(v) PROVE row'[run[v].job] = row[run[v].job]
      <3>1. run[v].job \in Jobs
        BY <2>3 DEF IInv, DriversOwn
      <3>2. Driving(w) => run[v].job # run[w].job
        BY <1>1, <2>3 DEF IInv, DriversDiffer
      <3> QED
        BY <3>1, <3>2 DEF DriverStep
    <2>4. ASSUME run[v].job \in Jobs, row[run[v].job].status = "succeeded"
          PROVE  row'[run[v].job] = row[run[v].job]
      BY <2>4 DEF DriverStep
    <2>5. NothingDone(v)'
      BY <2>1, <2>2 DEF WorkerFits, NothingDone
    <2>6. DriverTallies(v)'
      BY <2>1, <2>2, <2>3 DEF WorkerFits, DriverTallies, Driving
    <2>7. FailureLocates(v)'
      BY <2>1, <2>2, <2>3 DEF WorkerFits, FailureLocates, Driving
    <2>8. SuccessReported(v)'
      BY <2>1, <2>2, <2>4 DEF WorkerFits, SuccessReported
    <2> QED
      BY <2>5, <2>6, <2>7, <2>8 DEF WorkerFits
  <1>2. ASSUME NEW j \in Jobs, j # run[w].job PROVE RowFits(j)'
    <2>1. row'[j] = row[j] /\ RowFits(j)
      BY <1>2 DEF DriverStep, ProgressInv
    <2> QED
      BY <2>1 DEF RowFits
  <1>3. ASSUME NEW j \in Jobs, j = run[w].job PROVE RowFits(j)'
    BY <1>3 DEF DriverStep, RowFits
  <1> QED
    BY <1>1, <1>2, <1>3 DEF ProgressInv

\* Each step of a driver keeps its own locals and its own row in agreement.
LEMMA DriverFits ==
  ASSUME IInv, ProgressInv, NEW w \in Workers,
         \/ NextEvent(w) \/ EventFails(w) \/ EventsEnd(w) \/ Interrupted(w)
         \/ SetStage(w) \/ PersistRaw(w) \/ Normalize(w) \/ EvaluatePolicy(w)
         \/ Settle(w) \/ WriteFails(w) \/ RunHooks(w) \/ Complete(w)
         \/ FinishFailure(w) \/ Cancel(w)
  PROVE  WorkerFits(w)' /\ (run[w].job \in Jobs => RowFits(run[w].job)')
  <1> DEFINE j == run[w].job
  <1>1. /\ run \in [Workers -> Locals] /\ row \in [Jobs -> Rows]
        /\ run[w] \in Locals
        /\ j \in Jobs => row[j] \in Rows
    BY DEF IInv, TypeOK
  <1>2. /\ Driving(w) => j \in Jobs
        /\ run[w].pc \in {"loop", "stage", "write", "hooks", "complete"} =>
             row[j].status = "running"
    BY DEF IInv, DriversOwn, DriversRun
  <1>3. /\ NothingDone(w) /\ DriverTallies(w) /\ FailureLocates(w) /\ SuccessReported(w)
        /\ j \in Jobs => RowFits(j)
    BY DEF ProgressInv, WorkerFits
  <1>4. j \in Jobs => /\ row[j].raw \in Nat /\ row[j].settled \in Nat
                      /\ row[j].failed \in Nat
    BY <1>1 DEF Rows
  <1> USE DEF WorkerFits
  <1>5. CASE NextEvent(w)
    <2>1. /\ run[w].pc = "loop" /\ run'[w].pc = "stage"
          /\ run'[w].job = j /\ run'[w].at = run[w].at /\ run'[w].done = run[w].done
          /\ UNCHANGED row
      BY <1>1, <1>5 DEF NextEvent, Locals
    <2> QED
      BY <1>2, <1>3, <2>1 DEF NothingDone, DriverTallies, FailureLocates,
        SuccessReported, RowFits, Driving
  <1>6. CASE EventFails(w)
    <2>1. /\ run[w].pc = "loop" /\ run'[w].pc = "fail" /\ run'[w].cause = "source"
          /\ run'[w].job = j /\ run'[w].at \in {"batch", run[w].at}
          /\ UNCHANGED row
      BY <1>1, <1>6 DEF EventFails, Locals
    <2> QED
      BY <1>2, <1>3, <2>1 DEF NothingDone, DriverTallies, FailureLocates,
        SuccessReported, RowFits, Driving
  <1>7. CASE EventsEnd(w)
    <2>1. /\ run[w].pc = "loop" /\ run'[w].pc = "complete"
          /\ run'[w].job = j /\ run'[w].at = run[w].at /\ run'[w].done = run[w].done
          /\ UNCHANGED row
      BY <1>1, <1>7 DEF EventsEnd, Locals
    <2> QED
      BY <1>2, <1>3, <2>1 DEF NothingDone, DriverTallies, FailureLocates,
        SuccessReported, RowFits, Driving
  <1>8. CASE Interrupted(w)
    <2>1. /\ run[w].pc \in {"loop", "hooks"} /\ run'[w].pc = "fail"
          /\ run'[w].cause = "cancelled" /\ run'[w].job = j /\ run'[w].at = run[w].at
          /\ UNCHANGED row
      BY <1>1, <1>8 DEF Interrupted, Locals
    <2> QED
      BY <1>2, <1>3, <2>1 DEF NothingDone, DriverTallies, FailureLocates,
        SuccessReported, RowFits, Driving
  <1>9. CASE SetStage(w)
    <2> DEFINE next == NextStage(run[w].kind, run[w].at)
               s == run[w].at
    <2>1. /\ run[w].pc = "stage" /\ run'[w].job = j /\ run'[w].done = run[w].done
          /\ \/ /\ run'[w].pc = "write" /\ run'[w].at = next
                /\ row' = [row EXCEPT ![j].stage = next]
             \/ /\ run'[w].pc = "fail" /\ run'[w].at = next /\ run'[w].cause # "none"
                /\ row' \in {row, [row EXCEPT ![j].stage = next]}
             \/ /\ run'[w].pc = "fail" /\ run'[w].at = s /\ run'[w].cause = "cancelled"
                /\ row' = row
      BY <1>1, <1>9 DEF SetStage, Locals
    <2>2. /\ j \in Jobs
          /\ row[j].raw = IF s \in {"raw", "normalize", "policy"}
                          THEN row[j].settled + 1 ELSE row[j].settled
          /\ row[j].settled = run[w].done
      BY <1>2, <1>3, <2>1 DEF DriverTallies, Driving
    <2>3. /\ next \in {"raw", "normalize", "policy", "project"}
          /\ next = "raw" => s \notin {"raw", "normalize", "policy"}
          /\ next # "raw" => s \in {"raw", "normalize", "policy"}
      BY DEF NextStage
    <2> HIDE DEF next
    <2>4. /\ row'[j].raw = row[j].raw /\ row'[j].settled = row[j].settled
          /\ row'[j].failed = row[j].failed /\ row'[j].status = row[j].status
          /\ row'[j].stage \in {row[j].stage, next}
          /\ run'[w].pc = "write" => row'[j].stage = next
      BY <1>1, <2>1, <2>2 DEF Rows
    <2>5. next \in {"normalize", "policy"} => row[j].raw = row[j].settled + 1
      BY <2>2, <2>3
    <2>6. RowFits(j)'
      BY <1>3, <2>2, <2>3, <2>4, <2>5, <2>1 DEF RowFits
    <2>7. next = "raw" => row[j].raw = row[j].settled
      BY <2>2, <2>3
    <2>8. next # "raw" => row[j].raw = row[j].settled + 1
      BY <2>2, <2>3
    <2>9. DriverTallies(w)'
      BY <2>1, <2>2, <2>3, <2>4, <2>7, <2>8 DEF DriverTallies
    <2>10. FailureLocates(w)'
      BY <2>1, <2>2, <2>3, <2>4, <2>5 DEF FailureLocates
    <2> QED
      BY <2>1, <2>6, <2>9, <2>10 DEF NothingDone, SuccessReported
  <1>10. CASE PersistRaw(w)
    <2>1. /\ run[w].pc = "write" /\ run[w].at = "raw" /\ run'[w].job = j
          /\ run'[w].at = "raw" /\ run'[w].done = run[w].done
          /\ \/ run'[w].pc = "stage"
             \/ run'[w].pc = "fail" /\ run'[w].cause # "none"
          /\ row' = [row EXCEPT ![j].raw = @ + 1]
      BY <1>1, <1>10 DEF PersistRaw, Counted, Lost, Locals
    <2>2. /\ j \in Jobs /\ row[j].stage = "raw" /\ row[j].raw = row[j].settled
          /\ row[j].settled = run[w].done /\ row[j].status = "running"
      BY <1>2, <1>3, <2>1 DEF DriverTallies, Driving
    <2>3. /\ row'[j].raw = row[j].raw + 1 /\ row'[j].settled = row[j].settled
          /\ row'[j].failed = row[j].failed /\ row'[j].status = row[j].status
          /\ row'[j].stage = row[j].stage
      BY <1>1, <2>1, <2>2 DEF Rows
    <2>4. RowFits(j)'
      BY <1>3, <1>4, <2>1, <2>2, <2>3 DEF RowFits
    <2>5. DriverTallies(w)'
      BY <1>4, <2>1, <2>2, <2>3 DEF DriverTallies
    <2> QED
      BY <2>1, <2>4, <2>5 DEF NothingDone, FailureLocates, SuccessReported
  <1>11. CASE Normalize(w)
    <2>1. /\ run[w].pc = "write" /\ run[w].at = "normalize" /\ run'[w].job = j
          /\ run'[w].at = "normalize" /\ run'[w].done = run[w].done
          /\ \/ run'[w].pc = "stage"
             \/ run'[w].pc = "fail" /\ run'[w].cause # "none"
          /\ UNCHANGED row
      BY <1>1, <1>11 DEF Normalize, Counted, Lost, Locals
    <2>2. RowFits(j)'
      BY <1>2, <1>3, <2>1 DEF RowFits, Driving
    <2>3. DriverTallies(w)'
      BY <1>3, <2>1 DEF DriverTallies
    <2>4. FailureLocates(w)'
      BY <1>3, <2>1 DEF DriverTallies, FailureLocates
    <2> QED
      BY <2>1, <2>2, <2>3, <2>4 DEF NothingDone, SuccessReported
  <1>12. CASE EvaluatePolicy(w)
    <2>1. /\ run[w].pc = "write" /\ run[w].at = "policy" /\ run'[w].job = j
          /\ run'[w].at = "policy" /\ run'[w].done = run[w].done
          /\ \/ run'[w].pc = "stage"
             \/ run'[w].pc = "fail" /\ run'[w].cause # "none"
          /\ UNCHANGED row
      BY <1>1, <1>12 DEF EvaluatePolicy, Locals
    <2>2. RowFits(j)'
      BY <1>2, <1>3, <2>1 DEF RowFits, Driving
    <2>3. DriverTallies(w)'
      BY <1>3, <2>1 DEF DriverTallies
    <2>4. FailureLocates(w)'
      BY <1>3, <2>1 DEF DriverTallies, FailureLocates
    <2> QED
      BY <2>1, <2>2, <2>3, <2>4 DEF NothingDone, SuccessReported
  <1>13. CASE Settle(w)
    <2>1. /\ run[w].pc = "write" /\ run[w].at = "project" /\ run'[w].job = j
          /\ run'[w].at = "project"
          /\ \/ run'[w].pc \in {"loop", "hooks"} /\ run'[w].done = run[w].done + 1
             \/ run'[w].pc = "fail" /\ run'[w].cause # "none"
          /\ row' = [row EXCEPT ![j].settled = @ + 1]
      BY <1>1, <1>13 DEF Settle, Lost, Locals
    <2>2. /\ j \in Jobs /\ row[j].stage = "project" /\ row[j].raw = row[j].settled + 1
          /\ row[j].settled = run[w].done /\ row[j].status = "running"
      BY <1>2, <1>3, <2>1 DEF DriverTallies, Driving
    <2>3. /\ row'[j].raw = row[j].raw /\ row'[j].settled = row[j].settled + 1
          /\ row'[j].failed = row[j].failed /\ row'[j].status = row[j].status
          /\ row'[j].stage = row[j].stage
      BY <1>1, <2>1, <2>2 DEF Rows
    <2>4. RowFits(j)'
      BY <1>3, <1>4, <2>1, <2>2, <2>3 DEF RowFits
    <2>5. DriverTallies(w)'
      BY <1>4, <2>1, <2>2, <2>3 DEF DriverTallies
    <2> QED
      BY <2>1, <2>4, <2>5 DEF NothingDone, FailureLocates, SuccessReported
  <1>14. CASE WriteFails(w)
    <2>1. /\ run[w].pc = "write" /\ run'[w].pc = "fail" /\ run'[w].cause # "none"
          /\ run'[w].job = j /\ run'[w].at = run[w].at
          /\ UNCHANGED row
      BY <1>1, <1>14 DEF WriteFails, Refused, Locals
    <2>2. RowFits(j)'
      BY <1>2, <1>3, <2>1 DEF RowFits, Driving
    <2>3. FailureLocates(w)'
      BY <1>3, <2>1 DEF DriverTallies, FailureLocates
    <2> QED
      BY <2>1, <2>2, <2>3 DEF NothingDone, DriverTallies, SuccessReported
  <1>15. CASE RunHooks(w)
    <2>1. /\ run[w].pc = "hooks" /\ run'[w].pc = "loop"
          /\ run'[w].job = j /\ run'[w].at = run[w].at /\ run'[w].done = run[w].done
          /\ UNCHANGED row
      BY <1>1, <1>15 DEF RunHooks, Locals
    <2> QED
      BY <1>2, <1>3, <2>1 DEF NothingDone, DriverTallies, FailureLocates,
        SuccessReported, RowFits, Driving
  <1>16. CASE Complete(w)
    <2>1. /\ run[w].pc = "complete" /\ run'[w].job = j
          /\ run'[w].at = run[w].at /\ run'[w].done = run[w].done
          /\ \/ /\ run'[w].pc = "unlock"
                /\ row' = Finished(j, "succeeded", run[w].at)
             \/ /\ run'[w].pc = "fail" /\ run'[w].cause # "none"
                /\ row' \in {row, Finished(j, "succeeded", run[w].at)}
      BY <1>1, <1>16 DEF Complete, Refused, Lost, Locals
    <2>2. /\ j \in Jobs /\ row[j].raw = row[j].settled
          /\ row[j].settled = run[w].done /\ row[j].status = "running"
          /\ run[w].at \in {"batch", "project"}
      BY <1>2, <1>3, <2>1 DEF DriverTallies, Driving
    <2>3. /\ row'[j].raw = row[j].raw /\ row'[j].settled = row[j].settled
          /\ row'[j].failed = row[j].failed
          /\ \/ row'[j] = row[j]
             \/ row'[j].status = "succeeded" /\ row'[j].stage = run[w].at
          /\ run'[w].pc = "unlock" => row'[j].status = "succeeded"
      <3>1. CASE row' = row /\ run'[w].pc = "fail"
        BY <3>1
      <3>2. CASE row' = Finished(j, "succeeded", run[w].at)
        <4>1. row' = [row EXCEPT ![j].status = "succeeded", ![j].stage = run[w].at,
                                 ![j].failed = @ + 0]
          BY <2>2, <3>2 DEF Finished
        <4>2. row'[j] = [row[j] EXCEPT !.status = "succeeded", !.stage = run[w].at,
                                       !.failed = @ + 0]
          BY <1>1, <2>2, <4>1
        <4>3. row[j] \in Rows
          BY <1>1, <2>2
        <4>4. row'[j].failed = row[j].failed + 0
          BY <4>2, <4>3 DEF Rows
        <4> QED
          BY <1>4, <2>2, <4>2, <4>3, <4>4 DEF Rows
      <3> QED
        BY <2>1, <3>1, <3>2
    <2>4. RowFits(j)'
      BY <1>3, <1>4, <2>1, <2>2, <2>3 DEF RowFits
    <2>5. SuccessReported(w)'
      BY <2>1, <2>2, <2>3 DEF SuccessReported
    <2>6. FailureLocates(w)'
      BY <2>1, <2>2, <2>3 DEF FailureLocates
    <2> QED
      BY <2>1, <2>4, <2>5, <2>6 DEF NothingDone, DriverTallies
  <1>17. CASE FinishFailure(w)
    <2> DEFINE status == TerminalFor(run[w].cause)
               n == IF status = "failed" THEN 1 ELSE 0
    <2>1. /\ run[w].pc = "fail" /\ run'[w].pc = "unlock" /\ run'[w].job = j
          /\ run'[w].cause = run[w].cause
          /\ row' \in {row, Finished(j, status, run[w].at)}
      BY <1>1, <1>17 DEF FinishFailure, Locals
    <2>2. j \in Jobs /\ run[w].cause # "none"
      BY <1>2, <1>3, <2>1 DEF FailureLocates, Driving
    <2>3. status \in {"failed", "cancelled"} /\ n \in Nat
      BY DEF TerminalFor
    <2>4. n = IF status = "failed" THEN 1 ELSE 0
      OBVIOUS
    <2> HIDE DEF status, n
    <2>5. CASE row' = row
      BY <1>3, <2>1, <2>2, <2>5 DEF RowFits, NothingDone, DriverTallies, FailureLocates,
        SuccessReported
    <2>6. CASE row' # row
      <3>1. /\ row[j].status = "running"
            /\ row' = [row EXCEPT ![j].status = status, ![j].stage = run[w].at,
                                  ![j].failed = @ + n]
        BY <2>1, <2>4, <2>6 DEF Finished
      <3>2. row'[j] = [row[j] EXCEPT !.status = status, !.stage = run[w].at,
                                     !.failed = @ + n]
        BY <1>1, <2>2, <3>1
      <3>3. row[j] \in Rows
        BY <1>1, <2>2
      <3>4. /\ row'[j].raw = row[j].raw /\ row'[j].settled = row[j].settled
            /\ row'[j].failed = row[j].failed + n
            /\ row'[j].status = status /\ row'[j].stage = run[w].at
        BY <3>2, <3>3 DEF Rows
      <3>5. row[j].failed = 0
        BY <1>3, <2>2, <3>1 DEF RowFits
      <3>6. /\ run[w].at \in {"normalize", "policy"} => row[j].raw = row[j].settled + 1
            /\ run[w].at = "batch" => row[j].raw = row[j].settled
        BY <1>3, <2>1, <3>1 DEF FailureLocates
      <3>7. row'[j].failed = IF row'[j].status = "failed" THEN 1 ELSE 0
        BY <2>3, <2>4, <3>4, <3>5
      <3>8. RowFits(j)'
        BY <1>3, <1>4, <2>1, <2>2, <2>3, <3>4, <3>6, <3>7 DEF RowFits
      <3> QED
        BY <2>1, <2>2, <3>8 DEF NothingDone, DriverTallies, FailureLocates, SuccessReported
    <2> QED
      BY <2>5, <2>6
  <1>18. CASE Cancel(w)
    <2>1. /\ run'[w].pc = run[w].pc /\ run'[w].job = j /\ run'[w].at = run[w].at
          /\ run'[w].done = run[w].done /\ run'[w].cause = run[w].cause
          /\ UNCHANGED row
      BY <1>1, <1>18 DEF Cancel, Locals
    <2>2. j \in Jobs => RowFits(j)'
      BY <1>3, <2>1 DEF RowFits
    <2>3. DriverTallies(w)'
      BY <1>3, <2>1 DEF DriverTallies
    <2> QED
      BY <1>3, <2>1, <2>2, <2>3 DEF NothingDone, FailureLocates, SuccessReported
  <1> QED
    BY <1>5, <1>6, <1>7, <1>8, <1>9, <1>10, <1>11, <1>12, <1>13, <1>14, <1>15, <1>16,
       <1>17, <1>18

\* A step that moves no row is judged by the locals of its worker.
LEMMA QuietFits ==
  ASSUME ProgressInv, NEW w \in Workers, WorkerFits(w)', UNCHANGED row,
         \A v \in Workers : v # w => run'[v] = run[v]
  PROVE  ProgressInv'
  <1>1. ASSUME NEW v \in Workers, v # w PROVE WorkerFits(v)'
    BY <1>1 DEF ProgressInv, WorkerFits, NothingDone, DriverTallies, FailureLocates,
      SuccessReported
  <1>2. \A j \in Jobs : RowFits(j)'
    BY DEF ProgressInv, RowFits
  <1> QED
    BY <1>1, <1>2 DEF ProgressInv

\* The INSERT starts the row and its driver at zero; a worker that lost the
\* answer gives up with an error.
LEMMA StartInsertsFits ==
  ASSUME IInv, ProgressInv, NEW w \in Workers, StartInserts(w)
  PROVE  ProgressInv'
  <1>1. /\ run \in [Workers -> Locals] /\ row \in [Jobs -> Rows]
        /\ run[w] \in Locals
    BY DEF IInv, TypeOK
  <1>2. run[w].pc = "insert" /\ Active(run[w].req.key) = {}
    BY DEF StartInserts, IInv, KeyHeld
  <1>3. PICK i \in Jobs :
          /\ ~Used(i)
          /\ row' = [row EXCEPT ![i] = NewRow(w)]
          /\ \/ run' = [run EXCEPT ![w].pc = "loop", ![w].job = i]
             \/ Lost(w, "unlock")
    BY <1>2 DEF StartInserts
  <1>4. /\ row'[i].status = "running" /\ row'[i].stage = "batch"
        /\ row'[i].raw = 0 /\ row'[i].settled = 0 /\ row'[i].failed = 0
        /\ \A j \in Jobs : j # i => row'[j] = row[j]
    BY <1>1, <1>3 DEF NewRow, NoRow
  <1>5. /\ \/ run'[w].pc = "loop" /\ run'[w].job = i
           \/ run'[w].pc = "unlock" /\ run'[w].cause # "none"
        /\ run'[w].at = run[w].at /\ run'[w].done = run[w].done
        /\ \A v \in Workers : v # w => run'[v] = run[v]
    BY <1>1, <1>3 DEF Lost, Locals
  <1>6. run[w].at = "batch" /\ run[w].done = 0
    BY <1>2 DEF ProgressInv, WorkerFits, NothingDone
  <1>7. WorkerFits(w)'
    BY <1>4, <1>5, <1>6 DEF WorkerFits, NothingDone, DriverTallies, FailureLocates,
      SuccessReported
  <1>8. ASSUME NEW v \in Workers, v # w PROVE WorkerFits(v)'
    <2>1. run'[v] = run[v] /\ WorkerFits(v)
      BY <1>5, <1>8 DEF ProgressInv
    <2>2. Driving(v) => run[v].job # i /\ run[v].job \in Jobs
      BY <1>3 DEF IInv, DriversOwn
    <2>3. row[run[v].job].status = "succeeded" => run[v].job # i
      BY <1>3 DEF Used
    <2>4. NothingDone(v)'
      BY <2>1 DEF WorkerFits, NothingDone
    <2>5. DriverTallies(v)'
      BY <1>4, <2>1, <2>2 DEF WorkerFits, DriverTallies, Driving
    <2>6. FailureLocates(v)'
      BY <1>4, <2>1, <2>2 DEF WorkerFits, FailureLocates, Driving
    <2>7. SuccessReported(v)'
      BY <1>4, <2>1, <2>3 DEF WorkerFits, SuccessReported
    <2> QED
      BY <2>4, <2>5, <2>6, <2>7 DEF WorkerFits
  <1>9. ASSUME NEW j \in Jobs PROVE RowFits(j)'
    <2>1. CASE j = i
      BY <1>4, <2>1 DEF RowFits
    <2>2. CASE j # i
      BY <1>4, <2>2 DEF RowFits, ProgressInv
    <2> QED
      BY <2>1, <2>2
  <1> QED
    BY <1>7, <1>8, <1>9 DEF ProgressInv

LEMMA InitProgress == Init => ProgressInv
  <1> SUFFICES ASSUME Init PROVE ProgressInv
    OBVIOUS
  <1>1. \A w \in Workers : run[w].pc = "idle"
    BY DEF Init, IdleRun, FreshRun
  <1>2. \A j \in Jobs : /\ row[j].status = "none" /\ row[j].stage = "batch"
                        /\ row[j].raw = 0 /\ row[j].settled = 0 /\ row[j].failed = 0
    BY DEF Init, NoRow
  <1> QED
    BY <1>1, <1>2 DEF ProgressInv, WorkerFits, RowFits, NothingDone, DriverTallies,
      FailureLocates, SuccessReported

LEMMA StepProgress == IInv /\ ProgressInv /\ [Next]_vars => ProgressInv'
  <1> SUFFICES ASSUME IInv, ProgressInv, [Next]_vars PROVE ProgressInv'
    OBVIOUS
  <1>0. TypeOK /\ \A w \in Workers : WorkerFits(w)
    BY DEF IInv, ProgressInv
  <1> USE DEF WorkerFits, NothingDone, DriverTallies, FailureLocates, SuccessReported
  <1>1. CASE UNCHANGED vars
    BY <1>1 DEF vars, ProgressInv, RowFits
  <1>2. ASSUME NEW w \in Workers, Submit(w) PROVE ProgressInv'
    <2>1. /\ run'[w].pc = "acquire" /\ run'[w].done = 0 /\ run'[w].at = "batch"
          /\ \A v \in Workers : v # w => run'[v] = run[v]
          /\ UNCHANGED row
      BY <1>0, <1>2 DEF Submit, FreshRun, TypeOK
    <2> QED
      BY <2>1, QuietFits
  <1>3. ASSUME NEW w \in Workers, AcquireLease(w) \/ StartLocksKey(w) PROVE ProgressInv'
    <2>1. /\ run[w].pc \in {"acquire", "start"} /\ run'[w].pc \in {"start", "select"}
          /\ run'[w].done = run[w].done /\ run'[w].at = run[w].at
          /\ \A v \in Workers : v # w => run'[v] = run[v]
          /\ UNCHANGED row
      BY <1>0, <1>3 DEF AcquireLease, StartLocksKey, TypeOK, Locals
    <2>2. WorkerFits(w)'
      BY <1>0, <2>1
    <2> QED
      BY <2>1, <2>2, QuietFits
  <1>4. ASSUME NEW w \in Workers, AcquireFails(w) \/ StartFails(w) PROVE ProgressInv'
    <2>1. /\ run'[w].pc \in {"returned", "unlock"} /\ run'[w].cause # "none"
          /\ \A v \in Workers : v # w => run'[v] = run[v]
          /\ UNCHANGED row
      BY <1>0, <1>4 DEF AcquireFails, StartFails, Refused, TypeOK, Locals
    <2>2. WorkerFits(w)'
      BY <2>1
    <2> QED
      BY <2>1, <2>2, QuietFits
  <1>5. ASSUME NEW w \in Workers, StartSelects(w) PROVE ProgressInv'
    <2>1. /\ run[w].pc = "select"
          /\ run'[w].done = run[w].done /\ run'[w].at = run[w].at
          /\ \/ run'[w].pc = "insert"
             \/ run'[w].pc = "unlock" /\ run'[w].cause # "none"
          /\ \A v \in Workers : v # w => run'[v] = run[v]
          /\ UNCHANGED row
      BY <1>0, <1>5 DEF StartSelects, TypeOK, Locals
    <2>2. WorkerFits(w)'
      BY <1>0, <2>1
    <2> QED
      BY <2>1, <2>2, QuietFits
  <1>6. ASSUME NEW w \in Workers, StartInserts(w) PROVE ProgressInv'
    BY <1>6, StartInsertsFits
  <1>7. ASSUME NEW w \in Workers, Release(w) PROVE ProgressInv'
    <2>1. /\ run[w].pc = "unlock" /\ run'[w].pc = "returned"
          /\ run'[w].done = run[w].done /\ run'[w].cause = run[w].cause
          /\ run'[w].job = run[w].job
          /\ \A v \in Workers : v # w => run'[v] = run[v]
          /\ UNCHANGED row
      BY <1>0, <1>7 DEF Release, TypeOK, Locals
    <2>2. WorkerFits(w)'
      BY <1>0, <2>1
    <2> QED
      BY <2>1, <2>2, QuietFits
  <1>8. ASSUME NEW w \in Workers, Crash(w) PROVE ProgressInv'
    <2>1. /\ run'[w].pc = "crashed"
          /\ \A v \in Workers : v # w => run'[v] = run[v]
          /\ UNCHANGED row
      BY <1>0, <1>8 DEF Crash, FreshRun, TypeOK
    <2>2. WorkerFits(w)'
      BY <2>1
    <2> QED
      BY <2>1, <2>2, QuietFits
  <1>9. ASSUME NEW w \in Workers, LeaseDrops(w) PROVE ProgressInv'
    <2>1. /\ run'[w] = [run[w] EXCEPT !.dropped = TRUE]
          /\ \A v \in Workers : v # w => run'[v] = run[v]
          /\ UNCHANGED row
      BY <1>0, <1>9 DEF LeaseDrops, TypeOK
    <2>2. /\ run'[w].pc = run[w].pc /\ run'[w].job = run[w].job
          /\ run'[w].at = run[w].at /\ run'[w].done = run[w].done
          /\ run'[w].cause = run[w].cause
      BY <1>0, <2>1 DEF TypeOK, Locals
    <2>3. WorkerFits(w)'
      BY <1>0, <2>1, <2>2
    <2> QED
      BY <2>1, <2>3, QuietFits
  <1>10. ASSUME NEW w \in Workers,
                \/ NextEvent(w) \/ EventFails(w) \/ EventsEnd(w) \/ Interrupted(w)
                \/ SetStage(w) \/ PersistRaw(w) \/ Normalize(w) \/ EvaluatePolicy(w)
                \/ Settle(w) \/ WriteFails(w) \/ RunHooks(w) \/ Complete(w)
                \/ FinishFailure(w) \/ Cancel(w)
         PROVE  ProgressInv'
    <2>1. WorkerFits(w)' /\ (run[w].job \in Jobs => RowFits(run[w].job)')
      BY <1>10, DriverFits
    <2>2. DriverStep(w)
      BY <1>10, DriverActions
    <2> HIDE DEF WorkerFits
    <2> QED
      BY <2>1, <2>2, OthersFit
  <1> HIDE DEF WorkerFits, NothingDone, DriverTallies, FailureLocates, SuccessReported
  <1> QED
    BY <1>1, <1>2, <1>3, <1>4, <1>5, <1>6, <1>7, <1>8, <1>9, <1>10 DEF Next, Progress

LEMMA ProgressInvariant == Spec => []ProgressInv
  <1> QED
    BY InitProgress, StepProgress, Invariant, PTL DEF Spec

\* The counters of a row tell how far its run came, in every status and
\* whatever answers were lost (PersistRaw, the settling write, Complete and
\* finishFailure): no snapshot is counted twice or left out.
THEOREM CountersAreTrue == Spec => []CountersTrackEvents
  <1>1. ProgressInv => CountersTrackEvents
    BY DEF ProgressInv, RowFits, CountersTrackEvents
  <1> QED
    BY <1>1, ProgressInvariant, PTL

\* The stage column, of a running job as of a failed one, says which side of
\* the raw write the last event is on (setStage against the counters).
THEOREM StagesAreTrue == Spec => []StageLocatesProgress
  <1>1. ProgressInv => StageLocatesProgress
    BY DEF ProgressInv, RowFits, StageLocatesProgress
  <1> QED
    BY <1>1, ProgressInvariant, PTL

\* A run that returns without an error left a succeeded row that settled every
\* event it drove, whatever crashes and lost answers other runs met.
THEOREM SuccessIsTrue == Spec => []SuccessIsDurable
  <1>1. ProgressInv => SuccessIsDurable
    BY DEF ProgressInv, WorkerFits, SuccessReported, SuccessIsDurable
  <1> QED
    BY <1>1, ProgressInvariant, PTL

(***************************************************************************)
(* Who owns a job that a duplicate run collides with.  A row whose process *)
(* died, whose INSERT failed on its way back or whose last UPDATE failed   *)
(* stays running with nobody behind it; a cancellation can do so only      *)
(* between the INSERT and its answer, before the job has begun.            *)
(***************************************************************************)
\* Until something fails, every running row has a driver or has not begun.
OwnersLive ==
  faults = 0 =>
    \A j \in Jobs :
      row[j].status = "running" =>
        \/ \E w \in Workers : Driving(w) /\ run[w].job = j
        \/ Cancels /\ row[j].stage = "batch" /\ row[j].raw = 0

LEMMA InitOwners == Init => OwnersLive
  BY DEF Init, NoRow, OwnersLive

\* A failure is counted and never forgotten.
LEMMA FaultsAreCounted ==
  ASSUME TypeOK, [Next]_vars
  PROVE  faults' = faults \/ Fault
  <1>1. ASSUME NEW w \in Workers,
               \/ Submit(w) \/ AcquireLease(w) \/ StartLocksKey(w) \/ AcquireFails(w)
               \/ StartSelects(w) \/ StartFails(w) \/ Release(w) \/ Cancel(w)
               \/ Crash(w) \/ LeaseDrops(w)
        PROVE  faults' = faults \/ Fault
    BY <1>1 DEF Submit, AcquireLease, StartLocksKey, AcquireFails, StartSelects,
      StartFails, Release, Cancel, Crash, LeaseDrops, Refused
  <1>2. ASSUME NEW w \in Workers, StartInserts(w)
        PROVE  faults' = faults \/ Fault
    BY <1>2 DEF StartInserts, Lost
  <1>3. ASSUME NEW w \in Workers,
               \/ NextEvent(w) \/ EventFails(w) \/ EventsEnd(w) \/ Interrupted(w)
               \/ SetStage(w) \/ PersistRaw(w) \/ Normalize(w) \/ EvaluatePolicy(w)
        PROVE  faults' = faults \/ Fault
    BY <1>3 DEF NextEvent, EventFails, EventsEnd, Interrupted, SetStage, PersistRaw,
      Normalize, Counted, EvaluatePolicy, Lost
  <1>4. ASSUME NEW w \in Workers,
               \/ Settle(w) \/ WriteFails(w) \/ RunHooks(w) \/ Complete(w)
               \/ FinishFailure(w)
        PROVE  faults' = faults \/ Fault
    BY <1>4 DEF Settle, WriteFails, RunHooks, Complete, FinishFailure, Refused, Lost
  <1>5. CASE UNCHANGED vars
    BY <1>5 DEF vars
  <1> QED
    BY <1>1, <1>2, <1>3, <1>4, <1>5 DEF Next, Progress

\* A driver that goes on keeps its job, and one that stops has finished it.
LEMMA StepOwners == IInv /\ OwnersLive /\ [Next]_vars => OwnersLive'
  <1> SUFFICES ASSUME IInv, OwnersLive, [Next]_vars, faults' = 0,
                      NEW j \in Jobs, row'[j].status = "running"
               PROVE  \/ \E w \in Workers : Driving(w)' /\ run'[w].job = j
                      \/ Cancels /\ row'[j].stage = "batch" /\ row'[j].raw = 0
    BY DEF OwnersLive
  <1> DEFINE Owned == \/ \E w \in Workers : Driving(w)' /\ run'[w].job = j
                      \/ Cancels /\ row'[j].stage = "batch" /\ row'[j].raw = 0
  <1>0. TypeOK
    BY DEF IInv
  <1>a. ~Fault /\ faults = 0
    BY <1>0, FaultsAreCounted DEF Fault, TypeOK
  <1>b. row[j].status = "running" =>
          \/ \E v \in Workers : Driving(v) /\ run[v].job = j
          \/ Cancels /\ row[j].stage = "batch" /\ row[j].raw = 0
    BY <1>a DEF OwnersLive
  <1>1. CASE UNCHANGED vars
    BY <1>1, <1>b DEF vars, Driving
  <1>2. ASSUME NEW w \in Workers,
               \A v \in Workers : v # w => run'[v] = run[v],
               UNCHANGED row, ~Driving(w)
        PROVE  Owned
    BY <1>2, <1>b DEF Driving
  <1>3. ASSUME NEW w \in Workers, DriverStep(w),
               run[w].job = j => run'[w].pc # "unlock" \/ run[w].pc = "unlock"
        PROVE  Owned
    <2>1. row[j].status = "running" /\ (j # run[w].job => row'[j] = row[j])
      BY <1>3 DEF DriverStep, Terminal
    <2>2. ASSUME NEW v \in Workers, Driving(v), run[v].job = j
          PROVE  Driving(v)' /\ run'[v].job = j
      <3>1. CASE v # w
        BY <1>3, <2>2, <3>1 DEF DriverStep, Driving
      <3>2. CASE v = w
        BY <1>3, <2>2, <3>2 DEF DriverStep, Driving
      <3> QED
        BY <3>1, <3>2
    <2>3. CASE \E v \in Workers : Driving(v) /\ run[v].job = j
      BY <2>2, <2>3
    <2>4. CASE ~\E v \in Workers : Driving(v) /\ run[v].job = j
      <3>1. row'[j] = row[j]
        BY <1>3, <2>1, <2>4 DEF DriverStep
      <3> QED
        BY <1>b, <2>1, <2>4, <3>1
    <2> QED
      BY <2>3, <2>4
  <1>4. ASSUME NEW w \in Workers,
               \/ Submit(w) \/ AcquireLease(w) \/ StartLocksKey(w) \/ StartSelects(w)
               \/ AcquireFails(w) \/ StartFails(w) \/ Release(w)
        PROVE  Owned
    <2>1. /\ \A v \in Workers : v # w => run'[v] = run[v]
          /\ UNCHANGED row /\ ~Driving(w)
      BY <1>0, <1>4 DEF Submit, Running, AcquireLease, StartLocksKey, StartSelects,
        AcquireFails, StartFails, Refused, Release, Driving, TypeOK
    <2> QED
      BY <1>2, <2>1
  <1>5. ASSUME NEW w \in Workers, StartInserts(w) PROVE Owned
    <2>1. Active(run[w].req.key) = {} /\ run[w].pc = "insert"
      BY <1>5 DEF StartInserts, IInv, KeyHeld
    <2>2. PICK i \in Jobs :
            /\ row' = [row EXCEPT ![i] = NewRow(w)]
            /\ \/ run' = [run EXCEPT ![w].pc = "loop", ![w].job = i]
               \/ Lost(w, "unlock")
      BY <1>5, <2>1 DEF StartInserts
    <2>3. \A v \in Workers : v # w => run'[v] = run[v]
      BY <1>0, <2>2 DEF Lost, TypeOK
    <2>4. CASE j = i
      <3>1. CASE run' = [run EXCEPT ![w].pc = "loop", ![w].job = i]
        <4>1. run'[w].pc = "loop" /\ run'[w].job = j
          BY <1>0, <2>4, <3>1 DEF TypeOK, Locals
        <4> QED
          BY <4>1 DEF Driving
      <3>2. CASE Lost(w, "unlock")
        <4>1. Cancels
          BY <1>a, <3>2 DEF Lost
        <4>2. row'[j].stage = "batch" /\ row'[j].raw = 0
          BY <1>0, <2>2, <2>4 DEF NewRow, NoRow, TypeOK
        <4> QED
          BY <4>1, <4>2
      <3> QED
        BY <2>2, <3>1, <3>2
    <2>5. CASE j # i
      <3>1. row'[j] = row[j]
        BY <1>0, <2>2, <2>5 DEF TypeOK
      <3>2. ~Driving(w)
        BY <2>1 DEF Driving
      <3> QED
        BY <1>b, <2>3, <3>1, <3>2 DEF Driving
    <2> QED
      BY <2>4, <2>5
  <1>6. ASSUME NEW w \in Workers,
               \/ NextEvent(w) \/ EventFails(w) \/ EventsEnd(w) \/ Interrupted(w)
               \/ SetStage(w) \/ PersistRaw(w) \/ Normalize(w) \/ EvaluatePolicy(w)
               \/ Settle(w) \/ WriteFails(w) \/ RunHooks(w) \/ Cancel(w)
        PROVE  Owned
    <2>1. DriverStep(w)
      BY <1>6, DriverActions
    <2>2. CASE Cancel(w)
      <3>1. run'[w].pc = run[w].pc
        BY <1>0, <2>2 DEF Cancel, TypeOK, Locals
      <3> QED
        BY <1>3, <2>1, <3>1
    <2>3. CASE \/ NextEvent(w) \/ EventFails(w) \/ EventsEnd(w) \/ Interrupted(w)
               \/ SetStage(w) \/ PersistRaw(w) \/ Normalize(w) \/ EvaluatePolicy(w)
               \/ Settle(w) \/ WriteFails(w) \/ RunHooks(w)
      <3>1. run'[w].pc # "unlock"
        BY <1>0, <2>3 DEF NextEvent, EventFails, EventsEnd, Interrupted, SetStage,
          PersistRaw, Normalize, Counted, EvaluatePolicy, Settle, WriteFails, RunHooks,
          Refused, Lost, TypeOK, Locals
      <3> QED
        BY <1>3, <2>1, <3>1
    <2> QED
      BY <1>6, <2>2, <2>3
  <1>7. ASSUME NEW w \in Workers, Complete(w) \/ FinishFailure(w) PROVE Owned
    <2>1. DriverStep(w)
      BY <1>7, DriverActions
    <2>2. \/ run'[w].pc = "fail"
          \/ \E status \in Terminal : row' = Finished(run[w].job, status, run[w].at)
      BY <1>0, <1>7, <1>a DEF Complete, FinishFailure, TerminalFor, Terminal, Refused,
        Lost, TypeOK, Locals
    <2>3. CASE run'[w].pc = "fail"
      BY <1>3, <2>1, <2>3
    <2>4. CASE \E status \in Terminal : row' = Finished(run[w].job, status, run[w].at)
      <3>1. run[w].job # j
        BY <1>0, <2>4 DEF Finished, Terminal, TypeOK, Rows
      <3> QED
        BY <1>3, <2>1, <3>1
    <2> QED
      BY <2>2, <2>3, <2>4
  <1>8. ASSUME NEW w \in Workers, Crash(w) \/ LeaseDrops(w) PROVE FALSE
    BY <1>8, <1>a DEF Crash, LeaseDrops
  <1> QED
    BY <1>1, <1>4, <1>5, <1>6, <1>7, <1>8 DEF Next, Progress

LEMMA OwnersInvariant == Spec => []OwnersLive
  BY Invariant, InitOwners, StepOwners, PTL DEF Spec

\* Until something fails, a run is rejected as a duplicate (StartSelects) only
\* while another worker is at work on the job it collides with, or over a job
\* that a cancelled Start left before it began.
THEOREM ConflictsHaveOwners == Spec => ConflictHasLiveOwner
  <1> DEFINE Owned(w) == \E j \in Active(run[w].req.key) :
                           \/ \E v \in Workers : Driving(v) /\ run[v].job = j
                           \/ Cancels /\ row[j].stage = "batch" /\ row[j].raw = 0
             A == \A w \in Workers :
                    (faults = 0 /\ run'[w].cause = "conflict" /\ run[w].cause # "conflict")
                      => Owned(w)
  <1>1. IInv /\ OwnersLive /\ [Next]_vars => [A]_vars
    <2> SUFFICES ASSUME IInv, OwnersLive, Next, NEW w \in Workers, faults = 0,
                        run'[w].cause = "conflict", run[w].cause # "conflict"
                 PROVE  Owned(w)
      OBVIOUS
    <2>0. TypeOK
      BY DEF IInv
    <2>1. ASSUME StartSelects(w) PROVE Owned(w)
      <3>1. PICK j \in Active(run[w].req.key) : TRUE
        BY <2>0, <2>1 DEF StartSelects, TypeOK, Locals
      <3>2. j \in Jobs /\ row[j].status = "running"
        BY <2>0, <3>1 DEF Active, ActiveStatuses, TypeOK, Rows, Terminal
      <3> QED
        BY <3>1, <3>2 DEF OwnersLive
    <2>2. ASSUME NEW u \in Workers, u # w,
                 \/ Submit(u) \/ AcquireLease(u) \/ StartLocksKey(u) \/ Progress(u)
                 \/ Cancel(u) \/ Crash(u) \/ LeaseDrops(u)
          PROVE  run'[w] = run[w]
      <3>1. CASE DriverStep(u)
        BY <2>2, <3>1 DEF DriverStep
      <3>2. CASE StartInserts(u)
        <4>1. Active(run[u].req.key) = {}
          BY <3>2 DEF StartInserts, IInv, KeyHeld
        <4> QED
          BY <2>0, <2>2, <3>2, <4>1 DEF StartInserts, Lost, TypeOK
      <3>3. CASE \/ Submit(u) \/ AcquireLease(u) \/ StartLocksKey(u) \/ AcquireFails(u)
                 \/ StartSelects(u) \/ StartFails(u) \/ Release(u) \/ Crash(u)
                 \/ LeaseDrops(u)
        BY <2>0, <2>2, <3>3 DEF Submit, AcquireLease, StartLocksKey, AcquireFails,
          StartSelects, StartFails, Release, Crash, LeaseDrops, Refused, TypeOK
      <3> QED
        BY <2>2, <3>1, <3>2, <3>3, DriverActions DEF Progress
    <2>3. ASSUME \/ Submit(w) \/ AcquireLease(w) \/ StartLocksKey(w) \/ AcquireFails(w)
                 \/ StartInserts(w) \/ StartFails(w) \/ Release(w) \/ Crash(w)
                 \/ LeaseDrops(w)
          PROVE  FALSE
      BY <2>0, <2>3 DEF Submit, FreshRun, AcquireLease, StartLocksKey, AcquireFails,
        StartInserts, StartFails, Release, Crash, LeaseDrops, Refused, Lost, TypeOK, Locals
    <2>4. ASSUME \/ NextEvent(w) \/ EventFails(w) \/ EventsEnd(w) \/ Interrupted(w)
                 \/ SetStage(w) \/ PersistRaw(w) \/ Normalize(w) \/ EvaluatePolicy(w)
          PROVE  FALSE
      BY <2>0, <2>4 DEF NextEvent, EventFails, EventsEnd, Interrupted, SetStage,
        PersistRaw, Normalize, Counted, EvaluatePolicy, Lost, TypeOK, Locals
    <2>5. ASSUME \/ Settle(w) \/ WriteFails(w) \/ RunHooks(w) \/ Complete(w)
                 \/ FinishFailure(w) \/ Cancel(w)
          PROVE  FALSE
      BY <2>0, <2>5 DEF Settle, WriteFails, RunHooks, Complete, FinishFailure, Cancel,
        Refused, Lost, TypeOK, Locals
    <2> QED
      BY <2>1, <2>2, <2>3, <2>4, <2>5 DEF Next, Progress
  <1> QED
    BY <1>1, Invariant, OwnersInvariant, PTL DEF ConflictHasLiveOwner, Spec
=============================================================================
