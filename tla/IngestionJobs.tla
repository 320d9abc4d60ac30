--------------------------- MODULE IngestionJobs ---------------------------
(***************************************************************************)
(* The life of an ingestion job: Service.Run of internal/ingestion and the *)
(* job half of PostgresRepository.  A worker takes the batch lease (a      *)
(* session advisory lock), starts a job under its idempotency key, drives  *)
(* every event through the stages raw, normalize, policy and project, and  *)
(* leaves the job in a terminal status before it gives the lease back.     *)
(*                                                                         *)
(* What an event writes besides the job's own row is the subject of module *)
(* Projection; here a write is the counter it moves.  Every database call  *)
(* may fail before it is applied, or be applied and still report an error  *)
(* (the connection or the caller's context ends before the answer).        *)
(***************************************************************************)
EXTENDS Naturals, FiniteSets

CONSTANTS
  Workers,     \* processes calling Service.Run, each with its own pool
  Jobs,        \* ids of the rows of ingestion_jobs
  Requests,    \* what a worker may be asked to run: [key, batch] records
  NoWorker,
  NoJob,
  PoolSize,    \* DB_MAX_CONNS: connections one worker process may hold
  HasHooks,    \* BOOLEAN: is a side-effect hook configured
  Cancels,     \* BOOLEAN: may the caller's context be cancelled
  Crashes,     \* BOOLEAN: may a worker process die
  MaxEvents,   \* bound: events of one run
  MaxFaults    \* bound: database failures and crashes of a behaviour

ASSUME JobsAssumption ==
  /\ NoWorker \notin Workers
  /\ NoJob \notin Jobs
  /\ Requests # {}
  /\ \A r \in Requests : DOMAIN r = {"key", "batch"}
  /\ PoolSize \in Nat \ {0}
  /\ {HasHooks, Cancels, Crashes} \subseteq BOOLEAN
  /\ MaxEvents \in Nat
  /\ MaxFaults \in Nat

VARIABLES
  run,         \* per worker: the locals of its Run
  row,         \* per job id: its row of ingestion_jobs
  batchLock,   \* per batch key: the session holding its advisory lock
  keyLock,     \* per idempotency key: the transaction holding its xact lock
  faults       \* database failures and crashes so far

vars == <<run, row, batchLock, keyLock, faults>>

Keys == {r.key : r \in Requests}
Batches == {r.batch : r \in Requests}

Stages == {"batch", "raw", "normalize", "policy", "project"}
Terminal == {"succeeded", "failed", "cancelled"}
\* Slip: only pending jobs count as active.
ActiveStatusesPendingOnly == {"pending"}
ActiveStatuses == {"pending", "running"}
Kinds == {"upsert", "excluded", "delete"}
Causes == {"none", "conflict", "unique", "cancelled", "db", "source", "policy"}
Steps == {"idle", "acquire", "start", "select", "insert", "loop", "stage",
          "write", "hooks", "complete", "fail", "unlock", "returned", "crashed"}

AnyRequest == CHOOSE r \in Requests : TRUE

NoRow == [status |-> "none", req |-> AnyRequest, stage |-> "batch",
          raw |-> 0, settled |-> 0, failed |-> 0]

(***************************************************************************)
(* Helpers.                                                                *)
(***************************************************************************)
Used(j) == row[j].status # "none"
Active(k) ==
  {j \in Jobs : row[j].status \in ActiveStatuses /\ row[j].req.key = k}

\* The steps at which a worker owns a job and still has to finish it.
Driving(w) ==
  run[w].pc \in {"loop", "stage", "write", "hooks", "complete", "fail"}

\* The steps at which a process is inside Service.Run.
Running(w) == run[w].pc \notin {"idle", "returned", "crashed"}

\* The lease pins one connection of the pool; a statement needs one more.
LeasedConnections(w) == IF run[w].pc = "acquire" THEN 0 ELSE 1
\* Slip: one connection of the pool is kept back.
FreeConnectionKeepsOne(w) == LeasedConnections(w) + 1 < PoolSize
FreeConnection(w) == LeasedConnections(w) + 1 <= PoolSize

\* Bound: a run is only submitted while enough job ids are left for it.
IdsLeft ==
  Cardinality({j \in Jobs : ~Used(j)})
    > Cardinality({w \in Workers :
                     run[w].pc \in {"acquire", "start", "select", "insert"}})

Fault == faults < MaxFaults /\ faults' = faults + 1

\* A call under the caller's context that is not applied: the context is done,
\* or the database fails.
Refused(w, next) ==
  \/ /\ run[w].ctx = "cancelled"
     /\ run' = [run EXCEPT ![w].pc = next, ![w].cause = "cancelled"]
     /\ UNCHANGED faults
  \/ /\ Fault
     /\ run' = [run EXCEPT ![w].pc = next, ![w].cause = "db"]

\* A call that is applied although its answer is lost.
Lost(w, next) ==
  \/ /\ Cancels
     /\ run' = [run EXCEPT ![w].pc = next, ![w].cause = "cancelled",
                           ![w].ctx = "cancelled"]
     /\ UNCHANGED faults
  \/ /\ Fault
     /\ run' = [run EXCEPT ![w].pc = next, ![w].cause = "db"]

Live(w) == run[w].ctx = "live" /\ FreeConnection(w)

(***************************************************************************)
(* Taking the lease and starting the job.                                  *)
(***************************************************************************)
FreshRun(r) ==
  [pc |-> "acquire", req |-> r, ctx |-> "live", job |-> NoJob,
   at |-> "batch", kind |-> "upsert", done |-> 0, side |-> FALSE,
   cause |-> "none", dropped |-> FALSE]

Submit(w) ==
  /\ ~Running(w)
  /\ IdsLeft
  /\ \E r \in Requests : run' = [run EXCEPT ![w] = FreshRun(r)]
  /\ UNCHANGED <<row, batchLock, keyLock, faults>>

\* Slip: the answer of a try-lock is ignored.
AcquireLeaseUnchecked(w) ==
  /\ run[w].pc = "acquire"
  /\ Live(w)
  /\ batchLock' = [batchLock EXCEPT ![run[w].req.batch] = w]
  /\ run' = [run EXCEPT ![w].pc = "start"]
  /\ UNCHANGED <<row, keyLock, faults>>

\* pg_advisory_lock: waits until the batch key is free.
AcquireLease(w) ==
  LET b == run[w].req.batch IN
  /\ run[w].pc = "acquire"
  /\ Live(w)
  /\ batchLock[b] = NoWorker
  /\ batchLock' = [batchLock EXCEPT ![b] = w]
  /\ run' = [run EXCEPT ![w].pc = "start"]
  /\ UNCHANGED <<row, keyLock, faults>>

AcquireFails(w) ==
  /\ run[w].pc = "acquire"
  /\ Refused(w, "returned")
  /\ UNCHANGED <<row, batchLock, keyLock>>

\* Slip: Start takes no lock on the key.
StartWithoutKeyLock(w) ==
  /\ run[w].pc = "start"
  /\ Live(w)
  /\ run' = [run EXCEPT ![w].pc = "select"]
  /\ UNCHANGED <<row, batchLock, keyLock, faults>>

\* Start, first statement: pg_advisory_xact_lock on the idempotency key.
StartLocksKey(w) ==
  LET k == run[w].req.key IN
  /\ run[w].pc = "start"
  /\ Live(w)
  /\ keyLock[k] = NoWorker
  /\ keyLock' = [keyLock EXCEPT ![k] = w]
  /\ run' = [run EXCEPT ![w].pc = "select"]
  /\ UNCHANGED <<row, batchLock, faults>>

\* The end of the start transaction of w frees the key, if w holds it.
KeyUnlocked(w) ==
  [k \in DOMAIN keyLock |-> IF keyLock[k] = w THEN NoWorker ELSE keyLock[k]]

\* Slip: an active job of the key is adopted instead of rejected.
StartAdopts(w) ==
  /\ run[w].pc = "select"
  /\ Live(w)
  /\ \/ /\ Active(run[w].req.key) = {}
        /\ run' = [run EXCEPT ![w].pc = "insert"]
        /\ UNCHANGED keyLock
     \/ /\ \E j \in Active(run[w].req.key) :
             run' = [run EXCEPT ![w].pc = "loop", ![w].job = j]
        /\ keyLock' = KeyUnlocked(w)
  /\ UNCHANGED <<row, batchLock, faults>>

\* SELECT ... status IN ('pending', 'running') FOR UPDATE.
StartSelects(w) ==
  /\ run[w].pc = "select"
  /\ Live(w)
  /\ \/ /\ Active(run[w].req.key) = {}
        /\ run' = [run EXCEPT ![w].pc = "insert"]
        /\ UNCHANGED keyLock
     \/ /\ Active(run[w].req.key) # {}
        /\ run' = [run EXCEPT ![w].pc = "unlock", ![w].cause = "conflict"]
        /\ keyLock' = KeyUnlocked(w)
  /\ UNCHANGED <<row, batchLock, faults>>

\* Slip: the row is inserted as pending.
NewRowPending(w) == [NoRow EXCEPT !.status = "pending", !.req = run[w].req]
NewRow(w) ==
  [NoRow EXCEPT !.status = "running", !.req = run[w].req]

\* INSERT and COMMIT; the partial unique index on active keys decides.
StartInserts(w) ==
  /\ run[w].pc = "insert"
  /\ Live(w)
  /\ IF Active(run[w].req.key) = {}
     THEN \E j \in Jobs :
            /\ ~Used(j)
            /\ row' = [row EXCEPT ![j] = NewRow(w)]
            /\ \/ run' = [run EXCEPT ![w].pc = "loop", ![w].job = j]
                  /\ UNCHANGED faults
               \/ Lost(w, "unlock")
     ELSE /\ run' = [run EXCEPT ![w].pc = "unlock", ![w].cause = "unique"]
          /\ UNCHANGED <<row, faults>>
  /\ keyLock' = KeyUnlocked(w)
  /\ UNCHANGED batchLock

StartFails(w) ==
  /\ run[w].pc \in {"start", "select", "insert"}
  /\ Refused(w, "unlock")
  /\ keyLock' = KeyUnlocked(w)
  /\ UNCHANGED <<row, batchLock>>

(***************************************************************************)
(* The event loop.                                                         *)
(***************************************************************************)
\* The stage that follows stage s for an event of kind k.
NextStage(k, s) ==
  CASE s = "raw" /\ k = "delete" -> "project"
    [] s = "raw"                 -> "normalize"
    [] s = "normalize"           -> "policy"
    [] s = "policy"              -> "project"
    [] OTHER                     -> "raw"

NextEvent(w) ==
  /\ run[w].pc = "loop"
  /\ run[w].ctx = "live"
  /\ run[w].done < MaxEvents
  /\ \E k \in {"upsert", "delete"} :
       run' = [run EXCEPT ![w].pc = "stage", ![w].kind = k]
  /\ UNCHANGED <<row, batchLock, keyLock, faults>>

\* The sequence yields an error (stage batch), or an event that is invalid or
\* of another source (stage unchanged).
EventFails(w) ==
  /\ run[w].pc = "loop"
  /\ run[w].ctx = "live"
  /\ \E s \in {"batch", run[w].at} :
       run' = [run EXCEPT ![w].pc = "fail", ![w].cause = "source", ![w].at = s]
  /\ UNCHANGED <<row, batchLock, keyLock, faults>>

EventsEnd(w) ==
  /\ run[w].pc = "loop"
  /\ run[w].ctx = "live"
  /\ run' = [run EXCEPT ![w].pc = "complete"]
  /\ UNCHANGED <<row, batchLock, keyLock, faults>>

\* ctx.Err() between two steps of the loop.
Interrupted(w) ==
  /\ run[w].pc \in {"loop", "hooks"}
  /\ run[w].ctx = "cancelled"
  /\ run' = [run EXCEPT ![w].pc = "fail", ![w].cause = "cancelled"]
  /\ UNCHANGED <<row, batchLock, keyLock, faults>>

(***************************************************************************)
(* setStage: the local job advances even when its UPDATE fails or is cut   *)
(* short by a cancellation, but not when the context is already done.      *)
(***************************************************************************)
SetStage(w) ==
  LET next == NextStage(run[w].kind, run[w].at) IN
  /\ run[w].pc = "stage"
  /\ \/ /\ Live(w)
        /\ row[run[w].job].status = "running"
        /\ run' = [run EXCEPT ![w].pc = "write", ![w].at = next]
        /\ row' = [row EXCEPT ![run[w].job].stage = next]
        /\ UNCHANGED faults
     \/ /\ Live(w)
        /\ Fault
        /\ run' = [run EXCEPT ![w].pc = "fail", ![w].cause = "db", ![w].at = next]
        /\ row' \in {row, [row EXCEPT ![run[w].job].stage = next]}
     \/ /\ Live(w)
        /\ Cancels
        /\ run' = [run EXCEPT ![w].pc = "fail", ![w].cause = "cancelled",
                              ![w].at = next, ![w].ctx = "cancelled"]
        /\ row' \in {row, [row EXCEPT ![run[w].job].stage = next]}
        /\ UNCHANGED faults
     \/ /\ run[w].ctx = "cancelled"
        /\ run' = [run EXCEPT ![w].pc = "fail", ![w].cause = "cancelled"]
        /\ UNCHANGED <<row, faults>>
  /\ UNCHANGED <<batchLock, keyLock>>

\* One write transaction of the current stage and the counter it moves.
Counted(w, after) ==
  /\ row' = after
  /\ \/ /\ Live(w)
        /\ run' = [run EXCEPT ![w].pc = "stage"]
        /\ UNCHANGED faults
     \/ Live(w) /\ Lost(w, "fail")

\* Slip: the job as it was started is failed, not the current one.
WriteFailsAtBatch(w) ==
  /\ run[w].pc = "write"
  /\ run[w].at \in {"raw", "normalize", "project"}
  /\ Fault
  /\ run' = [run EXCEPT ![w].pc = "fail", ![w].cause = "db", ![w].at = "batch"]
  /\ UNCHANGED <<row, batchLock, keyLock>>
WriteFails(w) ==
  /\ run[w].pc = "write"
  /\ run[w].at \in {"raw", "normalize", "project"}
  /\ Refused(w, "fail")
  /\ UNCHANGED <<row, batchLock, keyLock>>

\* Slip: a reused snapshot is not counted.
PersistRawCountsNewOnly(w) ==
  LET j == run[w].job IN
  /\ run[w].pc = "write"
  /\ run[w].at = "raw"
  /\ row[j].status = "running"
  /\ Counted(w, row)
  /\ UNCHANGED <<batchLock, keyLock>>

\* PersistRaw and PersistDeletion: the snapshot and raw_inserted or
\* raw_reused in one transaction, refused unless the job is running.
PersistRaw(w) ==
  LET j == run[w].job IN
  /\ run[w].pc = "write"
  /\ run[w].at = "raw"
  /\ row[j].status = "running"
  /\ Counted(w, [row EXCEPT ![j].raw = @ + 1])
  /\ UNCHANGED <<batchLock, keyLock>>

Normalize(w) ==
  /\ run[w].pc = "write"
  /\ run[w].at = "normalize"
  /\ Counted(w, row)
  /\ UNCHANGED <<batchLock, keyLock>>

\* Evaluate and Prepare decide without the database.
EvaluatePolicy(w) ==
  /\ run[w].pc = "write"
  /\ run[w].at = "policy"
  /\ \/ \E k \in {"upsert", "excluded"} :
          run' = [run EXCEPT ![w].pc = "stage", ![w].kind = k]
     \/ run' = [run EXCEPT ![w].pc = "fail", ![w].cause = "policy"]
  /\ UNCHANGED <<row, batchLock, keyLock, faults>>

\* Project, Exclude or ApplyDeletion: one of projected, excluded, deleted and
\* unchanged.  The counter has no status guard.
Settle(w) ==
  LET j == run[w].job IN
  /\ run[w].pc = "write"
  /\ run[w].at = "project"
  /\ row' = [row EXCEPT ![j].settled = @ + 1]
  /\ \/ /\ Live(w)
        /\ run' = [run EXCEPT ![w].pc = IF run[w].kind = "upsert" THEN "hooks" ELSE "loop",
                              ![w].done = @ + 1]
        /\ UNCHANGED faults
     \/ Live(w) /\ Lost(w, "fail")
  /\ UNCHANGED <<batchLock, keyLock>>

\* Hooks run after the projection is committed; a failing hook is recorded
\* and joined to the error Run returns, and the loop goes on.
RunHooks(w) ==
  /\ run[w].pc = "hooks"
  /\ run[w].ctx = "live"
  /\ \E broken \in {FALSE, HasHooks} :
       run' = [run EXCEPT ![w].pc = "loop", ![w].side = @ \/ broken]
  /\ UNCHANGED <<row, batchLock, keyLock, faults>>

(***************************************************************************)
(* The end of a run.                                                       *)
(***************************************************************************)
\* Slip: the UPDATE has no guard on the status.
FinishedUnguarded(j, status, stage) ==
  [row EXCEPT ![j].status = status, ![j].stage = stage,
              ![j].failed = @ + (IF status = "failed" THEN 1 ELSE 0)]

\* UPDATE ... SET status, stage, failed WHERE status = 'running'.
Finished(j, status, stage) ==
  IF row[j].status = "running"
  THEN [row EXCEPT ![j].status = status, ![j].stage = stage,
                   ![j].failed = @ + (IF status = "failed" THEN 1 ELSE 0)]
  ELSE row

\* Slip: the error of the last UPDATE is dropped.
CompleteIgnoresErrors(w) ==
  /\ run[w].pc = "complete"
  /\ \/ row' = Finished(run[w].job, "succeeded", run[w].at) /\ UNCHANGED faults
     \/ Fault /\ UNCHANGED row
  /\ run' = [run EXCEPT ![w].pc = "unlock"]
  /\ UNCHANGED <<batchLock, keyLock>>
Complete(w) ==
  /\ run[w].pc = "complete"
  /\ \/ /\ Live(w)
        /\ row' = Finished(run[w].job, "succeeded", run[w].at)
        /\ \/ run' = [run EXCEPT ![w].pc = "unlock"] /\ UNCHANGED faults
           \/ Lost(w, "fail")
     \/ Refused(w, "fail") /\ UNCHANGED row
  /\ UNCHANGED <<batchLock, keyLock>>

TerminalFor(cause) == IF cause = "cancelled" THEN "cancelled" ELSE "failed"

\* Slip: only the lease is cleaned up.
FinishFailureForgetsJob(w) ==
  /\ run[w].pc = "fail"
  /\ FreeConnection(w)
  /\ run' = [run EXCEPT ![w].pc = "unlock"]
  /\ UNCHANGED <<row, batchLock, keyLock, faults>>

\* Slip: the UPDATE runs under the caller's context.
FinishFailureUnderContext(w) ==
  /\ run[w].pc = "fail"
  /\ \/ /\ Live(w)
        /\ row' = Finished(run[w].job, TerminalFor(run[w].cause), run[w].at)
        /\ run' = [run EXCEPT ![w].pc = "unlock"]
        /\ UNCHANGED faults
     \/ Refused(w, "unlock") /\ UNCHANGED row
  /\ UNCHANGED <<batchLock, keyLock>>

\* finishFailure under a context that cannot be cancelled.  The UPDATE may
\* find the job already terminal (a Complete whose answer was lost) or fail.
FinishFailure(w) ==
  /\ run[w].pc = "fail"
  /\ FreeConnection(w)
  /\ \/ /\ row' = Finished(run[w].job, TerminalFor(run[w].cause), run[w].at)
        /\ UNCHANGED faults
     \/ Fault /\ UNCHANGED row
  /\ run' = [run EXCEPT ![w].pc = "unlock"]
  /\ UNCHANGED <<batchLock, keyLock>>

\* The locks a session of w holds on batch keys end with it.
BatchUnlocked(w) ==
  [b \in DOMAIN batchLock |-> IF batchLock[b] = w THEN NoWorker ELSE batchLock[b]]

\* The locals of Run end with it; what its result tells is kept.
Release(w) ==
  /\ run[w].pc = "unlock"
  /\ batchLock' = BatchUnlocked(w)
  /\ run' = [run EXCEPT ![w].pc = "returned", ![w].at = "batch",
                        ![w].kind = "upsert", ![w].ctx = "live"]
  /\ UNCHANGED <<row, keyLock, faults>>

(***************************************************************************)
(* The environment.                                                        *)
(***************************************************************************)
Cancel(w) ==
  /\ Cancels
  /\ Running(w)
  /\ run[w].ctx = "live"
  /\ run' = [run EXCEPT ![w].ctx = "cancelled"]
  /\ UNCHANGED <<row, batchLock, keyLock, faults>>

\* The process dies: its sessions end, its open transaction rolls back.
Crash(w) ==
  /\ Crashes
  /\ Running(w)
  /\ Fault
  /\ run' = [run EXCEPT ![w] = [FreshRun(run[w].req) EXCEPT !.pc = "crashed"]]
  /\ batchLock' = BatchUnlocked(w)
  /\ keyLock' = KeyUnlocked(w)
  /\ UNCHANGED row

\* The lease's own connection dies under a living worker.
LeaseDrops(w) ==
  /\ Running(w)
  /\ run[w].req.batch \in {b \in Batches : batchLock[b] = w}
  /\ Fault
  /\ run' = [run EXCEPT ![w].dropped = TRUE]
  /\ batchLock' = BatchUnlocked(w)
  /\ UNCHANGED <<row, keyLock>>

(***************************************************************************)
(* The specification.                                                      *)
(***************************************************************************)
IdleRun == [FreshRun(AnyRequest) EXCEPT !.pc = "idle"]

Init ==
  /\ run = [w \in Workers |-> IdleRun]
  /\ row = [j \in Jobs |-> NoRow]
  /\ batchLock = [b \in Batches |-> NoWorker]
  /\ keyLock = [k \in Keys |-> NoWorker]
  /\ faults = 0

Progress(w) ==
  \/ AcquireFails(w) \/ StartSelects(w) \/ StartInserts(w) \/ StartFails(w)
  \/ NextEvent(w) \/ EventFails(w) \/ EventsEnd(w) \/ Interrupted(w)
  \/ SetStage(w) \/ PersistRaw(w) \/ Normalize(w) \/ EvaluatePolicy(w)
  \/ Settle(w) \/ WriteFails(w) \/ RunHooks(w)
  \/ Complete(w) \/ FinishFailure(w) \/ Release(w)

Next ==
  \E w \in Workers :
    \/ Submit(w) \/ AcquireLease(w) \/ StartLocksKey(w) \/ Progress(w)
    \/ Cancel(w) \/ Crash(w) \/ LeaseDrops(w)

Spec == Init /\ [][Next]_vars

\* A running process takes its steps; PostgreSQL queues the waiters of an
\* advisory lock, so one that waits again and again is served.
Fairness ==
  \A w \in Workers :
    /\ WF_vars(Progress(w))
    /\ SF_vars(AcquireLease(w))
    /\ SF_vars(StartLocksKey(w))

FairSpec == Spec /\ Fairness

(***************************************************************************)
(* Type invariant.                                                         *)
(***************************************************************************)
Locals ==
  [pc : Steps, req : Requests, ctx : {"live", "cancelled"}, job : Jobs \cup {NoJob},
   at : Stages, kind : Kinds, done : Nat, side : BOOLEAN, cause : Causes,
   dropped : BOOLEAN]

Rows ==
  [status : {"none", "running"} \cup Terminal, req : Requests, stage : Stages,
   raw : Nat, settled : Nat, failed : Nat]

\* Every variable stays in its domain.
TypeOK ==
  /\ run \in [Workers -> Locals]
  /\ row \in [Jobs -> Rows]
  /\ batchLock \in [Batches -> Workers \cup {NoWorker}]
  /\ keyLock \in [Keys -> Workers \cup {NoWorker}]
  /\ faults \in Nat

(***************************************************************************)
(* Safety.                                                                 *)
(***************************************************************************)
\* Two active jobs never share an idempotency key, whatever crashes, lost
\* answers or lost leases a history has (Start, the partial unique index).
OneActiveJobPerKey ==
  \A i, j \in Jobs :
    (row[i].status = "running" /\ row[j].status = "running"
       /\ row[i].req.key = row[j].req.key) => i = j

\* The transaction lock of Start makes a duplicate run meet the conflict that
\* names the existing job, never the bare unique violation of the index.
DuplicateReportedAsConflict == \A w \in Workers : run[w].cause # "unique"

\* While a worker drives a running job it still holds the batch lease, unless
\* the server took the lease's connection away: every path of Run finishes the
\* job before it releases the lease.
LeaseCoversRunningJob ==
  \A w \in Workers :
    (Driving(w) /\ ~run[w].dropped) => batchLock[run[w].req.batch] = w

\* A job row has one driver, and the driver was asked for this row's request.
OneDriverPerJob ==
  \A v, w \in Workers :
    /\ Driving(w) => row[run[w].job].req = run[w].req
    /\ (Driving(v) /\ Driving(w) /\ run[v].job = run[w].job) => v = w

\* The counters of a row tell how far its run came: a snapshot is counted as
\* soon as it is durable, at most one counted snapshot is not settled yet, a
\* succeeded job has settled every snapshot it counted, and failed is 1 exactly
\* for the jobs that ended as failed, whatever answers were lost.
CountersTrackEvents ==
  \A j \in Jobs :
    /\ row[j].raw \in {row[j].settled, row[j].settled + 1}
    /\ row[j].status = "succeeded" => row[j].raw = row[j].settled
    /\ row[j].failed = IF row[j].status = "failed" THEN 1 ELSE 0

\* The stage column locates the work: normalize and policy mean a counted
\* snapshot that is not settled, batch means that none is outstanding.  It is
\* the stage a failed job reports.
StageLocatesProgress ==
  \A j \in Jobs :
    /\ row[j].stage \in {"normalize", "policy"} => row[j].raw = row[j].settled + 1
    /\ row[j].stage = "batch" => row[j].raw = row[j].settled

\* Run reports success only for a job that is succeeded in the database, with
\* every event of the sequence settled, even if answers were lost on the way.
SuccessIsDurable ==
  \A w \in Workers :
    (run[w].pc = "returned" /\ run[w].cause = "none") =>
      /\ row[run[w].job].status = "succeeded"
      /\ row[run[w].job].settled = run[w].done

(***************************************************************************)
(* Action properties.                                                      *)
(***************************************************************************)
\* A finished job is frozen: no late Complete, Fail, stage or counter moves it.
FinishedJobsAreFrozen ==
  [][\A j \in Jobs : row[j].status \in Terminal => row'[j] = row[j]]_vars

\* Until something fails, a run is rejected as a duplicate only while some
\* worker is at work on the job it collides with, so that a rejected caller may
\* come back later.  Only a cancelled Start may leave a job to nobody, one that
\* has not begun.
ConflictHasLiveOwner ==
  [][\A w \in Workers :
       (faults = 0 /\ run'[w].cause = "conflict" /\ run[w].cause # "conflict") =>
         \E j \in Active(run[w].req.key) :
           \/ \E v \in Workers : Driving(v) /\ run[v].job = j
           \/ Cancels /\ row[j].stage = "batch" /\ row[j].raw = 0]_vars

(***************************************************************************)
(* Liveness, under Fairness.                                               *)
(***************************************************************************)
\* Every call of Run returns, whatever is cancelled or fails on the way.
RunReturns == \A w \in Workers : Running(w) ~> ~Running(w)

\* A job that a worker drives reaches a terminal status, also when its caller
\* is cancelled, unless the process dies or the database fails.
JobsFinish ==
  \A w \in Workers, j \in Jobs :
    (Driving(w) /\ run[w].job = j) ~> (row[j].status \in Terminal \/ faults > 0)
=============================================================================
