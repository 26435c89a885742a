------------------------- MODULE ClassificationJobs -------------------------
(***************************************************************************)
(* The worker loops of the engine and the PostgreSQL-backed job queue they *)
(* share.  Each process runs one loop whose tick leases jobs, re-reads the *)
(* jobs leased under its worker id, classifies them one by one and marks   *)
(* each job.  Every SQL statement outside a transaction is one step; a     *)
(* failed statement, a crash with restart and a lease that runs out under  *)
(* a working tick each spend one of MaxFaults.                             *)
(***************************************************************************)
EXTENDS ClassificationStore

CONSTANTS WorkerIdOf,  \* [Procs -> WorkerIds]: config.worker_id of a process
          BatchLimit,  \* config.batch_limit
          Migrated,    \* runs the migration made for jobs that had none
          NoRun,
          SlowTicks,   \* may a tick outlive the lease it took?
          MaxFaults    \* bound on faults, for model checking

ASSUME JobsAssumption ==
  /\ Procs # {}
  /\ WorkerIdOf \in [Procs -> WorkerIds]
  /\ BatchLimit \in Nat \ {0}
  /\ Migrated \subseteq Runs
  /\ NoRun \notin Runs
  /\ SlowTicks \in BOOLEAN
  /\ MaxFaults \in Nat

VARIABLES workers,  \* the local state of each process's worker loop
          faults    \* faults spent so far

vars == <<runs, jobs, workers, faults>>

Steps == {"idle", "select", "fetch", "persist", "complete", "fail", "dead"}

Worker == [step : Steps, batch : SUBSET Runs, run : Runs \cup {NoRun}]

IdleWorker == [step |-> "idle", batch |-> {}, run |-> NoRun]

TypeOK ==
  /\ runs \in [Runs -> RunRow \cup {NoRow}]
  /\ jobs \in [Runs -> JobRow \cup {NoRow}]
  /\ workers \in [Procs -> Worker]
  /\ faults \in 0..MaxFaults

(* The migration inserts the run of an old job with the pack active in the *)
(* product's jurisdiction, or with none; the rows below are the latter.    *)
Init ==
  \E p \in Products, f \in Facts :
    /\ runs = [r \in Runs |-> IF r \in Migrated THEN QueuedRun(p, NoPack, f) ELSE NoRow]
    /\ jobs = [r \in Runs |-> IF r \in Migrated THEN QueuedJob(NoPack, f) ELSE NoRow]
    /\ workers = [p1 \in Procs |-> IdleWorker]
    /\ faults = 0

-----------------------------------------------------------------------------
(* Enqueuing, seen from the workers: a committed request.  RunRequests     *)
(* models the request handler itself.                                      *)

InsertQueued(r, p, k, f) ==
  /\ runs[r] = NoRow
  /\ runs' = [runs EXCEPT ![r] = QueuedRun(p, k, f)]
  /\ jobs' = [jobs EXCEPT ![r] = QueuedJob(k, f)]
  /\ UNCHANGED <<workers, faults>>

InsertBlocked(r, p, f) ==
  /\ runs[r] = NoRow
  /\ runs' = [runs EXCEPT ![r] = BlockedRun(p, f)]
  /\ UNCHANGED <<jobs, workers, faults>>

-----------------------------------------------------------------------------
(* lease_classification_jobs: one atomic statement.  SKIP LOCKED never     *)
(* shows here because a statement is one step.                             *)
(* Mutant: failed jobs are retried.                                        *)
EligibleOrFailed == {r \in Runs : jobs[r].status \in {"queued", "failed"}}

Eligible ==
  {r \in Runs : \/ jobs[r].status = "queued"
                \/ jobs[r].status = "leased" /\ ~jobs[r].live}

(* ORDER BY priority DESC, created_at ASC LIMIT: every job has priority 0. *)
Picked ==
  {r \in Eligible : Cardinality({s \in Eligible : s < r}) < BatchLimit}

LeaseJobs(p) ==
  /\ workers[p].step = "idle"
  /\ Picked # {}
  /\ jobs' = [r \in Runs |->
               IF r \in Picked
               THEN [jobs[r] EXCEPT !.status = "leased", !.live = TRUE,
                                    !.owner = WorkerIdOf[p]]
               ELSE jobs[r]]
  /\ workers' = [workers EXCEPT ![p].step = "select"]
  /\ UNCHANGED <<runs, faults>>

(* leased_jobs: the rows leased under this worker id whose lease is live,  *)
(* whoever leased them.  locked_at order among them is left open.          *)
LeasedTo(p) ==
  {r \in Runs : /\ jobs[r].status = "leased"
                /\ jobs[r].owner = WorkerIdOf[p]
                /\ jobs[r].live}

Batches(p) ==
  {B \in SUBSET LeasedTo(p) :
     \/ B = LeasedTo(p) /\ Cardinality(B) <= BatchLimit
     \/ Cardinality(B) = BatchLimit}

SelectLeased(p) ==
  /\ workers[p].step = "select"
  /\ \E B \in Batches(p) :
       workers' = [workers EXCEPT ![p].step = IF B = {} THEN "idle" ELSE "fetch",
                                  ![p].batch = B]
  /\ UNCHANGED <<runs, jobs, faults>>

(* classify_existing_run up to its write.  A terminal run is left alone; a *)
(* run without a pack makes the row accessor panic, which ends the worker  *)
(* task; otherwise the pack is evaluated on the job's frozen inputs.       *)
FetchRun(p, r) ==
  /\ workers[p].step = "fetch"
  /\ r \in workers[p].batch
  /\ \/ /\ runs[r].status \in TerminalStatus
        /\ workers' = [workers EXCEPT ![p].step = "complete", ![p].run = r]
     \/ /\ runs[r].status \notin TerminalStatus
        /\ jobs[r].pack = NoPack
        /\ workers' = [workers EXCEPT ![p] = [IdleWorker EXCEPT !.step = "dead"]]
     \/ /\ runs[r].status \notin TerminalStatus
        /\ jobs[r].pack # NoPack
        /\ workers' = [workers EXCEPT
                         ![p].step = IF Evaluation(jobs[r]) = EvalError
                                     THEN "fail" ELSE "persist",
                         ![p].run = r]
  /\ UNCHANGED <<runs, jobs, faults>>

(* Mutant: the review decision is dropped.                                 *)
DecidedClassified(r, p) ==
  [runs[r] EXCEPT !.outcome = Evaluation(jobs[r]), !.status = "classified",
                  !.finishedBy = p]

(* Mutant: the run gets the job's status instead of the decision.          *)
DecidedCompleted(r, p) ==
  [runs[r] EXCEPT !.status = "completed", !.finishedBy = p]

(* persist_run_outcome: the UPDATE and its guard on the stored status.     *)
Decided(r, p) ==
  LET outcome == Evaluation(jobs[r]) IN
  [runs[r] EXCEPT !.pack = jobs[r].pack, !.facts = jobs[r].facts,
                  !.outcome = outcome, !.status = StatusOf[outcome],
                  !.finishedBy = p]

(* Mutant: the UPDATE loses its guard on the stored status.                *)
WriteUnguarded(p, r) == runs' = [runs EXCEPT ![r] = Decided(r, p)]

WriteOutcome(p, r) ==
  runs' = IF runs[r].status \in TerminalStatus
          THEN runs
          ELSE [runs EXCEPT ![r] = Decided(r, p)]

PersistOutcome(p) ==
  /\ workers[p].step = "persist"
  /\ WriteOutcome(p, workers[p].run)
  /\ workers' = [workers EXCEPT ![p].step = "complete"]
  /\ UNCHANGED <<jobs, faults>>

(* mark_job_completed and mark_job_failed write by id alone; the loop of   *)
(* classify_queued_products then takes the next row of the batch.          *)
Marked(p, status) ==
  LET rest == workers[p].batch \ {workers[p].run} IN
  /\ jobs' = [jobs EXCEPT ![workers[p].run].status = status]
  /\ workers' = [workers EXCEPT ![p].step = IF rest = {} THEN "idle" ELSE "fetch",
                                ![p].batch = rest, ![p].run = NoRun]
  /\ UNCHANGED <<runs, faults>>

(* Mutant: the job is marked before the outcome is written.                *)
MarkCompletedEarly(p) ==
  workers[p].step \in {"persist", "complete"} /\ Marked(p, "completed")

MarkCompleted(p) == workers[p].step = "complete" /\ Marked(p, "completed")

MarkFailed(p) == workers[p].step = "fail" /\ Marked(p, "failed")

-----------------------------------------------------------------------------
(* Faults and time.                                                        *)

Fault == faults < MaxFaults /\ faults' = faults + 1

(* fetch_run or fetch_pack returns an error.                               *)
FetchFails(p, r) ==
  /\ Fault
  /\ workers[p].step = "fetch"
  /\ r \in workers[p].batch
  /\ workers' = [workers EXCEPT ![p].step = "fail", ![p].run = r]
  /\ UNCHANGED <<runs, jobs>>

(* The outcome UPDATE returns an error, with or without taking effect.     *)
PersistFails(p) ==
  /\ Fault
  /\ workers[p].step = "persist"
  /\ WriteOutcome(p, workers[p].run) \/ UNCHANGED runs
  /\ workers' = [workers EXCEPT ![p].step = "fail"]
  /\ UNCHANGED jobs

(* A failed lease, select or mark aborts the tick through "?"; a crash of  *)
(* the process and its restart lose the same local state.                  *)
TickAborts(p) ==
  /\ Fault
  /\ workers[p].step \notin {"idle", "dead"}
  /\ workers' = [workers EXCEPT ![p] = IdleWorker]
  /\ UNCHANGED <<runs, jobs>>

(* A worker task that panicked comes back only with its process.           *)
RestartProcess(p) ==
  /\ workers[p].step = "dead"
  /\ workers' = [workers EXCEPT ![p] = IdleWorker]
  /\ UNCHANGED <<runs, jobs, faults>>

InTick(r) ==
  \E p \in Procs : \/ workers[p].step = "select" /\ WorkerIdOf[p] = jobs[r].owner
                   \/ r \in workers[p].batch

(* leased_until passes: freely when no tick is under way on the job, as a  *)
(* fault when a tick is so slow that it outlives its own lease.            *)
LeaseExpires(r) ==
  /\ jobs[r].status = "leased"
  /\ jobs[r].live
  /\ jobs' = [jobs EXCEPT ![r].live = FALSE]
  /\ IF InTick(r) THEN SlowTicks /\ Fault ELSE UNCHANGED faults
  /\ UNCHANGED <<runs, workers>>

-----------------------------------------------------------------------------
Work(p) ==
  \/ LeaseJobs(p) \/ SelectLeased(p) \/ PersistOutcome(p)
  \/ MarkCompleted(p) \/ MarkFailed(p)
  \/ \E r \in Runs : FetchRun(p, r)

Disturb(p) ==
  \/ PersistFails(p) \/ TickAborts(p) \/ RestartProcess(p)
  \/ \E r \in Runs : FetchFails(p, r)

WorkerNext ==
  \/ \E p \in Procs : Work(p) \/ Disturb(p)
  \/ \E r \in Runs : LeaseExpires(r)

Enqueue(r) ==
  \E p \in Products, f \in Facts :
    \/ InsertBlocked(r, p, f)
    \/ \E k \in Packs : InsertQueued(r, p, k, f)

Next == WorkerNext \/ \E r \in Runs : Enqueue(r)

Spec == Init /\ [][Next]_vars

(* The loop ticks every second and the clock advances; nothing makes a     *)
(* request arrive, a fault happen or a process be restarted.               *)
Fairness ==
  /\ \A p \in Procs : WF_vars(Work(p))
  /\ \A r \in Runs : WF_vars(LeaseExpires(r) /\ ~InTick(r))

FairSpec == Spec /\ Fairness

-----------------------------------------------------------------------------
(* A run and its job carry the same frozen inputs, and no job exists       *)
(* without its run: insert_queued_run writes both in one transaction.      *)
JobMatchesRun ==
  \A r \in Runs :
    jobs[r] # NoRow => /\ runs[r] # NoRow
                       /\ jobs[r].pack = runs[r].pack
                       /\ jobs[r].facts = runs[r].facts

(* What a worker holds in memory between two statements stays true of the  *)
(* tables, whatever other workers do meanwhile: a row of its batch is a    *)
(* leased, completed or failed job, a run it is about to decide can be     *)
(* evaluated, and one it is about to mark completed has been decided.      *)
WorkerMemoryIsCurrent ==
  \A p \in Procs :
    LET w == workers[p] IN
    /\ w.step \in {"idle", "select", "dead"} => w.batch = {}
    /\ \A r \in w.batch : jobs[r].status \in {"leased", "completed", "failed"}
    /\ w.step \in {"persist", "complete", "fail"} => w.run \in w.batch
    /\ w.step = "persist" => /\ jobs[w.run].pack \in Packs
                             /\ Evaluation(jobs[w.run]) # EvalError
    /\ w.step = "complete" => runs[w.run].status \in TerminalStatus

(* A completed job's run is decided: a crash, an expired lease or a second *)
(* worker on the same job never leaves a completed job with an open run.   *)
CompletedMeansDecided ==
  \A r \in Runs :
    jobs[r].status = "completed" => runs[r].status \in TerminalStatus

(* A run with a pack that is no longer queued carries the outcome of that  *)
(* very pack on the facts stored beside it, whichever worker wrote it.     *)
DecidedByOwnInputs ==
  \A r \in Runs :
    (runs[r] # NoRow /\ runs[r].status # "queued" /\ runs[r].pack \in Packs) =>
      LET outcome == Verdict[<<runs[r].pack, runs[r].facts>>] IN
      /\ outcome # EvalError
      /\ runs[r].outcome = outcome
      /\ runs[r].status = StatusOf[outcome]

(* The inductive invariant the theorems rest on.                           *)
Inv ==
  /\ TypeOK
  /\ JobMatchesRun
  /\ WorkerMemoryIsCurrent
  /\ CompletedMeansDecided
  /\ DecidedByOwnInputs

(* A decided run row is never written again, not even its finished_at:     *)
(* the guard of persist_run_outcome makes a second delivery a no-op.       *)
DecisionIsFinal ==
  [][\A r \in Runs : runs[r].status \in TerminalStatus => runs'[r] = runs[r]]_vars

(* A job that was marked is never leased again, though a second worker may *)
(* still flip it between completed and failed.                             *)
MarkedJobsStayMarked ==
  [][\A r \in Runs : jobs[r].status \in {"completed", "failed"} =>
                       jobs'[r].status \in {"completed", "failed"}]_vars

(* The pipeline implements the ledger of decide-once runs.                 *)
Ledger == INSTANCE ClassificationRun WITH ledger <- [r \in Runs |-> Visible(runs[r])]
ImplementsLedger == Ledger!Spec
=============================================================================
