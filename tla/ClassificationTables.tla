------------------------ MODULE ClassificationTables ------------------------
(***************************************************************************)
(* The two database tables the classification pipeline lives on, as rows   *)
(* over finite sets of ids: classification_runs and classification_jobs.   *)
(* A job is written in the transaction that writes its run and there is    *)
(* one job per run, so both tables are indexed by the run's id.            *)
(*                                                                         *)
(* A product's facts and a rule pack's rules are opaque; what evaluating a *)
(* pack on a snapshot gives is the constant function Verdict.              *)
(***************************************************************************)
EXTENDS Naturals, FiniteSets

CONSTANTS Runs,       \* ids of run rows, ordered by created_at
          Products, Packs, Facts,
          Outcomes,   \* what a successful evaluation can select and report
          Verdict,    \* [Packs \X Facts -> Outcomes \cup {EvalError}]
          StatusOf,   \* [Outcomes -> DecidedStatus]
          EvalError, NoPack, NoOutcome,
          Procs,      \* engine processes, each with one worker loop
          WorkerIds,  \* values of lease_owner
          NoProc, NoWorker

(* outcome_decision() returns one of these.                                *)
DecidedStatus == {"classified", "needs_review", "blocked"}

(* terminal_status(), and the NOT IN list of persist_run_outcome.          *)
TerminalStatus == DecidedStatus \cup {"completed", "failed"}

ASSUME TablesAssumption ==
  /\ Runs \subseteq Nat
  /\ IsFiniteSet(Runs)
  /\ Verdict \in [Packs \X Facts -> Outcomes \cup {EvalError}]
  /\ StatusOf \in [Outcomes -> DecidedStatus]
  /\ EvalError \notin Outcomes
  /\ NoPack \notin Packs
  /\ NoOutcome \notin Outcomes
  /\ NoProc \notin Procs
  /\ NoWorker \notin WorkerIds

(* A row that has not been inserted.                                       *)
NoRow == [status |-> "absent"]

(* classification_runs: the pack and the facts frozen by the insert, the   *)
(* outcome columns, and the process whose write set finished_at.           *)
RunRow == [product : Products, pack : Packs \cup {NoPack}, facts : Facts,
           status : {"queued", "running"} \cup TerminalStatus,
           outcome : Outcomes \cup {NoOutcome},
           finishedBy : Procs \cup {NoProc}]

(* classification_jobs: the payload's frozen inputs and the lease columns; *)
(* live abstracts leased_until > now().                                    *)
JobRow == [pack : Packs \cup {NoPack}, facts : Facts,
           status : {"queued", "leased", "completed", "failed"},
           owner : WorkerIds \cup {NoWorker}, live : BOOLEAN]

QueuedRun(product, pack, facts) ==
  [product |-> product, pack |-> pack, facts |-> facts, status |-> "queued",
   outcome |-> NoOutcome, finishedBy |-> NoProc]

BlockedRun(product, facts) ==
  [product |-> product, pack |-> NoPack, facts |-> facts, status |-> "blocked",
   outcome |-> NoOutcome, finishedBy |-> NoProc]

QueuedJob(pack, facts) ==
  [pack |-> pack, facts |-> facts, status |-> "queued",
   owner |-> NoWorker, live |-> FALSE]

(* evaluate_pack() on a job's frozen inputs.                               *)
Evaluation(job) == Verdict[<<job.pack, job.facts>>]

(* What a reader of the API sees of a run: not which process finished it.  *)
Visible(row) ==
  IF row = NoRow THEN NoRow
  ELSE [product |-> row.product, pack |-> row.pack, facts |-> row.facts,
        status |-> row.status, outcome |-> row.outcome]
=============================================================================
