----------------------- MODULE ClassificationPipeline -----------------------
(***************************************************************************)
(* The request handlers of RunRequests and the worker loops of             *)
(* ClassificationJobs on the two tables they share.  The requests' commits *)
(* take the place of ClassificationJobs' Enqueue.  ImplementsLedger is a   *)
(* property of the whole again: no request, however long its transaction   *)
(* stays open, puts back a row a worker has decided, and no activation or  *)
(* import reaches a queued or a decided run.                               *)
(***************************************************************************)
EXTENDS RunRequests, ClassificationJobs

pipelineVars == <<requestVars, workers, faults>>

PipelineInit == RequestsInit /\ Init

PipelineNext ==
  \/ RequestsNext /\ UNCHANGED <<workers, faults>>
  \/ WorkerNext /\ UNCHANGED <<facts, active, handlers>>

PipelineSpec == PipelineInit /\ [][PipelineNext]_pipelineVars

(* Only the worker loops and the clock are fair: nobody has to ask, to     *)
(* import or to activate, and a request may be abandoned.                  *)
FairPipeline == PipelineSpec /\ Fairness

-----------------------------------------------------------------------------
(* A reply may name a run an earlier request has queued, or one a worker   *)
(* has decided; it never names one whose job no worker will take: every    *)
(* run a client was told of ends decided or with its job marked failed.    *)
AnswersSettle ==
  \A h \in Handlers, r \in Runs :
    (handlers[h].step = "replied" /\ r \in handlers[h].answers) ~>
      (runs[r].status \in TerminalStatus \/ jobs[r].status = "failed")

(* No worker ever finds a run queued by a request without a pack, so the   *)
(* panic on a NULL rule_pack_id is out of reach of the API where the       *)
(* migration found no old jobs.                                            *)
WorkersSurvive == \A p \in Procs : workers[p].step # "dead"
=============================================================================
