--------------------------- MODULE ReviewAndExport ---------------------------
(***************************************************************************)
(* What happens to a run once it is decided: reviewers append overrides,   *)
(* auditors freeze it into audit exports, worker ticks render exports that *)
(* are queued or have failed, and downloads render them again.  None of    *)
(* these handlers opens a transaction, so each of their statements is a    *)
(* step.  The runs themselves come and go as ClassificationRun says.       *)
(***************************************************************************)
EXTENDS ClassificationTables, Sequences

CONSTANTS Codes, NoCode,
          CodeOf,        \* [Outcomes -> Codes \cup {NoCode}]: selected_code
          Exports, NoExport, NoRun,
          Reviewers, Auditors,
          ExportLimit,   \* config.audit_export_limit
          MaxOverrides,  \* bound on the overrides of a run, for model checking
          MaxFaults      \* bound on failures in a tick, for model checking

ASSUME ReviewAssumption ==
  /\ NoCode \notin Codes
  /\ CodeOf \in [Outcomes -> Codes \cup {NoCode}]
  /\ Exports \subseteq Nat
  /\ IsFiniteSet(Exports)
  /\ NoExport \notin Exports
  /\ NoRun \notin Runs
  /\ ExportLimit \in Nat \ {0}
  /\ MaxOverrides \in Nat
  /\ MaxFaults \in Nat

VARIABLES ledger,     \* the runs, as their readers see them
          history,    \* the overrides of each run, ordered by created_at
          exports,    \* the audit_exports table, numbered by created_at
          reviewers, auditors, renderers,  \* the handlers' local state
          faults

vars == <<ledger, history, exports, reviewers, auditors, renderers, faults>>

Ledger == INSTANCE ClassificationRun

SelectedCode(row) == IF row.outcome \in Outcomes THEN CodeOf[row.outcome] ELSE NoCode

Override == [previous : Codes \cup {NoCode}, code : Codes]

ExportStatus == {"queued", "rendering", "ready", "failed"}

IdleReviewer == [step |-> "idle", run |-> NoRun, selected |-> NoCode, previous |-> NoCode]

IdleAuditor == [step |-> "idle", run |-> NoRun, row |-> NoRow, overrides |-> <<>>]

IdleRenderer == [step |-> "idle", batch |-> {}, export |-> NoExport]

LedgerRow == [product : Products, pack : Packs \cup {NoPack}, facts : Facts,
              status : {"queued"} \cup DecidedStatus, outcome : Outcomes \cup {NoOutcome}]

Reviewer == [step : {"idle", "latest", "insert"}, run : Runs \cup {NoRun},
             selected : Codes \cup {NoCode}, previous : Codes \cup {NoCode}]

Auditor == [step : {"idle", "row", "overrides", "insert"}, run : Runs \cup {NoRun},
            row : LedgerRow \cup {NoRow}, overrides : Seq(Override)]

Renderer == [step : {"idle", "next", "render", "fail"}, batch : SUBSET Exports,
             export : Exports \cup {NoExport}]

(* An audit_exports row with its payload_snapshot: run row and overrides.  *)
Export == [run : Runs, row : LedgerRow \cup {NoRow}, overrides : Seq(Override),
           status : ExportStatus]

TypeOK ==
  /\ ledger \in [Runs -> LedgerRow \cup {NoRow}]
  /\ history \in [Runs -> Seq(Override)]
  /\ exports \in [Exports -> Export \cup {NoRow}]
  /\ reviewers \in [Reviewers -> Reviewer]
  /\ auditors \in [Auditors -> Auditor]
  /\ renderers \in [Procs -> Renderer]
  /\ faults \in 0..MaxFaults

Init ==
  /\ ledger = [r \in Runs |-> NoRow]
  /\ history = [r \in Runs |-> <<>>]
  /\ exports = [e \in Exports |-> NoRow]
  /\ reviewers = [v \in Reviewers |-> IdleReviewer]
  /\ auditors = [a \in Auditors |-> IdleAuditor]
  /\ renderers = [p \in Procs |-> IdleRenderer]
  /\ faults = 0

(* Requests and workers insert and decide run r.                           *)
Classify(r) ==
  /\ \/ ledger[r] = NoRow /\ \E row \in Ledger!QueuedRows(Packs) \cup Ledger!BlockedRows :
                              ledger' = [ledger EXCEPT ![r] = row]
     \/ Ledger!CanDecide(ledger[r]) /\ ledger' = [ledger EXCEPT ![r] = Ledger!DecidedRow(@)]
  /\ UNCHANGED <<history, exports, reviewers, auditors, renderers, faults>>

-----------------------------------------------------------------------------
(* create_reviewer_override: any run may be overridden, decided or not.    *)

FetchOverrideRun(v, r) ==
  /\ reviewers[v].step = "idle"
  /\ ledger[r] # NoRow
  /\ reviewers' = [reviewers EXCEPT
                     ![v] = [step |-> "latest", run |-> r, previous |-> NoCode,
                             selected |-> SelectedCode(ledger[r])]]
  /\ UNCHANGED <<ledger, history, exports, auditors, renderers, faults>>

LatestEffectiveCode(v) ==
  LET past == history[reviewers[v].run] IN
  /\ reviewers[v].step = "latest"
  /\ reviewers' = [reviewers EXCEPT
                     ![v].step = "insert",
                     ![v].previous = IF past = <<>> THEN reviewers[v].selected
                                     ELSE past[Len(past)].code]
  /\ UNCHANGED <<ledger, history, exports, auditors, renderers, faults>>

InsertOverride(v, code) ==
  LET r == reviewers[v].run IN
  /\ reviewers[v].step = "insert"
  /\ Len(history[r]) < MaxOverrides
  /\ history' = [history EXCEPT
                   ![r] = Append(@, [previous |-> reviewers[v].previous, code |-> code])]
  /\ reviewers' = [reviewers EXCEPT ![v] = IdleReviewer]
  /\ UNCHANGED <<ledger, exports, auditors, renderers, faults>>

-----------------------------------------------------------------------------
(* create_audit_export.                                                    *)

(* Mutant: the status of the run is not looked at.                         *)
AcceptAnyRun(a, r) ==
  /\ auditors[a].step = "idle"
  /\ ledger[r] # NoRow
  /\ auditors' = [auditors EXCEPT ![a].step = "row", ![a].run = r]
  /\ UNCHANGED <<ledger, history, exports, reviewers, renderers, faults>>

EnsureExportReady(a, r) ==
  /\ auditors[a].step = "idle"
  /\ ledger[r].status \in {"classified", "needs_review", "completed", "blocked"}
  /\ auditors' = [auditors EXCEPT ![a].step = "row", ![a].run = r]
  /\ UNCHANGED <<ledger, history, exports, reviewers, renderers, faults>>

FetchSnapshotRow(a) ==
  /\ auditors[a].step = "row"
  /\ auditors' = [auditors EXCEPT ![a].step = "overrides",
                                  ![a].row = ledger[auditors[a].run]]
  /\ UNCHANGED <<ledger, history, exports, reviewers, renderers, faults>>

FetchOverrides(a) ==
  /\ auditors[a].step = "overrides"
  /\ auditors' = [auditors EXCEPT ![a].step = "insert",
                                  ![a].overrides = history[auditors[a].run]]
  /\ UNCHANGED <<ledger, history, exports, reviewers, renderers, faults>>

FreeExports == {e \in Exports : exports[e] = NoRow}

InsertExport(a) ==
  /\ auditors[a].step = "insert"
  /\ \E e \in FreeExports :
       exports' = [exports EXCEPT
                     ![e] = [run |-> auditors[a].run, row |-> auditors[a].row,
                             overrides |-> auditors[a].overrides, status |-> "ready"]]
  /\ auditors' = [auditors EXCEPT ![a] = IdleAuditor]
  /\ UNCHANGED <<ledger, history, reviewers, renderers, faults>>

(* A row that is still to be rendered, with the snapshot of a decided run: *)
(* no handler inserts one, the worker's SELECT and a test are about them.  *)
QueueExport(e, r) ==
  /\ e \in FreeExports
  /\ ledger[r].status \in DecidedStatus
  /\ exports' = [exports EXCEPT
                   ![e] = [run |-> r, row |-> ledger[r], overrides |-> history[r],
                           status |-> "queued"]]
  /\ UNCHANGED <<ledger, history, reviewers, auditors, renderers, faults>>

-----------------------------------------------------------------------------
(* export_audit_pack, the second half of a worker tick, and downloads.     *)

SetStatus(e, status) == exports' = [exports EXCEPT ![e].status = status]

(* Mutant: failed exports are not retried.                                 *)
UnrenderedQueued == {e \in Exports : exports[e].status = "queued"}

Unrendered == {e \in Exports : exports[e].status \in {"queued", "failed"}}

SelectExports(p) ==
  /\ renderers[p].step = "idle"
  /\ Unrendered # {}
  /\ renderers' = [renderers EXCEPT
       ![p].step = "next",
       ![p].batch = {e \in Unrendered :
                       Cardinality({d \in Unrendered : d < e}) < ExportLimit}]
  /\ UNCHANGED <<ledger, history, exports, reviewers, auditors, faults>>

(* By id alone, whatever has happened to the row since it was selected.    *)
MarkRendering(p, e) ==
  /\ renderers[p].step = "next"
  /\ e \in renderers[p].batch
  /\ SetStatus(e, "rendering")
  /\ renderers' = [renderers EXCEPT ![p].step = "render", ![p].export = e]
  /\ UNCHANGED <<ledger, history, reviewers, auditors, faults>>

NextExport(p) ==
  LET rest == renderers[p].batch \ {renderers[p].export} IN
  renderers' = [renderers EXCEPT
                  ![p] = [step |-> IF rest = {} THEN "idle" ELSE "next",
                          batch |-> rest, export |-> NoExport]]

(* The snapshot and the format are immutable, so that reading them is not  *)
(* a step of its own; neither format can fail to render.                   *)
RenderAndMarkReady(p) ==
  /\ renderers[p].step = "render"
  /\ SetStatus(renderers[p].export, "ready")
  /\ NextExport(p)
  /\ UNCHANGED <<ledger, history, reviewers, auditors, faults>>

(* A statement of export_audit_pack_from_snapshot fails.                   *)
RenderFails(p) ==
  /\ renderers[p].step = "render"
  /\ faults < MaxFaults
  /\ faults' = faults + 1
  /\ renderers' = [renderers EXCEPT ![p].step = "fail"]
  /\ UNCHANGED <<ledger, history, exports, reviewers, auditors>>

MarkExportFailed(p) ==
  /\ renderers[p].step = "fail"
  /\ SetStatus(renderers[p].export, "failed")
  /\ NextExport(p)
  /\ UNCHANGED <<ledger, history, reviewers, auditors, faults>>

(* The process ends, or one of the tick's own UPDATEs fails: "?" leaves    *)
(* the tick, and with it the rows it has marked.                           *)
TickAborts(p) ==
  /\ renderers[p].step # "idle"
  /\ faults < MaxFaults
  /\ faults' = faults + 1
  /\ renderers' = [renderers EXCEPT ![p] = IdleRenderer]
  /\ UNCHANGED <<ledger, history, exports, reviewers, auditors>>

Download(e) ==
  /\ exports[e] # NoRow
  /\ SetStatus(e, "ready")
  /\ UNCHANGED <<ledger, history, reviewers, auditors, renderers, faults>>

-----------------------------------------------------------------------------
Render(p) ==
  \/ SelectExports(p) \/ RenderAndMarkReady(p) \/ MarkExportFailed(p)
  \/ \E e \in Exports : MarkRendering(p, e)

Next ==
  \/ \E r \in Runs : Classify(r)
  \/ \E v \in Reviewers : \/ LatestEffectiveCode(v)
                          \/ \E r \in Runs : FetchOverrideRun(v, r)
                          \/ \E code \in Codes : InsertOverride(v, code)
  \/ \E a \in Auditors : \/ FetchSnapshotRow(a) \/ FetchOverrides(a) \/ InsertExport(a)
                         \/ \E r \in Runs : EnsureExportReady(a, r)
  \/ \E p \in Procs : Render(p) \/ RenderFails(p) \/ TickAborts(p)
  \/ \E e \in Exports : Download(e) \/ \E r \in Runs : QueueExport(e, r)

Spec == Init /\ [][Next]_vars

(* The worker loops tick every second; nobody has to download.             *)
FairSpec == Spec /\ \A p \in Procs : WF_vars(Render(p))

-----------------------------------------------------------------------------
Prefix(past, whole) ==
  /\ Len(past) <= Len(whole)
  /\ \A i \in 1..Len(past) : past[i] = whole[i]

(* What a request has read stays true while it goes on reading: a run an   *)
(* auditor asked for was decided and therefore never changes, and its      *)
(* history only grows at the end; a reviewer's run and a tick's exports    *)
(* exist.                                                                  *)
HandlersAreCurrent ==
  /\ \A v \in Reviewers :
       reviewers[v].step # "idle" =>
         reviewers[v].run \in Runs /\ ledger[reviewers[v].run] # NoRow
  /\ \A a \in Auditors :
       LET w == auditors[a] IN
       /\ w.step # "idle" => w.run \in Runs /\ ledger[w.run].status \in DecidedStatus
       /\ w.step \in {"overrides", "insert"} => w.row = ledger[w.run]
       /\ w.step = "insert" => Prefix(w.overrides, history[w.run])
  /\ \A p \in Procs :
       /\ \A e \in renderers[p].batch : exports[e] # NoRow
       /\ renderers[p].step \in {"render", "fail"} =>
            renderers[p].export \in renderers[p].batch

(* An export is evidence: it shows the decision the run has had ever since *)
(* and, as its overrides, the first ones of the run's history, although    *)
(* status, row and overrides are read by three statements.                 *)
ExportsAreEvidence ==
  \A e \in Exports :
    exports[e] # NoRow =>
      LET x == exports[e] IN
      /\ x.row = ledger[x.run]
      /\ x.row.status \in DecidedStatus
      /\ Prefix(x.overrides, history[x.run])

(* The inductive invariant the theorems rest on.                           *)
Inv == TypeOK /\ HandlersAreCurrent /\ ExportsAreEvidence

(* Each override names the code it replaced.  No run checks this: it holds *)
(* with one reviewer and fails with two, who read the same code.           *)
ChainOfCodes ==
  \A r \in Runs : \A i \in 2..Len(history[r]) :
    history[r][i].previous = history[r][i - 1].code

(* A failed export is retried by every later tick until it is ready.  Two  *)
(* workers may mark it in any order; when faults have ended, no export is  *)
(* left queued or failed.                                                  *)
FailedExportsAreRetried ==
  \A e \in Exports :
    exports[e] # NoRow ~>
      [](exports[e] # NoRow /\ exports[e].status \in {"rendering", "ready"})

(* Every export ends ready and stays so.  No run checks this: it fails if  *)
(* a tick breaks off, after which the export is "rendering" for ever.      *)
ExportsEndReady ==
  \A e \in Exports : exports[e] # NoRow ~> [](exports[e] # NoRow /\ exports[e].status = "ready")
=============================================================================
