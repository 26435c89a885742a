----------------------- MODULE ReviewAndExport_proofs -----------------------
(* Proofs about ReviewAndExport, for any runs, reviewers, auditors,        *)
(* rendering workers, exports and bounds.                                  *)
EXTENDS ReviewAndExport, TLAPS

USE TablesAssumption, ReviewAssumption

LEMMA InitInv == Init => Inv
<1> SUFFICES ASSUME Init PROVE Inv
  OBVIOUS
<1>1. TypeOK
  BY DEF Init, TypeOK, IdleReviewer, IdleAuditor, IdleRenderer, Reviewer, Auditor, Renderer
<1>2. HandlersAreCurrent
  BY DEF Init, HandlersAreCurrent, IdleAuditor, IdleReviewer, IdleRenderer
<1>3. ExportsAreEvidence
  BY DEF Init, ExportsAreEvidence
<1>4. QED  BY <1>1, <1>2, <1>3 DEF Inv

(* A run that is inserted or decided was in no export and no auditor's     *)
(* hands: those hold runs that are decided already.                        *)
LEMMA LedgerStep ==
  ASSUME Inv, NEW r \in Runs, NEW row \in LedgerRow,
         ledger' = [ledger EXCEPT ![r] = row],
         ledger[r].status \notin DecidedStatus,
         UNCHANGED <<history, exports, reviewers, auditors, renderers, faults>>
  PROVE  Inv'
<1>1. TypeOK'
  BY DEF Inv, TypeOK
<1>2. HandlersAreCurrent'
  <2>1. ASSUME NEW v \in Reviewers, reviewers[v].step # "idle"
        PROVE  reviewers[v].run \in Runs /\ ledger'[reviewers[v].run] # NoRow
    <3>1. reviewers[v].run \in Runs /\ ledger[reviewers[v].run] # NoRow
      BY <2>1 DEF Inv, HandlersAreCurrent
    <3>2. row # NoRow
      BY DEF LedgerRow, NoRow, DecidedStatus
    <3>3. QED  BY <3>1, <3>2 DEF Inv, TypeOK
  <2>2. ASSUME NEW q \in Runs, ledger[q].status \in DecidedStatus
        PROVE  ledger'[q] = ledger[q]
    BY <2>2 DEF Inv, TypeOK
  <2>3. QED  BY <2>1, <2>2 DEF Inv, HandlersAreCurrent
<1>3. ExportsAreEvidence'
  BY DEF Inv, TypeOK, ExportsAreEvidence, Export, NoRow
<1>4. QED  BY <1>1, <1>2, <1>3 DEF Inv

LEMMA InsertedIsRow ==
  ASSUME NEW row \in Ledger!QueuedRows(Packs) \cup Ledger!BlockedRows
  PROVE  row \in LedgerRow
<1>a. \A x : Ledger!Visible(x) = Visible(x)
  BY DEF Ledger!Visible, Ledger!NoRow, Visible, NoRow
<1>b. \A p, k, f : Ledger!QueuedRun(p, k, f) = QueuedRun(p, k, f)
  BY DEF Ledger!QueuedRun, QueuedRun
<1>c. \A p, f : Ledger!BlockedRun(p, f) = BlockedRun(p, f)
  BY DEF Ledger!BlockedRun, BlockedRun
<1>1. CASE row \in Ledger!QueuedRows(Packs)
  <2>1. PICK p \in Products, k \in Packs, f \in Facts : row = Visible(QueuedRun(p, k, f))
    BY <1>1, <1>a, <1>b DEF Ledger!QueuedRows
  <2>2. row = [product |-> p, pack |-> k, facts |-> f, status |-> "queued",
               outcome |-> NoOutcome]
    BY <2>1 DEF Visible, QueuedRun, NoRow
  <2>3. QED  BY <2>2 DEF LedgerRow
<1>2. CASE row \in Ledger!BlockedRows
  <2>1. PICK p \in Products, f \in Facts : row = Visible(BlockedRun(p, f))
    BY <1>2, <1>a, <1>c DEF Ledger!BlockedRows
  <2>2. row = [product |-> p, pack |-> NoPack, facts |-> f, status |-> "blocked",
               outcome |-> NoOutcome]
    BY <2>1 DEF Visible, BlockedRun, NoRow
  <2>3. QED  BY <2>2 DEF LedgerRow, DecidedStatus
<1>3. QED  BY <1>1, <1>2

LEMMA DecidedIsRow ==
  ASSUME NEW row \in LedgerRow, Ledger!CanDecide(row)
  PROVE  Ledger!DecidedRow(row) \in LedgerRow
<1>1. row.pack \in Packs /\ row.facts \in Facts
  BY DEF LedgerRow, Ledger!CanDecide
<1>2. Verdict[<<row.pack, row.facts>>] \in Outcomes
  <2>1. <<row.pack, row.facts>> \in Packs \X Facts
    BY <1>1
  <2>2. QED  BY <2>1 DEF Ledger!CanDecide
<1>3. StatusOf[Verdict[<<row.pack, row.facts>>]] \in DecidedStatus
  BY <1>2
<1>4. QED  BY <1>2, <1>3 DEF Ledger!DecidedRow, LedgerRow

LEMMA ClassifyKeepsInv ==
  ASSUME Inv, NEW r \in Runs, Classify(r)
  PROVE  Inv'
<1>1. CASE ledger[r] = NoRow
  <2>1. PICK row \in Ledger!QueuedRows(Packs) \cup Ledger!BlockedRows :
          ledger' = [ledger EXCEPT ![r] = row]
    BY <1>1 DEF Classify, Ledger!CanDecide, NoRow
  <2>2. row \in LedgerRow
    BY InsertedIsRow
  <2>3. ledger[r].status \notin DecidedStatus
    BY <1>1 DEF NoRow, DecidedStatus
  <2>4. QED  BY <2>1, <2>2, <2>3, LedgerStep DEF Classify
<1>2. CASE ledger[r] # NoRow
  <2>1. Ledger!CanDecide(ledger[r])
        /\ ledger' = [ledger EXCEPT ![r] = Ledger!DecidedRow(ledger[r])]
    BY <1>2 DEF Classify
  <2>2. ledger[r] \in LedgerRow
    BY <1>2 DEF Inv, TypeOK
  <2>3. Ledger!DecidedRow(ledger[r]) \in LedgerRow
    BY <2>1, <2>2, DecidedIsRow
  <2>4. ledger[r].status \notin DecidedStatus
    BY <2>1 DEF Ledger!CanDecide, DecidedStatus
  <2>5. QED  BY <2>1, <2>3, <2>4, LedgerStep DEF Classify
<1>3. QED  BY <1>1, <1>2

-----------------------------------------------------------------------------
(* Reviewers.                                                              *)

LEMMA ReviewerStep ==
  ASSUME Inv, NEW v \in Reviewers, NEW w \in Reviewer,
         reviewers' = [reviewers EXCEPT ![v] = w],
         w.step # "idle" => w.run \in Runs /\ ledger[w.run] # NoRow,
         UNCHANGED <<ledger, history, exports, auditors, renderers, faults>>
  PROVE  Inv'
<1>1. TypeOK'
  BY DEF Inv, TypeOK
<1>2. HandlersAreCurrent'
  BY DEF Inv, TypeOK, HandlersAreCurrent
<1>3. ExportsAreEvidence'
  BY DEF Inv, ExportsAreEvidence
<1>4. QED  BY <1>1, <1>2, <1>3 DEF Inv

LEMMA SelectedIsCode ==
  ASSUME NEW row
  PROVE  SelectedCode(row) \in Codes \cup {NoCode}
BY DEF SelectedCode

LEMMA FetchRunKeepsInv ==
  ASSUME Inv, NEW v \in Reviewers, NEW r \in Runs, FetchOverrideRun(v, r)
  PROVE  Inv'
<1> DEFINE w == [step |-> "latest", run |-> r, previous |-> NoCode,
                 selected |-> SelectedCode(ledger[r])]
<1>1. w \in Reviewer
  BY SelectedIsCode DEF Reviewer
<1>2. reviewers' = [reviewers EXCEPT ![v] = w]
  BY DEF FetchOverrideRun
<1>3. w.run = r
  OBVIOUS
<1> HIDE DEF w
<1>4. QED  BY <1>1, <1>2, <1>3, ReviewerStep DEF FetchOverrideRun

LEMMA LatestCodeKeepsInv ==
  ASSUME Inv, NEW v \in Reviewers, LatestEffectiveCode(v)
  PROVE  Inv'
<1> DEFINE past == history[reviewers[v].run]
           code == IF past = <<>> THEN reviewers[v].selected ELSE past[Len(past)].code
           w == [reviewers[v] EXCEPT !.step = "insert", !.previous = code]
<1>1. /\ reviewers[v] \in Reviewer
      /\ reviewers[v].run \in Runs
      /\ ledger[reviewers[v].run] # NoRow
  BY DEF Inv, TypeOK, HandlersAreCurrent, LatestEffectiveCode
<1>2. code \in Codes \cup {NoCode}
  <2>1. past \in Seq(Override)
    BY <1>1 DEF Inv, TypeOK
  <2>2. past # <<>> => past[Len(past)] \in Override
    BY <2>1
  <2>3. QED  BY <1>1, <2>2 DEF Override, Reviewer
<1>3. reviewers' = [reviewers EXCEPT ![v] = w]
  BY <1>1 DEF LatestEffectiveCode, Inv, TypeOK
<1> HIDE DEF code
<1>4. w \in Reviewer
  BY <1>1, <1>2 DEF Reviewer
<1>5. w.run = reviewers[v].run
  BY <1>1 DEF Reviewer
<1> HIDE DEF w
<1>6. QED  BY <1>1, <1>3, <1>4, <1>5, ReviewerStep DEF LatestEffectiveCode

(* A history grows at its end, and what it began with remains.             *)
LEMMA PrefixOfLonger ==
  ASSUME NEW past \in Seq(Override), NEW whole \in Seq(Override), NEW o \in Override,
         Prefix(past, whole)
  PROVE  Prefix(past, Append(whole, o))
BY DEF Prefix

LEMMA InsertOverrideKeepsInv ==
  ASSUME Inv, NEW v \in Reviewers, NEW code \in Codes, InsertOverride(v, code)
  PROVE  Inv'
<1> DEFINE r == reviewers[v].run
           o == [previous |-> reviewers[v].previous, code |-> code]
<1>1. r \in Runs /\ o \in Override
  BY DEF Inv, TypeOK, HandlersAreCurrent, InsertOverride, Reviewer, Override
<1>2. history' = [history EXCEPT ![r] = Append(history[r], o)]
  BY DEF InsertOverride
<1>3. reviewers' = [reviewers EXCEPT ![v] = IdleReviewer]
      /\ IdleReviewer \in Reviewer /\ IdleReviewer.step = "idle"
  BY DEF InsertOverride, IdleReviewer, Reviewer
<1>4. UNCHANGED <<ledger, exports, auditors, renderers, faults>>
  BY DEF InsertOverride
<1>5. history[r] \in Seq(Override) /\ history \in [Runs -> Seq(Override)]
  BY <1>1 DEF Inv, TypeOK
<1> HIDE DEF r, o
<1>6. ASSUME NEW q \in Runs, NEW past \in Seq(Override), Prefix(past, history[q])
      PROVE  Prefix(past, history'[q])
  BY <1>1, <1>2, <1>5, <1>6, PrefixOfLonger
<1>7. TypeOK'
  <2>1. history' \in [Runs -> Seq(Override)]
    BY <1>1, <1>2, <1>5
  <2>2. reviewers' \in [Reviewers -> Reviewer]
    BY <1>3 DEF Inv, TypeOK
  <2>3. QED  BY <1>4, <2>1, <2>2 DEF Inv, TypeOK
<1>8. HandlersAreCurrent'
  <2>1. ASSUME NEW u \in Reviewers, reviewers'[u].step # "idle"
        PROVE  reviewers'[u].run \in Runs /\ ledger'[reviewers'[u].run] # NoRow
    BY <1>3, <1>4, <2>1 DEF Inv, TypeOK, HandlersAreCurrent
  <2>2. ASSUME NEW a \in Auditors, auditors[a].step = "insert"
        PROVE  Prefix(auditors[a].overrides, history'[auditors[a].run])
    BY <1>6, <2>2 DEF Inv, TypeOK, HandlersAreCurrent, Auditor
  <2>3. QED  BY <1>4, <2>1, <2>2 DEF Inv, HandlersAreCurrent
<1>9. ExportsAreEvidence'
  <2>1. ASSUME NEW e \in Exports, exports[e] # NoRow
        PROVE  Prefix(exports[e].overrides, history'[exports[e].run])
    BY <1>6, <2>1 DEF Inv, TypeOK, ExportsAreEvidence, Export
  <2>2. QED  BY <1>4, <2>1 DEF Inv, ExportsAreEvidence
<1>10. QED  BY <1>7, <1>8, <1>9 DEF Inv

-----------------------------------------------------------------------------
(* Auditors.                                                               *)

LEMMA AuditorStep ==
  ASSUME Inv, NEW a \in Auditors, NEW w \in Auditor,
         auditors' = [auditors EXCEPT ![a] = w],
         w.step # "idle" => w.run \in Runs /\ ledger[w.run].status \in DecidedStatus,
         w.step \in {"overrides", "insert"} => w.row = ledger[w.run],
         w.step = "insert" => Prefix(w.overrides, history[w.run]),
         UNCHANGED <<ledger, history, exports, reviewers, renderers, faults>>
  PROVE  Inv'
<1>1. TypeOK'
  BY DEF Inv, TypeOK
<1>2. HandlersAreCurrent'
  BY DEF Inv, TypeOK, HandlersAreCurrent
<1>3. ExportsAreEvidence'
  BY DEF Inv, ExportsAreEvidence
<1>4. QED  BY <1>1, <1>2, <1>3 DEF Inv

LEMMA EnsureReadyKeepsInv ==
  ASSUME Inv, NEW a \in Auditors, NEW r \in Runs, EnsureExportReady(a, r)
  PROVE  Inv'
<1> DEFINE w == [auditors[a] EXCEPT !.step = "row", !.run = r]
<1>1. auditors[a] \in Auditor
  BY DEF Inv, TypeOK
<1>2. w \in Auditor /\ w.step = "row" /\ w.run = r
  BY <1>1 DEF Auditor
<1>3. auditors' = [auditors EXCEPT ![a] = w]
  BY DEF EnsureExportReady, Inv, TypeOK
<1>4. ledger[r].status \in DecidedStatus
  <2>1. ledger[r] \in LedgerRow \cup {NoRow}
    BY DEF Inv, TypeOK
  <2>2. QED  BY <2>1 DEF EnsureExportReady, LedgerRow, NoRow, DecidedStatus
<1> HIDE DEF w
<1>5. QED  BY <1>2, <1>3, <1>4, AuditorStep DEF EnsureExportReady

LEMMA FetchRowKeepsInv ==
  ASSUME Inv, NEW a \in Auditors, FetchSnapshotRow(a)
  PROVE  Inv'
<1> DEFINE row == ledger[auditors[a].run]
           w == [auditors[a] EXCEPT !.step = "overrides", !.row = row]
<1>1. /\ auditors[a] \in Auditor
      /\ auditors[a].run \in Runs
      /\ row.status \in DecidedStatus
  BY DEF Inv, TypeOK, HandlersAreCurrent, FetchSnapshotRow
<1>2. row \in LedgerRow \cup {NoRow}
  BY <1>1 DEF Inv, TypeOK
<1>3. w \in Auditor /\ w.step = "overrides" /\ w.run = auditors[a].run /\ w.row = row
  BY <1>1, <1>2 DEF Auditor
<1>4. auditors' = [auditors EXCEPT ![a] = w]
  BY DEF FetchSnapshotRow, Inv, TypeOK
<1>5. w.run \in Runs /\ ledger[w.run].status \in DecidedStatus /\ w.row = ledger[w.run]
  BY <1>1, <1>3
<1>6. UNCHANGED <<ledger, history, exports, reviewers, renderers, faults>>
  BY DEF FetchSnapshotRow
<1>7. w \in Auditor /\ w.step # "insert"
  BY <1>3
<1> HIDE DEF w
<1>8. QED  BY <1>4, <1>5, <1>6, <1>7, AuditorStep

LEMMA FetchOverridesKeepsInv ==
  ASSUME Inv, NEW a \in Auditors, FetchOverrides(a)
  PROVE  Inv'
<1> DEFINE past == history[auditors[a].run]
           w == [auditors[a] EXCEPT !.step = "insert", !.overrides = past]
<1>1. /\ auditors[a] \in Auditor
      /\ auditors[a].run \in Runs
      /\ ledger[auditors[a].run].status \in DecidedStatus
      /\ auditors[a].row = ledger[auditors[a].run]
  BY DEF Inv, TypeOK, HandlersAreCurrent, FetchOverrides
<1>2. past \in Seq(Override)
  BY <1>1 DEF Inv, TypeOK
<1>3. /\ w \in Auditor
      /\ w.step = "insert"
      /\ w.run = auditors[a].run
      /\ w.row = auditors[a].row
      /\ w.overrides = past
  BY <1>1, <1>2 DEF Auditor
<1>4. auditors' = [auditors EXCEPT ![a] = w]
  BY DEF FetchOverrides, Inv, TypeOK
<1>5. Prefix(past, past)
  BY <1>2 DEF Prefix
<1>6. /\ w.run \in Runs
      /\ ledger[w.run].status \in DecidedStatus
      /\ w.row = ledger[w.run]
      /\ Prefix(w.overrides, history[w.run])
  BY <1>1, <1>3, <1>5
<1>7. UNCHANGED <<ledger, history, exports, reviewers, renderers, faults>>
  BY DEF FetchOverrides
<1>8. w \in Auditor
  BY <1>3
<1> HIDE DEF w
<1>9. QED  BY <1>4, <1>6, <1>7, <1>8, AuditorStep

-----------------------------------------------------------------------------
(* Exports.                                                                *)

LEMMA ExportStep ==
  ASSUME Inv, NEW e \in Exports, NEW x \in Export,
         exports' = [exports EXCEPT ![e] = x],
         x.row = ledger[x.run],
         x.row.status \in DecidedStatus,
         Prefix(x.overrides, history[x.run]),
         UNCHANGED <<ledger, history, reviewers, auditors, renderers, faults>>
  PROVE  Inv'
<1>1. x # NoRow
  BY DEF Export, ExportStatus, NoRow
<1>2. TypeOK'
  BY DEF Inv, TypeOK
<1>3. HandlersAreCurrent'
  <2>1. ASSUME NEW p \in Procs, NEW d \in renderers[p].batch
        PROVE  exports'[d] # NoRow
    BY <1>1 DEF Inv, TypeOK, HandlersAreCurrent, Renderer
  <2>2. QED  BY <2>1 DEF Inv, HandlersAreCurrent
<1>4. ExportsAreEvidence'
  BY DEF Inv, TypeOK, ExportsAreEvidence
<1>5. QED  BY <1>2, <1>3, <1>4 DEF Inv

(* A handler that forgets what it read.                                    *)
LEMMA AuditorDone ==
  ASSUME Inv, NEW a \in Auditors
  PROVE  [auditors EXCEPT ![a] = IdleAuditor] \in [Auditors -> Auditor]
BY DEF Inv, TypeOK, IdleAuditor, Auditor

LEMMA InsertExportKeepsInv ==
  ASSUME Inv, NEW a \in Auditors, InsertExport(a)
  PROVE  Inv'
<1> DEFINE x == [run |-> auditors[a].run, row |-> auditors[a].row,
                 overrides |-> auditors[a].overrides, status |-> "ready"]
<1>1. /\ auditors[a] \in Auditor
      /\ auditors[a].run \in Runs
      /\ ledger[auditors[a].run].status \in DecidedStatus
      /\ auditors[a].row = ledger[auditors[a].run]
      /\ Prefix(auditors[a].overrides, history[auditors[a].run])
  BY DEF Inv, TypeOK, HandlersAreCurrent, InsertExport
<1>2. x \in Export /\ x # NoRow
  BY <1>1 DEF Auditor, Export, ExportStatus, NoRow
<1>3. PICK e \in Exports : exports' = [exports EXCEPT ![e] = x]
  BY DEF InsertExport, FreeExports
<1>4. x.row = ledger[x.run] /\ x.row.status \in DecidedStatus
      /\ Prefix(x.overrides, history[x.run])
  BY <1>1
<1> HIDE DEF x
<1>5. auditors' = [auditors EXCEPT ![a] = IdleAuditor]
      /\ UNCHANGED <<ledger, history, reviewers, renderers, faults>>
  BY DEF InsertExport
<1>6. TypeOK'
  <2>1. exports' \in [Exports -> Export \cup {NoRow}]
    BY <1>2, <1>3 DEF Inv, TypeOK
  <2>2. QED  BY <1>5, <2>1, AuditorDone DEF Inv, TypeOK
<1>7. HandlersAreCurrent'
  <2>1. ASSUME NEW p \in Procs, NEW d \in renderers[p].batch
        PROVE  exports'[d] # NoRow
    BY <1>2, <1>3 DEF Inv, TypeOK, HandlersAreCurrent, Renderer
  <2>2. ASSUME NEW b \in Auditors, auditors'[b].step # "idle"
        PROVE  auditors'[b] = auditors[b]
    BY <1>5, <2>2 DEF Inv, TypeOK, IdleAuditor
  <2>3. QED  BY <1>5, <2>1, <2>2 DEF Inv, HandlersAreCurrent
<1>8. ExportsAreEvidence'
  BY <1>3, <1>4, <1>5 DEF Inv, TypeOK, ExportsAreEvidence
<1>9. QED  BY <1>6, <1>7, <1>8 DEF Inv

LEMMA QueueExportKeepsInv ==
  ASSUME Inv, NEW e \in Exports, NEW r \in Runs, QueueExport(e, r)
  PROVE  Inv'
<1> DEFINE x == [run |-> r, row |-> ledger[r], overrides |-> history[r],
                 status |-> "queued"]
<1>1. /\ ledger[r] \in LedgerRow \cup {NoRow}
      /\ history[r] \in Seq(Override)
      /\ ledger[r].status \in DecidedStatus
  BY DEF Inv, TypeOK, QueueExport
<1>2. x \in Export
  BY <1>1 DEF Export, ExportStatus
<1>3. exports' = [exports EXCEPT ![e] = x]
  BY DEF QueueExport
<1>4. x.row = ledger[x.run] /\ x.row.status \in DecidedStatus
      /\ Prefix(x.overrides, history[x.run])
  BY <1>1 DEF Prefix
<1>5. UNCHANGED <<ledger, history, reviewers, auditors, renderers, faults>>
  BY DEF QueueExport
<1> HIDE DEF x
<1>6. QED  BY <1>2, <1>3, <1>4, <1>5, ExportStep

(* Rendering and downloading touch the status of an export, never its      *)
(* snapshot.                                                               *)
LEMMA StatusStep ==
  ASSUME Inv, NEW e \in Exports, NEW status \in ExportStatus, SetStatus(e, status),
         exports[e] # NoRow,
         UNCHANGED <<ledger, history, reviewers, auditors, renderers, faults>>
  PROVE  Inv'
<1> DEFINE x == [exports[e] EXCEPT !.status = status]
<1>1. exports[e] \in Export
  BY DEF Inv, TypeOK
<1>2. x \in Export /\ x.row = exports[e].row /\ x.run = exports[e].run
      /\ x.overrides = exports[e].overrides
  BY <1>1 DEF Export
<1>3. exports' = [exports EXCEPT ![e] = x]
  BY DEF SetStatus
<1>4. x.row = ledger[x.run] /\ x.row.status \in DecidedStatus
      /\ Prefix(x.overrides, history[x.run])
  BY <1>2 DEF Inv, ExportsAreEvidence
<1> HIDE DEF x
<1>5. QED  BY <1>2, <1>3, <1>4, ExportStep

(* A tick's own memory.                                                    *)
LEMMA RendererStep ==
  ASSUME Inv, NEW p \in Procs, NEW w \in Renderer,
         renderers' = [renderers EXCEPT ![p] = w],
         \A e \in w.batch : exports[e] # NoRow,
         w.step \in {"render", "fail"} => w.export \in w.batch,
         faults' \in 0..MaxFaults,
         UNCHANGED <<ledger, history, exports, reviewers, auditors>>
  PROVE  Inv'
<1>1. TypeOK'
  BY DEF Inv, TypeOK
<1>2. HandlersAreCurrent'
  BY DEF Inv, TypeOK, HandlersAreCurrent
<1>3. ExportsAreEvidence'
  BY DEF Inv, ExportsAreEvidence
<1>4. QED  BY <1>1, <1>2, <1>3 DEF Inv

-----------------------------------------------------------------------------
(* A tick's statements on an export touch its status, and the export it    *)
(* has in hand exists.                                                     *)
LEMMA InHand ==
  ASSUME Inv, NEW p \in Procs, renderers[p].step \in {"render", "fail"}
  PROVE  renderers[p].export \in Exports /\ exports[renderers[p].export] # NoRow
BY DEF Inv, TypeOK, HandlersAreCurrent, Renderer

(* Status first, then the tick's memory: what both change in one step.     *)
LEMMA TickStep ==
  ASSUME Inv, NEW p \in Procs, NEW w \in Renderer,
         NEW e \in Exports, NEW status \in ExportStatus, SetStatus(e, status),
         exports[e] # NoRow,
         renderers' = [renderers EXCEPT ![p] = w],
         w.batch \subseteq renderers[p].batch,
         w.step \in {"render", "fail"} => w.export \in w.batch,
         UNCHANGED <<ledger, history, reviewers, auditors, faults>>
  PROVE  Inv'
<1> DEFINE x == [exports[e] EXCEPT !.status = status]
<1>1. exports[e] \in Export
  BY DEF Inv, TypeOK
<1>2. x \in Export /\ x # NoRow /\ x.row = exports[e].row /\ x.run = exports[e].run
      /\ x.overrides = exports[e].overrides
  BY <1>1 DEF Export, ExportStatus, NoRow
<1>3. exports' = [exports EXCEPT ![e] = x]
  BY DEF SetStatus
<1> HIDE DEF x
<1>4. TypeOK'
  BY <1>2, <1>3 DEF Inv, TypeOK
<1>5. HandlersAreCurrent'
  <2>1. ASSUME NEW q \in Procs, NEW d \in renderers'[q].batch
        PROVE  exports'[d] # NoRow
    <3>1. d \in renderers[q].batch
      BY DEF Inv, TypeOK
    <3>2. d \in Exports /\ exports[d] # NoRow
      BY <3>1 DEF Inv, TypeOK, HandlersAreCurrent, Renderer
    <3>3. QED  BY <1>2, <1>3, <3>2 DEF Inv, TypeOK
  <2>2. ASSUME NEW q \in Procs, renderers'[q].step \in {"render", "fail"}
        PROVE  renderers'[q].export \in renderers'[q].batch
    BY <2>2 DEF Inv, TypeOK, HandlersAreCurrent
  <2>3. QED  BY <2>1, <2>2 DEF Inv, HandlersAreCurrent
<1>6. ExportsAreEvidence'
  <2>1. ASSUME NEW d \in Exports, exports'[d] # NoRow
        PROVE  /\ exports[d] # NoRow
               /\ exports'[d].row = exports[d].row
               /\ exports'[d].run = exports[d].run
               /\ exports'[d].overrides = exports[d].overrides
    BY <1>2, <1>3, <2>1 DEF Inv, TypeOK
  <2>2. QED  BY <2>1 DEF Inv, ExportsAreEvidence
<1>7. QED  BY <1>4, <1>5, <1>6 DEF Inv

LEMMA SelectKeepsInv ==
  ASSUME Inv, NEW p \in Procs, SelectExports(p)
  PROVE  Inv'
<1> DEFINE B == {e \in Unrendered : Cardinality({d \in Unrendered : d < e}) < ExportLimit}
           w == [renderers[p] EXCEPT !.step = "next", !.batch = B]
<1>1. B \subseteq Exports /\ \A e \in B : exports[e] # NoRow
  BY DEF Unrendered, NoRow
<1>2. renderers' = [renderers EXCEPT ![p] = w]
  BY DEF SelectExports, Inv, TypeOK
<1> HIDE DEF B
<1>3. renderers[p] \in Renderer
  BY DEF Inv, TypeOK
<1>4. w \in Renderer /\ w.step = "next" /\ w.batch = B
  BY <1>1, <1>3 DEF Renderer
<1>5. UNCHANGED <<ledger, history, exports, reviewers, auditors, faults>>
  BY DEF SelectExports
<1>6. faults' \in 0..MaxFaults
  BY <1>5 DEF Inv, TypeOK
<1> HIDE DEF w
<1>7. QED  BY <1>1, <1>2, <1>4, <1>5, <1>6, RendererStep

LEMMA MarkRenderingKeepsInv ==
  ASSUME Inv, NEW p \in Procs, NEW e \in Exports, MarkRendering(p, e)
  PROVE  Inv'
<1> DEFINE w == [renderers[p] EXCEPT !.step = "render", !.export = e]
<1>1. renderers[p] \in Renderer /\ e \in renderers[p].batch /\ exports[e] # NoRow
  BY DEF Inv, TypeOK, HandlersAreCurrent, MarkRendering
<1>2. w \in Renderer /\ w.batch = renderers[p].batch /\ w.export = e
  BY <1>1 DEF Renderer
<1>3. renderers' = [renderers EXCEPT ![p] = w]
  BY DEF MarkRendering, Inv, TypeOK
<1>4. /\ SetStatus(e, "rendering") /\ "rendering" \in ExportStatus
      /\ UNCHANGED <<ledger, history, reviewers, auditors, faults>>
  BY DEF MarkRendering, ExportStatus
<1> HIDE DEF w
<1>5. QED  BY <1>1, <1>2, <1>3, <1>4, TickStep

LEMMA MarkKeepsInv ==
  ASSUME Inv, NEW p \in Procs, NEW status \in ExportStatus,
         renderers[p].step \in {"render", "fail"},
         SetStatus(renderers[p].export, status), NextExport(p),
         UNCHANGED <<ledger, history, reviewers, auditors, faults>>
  PROVE  Inv'
<1> DEFINE rest == renderers[p].batch \ {renderers[p].export}
           w == [step |-> IF rest = {} THEN "idle" ELSE "next",
                 batch |-> rest, export |-> NoExport]
<1>1. rest \subseteq renderers[p].batch /\ rest \subseteq Exports
  BY DEF Inv, TypeOK, Renderer
<1>2. renderers' = [renderers EXCEPT ![p] = w]
  BY DEF NextExport
<1> HIDE DEF rest
<1>3. w \in Renderer /\ w.step \notin {"render", "fail"} /\ w.batch = rest
  BY <1>1 DEF Renderer
<1>4. w.batch \subseteq renderers[p].batch
  BY <1>1, <1>3
<1> HIDE DEF w
<1>5. QED  BY <1>2, <1>3, <1>4, InHand, TickStep

LEMMA RenderFailsKeepsInv ==
  ASSUME Inv, NEW p \in Procs, RenderFails(p)
  PROVE  Inv'
<1> DEFINE w == [renderers[p] EXCEPT !.step = "fail"]
<1>1. /\ renderers[p] \in Renderer
      /\ renderers[p].export \in renderers[p].batch
      /\ \A e \in renderers[p].batch : exports[e] # NoRow
  BY DEF Inv, TypeOK, HandlersAreCurrent, RenderFails
<1>2. w \in Renderer /\ w.batch = renderers[p].batch /\ w.export = renderers[p].export
  BY <1>1 DEF Renderer
<1>3. renderers' = [renderers EXCEPT ![p] = w]
  BY DEF RenderFails, Inv, TypeOK
<1>4. faults' \in 0..MaxFaults
  BY DEF RenderFails, Inv, TypeOK
<1>5. UNCHANGED <<ledger, history, exports, reviewers, auditors>>
  BY DEF RenderFails
<1> HIDE DEF w
<1>6. QED  BY <1>1, <1>2, <1>3, <1>4, <1>5, RendererStep

LEMMA TickAbortsKeepsInv ==
  ASSUME Inv, NEW p \in Procs, TickAborts(p)
  PROVE  Inv'
<1>1. IdleRenderer \in Renderer /\ IdleRenderer.batch = {} /\ IdleRenderer.step = "idle"
  BY DEF IdleRenderer, Renderer
<1>2. /\ renderers' = [renderers EXCEPT ![p] = IdleRenderer]
      /\ UNCHANGED <<ledger, history, exports, reviewers, auditors>>
  BY DEF TickAborts
<1>3. faults' \in 0..MaxFaults
  BY DEF TickAborts, Inv, TypeOK
<1>4. QED  BY <1>1, <1>2, <1>3, RendererStep

-----------------------------------------------------------------------------
LEMMA NextKeepsInv == Inv /\ [Next]_vars => Inv'
<1> SUFFICES ASSUME Inv, [Next]_vars PROVE Inv'
  OBVIOUS
<1>1. ASSUME NEW r \in Runs, Classify(r) PROVE Inv'
  BY <1>1, ClassifyKeepsInv
<1>2. ASSUME NEW v \in Reviewers, NEW r \in Runs, FetchOverrideRun(v, r) PROVE Inv'
  BY <1>2, FetchRunKeepsInv
<1>3. ASSUME NEW v \in Reviewers, LatestEffectiveCode(v) PROVE Inv'
  BY <1>3, LatestCodeKeepsInv
<1>4. ASSUME NEW v \in Reviewers, NEW code \in Codes, InsertOverride(v, code) PROVE Inv'
  BY <1>4, InsertOverrideKeepsInv
<1>5. ASSUME NEW a \in Auditors, NEW r \in Runs, EnsureExportReady(a, r) PROVE Inv'
  BY <1>5, EnsureReadyKeepsInv
<1>6. ASSUME NEW a \in Auditors, FetchSnapshotRow(a) PROVE Inv'
  BY <1>6, FetchRowKeepsInv
<1>7. ASSUME NEW a \in Auditors, FetchOverrides(a) PROVE Inv'
  BY <1>7, FetchOverridesKeepsInv
<1>8. ASSUME NEW a \in Auditors, InsertExport(a) PROVE Inv'
  BY <1>8, InsertExportKeepsInv
<1>9. ASSUME NEW e \in Exports, NEW r \in Runs, QueueExport(e, r) PROVE Inv'
  BY <1>9, QueueExportKeepsInv
<1>10. ASSUME NEW p \in Procs, SelectExports(p) PROVE Inv'
  BY <1>10, SelectKeepsInv
<1>11. ASSUME NEW p \in Procs, NEW e \in Exports, MarkRendering(p, e) PROVE Inv'
  BY <1>11, MarkRenderingKeepsInv
<1>12. ASSUME NEW p \in Procs, RenderAndMarkReady(p) PROVE Inv'
  BY <1>12, MarkKeepsInv DEF RenderAndMarkReady, ExportStatus
<1>13. ASSUME NEW p \in Procs, MarkExportFailed(p) PROVE Inv'
  BY <1>13, MarkKeepsInv DEF MarkExportFailed, ExportStatus
<1>14. ASSUME NEW p \in Procs, RenderFails(p) PROVE Inv'
  BY <1>14, RenderFailsKeepsInv
<1>15. ASSUME NEW p \in Procs, TickAborts(p) PROVE Inv'
  BY <1>15, TickAbortsKeepsInv
<1>16. ASSUME NEW e \in Exports, Download(e) PROVE Inv'
  <2>1. /\ SetStatus(e, "ready") /\ "ready" \in ExportStatus /\ exports[e] # NoRow
        /\ UNCHANGED <<ledger, history, reviewers, auditors, renderers, faults>>
    BY <1>16 DEF Download, ExportStatus
  <2>2. QED  BY <2>1, StatusStep
<1>17. ASSUME UNCHANGED vars PROVE Inv'
  <2>1. TypeOK' /\ HandlersAreCurrent' /\ ExportsAreEvidence'
    BY <1>17 DEF Inv, vars, TypeOK, HandlersAreCurrent, ExportsAreEvidence
  <2>2. QED  BY <2>1 DEF Inv
<1>18. QED
  BY <1>1, <1>2, <1>3, <1>4, <1>5, <1>6, <1>7, <1>8, <1>9, <1>10, <1>11, <1>12, <1>13,
     <1>14, <1>15, <1>16, <1>17 DEF Next, Render

(* The invariant of the review and export handlers holds in every reachable *)
(* state: what a handler has read with one statement stays true until it    *)
(* acts on it with another.                                                 *)
THEOREM Safety == Spec => []Inv
<1>1. Init => Inv
  BY InitInv
<1>2. Inv /\ [Next]_vars => Inv'
  BY NextKeepsInv
<1>3. QED  BY <1>1, <1>2, PTL DEF Spec

(* Every audit export shows the final decision of its run and the beginning *)
(* of the run's override history, whatever the order of the reads of its    *)
(* snapshot, new overrides, ticks and downloads.                            *)
THEOREM ExportsAreTrue == Spec => []ExportsAreEvidence
<1>1. Inv => ExportsAreEvidence
  BY DEF Inv
<1>2. QED  BY <1>1, Safety, PTL
=============================================================================
