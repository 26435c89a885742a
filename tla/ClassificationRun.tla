-------------------------- MODULE ClassificationRun --------------------------
(***************************************************************************)
(* What the pipeline promises of a classification run, with no workers, no *)
(* leases and no job rows: a run is inserted once, either blocked or       *)
(* queued with the pack and the facts it is to be judged by; a queued run  *)
(* is decided at most once, by those inputs; nothing else ever happens to  *)
(* it.  A transaction may insert several runs, so a step is a relation on  *)
(* every row at once.                                                      *)
(***************************************************************************)
EXTENDS ClassificationTables

VARIABLE ledger

QueuedRows(packs) ==
  {Visible(QueuedRun(p, k, f)) : p \in Products, k \in packs, f \in Facts}

BlockedRows ==
  {Visible(BlockedRun(p, f)) : p \in Products, f \in Facts}

(* A decided run shows exactly what its own frozen inputs evaluate to.     *)
DecidedRow(row) ==
  LET outcome == Verdict[<<row.pack, row.facts>>] IN
  [row EXCEPT !.status = StatusOf[outcome], !.outcome = outcome]

CanDecide(row) ==
  /\ row.status = "queued"
  /\ row.pack \in Packs
  /\ Verdict[<<row.pack, row.facts>>] # EvalError

RowStep(old, new) ==
  \/ new = old
  \/ old = NoRow /\ new \in QueuedRows(Packs) \cup BlockedRows
  \/ CanDecide(old) /\ new = DecidedRow(old)

(* Rows made by the migration may be queued without a pack: never decided. *)
Init == ledger \in [Runs -> {NoRow} \cup QueuedRows({NoPack})]

Next ==
  /\ DOMAIN ledger' = Runs
  /\ \A r \in Runs : RowStep(ledger[r], ledger'[r])

Spec == Init /\ [][Next]_ledger
=============================================================================
