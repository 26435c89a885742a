\* A reviewer, an auditor and two rendering workers around one run.
SPECIFICATION FairSpec
CONSTANTS
  k1 = k1  f1 = f1  f2 = f2  x1 = x1  found = found  none = none  c1 = c1  c2 = c2
  Runs = {1}
  Products = {x1}
  Packs = {k1}
  Facts = {f1, f2}
  Outcomes = {found, none}
  Verdict <- MCVerdict
  StatusOf <- MCStatusOf
  EvalError = EvalError  NoPack = NoPack  NoOutcome = NoOutcome
  Procs = {p1, p2}
  WorkerIds = {}
  NoProc = NoProc  NoWorker = NoWorker
  Codes = {c1, c2}
  NoCode = NoCode
  CodeOf <- MCCodeOf
  Exports = {1}
  NoExport = NoExport
  NoRun = NoRun
  Reviewers = {v1}
  Auditors = {a1}
  ExportLimit = 1
  MaxOverrides = 2
  MaxFaults = 1
INVARIANT ExportsAreEvidence
 
