\* Requests for two products and a worker, with one fault and slow ticks.
SPECIFICATION FairPipeline
CONSTANTS
  us = us  k1 = k1  f1 = f1  f2 = f2  x1 = x1  x2 = x2
  classifiedAs = classifiedAs  reviewAs = reviewAs  w1 = w1  p1 = p1
  Runs = {1, 2}
  Products = {x1, x2}
  Packs = {k1}
  Facts = {f1, f2}
  Outcomes = {classifiedAs, reviewAs}
  Verdict <- MCVerdict
  StatusOf <- MCStatusOf
  EvalError = EvalError  NoPack = NoPack  NoOutcome = NoOutcome
  Procs = {p1}
  WorkerIds = {w1}
  NoProc = NoProc  NoWorker = NoWorker
  Jurisdictions = {us}
  JurisdictionOf <- MCJurisdictionOf
  MarketOf <- MCMarketOf
  NoFacts = NoFacts
  Handlers = {h1}
  RequestLimit = 2
  WorkerIdOf <- SharedId
  BatchLimit = 1
  Migrated = {}
  NoRun = NoRun
  SlowTicks = TRUE
  MaxFaults = 1
INVARIANTS WorkersSurvive OneRunPerPack
PROPERTY ImplementsLedger AnswersSettle
