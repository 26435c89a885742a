\* Two replicas of the shipped binary: both workers call themselves w1.
SPECIFICATION Spec
CONSTANTS
  p1 = p1  p2 = p2  w1 = w1  w2 = w2  x1 = x1
  good = good  bad = bad  f1 = f1  f2 = f2
  shirts = shirts  knitwear = knitwear  fabric = fabric
  shirt = shirt  knit = knit  cotton = cotton
  Codes = {shirts, knitwear, fabric}
  NoCode = NoCode
  Words = {shirt, knit, cotton}
  NoWord = NoWord
  MaxConfidence = 100
  RoundsToTie <- Doubles
  Outputs <- RequiredOutputs
  DocumentOf <- MCDocumentOf
  WordsOf <- MCWordsOf
  Runs = {1, 2, 3}
  Products = {x1}
  Packs = {good, bad}
  Facts = {f1, f2}
  Outcomes <- MCOutcomes
  Verdict <- MCVerdict
  StatusOf <- MCStatusOf
  EvalError = EvalError  NoPack = NoPack  NoOutcome = NoOutcome
  Procs = {p1, p2}
  WorkerIds = {w1}
  NoProc = NoProc  NoWorker = NoWorker
  WorkerIdOf <- SharedId
  BatchLimit = 2
  Migrated = {1}
  NoRun = NoRun
  SlowTicks = TRUE
  MaxFaults = 2
INVARIANTS  DecidedByOwnInputs ClassifiedIsClear
PROPERTIES DecisionIsFinal MarkedJobsStayMarked ImplementsLedger
CHECK_DEADLOCK FALSE
