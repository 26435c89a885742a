\* Two requests at once for the same products, among imports and activations.
SPECIFICATION RequestsSpec
CONSTANTS
  us = us  eu = eu  packUs = packUs  packEu = packEu
  soldUs = soldUs  soldEu = soldEu  ok = ok
  Runs = {1, 2}
  Products = {x1, x2}
  Packs = {packUs, packEu}
  Facts = {soldUs, soldEu}
  Outcomes = {ok}
  Verdict <- MCVerdict
  StatusOf <- MCStatusOf
  EvalError = EvalError  NoPack = NoPack  NoOutcome = NoOutcome
  Procs = {}
  WorkerIds = {}
  NoProc = NoProc  NoWorker = NoWorker
  Jurisdictions = {us, eu}
  JurisdictionOf <- MCJurisdictionOf
  MarketOf <- MCMarketOf
  NoFacts = NoFacts
  Handlers = {h1, h2}
  RequestLimit = 2
INVARIANTS QueuedRunHasJob PackFitsFacts RepliesHold
