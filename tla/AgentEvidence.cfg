\* Two ids, one of them with a time-out, one retry, late results.
SPECIFICATION FairSpec
CONSTANTS
  works = works  rebuilt = rebuilt  broken = broken
  knowledge = knowledge  implement = implement  good = good  bad = bad
  Ids = {knowledge, implement}
  Timed = {knowledge}
  MaxRetries = 1
  Trees = {works, broken}
  SnapshotOf <- MCSnapshotOf
  Passing = {good}
  Phases <- MCPhases
  LateWrites = TRUE
INVARIANTS ReturnedIsRecent 
PROPERTIES RunsEnd GateSettles
