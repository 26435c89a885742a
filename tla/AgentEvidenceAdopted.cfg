\* As AgentEvidence.cfg; what was adopted from session logs is looked at.
SPECIFICATION Spec
CONSTANTS
  works = works  rebuilt = rebuilt  broken = broken
  knowledge = knowledge  implement = implement  good = good  bad = bad
  Ids = {knowledge, implement}
  Timed = {knowledge}
  MaxRetries = 1
  Trees = {works, broken}
  SnapshotOf <- MCSnapshotOf
  Passing = {good}
  Phases <- MCPhases
  LateWrites = TRUE
INVARIANT AdoptedPassesHold
