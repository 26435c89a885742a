\* Four items, up to three commands, five files and one operator.
SPECIFICATION Spec
CONSTANTS
  i1 = i1  i2 = i2  i3 = i3  i4 = i4  a = a  x = x  p = p  t = t  e = e  new = new  c1 = c1
  ItemSeq <- MCItemSeq
  Affected <- MCAffected
  DomainOf <- MCDomainOf
  Audits = {i2}
  SharedFiles = {}
  MaxParallel = 2
  MaxBatchSize = 2
  Files = {a, x, p, t, e}
  Dirs = {new}
  Inside <- MCInside
  KindOf <- MCKindOf
  Outcomes <- MCOutcomes
  External = {c1}
  OperatorClaims <- MCClaims
  NoClaim = NoClaim  NoTree = NoTree
  MaxBatches = 2
  MaxCommands = 3
INVARIANTS StandingClaimsAreKept CommittedClaimsClose
PROPERTIES MergedBatchIsWhole UncommittedWorkSurvives
CHECK_DEADLOCK FALSE
