\* Two runtimes, of which one continues a batch.
SPECIFICATION Spec
CONSTANTS
  Procs = {p1, p2}
  NoLock = NoLock
  Torn = Torn
  Overlap = FALSE
INVARIANT OneRuntime
CHECK_DEADLOCK FALSE
