\* Three runtimes, whose file system calls do not overlap.
SPECIFICATION FairSpec
CONSTANTS
  Procs = {p1, p2, p3}
  NoLock = NoLock
  Torn = Torn
  Overlap = FALSE
INVARIANT LockedIsExclusive
PROPERTIES OnlyStalledRunsAreStopped AbandonedLockIsTaken
CHECK_DEADLOCK FALSE
