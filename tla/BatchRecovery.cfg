\* One attempt for each signature, four in all.
SPECIFICATION FairSpec
CONSTANTS
  MaxBugfixAttempts = 1
  Raised = {"MISSING_E2E_EVIDENCE", "PROTECTED_PATH", "COMMAND_RERUN_FAILED", "ENTRYPOINT_UNVERIFIED", "QUALITY_WARNING"}
  Adjudications <- MCAdjudications
INVARIANTS AcceptedPassedGates HumanDecisionStands
PROPERTIES  RecoveryEnds
CHECK_DEADLOCK FALSE
