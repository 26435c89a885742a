--------------------------- MODULE MCAgentEvidence ---------------------------
(* Two trees with one snapshot, on which the command passes, and one on    *)
(* whose snapshot it fails; two phases.                                    *)
EXTENDS AgentEvidence

CONSTANTS works, rebuilt, broken, knowledge, implement, good, bad

MCSnapshotOf == [t \in Trees |-> IF t = broken THEN bad ELSE good]
MCPhases == <<"green", "regression">>
==============================================================================
