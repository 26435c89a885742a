------------------------ MODULE MCRulePackActivation ------------------------
(* Two packs of one jurisdiction, which has no active pack yet, and one of *)
(* another, which is seeded as active and would not pass the gate itself.  *)
EXTENDS RulePackActivation

CONSTANTS seed, spring, autumn, us, eu

MCJurisdictionOf == [k \in Packs |-> IF k = seed THEN eu ELSE us]
MCPasses == [k \in Packs |-> k # seed]
=============================================================================
