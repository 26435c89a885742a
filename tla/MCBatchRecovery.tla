---------------------------- MODULE MCBatchRecovery ----------------------------
(* Adjudications of each verdict, spelled as agents spell them, one that   *)
(* asks for a person and for a bugfix, and one that did not succeed.       *)
EXTENDS BatchRecovery

Adjudicates(status, d, bugfix) ==
  [status |-> status, decision |-> d, requiresBugfix |-> bugfix, requiresHuman |-> Unset]

MCAdjudications ==
  {Adjudicates("PASS", "ACCEPT_WARNING", Unset), Adjudicates("SUCCESS", "NEEDS_BUGFIX", Unset),
   Adjudicates("SUCCESS", "HUMAN", Unset), Adjudicates("SUCCESS", Unset, "yes"),
   Adjudicates("PARTIAL_SUCCESS", "ACCEPT", Unset)}
===============================================================================
