---------------------- MODULE MCClassificationPipeline ----------------------
(* A pack that cannot be evaluated on one version of the facts.            *)
EXTENDS ClassificationPipeline

CONSTANTS us, k1, f1, f2, x1, x2, classifiedAs, reviewAs, w1, p1

MCJurisdictionOf == [k \in Packs |-> us]
MCMarketOf == [f \in Facts |-> us]
MCVerdict ==
  [in \in Packs \X Facts |->
     IF in = <<k1, f2>> THEN EvalError
     ELSE IF in[2] = f1 THEN classifiedAs ELSE reviewAs]
MCStatusOf ==
  [o \in Outcomes |-> IF o = classifiedAs THEN "classified" ELSE "needs_review"]
SharedId == [p \in Procs |-> w1]
=============================================================================
