---------------------------- MODULE EvaluatedRuns ----------------------------
(***************************************************************************)
(* The worker loops with the verdicts of real rule packs: what a run says  *)
(* is tied to the rules of its frozen pack and the words of its product.   *)
(***************************************************************************)
EXTENDS ClassificationJobs, RuleEvaluation

CONSTANTS DocumentOf,  \* [Packs -> Document]: rule_packs.payload
          WordsOf      \* [Facts -> SUBSET Words]: the text of a snapshot

(* evaluate_pack on a pack's payload and a snapshot.                       *)
VerdictOf(pack, facts) ==
  IF Evaluable(DocumentOf[pack].rules)
  THEN Evaluate(DocumentOf[pack].rules, WordsOf[facts])
  ELSE EvalError

ASSUME EvaluationAssumption ==
  /\ DocumentOf \in [Packs -> Document]
  /\ WordsOf \in [Facts -> SUBSET Words]
  /\ Verdict = [in \in Packs \X Facts |-> VerdictOf(in[1], in[2])]
  /\ StatusOf = [outcome \in Outcomes |-> OutcomeDecision(outcome)]

-----------------------------------------------------------------------------
(* The rules of a run's pack that its product's text satisfies.            *)
Found(run) ==
  LET rules == DocumentOf[run.pack].rules IN
  {rules[i] : i \in {j \in DOMAIN rules : rules[j].contains \in WordsOf[run.facts]}}

(* Nobody looks at a classified run again: its code is that of a rule of   *)
(* its own pack that fits its own product, of enough confidence, and no    *)
(* rule with another code that fits as well comes within the tie distance, *)
(* wherever in the pack the rules stand and whichever worker decided.      *)
ClassifiedIsClear ==
  \A r \in Runs :
    (runs[r] # NoRow /\ runs[r].status = "classified") =>
      \E best \in Found(runs[r]) :
        /\ best.code = runs[r].outcome.code
        /\ best.code \in Codes
        /\ best.confidence >= ReviewThreshold
        /\ \A other \in Found(runs[r]) :
             other.code = best.code \/ best.confidence - other.confidence >= TieDelta

(* A run by a certified pack on a product with the text of one of its      *)
(* golden cases is never decided for another code than the case expects.   *)
GoldenCasesBind ==
  \A r \in Runs :
    (runs[r] # NoRow /\ runs[r].pack \in Packs /\ runs[r].status # "queued") =>
      LET document == DocumentOf[runs[r].pack] IN
      Certified(document) =>
        \A i \in DOMAIN document.golden :
          document.golden[i].words = WordsOf[runs[r].facts]
            => runs[r].outcome.code = document.golden[i].expected
=============================================================================
