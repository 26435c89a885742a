--------------------------- MODULE RuleEvaluation ---------------------------
(***************************************************************************)
(* What a rule pack makes of a product, and what validating a pack checks. *)
(* A rule looks for one word in the product's text; of the rules that find *)
(* theirs the one of highest confidence is selected, and how far the other *)
(* ones are below it decides whether a person has to look at the run.      *)
(*                                                                         *)
(* A product is the set of words its text contains.  A confidence is a     *)
(* number of hundredths.  The code subtracts doubles: a difference of      *)
(* exactly five hundredths comes out at most 0.05 for some confidences and *)
(* above it for others, and RoundsToTie says for which.                    *)
(***************************************************************************)
EXTENDS Integers, Sequences, FiniteSets

CONSTANTS Codes, NoCode,  \* tariff codes, and a rule without one
          Words, NoWord,  \* what rules look for, and a rule without it
          MaxConfidence,  \* bounds what an upload may write
          RoundsToTie,    \* c for which c/100 - (c - 5)/100 <= 0.05
          Outputs         \* what a pack may claim to cover

RequiredOutputs == {"hs_hts_recommendation", "duty_estimate", "risk_band",
                    "audit_pack", "denied_goods_flag"}

ASSUME RulesAssumption ==
  /\ NoCode \notin Codes
  /\ NoWord \notin Words
  /\ MaxConfidence \in Nat
  /\ RoundsToTie \subseteq Nat
  /\ RequiredOutputs \subseteq Outputs

Rule == [code : Codes \cup {NoCode}, contains : Words \cup {NoWord},
         confidence : 0..MaxConfidence]

GoldenCase == [words : SUBSET Words, expected : Codes \cup {NoCode}]

(* RulePackDocument: its rules in the order of the source.                 *)
Document == [rules : Seq(Rule), golden : Seq(GoldenCase), outputs : SUBSET Outputs]

TieDelta == 5            \* TIE_CONFIDENCE_DELTA
ReviewThreshold == 82    \* below it a run needs review
MinGoldenCases == 10     \* MIN_GOLDEN_CASES_FOR_ACTIVATION

-----------------------------------------------------------------------------
(* evaluate_json fails if any rule, matching or not, has nothing to find.  *)
Evaluable(rules) == \A i \in DOMAIN rules : rules[i].contains # NoWord

Matched(rules, words) == {i \in DOMAIN rules : rules[i].contains \in words}

(* compare_rule_confidence under a stable sort: of equals the first wins.  *)
Precedes(rules, i, j) ==
  \/ rules[i].confidence > rules[j].confidence
  \/ rules[i].confidence = rules[j].confidence /\ i < j

Selected(rules, words) ==
  CHOOSE i \in Matched(rules, words) :
    \A j \in Matched(rules, words) \ {i} : Precedes(rules, i, j)

Ties(best, other) ==
  \/ best - other < TieDelta
  \/ best - other = TieDelta /\ best \in RoundsToTie

(* push_rule and reject_lower_ranked_matches: why a rule is not selected.  *)
Reason(rules, words, i) ==
  IF i \notin Matched(rules, words) THEN "contains_not_matched"
  ELSE IF Ties(rules[Selected(rules, words)].confidence, rules[i].confidence)
       THEN "tie_score" ELSE "lower_score"

Rejected(rules, words, others) ==
  {[code |-> rules[i].code, reason |-> Reason(rules, words, i)] : i \in others}

(* RuntimeClassification: the selected code and confidence, and a reason   *)
(* for each other candidate; nothing is selected if no rule fits.          *)
Evaluate(rules, words) ==
  IF Matched(rules, words) = {}
  THEN [code |-> NoCode, confidence |-> 0,
        rejected |-> Rejected(rules, words, DOMAIN rules)]
  ELSE LET best == Selected(rules, words) IN
       [code |-> rules[best].code, confidence |-> rules[best].confidence,
        rejected |-> Rejected(rules, words, DOMAIN rules \ {best})]

HasTie(outcome) == \E c \in outcome.rejected : c.reason = "tie_score"

(* Mutant: confidence is looked at before the ties.                        *)
ConfidenceDecides(outcome) ==
  CASE outcome.code = NoCode -> "blocked"
    [] outcome.code # NoCode /\ outcome.confidence >= ReviewThreshold -> "classified"
    [] OTHER -> "needs_review"

(* outcome_decision.                                                       *)
OutcomeDecision(outcome) ==
  IF outcome.code = NoCode THEN "blocked"
  ELSE IF HasTie(outcome) \/ outcome.confidence < ReviewThreshold
       THEN "needs_review" ELSE "classified"

-----------------------------------------------------------------------------
(* validate_source.  A source whose rules lack "contains" is not parsed;   *)
(* what the workers evaluate later is the parsed document.                 *)
ValidRule(rule) ==
  rule.code # NoCode /\ rule.contains # NoWord /\ rule.confidence <= 100

GoldenCasePasses(document, case) ==
  /\ case.expected # NoCode
  /\ Evaluate(document.rules, case.words).code = case.expected

Valid(document) ==
  /\ document.rules # <<>>
  /\ \A i \in DOMAIN document.rules : ValidRule(document.rules[i])
  /\ \A i \in DOMAIN document.golden : GoldenCasePasses(document, document.golden[i])

(* activation_report_valid: wasm_safety is that of a valid document.       *)
Certified(document) ==
  /\ Valid(document)
  /\ Len(document.golden) >= MinGoldenCases
  /\ RequiredOutputs \subseteq document.outputs
=============================================================================
