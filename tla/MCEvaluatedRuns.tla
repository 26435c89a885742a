--------------------------- MODULE MCEvaluatedRuns ---------------------------
(* Two packs, one that cannot be evaluated, and the text of two products:   *)
(* one whose second rule is exactly the tie distance below the best and one *)
(* whose rules tie.  0.90 - 0.85 is above 0.05 as doubles, 0.95 - 0.90 not. *)
EXTENDS EvaluatedRuns, SequencesExt

CONSTANTS p1, p2, w1, w2, x1, good, bad, f1, f2,
          shirts, knitwear, fabric, shirt, knit, cotton

Doubles == {95}

R(code, word, confidence) ==
  [code |-> code, contains |-> word, confidence |-> confidence]

Golden(words, code) == [i \in 1..10 |-> [words |-> words, expected |-> code]]

MCDocumentOf ==
  [k \in Packs |->
    IF k = good
    THEN [rules |-> <<R(fabric, cotton, 85), R(shirts, shirt, 90), R(knitwear, knit, 88)>>,
          golden |-> Golden({shirt, cotton}, shirts), outputs |-> RequiredOutputs]
    ELSE [rules |-> <<R(shirts, shirt, 90), R(fabric, NoWord, 70)>>,
          golden |-> <<>>, outputs |-> {}]]

MCWordsOf ==
  [f \in Facts |-> IF f = f1 THEN {shirt, cotton} ELSE {shirt, knit}]

MCVerdict == [in \in Packs \X Facts |-> VerdictOf(in[1], in[2])]

MCOutcomes == {Evaluate(MCDocumentOf[good].rules, MCWordsOf[f]) : f \in Facts}

MCStatusOf == [outcome \in Outcomes |-> OutcomeDecision(outcome)]

SharedId == [p \in Procs |-> w1]

-----------------------------------------------------------------------------
(* The algorithm as the code has it: matched rules sorted by falling        *)
(* confidence, those of equal confidence in the order of the pack.          *)
Sorted(rules, words) ==
  LET Place(s, i) ==
        LET above(j) == rules[j].confidence >= rules[i].confidence
            below(j) == rules[j].confidence < rules[i].confidence
        IN  SelectSeq(s, above) \o <<i>> \o SelectSeq(s, below)
      Fits(i) == rules[i].contains \in words
  IN  FoldLeft(Place, <<>>, SelectSeq([i \in DOMAIN rules |-> i], Fits))

SampleRules == {R(c, w, n) : c \in {shirts, fabric}, w \in {shirt, cotton},
                             n \in {81, 82, 90, 95}}

(* Every list of up to three rules on every text selects what sorting does. *)
ASSUME SelectionIsSorting ==
  \A rules \in UNION {[1..n -> SampleRules] : n \in 0..3}, words \in SUBSET {shirt, cotton} :
    LET s == Sorted(rules, words) IN
    IF s = <<>> THEN Matched(rules, words) = {} ELSE Head(s) = Selected(rules, words)
=============================================================================
