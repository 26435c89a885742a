------------------------ MODULE BatchRecovery_proofs ------------------------
(* Proofs about BatchRecovery, for any number of attempts, any flags that  *)
(* the gates raise and whatever adjudicators and agents write.             *)
EXTENDS BatchRecovery, TLAPS

USE RecoveryAssumption

(* The gates were content, or what they left was ambiguous and accepted.   *)
Settled ==
  \/ Passed
  \/ /\ Accepts(decision)
     /\ \A x \in Hard(AllFlags(gates)) : Severity(x) = "ambiguous"

(* The failure of the gates may be adjudicated, and a person alone is to   *)
(* decide about it.                                                        *)
AwaitsPerson == AdjudicationAllowed(gates) /\ NeedsHuman(decision) /\ ~NeedsBugfix(decision)

(* What the runtime alone can have caused is not given to a bugfix agent.  *)
OwnFailure == IsRuntimeOwned(Signature(rejection.flags, rejection.failureType))

VerdictInv ==
  /\ step \in {"policy", "validator", "revalidate", "accepted"} => Settled
  /\ step = "dispatch" => ~AwaitsPerson \/ OwnFailure
  /\ step = "bugfix" => ~AwaitsPerson

Disjoint(f) == f.open \cap f.closed = {}

FindingsInv ==
  /\ findings \in Findings /\ result \in Result
  /\ Disjoint(findings)
  /\ step = "implement" => findings.open = {}

-----------------------------------------------------------------------------
(* The verdict on a batch.                                                 *)

(* Only ambiguity may be adjudicated: nothing else is left beside it.      *)
LEMMA AllowedIsAmbiguous ==
  ASSUME NEW g, AdjudicationAllowed(g)
  PROVE  /\ \A x \in Hard(AllFlags(g)) : Severity(x) = "ambiguous"
         /\ \A x \in Hard(AllFlags(g)) : RuntimeOwned(x)
         /\ ~GatesPassed(g)
<1>1. \A x \in AllFlags(g) : Severity(x) # "hard_fail"
  BY DEF AdjudicationAllowed
<1>2. \A x \in Hard(AllFlags(g)) : x = "COMMAND_RERUN_FAILED"
  BY <1>1 DEF Hard, Severity
<1>3. PICK x \in AllFlags(g) : Severity(x) = "ambiguous"
  BY DEF AdjudicationAllowed
<1>4. x \in Hard(AllFlags(g))
  BY <1>3 DEF Hard, Severity
<1>5. QED  BY <1>2, <1>4 DEF Severity, IsWarning, IsPositive, RuntimeOwned, GatesPassed

(* A failure that may be adjudicated is the runtime's own.                 *)
LEMMA AllowedIsOwnFailure ==
  ASSUME NEW g, AdjudicationAllowed(g), NEW failureType,
         failureType \in {"RUNTIME_GATES_REJECTED",
                          "RUNTIME_GATES_REJECTED_AFTER_VALIDATION_BUGFIX"}
  PROVE  IsRuntimeOwned(Signature(AllFlags(g), failureType))
<1>1. ASSUME NEW x \in Signature(AllFlags(g), failureType) PROVE RuntimeOwned(x)
  <2>1. x \in Hard(AllFlags(g)) \/ x = failureType
    BY <1>1 DEF Signature, Hard, None
  <2>2. RuntimeOwned(failureType)
    BY DEF RuntimeOwned
  <2>3. QED  BY <2>1, <2>2, AllowedIsAmbiguous
<1>2. QED  BY <1>1 DEF IsRuntimeOwned

LEMMA SettledAsksNobody == Settled => ~AwaitsPerson
<1>1. Accepts(decision) => ~NeedsHuman(decision)
  BY DEF Accepts, NeedsHuman
<1>2. Passed => ~AdjudicationAllowed(gates)
  BY AllowedIsAmbiguous DEF Passed
<1>3. QED  BY <1>1, <1>2 DEF Settled, AwaitsPerson

LEMMA AcceptedVerdict ==
  ASSUME Adjudicated("accepted"), UNCHANGED gates PROVE Settled'
<1>1. AdjudicationAllowed(gates) /\ Verdict(decision') = "accepted"
  BY DEF Adjudicated
<1>2. Accepts(decision')
  BY <1>1 DEF Verdict
<1>3. QED  BY <1>1, <1>2, AllowedIsAmbiguous DEF Settled

(* A dispatch for what the gates have left.                                *)
LEMMA GateDispatch ==
  ASSUME NEW failureType,
         failureType \in {"RUNTIME_GATES_REJECTED",
                          "RUNTIME_GATES_REJECTED_AFTER_VALIDATION_BUGFIX"},
         Redispatch(AllFlags(gates), failureType), UNCHANGED gates
  PROVE  VerdictInv'
<1>1. rejection' = [flags |-> AllFlags(gates), failureType |-> failureType] /\ step' = "dispatch"
  BY DEF Redispatch, Goto
<1>2. AdjudicationAllowed(gates) => OwnFailure'
  BY <1>1, AllowedIsOwnFailure DEF OwnFailure
<1>3. AwaitsPerson' => AdjudicationAllowed(gates)
  BY DEF AwaitsPerson
<1>4. QED  BY <1>1, <1>2, <1>3 DEF VerdictInv

(* A dispatch after gates that were content, or whose leavings were        *)
(* accepted.                                                               *)
LEMMA SettledDispatch ==
  ASSUME Settled, step' = "dispatch", UNCHANGED <<gates, decision>>
  PROVE  VerdictInv'
<1>1. ~AwaitsPerson'
  BY SettledAsksNobody DEF AwaitsPerson
<1>2. QED  BY <1>1 DEF VerdictInv

LEMMA EndStep ==
  ASSUME step' \in {"gates", "judge", "implement", "rejected"} PROVE VerdictInv'
BY DEF VerdictInv

LEMMA SettledStep ==
  ASSUME Settled', step' \in {"policy", "validator", "revalidate", "accepted"}
  PROVE  VerdictInv'
BY DEF VerdictInv

LEMMA RecoverStep ==
  ASSUME NEW name, Recover(name, AllFlags(gates)), UNCHANGED gates PROVE VerdictInv'
<1>1. step' = "rejected" \/ Redispatch(AllFlags(gates), "RUNTIME_GATES_REJECTED")
  BY DEF Recover, Reject, Goto, Enter
<1>2. QED  BY <1>1, EndStep, GateDispatch

LEMMA JudgeVerdict ==
  ASSUME VerdictInv, Judge PROVE VerdictInv'
<1>1. UNCHANGED gates
  BY DEF Judge
<1>2. CASE Passed /\ OpenFindings = {} /\ Goto("policy")
  BY <1>1, <1>2, SettledStep DEF Settled, Passed, Goto
<1>3. CASE Passed /\ Recover("findings", OpenFindings) /\ UNCHANGED decision
  <2>1. step' \in {"rejected", "dispatch"}
    BY <1>3 DEF Recover, Reject, Goto, Enter, Redispatch
  <2>2. Settled
    BY <1>3 DEF Settled
  <2>3. QED  BY <1>1, <1>3, <2>1, <2>2, EndStep, SettledDispatch
<1>4. ASSUME NEW verdict \in Verdicts, Adjudicated(verdict),
             IF verdict = "accepted"
             THEN Goto("policy") /\ UNCHANGED <<loop, rejection, attempts>>
             ELSE Recover("gates", AllFlags(gates))
      PROVE  VerdictInv'
  <2>1. CASE verdict = "accepted"
    BY <1>1, <1>4, <2>1, AcceptedVerdict, SettledStep DEF Goto
  <2>2. CASE verdict # "accepted"
    BY <1>1, <1>4, <2>2, RecoverStep
  <2>3. QED  BY <2>1, <2>2
<1>5. QED  BY <1>2, <1>3, <1>4 DEF Judge

LEMMA ReturnedStep ==
  ASSUME ReturnRecovered, Settled' PROVE VerdictInv'
BY EndStep, SettledStep DEF ReturnRecovered, Goto

LEMMA JudgeRecoveredVerdict ==
  ASSUME VerdictInv, JudgeRecovered PROVE VerdictInv'
<1>1. UNCHANGED gates
  BY DEF JudgeRecovered
<1>2. CASE Passed /\ ReturnRecovered
  BY <1>1, <1>2, ReturnedStep DEF Settled, Passed
<1>3. CASE Passed /\ Redispatch(OpenFindings, "RUNTIME_GATES_REJECTED") /\ UNCHANGED decision
  BY <1>1, <1>3, SettledDispatch DEF Settled, Redispatch, Goto
<1>4. ASSUME NEW verdict \in Verdicts, Adjudicated(verdict),
             CASE verdict = "accepted" -> ReturnRecovered
               [] verdict = "human" -> Reject /\ UNCHANGED <<result, findings>>
               [] OTHER ->
                    /\ Redispatch(AllFlags(gates), "RUNTIME_GATES_REJECTED")
                    /\ UNCHANGED <<loop, result, findings, attempts>>
      PROVE  VerdictInv'
  <2>1. CASE verdict = "accepted"
    BY <1>1, <1>4, <2>1, AcceptedVerdict, ReturnedStep
  <2>2. CASE verdict = "human"
    BY <1>4, <2>2, EndStep DEF Reject, Goto
  <2>3. CASE verdict \notin {"accepted", "human"}
    BY <1>1, <1>4, <2>3, GateDispatch
  <2>4. QED  BY <2>1, <2>2, <2>3
<1>5. QED  BY <1>2, <1>3, <1>4 DEF JudgeRecovered

LEMMA JudgeValidatedVerdict ==
  ASSUME VerdictInv, JudgeValidated PROVE VerdictInv'
<1>1. UNCHANGED gates
  BY DEF JudgeValidated
<1>2. CASE Passed /\ Goto("revalidate")
  BY <1>1, <1>2, SettledStep DEF Settled, Passed, Goto
<1>3. ASSUME NEW verdict \in Verdicts, Adjudicated(verdict),
             CASE verdict = "accepted" -> Accept
               [] verdict = "human" -> Reject
               [] OTHER ->
                    /\ Redispatch(AllFlags(gates),
                                  "RUNTIME_GATES_REJECTED_AFTER_VALIDATION_BUGFIX")
                    /\ UNCHANGED <<loop, attempts>>
      PROVE  VerdictInv'
  <2>1. CASE verdict = "accepted"
    BY <1>1, <1>3, <2>1, AcceptedVerdict, SettledStep DEF Accept, Goto
  <2>2. CASE verdict = "human"
    BY <1>3, <2>2, EndStep DEF Reject, Goto
  <2>3. CASE verdict \notin {"accepted", "human"}
    BY <1>1, <1>3, <2>3, GateDispatch
  <2>4. QED  BY <2>1, <2>2, <2>3
<1>4. QED  BY <1>2, <1>3 DEF JudgeValidated

(* What a validator, at first or after a bugfix, makes of the batch.       *)
LEMMA ValidatorVerdict ==
  ASSUME VerdictInv, Validate \/ Revalidate PROVE VerdictInv'
<1>1. Settled /\ UNCHANGED <<gates, decision>>
  BY DEF VerdictInv, Validate, Revalidate
<1>2. step' \in {"accepted", "dispatch"}
  BY DEF Validate, Revalidate, AcceptValidated, Accept, Enter, Redispatch, Goto
<1>3. Settled'
  BY <1>1 DEF Settled, Passed
<1>4. QED  BY <1>1, <1>2, <1>3, SettledStep, SettledDispatch

LEMMA DispatchVerdict ==
  ASSUME VerdictInv, Dispatch PROVE VerdictInv'
<1>1. step = "dispatch" /\ UNCHANGED <<gates, decision>>
  BY DEF Dispatch
<1>2. step' = "rejected" \/ (~MustStop /\ step' = "bugfix")
  BY DEF Dispatch, Reject, Goto
<1>3. MustStop <=> OwnFailure \/ (loop = "validate" /\ NonRecoverable(rejection.flags))
  BY DEF MustStop, OwnFailure
<1>4. CASE step' = "rejected"
  BY <1>4, EndStep
<1>5. CASE ~MustStop /\ step' = "bugfix"
  BY <1>1, <1>3, <1>5 DEF VerdictInv, AwaitsPerson
<1>6. QED  BY <1>2, <1>4, <1>5

LEMMA BugfixVerdict ==
  ASSUME VerdictInv, Bugfix PROVE VerdictInv'
<1>1. step = "bugfix" /\ UNCHANGED decision
  BY DEF Bugfix
<1>2. step' = "gates" \/ (step' = "dispatch" /\ UNCHANGED gates)
  BY DEF Bugfix, Redispatch, Goto
<1>3. CASE step' = "gates"
  BY <1>3, EndStep
<1>4. CASE step' = "dispatch" /\ UNCHANGED gates
  BY <1>1, <1>4 DEF VerdictInv, AwaitsPerson
<1>5. QED  BY <1>2, <1>3, <1>4

LEMMA VerdictNext ==
  ASSUME VerdictInv, [Next]_vars PROVE VerdictInv'
<1>1. CASE Implement
  BY <1>1, EndStep DEF Implement, Goto
<1>2. CASE RunGates
  BY <1>2, EndStep DEF RunGates, Goto
<1>3. CASE JudgeClosing
  <2>1. UNCHANGED gates /\ (step' = "rejected" \/ (Passed /\ step' = "policy"))
    BY <1>3 DEF JudgeClosing, Reject, Goto
  <2>2. QED  BY <2>1, EndStep, SettledStep DEF Settled, Passed
<1>4. CASE ChoosePolicy
  <2>1. Settled /\ UNCHANGED <<gates, decision>> /\ step' \in {"validator", "accepted"}
    BY <1>4 DEF VerdictInv, ChoosePolicy
  <2>2. Settled'
    BY <2>1 DEF Settled, Passed
  <2>3. QED  BY <2>1, <2>2, SettledStep
<1>5. CASE UNCHANGED vars
  BY <1>5 DEF vars, VerdictInv, Settled, Passed, AwaitsPerson, OwnFailure
<1>6. QED  BY <1>1, <1>2, <1>3, <1>4, <1>5, JudgeVerdict, JudgeRecoveredVerdict,
              JudgeValidatedVerdict, ValidatorVerdict, DispatchVerdict, BugfixVerdict DEF Next

LEMMA VerdictInvariant == Spec => []VerdictInv
<1>1. Init => VerdictInv
  BY DEF Init, VerdictInv
<1>2. QED  BY <1>1, VerdictNext, PTL DEF Spec

(* A batch is accepted only after gates that passed on its last result, or *)
(* with nothing left but an ambiguity that was accepted as such, whatever  *)
(* agents, validators and adjudicators write and in any number of loops.   *)
THEOREM AcceptedBatchesPassed == Spec => []AcceptedPassedGates
<1>1. VerdictInv => AcceptedPassedGates
  BY DEF VerdictInv, AcceptedPassedGates, Settled
<1>2. QED  BY <1>1, VerdictInvariant, PTL

(* No bugfix agent works on what a person alone was asked to decide.       *)
THEOREM PersonsDecide == Spec => []HumanDecisionStands
<1>1. VerdictInv => HumanDecisionStands
  BY DEF VerdictInv, HumanDecisionStands, AwaitsPerson
<1>2. QED  BY <1>1, VerdictInvariant, PTL
-----------------------------------------------------------------------------
(* Findings.                                                               *)

LEMMA CloseFacts ==
  ASSUME NEW f \in Findings, Disjoint(f), NEW S
  PROVE  /\ Close(f, S) \in Findings /\ Disjoint(Close(f, S))
         /\ Close(f, S).open = f.open \ S
         /\ Close(f, S).closed = f.closed \cup (f.open \cap S)
BY DEF Close, Findings, Disjoint

LEMMA ReportFacts ==
  ASSUME NEW f \in Findings, Disjoint(f), NEW r
  PROVE  /\ Report(f, r) \in Findings /\ Disjoint(Report(f, r))
         /\ Report(f, r).closed \subseteq f.closed
<1> DEFINE ids == {x \in r.flags \cup {r.failureType} : IsBlocking(x)}
<1>1. ids \subseteq Ids
  BY DEF IsBlocking, Ids, CheapFlags, ExpensiveFlags, AgentFlags
<1>2. Report(f, r) = [open |-> f.open \cup ids, closed |-> f.closed \ ids]
  BY DEF Report
<1> HIDE DEF ids
<1>3. QED  BY <1>1, <1>2 DEF Findings, Disjoint

LEMMA CanonicalizeFacts ==
  ASSUME NEW r \in Result, NEW f
  PROVE  /\ Canonicalize(r, f) \in Result
         /\ Canonicalize(r, f).flags \subseteq r.flags
BY DEF Canonicalize, Result

(* Importing a result closes a finding about the product only by its flags *)
(* as they are canonicalised.                                              *)
LEMMA ImportFacts ==
  ASSUME NEW f \in Findings, Disjoint(f), NEW r \in Result, NEW source
  PROVE  /\ Import(f, r, source) \in Findings /\ Disjoint(Import(f, r, source))
         /\ \A x \in ProductOwned : x \in Import(f, r, source).closed =>
              x \in f.closed \/ x \in FixedBy(Canonicalize(r, f).flags)
<1> DEFINE c == Canonicalize(r, f)
           f1 == Report(f, c)
           f2 == IF source = "bugfix" /\ c.files = "runtime" /\ c.passing
                 THEN Close(f1, SupportOwned) ELSE f1
           f3 == Reconcile(f1, c, source)
           f4 == CloseOnValidation(f3, c, source)
           f5 == Rebuild(f4, c, source)
<1>1. f1 \in Findings /\ Disjoint(f1) /\ f1.closed \subseteq f.closed
  BY ReportFacts
<1>2. Import(f, r, source) = f5
  BY DEF Import
<1>3. f3 = IF CanCloseByFlag(c, source) THEN Close(f2, FixedBy(c.flags)) ELSE f2
  BY DEF Reconcile
<1>4. f4 = IF source = "validate" /\ c.status = "SUCCESS" /\ c.passing
           THEN Close(f3, f3.open \ (c.flags \cup ProductOwned)) ELSE f3
  BY DEF CloseOnValidation
<1>5. f5 = IF IsTrusted(c, source) THEN Close(f4, SupportOwned) ELSE f4
  BY DEF Rebuild
<1>6. SupportOwned \cap ProductOwned = {}
  BY DEF SupportOwned, ProductOwned
<1> DEFINE Only(g, S) == \A x \in ProductOwned : x \in g.closed => x \in f.closed \/ x \in S
<1>7. f2 \in Findings /\ Disjoint(f2) /\ Only(f2, {})
  <2> HIDE DEF f1, c
  <2>1. QED  BY <1>1, <1>6, CloseFacts
<1>8. f3 \in Findings /\ Disjoint(f3) /\ Only(f3, FixedBy(c.flags))
  <2> HIDE DEF f2, f3, c
  <2>1. QED  BY <1>3, <1>7, CloseFacts
<1>9. f4 \in Findings /\ Disjoint(f4) /\ Only(f4, FixedBy(c.flags))
  <2> HIDE DEF f3, f4, c
  <2>1. QED  BY <1>4, <1>8, CloseFacts
<1>10. f5 \in Findings /\ Disjoint(f5) /\ Only(f5, FixedBy(c.flags))
  <2> HIDE DEF f4, f5, c
  <2>1. QED  BY <1>5, <1>6, <1>9, CloseFacts
<1>11. QED  BY <1>2, <1>10

LEMMA TransitionFacts ==
  ASSUME NEW f \in Findings, Disjoint(f), NEW r \in Result,
         NEW g \in [GateNames -> SUBSET Ids]
  PROVE  /\ Transition(f, g, r) \in Findings /\ Disjoint(Transition(f, g, r))
         /\ \A x \in ProductOwned : x \in Transition(f, g, r).closed =>
              \/ x \in f.closed \/ x \in FixedBy(r.flags)
              \/ \E n \in GateNames : g[n] = {} /\ Source(x) = n
<1> DEFINE new == {x \in Hard(AllFlags(g)) : x \notin f.closed}
           passed == {x \in Ids : Source(x) \in GateNames /\ g[Source(x)] = {}}
           f1 == [f EXCEPT !.open = @ \cup new]
           f2 == Close(f1, passed \cup FixedBy(r.flags))
           f3 == Rebuild(f2, r, "gate")
<1>1. new \subseteq Ids
  BY DEF Hard, AllFlags
<1>2. f1.open = f.open \cup new /\ f1.closed = f.closed /\ f1 \in Findings
  <2> HIDE DEF new
  <2>1. QED  BY <1>1 DEF Findings
<1>3. Disjoint(f1)
  BY <1>2 DEF Disjoint
<1>4. f3 = IF IsTrusted(r, "gate") THEN Close(f2, SupportOwned) ELSE f2
  BY DEF Rebuild
<1>5. Transition(f, g, r) = f3
  BY DEF Transition
<1>6. \A x \in passed : \E n \in GateNames : g[n] = {} /\ Source(x) = n
  OBVIOUS
<1>7. SupportOwned \cap ProductOwned = {}
  BY DEF SupportOwned, ProductOwned
<1> HIDE DEF new, passed, f1
<1>8. /\ f2 \in Findings /\ Disjoint(f2)
      /\ f2.closed \subseteq f.closed \cup passed \cup FixedBy(r.flags)
  BY <1>2, <1>3, CloseFacts
<1> HIDE DEF f2, f3
<1>9. /\ f3 \in Findings /\ Disjoint(f3)
      /\ f3.closed \subseteq f2.closed \cup SupportOwned
  BY <1>4, <1>8, CloseFacts
<1>10. QED  BY <1>5, <1>6, <1>7, <1>8, <1>9

LEMMA MergeIsResult ==
  ASSUME NEW r \in Result, NEW fix \in Result PROVE Merge(r, fix) \in Result
<1>1. MergedFlags(r, fix) \in SUBSET AgentFlags
  BY DEF MergedFlags, Result
<1>2. MergedFiles(r, fix) \in {"none", "runtime", "product"}
  BY DEF MergedFiles
<1>3. MergedPassing(r, fix) \in BOOLEAN
  BY DEF MergedPassing
<1>4. QED  BY <1>1, <1>2, <1>3 DEF Merge, Result, None

LEMMA ReportsAreResults ==
  /\ Implementations \subseteq Result /\ Bugfixes \subseteq Result /\ Validations \subseteq Result
  /\ Corrected \subseteq Result
  /\ \A v \in Validations : FixedBy(v.flags) = {}
<1>1. Failures \subseteq Result /\ \A v \in Failures : FixedBy(v.flags) = {}
  <2>1. NoResult \in Result /\ FixedBy(NoResult.flags) = {}
    BY DEF NoResult, Result, FixedBy, None
  <2>2. ASSUME NEW v \in Failures, v # NoResult PROVE v \in Result /\ FixedBy(v.flags) = {}
    <3>1. v \in [status : {"FAILURE"}, failureType : {"TESTS_FAILED"},
                 flags : {{}, {"BUSINESS_LOGIC_DRIFT_RATE"}}, files : {"runtime"},
                 passing : {FALSE}]
      BY <2>2 DEF Failures
    <3>2. v.flags \in SUBSET AgentFlags /\ "BUSINESS_LOGIC_DRIFT_RATE_FIXED" \notin v.flags
      BY <3>1 DEF AgentFlags
    <3>3. v.passing \in BOOLEAN
      BY <3>1
    <3>4. QED  BY <3>1, <3>2, <3>3 DEF Result, FixedBy
  <2>3. QED  BY <2>1, <2>2
<1>2. Completed \subseteq Result
  BY DEF Completed, Result, None
<1>3. Bugfixes \subseteq Result
  BY <1>1 DEF Bugfixes, Result, AgentFlags, None
<1>4. Validations \subseteq Result /\ \A v \in Validations : FixedBy(v.flags) = {}
  BY <1>1 DEF Validations, Result, AgentFlags, FixedBy, None
<1>5. QED  BY <1>1, <1>2, <1>3, <1>4 DEF Implementations, Corrected

LEMMA GatesAreGates ==
  ASSUME NEW r, NEW g \in GatesOf(r) PROVE g \in [GateNames -> SUBSET Ids]
<1>1. ContractFlags(r) \subseteq Ids
  BY DEF ContractFlags, Ids
<1>2. CheapFlags \subseteq Ids /\ ExpensiveFlags \cup {Skipped} \subseteq Ids
  BY DEF Ids
<1>3. g \in [contract : {ContractFlags(r)}, cheap : {{}} \cup {{x} : x \in CheapFlags},
             expensive : {{}} \cup {{x} : x \in ExpensiveFlags \cup {Skipped}}]
  BY DEF GatesOf
<1>4. g = [contract |-> g.contract, cheap |-> g.cheap, expensive |-> g.expensive]
  BY <1>3
<1>5. g.contract \in SUBSET Ids /\ g.cheap \in SUBSET Ids /\ g.expensive \in SUBSET Ids
  BY <1>1, <1>2, <1>3
<1> HIDE DEF Ids
<1>6. QED  BY <1>4, <1>5 DEF GateNames

(* Each way the findings move, with what has closed those about the        *)
(* product.                                                                *)
Evidence ==
  \A x \in ProductOwned :
    x \in findings.open /\ x \in findings'.closed =>
      \/ x \in FixedBy(result.flags \cup result'.flags)
      \/ \E n \in GateNames : gates'[n] = {} /\ Source(x) = n

FindingsStep == FindingsInv' /\ Evidence

LEMMA FixedByMore ==
  ASSUME NEW S, NEW T PROVE FixedBy(S) \subseteq FixedBy(S \cup T) /\ FixedBy(T) \subseteq FixedBy(S \cup T)
BY DEF FixedBy

LEMMA SameFindings ==
  ASSUME FindingsInv, UNCHANGED <<findings, result>>, step' # "implement"
  PROVE  FindingsStep
BY DEF FindingsInv, FindingsStep, Evidence, Disjoint

(* A result is imported with its canonical form for the one at hand.       *)
LEMMA ImportedResult ==
  ASSUME FindingsInv, step' # "implement", NEW r \in Result, NEW source,
         findings' = Import(findings, r, source), result' = Canonicalize(r, findings)
  PROVE  FindingsStep
<1>1. /\ findings' \in Findings /\ Disjoint(findings')
      /\ \A x \in ProductOwned : x \in findings'.closed =>
           x \in findings.closed \/ x \in FixedBy(result'.flags)
  BY ImportFacts DEF FindingsInv
<1>2. result' \in Result
  BY CanonicalizeFacts
<1>3. FindingsInv'
  BY <1>1, <1>2 DEF FindingsInv
<1>4. Evidence
  BY <1>1, FixedByMore DEF FindingsInv, Disjoint, Evidence
<1>5. QED  BY <1>3, <1>4 DEF FindingsStep

LEMMA ImplementFindings ==
  ASSUME FindingsInv, Implement PROVE FindingsStep
<1>1. PICK raw \in Implementations :
        /\ findings' = ImportFirst(raw)
        /\ result' = Canonicalize(raw, Report(NoFindings, raw))
  BY DEF Implement
<1>2. raw \in Result
  BY ReportsAreResults
<1>3. NoFindings \in Findings /\ Disjoint(NoFindings)
  BY DEF NoFindings, Findings, Disjoint
<1>4. findings' \in Findings /\ Disjoint(findings')
  BY <1>1, <1>2, <1>3, ReportFacts, ImportFacts DEF ImportFirst
<1>5. result' \in Result
  BY <1>1, <1>2, CanonicalizeFacts
<1>6. step' = "gates" /\ findings.open = {}
  BY DEF Implement, Goto, FindingsInv
<1>7. QED  BY <1>4, <1>5, <1>6 DEF FindingsStep, FindingsInv, Evidence

LEMMA GatesFindings ==
  ASSUME FindingsInv, RunGates PROVE FindingsStep
<1>1. /\ gates' \in GatesOf(result) /\ findings' = Transition(findings, gates', result)
      /\ step' = "judge" /\ UNCHANGED result
  BY DEF RunGates, Goto
<1>2. /\ findings' \in Findings /\ Disjoint(findings')
      /\ \A x \in ProductOwned : x \in findings'.closed =>
           \/ x \in findings.closed \/ x \in FixedBy(result.flags)
           \/ \E n \in GateNames : gates'[n] = {} /\ Source(x) = n
  BY <1>1, GatesAreGates, TransitionFacts DEF FindingsInv
<1>3. FindingsInv'
  BY <1>1, <1>2 DEF FindingsInv
<1>4. Evidence
  BY <1>2, FixedByMore DEF FindingsInv, Disjoint, Evidence
<1>5. QED  BY <1>3, <1>4 DEF FindingsStep

LEMMA ReturnFindings ==
  ASSUME FindingsInv, ReturnRecovered PROVE FindingsStep
<1>1. /\ findings' = Import(findings, result, "bugfix")
      /\ result' = Canonicalize(result, findings)
      /\ step' # "implement"
  BY DEF ReturnRecovered, Goto
<1>2. QED  BY <1>1, ImportedResult DEF FindingsInv

LEMMA JudgeFindings ==
  ASSUME FindingsInv, Judge \/ JudgeClosing \/ JudgeRecovered \/ JudgeValidated
  PROVE  FindingsStep
<1>1. CASE Judge
  <2>1. UNCHANGED <<findings, result>> /\ step' # "implement"
    BY <1>1 DEF Judge, Recover, Enter, Redispatch, Reject, Goto
  <2>2. QED  BY <2>1, SameFindings
<1>2. CASE JudgeClosing
  <2>1. UNCHANGED <<findings, result>> /\ step' # "implement"
    BY <1>2 DEF JudgeClosing, Reject, Goto
  <2>2. QED  BY <2>1, SameFindings
<1>3. CASE JudgeRecovered
  <2>1. ReturnRecovered \/ (UNCHANGED <<findings, result>> /\ step' # "implement")
    BY <1>3 DEF JudgeRecovered, Redispatch, Reject, Goto
  <2>2. QED  BY <2>1, SameFindings, ReturnFindings
<1>4. CASE JudgeValidated
  <2>1. UNCHANGED <<findings, result>> /\ step' # "implement"
    BY <1>4 DEF JudgeValidated, Redispatch, Accept, Reject, Goto
  <2>2. QED  BY <2>1, SameFindings
<1>5. QED  BY <1>1, <1>2, <1>3, <1>4

(* A validator's own flags close nothing about the product; what it lets   *)
(* pass is imported after them.                                            *)
LEMMA ValidatorFindings ==
  ASSUME FindingsInv, Validate \/ Revalidate PROVE FindingsStep
<1>1. PICK v \in Validations :
        LET f == Import(findings, v, "validate") IN
        \/ AcceptValidated(f)
        \/ findings' = f /\ UNCHANGED result /\ step' = "dispatch"
  <2>1. CASE Validate
    BY <2>1 DEF Validate, Enter, Redispatch, Goto
  <2>2. CASE Revalidate
    BY <2>2 DEF Revalidate, Redispatch, Goto
  <2>3. QED  BY <2>1, <2>2
<1> DEFINE f == Import(findings, v, "validate")
<1>2. FixedBy(Canonicalize(v, findings).flags) = {}
  <2>1. Canonicalize(v, findings).flags \subseteq v.flags /\ FixedBy(v.flags) = {}
    BY ReportsAreResults, CanonicalizeFacts
  <2>2. QED  BY <2>1 DEF FixedBy
<1>3. /\ f \in Findings /\ Disjoint(f)
      /\ \A x \in ProductOwned : x \in f.closed => x \in findings.closed
  BY <1>2, ReportsAreResults, ImportFacts DEF FindingsInv
<1>4. AcceptValidated(f) \/ (findings' = f /\ UNCHANGED result /\ step' = "dispatch")
  BY <1>1
<1> HIDE DEF f
<1>5. CASE findings' = f /\ UNCHANGED result /\ step' = "dispatch"
  BY <1>3, <1>5 DEF FindingsStep, FindingsInv, Evidence, Disjoint
<1>6. CASE AcceptValidated(f)
  <2>1. /\ findings' = Import(f, result, "validate") /\ result' = Canonicalize(result, f)
        /\ step' = "accepted"
    BY <1>6 DEF AcceptValidated, Accept, Goto
  <2>2. /\ findings' \in Findings /\ Disjoint(findings')
        /\ \A x \in ProductOwned : x \in findings'.closed =>
             x \in f.closed \/ x \in FixedBy(result'.flags)
    BY <1>3, <2>1, ImportFacts DEF FindingsInv
  <2>3. result' \in Result
    BY <2>1, CanonicalizeFacts DEF FindingsInv
  <2>4. FindingsInv'
    BY <2>1, <2>2, <2>3 DEF FindingsInv
  <2>5. Evidence
    BY <1>3, <2>2, FixedByMore DEF FindingsInv, Disjoint, Evidence
  <2>6. QED  BY <2>4, <2>5 DEF FindingsStep
<1>7. QED  BY <1>4, <1>5, <1>6

LEMMA BugfixFindings ==
  ASSUME FindingsInv, Bugfix PROVE FindingsStep
<1>1. PICK fix \in Bugfixes :
        \/ UNCHANGED <<findings, result>> /\ step' = "dispatch"
        \/ /\ step' = "gates"
           /\ \E source \in {result} \cup Corrected :
                /\ findings' = Import(findings, Merge(source, fix), "bugfix")
                /\ result' = Canonicalize(Merge(source, fix), findings)
  BY DEF Bugfix, Redispatch, Goto
<1>2. CASE UNCHANGED <<findings, result>> /\ step' = "dispatch"
  BY <1>2, SameFindings
<1>3. CASE /\ step' = "gates"
           /\ \E source \in {result} \cup Corrected :
                /\ findings' = Import(findings, Merge(source, fix), "bugfix")
                /\ result' = Canonicalize(Merge(source, fix), findings)
  <2>1. PICK source \in {result} \cup Corrected :
          /\ findings' = Import(findings, Merge(source, fix), "bugfix")
          /\ result' = Canonicalize(Merge(source, fix), findings)
    BY <1>3
  <2>2. Merge(source, fix) \in Result
    BY ReportsAreResults, MergeIsResult DEF FindingsInv
  <2>3. QED  BY <1>3, <2>1, <2>2, ImportedResult
<1>4. QED  BY <1>1, <1>2, <1>3

LEMMA FindingsNext ==
  ASSUME FindingsInv, [Next]_vars PROVE FindingsStep
<1>1. CASE ChoosePolicy
  BY <1>1, SameFindings DEF ChoosePolicy
<1>2. CASE Dispatch
  <2>1. UNCHANGED <<findings, result>> /\ step' # "implement"
    BY <1>2 DEF Dispatch, Reject, Goto
  <2>2. QED  BY <2>1, SameFindings
<1>3. CASE UNCHANGED vars
  BY <1>3 DEF vars, FindingsInv, FindingsStep, Evidence, Disjoint
<1>4. QED  BY <1>1, <1>2, <1>3, ImplementFindings, GatesFindings, JudgeFindings,
              ValidatorFindings, BugfixFindings DEF Next

(* In any number of loops of recovery a finding about the product is closed *)
(* only by a fix flag of the result at hand or by its own gate passing.     *)
THEOREM FindingsNeedEvidence == Spec => ProductFindingsNeedEvidence
<1>1. Init => FindingsInv
  BY DEF Init, FindingsInv, NoFindings, Findings, Disjoint, NoResult, Result, None
<1>2. FindingsInv /\ [Next]_vars => FindingsInv' /\ Evidence
  BY FindingsNext DEF FindingsStep
<1>3. Evidence <=>
        \A x \in ProductOwned :
          x \in findings.open /\ x \in findings'.closed =>
            \/ x \in FixedBy(result.flags \cup result'.flags)
            \/ \E n \in GateNames : gates'[n] = {} /\ Source(x) = n
  BY DEF Evidence
<1>4. QED  BY <1>1, <1>2, <1>3, PTL DEF Spec, ProductFindingsNeedEvidence
=============================================================================
