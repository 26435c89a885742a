---------------------------- MODULE BatchRecovery ----------------------------
(***************************************************************************)
(* From the result of an implementation agent to the verdict on its batch: *)
(* the gates, adjudication of what they leave ambiguous, the loops that    *)
(* dispatch bugfix agents (recoverGateFailure, validateAdversarial) and    *)
(* the adversarial validator, in the default validation mode.  It is the   *)
(* step Validate of BatchLifecycle taken apart.                            *)
(***************************************************************************)
EXTENDS BatchFindings

CONSTANTS MaxBugfixAttempts,  \* config.recovery.maxBugfixAttempts
          Raised,             \* bound on the flags that gates raise
          Adjudications       \* bound on what adjudicators write

ASSUME RecoveryAssumption ==
  /\ MaxBugfixAttempts \in Nat /\ Raised \subseteq CheapFlags \cup ExpensiveFlags
  /\ Adjudications \subseteq Adjudication

VARIABLES step,
          loop,       \* who runs the recovery: see Loops
          result,     \* the result at hand (state.currentResult)
          findings,   \* state.findings
          gates,      \* flags of the last run of each gate
          decision,   \* the batch's adjudication, as it is read
          rejection,  \* currentFlags, and the failure type they go with
          attempts    \* of bugfix agents: signature, for it, and in total

vars == <<step, loop, result, findings, gates, decision, rejection, attempts>>

Steps == {"implement", "gates", "judge", "policy", "validator", "dispatch",
          "bugfix", "revalidate", "accepted", "rejected"}

(* "findings" and "gates" are the two calls of recoverGateFailure, for     *)
(* open findings and for failed gates, "closing" the gates run after the   *)
(* first, "validate" the loop of validateAdversarial.                      *)
Loops == {"none", "findings", "gates", "closing", "validate"}

Decisions == {Normal(a) : a \in Adjudications} \cup {NoAdjudication}

AllIds == Ids \cup {"UNKNOWN_FAILURE", "RUNTIME_GATES_REJECTED", "VALIDATOR_REJECTED",
  "VALIDATOR_REJECTED_AFTER_BUGFIX", "BUGFIX_RESULT_INVALID", "BUGFIX_RECOVERY_FAILED",
  "RUNTIME_GATES_REJECTED_AFTER_VALIDATION_BUGFIX"}

NoResult == [status |-> "INVALID_RESULT", failureType |-> None, flags |-> {},
             files |-> "none", passing |-> FALSE]

NoGates == [n \in GateNames |-> {}]

NoRejection == [flags |-> {}, failureType |-> None]

NoAttempts == [signature |-> {}, forSignature |-> 0, total |-> 0]

PerSignature == IF MaxBugfixAttempts = 0 THEN 1 ELSE MaxBugfixAttempts

InTotal == 4 * PerSignature

TypeOK ==
  /\ step \in Steps
  /\ loop \in Loops
  /\ result \in Result
  /\ findings \in Findings
  /\ gates \in [GateNames -> SUBSET Ids]
  /\ decision \in Decisions
  /\ rejection \in [flags : SUBSET AllIds, failureType : AllIds \cup {None}]
  /\ attempts \in [signature : SUBSET AllIds, forSignature : 0..PerSignature,
                   total : 0..InTotal]

(* A kept work tree may hold the adjudication of an earlier attempt.       *)
Init ==
  /\ step = "implement"
  /\ loop = "none"
  /\ result = NoResult
  /\ findings = NoFindings
  /\ gates = NoGates
  /\ decision \in Decisions
  /\ rejection = NoRejection
  /\ attempts = NoAttempts

-----------------------------------------------------------------------------
(* Results of the agents.                                                  *)

Failures == [status : {"FAILURE"}, failureType : {"TESTS_FAILED"},
             flags : {{}, {"BUSINESS_LOGIC_DRIFT_RATE"}}, files : {"runtime"},
             passing : {FALSE}]
              \cup {NoResult}

Completed == [status : {"SUCCESS"}, failureType : {None}, flags : SUBSET AgentFlags,
              files : {"product"}, passing : {TRUE}]

Implementations == Failures \cup Completed

(* The implementation's file as a bugfix may have corrected it.            *)
Corrected == {r \in Completed : "BUSINESS_LOGIC_DRIFT_RATE" \notin r.flags}

Bugfixes == Failures \cup
  [status : {"SUCCESS"}, failureType : {None},
   flags : {{}, {"BUSINESS_LOGIC_DRIFT_RATE_FIXED"}},
   files : {"runtime", "product"}, passing : BOOLEAN]

Validations == Failures \cup
  [status : {"SUCCESS"}, failureType : {None},
   flags : {{}, {"BUSINESS_LOGIC_DRIFT_RATE"}}, files : {"runtime"}, passing : BOOLEAN]

-----------------------------------------------------------------------------
Goto(s) == step' = s

EndRecovery == loop' = "none" /\ rejection' = NoRejection /\ attempts' = NoAttempts

Accept == Goto("accepted") /\ EndRecovery

Reject == Goto("rejected") /\ EndRecovery

(* What the head of the loop finds.                                        *)
Redispatch(flags, failureType) ==
  /\ Goto("dispatch")
  /\ rejection' = [flags |-> flags, failureType |-> failureType]

(* Both loops start with no attempts at the signature of what is wrong.    *)
Enter(name, flags, failureType) ==
  /\ Redispatch(flags, failureType)
  /\ loop' = name
  /\ attempts' = [NoAttempts EXCEPT !.signature = Signature(flags, failureType)]

(* recoverGateFailure's way in; a person is asked for here only.           *)
Recover(name, flags) ==
  IF RequiresHuman(flags) \/ NonRecoverable(flags)
  THEN Reject ELSE Enter(name, flags, "RUNTIME_GATES_REJECTED")

Implement ==
  /\ step = "implement"
  /\ \E raw \in Implementations :
       /\ findings' = ImportFirst(raw)
       /\ result' = Canonicalize(raw, Report(NoFindings, raw))
  /\ Goto("gates")
  /\ UNCHANGED <<loop, gates, decision, rejection, attempts>>

(* validateAllWithState                                                    *)
RunGates ==
  /\ step = "gates"
  /\ gates' \in {g \in GatesOf(result) : g.cheap \cup g.expensive \subseteq Raised \cup {Skipped}}
  /\ findings' = Transition(findings, gates', result)
  /\ Goto("judge")
  /\ UNCHANGED <<loop, result, decision, rejection, attempts>>

(* blockingOpenFindings                                                    *)
OpenFindings == Hard(findings.open)

Passed == GatesPassed(gates)

(* adjudicateIfPossible: the file of the batch answers, whatever it was    *)
(* about; the agent is asked only if there is none, and may leave none.    *)
Adjudicated(verdict) ==
  IF ~AdjudicationAllowed(gates)
  THEN verdict = "none" /\ decision' = decision
  ELSE /\ decision' \in IF decision = NoAdjudication THEN Decisions ELSE {decision}
       /\ verdict = Verdict(decision')

Verdicts == {"none", "accepted", "bugfix", "human"}

(* runSingleBatch and continueYolo after their gates.  What adjudication   *)
(* says but "accepted" is not looked at.                                   *)
Judge ==
  /\ step = "judge" /\ loop = "none"
  /\ \/ /\ Passed /\ OpenFindings = {}
        /\ Goto("policy")
        /\ UNCHANGED <<loop, rejection, attempts, decision>>
     \/ /\ Passed /\ OpenFindings # {}
        /\ Recover("findings", OpenFindings)
        /\ UNCHANGED decision
     \/ /\ ~Passed
        /\ \E verdict \in Verdicts :
             /\ Adjudicated(verdict)
             /\ IF verdict = "accepted"
                THEN Goto("policy") /\ UNCHANGED <<loop, rejection, attempts>>
                ELSE Recover("gates", AllFlags(gates))
  /\ UNCHANGED <<result, findings, gates>>

(* The gates that follow a recovery for open findings.                     *)
JudgeClosing ==
  /\ step = "judge" /\ loop = "closing"
  /\ IF Passed /\ OpenFindings = {}
     THEN Goto("policy") /\ EndRecovery
     ELSE Reject
  /\ UNCHANGED <<result, findings, gates, decision>>

(* recoverGateFailure returns a result, which is imported once more.       *)
ReturnRecovered ==
  /\ findings' = Import(findings, result, "bugfix")
  /\ result' = Canonicalize(result, findings)
  /\ IF loop = "findings"
     THEN Goto("gates") /\ loop' = "closing" /\ UNCHANGED <<rejection, attempts>>
     ELSE Goto("policy") /\ EndRecovery

JudgeRecovered ==
  /\ step = "judge" /\ loop \in {"findings", "gates"}
  /\ \/ /\ Passed /\ OpenFindings = {}
        /\ ReturnRecovered
        /\ UNCHANGED decision
     \/ /\ Passed /\ OpenFindings # {}
        /\ Redispatch(OpenFindings, "RUNTIME_GATES_REJECTED")
        /\ UNCHANGED <<loop, result, findings, decision, attempts>>
     \/ /\ ~Passed
        /\ \E verdict \in Verdicts :
             /\ Adjudicated(verdict)
             /\ CASE verdict = "accepted" -> ReturnRecovered
                  [] verdict = "human" -> Reject /\ UNCHANGED <<result, findings>>
                  [] OTHER ->
                       /\ Redispatch(AllFlags(gates), "RUNTIME_GATES_REJECTED")
                       /\ UNCHANGED <<loop, result, findings, attempts>>
  /\ UNCHANGED gates

(* The same place of validateAdversarial's loop: open findings are not     *)
(* looked at.                                                              *)
JudgeValidated ==
  /\ step = "judge" /\ loop = "validate"
  /\ \/ /\ Passed
        /\ Goto("revalidate")
        /\ UNCHANGED <<loop, rejection, attempts, decision>>
     \/ /\ ~Passed
        /\ \E verdict \in Verdicts :
             /\ Adjudicated(verdict)
             /\ CASE verdict = "accepted" -> Accept
                  [] verdict = "human" -> Reject
                  [] OTHER ->
                       /\ Redispatch(AllFlags(gates),
                                     "RUNTIME_GATES_REJECTED_AFTER_VALIDATION_BUGFIX")
                       /\ UNCHANGED <<loop, attempts>>
  /\ UNCHANGED <<result, findings, gates>>

(* validationPolicyFor: the configuration, and how risky the changed files *)
(* are, decide on adversarial validation.                                  *)
ChoosePolicy ==
  /\ step = "policy"
  /\ step' \in {"validator", "accepted"}
  /\ UNCHANGED <<loop, result, findings, gates, decision, rejection, attempts>>

(* Acceptance by the validator imports the result as the validator's own.  *)
AcceptValidated(f) ==
  /\ findings' = Import(f, result, "validate")
  /\ result' = Canonicalize(result, f)
  /\ Accept

Validate ==
  /\ step = "validator"
  /\ \E v \in Validations :
       LET f == Import(findings, v, "validate")
           c == Canonicalize(v, findings)
       IN IF v.status = "SUCCESS"
          THEN AcceptValidated(f)
          ELSE /\ Enter("validate", FailureFlags(c, "VALIDATOR_REJECTED"), c.failureType)
               /\ findings' = f
               /\ UNCHANGED result
  /\ UNCHANGED <<gates, decision>>

(* An invalid result of the validator is one flag, VALIDATOR_REJECTED.     *)
Revalidate ==
  /\ step = "revalidate"
  /\ \E v \in Validations :
       LET f == Import(findings, v, "validate")
           c == Canonicalize(v, findings)
       IN IF v.status = "SUCCESS"
          THEN AcceptValidated(f)
          ELSE /\ Redispatch(FailureFlags(c, "VALIDATOR_REJECTED_AFTER_BUGFIX"),
                             c.failureType)
               /\ findings' = f
               /\ UNCHANGED <<loop, result, attempts>>
  /\ UNCHANGED <<gates, decision>>

(* The head of both loops.  Attempts start again with another signature.   *)
(* A signature of the runtime's own never gets past here, so the loops'    *)
(* counters for such signatures, and the poisoned loop they would detect,  *)
(* are left out.                                                           *)
MustStop ==
  \/ loop = "validate" /\ NonRecoverable(rejection.flags)
  \/ IsRuntimeOwned(Signature(rejection.flags, rejection.failureType))

(* Mutant: another signature starts the count of all attempts again.       *)
AttemptsAnew(signature) ==
  IF signature = attempts.signature THEN attempts
  ELSE [signature |-> signature, forSignature |-> 0, total |-> 0]

AttemptsAt(signature) ==
  IF signature = attempts.signature THEN attempts
  ELSE [attempts EXCEPT !.signature = signature, !.forSignature = 0]

Dispatch ==
  LET tried == AttemptsAt(Signature(rejection.flags, rejection.failureType)) IN
  /\ step = "dispatch"
  /\ IF attempts.total >= InTotal \/ MustStop \/ tried.forSignature >= PerSignature
     THEN Reject
     ELSE /\ Goto("bugfix")
          /\ attempts' = [tried EXCEPT !.forSignature = @ + 1, !.total = @ + 1]
          /\ rejection' = NoRejection
          /\ UNCHANGED loop
  /\ UNCHANGED <<result, findings, gates, decision>>

(* runBugfixAgent.  A successful bugfix is merged, into the implementation *)
(* file read again if the bugfix lists that as corrected.                  *)
Bugfix ==
  /\ step = "bugfix"
  /\ \E fix \in Bugfixes :
       \/ /\ fix.status # "SUCCESS"
          /\ Redispatch(FailureFlags(fix, "BUGFIX_RECOVERY_FAILED"),
                        IF loop = "validate" THEN "BUGFIX_RESULT_INVALID"
                        ELSE "RUNTIME_GATES_REJECTED")
          /\ UNCHANGED <<result, findings, gates>>
       \/ /\ fix.status = "SUCCESS"
          /\ \E source \in {result} \cup Corrected :
               LET merged == Merge(source, fix) IN
               /\ findings' = Import(findings, merged, "bugfix")
               /\ result' = Canonicalize(merged, findings)
          /\ Goto("gates") /\ gates' = NoGates
          /\ UNCHANGED rejection
  /\ UNCHANGED <<loop, decision, attempts>>

-----------------------------------------------------------------------------
Next == \/ Implement \/ RunGates \/ Judge \/ JudgeClosing \/ JudgeRecovered
        \/ JudgeValidated \/ ChoosePolicy \/ Validate \/ Revalidate
        \/ Dispatch \/ Bugfix

Spec == Init /\ [][Next]_vars

(* Gates have time-outs; that agents return is assumed, which the code      *)
(* ensures for routes with a time-out (AgentEvidence).                      *)
FairSpec == Spec /\ WF_vars(Next)

-----------------------------------------------------------------------------
(* docs/klevar-yolo-runtime.md, "Do not override hard safety failures" of  *)
(* the adjudicator.  A batch that is accepted has passed its last gates,   *)
(* which ran on its last result, or what they left was only ambiguous and  *)
(* accepted as such; an adjudication kept from an earlier failure does not *)
(* cover a hard one.                                                       *)
AcceptedPassedGates ==
  step = "accepted" =>
    \/ Passed
    \/ /\ Accepts(decision)
       /\ \A x \in Hard(AllFlags(gates)) : Severity(x) = "ambiguous"

(* What a person alone was asked to decide is not worked on by another     *)
(* bugfix agent, although runSingleBatch goes on with recovery when        *)
(* adjudication asks for one.                                              *)
HumanDecisionStands ==
  step = "bugfix" =>
    ~(AdjudicationAllowed(gates) /\ NeedsHuman(decision) /\ ~NeedsBugfix(decision))

(* A finding about the product is closed only by a fix flag in the result  *)
(* at hand, or by its gate passing, never by tests passing alone.          *)
ProductFindingsNeedEvidence ==
  [][\A x \in ProductOwned :
       x \in findings.open /\ x \in findings'.closed =>
         \/ x \in FixedBy(result.flags \cup result'.flags)
         \/ \E n \in GateNames : gates'[n] = {} /\ Source(x) = n]_vars

(* Whatever the agents report, the batch is accepted or rejected.          *)
RecoveryEnds == <>(step \in {"accepted", "rejected"})
===============================================================================
