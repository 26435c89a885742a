---------------------------- MODULE BatchFindings ----------------------------
(***************************************************************************)
(* Flags and canonical findings of the batch runtime: how flags are        *)
(* classified, how an agent's result and a run of the gates open and close *)
(* findings, how a bugfix is merged into the result it mends, and which    *)
(* failures of the gates may be adjudicated.  The classification is that   *)
(* of the code's patterns on one flag of each kind the rules tell apart;   *)
(* RECOVERED_ flags, inert everywhere, are left out of results.            *)
(***************************************************************************)
EXTENDS Naturals, FiniteSets

None == "none"

CheapFlags == {"MISSING_E2E_EVIDENCE", "PROTECTED_PATH", "EXTERNAL_MUTATION_NOT_ALLOWED"}

(* COMMAND_RERUN_FAILED stands for one with the detail "e2e:not run".      *)
ExpensiveFlags == {"COMMAND_RERUN_FAILED", "ENTRYPOINT_UNVERIFIED", "QUALITY_WARNING"}

Skipped == "SKIPPED_EXPENSIVE_GATE_DUE_TO_CHEAP_BLOCKERS"

AgentFlags == {"BUSINESS_LOGIC_DRIFT_RATE", "BUSINESS_LOGIC_DRIFT_RATE_FIXED"}

(* What a finding can be about: a flag, or the failure type of a result.   *)
Ids == CheapFlags \cup ExpensiveFlags \cup AgentFlags
         \cup {Skipped, "RESULT_STATUS_FAILURE", "TESTS_FAILED"}

Result == [status : {"SUCCESS", "FAILURE", "INVALID_RESULT"},
           failureType : {None, "TESTS_FAILED"},
           flags : SUBSET AgentFlags,
           files : {"none", "runtime", "product"},  \* the best of filesChanged
           passing : BOOLEAN]                        \* hasPassingCommandEvidence

(* state.findings: the ids of the open ones, and of the fixed or stale.    *)
Findings == [open : SUBSET Ids, closed : SUBSET Ids]

GateNames == {"contract", "cheap", "expensive"}

(* finding.source; here gates and agents do not report the same flags.     *)
Source(x) == CASE x \in CheapFlags -> "cheap"
               [] x \in ExpensiveFlags \cup {Skipped} -> "expensive"
               [] x = "RESULT_STATUS_FAILURE" -> "contract"
               [] OTHER -> "agent"

-----------------------------------------------------------------------------
(* Classes of flags.                                                       *)

IsWarning(x) == x = "QUALITY_WARNING"

IsPositive(x) == x = "BUSINESS_LOGIC_DRIFT_RATE_FIXED"

IsBlocking(x) == x \in {"MISSING_E2E_EVIDENCE", "COMMAND_RERUN_FAILED",
  "ENTRYPOINT_UNVERIFIED", "BUSINESS_LOGIC_DRIFT_RATE", "RESULT_STATUS_FAILURE",
  "TESTS_FAILED"}

(* fixedFindingPrefix of each flag of a result                             *)
FixedBy(flags) ==
  IF "BUSINESS_LOGIC_DRIFT_RATE_FIXED" \in flags
  THEN {"BUSINESS_LOGIC_DRIFT_RATE"} ELSE {}

(* isProductOwnedFinding                                                   *)
ProductOwned == {"BUSINESS_LOGIC_DRIFT_RATE", "ENTRYPOINT_UNVERIFIED"}

(* isRuntimeOwnedFinding, isRuntimeSupportOrToolingFinding                 *)
SupportOwned == {"PROTECTED_PATH"}

(* Mutant: commands that could not be rerun are left to bugfix agents.     *)
RuntimeOwnedButReruns(x) == x \in {"PROTECTED_PATH", "RESULT_STATUS_FAILURE",
  "RUNTIME_GATES_REJECTED"}

(* isRuntimeOwnedRecoveryFlag: what no bugfix of product code can mend.    *)
RuntimeOwned(x) == x \in {"PROTECTED_PATH", "RESULT_STATUS_FAILURE",
  "COMMAND_RERUN_FAILED", "RUNTIME_GATES_REJECTED", "VALIDATOR_REJECTED",
  "VALIDATOR_REJECTED_AFTER_BUGFIX", "BUGFIX_RESULT_INVALID", "BUGFIX_RECOVERY_FAILED",
  "RUNTIME_GATES_REJECTED_AFTER_VALIDATION_BUGFIX"}

(* isNonRecoverableRuntimeFlag                                             *)
IsNonRecoverable(x) == x = "PROTECTED_PATH"

NonRecoverable(flags) == \E x \in flags : IsNonRecoverable(x)

RequiresHuman(flags) == "EXTERNAL_MUTATION_NOT_ALLOWED" \in flags

(* severityFor                                                             *)
Severity(x) == IF IsWarning(x) THEN "warning"
               ELSE IF IsPositive(x) THEN "pass"
               ELSE IF x = "COMMAND_RERUN_FAILED" THEN "ambiguous"
               ELSE "hard_fail"

-----------------------------------------------------------------------------
(* Findings.                                                               *)

NoFindings == [open |-> {}, closed |-> {}]

Close(f, S) == [open |-> f.open \ S, closed |-> f.closed \cup (f.open \cap S)]

(* findingsFromResult, put over the findings there are: what is reported   *)
(* again is open again.                                                    *)
Report(f, r) ==
  LET ids == {x \in r.flags \cup {r.failureType} : IsBlocking(x)}
  IN [open |-> f.open \cup ids, closed |-> f.closed \ ids]

(* canonicalizeBatchResultForRuntime: flags whose findings are closed, or  *)
(* that the result itself reports fixed, become RECOVERED_SOURCE_FLAGs.    *)
Canonicalize(r, f) ==
  [r EXCEPT !.flags = (r.flags \ f.closed) \ FixedBy(r.flags)]

(* canResultCloseFindingsByFlag                                            *)
CanCloseByFlag(r, source) ==
  source = "bugfix" =>
    r.files = "product" \/ (r.passing /\ \E x \in r.flags : IsPositive(x))

(* reconcileFindings                                                       *)
Reconcile(f, r, source) ==
  LET g == IF source = "bugfix" /\ r.files = "runtime" /\ r.passing
           THEN Close(f, SupportOwned) ELSE f
  IN IF CanCloseByFlag(r, source)
     THEN Close(g, FixedBy(r.flags)) ELSE g

(* Mutant: findings about the product are closed too.                      *)
CloseAllOnValidation(f, r, source) ==
  IF source = "validate" /\ r.status = "SUCCESS" /\ r.passing
  THEN Close(f, f.open \ r.flags) ELSE f

(* closeFindingsOnSuccessfulValidation                                     *)
CloseOnValidation(f, r, source) ==
  IF source = "validate" /\ r.status = "SUCCESS" /\ r.passing
  THEN Close(f, f.open \ (r.flags \cup ProductOwned)) ELSE f

(* isTrustedSuccessfulRecoveryEvidence                                     *)
IsTrusted(r, source) ==
  /\ r.status = "SUCCESS" /\ source \in {"bugfix", "gate"}
  /\ ~\E x \in r.flags : IsBlocking(x)
  /\ r.files = "product" \/ r.passing

(* rebuildActiveFindingsFromTrustedLatestEvidence                          *)
Rebuild(f, r, source) ==
  IF IsTrusted(r, source) THEN Close(f, SupportOwned) ELSE f

(* importAgentResultToState                                                *)
Import(f, r, source) ==
  LET c == Canonicalize(r, f)
  IN Rebuild(CloseOnValidation(Reconcile(Report(f, c), c, source), c, source), c, source)

(* The first result of a batch: emptyRuntimeBatchState has it reported     *)
(* before it is imported.                                                  *)
ImportFirst(r) == Import(Report(NoFindings, r), r, "implement")

-----------------------------------------------------------------------------
(* Gates: functions from GateNames to sets of flags.  One cheap and one    *)
(* expensive gate stand for all of them; "quality" passes with warnings,   *)
(* any other flag fails its gate.                                          *)

AllFlags(g) == UNION {g[n] : n \in GateNames}

Hard(flags) == {x \in flags : ~IsWarning(x) /\ ~IsPositive(x)}

ContractFlags(r) == IF r.status = "FAILURE" THEN {"RESULT_STATUS_FAILURE"} ELSE {}

(* validateAllWithState: what the gates may say of a result.  Expensive    *)
(* gates are skipped behind a blocking flag.                               *)
GatesOf(r) ==
  {g \in [contract : {ContractFlags(r)},
          cheap : {{}} \cup {{x} : x \in CheapFlags},
          expensive : {{}} \cup {{x} : x \in ExpensiveFlags \cup {Skipped}}] :
     (\E x \in g.contract \cup g.cheap : IsBlocking(x)) <=> g.expensive = {Skipped}}

GatesPassed(g) == Hard(AllFlags(g)) = {}

(* transitionFindingsForGates: a gate that passes without a warning closes *)
(* what it said before, a failing one reports without reopening, and a fix *)
(* flag of the result counts here whatever its files.                      *)
Transition(f, g, r) ==
  LET new == {x \in Hard(AllFlags(g)) : x \notin f.closed}
      passed == {x \in Ids : Source(x) \in GateNames /\ g[Source(x)] = {}}
  IN Rebuild(Close([f EXCEPT !.open = @ \cup new], passed \cup FixedBy(r.flags)), r, "gate")

-----------------------------------------------------------------------------
(* Mutant: hard failures next to the ambiguity do not matter.              *)
AllowedBesideHardFailures(g) == \E x \in AllFlags(g) : Severity(x) = "ambiguous"

AdjudicationAllowed(g) ==
  /\ ~\E x \in AllFlags(g) : Severity(x) = "hard_fail"
  /\ \E x \in AllFlags(g) : Severity(x) = "ambiguous"

(* The file an adjudicator leaves, as it spells things.  Unset is a field  *)
(* that it leaves out.                                                     *)
Unset == "unset"

Adjudication == [status : {"SUCCESS", "PASS", "PARTIAL_SUCCESS", "FAILURE"},
                 decision : {"ACCEPT", "ACCEPT_WARNING", "REQUIRE_BUGFIX", "NEEDS_BUGFIX",
                             "ESCALATE_TO_USER", "HUMAN", Unset},
                 requiresBugfix : {"yes", "no", Unset},
                 requiresHuman : {"yes", "no", Unset}]

NoAdjudication == [status |-> None, decision |-> None, requiresBugfix |-> "no", requiresHuman |-> "no"]

(* normalizeStatus of adjudication.ts *)
NormalStatus(status) == IF status = "PASS" THEN "SUCCESS" ELSE status

(* normalizeDecision; the two ways to accept are one.                      *)
NormalDecision(d) ==
  CASE d \in {"ACCEPT", "ACCEPT_WARNING"} -> "ACCEPT"
    [] d \in {"REQUIRE_BUGFIX", "NEEDS_BUGFIX"} -> "REQUIRE_BUGFIX"
    [] OTHER -> "ESCALATE_TO_USER"

(* boolAlias *)
YesOr(field, fallback) == IF field # Unset THEN field ELSE IF fallback THEN "yes" ELSE "no"

(* normalizeAdjudication *)
Normal(a) ==
  LET d == NormalDecision(a.decision) IN
  [status |-> NormalStatus(a.status), decision |-> d,
   requiresBugfix |-> YesOr(a.requiresBugfix, d = "REQUIRE_BUGFIX"),
   requiresHuman |-> YesOr(a.requiresHuman, d = "ESCALATE_TO_USER")]

(* adjudicationAccepted                                                    *)
Accepts(a) ==
  a.status = "SUCCESS" /\ a.decision = "ACCEPT" /\ a.requiresBugfix = "no" /\ a.requiresHuman = "no"

(* adjudicationNeedsBugfix                                                 *)
NeedsBugfix(a) ==
  a.status = "SUCCESS" /\ (a.decision = "REQUIRE_BUGFIX" \/ a.requiresBugfix = "yes")

(* adjudicationNeedsHuman *)
NeedsHuman(a) ==
  a.status # "SUCCESS" \/ a.decision = "ESCALATE_TO_USER" \/ a.requiresHuman = "yes"

(* What adjudicateIfPossible returns for a file: a bugfix comes before     *)
(* what needs a person.                                                    *)
Verdict(a) ==
  CASE a = NoAdjudication -> "none"
    [] Accepts(a) -> "accepted"
    [] NeedsBugfix(a) -> "bugfix"
    [] OTHER -> "human"

(* bugfixHasSemanticChange                                                 *)
Semantic(fix) == fix.files = "product"

(* recoveredFlags: flags about active failures are demoted, and fix flags  *)
(* of a bugfix without a semantic change are dropped.                      *)
MergedFlags(r, fix) ==
  r.flags \cup {x \in fix.flags : Semantic(fix) \/ ~IsPositive(x)}

(* mergeFilesChanged: runtime files are no longer listed.                  *)
MergedFiles(r, fix) == IF "product" \in {r.files, fix.files} THEN "product" ELSE "none"

(* mergeRecoveredTests keeps passing evidence beside what does not pass.   *)
MergedPassing(r, fix) == r.passing \/ fix.passing

(* mergeRecoveredResult                                                    *)
Merge(r, fix) ==
  [status |-> "SUCCESS", failureType |-> None, flags |-> MergedFlags(r, fix),
   files |-> MergedFiles(r, fix), passing |-> MergedPassing(r, fix)]

(* blockingRecoveryFlags; sorted and joined they are the failureSignature. *)
Signature(flags, failureType) ==
  {x \in flags \cup {IF failureType = None THEN "UNKNOWN_FAILURE" ELSE failureType} :
     ~IsPositive(x) /\ ~IsWarning(x)}

(* isRuntimeOwnedRecoverySignature                                         *)
IsRuntimeOwned(signature) == \A x \in signature : RuntimeOwned(x)

(* What a failed agent leaves as the current flags.                        *)
FailureFlags(r, otherwise) ==
  ContractFlags(r) \cup r.flags
    \cup {IF r.failureType = None THEN otherwise ELSE r.failureType}
===============================================================================
