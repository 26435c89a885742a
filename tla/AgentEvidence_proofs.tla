------------------------ MODULE AgentEvidence_proofs ------------------------
(* Proofs about AgentEvidence, for any invocations, any number of attempts *)
(* and phases, any trees and whatever agents do to them.                   *)
EXTENDS AgentEvidence, TLAPS

USE EvidenceAssumption

RunType == [step : RunSteps, id : Ids, attempt : Nat, error : Errors, result : Output,
            phase : Nat, snapshot : Snapshots \cup {"none"}, retried : BOOLEAN,
            flagged : BOOLEAN]

Shape == tree \in Trees /\ outputs \in [Ids -> Output] /\ run \in RunType

Recent(o) == o.status # "absent" => o.recent

(* From the start of an attempt on, the result file is the attempt's.      *)
ResultInv ==
  /\ run.step \in {"prompt", "read"} => Recent(outputs[run.id])
  /\ run.step = "returned" => Recent(run.result)

(* The command passes on the tree, or the pass was adopted.                *)
Holds ==
  \/ SnapshotOf[tree] \in Passing
  \/ \E e \in cache : e.adopted /\ e.snapshot = SnapshotOf[tree]

GateInv ==
  /\ \A e \in cache : e.adopted \/ e.snapshot \in Passing
  /\ run.step = "rerun" => run.snapshot = SnapshotOf[tree]
  /\ run.step \in {"gate", "rerun"} /\ run.phase # 1 /\ ~run.flagged => Holds
  /\ run.step = "passed" => Holds

Inv == Shape /\ ResultInv /\ GateInv

-----------------------------------------------------------------------------
LEMMA IdleRunType == IdleRun \in RunType /\ Absent \in Output
BY DEF IdleRun, RunType, RunSteps, Errors, Absent, Output

(* Steps that leave the gate and what it believes alone.                   *)
LEMMA GateStays ==
  ASSUME GateInv, UNCHANGED cache,
         run'.step \notin {"gate", "rerun", "passed"}
  PROVE  GateInv'
BY DEF GateInv

LEMMA InvokeStep ==
  ASSUME Inv, NEW i \in Ids, Invoke(i) PROVE Inv'
<1>1. run' = [IdleRun EXCEPT !.step = "attempt", !.id = i]
  BY DEF Invoke
<1>2. run' \in RunType /\ run'.step = "attempt"
  BY <1>1, IdleRunType DEF RunType, RunSteps
<1>3. outputs' \in [Ids -> Output]
  BY DEF Invoke, Inv, Shape, Output
<1>4. QED  BY <1>2, <1>3, GateStays DEF Invoke, Inv, Shape, ResultInv

LEMMA BeginStep ==
  ASSUME Inv, Begin PROVE Inv'
<1>1. run' = [run EXCEPT !.step = "prompt"] /\ outputs' = [outputs EXCEPT ![run.id] = Absent]
  BY DEF Begin
<1>2. run' \in RunType /\ run'.step = "prompt" /\ run'.id = run.id /\ run.id \in Ids
  BY <1>1 DEF Inv, Shape, RunType, RunSteps
<1>3. outputs' \in [Ids -> Output] /\ outputs'[run.id] = Absent
  BY <1>1, <1>2, IdleRunType DEF Inv, Shape
<1>4. ResultInv'
  BY <1>2, <1>3 DEF ResultInv, Recent, Absent
<1>5. QED  BY <1>2, <1>3, <1>4, GateStays DEF Begin, Inv, Shape

(* A step of the runner after which no attempt is under way.               *)
LEMMA RunnerStep ==
  ASSUME Inv, run' \in RunType, run'.step \in {"caught", "attempt", "thrown"},
         UNCHANGED <<tree, outputs, cache>>
  PROVE  Inv'
BY GateStays DEF Inv, Shape, ResultInv

LEMMA GiveUpStep ==
  ASSUME Inv, NEW error \in Errors, GiveUp(error) PROVE Inv'
<1>1. run' \in RunType /\ run'.step = "caught"
  BY DEF GiveUp, Inv, Shape, RunType, RunSteps
<1>2. QED  BY <1>1, RunnerStep DEF GiveUp

LEMMA PromptResolvesStep ==
  ASSUME Inv, PromptResolves PROVE Inv'
<1>1. /\ run' \in RunType /\ run'.step = "read" /\ run'.id = run.id /\ run.step = "prompt"
      /\ UNCHANGED <<tree, outputs, cache>>
  BY DEF PromptResolves, Inv, Shape, RunType, RunSteps
<1>2. ResultInv'
  BY <1>1 DEF Inv, ResultInv
<1>3. QED  BY <1>1, <1>2, GateStays DEF Inv, Shape

LEMMA ReadResultStep ==
  ASSUME Inv, ReadResult PROVE Inv'
<1>1. run.id \in Ids /\ outputs[run.id] \in Output
  BY DEF Inv, Shape, RunType
<1>2. /\ run' \in RunType /\ run'.step = "returned" /\ run'.result = outputs[run.id]
      /\ run.step = "read" /\ UNCHANGED <<tree, outputs, cache>>
  BY <1>1 DEF ReadResult, Inv, Shape, RunType, RunSteps
<1>3. ResultInv'
  BY <1>2 DEF Inv, ResultInv
<1>4. QED  BY <1>2, <1>3, GateStays DEF Inv, Shape

LEMMA RetryStep ==
  ASSUME Inv, Retry PROVE Inv'
<1> DEFINE n == run.attempt + 1
<1>1. n \in Nat
  BY DEF Inv, Shape, RunType
<1>2. run' = [run EXCEPT !.step = "attempt", !.error = "none", !.attempt = n]
  BY DEF Retry
<1> HIDE DEF n
<1>3. run' \in RunType /\ run'.step = "attempt"
  BY <1>1, <1>2 DEF Inv, Shape, RunType, RunSteps, Errors
<1>4. QED  BY <1>3, RunnerStep DEF Retry

LEMMA LastAttemptStep ==
  ASSUME Inv, LastAttemptFails PROVE Inv'
<1> DEFINE failure == [status |-> "failure", recent |-> TRUE]
<1>1. failure \in Output /\ Recent(failure)
  BY DEF Output, Recent
<1>2. UNCHANGED <<tree, cache>>
  BY DEF LastAttemptFails
<1>3. \/ run' = [run EXCEPT !.step = "thrown"] /\ UNCHANGED outputs
      \/ /\ run' = [run EXCEPT !.step = "returned", !.result = failure]
         /\ outputs' = [outputs EXCEPT ![run.id] = failure]
  BY DEF LastAttemptFails
<1>4. CASE run' = [run EXCEPT !.step = "thrown"] /\ UNCHANGED outputs
  <2>1. run' \in RunType /\ run'.step = "thrown"
    BY <1>4 DEF Inv, Shape, RunType, RunSteps
  <2>2. QED  BY <1>2, <1>4, <2>1, RunnerStep
<1>5. CASE /\ run' = [run EXCEPT !.step = "returned", !.result = failure]
           /\ outputs' = [outputs EXCEPT ![run.id] = failure]
  <2> HIDE DEF failure
  <2>1. run' \in RunType /\ run'.step = "returned" /\ run'.result = failure
    BY <1>1, <1>5 DEF Inv, Shape, RunType, RunSteps
  <2>2. outputs' \in [Ids -> Output]
    BY <1>1, <1>5 DEF Inv, Shape
  <2>3. QED  BY <1>1, <1>2, <2>1, <2>2, GateStays DEF Inv, Shape, ResultInv
<1>6. QED  BY <1>3, <1>4, <1>5

(* Agents change the tree and the result files only while they are at      *)
(* work or, of results, after they were given up.                          *)
LEMMA WriteStep ==
  ASSUME Inv, NEW i \in Ids, WritesResult(i) PROVE Inv'
<1>1. PICK status \in {"success", "failure"} :
        outputs' = [outputs EXCEPT ![i] = [status |-> status, recent |-> TRUE]]
  BY DEF WritesResult
<1>2. UNCHANGED <<tree, run, cache>>
  BY DEF WritesResult
<1> DEFINE o == [status |-> status, recent |-> TRUE]
<1>3. o \in Output /\ Recent(o)
  BY DEF Output, Recent
<1>4. outputs' = [outputs EXCEPT ![i] = o]
  BY <1>1
<1> HIDE DEF o
<1>5. outputs' \in [Ids -> Output] /\ \A j \in Ids : outputs'[j] = IF j = i THEN o ELSE outputs[j]
  BY <1>3, <1>4 DEF Inv, Shape
<1>6. run.id \in Ids
  BY DEF Inv, Shape, RunType
<1>7. ResultInv'
  BY <1>2, <1>3, <1>5, <1>6 DEF Inv, ResultInv
<1>8. GateInv'
  BY <1>2 DEF Inv, GateInv, Holds
<1>9. QED  BY <1>2, <1>5, <1>7, <1>8 DEF Inv, Shape

LEMMA WorkStep ==
  ASSUME Inv, run.step = "prompt", tree' \in Trees, UNCHANGED <<outputs, run, cache>>
  PROVE  Inv'
BY GateStays DEF Inv, Shape, ResultInv

LEMMA AgentStepInv ==
  ASSUME Inv, AgentStep PROVE Inv'
<1>1. run.id \in Ids /\ tree \in Trees
  BY DEF Inv, Shape, RunType
<1>2. CASE RunsCommand
  BY <1>1, <1>2, WorkStep DEF RunsCommand, Works
<1>3. CASE Edits
  BY <1>3, WorkStep DEF Edits, Works
<1>4. CASE RunsCommandAndEdits
  BY <1>4, WorkStep DEF RunsCommandAndEdits, Works
<1>5. CASE WritesResult(run.id)
  BY <1>1, <1>5, WriteStep
<1>6. CASE run.step = "prompt" /\ UNCHANGED <<tree, outputs, run, cache>>
  BY <1>1, <1>6, WorkStep
<1>7. QED  BY <1>2, <1>3, <1>4, <1>5, <1>6 DEF AgentStep

-----------------------------------------------------------------------------
LEMMA StartGateStep ==
  ASSUME Inv, StartGate PROVE Inv'
<1>1. run' = [IdleRun EXCEPT !.step = "gate", !.id = run.id] /\ run.id \in Ids
  BY DEF StartGate, Inv, Shape, RunType
<1>2. run' \in RunType /\ run'.step = "gate" /\ run'.phase = 1
  BY <1>1, IdleRunType DEF RunType, RunSteps, IdleRun
<1>3. GateInv'
  BY <1>2 DEF StartGate, Inv, GateInv
<1>4. QED  BY <1>2, <1>3 DEF StartGate, Inv, Shape, ResultInv

(* The gate goes on to the next phase, with a flag or with a pass that     *)
(* holds.                                                                  *)
LEMMA NextPhaseStep ==
  ASSUME Inv, run.step \in {"gate", "rerun"}, NEW flags \in BOOLEAN, NextPhase(flags),
         UNCHANGED <<tree, outputs>>,
         flags \/ Holds',
         \A e \in cache' : e.adopted \/ e.snapshot \in Passing
  PROVE  Inv'
<1> DEFINE next == run.phase + 1
           flagged == run.flagged \/ flags
<1>1. run' = [run EXCEPT !.step = "gate", !.phase = next, !.snapshot = "none",
                         !.retried = FALSE, !.flagged = flagged]
  BY DEF NextPhase
<1>2. next \in Nat /\ flagged \in BOOLEAN /\ (flags => flagged)
  BY DEF Inv, Shape, RunType
<1> HIDE DEF next, flagged
<1>3. run' \in RunType /\ run'.step = "gate" /\ (flags => run'.flagged)
  <2>1. run' \in RunType
    BY <1>1, <1>2 DEF Inv, Shape, RunType, RunSteps
  <2>2. run'.step = "gate" /\ run'.flagged = flagged
    BY <1>1 DEF Inv, Shape, RunType
  <2>3. QED  BY <1>2, <2>1, <2>2
<1>4. GateInv'
  BY <1>3 DEF GateInv
<1>5. QED  BY <1>3, <1>4 DEF Inv, Shape, ResultInv

LEMMA RecordedPasses ==
  ASSUME GateInv, NEW snapshot, NEW adopted \in BOOLEAN, Record(snapshot, adopted),
         adopted \/ snapshot \in Passing
  PROVE  /\ \A e \in cache' : e.adopted \/ e.snapshot \in Passing
         /\ adopted => \E e \in cache' : e.adopted /\ e.snapshot = snapshot
<1> DEFINE new == [phase |-> Phase, snapshot |-> snapshot, adopted |-> adopted]
<1>1. new.snapshot = snapshot /\ new.adopted = adopted
  OBVIOUS
<1>2. new \in cache' /\ cache' \subseteq cache \cup {new}
  BY DEF Record
<1> HIDE DEF new
<1>3. QED  BY <1>1, <1>2 DEF GateInv

LEMMA CheckPhaseStep ==
  ASSUME Inv, CheckPhase PROVE Inv'
<1> DEFINE snapshot == SnapshotOf[tree]
<1>1. run.step = "gate" /\ UNCHANGED <<tree, outputs>> /\ snapshot \in Snapshots
  BY DEF CheckPhase, Inv, Shape, Snapshots
<1>2. CASE Cached(snapshot) /\ NextPhase(FALSE) /\ UNCHANGED cache
  <2>1. PICK e \in cache : e.snapshot = snapshot
    BY <1>2 DEF Cached
  <2>2. Holds'
    BY <1>1, <1>2, <2>1 DEF Inv, GateInv, Holds
  <2>3. QED  BY <1>1, <1>2, <2>2, NextPhaseStep DEF Inv, GateInv
<1>3. CASE Record(snapshot, TRUE) /\ NextPhase(FALSE)
  <2>1. /\ \A e \in cache' : e.adopted \/ e.snapshot \in Passing
        /\ \E e \in cache' : e.adopted /\ e.snapshot = snapshot
    BY <1>3, RecordedPasses DEF Inv
  <2>2. Holds'
    BY <1>1, <2>1 DEF Holds
  <2>3. QED  BY <1>1, <1>3, <2>1, <2>2, NextPhaseStep
<1>4. CASE run' = [run EXCEPT !.step = "rerun", !.snapshot = snapshot] /\ UNCHANGED cache
  <2> HIDE DEF snapshot
  <2>1. /\ run' \in RunType /\ run'.step = "rerun" /\ run'.snapshot = snapshot
        /\ run'.phase = run.phase /\ run'.flagged = run.flagged
    BY <1>1, <1>4 DEF Inv, Shape, RunType, RunSteps
  <2>2. GateInv'
    BY <1>1, <1>4, <2>1 DEF Inv, GateInv, Holds, snapshot
  <2>3. QED  BY <1>1, <2>1, <2>2 DEF Inv, Shape, ResultInv
<1>5. QED  BY <1>2, <1>3, <1>4 DEF CheckPhase

LEMMA CommandEndsStep ==
  ASSUME Inv, CommandEnds PROVE Inv'
<1>1. /\ run.step = "rerun" /\ UNCHANGED <<tree, outputs>>
      /\ run.snapshot = SnapshotOf[tree]
  BY DEF CommandEnds, Inv, GateInv
<1>2. CASE SnapshotOf[tree] \in Passing
  <2>1. Record(run.snapshot, FALSE) /\ NextPhase(FALSE)
    BY <1>2 DEF CommandEnds
  <2>2. \A e \in cache' : e.adopted \/ e.snapshot \in Passing
    BY <1>1, <1>2, <2>1, RecordedPasses DEF Inv
  <2>3. Holds'
    BY <1>1, <1>2 DEF Holds
  <2>4. QED  BY <1>1, <2>1, <2>2, <2>3, NextPhaseStep
<1>3. CASE SnapshotOf[tree] \notin Passing
  <2>1. NextPhase(TRUE) /\ UNCHANGED cache
    BY <1>3 DEF CommandEnds
  <2>2. QED  BY <1>1, <2>1, NextPhaseStep DEF Inv, GateInv
<1>4. QED  BY <1>2, <1>3

LEMMA CommandTimesOutStep ==
  ASSUME Inv, CommandTimesOut PROVE Inv'
<1>1. run.step = "rerun" /\ UNCHANGED <<tree, outputs, cache>>
  BY DEF CommandTimesOut
<1>2. CASE NextPhase(TRUE)
  BY <1>1, <1>2, NextPhaseStep DEF Inv, GateInv
<1>3. CASE run' = [run EXCEPT !.retried = TRUE]
  <2>1. /\ run' \in RunType /\ run'.step = run.step /\ run'.snapshot = run.snapshot
        /\ run'.phase = run.phase /\ run'.flagged = run.flagged
    BY <1>3 DEF Inv, Shape, RunType
  <2>2. GateInv'
    BY <1>1, <2>1 DEF Inv, GateInv, Holds
  <2>3. QED  BY <1>1, <2>1, <2>2 DEF Inv, Shape, ResultInv
<1>4. QED  BY <1>2, <1>3 DEF CommandTimesOut

LEMMA GateEndsStep ==
  ASSUME Inv, GateEnds PROVE Inv'
<1>1. /\ run.step = "gate" /\ run.phase > Len(Phases) /\ UNCHANGED <<tree, outputs, cache>>
      /\ run' = [run EXCEPT !.step = IF run.flagged THEN "failed" ELSE "passed"]
  BY DEF GateEnds
<1>2. run' \in RunType /\ run'.step = IF run.flagged THEN "failed" ELSE "passed"
  BY <1>1 DEF Inv, Shape, RunType, RunSteps
<1>3. run.phase # 1
  BY <1>1 DEF Inv, Shape, RunType
<1>4. run'.step = "passed" => Holds
  BY <1>1, <1>2, <1>3 DEF Inv, GateInv
<1>5. GateInv'
  BY <1>1, <1>2, <1>4 DEF Inv, GateInv, Holds
<1>6. QED  BY <1>1, <1>2, <1>5 DEF Inv, Shape, ResultInv

-----------------------------------------------------------------------------
LEMMA NextInv ==
  ASSUME Inv, [Next]_vars PROVE Inv'
<1>1. ASSUME NEW i \in Ids, Invoke(i) PROVE Inv'
  BY <1>1, InvokeStep
<1>2. ASSUME NEW i \in Ids, LateAgent(i) PROVE Inv'
  BY <1>2, WriteStep DEF LateAgent
<1>3. CASE Runner
  BY <1>3, BeginStep, ReadResultStep, RetryStep, LastAttemptStep DEF Runner
<1>4. CASE TimeOut \/ StaleTool \/ PromptFails
  BY <1>4, GiveUpStep DEF TimeOut, StaleTool, PromptFails, Errors
<1>5. CASE Gate
  BY <1>5, StartGateStep, CheckPhaseStep, CommandEndsStep, CommandTimesOutStep, GateEndsStep
     DEF Gate
<1>6. CASE UNCHANGED vars
  BY <1>6 DEF vars, Inv, Shape, ResultInv, GateInv, Holds
<1>7. QED  BY <1>1, <1>2, <1>3, <1>4, <1>5, <1>6, PromptResolvesStep, AgentStepInv DEF Next

LEMMA SpecInv == Spec => []Inv
<1>1. Init => Inv
  BY IdleRunType DEF Init, Inv, Shape, ResultInv, GateInv, IdleRun
<1>2. QED  BY <1>1, NextInv, PTL DEF Spec

(* The result of an invocation was written since its last attempt began,    *)
(* however many attempts were given up and whatever their agents write late. *)
THEOREM ResultsAreRecent == Spec => []ReturnedIsRecent
<1>1. Inv => ReturnedIsRecent
  BY DEF Inv, ResultInv, Recent, ReturnedIsRecent
<1>2. QED  BY <1>1, SpecInv, PTL

(* Passes the runtime has seen itself are reused only on the snapshot they  *)
(* were seen on, for any history of edits, gates and invocations.           *)
THEOREM OwnPassesAreTrue == Spec => []OwnPassesHold
<1>1. Inv => OwnPassesHold
  BY DEF Inv, GateInv, Holds, OwnPassesHold
<1>2. QED  BY <1>1, SpecInv, PTL
=============================================================================
