---------------------------- MODULE AgentEvidence ----------------------------
(***************************************************************************)
(* Agents and the evidence of their work: runSubagent with its attempts,   *)
(* time-outs and result files, the session logs agents leave, and the gate *)
(* command-rerun, which believes that a command passes because it ran it,  *)
(* because it ran it before on the same snapshot, or because the log of a  *)
(* session says so.  One command is claimed for every phase.               *)
(*                                                                         *)
(* What an agent does is external: any edits, commands and results in any  *)
(* order.  Telemetry is left out.                                          *)
(***************************************************************************)
EXTENDS Naturals, Sequences, FiniteSets

CONSTANTS Ids,         \* of invocations; an id names session and result files
          Timed,       \* those whose route has timeoutSeconds
          MaxRetries,  \* budget.maxRetries
          Trees,       \* contents of the work tree
          SnapshotOf,  \* commandSnapshot of each: some files are not in it
          Passing,     \* the snapshots on which the command exits with 0
          Phases,      \* a sequence of the phases with evidence
          LateWrites   \* agents may still write a result after dispose()

ASSUME EvidenceAssumption ==
  /\ Ids # {} /\ Timed \subseteq Ids
  /\ MaxRetries \in Nat
  /\ Len(Phases) \in Nat \ {0}
  /\ Passing \subseteq {SnapshotOf[t] : t \in Trees}
  /\ LateWrites \in BOOLEAN

VARIABLES tree,
          sessions,  \* attempts whose log shows a pass that may be adopted
          outputs,   \* the result file of each id
          agent,     \* what the prompted agent is doing
          late,      \* ids whose disposed agents have not stopped yet
          run,       \* the runtime: runSubagent, then the gate
          cache      \* .yolo/command-cache.json

vars == <<tree, sessions, outputs, agent, late, run, cache>>

Attempts == 1..(MaxRetries + 1)

Snapshots == {SnapshotOf[t] : t \in Trees}

(* recent: written since the output of the attempt was cleared.            *)
Output == [status : {"absent", "success", "failure"}, recent : BOOLEAN]

Absent == [status |-> "absent", recent |-> FALSE]

(* "tool" waits for the result of a tool call, "silent" for the model.     *)
AgentStates == {"none", "works", "tool", "silent"}

Errors == {"none", "AGENT_TIMEOUT", "AGENT_STALE_TOOL_TIMEOUT", "other"}

(* A passed gate records the phases it adopted on the way.                 *)
RunSteps == {"idle", "attempt", "prompt", "read", "caught", "thrown",
             "returned", "gate", "rerun", "passed", "failed"}

IdleRun == [step |-> "idle", id |-> CHOOSE i \in Ids : TRUE, attempt |-> 1,
            error |-> "none", result |-> Absent, phase |-> 1, snapshot |-> "none",
            retried |-> FALSE, flagged |-> FALSE]

Entry == [phase : {Phases[n] : n \in DOMAIN Phases}, snapshot : Snapshots, adopted : BOOLEAN]

TypeOK ==
  /\ tree \in Trees
  /\ sessions \subseteq Ids \X Attempts
  /\ outputs \in [Ids -> Output]
  /\ agent \in AgentStates
  /\ late \subseteq Ids
  /\ run \in [step : RunSteps, id : Ids, attempt : Attempts, error : Errors,
              result : Output, phase : 1..(Len(Phases) + 1),
              snapshot : Snapshots \cup {"none"}, retried : BOOLEAN, flagged : BOOLEAN]
  /\ cache \subseteq Entry

Init ==
  /\ tree \in Trees
  /\ sessions = {}
  /\ outputs = [i \in Ids |-> Absent]
  /\ agent = "none"
  /\ late = {}
  /\ run = IdleRun
  /\ cache = {}

-----------------------------------------------------------------------------
(* runSubagent.                                                            *)

(* An id comes again when its batch is repeated or a validator is asked    *)
(* once more; its files are still there.                                   *)
Invoke(i) ==
  /\ run.step \in {"idle", "thrown", "returned", "passed", "failed"}
  /\ run' = [IdleRun EXCEPT !.step = "attempt", !.id = i]
  /\ outputs' = [outputs EXCEPT ![i].recent = FALSE]
  /\ UNCHANGED <<tree, sessions, agent, late, cache>>

(* Mutant: the output of an earlier attempt or run is left in its place.   *)
BeginUncleared ==
  /\ run.step = "attempt"
  /\ sessions' = sessions \ {<<run.id, run.attempt>>}
  /\ run' = [run EXCEPT !.step = "prompt"]
  /\ agent' = "works"
  /\ UNCHANGED <<tree, outputs, late, cache>>

(* The session file is removed, clearSubagentOutput, session.prompt.       *)
Begin ==
  /\ run.step = "attempt"
  /\ sessions' = sessions \ {<<run.id, run.attempt>>}
  /\ outputs' = [outputs EXCEPT ![run.id] = Absent]
  /\ run' = [run EXCEPT !.step = "prompt"]
  /\ agent' = "works"
  /\ UNCHANGED <<tree, late, cache>>

(* promptWithTimeout gives up, but the agent may be in the middle of a     *)
(* tool call; runAgent's finally disposes of the session after any error.  *)
GiveUp(error) ==
  /\ run.step = "prompt"
  /\ run' = [run EXCEPT !.step = "caught", !.error = error]
  /\ agent' = "none"
  /\ late' = IF LateWrites THEN late \cup {run.id} ELSE late
  /\ UNCHANGED <<tree, sessions, outputs, cache>>

TimeOut == run.id \in Timed /\ GiveUp("AGENT_TIMEOUT")

(* sessionStaleUnansweredToolReason, polled by an interval timer.          *)
StaleTool == agent = "tool" /\ GiveUp("AGENT_STALE_TOOL_TIMEOUT")

PromptFails == agent = "works" /\ GiveUp("other")

PromptResolves ==
  /\ run.step = "prompt" /\ agent = "works"
  /\ run' = [run EXCEPT !.step = "read"]
  /\ agent' = "none"
  /\ UNCHANGED <<tree, sessions, outputs, late, cache>>

(* readCanonicalBatchResult: without a file the result is INVALID_RESULT,  *)
(* here a failure that no file holds.                                      *)
ReadResult ==
  /\ run.step = "read"
  /\ run' = [run EXCEPT !.step = "returned", !.result = outputs[run.id]]
  /\ UNCHANGED <<tree, sessions, outputs, agent, late, cache>>

(* Mutant: the attempt is not counted.                                     *)
RetryUncounted ==
  /\ run.step = "caught" /\ run.attempt <= MaxRetries
  /\ run' = [run EXCEPT !.step = "attempt", !.error = "none"]
  /\ UNCHANGED <<tree, sessions, outputs, agent, late, cache>>

Retry ==
  /\ run.step = "caught" /\ run.attempt <= MaxRetries
  /\ run' = [run EXCEPT !.step = "attempt", !.error = "none", !.attempt = @ + 1]
  /\ UNCHANGED <<tree, sessions, outputs, agent, late, cache>>

(* writeSyntheticFailureResult of a recoverable time-out; any other error  *)
(* is thrown.                                                              *)
LastAttemptFails ==
  LET failure == [status |-> "failure", recent |-> TRUE] IN
  /\ run.step = "caught" /\ run.attempt > MaxRetries
  /\ IF run.error = "other"
     THEN run' = [run EXCEPT !.step = "thrown"] /\ UNCHANGED outputs
     ELSE /\ run' = [run EXCEPT !.step = "returned", !.result = failure]
          /\ outputs' = [outputs EXCEPT ![run.id] = failure]
  /\ UNCHANGED <<tree, sessions, agent, late, cache>>

-----------------------------------------------------------------------------
(* The agent.                                                              *)

Log == <<run.id, run.attempt>>

Works == run.step = "prompt" /\ agent = "works"

(* bash with the claimed command.  A pass may be adopted; a failure is a   *)
(* command after the earlier pass that is not read-only.                   *)
RunsCommand ==
  /\ Works
  /\ sessions' = IF SnapshotOf[tree] \in Passing THEN sessions \cup {Log} ELSE sessions \ {Log}
  /\ UNCHANGED <<tree, outputs, agent, late, run, cache>>

(* write, edit, or a command that is not read-only: hasLaterSourceMutation *)
Edits ==
  /\ Works
  /\ tree' \in Trees
  /\ sessions' = sessions \ {Log}
  /\ UNCHANGED <<outputs, agent, late, run, cache>>

(* One message asks for both: the edit's call comes before the result of   *)
(* the command, which is where later mutations are looked for.             *)
RunsCommandAndEdits ==
  /\ Works
  /\ SnapshotOf[tree] \in Passing
  /\ tree' \in Trees
  /\ sessions' = sessions \cup {Log}
  /\ UNCHANGED <<outputs, agent, late, run, cache>>

WritesResult(i) ==
  /\ \E status \in {"success", "failure"} :
       outputs' = [outputs EXCEPT ![i] = [status |-> status, recent |-> TRUE]]
  /\ UNCHANGED <<tree, sessions, run, cache>>

AgentStep ==
  \/ RunsCommand \/ Edits \/ RunsCommandAndEdits
  \/ Works /\ WritesResult(run.id) /\ UNCHANGED <<agent, late>>
  \/ /\ run.step = "prompt" /\ agent' \in {"works", "tool", "silent"} \ {agent}
     /\ UNCHANGED <<tree, sessions, outputs, late, run, cache>>

LateAgent(i) == i \in late /\ late' = late \ {i} /\ WritesResult(i) /\ UNCHANGED agent

-----------------------------------------------------------------------------
(* validateCommandEvidence, for a result that reports success.             *)

StartGate ==
  /\ run.step = "returned" /\ run.result.status = "success"
  /\ run' = [IdleRun EXCEPT !.step = "gate", !.id = run.id]
  /\ UNCHANGED <<tree, sessions, outputs, agent, late, cache>>

Phase == Phases[run.phase]

NextPhase(flags) ==
  run' = [run EXCEPT !.step = "gate", !.phase = @ + 1, !.snapshot = "none",
                     !.retried = FALSE, !.flagged = @ \/ flags]

(* Mutant: entries of other snapshots are hits as well.                    *)
CachedAnySnapshot(snapshot) == \E e \in cache : e.phase = Phase

(* cachedCommandPassed                                                     *)
Cached(snapshot) == \E e \in cache : e.phase = Phase /\ e.snapshot = snapshot

(* recordCommandPass replaces the entry of the same phase and snapshot.    *)
Record(snapshot, adopted) ==
  cache' = {e \in cache : ~(e.phase = Phase /\ e.snapshot = snapshot)}
             \cup {[phase |-> Phase, snapshot |-> snapshot, adopted |-> adopted]}

CheckPhase ==
  LET snapshot == SnapshotOf[tree] IN
  /\ run.step = "gate" /\ run.phase <= Len(Phases)
  /\ \/ /\ Cached(snapshot)
        /\ NextPhase(FALSE) /\ UNCHANGED cache
     \/ /\ ~Cached(snapshot) /\ sessions # {}   \* adoptedSessionCommandPassed
        /\ Record(snapshot, TRUE) /\ NextPhase(FALSE)
     \/ /\ ~Cached(snapshot) /\ sessions = {}
        /\ run' = [run EXCEPT !.step = "rerun", !.snapshot = snapshot]
        /\ UNCHANGED cache
  /\ UNCHANGED <<tree, sessions, outputs, agent, late>>

CommandEnds ==
  /\ run.step = "rerun"
  /\ IF SnapshotOf[tree] \in Passing
     THEN Record(run.snapshot, FALSE) /\ NextPhase(FALSE)
     ELSE NextPhase(TRUE) /\ UNCHANGED cache
  /\ UNCHANGED <<tree, sessions, outputs, agent, late>>

(* Mutant: a command that times out is run again however often it did.     *)
RerunsForever ==
  /\ run.step = "rerun"
  /\ run' = [run EXCEPT !.retried = ~@]
  /\ UNCHANGED <<tree, sessions, outputs, agent, late, cache>>

(* execCommand kills the process tree after 20 minutes and answers 124;    *)
(* the command is run once more.                                           *)
CommandTimesOut ==
  /\ run.step = "rerun"
  /\ IF run.retried THEN NextPhase(TRUE) ELSE run' = [run EXCEPT !.retried = TRUE]
  /\ UNCHANGED <<tree, sessions, outputs, agent, late, cache>>

GateEnds ==
  /\ run.step = "gate" /\ run.phase > Len(Phases)
  /\ run' = [run EXCEPT !.step = IF run.flagged THEN "failed" ELSE "passed"]
  /\ UNCHANGED <<tree, sessions, outputs, agent, late, cache>>

-----------------------------------------------------------------------------
Runner == Begin \/ ReadResult \/ Retry \/ LastAttemptFails

Gate == StartGate \/ CheckPhase \/ CommandEnds \/ CommandTimesOut \/ GateEnds

Next == \/ \E i \in Ids : Invoke(i) \/ LateAgent(i)
        \/ Runner \/ PromptResolves \/ PromptFails \/ TimeOut \/ StaleTool
        \/ AgentStep \/ Gate

Spec == Init /\ [][Next]_vars

(* The runtime goes on, its timers fire and commands end or are killed.    *)
(* Nothing is assumed of agents; stale tools need not be noticed, since a  *)
(* tool may answer in time.                                                *)
FairSpec == Spec /\ WF_vars(Runner) /\ WF_vars(TimeOut) /\ WF_vars(Gate)

-----------------------------------------------------------------------------
(* clearSubagentOutput: the result an invocation returns was written since *)
(* its last attempt began, never left by an earlier attempt or an earlier  *)
(* invocation of the same id, though an agent need not write one and       *)
(* agents that were given up may still write theirs.                       *)
ReturnedIsRecent ==
  run.step = "returned" /\ run.result.status # "absent" => run.result.recent

(* docs/klevar-yolo-runtime.md: "invalidate on any relevant worktree       *)
(* change".  If the gate passes without a pass that was adopted on this    *)
(* snapshot, the command passes on the tree as it is now, whatever agents  *)
(* have done to it since the passes it reuses.                             *)
OwnPassesHold ==
  run.step = "passed" =>
    \/ SnapshotOf[tree] \in Passing
    \/ \E e \in cache : e.adopted /\ e.snapshot = SnapshotOf[tree]

(* An agent with a time-out of its own returns or throws, whatever it and  *)
(* its tools do, and however many attempts it is given.                    *)
RunsEnd ==
  \A i \in Timed : run.id = i /\ run.step = "attempt" ~> run.step \in {"returned", "thrown"}

(* The gate comes to a verdict, also about commands that never end.        *)
GateSettles == run.step = "gate" ~> run.step \in {"passed", "failed"}

(* The test "command validator adopts exact passed subagent commands with  *)
(* no later source mutation": what is adopted passes on the tree as it is. *)
AdoptedPassesHold == \A e \in cache : e.adopted => e.snapshot \in Passing
=============================================================================
