---------------------------- MODULE BatchLifecycle ----------------------------
(***************************************************************************)
(* The life of a batch of the batch runtime (tools/klevar-yolo-runtime):   *)
(* from its selection to its commit, what each step leaves on the disk,    *)
(* and what a later start makes of it after a crash between any two steps. *)
(* One process at a time, which is what RuntimeLock is about.  Modelled    *)
(* with the default configuration (work trees on, no collaboration), one   *)
(* phase of items, no pending inbox entries, and one kind of support work  *)
(* for each scope where the code has a sequence of three.                  *)
(***************************************************************************)
EXTENDS Integers, Sequences, FiniteSetsExt

CONSTANTS NItems,        \* lines of docs/progress.md
          MaxBatchSize,  \* config.maxBatchSize
          Keep,          \* retention.keepSuccessfulWorktrees
          MaxBatch,      \* bound on batch numbers
          MaxFaults      \* bound on crashes and errors

ASSUME LifecycleAssumption ==
  /\ NItems \in Nat /\ Keep \in Nat /\ MaxFaults \in Nat
  /\ MaxBatchSize \in Nat \ {0} /\ MaxBatch \in Nat \ {0}

VARIABLES results,   \* batches with a result in the project's .yolo/batch-results
          gates,     \* batches (or support scopes) with a gate file in the project
          ticked,    \* checked items of docs/progress.md
          due,       \* .yolo/support-due.json names the phase
          commits,   \* the log: batches and whether a result of theirs is in them
          trees,     \* .yolo/worktrees
          state,     \* .yolo/runtime-state.json
          run,       \* the running process
          faults

disk == <<results, gates, ticked, due, commits, trees>>
vars == <<results, gates, ticked, due, commits, trees, state, run, faults>>

Items == 1..NItems
Numbers == 1..MaxBatch
Scopes == {"full", "next"}
Support == {"none", "phase", "final"}  \* batch.supportScope

(* The result files of a batch as mergeRecoveredResult merges them: a      *)
(* bugfix makes a failure a success, and may be all there is ("bugfix").   *)
(* covers is the merged itemsCompleted, support what was asked for.  A     *)
(* journal is "bare" if its result does not list the journal gate as a     *)
(* changed file.                                                           *)
Tree == [there : BOOLEAN, result : {"none", "failure", "success", "bugfix"},
         covers : SUBSET Items, support : Support,
         journal : {"none", "listed", "bare"}]

NoTree == [there |-> FALSE, result |-> "none", covers |-> {},
           support |-> "none", journal |-> "none"]

Steps == {"idle", "start", "select", "worktree", "implement", "copy", "validate",
          "merge", "journal", "sync", "tick", "due", "closeout", "support",
          "commit", "finish"}

Run == [step : Steps, scope : Scopes \cup {"unknown"},
        continued : BOOLEAN,  \* continueYolo, not runSingleBatch
        n : 0..MaxBatch, items : SUBSET Items, support : Support,
        origin : {"plan", "match", "result"}]  \* where the items come from

IdleRun == [step |-> "idle", scope |-> "unknown", continued |-> FALSE, n |-> 0,
            items |-> {}, support |-> "none", origin |-> "plan"]

RuntimeState == [running : BOOLEAN,  \* status
                 n : 0..MaxBatch, tree : BOOLEAN,
                 scope : Scopes \cup {"unknown"}, support : Support]

NoState == [running |-> FALSE, n |-> 0, tree |-> FALSE,
            scope |-> "unknown", support |-> "none"]

TypeOK ==
  /\ results \subseteq Numbers
  /\ gates \in [e2e : SUBSET Numbers, journal : SUBSET Numbers,
                closeout : SUBSET Numbers, support : SUBSET {"phase", "final"}]
  /\ ticked \subseteq Items
  /\ due \in BOOLEAN
  /\ commits \in Seq([n : Numbers, recorded : BOOLEAN])
  /\ trees \in [Numbers -> Tree]
  /\ state \in RuntimeState
  /\ run \in Run
  /\ faults \in 0..MaxFaults

Init ==
  /\ results = {}
  /\ gates = [e2e |-> {}, journal |-> {}, closeout |-> {}, support |-> {}]
  /\ ticked = {}
  /\ due = FALSE
  /\ commits = <<>>
  /\ trees = [n \in Numbers |-> NoTree]
  /\ state = NoState
  /\ run = IdleRun
  /\ faults = 0

-----------------------------------------------------------------------------
(* What is read off the disk.                                              *)

Highest(S) == IF S = {} THEN 0 ELSE Max(S)

Committed == {commits[i].n : i \in DOMAIN commits}

(* repairCommittedCloseoutGate                                             *)
Repairable(n) == n \in gates.journal /\ n \in results /\ n \in Committed

Repaired(S) == [gates EXCEPT !.closeout = @ \cup {n \in S : Repairable(n)}]

Above(S, m) == {n \in S : n > m}

(* findIncompleteBatch, after its repairs: the batches whose result is     *)
(* higher than the highest closeout.                                       *)
Incomplete ==
  LET open == Above(results, Highest(gates.closeout))
  IN Above(results, Highest(Repaired(open).closeout))

NextBatchNumber == Highest(results) + 1

(* Mutant: the journal gate is not required.                               *)
HasClosedBefore(n) ==
  n > 1 => n - 1 \in gates.e2e \cap Repaired({n - 1}).closeout

(* verifyPreviousBatchGates; it repairs the closeout gate on its way.      *)
PreviousGates(n) ==
  n > 1 => n - 1 \in gates.e2e \cap gates.journal \cap Repaired({n - 1}).closeout

Unchecked == Items \ ticked

(* selectBatch: the first k unchecked items.                               *)
FirstUnchecked(k) ==
  {i \in Unchecked : Cardinality({j \in Unchecked : j < i}) < k}

(* nextSupportPlan                                                         *)
NextSupport ==
  IF due /\ "phase" \notin gates.support THEN "phase"
  ELSE IF Unchecked = {} /\ "final" \notin gates.support THEN "final"
  ELSE "none"

(* A candidate of findLatestResumableBatch.                                *)
HasResult(n) == trees[n].there /\ trees[n].result # "none"

(* Mutant: the earliest kept work tree is taken.                           *)
EarliestResumable ==
  LET S == {n \in Numbers : HasResult(n)} IN IF S = {} THEN 0 ELSE Min(S)

LatestResumable == Highest({n \in Numbers : HasResult(n)})

StateTree == state.tree /\ state.n > 0 /\ trees[state.n].there

(* The batch continueYolo takes up; 0 if there is none.                    *)
ContinuedBatch == IF StateTree THEN state.n ELSE LatestResumable

-----------------------------------------------------------------------------
(* Steps.                                                                  *)

Goto(step) == run' = [run EXCEPT !.step = step]

(* setPhase marks the state as running, whoever last wrote it.             *)
SetPhase == state' = [state EXCEPT !.running = TRUE]

(* finishRuntime "failed" and the end of the process.                      *)
Fail ==
  /\ state' = [state EXCEPT !.running = FALSE]
  /\ run' = IdleRun

(* resetRuntimeState                                                       *)
FreshState(n, scope, support) ==
  [running |-> TRUE, n |-> n, tree |-> FALSE, scope |-> scope, support |-> support]

MyTree == trees[run.n]

Launch(scope) ==
  /\ run.step = "idle"
  /\ run' = [IdleRun EXCEPT !.step = "start", !.scope = scope]
  /\ UNCHANGED <<disk, state, faults>>

(* runYolo refuses while a batch is not closed.                            *)
RefuseToStart ==
  /\ run.step = "start" /\ Incomplete # {}
  /\ gates' = Repaired(Above(results, Highest(gates.closeout)))
  /\ state' = [FreshState(Min(Incomplete), run.scope, "none") EXCEPT !.running = FALSE]
  /\ run' = IdleRun
  /\ UNCHANGED <<results, ticked, due, commits, trees, faults>>

Start ==
  /\ run.step = "start" /\ Incomplete = {}
  /\ gates' = Repaired(Above(results, Highest(gates.closeout)))
  /\ Goto("select")
  /\ UNCHANGED <<results, ticked, due, commits, trees, state, faults>>

(* makeBatch                                                               *)
PlannedSupport(scope) == IF scope = "full" THEN NextSupport ELSE "none"

PlannedItems(scope) ==
  IF PlannedSupport(scope) # "none" THEN {}
  ELSE FirstUnchecked(IF scope = "full" THEN MaxBatchSize ELSE 1)

NothingToDo(scope) == PlannedItems(scope) = {} /\ PlannedSupport(scope) = "none"

EndOfScope ==
  /\ run.step = "select" /\ NothingToDo(run.scope)
  /\ run' = IdleRun
  /\ UNCHANGED <<disk, state, faults>>

Select ==
  LET n == NextBatchNumber IN
  /\ run.step = "select" /\ ~NothingToDo(run.scope) /\ n \in Numbers
  /\ gates' = Repaired({n - 1})
  /\ IF PreviousGates(n)
     THEN /\ state' = FreshState(n, run.scope, PlannedSupport(run.scope))
          /\ run' = [run EXCEPT !.step = "worktree", !.n = n,
                       !.items = PlannedItems(run.scope),
                       !.support = PlannedSupport(run.scope)]
     ELSE /\ state' = [FreshState(n, run.scope, PlannedSupport(run.scope))
                         EXCEPT !.running = FALSE]
          /\ run' = IdleRun
  /\ UNCHANGED <<results, ticked, due, commits, trees, faults>>

(* runYolo with dryRun takes no lock, selects, and leaves its selection in *)
(* the state file, while another process may be at work.                   *)
DryRun(scope) ==
  LET n == NextBatchNumber
      open == Above(results, Highest(gates.closeout))
  IN
  /\ \/ /\ NothingToDo(scope)
        /\ gates' = Repaired(open) /\ state' = state
     \/ /\ ~NothingToDo(scope) /\ n \in Numbers
        /\ gates' = Repaired(open \cup {n - 1})
        /\ state' = [FreshState(n, scope, PlannedSupport(scope)) EXCEPT
                       !.running = FALSE]
  /\ UNCHANGED <<results, ticked, due, commits, trees, run, faults>>

(* createWorktree keeps a work tree that is there.                         *)
CreateWorktree ==
  /\ run.step = "worktree"
  /\ trees' = [trees EXCEPT ![run.n].there = TRUE]
  /\ state' = [state EXCEPT !.running = TRUE, !.tree = TRUE]
  /\ Goto("implement")
  /\ UNCHANGED <<results, gates, ticked, due, commits, faults>>

(* runImplementationAgent: the output of an earlier session is removed     *)
(* (not that of a bugfix), then the agent writes a result, or none, or a   *)
(* failure is written for it.  Nothing compares its items with the batch's.*)
Bugfixed == MyTree.result = "bugfix"

Bugfixes == IF Bugfixed THEN MyTree.covers ELSE {}

RunAgent ==
  /\ run.step = "implement"
  /\ \E file \in {"none", "failure", "success"}, covers \in SUBSET run.items :
       /\ file = "none" => covers = {}
       /\ file = "success" /\ run.items # {} => covers # {}
       /\ trees' = [trees EXCEPT
            ![run.n].result = IF ~Bugfixed THEN file
                              ELSE IF file = "none" THEN "bugfix" ELSE "success",
            ![run.n].covers = Bugfixes \cup covers,
            ![run.n].support = IF file = "success" THEN run.support
                               ELSE IF Bugfixed THEN @ ELSE "none"]
  /\ Goto("copy")
  /\ UNCHANGED <<results, gates, ticked, due, commits, state, faults>>

(* copyBatchResultArtifacts: what is not there is not copied.              *)
HasFile(n) == trees[n].result \in {"failure", "success"}

CopiedResults(n) == results \cup {m \in {n} : HasFile(m)}

CopyResult ==
  /\ run.step = "copy"
  /\ results' = CopiedResults(run.n)
  /\ Goto("validate") /\ SetPhase
  /\ UNCHANGED <<gates, ticked, due, commits, trees, faults>>

(* Runtime gates, findings, adjudication, bugfix recovery and adversarial  *)
(* validation: the batch is accepted as it is, after a bugfix, or rejected *)
(* (then, too, a bugfix result may have been left).  A bugfix result names *)
(* items or only fixes.                                                    *)
RunBugfix ==
  \E fixes \in SUBSET run.items, support \in {run.support, MyTree.support} :
    trees' = [trees EXCEPT ![run.n].result = IF HasFile(run.n) THEN "success" ELSE "bugfix",
                ![run.n].covers = @ \cup fixes, ![run.n].support = support]

Validate ==
  /\ run.step = "validate"
  /\ gates' = [gates EXCEPT !.e2e = @ \cup {run.n}]
  /\ \/ /\ MyTree.result \in {"success", "bugfix"}
        /\ trees' = trees
        /\ Goto("merge") /\ state' = state
     \/ RunBugfix /\ Goto("merge") /\ state' = state
     \/ /\ \/ RunBugfix
           \/ trees' = trees
        /\ Fail
  /\ UNCHANGED <<results, ticked, due, commits, faults>>

(* runMergeReadinessGate; the project may have changed under the batch.    *)
CheckMerge ==
  /\ run.step = "merge"
  /\ \/ Goto("journal") /\ SetPhase
     \/ Fail
  /\ UNCHANGED <<disk, faults>>

(* reuseOrRunJournalAgent                                                  *)
WriteJournal ==
  /\ run.step = "journal"
  /\ \/ /\ MyTree.journal # "none"
        /\ trees' = trees
        /\ Goto("sync") /\ SetPhase
     \/ /\ MyTree.journal = "none"
        /\ \E journal \in {"listed", "bare"} :
             trees' = [trees EXCEPT ![run.n].journal = journal]
        /\ Goto("sync") /\ SetPhase
     \/ /\ MyTree.journal = "none"
        /\ trees' = trees
        /\ Fail
  /\ UNCHANGED <<results, gates, ticked, due, commits, faults>>

(* syncWorktreeChangesToRoot carries over what the results list as changed:*)
(* the journal gate, and possibly results (of a bugfix, for one).          *)
Sync ==
  /\ run.step = "sync"
  /\ results' \in {results, results \cup {run.n}}
  /\ gates' = IF MyTree.journal = "listed"
              THEN [gates EXCEPT !.journal = @ \cup {run.n}] ELSE gates
  /\ Goto("tick") /\ SetPhase
  /\ UNCHANGED <<ticked, due, commits, trees, faults>>

(* Mutant: the ticks do not find their lines.                              *)
TickNothing ==
  /\ run.step = "tick"
  /\ Goto("due")
  /\ UNCHANGED <<disk, state, faults>>

(* tickProgressItems                                                       *)
Tick ==
  /\ run.step = "tick"
  /\ ticked' = ticked \cup run.items
  /\ Goto("due")
  /\ UNCHANGED <<results, gates, due, commits, trees, state, faults>>

(* markPhaseSupportDue, for the phases of the batch's items.               *)
MarkSupportDue ==
  /\ run.step = "due"
  /\ due' = (due \/ ( /\ run.support = "none" /\ run.origin # "result"
                      /\ run.items # {} /\ Unchecked = {} ))
  /\ Goto("closeout")
  /\ UNCHANGED <<results, gates, ticked, commits, trees, state, faults>>

Closeout ==
  /\ run.step = "closeout"
  /\ gates' = [gates EXCEPT !.closeout = @ \cup {run.n}]
  /\ Goto(IF run.support = "none" THEN "commit" ELSE "support")
  /\ UNCHANGED <<results, ticked, due, commits, trees, state, faults>>

WriteSupportGate ==
  /\ run.step = "support"
  /\ gates' = [gates EXCEPT !.support = @ \cup {run.support}]
  /\ Goto("commit")
  /\ UNCHANGED <<results, ticked, due, commits, trees, state, faults>>

(* createCommit                                                            *)
Commit ==
  /\ run.step = "commit"
  /\ commits' = Append(commits, [n |-> run.n, recorded |-> run.n \in results])
  /\ Goto("finish") /\ SetPhase
  /\ UNCHANGED <<results, gates, ticked, due, trees, faults>>

(* pruneSuccessfulWorktrees keeps the latest of the closed ones.           *)
Closed == {n \in Numbers : trees[n].there /\ n \in gates.closeout}

Pruned == {n \in Closed : Cardinality(Above(Closed, n)) >= Keep}

(* finishRuntime "complete".  The loop of a full scope goes on, and so     *)
(* does continueYolo, by another call of runYolo.                          *)
Finish ==
  /\ run.step = "finish"
  /\ trees' = [n \in Numbers |-> IF n \in Pruned THEN NoTree ELSE trees[n]]
  /\ state' = [state EXCEPT !.running = FALSE]
  /\ run' = IF run.scope = "full"
            THEN [IdleRun EXCEPT !.scope = "full",
                    !.step = IF run.continued THEN "start" ELSE "select"]
            ELSE IdleRun
  /\ UNCHANGED <<results, gates, ticked, due, commits, faults>>

-----------------------------------------------------------------------------
(* continueYolo, up to where it joins the steps above.                     *)

(* Without a work tree of its own the scope may come from a log.           *)
ContinuedScopes == IF StateTree THEN {state.scope} ELSE {state.scope, "full"}

ContinuedSupport == state.support

ContinuedItems == IF ContinuedSupport # "none" THEN {} ELSE FirstUnchecked(1)

Reported(n) == trees[n].covers

(* Mutant: a result that names anything will do.                           *)
MatchesAnyResult(n) == Reported(n) # {} \/ trees[n].support # "none"

(* batchMatchesResultItems                                                 *)
MatchesResult(n) ==
  IF ContinuedSupport # "none" THEN trees[n].support = ContinuedSupport
  ELSE ContinuedItems \subseteq Reported(n)

(* If the batch is not what the result is about, the result's items        *)
(* replace the batch's.                                                    *)
IsTakenUp(n) ==
  \/ MatchesResult(n)
  \/ StateTree /\ (Reported(n) # {} \/ trees[n].support # "none")

Running(n) == state.running /\ ~HasFile(n)

(* Mutant: batches that are committed are continued.                       *)
MayContinueAnything(n) ==
  /\ n # 0
  /\ PreviousGates(n)
  /\ (ContinuedItems # {} \/ ContinuedSupport # "none")

MayContinue(n) ==
  /\ n # 0
  /\ PreviousGates(n)
  /\ n \notin Committed
  /\ (ContinuedItems # {} \/ ContinuedSupport # "none")

ContinuationGates(n) == IF n = 0 THEN gates ELSE Repaired({n - 1})

(* The early returns.                                                      *)
RefuseToContinue ==
  LET n == ContinuedBatch IN
  /\ run.step = "idle"
  /\ ~MayContinue(n)
  /\ n # 0 => ~(PreviousGates(n) /\ n \in Committed)
  /\ gates' = ContinuationGates(n)
  /\ Fail
  /\ UNCHANGED <<results, ticked, due, commits, trees, faults>>

ContinueCommitted ==
  LET n == ContinuedBatch IN
  /\ run.step = "idle"
  /\ n # 0 /\ PreviousGates(n) /\ n \in Committed
  /\ gates' = ContinuationGates(n)
  /\ state' = [state EXCEPT !.running = FALSE]
  /\ \E scope \in ContinuedScopes :
       run' = IF scope = "full"
              THEN [IdleRun EXCEPT !.step = "start", !.scope = "full"] ELSE IdleRun
  /\ UNCHANGED <<results, ticked, due, commits, trees, faults>>

(* A batch that was running without a result is left alone while its state *)
(* is recent, and its agent is started again when it is not.               *)
RestartAgent ==
  LET n == ContinuedBatch IN
  /\ run.step = "idle"
  /\ MayContinue(n) /\ Running(n)
  /\ gates' = ContinuationGates(n)
  /\ \E scope \in ContinuedScopes :
       /\ state' = [state EXCEPT !.n = n, !.tree = TRUE, !.scope = scope]
       /\ run' = [step |-> "implement", scope |-> scope, continued |-> TRUE, n |-> n,
                  items |-> ContinuedItems, support |-> ContinuedSupport,
                  origin |-> "plan"]
  /\ UNCHANGED <<results, ticked, due, commits, trees, faults>>

RejectContinued ==
  LET n == ContinuedBatch IN
  /\ run.step = "idle"
  /\ MayContinue(n) /\ ~Running(n)
  /\ \/ ~HasResult(n) \/ ~IsTakenUp(n)
     \/ trees[n].result = "failure"  \* isNonResumableResult
  /\ gates' = ContinuationGates(n)
  /\ Fail
  /\ UNCHANGED <<results, ticked, due, commits, trees, faults>>

Resume ==
  LET n == ContinuedBatch IN
  /\ run.step = "idle"
  /\ MayContinue(n) /\ ~Running(n)
  /\ HasResult(n) /\ IsTakenUp(n)
  /\ gates' = ContinuationGates(n)
  /\ results' = CopiedResults(n)
  /\ \E scope \in ContinuedScopes :
       /\ state' = [state EXCEPT !.running = TRUE, !.n = n, !.tree = TRUE,
                                 !.scope = scope]
       /\ run' = [step |-> "validate", scope |-> scope, continued |-> TRUE, n |-> n,
                  items |-> IF MatchesResult(n) THEN ContinuedItems ELSE Reported(n),
                  support |-> ContinuedSupport,
                  origin |-> IF MatchesResult(n) THEN "match" ELSE "result"]
  /\ UNCHANGED <<ticked, due, commits, trees, faults>>

(* cleanBatch, for the batch a refused start names.                        *)
Clean ==
  /\ run.step = "idle" /\ Incomplete # {}
  /\ LET n == Min(Incomplete) IN
       /\ trees' = [trees EXCEPT ![n] = NoTree]
       /\ results' = results \ {n}
       /\ gates' = [gates EXCEPT !.e2e = @ \ {n}, !.journal = @ \ {n},
                                 !.closeout = @ \ {n}]
  /\ state' = NoState
  /\ UNCHANGED <<ticked, due, commits, run, faults>>

(* The process dies, or an exception ends it, which is recorded.           *)
Break ==
  /\ run.step # "idle" /\ faults < MaxFaults
  /\ faults' = faults + 1
  /\ run' = IdleRun
  /\ \/ state' = state
     \/ state' = [state EXCEPT !.running = FALSE]
  /\ UNCHANGED disk

-----------------------------------------------------------------------------
Continue == \/ RefuseToContinue \/ ContinueCommitted \/ RestartAgent
            \/ RejectContinued \/ Resume

(* The process's own steps.                                                *)
Work == \/ RefuseToStart \/ Start \/ EndOfScope \/ Select \/ CreateWorktree
        \/ RunAgent \/ CopyResult \/ Validate \/ CheckMerge \/ WriteJournal
        \/ Sync \/ Tick \/ MarkSupportDue \/ Closeout \/ WriteSupportGate
        \/ Commit \/ Finish

Operator == \/ \E scope \in Scopes : Launch(scope) \/ DryRun(scope)
            \/ Continue \/ Clean

Next == Work \/ Operator \/ Break

Spec == Init /\ [][Next]_vars

-----------------------------------------------------------------------------
(* Batches are committed in the order of their numbers, and one whose      *)
(* result is in the project is committed only once, wherever a crash or an *)
(* error cut a batch off and whatever was continued, cleaned or started    *)
(* anew.  For at most one crash: after three, a batch that was closed and  *)
(* not committed may be restarted behind a later one that left no result.  *)
CommitsRise ==
  \A i, j \in DOMAIN commits : i < j =>
    \/ commits[i].n < commits[j].n
    \/ commits[i].n = commits[j].n /\ ~commits[i].recorded

(* docs/klevar-yolo-runtime.md:152.  Before a batch is committed, every    *)
(* earlier one has its e2e, journal and closeout gates in the project.     *)
EarlierBatchesClosed ==
  \A n \in Committed : \A m \in 1..(n - 1) :
    m \in gates.e2e \cap gates.journal \cap gates.closeout

(* A batch that keeps new scopes from starting is the one continueYolo     *)
(* takes up, whatever refused starts and dry runs wrote to the state file, *)
(* and its work tree still holds a result.                                 *)
InterruptedIsResumable ==
  Incomplete # {} /\ run.step = "idle" =>
    /\ Incomplete = {ContinuedBatch}
    /\ HasResult(ContinuedBatch)

(* A batch taken up with a result ticks only items its results report.     *)
ContinuedTicksAreReported ==
  [][run.origin # "plan" /\ ticked' # ticked =>
       ticked' \ ticked \subseteq Reported(run.n)]_vars

(* No batch is committed for nothing: each commit stands for an item       *)
(* ticked or a support gate written, but for one batch repeated after each *)
(* crash.  So the loop over the batches of a full scope ends.              *)
CommitsAdvance ==
  Len(commits) <= Cardinality(ticked) + Cardinality(gates.support) + faults
===============================================================================
