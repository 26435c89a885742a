----------------------------- MODULE RuntimeLock -----------------------------
(***************************************************************************)
(* .yolo/runtime-lock.json, by which the runtimes started on one project   *)
(* keep out of each other's way.  The lock is a file that is read, judged  *)
(* and written by separate calls of the file system, so each call is a     *)
(* step.  An operating-system process is started once, runs runYolo with a *)
(* scope, and ends, crashes or is stopped by a successor.                  *)
(***************************************************************************)
EXTENDS Naturals

CONSTANTS Procs,    \* process ids
          NoLock,   \* there is no lock file
          Torn,     \* the file is truncated and not yet written
          Overlap   \* may two processes be between their file system calls?

ASSUME LockAssumption ==
  /\ \A p \in Procs, fresh \in BOOLEAN : [pid |-> p, fresh |-> fresh] \notin {NoLock, Torn}
  /\ NoLock # Torn
  /\ Overlap \in BOOLEAN

VARIABLES lock,  \* the content of the file
          fds,   \* the processes whose open descriptor is of the file in place
          proc

vars == <<lock, fds, proc>>

(* fresh abstracts heartbeatAt: is it less than ten minutes ago?           *)
Lock == [pid : Procs, fresh : BOOLEAN]

Scopes == {"full", "resume"}

(* Scopes whose work runYolo returns without awaiting it, so that its      *)
(* finally block runs first.  "resume" stands for the parallel scope too.  *)
Unawaited == {"resume"}

FileSteps == {"check", "stop", "clear", "open", "write", "remove"}

Process == [step : {"idle", "start", "locked", "detached", "ended", "dead"} \cup FileSteps,
            scope : Scopes,
            seen : Lock \cup {NoLock},  \* the lock acquireRuntimeLock has read
            inside : BOOLEAN,           \* between acquisition and finally
            stalled : BOOLEAN]          \* its heartbeats were once too late

IdleProcess == [step |-> "idle", scope |-> "full", seen |-> NoLock,
                inside |-> FALSE, stalled |-> FALSE]

TypeOK ==
  /\ lock \in Lock \cup {NoLock, Torn}
  /\ fds \in SUBSET Procs
  /\ proc \in [Procs -> Process]

Init ==
  /\ lock = NoLock
  /\ fds = {}
  /\ proc = [p \in Procs |-> IdleProcess]

-----------------------------------------------------------------------------
Alive(p) == proc[p].step \notin {"idle", "ended", "dead"}

Turn(p) == Overlap \/ \A q \in Procs \ {p} : proc[q].step \notin FileSteps

Go(p, step) == proc' = [proc EXCEPT ![p].step = step]

(* readRuntimeLock: what cannot be parsed is no lock.                      *)
ReadLock == IF lock = Torn THEN NoLock ELSE lock

HeldBy(p) == ReadLock # NoLock /\ ReadLock.pid = p

LockOf(p) == [pid |-> p, fresh |-> TRUE]

Clear == lock' = NoLock /\ fds' = {}

(* runYolo is called, by the command line or by continueYolo.              *)
Start(p, scope) ==
  /\ proc[p].step = "idle"
  /\ proc' = [proc EXCEPT ![p].step = "start", ![p].scope = scope]
  /\ UNCHANGED <<lock, fds>>

(* acquireRuntimeLock; a process that finds a lock of its own writes it    *)
(* again.                                                                  *)
Read(p) ==
  /\ proc[p].step = "start"
  /\ Turn(p)
  /\ proc' = [proc EXCEPT
                ![p].step = IF ReadLock = NoLock \/ HeldBy(p) THEN "open" ELSE "check",
                ![p].seen = ReadLock]
  /\ UNCHANGED <<lock, fds>>

(* Mutant: liveness of the holder is not asked for.                        *)
RefuseFresh(p) ==
  /\ proc[p].step = "check"
  /\ proc[p].seen.fresh
  /\ Go(p, "ended")
  /\ UNCHANGED <<lock, fds>>

Refuse(p) ==
  /\ proc[p].step = "check"
  /\ Alive(proc[p].seen.pid) /\ proc[p].seen.fresh
  /\ Go(p, "ended")
  /\ UNCHANGED <<lock, fds>>

(* Mutant: any living holder is stopped.                                   *)
OverrideLiving(p) ==
  /\ proc[p].step = "check"
  /\ Go(p, IF Alive(proc[p].seen.pid) THEN "stop" ELSE "clear")
  /\ UNCHANGED <<lock, fds>>

Override(p) ==
  /\ proc[p].step = "check"
  /\ ~(Alive(proc[p].seen.pid) /\ proc[p].seen.fresh)
  /\ Go(p, IF Alive(proc[p].seen.pid) THEN "stop" ELSE "clear")
  /\ UNCHANGED <<lock, fds>>

(* Mutant: the signal is left out.                                         *)
StopNobody(p) ==
  /\ proc[p].step = "stop"
  /\ Go(p, "clear")
  /\ UNCHANGED <<lock, fds>>

(* stopProcessTree: SIGTERM, which the runtime does not handle, ends the   *)
(* holder at once; it may have ended by itself.                            *)
Stop(p) ==
  LET holder == proc[p].seen.pid IN
  /\ proc[p].step = "stop"
  /\ proc' = [q \in Procs |->
                IF q = p THEN [proc[p] EXCEPT !.step = "clear"]
                ELSE IF q = holder /\ Alive(q) THEN [proc[q] EXCEPT !.step = "dead"]
                ELSE proc[q]]
  /\ UNCHANGED <<lock, fds>>

ClearStale(p) ==
  /\ proc[p].step = "clear"
  /\ Clear
  /\ Go(p, "open")

(* writeFileSync opens the file, which truncates or makes it, and writes.  *)
Open(p) ==
  /\ proc[p].step = "open"
  /\ lock' = Torn
  /\ fds' = fds \cup {p}
  /\ Go(p, "write")

(* What is written to a file removed since it was opened is lost.          *)
Write(p) ==
  /\ proc[p].step = "write"
  /\ lock' = IF p \in fds THEN LockOf(p) ELSE lock
  /\ fds' = fds \ {p}
  /\ proc' = [proc EXCEPT ![p].step = "locked", ![p].inside = TRUE]

-----------------------------------------------------------------------------
(* heartbeatRuntimeLock, every 30 s: only its own lock is written again.   *)
Heartbeat(p) ==
  /\ proc[p].step = "locked"
  /\ Turn(p)
  /\ HeldBy(p)
  /\ Go(p, "open")
  /\ UNCHANGED <<lock, fds>>

(* The event loop is blocked, or the machine asleep, for ten minutes.      *)
Stall(p) ==
  /\ proc[p].step = "locked"
  /\ lock = LockOf(p)
  /\ lock' = [lock EXCEPT !.fresh = FALSE]
  /\ proc' = [proc EXCEPT ![p].stalled = TRUE]
  /\ UNCHANGED fds

(* The finally block of runYolo, after the work or instead of awaiting it. *)
Finish(step, p) ==
  proc' = [proc EXCEPT ![p].step = step, ![p].inside = FALSE]

AfterRun(p) == IF proc[p].scope \in Unawaited THEN "detached" ELSE "ended"

(* releaseRuntimeLock reads, and removes what is its own or unreadable.    *)
Leave(p) ==
  /\ proc[p].step = "locked"
  /\ Turn(p)
  /\ Finish(IF ReadLock = NoLock \/ HeldBy(p) THEN "remove" ELSE AfterRun(p), p)
  /\ UNCHANGED <<lock, fds>>

Remove(p) ==
  /\ proc[p].step = "remove"
  /\ Clear
  /\ Go(p, AfterRun(p))

(* continueYolo has committed its batch: it is done, or goes on with the   *)
(* scope that was interrupted.                                             *)
ContinueEnds(p) ==
  /\ proc[p].step = "detached"
  /\ Go(p, "ended")
  /\ UNCHANGED <<lock, fds>>

ContinueScope(p) ==
  /\ proc[p].step = "detached"
  /\ proc' = [proc EXCEPT ![p].step = "start", ![p].scope = "full"]
  /\ UNCHANGED <<lock, fds>>

Crash(p) ==
  /\ Alive(p)
  /\ Go(p, "dead")
  /\ UNCHANGED <<lock, fds>>

-----------------------------------------------------------------------------
FileCall(p) ==
  \/ Read(p) \/ Refuse(p) \/ Override(p) \/ Stop(p) \/ ClearStale(p)
  \/ Open(p) \/ Write(p) \/ Remove(p)

Next ==
  \E p \in Procs :
    \/ FileCall(p) \/ Heartbeat(p) \/ Stall(p) \/ Leave(p)
    \/ ContinueEnds(p) \/ ContinueScope(p) \/ Crash(p)
    \/ \E scope \in Scopes : Start(p, scope)

Spec == Init /\ [][Next]_vars

(* Once called, the file system answers; the work may take for ever.       *)
FairSpec == Spec /\ \A p \in Procs : WF_vars(FileCall(p))

-----------------------------------------------------------------------------
(* No two processes are between acquiring the lock and their finally       *)
(* block, through crashes at any call, late heartbeats and take-overs; of  *)
(* processes whose calls do not overlap.                                   *)
LockedIsExclusive ==
  \A p, q \in Procs :
    p # q => ~(proc[p].inside /\ Alive(p) /\ proc[q].inside /\ Alive(q))

(* A runtime at work loses its lock, and its life, to a successor only if  *)
(* its heartbeats were late: a step that ends another process is a Stop    *)
(* of one that had stalled.                                                *)
OnlyStalledRunsAreStopped ==
  [][\A p, q \in Procs :
       (p # q /\ proc[p].step = "stop" /\ proc'[p].step = "clear"
        /\ Alive(q) /\ proc'[q].step = "dead") => proc[q].stalled]_vars

(* The lock of a process that has crashed, at whatever call, keeps nobody  *)
(* out: a runtime that is started while no other lives gets the lock.      *)
AbandonedLockIsTaken ==
  \A p \in Procs :
    (proc[p].step = "start" /\ \A q \in Procs \ {p} : ~Alive(q)) ~>
      (proc[p].inside \/ proc[p].step = "dead" \/ \E q \in Procs \ {p} : Alive(q))

(* "Klevar YOLO already running": no two runtimes work on the project.     *)
Working(p) == Alive(p) /\ (proc[p].inside \/ proc[p].step = "detached")

OneRuntime == \A p, q \in Procs : p # q => ~(Working(p) /\ Working(q))
=============================================================================
