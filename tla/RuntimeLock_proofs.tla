------------------------- MODULE RuntimeLock_proofs -------------------------
(* Proofs about RuntimeLock, for any number of processes.                  *)
EXTENDS RuntimeLock, TLAPS

USE LockAssumption

(* A lock that is not fresh, on disk or in a reader's memory, is that of a *)
(* process whose heartbeats were late; a reader that is about to judge or  *)
(* to signal its holder has read a lock.                                   *)
StaleIsStalled ==
  /\ lock \in Lock /\ ~lock.fresh => proc[lock.pid].stalled
  /\ \A p \in Procs :
       /\ proc[p].step \in {"check", "stop"} => proc[p].seen \in Lock
       /\ proc[p].seen \in Lock /\ ~proc[p].seen.fresh => proc[proc[p].seen.pid].stalled
       /\ proc[p].step = "stop" => proc[proc[p].seen.pid].stalled

Inv == TypeOK /\ StaleIsStalled

Inside(p) == proc[p].inside /\ Alive(p)

(* The calls of two processes do not overlap.                              *)
Serial ==
  \A p, q \in Procs :
    p # q => ~(proc[p].step \in FileSteps /\ proc[q].step \in FileSteps)

(* Who is inside is at work or renews its lock, and who is at work and     *)
(* alive owns the file.                                                    *)
InsideOwns ==
  \A p \in Procs :
    /\ Inside(p) => proc[p].step \in {"locked", "open", "write"}
    /\ Inside(p) /\ proc[p].step = "locked" => lock \in Lock /\ lock.pid = p
    /\ proc[p].step = "write" => p \in fds
    /\ proc[p].step = "idle" => ~proc[p].inside

(* A process that judges a lock while another is inside has read that      *)
(* one's lock; one that removes or writes the file is alone.               *)
Successor ==
  \A p, q \in Procs :
    (p # q /\ Inside(q)) =>
      /\ proc[p].step \in {"check", "stop"} => proc[p].seen.pid = q
      /\ proc[p].step \notin {"clear", "open", "write", "remove"}

Exclusion == Inv /\ Serial /\ InsideOwns /\ Successor

LEMMA InitInv == Init => Inv
  BY DEF Init, Inv, TypeOK, StaleIsStalled, IdleProcess, Process, Scopes, FileSteps, Lock

LEMMA LockIsRecord ==
  /\ NoLock \notin Lock /\ Torn \notin Lock
  /\ \A p \in Procs : LockOf(p) \in Lock /\ LockOf(p).pid = p /\ LockOf(p).fresh = TRUE
  BY DEF Lock, LockOf

(* The step of one process: it forgets no lateness, leaves on disk only a  *)
(* lock it may leave there, and judges only what it has read.              *)
LEMMA ProcessStep ==
  ASSUME Inv, NEW p \in Procs, NEW w \in Process,
         proc' = [proc EXCEPT ![p] = w],
         lock' \in Lock \cup {NoLock, Torn},
         fds' \in SUBSET Procs,
         w.stalled = proc[p].stalled \/ w.stalled = TRUE,
         lock' \in Lock /\ ~lock'.fresh =>
           proc[lock'.pid].stalled \/ (lock'.pid = p /\ w.stalled),
         w.step \in {"check", "stop"} => w.seen \in Lock,
         w.seen \in Lock /\ ~w.seen.fresh => proc[w.seen.pid].stalled,
         w.step = "stop" => proc[w.seen.pid].stalled
  PROVE  Inv'
<1>1. TypeOK'
  BY DEF Inv, TypeOK
<1>2. \A q \in Procs : proc'[q] = IF q = p THEN w ELSE proc[q]
  BY DEF Inv, TypeOK
<1>3. \A q \in Procs : proc[q].stalled => proc'[q].stalled
  BY <1>2, Zenon
<1>4. lock' \in Lock /\ ~lock'.fresh => proc'[lock'.pid].stalled
  <2>1. lock' \in Lock => lock'.pid \in Procs
    BY DEF Lock
  <2>2. QED  BY <1>2, <1>3, <2>1
<1>5. ASSUME NEW q \in Procs
      PROVE  /\ proc'[q].step \in {"check", "stop"} => proc'[q].seen \in Lock
             /\ proc'[q].seen \in Lock /\ ~proc'[q].seen.fresh => proc'[proc'[q].seen.pid].stalled
             /\ proc'[q].step = "stop" => proc'[proc'[q].seen.pid].stalled
  <2>1. \A l \in Lock : l.pid \in Procs
    BY DEF Lock
  <2>2. CASE q = p
    BY <1>2, <1>3, <2>1, <2>2
  <2>3. CASE q # p
    BY <1>2, <1>3, <2>1, <2>3 DEF Inv, StaleIsStalled
  <2>4. QED  BY <2>2, <2>3
<1>6. QED  BY <1>1, <1>4, <1>5 DEF Inv, StaleIsStalled

(* The common case: a step that writes the file only with a fresh lock,    *)
(* and keeps what the process has read.                                    *)
LEMMA FreshStep ==
  ASSUME Inv, NEW p \in Procs, NEW w \in Process,
         proc' = [proc EXCEPT ![p] = w],
         w.stalled = proc[p].stalled,
         w.seen = proc[p].seen,
         w.step \notin {"check", "stop"},
         lock' \in {lock, NoLock, Torn, LockOf(p)},
         fds' \in SUBSET Procs
  PROVE  Inv'
<1>1. lock' \in Lock \cup {NoLock, Torn}
  BY LockIsRecord DEF Inv, TypeOK
<1>2. lock' \in Lock /\ ~lock'.fresh => proc[lock'.pid].stalled
  BY LockIsRecord DEF Inv, StaleIsStalled
<1>3. w.seen \in Lock /\ ~w.seen.fresh => proc[w.seen.pid].stalled
  BY DEF Inv, StaleIsStalled
<1>4. QED  BY <1>1, <1>2, <1>3, ProcessStep

LEMMA GoStep ==
  ASSUME Inv, NEW p \in Procs,
         NEW s \in {"locked", "detached", "ended", "dead", "clear", "open", "write", "remove"},
         Go(p, s),
         lock' \in {lock, NoLock, Torn, LockOf(p)},
         fds' \in SUBSET Procs
  PROVE  Inv'
<1> DEFINE w == [proc[p] EXCEPT !.step = s]
<1>1. proc[p] \in Process
  BY DEF Inv, TypeOK
<1>2. w \in Process /\ w.stalled = proc[p].stalled /\ w.seen = proc[p].seen /\ w.step = s
  BY <1>1 DEF Process, FileSteps
<1>3. proc' = [proc EXCEPT ![p] = w]
  BY DEF Go, Inv, TypeOK
<1> HIDE DEF w
<1>4. QED  BY <1>2, <1>3, FreshStep

LEMMA ReadKeepsInv ==
  ASSUME Inv, NEW p \in Procs, Read(p)
  PROVE  Inv'
<1> DEFINE w == [proc[p] EXCEPT
                   !.step = IF ReadLock = NoLock \/ HeldBy(p) THEN "open" ELSE "check",
                   !.seen = ReadLock]
<1>1. proc[p] \in Process
  BY DEF Inv, TypeOK
<1>2. ReadLock \in Lock \cup {NoLock}
  BY DEF ReadLock, Inv, TypeOK
<1>3. /\ w \in Process /\ w.stalled = proc[p].stalled /\ w.seen = ReadLock
      /\ w.step = IF ReadLock = NoLock \/ HeldBy(p) THEN "open" ELSE "check"
  BY <1>1, <1>2 DEF Process, FileSteps
<1>4. proc' = [proc EXCEPT ![p] = w] /\ UNCHANGED <<lock, fds>>
  BY DEF Read, Inv, TypeOK
<1>5. ReadLock \in Lock /\ ~ReadLock.fresh => proc[ReadLock.pid].stalled
  BY LockIsRecord DEF ReadLock, Inv, StaleIsStalled
<1>6. lock \in Lock /\ ~lock.fresh => proc[lock.pid].stalled
  BY DEF Inv, StaleIsStalled
<1>7. lock \in Lock \cup {NoLock, Torn} /\ fds \in SUBSET Procs
  BY DEF Inv, TypeOK
<1> HIDE DEF w
<1>8. QED  BY <1>2, <1>3, <1>4, <1>5, <1>6, <1>7, ProcessStep

LEMMA OverrideKeepsInv ==
  ASSUME Inv, NEW p \in Procs, Override(p)
  PROVE  Inv'
<1> DEFINE s == IF Alive(proc[p].seen.pid) THEN "stop" ELSE "clear"
           w == [proc[p] EXCEPT !.step = s]
<1>1. proc[p] \in Process
  BY DEF Inv, TypeOK
<1>2. w \in Process /\ w.stalled = proc[p].stalled /\ w.seen = proc[p].seen /\ w.step = s
  BY <1>1 DEF Process, FileSteps
<1>3. proc' = [proc EXCEPT ![p] = w] /\ UNCHANGED <<lock, fds>>
  BY DEF Override, Go, Inv, TypeOK
<1>4. proc[p].seen \in Lock
  BY DEF Override, Inv, StaleIsStalled
<1>5. proc[p].seen \in Lock /\ ~proc[p].seen.fresh => proc[proc[p].seen.pid].stalled
  BY DEF Inv, StaleIsStalled
<1>6. s = "stop" => ~proc[p].seen.fresh
  BY DEF Override
<1>7. lock \in Lock /\ ~lock.fresh => proc[lock.pid].stalled
  BY DEF Inv, StaleIsStalled
<1>8. lock \in Lock \cup {NoLock, Torn} /\ fds \in SUBSET Procs
  BY DEF Inv, TypeOK
<1> HIDE DEF w, s
<1>9. QED  BY <1>2, <1>3, <1>4, <1>5, <1>6, <1>7, <1>8, ProcessStep

LEMMA StopKeepsInv ==
  ASSUME Inv, NEW p \in Procs, Stop(p)
  PROVE  Inv'
<1>1. \A q \in Procs : proc[q] \in Process
  BY DEF Inv, TypeOK
<1>2. ASSUME NEW q \in Procs
      PROVE  /\ proc'[q] \in Process
             /\ proc'[q].stalled = proc[q].stalled /\ proc'[q].seen = proc[q].seen
             /\ proc'[q].step \in {"check", "stop"} => proc'[q].step = proc[q].step
  BY <1>1 DEF Stop, Process, FileSteps
<1>3. proc' \in [Procs -> Process]
  BY <1>2 DEF Stop
<1>4. UNCHANGED <<lock, fds>>
  BY DEF Stop
<1>5. TypeOK'
  BY <1>3, <1>4 DEF Inv, TypeOK
<1>6. \A l \in Lock : l.pid \in Procs
  BY DEF Lock
<1>7. StaleIsStalled'
  <2>1. lock' \in Lock /\ ~lock'.fresh => proc'[lock'.pid].stalled
    BY <1>2, <1>4, <1>6 DEF Inv, StaleIsStalled
  <2>2. ASSUME NEW q \in Procs
        PROVE  /\ proc'[q].step \in {"check", "stop"} => proc'[q].seen \in Lock
               /\ proc'[q].seen \in Lock /\ ~proc'[q].seen.fresh =>
                    proc'[proc'[q].seen.pid].stalled
               /\ proc'[q].step = "stop" => proc'[proc'[q].seen.pid].stalled
    BY <1>2, <1>6 DEF Inv, StaleIsStalled
  <2>3. QED  BY <2>1, <2>2 DEF StaleIsStalled
<1>8. QED  BY <1>5, <1>7 DEF Inv

LEMMA FinishStep ==
  ASSUME Inv, NEW p \in Procs, NEW s \in {"remove", "detached", "ended"},
         Finish(s, p), UNCHANGED <<lock, fds>>
  PROVE  Inv'
<1> DEFINE w == [proc[p] EXCEPT !.step = s, !.inside = FALSE]
<1>1. proc[p] \in Process
  BY DEF Inv, TypeOK
<1>2. w \in Process /\ w.stalled = proc[p].stalled /\ w.seen = proc[p].seen /\ w.step = s
  BY <1>1 DEF Process, FileSteps
<1>3. proc' = [proc EXCEPT ![p] = w]
  BY DEF Finish, Inv, TypeOK
<1>4. fds' \in SUBSET Procs
  BY DEF Inv, TypeOK
<1> HIDE DEF w
<1>5. QED  BY <1>2, <1>3, <1>4, FreshStep

LEMMA WriteKeepsInv ==
  ASSUME Inv, NEW p \in Procs, Write(p)
  PROVE  Inv'
<1> DEFINE w == [proc[p] EXCEPT !.step = "locked", !.inside = TRUE]
<1>1. proc[p] \in Process
  BY DEF Inv, TypeOK
<1>2. w \in Process /\ w.stalled = proc[p].stalled /\ w.seen = proc[p].seen /\ w.step = "locked"
  BY <1>1 DEF Process, FileSteps
<1>3. proc' = [proc EXCEPT ![p] = w]
  BY DEF Write, Inv, TypeOK
<1>4. fds' \in SUBSET Procs /\ lock' \in {lock, LockOf(p)}
  BY DEF Write, Inv, TypeOK
<1> HIDE DEF w
<1>5. QED  BY <1>2, <1>3, <1>4, FreshStep

LEMMA StallKeepsInv ==
  ASSUME Inv, NEW p \in Procs, Stall(p)
  PROVE  Inv'
<1> DEFINE w == [proc[p] EXCEPT !.stalled = TRUE]
<1>1. proc[p] \in Process
  BY DEF Inv, TypeOK
<1>2. w \in Process /\ w.stalled = TRUE /\ w.seen = proc[p].seen /\ w.step = "locked"
  BY <1>1 DEF Process, Stall
<1>3. proc' = [proc EXCEPT ![p] = w]
  BY DEF Stall, Inv, TypeOK
<1>4. lock' \in Lock /\ lock'.pid = p /\ fds' \in SUBSET Procs
  BY DEF Stall, LockOf, Lock, Inv, TypeOK
<1>5. w.seen \in Lock /\ ~w.seen.fresh => proc[w.seen.pid].stalled
  BY <1>2 DEF Inv, StaleIsStalled
<1> HIDE DEF w
<1>6. QED  BY <1>2, <1>3, <1>4, <1>5, ProcessStep

LEMMA StartKeepsInv ==
  ASSUME Inv, NEW p \in Procs, NEW scope \in Scopes,
         proc' = [proc EXCEPT ![p].step = "start", ![p].scope = scope],
         UNCHANGED <<lock, fds>>
  PROVE  Inv'
<1> DEFINE w == [proc[p] EXCEPT !.step = "start", !.scope = scope]
<1>1. proc[p] \in Process
  BY DEF Inv, TypeOK
<1>2. w \in Process /\ w.stalled = proc[p].stalled /\ w.seen = proc[p].seen /\ w.step = "start"
  BY <1>1 DEF Process
<1>3. proc' = [proc EXCEPT ![p] = w]
  BY DEF Inv, TypeOK
<1>4. fds' \in SUBSET Procs
  BY DEF Inv, TypeOK
<1> HIDE DEF w
<1>5. QED  BY <1>2, <1>3, <1>4, FreshStep

LEMMA NextKeepsInv ==
  ASSUME Inv, [Next]_vars
  PROVE  Inv'
<1>1. ASSUME UNCHANGED vars PROVE Inv'
  BY <1>1 DEF vars, Inv, TypeOK, StaleIsStalled
<1>2. fds \in SUBSET Procs
  BY DEF Inv, TypeOK
<1>3. ASSUME NEW p \in Procs, Read(p) PROVE Inv'
  BY <1>3, ReadKeepsInv
<1>4. ASSUME NEW p \in Procs, Refuse(p) PROVE Inv'
  BY <1>2, <1>4, GoStep DEF Refuse
<1>5. ASSUME NEW p \in Procs, Override(p) PROVE Inv'
  BY <1>5, OverrideKeepsInv
<1>6. ASSUME NEW p \in Procs, Stop(p) PROVE Inv'
  BY <1>6, StopKeepsInv
<1>7. ASSUME NEW p \in Procs, ClearStale(p) PROVE Inv'
  BY <1>7, GoStep DEF ClearStale, Clear
<1>8. ASSUME NEW p \in Procs, Open(p) PROVE Inv'
  BY <1>2, <1>8, GoStep DEF Open
<1>9. ASSUME NEW p \in Procs, Write(p) PROVE Inv'
  BY <1>9, WriteKeepsInv
<1>10. ASSUME NEW p \in Procs, Remove(p) PROVE Inv'
  BY <1>10, GoStep DEF Remove, Clear, AfterRun
<1>11. ASSUME NEW p \in Procs, Heartbeat(p) PROVE Inv'
  BY <1>2, <1>11, GoStep DEF Heartbeat
<1>12. ASSUME NEW p \in Procs, Stall(p) PROVE Inv'
  BY <1>12, StallKeepsInv
<1>13. ASSUME NEW p \in Procs, Leave(p) PROVE Inv'
  BY <1>13, FinishStep DEF Leave, AfterRun
<1>14. ASSUME NEW p \in Procs, ContinueEnds(p) PROVE Inv'
  BY <1>2, <1>14, GoStep DEF ContinueEnds
<1>15. ASSUME NEW p \in Procs, ContinueScope(p) PROVE Inv'
  BY <1>15, StartKeepsInv DEF ContinueScope, Scopes
<1>16. ASSUME NEW p \in Procs, Crash(p) PROVE Inv'
  BY <1>2, <1>16, GoStep DEF Crash
<1>17. ASSUME NEW p \in Procs, NEW scope \in Scopes, Start(p, scope) PROVE Inv'
  BY <1>17, StartKeepsInv DEF Start
<1>18. QED
  BY <1>1, <1>3, <1>4, <1>5, <1>6, <1>7, <1>8, <1>9, <1>10, <1>11, <1>12, <1>13, <1>14,
     <1>15, <1>16, <1>17 DEF Next, FileCall

(* The lock file, its readers and the processes keep to the invariant,     *)
(* however their file system calls interleave.                             *)
THEOREM Safety == Spec => []Inv
<1>1. Init => Inv
  BY InitInv
<1>2. Inv /\ [Next]_vars => Inv'
  BY NextKeepsInv
<1>3. QED  BY <1>1, <1>2, PTL DEF Spec

(* Only a signal changes two processes at once.                            *)
LEMMA OthersStay ==
  ASSUME Inv, [Next]_vars, \A x \in Procs : ~Stop(x),
         NEW p \in Procs, NEW q \in Procs, p # q,
         proc'[p] # proc[p]
  PROVE  proc'[q] = proc[q]
<1>1. \A x \in Procs : \A s : Go(x, s) => x = p /\ proc'[q] = proc[q]
  BY DEF Go, Inv, TypeOK
<1>2. \A x \in Procs : \A s : Finish(s, x) => x = p /\ proc'[q] = proc[q]
  BY DEF Finish, Inv, TypeOK
<1>3. ~UNCHANGED vars
  BY DEF vars
<1>4. PICK x \in Procs :
        \/ Read(x) \/ Refuse(x) \/ Override(x) \/ ClearStale(x) \/ Open(x) \/ Write(x)
        \/ Remove(x) \/ Heartbeat(x) \/ Stall(x) \/ Leave(x) \/ ContinueEnds(x)
        \/ ContinueScope(x) \/ Crash(x) \/ \E scope \in Scopes : Start(x, scope)
  BY <1>3 DEF Next, FileCall
<1>5. ASSUME Read(x) \/ Write(x) \/ Stall(x) \/ ContinueScope(x)
              \/ \E scope \in Scopes : Start(x, scope)
      PROVE  proc'[q] = proc[q]
  BY <1>5 DEF Read, Write, Stall, ContinueScope, Start, Inv, TypeOK
<1>6. QED
  BY <1>1, <1>2, <1>4, <1>5 DEF Refuse, Override, ClearStale, Open, Remove, Heartbeat, Leave,
     ContinueEnds, Crash

(* acquireRuntimeLock stops another runtime only if that one's heartbeats  *)
(* were late, even when the calls of any number of processes interleave.   *)
THEOREM StoppedRunsHadStalled == Spec => OnlyStalledRunsAreStopped
<1>1. ASSUME Inv, [Next]_vars, NEW p \in Procs, NEW q \in Procs,
             p # q, proc[p].step = "stop", proc'[p].step = "clear",
             Alive(q), proc'[q].step = "dead"
      PROVE  proc[q].stalled
  <2>1. PICK x \in Procs : Stop(x)
    <3>1. proc'[p] # proc[p] /\ proc'[q] # proc[q]
      BY <1>1 DEF Alive
    <3>2. QED  BY <1>1, <3>1, OthersStay
  <2>2. x = p
    <3>1. proc'[p] # proc[p] /\ proc[p].step # "dead"
      BY <1>1
    <3>2. CASE x # p
      BY <1>1, <2>1, <3>1, <3>2 DEF Stop
    <3>3. QED  BY <3>2
  <2>3. q = proc[p].seen.pid
    BY <1>1, <2>1, <2>2 DEF Stop, Alive
  <2>4. QED  BY <1>1, <2>3 DEF Inv, StaleIsStalled
<1>2. Inv /\ [Next]_vars =>
        [\A p, q \in Procs :
           (p # q /\ proc[p].step = "stop" /\ proc'[p].step = "clear"
            /\ Alive(q) /\ proc'[q].step = "dead") => proc[q].stalled]_vars
  BY <1>1
<1>3. QED  BY <1>2, Safety, PTL DEF Spec, OnlyStalledRunsAreStopped


LEMMA NextExcludes ==
  ASSUME Exclusion, Overlap = FALSE, [Next]_vars
  PROVE  Serial' /\ InsideOwns' /\ Successor'
<1>0. \A q \in Procs : proc[q] \in Process
  BY DEF Exclusion, Inv, TypeOK
<1> USE <1>0, LockIsRecord
    DEF Exclusion, Inv, TypeOK, Process, Serial, InsideOwns, Successor, Inside, Alive, FileSteps
<1>1. ASSUME NEW p \in Procs, Read(p) PROVE Serial' /\ InsideOwns' /\ Successor'
  <2>1. Serial'
    BY <1>1 DEF Read, ReadLock, HeldBy, Turn
  <2>2. InsideOwns'
    BY <1>1 DEF Read, ReadLock, HeldBy, Turn
  <2>3. Successor'
    BY <1>1 DEF Read, ReadLock, HeldBy, Turn
  <2>4. QED  BY <2>1, <2>2, <2>3
<1>2. ASSUME NEW p \in Procs, Refuse(p) PROVE Serial' /\ InsideOwns' /\ Successor'
  <2>1. Serial'
    BY <1>2 DEF Refuse, Go
  <2>2. InsideOwns'
    BY <1>2 DEF Refuse, Go
  <2>3. Successor'
    BY <1>2 DEF Refuse, Go
  <2>4. QED  BY <2>1, <2>2, <2>3
<1>3. ASSUME NEW p \in Procs, Override(p) PROVE Serial' /\ InsideOwns' /\ Successor'
  <2>1. Serial'
    BY <1>3 DEF Override, Go
  <2>2. InsideOwns'
    BY <1>3 DEF Override, Go
  <2>3. Successor'
    BY <1>3 DEF Override, Go
  <2>4. QED  BY <2>1, <2>2, <2>3
<1>4. ASSUME NEW p \in Procs, Stop(p) PROVE Serial' /\ InsideOwns' /\ Successor'
  <2>1. Serial'
    BY <1>4 DEF Stop
  <2>2. InsideOwns'
    BY <1>4 DEF Stop
  <2>3. Successor'
    BY <1>4 DEF Stop
  <2>4. QED  BY <2>1, <2>2, <2>3
<1>5. ASSUME NEW p \in Procs, ClearStale(p) PROVE Serial' /\ InsideOwns' /\ Successor'
  <2>1. Serial'
    BY <1>5 DEF ClearStale, Clear, Go
  <2>2. InsideOwns'
    BY <1>5 DEF ClearStale, Clear, Go
  <2>3. Successor'
    BY <1>5 DEF ClearStale, Clear, Go
  <2>4. QED  BY <2>1, <2>2, <2>3
<1>6. ASSUME NEW p \in Procs, Open(p) PROVE Serial' /\ InsideOwns' /\ Successor'
  <2>1. Serial'
    BY <1>6 DEF Open, Go
  <2>2. InsideOwns'
    BY <1>6 DEF Open, Go
  <2>3. Successor'
    BY <1>6 DEF Open, Go
  <2>4. QED  BY <2>1, <2>2, <2>3
<1>7. ASSUME NEW p \in Procs, Write(p) PROVE Serial' /\ InsideOwns' /\ Successor'
  <2>1. Serial'
    BY <1>7 DEF Write, LockOf
  <2>2. InsideOwns'
    BY <1>7 DEF Write, LockOf
  <2>3. Successor'
    BY <1>7 DEF Write, LockOf
  <2>4. QED  BY <2>1, <2>2, <2>3
<1>8. ASSUME NEW p \in Procs, Remove(p) PROVE Serial' /\ InsideOwns' /\ Successor'
  <2>1. Serial'
    BY <1>8 DEF Remove, Clear, Go, AfterRun
  <2>2. InsideOwns'
    BY <1>8 DEF Remove, Clear, Go, AfterRun
  <2>3. Successor'
    BY <1>8 DEF Remove, Clear, Go, AfterRun
  <2>4. QED  BY <2>1, <2>2, <2>3
<1>9. ASSUME NEW p \in Procs, Heartbeat(p) PROVE Serial' /\ InsideOwns' /\ Successor'
  <2>1. Serial'
    BY <1>9 DEF Heartbeat, Go, Turn, HeldBy, ReadLock
  <2>2. InsideOwns'
    BY <1>9 DEF Heartbeat, Go, Turn, HeldBy, ReadLock
  <2>3. Successor'
    BY <1>9 DEF Heartbeat, Go, Turn, HeldBy, ReadLock
  <2>4. QED  BY <2>1, <2>2, <2>3
<1>10. ASSUME NEW p \in Procs, Stall(p) PROVE Serial' /\ InsideOwns' /\ Successor'
  <2>1. Serial'
    BY <1>10 DEF Stall
  <2>2. InsideOwns'
    <3>1. lock' \in Lock /\ lock'.pid = p /\ lock.pid = p /\ fds' = fds
      BY <1>10 DEF Stall, LockOf, Lock
    <3>2. \A q \in Procs : proc'[q].step = proc[q].step /\ proc'[q].inside = proc[q].inside
      BY <1>10 DEF Stall
    <3>3. ASSUME NEW q \in Procs, Inside(q)', proc'[q].step = "locked"
          PROVE  lock' \in Lock /\ lock'.pid = q
      <4>1. Inside(q) /\ proc[q].step = "locked"
        BY <3>2, <3>3
      <4>2. q = p
        BY <4>1, <3>1
      <4>3. QED  BY <4>2, <3>1
    <3>4. QED  BY <3>1, <3>2, <3>3
  <2>3. Successor'
    BY <1>10 DEF Stall
  <2>4. QED  BY <2>1, <2>2, <2>3
<1>11. ASSUME NEW p \in Procs, Leave(p) PROVE Serial' /\ InsideOwns' /\ Successor'
  <2>1. Serial'
    BY <1>11 DEF Leave, Finish, AfterRun, Turn, HeldBy, ReadLock
  <2>2. InsideOwns'
    BY <1>11 DEF Leave, Finish, AfterRun, Turn, HeldBy, ReadLock
  <2>3. Successor'
    BY <1>11 DEF Leave, Finish, AfterRun, Turn, HeldBy, ReadLock
  <2>4. QED  BY <2>1, <2>2, <2>3
<1>12. ASSUME NEW p \in Procs, ContinueEnds(p) PROVE Serial' /\ InsideOwns' /\ Successor'
  <2>1. Serial'
    BY <1>12 DEF ContinueEnds, Go
  <2>2. InsideOwns'
    BY <1>12 DEF ContinueEnds, Go
  <2>3. Successor'
    BY <1>12 DEF ContinueEnds, Go
  <2>4. QED  BY <2>1, <2>2, <2>3
<1>13. ASSUME NEW p \in Procs, ContinueScope(p) PROVE Serial' /\ InsideOwns' /\ Successor'
  <2>1. Serial'
    BY <1>13 DEF ContinueScope
  <2>2. InsideOwns'
    BY <1>13 DEF ContinueScope
  <2>3. Successor'
    BY <1>13 DEF ContinueScope
  <2>4. QED  BY <2>1, <2>2, <2>3
<1>14. ASSUME NEW p \in Procs, Crash(p) PROVE Serial' /\ InsideOwns' /\ Successor'
  <2>1. Serial'
    BY <1>14 DEF Crash, Go
  <2>2. InsideOwns'
    BY <1>14 DEF Crash, Go
  <2>3. Successor'
    BY <1>14 DEF Crash, Go
  <2>4. QED  BY <2>1, <2>2, <2>3
<1>15. ASSUME NEW p \in Procs, NEW scope \in Scopes, Start(p, scope)
      PROVE  Serial' /\ InsideOwns' /\ Successor'
  <2>1. Serial'
    BY <1>15 DEF Start
  <2>2. InsideOwns'
    BY <1>15 DEF Start
  <2>3. Successor'
    BY <1>15 DEF Start
  <2>4. QED  BY <2>1, <2>2, <2>3
<1>16. ASSUME UNCHANGED vars PROVE Serial' /\ InsideOwns' /\ Successor'
  BY <1>16 DEF vars
<1>17. QED
  BY <1>1, <1>2, <1>3, <1>4, <1>5, <1>6, <1>7, <1>8, <1>9, <1>10, <1>11, <1>12, <1>13, <1>14, <1>15, <1>16 DEF Next, FileCall

LEMMA ExclusionExcludes == Exclusion => LockedIsExclusive
<1> SUFFICES ASSUME Exclusion, NEW p \in Procs, NEW q \in Procs, p # q, Inside(p), Inside(q)
             PROVE  FALSE
  BY DEF LockedIsExclusive, Inside
<1>1. proc[p].step = "locked" /\ proc[q].step = "locked"
  BY DEF Exclusion, InsideOwns, Successor
<1>2. QED  BY <1>1 DEF Exclusion, InsideOwns

(* As long as the file system calls of two processes do not overlap, the   *)
(* lock excludes: take-overs, crashes at any call, late heartbeats and     *)
(* acquisitions inside a continued run included.                           *)
THEOREM LockExcludes ==
  ASSUME Overlap = FALSE
  PROVE  Spec => []LockedIsExclusive
<1>1. Init => Exclusion
  BY InitInv DEF Init, Exclusion, Serial, InsideOwns, Successor, Inside, Alive, IdleProcess,
                 FileSteps
<1>2. Exclusion /\ [Next]_vars => Exclusion'
  BY NextExcludes, NextKeepsInv DEF Exclusion
<1>3. QED  BY <1>1, <1>2, ExclusionExcludes, PTL DEF Spec
=============================================================================
