---------------------------- MODULE SharedProject ----------------------------
(***************************************************************************)
(* One project that the runtime shares with the people who work on it:     *)
(* their claim files, the choice of independent items for parallel agents, *)
(* and the way the work trees of a batch come back into the root tree.  A  *)
(* serial batch has one tree and a claim of its own, a parallel one has a  *)
(* tree for every shard and no claim.                                      *)
(*                                                                         *)
(* People edit the root tree and change their claims between any two       *)
(* steps.  One runtime is at work; continuing a batch, recovery, inbox and *)
(* journal are left out, the verdict of the gates is arbitrary, and paths  *)
(* outside the project, which the sync skips, are not listed.              *)
(***************************************************************************)
EXTENDS Integers, Sequences, FiniteSets, FiniteSetsExt

CONSTANTS ItemSeq,       \* the items of docs/progress.md in order
          Affected,      \* the affectedFiles of each
          DomainOf,      \* the domain of its tag
          Audits,        \* the audit items
          SharedFiles,   \* manifests and locks: isSharedFile
          MaxParallel,   \* maxParallelAgents and the count asked for
          MaxBatchSize,
          Files, Dirs,   \* of both trees
          Inside,        \* the files of each directory
          KindOf,        \* what the path policy takes each path for
          Outcomes,      \* what agents change and list in filesChanged
          External,      \* claim files of other operators
          OperatorClaims,\* what they write into them
          NoClaim, NoTree,
          MaxBatches,
          MaxCommands    \* launches and what people do

VARIABLES claims,     \* docs/claims
          root,       \* the root tree
          log,        \* the commits of its branch, with what they hold
          trees,      \* work trees of each batch
          records,    \* results and closeout gates of batches
          checked,    \* items ticked in docs/progress.md
          run,        \* the command at work
          commands

vars == <<claims, root, log, trees, records, checked, run, commands>>

Items == {ItemSeq[k] : k \in DOMAIN ItemSeq}

Batches == 1..MaxBatches

Shards == 1..MaxParallel

(* A file's content is the set of changes in it, over what it was at       *)
(* first; the empty content is that of no file.                            *)
base == "base"
op == "op"

Content == SUBSET ({base, op} \cup Items)

Kinds == {"product", "environment", "runtime", "template", "artifact", "tooling", "generated"}

(* sync of classifyRuntimePath, for paths inside the project.              *)
Disposition(p) ==
  CASE KindOf[p] \in {"environment", "runtime", "generated"} -> "ignore"
    [] KindOf[p] = "template" -> "reject"
    [] KindOf[p] = "artifact" -> "runtime-artifact"
    [] OTHER -> "copy"

(* isSyncExcludedPath *)
Excluded(p) == Disposition(p) \in {"ignore", "reject"}

(* shouldIgnoreUndeclaredActual *)
MayStay(p) == Excluded(p) \/ KindOf[p] \in {"tooling", "artifact"}

(* What .gitignore keeps from git.                                         *)
Ignored == {f \in Files : Disposition(f) = "ignore"}

Paths == Files \cup Dirs

Statuses == {"active", "blocked", "done", "released"}

(* What a claim file says; people spell its status as they like.           *)
Claim == [tasks : SUBSET Items, files : SUBSET Files, status : Statuses \cup {"stalled", "closed", "other"},
          schema : {1, 2}]

Tree == [files : [Files -> Content], base : [Files -> Content]]

(* Nothing is said of how items, agents and operators differ: agents list  *)
(* what they like, and the files of two items or claims may be the same.   *)
ASSUME SharedAssumption ==
  /\ ItemSeq \in Seq(Items) /\ Items \cap {base, op} = {}
  /\ Affected \in [Items -> SUBSET Files]
  /\ MaxParallel \in Nat /\ MaxBatchSize \in Nat
  /\ MaxBatches \in Nat \ {0} /\ MaxCommands \in Nat
  /\ Files \cap Dirs = {} /\ Inside \in [Dirs -> SUBSET Files]
  /\ KindOf \in [Paths -> Kinds]
  /\ Outcomes \subseteq [edited : SUBSET Files, removed : SUBSET Files,
                         declared : SUBSET Paths, local : SUBSET Files]
  /\ External \cap Batches = {}
  /\ OperatorClaims \subseteq Claim
  /\ NoClaim \notin Claim /\ NoTree \notin Tree

(* standing and dirty are history: the claims that nobody changed since    *)
(* the runtime started, and what people had in the root tree when a sync   *)
(* was checked.                                                            *)
IdleRun == [step |-> "idle", mode |-> "serial", batch |-> 1, left |-> {}, held |-> NoClaim,
            loaded |-> {}, broken |-> FALSE, standing |-> {}, shards |-> << >>, at |-> 1,
            declared |-> << >>, local |-> << >>, paths |-> {}, dirty |-> {}]

OnlyRun == UNCHANGED <<claims, root, log, trees, records, checked, commands>>

Steps == {"idle", "load", "held", "claim", "agents", "gates", "ready", "merge",
          "copy", "local", "tick", "commit", "clean"}

TypeOK ==
  /\ claims \in [External \cup Batches -> Claim \cup {NoClaim}]
  /\ root \in [Files -> Content]
  /\ \A k \in DOMAIN log : log[k].files \in [Files -> Content] /\ log[k].batch \in {0} \cup Batches
  /\ trees \in [Batches -> [0..MaxParallel -> Tree \cup {NoTree}]]
  /\ records \in [results : SUBSET Batches, closed : SUBSET Batches]
  /\ checked \subseteq Items
  /\ run.step \in Steps /\ run.batch \in Batches
  /\ run.left \subseteq External \cup Batches /\ run.standing \subseteq External
  /\ Len(run.declared) <= Len(run.shards)
  /\ commands \in 0..MaxCommands

Tracked(files) == [f \in Files |-> IF f \in Ignored THEN {} ELSE files[f]]

Init ==
  /\ claims = [c \in External \cup Batches |-> NoClaim]
  /\ root = [f \in Files |-> IF \E d \in Dirs : f \in Inside[d] THEN {} ELSE {base}]
  /\ log = <<[files |-> Tracked(root), claims |-> claims, checked |-> {}, batch |-> 0]>>
  /\ trees = [n \in Batches |-> [t \in 0..MaxParallel |-> NoTree]]
  /\ records = [results |-> {}, closed |-> {}]
  /\ checked = {}
  /\ run = IdleRun
  /\ commands = 0

-----------------------------------------------------------------------------
Tip == log[Len(log)]
head == Tip.files

(* completedYoloBatches, committedBatchNumbers: subjects of the log.       *)
Committed == {log[k].batch : k \in DOMAIN log} \ {0}

(* git add . and git commit *)
CommitAs(n) == log' = Append(log, [files |-> Tracked(root), claims |-> claims,
                              checked |-> checked, batch |-> n])

(* Claims.                                                                 *)

(* normalizeClaimStatus *)
Normalized(claim) ==
  [claim EXCEPT !.status = CASE @ = "stalled" -> "blocked" [] @ = "closed" -> "done"
                             [] @ \in Statuses -> @ [] OTHER -> "active"]

Active(claim) == claim # NoClaim /\ Normalized(claim).status \in {"active", "blocked"}

(* Mutant: a blocked claim stays blocked.                                  *)
ReconcileActive(c, claim) ==
  IF c \in Committed /\ claim.status = "active" THEN [claim EXCEPT !.status = "done"] ELSE claim

(* reconcileCommittedRuntimeClaim *)
Reconciled(c, claim) ==
  IF c \in Committed /\ Active(claim) THEN [claim EXCEPT !.status = "done"] ELSE claim

Operates == commands < MaxCommands /\ commands' = commands + 1

(* nextBatchNumber *)
NextBatch == Max(records.results \cup {0}) + 1

(* findIncompleteBatch, after repairCommittedCloseoutGate.                 *)
Incomplete == \E n \in records.results : n > Max(records.closed \cup Committed \cup {0})

Launch(mode) ==
  /\ run.step = "idle" /\ Operates /\ NextBatch \in Batches
  /\ mode = "serial" => ~Incomplete /\ checked # Items
  /\ run' = [IdleRun EXCEPT !.step = "load", !.mode = mode, !.batch = NextBatch,
                            !.standing = {c \in External : Active(claims[c])},
                            !.left = {c \in DOMAIN claims : claims[c] # NoClaim}]
  /\ UNCHANGED <<claims, root, log, trees, records, checked>>

(* validateClaimShape, and the file may be gone.                           *)
HasShape(claim) == claim # NoClaim /\ claim.schema = 1

(* loadClaims reads every file it listed ...                               *)
ReadClaim(c) ==
  /\ run.step = "load" /\ c \in run.left
  /\ run' = IF HasShape(claims[c])
            THEN [run EXCEPT !.left = @ \ {c}, !.step = "held",
                             !.held = [name |-> c, claim |-> Reconciled(c, Normalized(claims[c]))]]
            ELSE [run EXCEPT !.left = @ \ {c}, !.broken = TRUE]
  /\ OnlyRun

(* Somebody changed or removed the claim meanwhile.                        *)
IsNews == LET claim == claims[run.held.name] IN claim = NoClaim \/ Normalized(claim) # run.held.claim

(* ... and writes it back, over what may have changed meanwhile.           *)
WriteBack ==
  /\ run.step = "held"
  /\ claims' = [claims EXCEPT ![run.held.name] = run.held.claim]
  /\ run' = [run EXCEPT !.step = "load", !.held = NoClaim, !.loaded = @ \cup {run.held},
                        !.standing = IF IsNews THEN @ \ {run.held.name} ELSE @]
  /\ UNCHANGED <<root, log, trees, records, checked, commands>>

Others == {l.claim : l \in {l \in run.loaded : l.name \in External /\ Active(l.claim)}}

(* validateClaims *)
ClaimsAgree ==
  /\ ~run.broken
  /\ \A l, m \in {l \in run.loaded : Active(l.claim)} :
       l # m => l.claim.tasks # m.claim.tasks /\ l.claim.files \cap m.claim.files = {}

SameTask(i, claim) == i \in claim.tasks

(* Mutant: files that are claimed with another task are not looked at.     *)
FreeTask(i) == \A c \in Others : ~SameTask(i, c)

(* isClaimedByExternalOperator, conflictsWithClaimedFiles *)
Free(i) == \A c \in Others : ~SameTask(i, c) /\ Affected[i] \cap c.files = {}

-----------------------------------------------------------------------------
(* Plans, work trees and agents.                                           *)

IsAudit(i) == i \in Audits

(* What planParallelBatches asks of an item beside its claims, given the   *)
(* shards before it.                                                       *)
Independent(i, shards) ==
  LET before == UNION {shards[k] : k \in DOMAIN shards} IN
  /\ ~IsAudit(i) /\ Affected[i] \cap SharedFiles = {}
  /\ \A j \in before : Affected[i] \cap Affected[j] = {}
  /\ Affected[i] = {} => \A j \in before : DomainOf[i] # DomainOf[j]

Extended(shards, i) ==
  IF i \notin checked /\ Len(shards) < MaxParallel /\ Free(i) /\ Independent(i, shards)
  THEN Append(shards, {i})
  ELSE shards

Planned[k \in 0..Len(ItemSeq)] ==
  IF k = 0 THEN << >> ELSE Extended(Planned[k - 1], ItemSeq[k])

(* selectBatch, auditIsolated: the first open items before an audit, or    *)
(* the audit alone if it is the first.                                     *)
Selected ==
  LET open == {k \in DOMAIN ItemSeq : ItemSeq[k] \notin checked}
      first == {k \in open : \A j \in open : k <= j}
      before == {k \in open : \A j \in open : j <= k => ~IsAudit(ItemSeq[j])}
      batch == {k \in before : Cardinality({j \in before : j < k}) < MaxBatchSize} IN
  {ItemSeq[k] : k \in IF before = {} THEN first ELSE batch}

TreeId(shard) == IF run.mode = "serial" THEN 0 ELSE shard

(* createWorktree leaves a tree that exists as it is.                      *)
CreateTrees(shards) ==
  trees' = [trees EXCEPT ![run.batch] =
              [t \in DOMAIN @ |->
                 IF @[t] = NoTree /\ \E s \in DOMAIN shards : TreeId(s) = t
                 THEN [files |-> head, base |-> head]
                 ELSE @[t]]]

StartAgents(shards) ==
  /\ run' = [run EXCEPT !.step = "agents", !.shards = shards, !.loaded = {}]
  /\ CreateTrees(shards)

LoadEnds == run.step = "load" /\ run.left = {}

Stop == run' = IdleRun

RefuseClaims ==
  /\ LoadEnds
  /\ \/ ~ClaimsAgree
     \/ run.mode = "serial" /\ \E i \in Selected : ~Free(i)
     \/ run.mode = "parallel" /\ Len(Planned[Len(ItemSeq)]) < 2
  /\ Stop
  /\ OnlyRun

Plan ==
  /\ LoadEnds /\ run.mode = "parallel" /\ ClaimsAgree
  /\ Len(Planned[Len(ItemSeq)]) >= 2
  /\ StartAgents(Planned[Len(ItemSeq)])
  /\ UNCHANGED <<claims, root, log, records, checked, commands>>

AcceptClaims ==
  /\ LoadEnds /\ run.mode = "serial" /\ ClaimsAgree /\ \A i \in Selected : Free(i)
  /\ run' = [run EXCEPT !.step = "claim", !.shards = <<Selected>>]
  /\ OnlyRun

(* writeRuntimeClaim *)
Mark(status) ==
  claims' = IF run.mode = "parallel" THEN claims
            ELSE [claims EXCEPT ![run.batch] =
                    [tasks |-> run.shards[1], files |-> UNION {Affected[i] : i \in run.shards[1]},
                     status |-> status, schema |-> 1]]

WriteClaim ==
  /\ run.step = "claim"
  /\ Mark("active")
  /\ StartAgents(run.shards)
  /\ UNCHANGED <<root, log, records, checked, commands>>

(* An agent changes, adds and removes files and lists some of them.  A     *)
(* serial batch copies its result files before its gates.                  *)
AgentReturns ==
  LET s == Len(run.declared) + 1 IN
  /\ run.step = "agents"
  /\ \E o \in Outcomes :
       /\ trees' = [trees EXCEPT ![run.batch][TreeId(s)].files =
                      [f \in Files |-> IF f \in o.removed THEN {}
                                       ELSE IF f \in o.edited THEN @[f] \cup run.shards[s] ELSE @[f]]]
       /\ run' = [run EXCEPT !.declared = Append(@, o.declared), !.local = Append(@, o.local),
                             !.step = IF s = Len(run.shards) THEN "gates" ELSE @]
  /\ records' = IF run.mode = "parallel" THEN records ELSE [records EXCEPT !.results = @ \cup {run.batch}]
  /\ UNCHANGED <<claims, root, log, checked, commands>>

(* The gates, or the readiness of a serial batch, fail.                    *)
Reject ==
  /\ run.step \in {"gates", "ready"}
  /\ Mark("blocked") /\ Stop
  /\ UNCHANGED <<root, log, trees, records, checked, commands>>

-----------------------------------------------------------------------------
(* Merging.                                                                *)

TreeOf(s) == trees[run.batch][TreeId(s)]

UntrackedDirs(commit) == {d \in Dirs : \A f \in Inside[d] : commit[f] = {}}

(* git status --short names an untracked directory, not the files in it.   *)
GitStatus(files, commit) ==
  LET changed == {f \in Files \ Ignored : files[f] # commit[f]}
      untracked == UntrackedDirs(commit) IN
  {f \in changed : \A d \in untracked : f \notin Inside[d]}
    \cup {d \in untracked : Inside[d] \cap changed # {}}

Exists(files, p) == IF p \in Files THEN files[p] # {} ELSE \E f \in Inside[p] : files[f] # {}

(* pathsHaveSameContent does not look into directories.                    *)
SameContent(p, s) ==
  /\ Exists(root, p) /\ Exists(TreeOf(s).files, p)
  /\ p \in Files => root[p] = TreeOf(s).files[p]

TreeStatus(s) == GitStatus(TreeOf(s).files, TreeOf(s).base)

Candidates(s) == IF run.declared[s] = {} THEN TreeStatus(s) ELSE run.declared[s]

(* declaredCoversActualPath: either lies in the other.                     *)
Covers(declared, p) ==
  \E q \in declared : (q \in Dirs /\ p \in Inside[q]) \/ (p \in Dirs /\ q \in Inside[p])

(* Mutant: changes that the result does not list are left in the tree.     *)
DeclaresAnything(s) == TRUE

(* assertDeclaredWorktreeChanges *)
DeclaresChanges(s) ==
  run.declared[s] # {} =>
    \A p \in TreeStatus(s) : MayStay(p) \/ p \in run.declared[s] \/ Covers(run.declared[s], p)

(* Mutant: the root tree is taken for clean.                               *)
AnyRoot(s) == TRUE

(* assertRootDoesNotConflict *)
RootAllows(s) ==
  \A p \in GitStatus(root, head) \cap Candidates(s) :
    Excluded(p) \/ KindOf[p] = "artifact" \/ SameContent(p, s)

(* assertNoRejectedSyncPaths, assertMergeReady *)
MergeReady(s) ==
  /\ \A p \in Candidates(s) : KindOf[p] = "template" => SameContent(p, s)
  /\ DeclaresChanges(s) /\ RootAllows(s)

(* detectResultFileConflicts compares the paths as the agents wrote them.  *)
SamePaths == \E s, t \in DOMAIN run.shards : s # t /\ run.declared[s] \cap run.declared[t] # {}

PassGates ==
  /\ run.step = "gates"
  /\ \/ run.mode = "serial" /\ run' = [run EXCEPT !.step = "ready"]
     \/ run.mode = "parallel" /\ run' = IF SamePaths THEN IdleRun ELSE [run EXCEPT !.step = "merge"]
  /\ OnlyRun

(* runMergeReadinessGate of a serial batch; then the journal is written.   *)
PassReadiness ==
  /\ run.step = "ready" /\ MergeReady(1)
  /\ run' = [run EXCEPT !.step = "merge"]
  /\ OnlyRun

(* The checks of syncWorktreeChangesToRoot; what they throw ends the run.  *)
CheckSync ==
  /\ run.step = "merge"
  /\ run' = IF MergeReady(run.at)
            THEN [run EXCEPT !.step = "copy", !.paths = {p \in Candidates(run.at) : ~Excluded(p)},
                             !.dirty = {f \in Files \ Ignored : op \in root[f] /\ root[f] # head[f]}]
            ELSE IdleRun
  /\ records' = IF run.mode = "serial" THEN records ELSE [records EXCEPT !.results = @ \cup {run.batch}]
  /\ UNCHANGED <<claims, root, log, trees, checked, commands>>

(* rm, or cp with force, which merges directories.                         *)
CopyPath(p) ==
  LET source == TreeOf(run.at).files
      copied == IF p \in Files THEN {p} ELSE Inside[p] IN
  /\ run.step = "copy" /\ p \in run.paths
  /\ root' = [f \in Files |->
                IF f \notin copied \/ (Exists(source, p) /\ source[f] = {}) THEN root[f] ELSE source[f]]
  /\ run' = [run EXCEPT !.paths = @ \ {p}]
  /\ UNCHANGED <<claims, log, trees, records, checked, commands>>

SyncEnds ==
  /\ run.step = "copy" /\ run.paths = {}
  /\ run' = [run EXCEPT !.step = "local", !.dirty = {}]
  /\ OnlyRun

(* syncLocalOnlyFilesToRoot throws at a path it calls unsafe.              *)
CopyLocal ==
  LET local == run.local[run.at]
      unsafe == \E f \in local : KindOf[f] \in {"runtime", "tooling"}
      source == TreeOf(run.at).files IN
  /\ run.step = "local"
  /\ root' = IF unsafe THEN root
             ELSE [f \in Files |-> IF f \in local /\ source[f] # {} THEN source[f] ELSE root[f]]
  /\ run' = IF unsafe THEN IdleRun
            ELSE IF run.at < Len(run.shards) THEN [run EXCEPT !.step = "merge", !.at = @ + 1]
            ELSE [run EXCEPT !.step = "tick"]
  /\ UNCHANGED <<claims, log, trees, records, checked, commands>>

(* tickProgressItems, then the closeout gate and markRuntimeClaim.         *)
Tick ==
  /\ run.step = "tick"
  /\ checked' = checked \cup UNION {run.shards[s] : s \in DOMAIN run.shards}
  /\ records' = [records EXCEPT !.closed = @ \cup {run.batch}]
  /\ Mark("done")
  /\ run' = [run EXCEPT !.step = "commit"]
  /\ UNCHANGED <<root, log, trees, commands>>

(* createCommit adds everything in the root tree.                          *)
Commit ==
  /\ run.step = "commit"
  /\ CommitAs(run.batch)
  /\ Stop
  /\ UNCHANGED <<claims, root, trees, records, checked, commands>>

-----------------------------------------------------------------------------
Crash ==
  /\ run.step # "idle"
  /\ Stop
  /\ OnlyRun

(* removeWorktree knows of the serial tree only.                           *)
WithoutTree(n) == [trees EXCEPT ![n][0] = NoTree]

(* removeMatching *)
WithoutRecords(n) == [results |-> records.results \ {n}, closed |-> records.closed \ {n}]

(* cleanBatch *)
Clean(n) ==
  /\ \/ run.step = "idle" /\ n \in records.results
     \/ run.step = "clean" /\ run.batch = n
  /\ records' = WithoutRecords(n) /\ trees' = WithoutTree(n)
  /\ Stop
  /\ UNCHANGED <<claims, root, log, checked, commands>>

(* git reset --hard moves every path that one of the two commits holds ...  *)
Reset(now, from, to, none) ==
  [f \in DOMAIN now |-> IF from[f] = none /\ to[f] = none THEN now[f] ELSE to[f]]

(* ... git revert those that the commit changed, if nobody did since.      *)
CanRevert(now, from, to) == \A f \in DOMAIN now : (from[f] = to[f]) \/ (now[f] = from[f])

Reverted(now, from, to) == [f \in DOMAIN now |-> IF from[f] = to[f] THEN now[f] ELSE to[f]]

(* undoLast, rollbackLast: resetHead or revertHead, then cleanBatch.       *)
Undo(revert) ==
  LET to == log[Len(log) - 1] IN
  /\ Operates /\ run.step = "idle" /\ Len(log) > 1
  /\ revert => /\ CanRevert(root, head, to.files) /\ CanRevert(claims, Tip.claims, to.claims)
                /\ Tip.checked \in {to.checked, checked}
                /\ <<to.files, to.claims, to.checked>> # <<head, Tip.claims, Tip.checked>>
  /\ root' = IF revert THEN Reverted(root, head, to.files) ELSE Reset(root, head, to.files, {})
  /\ claims' = IF revert THEN Reverted(claims, Tip.claims, to.claims)
               ELSE Reset(claims, Tip.claims, to.claims, NoClaim)
  /\ checked' = IF revert /\ to.checked = Tip.checked THEN checked ELSE to.checked
  /\ log' = IF revert THEN Append(log, [to EXCEPT !.batch = 0]) ELSE SubSeq(log, 1, Len(log) - 1)
  /\ run' = IF Tip.batch = 0 THEN run ELSE [IdleRun EXCEPT !.step = "clean", !.batch = Tip.batch]
  /\ UNCHANGED <<trees, records>>

OperatorEdits(f) ==
  /\ Operates /\ KindOf[f] = "product"
  /\ root' = [root EXCEPT ![f] = @ \cup {op}]
  /\ UNCHANGED <<claims, log, trees, records, checked, run>>

(* Operators commit while no batch is at work.                             *)
OperatorCommits ==
  /\ Operates /\ run.step = "idle" /\ Tracked(root) # head
  /\ CommitAs(0)
  /\ UNCHANGED <<claims, root, trees, records, checked, run>>

ChangesClaim(c) ==
  /\ Operates
  /\ \E claim \in OperatorClaims \cup {NoClaim} : claims' = [claims EXCEPT ![c] = claim]
  /\ run' = [run EXCEPT !.standing = @ \ {c}]
  /\ UNCHANGED <<root, log, trees, records, checked>>

Runtime ==
  \/ \E mode \in {"serial", "parallel"} : Launch(mode)
  \/ \E c \in DOMAIN claims : ReadClaim(c)
  \/ WriteBack \/ RefuseClaims \/ Plan \/ AcceptClaims \/ WriteClaim
  \/ AgentReturns \/ Reject \/ PassGates \/ PassReadiness
  \/ CheckSync \/ SyncEnds \/ CopyLocal \/ Tick \/ Commit
  \/ \E p \in Paths : CopyPath(p)

Operators ==
  \/ \E f \in Files : OperatorEdits(f)
  \/ OperatorCommits
  \/ \E revert \in BOOLEAN : Undo(revert)
  \/ \E c \in External : ChangesClaim(c)

Next == Runtime \/ Operators \/ Crash \/ \E n \in Batches : Clean(n)

Spec == Init /\ [][Next]_vars

-----------------------------------------------------------------------------
(* Properties.                                                             *)

(* Files that the sync of shard s looks at one by one: git tracks, or would *)
(* track, their directories in the last commit and in the one that shard s *)
(* started from, and its result lists none of these directories.           *)
TrackedFor(s) ==
  Files \ UNION {Inside[d] : d \in UntrackedDirs(head) \cup UntrackedDirs(TreeOf(s).base)
                                   \cup (Dirs \cap run.declared[s])}

(* The product's files that every sync of the batch looks at one by one    *)
(* and no agent lists as local, which is copied without a look.  People    *)
(* had not committed anything to them, so that edits of theirs show.       *)
Guarded ==
  {f \in Files : /\ KindOf[f] = "product" /\ op \notin head[f]
                 /\ \A s \in DOMAIN run.shards : f \in TrackedFor(s) \ run.local[s]}

(* A committed batch is whole: what each agent changed in its tree is in   *)
(* the commit and what it removed is not, unless somebody wrote it again,  *)
(* whether its result lists it or not, and whatever the other agents of    *)
(* the batch made of the same files; trees of an older commit are left     *)
(* out.                                                                    *)
MergedBatchIsWhole ==
  [][run.step = "commit" /\ Len(log') > Len(log) =>
       \A s \in DOMAIN run.shards : TreeOf(s).base = head =>
         \A f \in Guarded :
           LET own == TreeOf(s).files[f]
               committed == log'[Len(log')].files[f] IN
           own # head[f] => IF own # {} THEN own \subseteq committed
                            ELSE committed = {} \/ op \in committed]_vars

(* Copying a tree never takes away what people had changed and not yet     *)
(* committed when that tree's sync was checked, unless it is in a          *)
(* directory that the sync looked at as a whole.                           *)
UncommittedWorkSurvives ==
  [][run.step = "copy" =>
       \A f \in run.dirty \cap TrackedFor(run.at) : op \in root'[f]]_vars

(* No item that someone claimed before the runtime started, and still      *)
(* does, is given to an agent, nor one of its files.                       *)
StandingClaimsAreKept ==
  run.step \notin {"idle", "load", "held", "clean"} =>
    \A s \in DOMAIN run.shards, c \in run.standing :
      \A i \in run.shards[s] : i \notin claims[c].tasks /\ Affected[i] \cap claims[c].files = {}

(* The claim of a batch that is in the log, whichever run committed it,    *)
(* stands in no one's way.                                                 *)
CommittedClaimsClose ==
  LoadEnds => \A l \in run.loaded : l.name \in Committed => ~Active(l.claim)
=============================================================================
