------------------------ MODULE BatchLifecycle_proofs ------------------------
(* Proofs about BatchLifecycle, for any numbers of items, batches, kept    *)
(* work trees and faults.                                                  *)
EXTENDS BatchLifecycle, FiniteSetTheorems, TLAPS

-----------------------------------------------------------------------------
(* The highest number of a set.                                            *)

LEMMA NumbersAreBounded ==
  Numbers \subseteq Nat /\ \A n \in Numbers : 1 <= n /\ n <= MaxBatch /\ MaxBatch \in Nat
BY LifecycleAssumption DEF Numbers

(* Stands in for induction, which the provers cannot instantiate: a set of *)
(* numbers that is not empty has a least one.                              *)
LEMMA LeastNat ==
  ASSUME NEW S \in SUBSET Nat, S # {}
  PROVE  \E m \in S : \A k \in S : m <= k
<1> DEFINE Below(n) == 0..n
           Sets == {Below(n) : n \in S}
<1>1. Sets \subseteq FiniteSubsetsOf(Nat) /\ Sets # {}
  <2>1. \A n \in S : Below(n) \in FiniteSubsetsOf(Nat)
    BY FS_Interval DEF FiniteSubsetsOf
  <2>2. PICK n \in S : TRUE
    OBVIOUS
  <2> HIDE DEF Below
  <2>3. QED  BY <2>1, <2>2
<1>2. PICK B \in Sets : \A C \in Sets : ~(<<C, B>> \in StrictSubsetOrdering(Nat))
  <2> HIDE DEF Sets
  <2>1. QED  BY <1>1, FS_StrictSubsetOrderingWellFounded, WFMin
<1>3. PICK m \in S : B = 0..m
  BY <1>2
<1>4. ASSUME NEW k \in S, k < m  PROVE FALSE
  <2>1. 0..k \subseteq 0..m /\ m \in 0..m /\ m \notin 0..k
    BY <1>4
  <2>2. <<0..k, B>> \in StrictSubsetOrdering(Nat)
    BY <1>3, <2>1 DEF StrictSubsetOrdering
  <2>3. QED  BY <1>2, <2>2
<1>5. QED  BY <1>4

LEMMA GreatestNumber ==
  ASSUME NEW S \in SUBSET Numbers, S # {}
  PROVE  \E m \in S : \A k \in S : m >= k
<1> DEFINE Bounds == {b \in Nat : \A k \in S : k <= b}
<1>1. MaxBatch \in Bounds /\ S \subseteq Nat
  BY NumbersAreBounded
<1>2. PICK b \in Bounds : \A c \in Bounds : b <= c
  <2> HIDE DEF Bounds
  <2>1. Bounds \in SUBSET Nat
    BY DEF Bounds
  <2>2. QED  BY <1>1, <2>1, LeastNat
<1>3. CASE b \in S
  BY <1>1, <1>2, <1>3
<1>4. CASE b \notin S
  <2>1. PICK k \in S : TRUE
    OBVIOUS
  <2>2. b - 1 \in Nat /\ \A j \in S : j <= b - 1
    BY <1>1, <1>2, <1>4, <2>1, NumbersAreBounded
  <2>3. QED  BY <1>2, <2>2
<1>5. QED  BY <1>3, <1>4

(* Highest is 0 or the greatest member of the set.                         *)
LEMMA HighestIs ==
  ASSUME NEW S \in SUBSET Numbers
  PROVE  /\ Highest(S) \in 0..MaxBatch
         /\ \A k \in S : k <= Highest(S)
         /\ Highest(S) # 0 => Highest(S) \in S
         /\ Highest(S) = 0 <=> S = {}
<1>1. CASE S = {}
  BY <1>1, LifecycleAssumption DEF Highest
<1>2. CASE S # {}
  <2> DEFINE IsMax(m) == \A k \in S : m >= k
  <2>1. \E m \in S : IsMax(m)
    BY <1>2, GreatestNumber
  <2>2. Highest(S) = CHOOSE m \in S : IsMax(m)
    BY <1>2 DEF Highest, Max
  <2>3. Highest(S) \in S /\ IsMax(Highest(S))
    BY <2>1, <2>2
  <2>4. Highest(S) \in Nat /\ 1 <= Highest(S) /\ Highest(S) <= MaxBatch /\ S \subseteq Nat
    BY <2>3, NumbersAreBounded
  <2>5. \A k \in S : k <= Highest(S)
    BY <2>3, <2>4
  <2>6. QED  BY <1>2, <2>3, <2>4, <2>5
<1>3. QED  BY <1>1, <1>2

LEMMA HighestOfInterval ==
  ASSUME NEW k \in 0..MaxBatch
  PROVE  Highest(1..k) = k
<1>1. 1..k \in SUBSET Numbers
  BY LifecycleAssumption DEF Numbers
<1>2. Highest(1..k) \in 0..MaxBatch
  BY <1>1, HighestIs
<1>3. \A j \in 1..k : j <= Highest(1..k)
  BY <1>1, HighestIs
<1>4. Highest(1..k) # 0 => Highest(1..k) \in 1..k
  BY <1>1, HighestIs
<1>5. QED  BY <1>2, <1>3, <1>4

(* The lowest number of one.                                               *)
LEMMA MinOfOne ==
  ASSUME NEW x \in Nat  PROVE Min({x}) = x
BY DEF Min

-----------------------------------------------------------------------------
(* Types.                                                                  *)

GateFiles == [e2e : SUBSET Numbers, journal : SUBSET Numbers,
              closeout : SUBSET Numbers, support : SUBSET {"phase", "final"}]

LEMMA RepairedType ==
  ASSUME TypeOK, NEW S \in SUBSET Int
  PROVE  Repaired(S) \in GateFiles
<1>1. {n \in S : Repairable(n)} \subseteq Numbers
  BY DEF TypeOK, Repairable
<1>2. QED  BY <1>1 DEF TypeOK, Repaired, GateFiles

LEMMA OpenType ==
  ASSUME TypeOK
  PROVE  /\ results \in SUBSET Numbers /\ Above(results, Highest(gates.closeout)) \in SUBSET Int
         /\ Incomplete \in SUBSET Numbers
<1>1. \A m : Above(results, m) \in SUBSET results
  BY DEF Above
<1>2. results \in SUBSET Numbers
  BY DEF TypeOK
<1>3. Incomplete \in SUBSET results
  BY <1>1 DEF Incomplete
<1>4. SUBSET results \subseteq SUBSET Int
  BY <1>2, NumbersAreBounded
<1>5. QED  BY <1>1, <1>2, <1>3, <1>4

LEMMA NextType ==
  ASSUME TypeOK
  PROVE  NextBatchNumber \in Nat /\ {NextBatchNumber - 1} \in SUBSET Int
<1>1. Highest(results) \in 0..MaxBatch
  BY HighestIs DEF TypeOK
<1>2. QED  BY <1>1 DEF NextBatchNumber

LEMMA PlannedType ==
  ASSUME TypeOK, NEW scope
  PROVE  /\ PlannedItems(scope) \in SUBSET Items
         /\ PlannedSupport(scope) \in Support
         /\ ContinuedItems \in SUBSET Items
         /\ ContinuedSupport \in Support
BY DEF TypeOK, PlannedItems, PlannedSupport, ContinuedItems, ContinuedSupport, NextSupport,
       FirstUnchecked, Unchecked, Support, RuntimeState

LEMMA FreshType ==
  ASSUME NEW n \in Numbers, NEW scope \in Scopes \cup {"unknown"}, NEW support \in Support
  PROVE  FreshState(n, scope, support) \in RuntimeState
BY NumbersAreBounded DEF FreshState, RuntimeState, Numbers

LEMMA ContinuedType ==
  ASSUME TypeOK
  PROVE  ContinuedBatch \in 0..MaxBatch /\ {ContinuedBatch - 1} \in SUBSET Int
<1>1. LatestResumable \in 0..MaxBatch
  BY HighestIs DEF LatestResumable
<1>2. state.n \in 0..MaxBatch
  BY DEF TypeOK, RuntimeState
<1>3. ContinuedBatch \in 0..MaxBatch
  BY <1>1, <1>2 DEF ContinuedBatch
<1>4. QED  BY <1>3, LifecycleAssumption

LEMMA NoTreeType == NoTree \in Tree
BY DEF NoTree, Tree, Support

LEMMA IdleType == IdleRun \in Run
BY LifecycleAssumption DEF IdleRun, Run, Steps, Support, Scopes

LEMMA NoStateType == NoState \in RuntimeState
BY LifecycleAssumption DEF NoState, RuntimeState, Scopes, Support

LEMMA InitType == Init => TypeOK
<1> SUFFICES ASSUME Init  PROVE TypeOK
  OBVIOUS
<1>1. commits \in Seq([n : Numbers, recorded : BOOLEAN])
  BY DEF Init
<1>2. trees \in [Numbers -> Tree]
  BY NoTreeType DEF Init
<1>3. gates \in GateFiles /\ faults \in 0..MaxFaults
  BY LifecycleAssumption DEF Init, GateFiles
<1>4. QED  BY <1>1, <1>2, <1>3, IdleType, NoStateType DEF Init, TypeOK, GateFiles

(* While a batch is worked on it has a number, and support work a kind.    *)
Numbered ==
  /\ run.step \notin {"idle", "start", "select"} => run.n \in Numbers
  /\ run.step = "support" => run.support # "none"

TypeInv == TypeOK /\ Numbered

LEMMA TypeNext == TypeInv /\ [Next]_vars => TypeInv'
<1> SUFFICES ASSUME TypeInv, [Next]_vars  PROVE TypeInv'
  OBVIOUS
<1> USE DEF TypeInv
<1>a. /\ results \in SUBSET Numbers
      /\ gates \in GateFiles
      /\ ticked \in SUBSET Items
      /\ due \in BOOLEAN
      /\ commits \in Seq([n : Numbers, recorded : BOOLEAN])
      /\ trees \in [Numbers -> Tree]
      /\ state \in RuntimeState
      /\ run \in Run
      /\ faults \in 0..MaxFaults
  BY DEF TypeOK, GateFiles
<1>b. /\ ContinuedBatch \in 0..MaxBatch
      /\ \A S \in SUBSET Int : Repaired(S) \in GateFiles
      /\ ContinuationGates(ContinuedBatch) \in GateFiles
  BY <1>a, ContinuedType, RepairedType DEF ContinuationGates
<1>c. \A scope : PlannedItems(scope) \in SUBSET Items /\ PlannedSupport(scope) \in Support
  BY PlannedType
<1>d. ContinuedItems \in SUBSET Items /\ ContinuedSupport \in Support
  BY PlannedType
<1>e. ASSUME NEW step \in Steps, Goto(step)
      PROVE  run' \in Run /\ run'.n = run.n /\ run'.step = step
  BY <1>a, <1>e DEF Goto, Run
<1>f. ASSUME Fail  PROVE state' \in RuntimeState /\ run' \in Run /\ run'.step = "idle"
  BY <1>a, <1>f, IdleType DEF Fail, RuntimeState, IdleRun
<1>g. ASSUME SetPhase  PROVE state' \in RuntimeState
  BY <1>a, <1>g DEF SetPhase, RuntimeState
<1>h. ASSUME NEW scope \in Scopes, Launch(scope)  PROVE TypeInv'
  <2>1. run' \in Run /\ run'.step = "start"
    BY <1>h, IdleType DEF Launch, Run, Steps, IdleRun
  <2>2. QED  BY <1>a, <1>h, <2>1 DEF Launch, disk, TypeOK, GateFiles, Numbered
<1>i. CASE RefuseToStart
  <2>1. Min(Incomplete) \in Numbers
    <3>1. Incomplete \in SUBSET Numbers /\ Incomplete # {}
      BY <1>i, OpenType DEF RefuseToStart
    <3>2. \E m \in Incomplete : \A k \in Incomplete : m <= k
      BY <3>1, NumbersAreBounded, LeastNat
    <3>3. Min(Incomplete) \in Incomplete
      BY <3>2 DEF Min
    <3>4. QED  BY <3>1, <3>3
  <2>2. FreshState(Min(Incomplete), run.scope, "none") \in RuntimeState
    BY <1>a, <2>1, FreshType DEF Run, Support
  <2>3. state' \in RuntimeState /\ gates' \in GateFiles
    BY <1>b, <1>i, <2>2, OpenType DEF RefuseToStart, RuntimeState
  <2>4. run' \in Run /\ run'.step = "idle"
    BY <1>i, IdleType DEF RefuseToStart, IdleRun
  <2>5. QED  BY <1>a, <1>i, <2>3, <2>4 DEF RefuseToStart, TypeOK, GateFiles, Numbered
<1>j. CASE Start
  <2>1. gates' \in GateFiles
    BY <1>b, <1>j, OpenType DEF Start
  <2>2. QED  BY <1>a, <1>e, <1>j, <2>1 DEF Start, TypeOK, GateFiles, Numbered, Steps
<1>k. CASE EndOfScope
  BY <1>a, <1>k, IdleType DEF EndOfScope, IdleRun, disk, TypeOK, GateFiles, Numbered
<1>l. CASE Select
  <2> DEFINE n == NextBatchNumber
  <2>1. n \in Numbers /\ gates' \in GateFiles
    BY <1>b, <1>l, NextType DEF Select
  <2>2. FreshState(n, run.scope, PlannedSupport(run.scope)) \in RuntimeState
    BY <1>a, <1>c, <2>1, FreshType DEF Run
  <2>3. state' \in RuntimeState
    BY <1>l, <2>2 DEF Select, RuntimeState
  <2>4. CASE PreviousGates(n)
    <3>0. run' = [run EXCEPT !.step = "worktree", !.n = n, !.items = PlannedItems(run.scope),
                             !.support = PlannedSupport(run.scope)]
      BY <1>l, <2>4 DEF Select
    <3>a. n \in 0..MaxBatch /\ "worktree" \in Steps
      BY <2>1 DEF Numbers, Steps
    <3> HIDE DEF n
    <3>1. run' \in Run /\ run'.n \in Numbers /\ run'.step = "worktree"
      BY <1>a, <1>c, <2>1, <3>0, <3>a DEF Run
    <3>2. QED  BY <1>a, <1>l, <2>1, <2>3, <3>1 DEF Select, TypeOK, GateFiles, Numbered
  <2>5. CASE ~PreviousGates(n)
    <3>0. run' = IdleRun
      BY <1>l, <2>5 DEF Select
    <3>1. run' \in Run /\ run'.step = "idle"
      BY <3>0, IdleType DEF IdleRun
    <3>2. QED  BY <1>a, <1>l, <2>1, <2>3, <3>1 DEF Select, TypeOK, GateFiles, Numbered
  <2>6. QED  BY <2>4, <2>5
<1>m. ASSUME NEW scope \in Scopes, DryRun(scope)  PROVE TypeInv'
  <2> DEFINE n == NextBatchNumber
             open == Above(results, Highest(gates.closeout))
  <2>1. open \in SUBSET Int /\ open \cup {n - 1} \in SUBSET Int
    BY OpenType, NextType
  <2>2. gates' \in GateFiles
    BY <1>b, <1>m, <2>1 DEF DryRun
  <2>3. state' \in RuntimeState
    <3>1. CASE state' = state
      BY <1>a, <3>1
    <3>2. CASE n \in Numbers
      <4>1. FreshState(n, scope, PlannedSupport(scope)) \in RuntimeState
        BY <1>c, <3>2, FreshType
      <4>2. QED  BY <1>a, <1>m, <4>1 DEF DryRun, RuntimeState
    <3>3. QED  BY <1>m, <3>1, <3>2 DEF DryRun
  <2>4. QED  BY <1>a, <1>m, <2>2, <2>3 DEF DryRun, TypeOK, GateFiles, Numbered
<1>n. CASE CreateWorktree
  <2>1. run.n \in Numbers
    BY <1>n DEF CreateWorktree, Numbered
  <2>2. trees' \in [Numbers -> Tree]
    BY <1>a, <1>n, <2>1 DEF CreateWorktree, Tree
  <2>3. state' \in RuntimeState
    BY <1>a, <1>n DEF CreateWorktree, RuntimeState
  <2>4. QED  BY <1>a, <1>e, <1>n, <2>1, <2>2, <2>3
            DEF CreateWorktree, TypeOK, GateFiles, Numbered, Steps
<1>o. CASE RunAgent
  <2>1. run.n \in Numbers /\ run.items \in SUBSET Items /\ run.support \in Support
    BY <1>a, <1>o DEF RunAgent, Numbered, Run
  <2>2. trees' \in [Numbers -> Tree]
    <3>1. PICK file \in {"none", "failure", "success"}, covers \in SUBSET run.items :
            trees' = [trees EXCEPT
              ![run.n].result = IF ~Bugfixed THEN file
                                ELSE IF file = "none" THEN "bugfix" ELSE "success",
              ![run.n].covers = Bugfixes \cup covers,
              ![run.n].support = IF file = "success" THEN run.support
                                 ELSE IF Bugfixed THEN @ ELSE "none"]
      BY <1>o DEF RunAgent
    <3>2. Bugfixes \cup covers \in SUBSET Items /\ MyTree \in Tree
      BY <1>a, <2>1 DEF Bugfixes, MyTree, Tree
    <3>3. QED  BY <1>a, <2>1, <3>1, <3>2, SMTT(30) DEF Tree, Support
  <2>3. QED  BY <1>a, <1>e, <1>o, <2>1, <2>2 DEF RunAgent, TypeOK, GateFiles, Numbered, Steps
<1>p. CASE CopyResult
  <2>1. run.n \in Numbers /\ results' \in SUBSET Numbers
    BY <1>a, <1>p DEF CopyResult, Numbered, CopiedResults
  <2>2. QED  BY <1>a, <1>e, <1>g, <1>p, <2>1 DEF CopyResult, TypeOK, GateFiles, Numbered, Steps
<1>q. CASE Validate
  <2>1. run.n \in Numbers /\ run.items \in SUBSET Items /\ run.support \in Support
    BY <1>a, <1>q DEF Validate, Numbered, Run
  <2>2. gates' \in GateFiles
    BY <1>a, <1>q, <2>1 DEF Validate, GateFiles
  <2>3. RunBugfix => trees' \in [Numbers -> Tree]
    <3> HAVE RunBugfix
    <3>1. PICK fixes \in SUBSET run.items, support \in {run.support, MyTree.support} :
            trees' = [trees EXCEPT ![run.n].result = IF HasFile(run.n) THEN "success" ELSE "bugfix",
                        ![run.n].covers = @ \cup fixes, ![run.n].support = support]
      BY DEF RunBugfix
    <3>2. MyTree \in Tree
      BY <1>a, <2>1 DEF MyTree
    <3> DEFINE result == IF HasFile(run.n) THEN "success" ELSE "bugfix"
    <3>3. support \in Support /\ MyTree.covers \cup fixes \in SUBSET Items
          /\ result \in {"success", "bugfix"}
      BY <2>1, <3>2 DEF Tree
    <3>4. trees' = [trees EXCEPT ![run.n].result = result,
                      ![run.n].covers = MyTree.covers \cup fixes, ![run.n].support = support]
      BY <3>1 DEF MyTree
    <3> HIDE DEF result
    <3>5. QED  BY <1>a, <2>1, <3>2, <3>3, <3>4 DEF Tree, MyTree
  <2>4. trees' \in [Numbers -> Tree] /\ results' = results /\ ticked' = ticked /\ due' = due
        /\ commits' = commits /\ faults' = faults
    BY <1>a, <1>q, <2>3 DEF Validate
  <2>5. CASE Fail
    BY <1>a, <1>f, <2>2, <2>4, <2>5 DEF TypeOK, GateFiles, Numbered
  <2>6. CASE Goto("merge") /\ state' = state
    BY <1>a, <1>e, <2>1, <2>2, <2>4, <2>6 DEF TypeOK, GateFiles, Numbered, Steps
  <2>7. QED  BY <1>q, <2>5, <2>6 DEF Validate
<1>r. CASE CheckMerge
  <2>1. run.n \in Numbers
    BY <1>r DEF CheckMerge, Numbered
  <2>2. CASE Fail
    BY <1>a, <1>f, <1>r, <2>2 DEF CheckMerge, disk, TypeOK, GateFiles, Numbered
  <2>3. CASE Goto("journal") /\ SetPhase
    BY <1>a, <1>e, <1>g, <1>r, <2>1, <2>3 DEF CheckMerge, disk, TypeOK, GateFiles, Numbered, Steps
  <2>4. QED  BY <1>r, <2>2, <2>3 DEF CheckMerge
<1>s. CASE WriteJournal
  <2>1. run.n \in Numbers
    BY <1>s DEF WriteJournal, Numbered
  <2>2. trees' \in [Numbers -> Tree]
    BY <1>a, <1>s, <2>1 DEF WriteJournal, Tree
  <2>3. CASE Fail
    BY <1>a, <1>f, <1>s, <2>2, <2>3 DEF WriteJournal, TypeOK, GateFiles, Numbered
  <2>4. CASE Goto("sync") /\ SetPhase
    BY <1>a, <1>e, <1>g, <1>s, <2>1, <2>2, <2>4 DEF WriteJournal, TypeOK, GateFiles, Numbered, Steps
  <2>5. QED  BY <1>s, <2>3, <2>4 DEF WriteJournal
<1>t. CASE Sync
  <2>1. run.n \in Numbers
    BY <1>t DEF Sync, Numbered
  <2>2. results' \in SUBSET Numbers /\ gates' \in GateFiles
    BY <1>a, <1>t, <2>1 DEF Sync, GateFiles
  <2>3. QED  BY <1>a, <1>e, <1>g, <1>t, <2>1, <2>2 DEF Sync, TypeOK, GateFiles, Numbered, Steps
<1>u. CASE Tick
  <2>1. run.n \in Numbers /\ ticked' \in SUBSET Items
    BY <1>a, <1>u DEF Tick, Numbered, Run
  <2>2. QED  BY <1>a, <1>e, <1>u, <2>1 DEF Tick, TypeOK, GateFiles, Numbered, Steps
<1>v. CASE MarkSupportDue
  <2>1. run.n \in Numbers /\ due' \in BOOLEAN
    BY <1>a, <1>v DEF MarkSupportDue, Numbered
  <2>2. QED  BY <1>a, <1>e, <1>v, <2>1 DEF MarkSupportDue, TypeOK, GateFiles, Numbered, Steps
<1>w. CASE Closeout
  <2>1. run.n \in Numbers
    BY <1>w DEF Closeout, Numbered
  <2>2. gates' \in GateFiles
    BY <1>a, <1>w, <2>1 DEF Closeout, GateFiles
  <2>3. Goto("commit") \/ (Goto("support") /\ run.support # "none")
    BY <1>w DEF Closeout
  <2>4. /\ run' \in Run /\ run'.n = run.n
        /\ run'.step = "support" => run'.support # "none"
    BY <1>a, <1>e, <2>3 DEF Steps, Goto, Run
  <2>5. QED  BY <1>a, <1>w, <2>1, <2>2, <2>4 DEF Closeout, TypeOK, GateFiles, Numbered
<1>x. CASE WriteSupportGate
  <2>1. run.n \in Numbers /\ run.support \in Support
    BY <1>a, <1>x DEF WriteSupportGate, Numbered, Run
  <2>2. run.support # "none"
    BY <1>x DEF WriteSupportGate, Numbered
  <2>3. gates' \in GateFiles
    BY <1>a, <1>x, <2>1, <2>2 DEF WriteSupportGate, GateFiles, Support
  <2>4. QED  BY <1>a, <1>e, <1>x, <2>1, <2>3
            DEF WriteSupportGate, TypeOK, GateFiles, Numbered, Steps
<1>y. CASE Commit
  <2>1. run.n \in Numbers
    BY <1>y DEF Commit, Numbered
  <2>2. [n |-> run.n, recorded |-> run.n \in results] \in [n : Numbers, recorded : BOOLEAN]
    BY <2>1
  <2>3. commits' \in Seq([n : Numbers, recorded : BOOLEAN])
    BY <1>a, <1>y, <2>2 DEF Commit
  <2>4. QED  BY <1>a, <1>e, <1>g, <1>y, <2>1, <2>3 DEF Commit, TypeOK, GateFiles, Numbered, Steps
<1>z. CASE Finish
  <2>1. trees' \in [Numbers -> Tree]
    BY <1>a, <1>z, NoTreeType DEF Finish
  <2>2. state' \in RuntimeState
    BY <1>a, <1>z DEF Finish, RuntimeState
  <2>3. run' \in Run /\ run'.step \in {"idle", "start", "select"}
    BY <1>z, IdleType DEF Finish, IdleRun, Run, Steps, Scopes
  <2>4. QED  BY <1>a, <1>z, <2>1, <2>2, <2>3 DEF Finish, TypeOK, GateFiles, Numbered
<1>A. CASE RefuseToContinue
  BY <1>a, <1>b, <1>f, <1>A DEF RefuseToContinue, TypeOK, GateFiles, Numbered
<1>B. CASE ContinueCommitted
  <2>1. state' \in RuntimeState
    BY <1>a, <1>B DEF ContinueCommitted, RuntimeState
  <2>2. run' \in Run /\ run'.step \in {"idle", "start"}
    BY <1>B, IdleType DEF ContinueCommitted, IdleRun, Run, Steps, Scopes
  <2>3. QED  BY <1>a, <1>b, <1>B, <2>1, <2>2 DEF ContinueCommitted, TypeOK, GateFiles, Numbered
<1>c2. /\ ContinuedScopes \in SUBSET (Scopes \cup {"unknown"})
       /\ \A n \in Numbers : Reported(n) \in SUBSET Items
  BY <1>a DEF ContinuedScopes, RuntimeState, Scopes, Reported, Tree
<1>c3. ASSUME MayContinue(ContinuedBatch)  PROVE ContinuedBatch \in Numbers
  BY <1>b, <1>c3, LifecycleAssumption DEF MayContinue, Numbers
<1>C. CASE RestartAgent
  <2>1. PICK scope \in ContinuedScopes :
          /\ state' = [state EXCEPT !.n = ContinuedBatch, !.tree = TRUE, !.scope = scope]
          /\ run' = [step |-> "implement", scope |-> scope, continued |-> TRUE,
                     n |-> ContinuedBatch, items |-> ContinuedItems,
                     support |-> ContinuedSupport, origin |-> "plan"]
    BY <1>C DEF RestartAgent
  <2>2. ContinuedBatch \in Numbers
    BY <1>c3, <1>C DEF RestartAgent
  <2>3. state' \in RuntimeState
    BY <1>a, <1>b, <1>c2, <2>1 DEF RuntimeState
  <2>4. run' \in Run /\ run'.n \in Numbers /\ run'.step = "implement"
    BY <1>b, <1>c2, <1>d, <2>1, <2>2 DEF Run, Steps
  <2>5. QED  BY <1>a, <1>b, <1>C, <2>3, <2>4 DEF RestartAgent, TypeOK, GateFiles, Numbered
<1>D. CASE RejectContinued
  BY <1>a, <1>b, <1>f, <1>D DEF RejectContinued, TypeOK, GateFiles, Numbered
<1>E. CASE Resume
  <2> DEFINE n == ContinuedBatch
  <2>1. PICK scope \in ContinuedScopes :
          /\ state' = [state EXCEPT !.running = TRUE, !.n = n, !.tree = TRUE, !.scope = scope]
          /\ run' = [step |-> "validate", scope |-> scope, continued |-> TRUE, n |-> n,
                     items |-> IF MatchesResult(n) THEN ContinuedItems ELSE Reported(n),
                     support |-> ContinuedSupport,
                     origin |-> IF MatchesResult(n) THEN "match" ELSE "result"]
    BY <1>E DEF Resume
  <2>2. n \in Numbers
    BY <1>c3, <1>E DEF Resume
  <2>3. state' \in RuntimeState
    BY <1>a, <1>b, <1>c2, <2>1 DEF RuntimeState
  <2>4. run' \in Run /\ run'.n \in Numbers /\ run'.step = "validate"
    BY <1>b, <1>c2, <1>d, <2>1, <2>2 DEF Run, Steps
  <2>5. results' \in SUBSET Numbers
    BY <1>a, <1>E, <2>2 DEF Resume, CopiedResults
  <2>6. QED  BY <1>a, <1>b, <1>E, <2>3, <2>4, <2>5 DEF Resume, TypeOK, GateFiles, Numbered
<1>F. CASE Clean
  <2>1. trees' \in [Numbers -> Tree]
    BY <1>a, <1>F, NoTreeType DEF Clean
  <2>2. results' \in SUBSET Numbers /\ gates' \in GateFiles
    BY <1>a, <1>F DEF Clean, GateFiles
  <2>3. QED  BY <1>a, <1>F, <2>1, <2>2, NoStateType DEF Clean, TypeOK, GateFiles, Numbered
<1>G. CASE Break
  <2>1. faults' \in 0..MaxFaults
    BY <1>a, <1>G, LifecycleAssumption DEF Break
  <2>a. state' \in RuntimeState
    BY <1>a, <1>G DEF Break, RuntimeState
  <2>2. run' \in Run /\ run'.step = "idle"
    BY <1>G, IdleType DEF Break, IdleRun
  <2>3. QED  BY <1>a, <1>G, <2>1, <2>a, <2>2 DEF Break, disk, TypeOK, GateFiles, Numbered
<1>H. CASE UNCHANGED vars
  BY <1>H DEF vars, TypeOK, Numbered
<1>I. QED
  BY <1>h, <1>i, <1>j, <1>k, <1>l, <1>m, <1>n, <1>o, <1>p, <1>q, <1>r, <1>s, <1>t, <1>u, <1>v,
     <1>w, <1>x, <1>y, <1>z, <1>A, <1>B, <1>C, <1>D, <1>E, <1>F, <1>G, <1>H
     DEF Next, Work, Operator, Continue

LEMMA TypeAlways == Spec => []TypeInv
<1>1. Init => TypeInv
  BY InitType DEF Init, IdleRun, TypeInv, Numbered
<1>2. QED  BY <1>1, TypeNext, PTL DEF Spec

(* Types are kept, whatever crashes, is continued, cleaned or planned.     *)
THEOREM TypeCorrect == Spec => []TypeOK
BY TypeAlways, PTL DEF TypeInv

-----------------------------------------------------------------------------
(* The gates.  Batches close in the order of their numbers, so the repair  *)
(* of a closeout gate, which needs a commit without one, changes nothing.  *)

Last == Highest(gates.closeout)

Quiet == run.step \in {"idle", "start", "select"}

Closing == {"support", "commit", "finish"}

HasPrevious(n) == \A m \in 1..(n - 1) : m \in gates.e2e \cap gates.journal

GateInv ==
  /\ gates.closeout = 1..Last
  /\ HasPrevious(Last)
  /\ Committed \subseteq gates.closeout
  /\ ~Quiet => run.n \in 1..(Last + 1) /\ HasPrevious(run.n)
  /\ run.step \in Closing => run.n \in gates.closeout
  /\ run.step = "finish" => run.n \in Committed

LEMMA LastType ==
  ASSUME TypeOK
  PROVE  Last \in 0..MaxBatch /\ Last \in Nat /\ MaxBatch \in Nat
         /\ 1..Last \in SUBSET Numbers
<1>1. Last \in 0..MaxBatch
  BY HighestIs DEF TypeOK, Last
<1>2. QED  BY <1>1, LifecycleAssumption DEF Numbers

(* Closeout gates are never missing where the repair looks for them.       *)
LEMMA RepairsNothing ==
  ASSUME TypeOK, GateInv, NEW S
  PROVE  Repaired(S) = gates
<1>1. gates.closeout \cup {n \in S : Repairable(n)} = gates.closeout
  BY DEF GateInv, Repairable
<1>2. gates \in GateFiles
  BY DEF TypeOK, GateFiles
<1>3. [gates EXCEPT !.closeout = gates.closeout] = gates
  BY <1>2 DEF GateFiles
<1>4. QED  BY <1>1, <1>3 DEF Repaired

LEMMA PreviousIs ==
  ASSUME TypeOK, GateInv, NEW n \in Numbers, PreviousGates(n)
  PROVE  n \in 1..(Last + 1) /\ HasPrevious(n)
<1>1. n > 1 => n - 1 \in gates.e2e \cap gates.journal \cap gates.closeout
  BY RepairsNothing DEF PreviousGates
<1>2. n \in Nat /\ n >= 1
  BY NumbersAreBounded
<1>3. n > 1 => n - 1 \in 1..Last
  BY <1>1 DEF GateInv
<1>4. n \in 1..(Last + 1)
  BY <1>2, <1>3, LastType
<1>5. \A m \in 1..(n - 1) : m \in 1..(Last - 1) \/ m = n - 1
  BY <1>4, LastType
<1>6. \A m \in 1..(n - 1) : m = n - 1 => m \in gates.e2e \cap gates.journal
  BY <1>1, <1>2
<1>7. QED  BY <1>4, <1>5, <1>6 DEF GateInv, HasPrevious

LEMMA IncompleteIs ==
  ASSUME TypeOK, GateInv
  PROVE  Incomplete = Above(results, Last)
BY RepairsNothing DEF Incomplete, Last

(* The batch that Clean removes.                                           *)
LEMMA IncompleteHasMin ==
  ASSUME TypeOK, GateInv, Incomplete # {}
  PROVE  Min(Incomplete) \in results /\ Min(Incomplete) > Last
<1>1. Incomplete \in SUBSET Nat
  BY OpenType, NumbersAreBounded
<1>2. \E m \in Incomplete : \A k \in Incomplete : m <= k
  BY <1>1, LeastNat
<1>3. Min(Incomplete) \in Incomplete
  BY <1>2 DEF Min
<1>4. QED  BY <1>3, IncompleteIs DEF Above

LEMMA CommittedAppend ==
  ASSUME TypeOK, NEW c, c \in [n : Numbers, recorded : BOOLEAN], commits' = Append(commits, c)
  PROVE  Committed' = Committed \cup {c.n}
<1>1. commits \in Seq([n : Numbers, recorded : BOOLEAN])
  BY DEF TypeOK
<1>2. /\ DOMAIN commits' = DOMAIN commits \cup {Len(commits) + 1}
      /\ \A i \in DOMAIN commits : commits'[i] = commits[i]
      /\ commits'[Len(commits) + 1] = c
  BY <1>1
<1>3. QED  BY <1>2 DEF Committed

LEMMA ContinuationGatesAre ==
  ASSUME TypeOK, GateInv, NEW n
  PROVE  ContinuationGates(n) = gates
BY RepairsNothing DEF ContinuationGates

(* What Goto, SetPhase and Fail do.                                        *)
LEMMA GotoDoes ==
  ASSUME TypeOK, NEW step, Goto(step)
  PROVE  /\ run'.step = step /\ run'.n = run.n /\ run'.items = run.items
         /\ run'.support = run.support /\ run'.origin = run.origin
BY DEF TypeOK, Run, Goto

LEMMA SetPhaseDoes ==
  ASSUME TypeOK, SetPhase
  PROVE  /\ state'.n = state.n /\ state'.tree = state.tree /\ state'.support = state.support
BY DEF TypeOK, RuntimeState, SetPhase

LEMMA FailDoes ==
  ASSUME TypeOK, Fail
  PROVE  /\ state'.n = state.n /\ state'.tree = state.tree /\ state'.support = state.support
         /\ run' = IdleRun /\ run'.step = "idle"
BY DEF TypeOK, RuntimeState, Fail, IdleRun

(* What the steps do that take up a batch: select it, start its agent      *)
(* again, or go on from its result.                                        *)
LEMMA SelectDoes ==
  ASSUME TypeOK, GateInv, Select, NEW n, n = NextBatchNumber
  PROVE  /\ run.step = "select" /\ n \in Numbers /\ gates' = gates
         /\ ~NothingToDo(run.scope)
         /\ UNCHANGED <<results, ticked, due, commits, trees, faults>>
         /\ state'.n = n /\ ~state'.tree /\ state'.support = PlannedSupport(run.scope)
         /\ \/ run' = IdleRun /\ run'.step = "idle"
            \/ /\ PreviousGates(n) /\ run'.step = "worktree" /\ run'.n = n
               /\ run'.items = PlannedItems(run.scope)
               /\ run'.support = PlannedSupport(run.scope)
               /\ run'.origin = run.origin
<1>1. /\ run.step = "select" /\ n \in Numbers /\ gates' = gates /\ ~NothingToDo(run.scope)
      /\ UNCHANGED <<results, ticked, due, commits, trees, faults>>
  BY RepairsNothing DEF Select
<1>2. CASE PreviousGates(n)
  <2>1. /\ state' = FreshState(n, run.scope, PlannedSupport(run.scope))
        /\ run' = [run EXCEPT !.step = "worktree", !.n = n, !.items = PlannedItems(run.scope),
                              !.support = PlannedSupport(run.scope)]
    BY <1>2 DEF Select
  <2>2. QED  BY <1>1, <1>2, <2>1 DEF TypeOK, Run, FreshState
<1>3. CASE ~PreviousGates(n)
  <2>1. /\ state' = [FreshState(n, run.scope, PlannedSupport(run.scope)) EXCEPT !.running = FALSE]
        /\ run' = IdleRun
    BY <1>3 DEF Select
  <2>2. QED  BY <1>1, <2>1 DEF FreshState, IdleRun
<1>4. QED  BY <1>2, <1>3

LEMMA ContinuedNumber ==
  ASSUME TypeOK, NEW n, n = ContinuedBatch, n # 0
  PROVE  n \in Numbers
BY ContinuedType, LifecycleAssumption DEF Numbers

LEMMA RestartDoes ==
  ASSUME TypeOK, GateInv, RestartAgent, NEW n, n = ContinuedBatch
  PROVE  /\ run.step = "idle" /\ n \in Numbers /\ gates' = gates
         /\ MayContinue(n) /\ ~HasFile(n)
         /\ UNCHANGED <<results, ticked, due, commits, trees, faults>>
         /\ state'.n = n /\ state'.tree /\ state'.support = state.support
         /\ run'.step = "implement" /\ run'.n = n /\ run'.items = ContinuedItems
         /\ run'.support = ContinuedSupport /\ run'.origin = "plan"
<1>1. /\ run.step = "idle" /\ gates' = gates /\ MayContinue(n) /\ ~HasFile(n)
      /\ UNCHANGED <<results, ticked, due, commits, trees, faults>>
  BY ContinuationGatesAre DEF RestartAgent, Running
<1>2. n \in Numbers
  BY <1>1, ContinuedNumber DEF MayContinue
<1>3. PICK scope \in ContinuedScopes :
        /\ state' = [state EXCEPT !.n = n, !.tree = TRUE, !.scope = scope]
        /\ run' = [step |-> "implement", scope |-> scope, continued |-> TRUE, n |-> n,
                   items |-> ContinuedItems, support |-> ContinuedSupport, origin |-> "plan"]
  BY DEF RestartAgent
<1>4. /\ state'.n = n /\ state'.tree /\ state'.support = state.support
  BY <1>3 DEF TypeOK, RuntimeState
<1>5. QED  BY <1>1, <1>2, <1>3, <1>4

LEMMA ResumeDoes ==
  ASSUME TypeOK, GateInv, Resume, NEW n, n = ContinuedBatch
  PROVE  /\ run.step = "idle" /\ n \in Numbers /\ gates' = gates
         /\ MayContinue(n) /\ HasResult(n) /\ IsTakenUp(n)
         /\ results' = CopiedResults(n)
         /\ UNCHANGED <<ticked, due, commits, trees, faults>>
         /\ state'.n = n /\ state'.tree /\ state'.support = state.support
         /\ run'.step = "validate" /\ run'.n = n /\ run'.support = ContinuedSupport
         /\ \/ MatchesResult(n) /\ run'.items = ContinuedItems /\ run'.origin = "match"
            \/ ~MatchesResult(n) /\ run'.items = Reported(n) /\ run'.origin = "result"
<1>1. /\ run.step = "idle" /\ gates' = gates /\ MayContinue(n) /\ HasResult(n) /\ IsTakenUp(n)
      /\ results' = CopiedResults(n)
      /\ UNCHANGED <<ticked, due, commits, trees, faults>>
  BY ContinuationGatesAre DEF Resume
<1>2. n \in Numbers
  BY <1>1, ContinuedNumber DEF MayContinue
<1>3. PICK scope \in ContinuedScopes :
        /\ state' = [state EXCEPT !.running = TRUE, !.n = n, !.tree = TRUE, !.scope = scope]
        /\ run' = [step |-> "validate", scope |-> scope, continued |-> TRUE, n |-> n,
                   items |-> IF MatchesResult(n) THEN ContinuedItems ELSE Reported(n),
                   support |-> ContinuedSupport,
                   origin |-> IF MatchesResult(n) THEN "match" ELSE "result"]
  BY DEF Resume
<1>4. /\ state'.n = n /\ state'.tree /\ state'.support = state.support
  BY <1>3 DEF TypeOK, RuntimeState
<1>5. QED  BY <1>1, <1>2, <1>3, <1>4

(* Steps that close, commit and select nothing.                            *)
LEMMA GatesKept ==
  ASSUME TypeInv, GateInv,
         gates'.closeout = gates.closeout, commits' = commits,
         gates.e2e \subseteq gates'.e2e, gates.journal \subseteq gates'.journal,
         \/ Quiet'
         \/ /\ ~Quiet /\ run'.n = run.n
            /\ run'.step \in Closing => run.step \in Closing
            /\ run'.step = "finish" => run.step = "finish"
  PROVE  GateInv'
<1>1. Last' = Last /\ Committed' = Committed
  BY DEF Last, Committed
<1>2. \A n : HasPrevious(n) => HasPrevious(n)'
  BY DEF HasPrevious
<1>3. QED  BY <1>1, <1>2 DEF GateInv, Quiet, Closing

(* Steps that take up a batch.                                             *)
LEMMA GatesTaken ==
  ASSUME TypeOK, GateInv, gates' = gates, commits' = commits,
         NEW n \in Numbers, PreviousGates(n), run'.n = n,
         run'.step \in {"worktree", "implement", "validate"}
  PROVE  GateInv'
<1>1. n \in 1..(Last + 1) /\ HasPrevious(n)
  BY PreviousIs
<1>2. /\ Last' = Last /\ Committed' = Committed
      /\ HasPrevious(Last) => HasPrevious(Last)'
      /\ HasPrevious(n) => HasPrevious(run.n)'
  BY DEF Last, Committed, HasPrevious
<1>3. QED  BY <1>1, <1>2 DEF GateInv, Closing

LEMMA GateNext ==
  ASSUME TypeInv, GateInv, [Next]_vars
  PROVE  GateInv'
<1>a. TypeOK /\ gates \in GateFiles
  BY DEF TypeInv, TypeOK, GateFiles
<1> USE DEF Quiet
<1>1. ASSUME NEW scope \in Scopes, Launch(scope)  PROVE GateInv'
  <2>1. Quiet' /\ gates' = gates /\ commits' = commits
    BY <1>1 DEF Launch, IdleRun, disk
  <2>2. QED  BY <2>1, GatesKept
<1>2. CASE RefuseToStart \/ Start \/ EndOfScope
  <2>1. gates' = gates /\ commits' = commits
    BY <1>a, <1>2, RepairsNothing DEF RefuseToStart, Start, EndOfScope, disk
  <2>2. Quiet'
    BY <1>a, <1>2, GotoDoes DEF RefuseToStart, Start, EndOfScope, IdleRun
  <2>3. QED  BY <2>1, <2>2, GatesKept
<1>3. ASSUME NEW scope \in Scopes, DryRun(scope)  PROVE GateInv'
  <2>1. gates' = gates /\ commits' = commits /\ run' = run
    BY <1>a, <1>3, RepairsNothing DEF DryRun
  <2>2. QED  BY <2>1, GatesKept
<1>4. CASE Select
  <2> DEFINE n == NextBatchNumber
  <2>1. /\ run.step = "select" /\ n \in Numbers /\ gates' = gates /\ commits' = commits
        /\ \/ run'.step = "idle"
           \/ PreviousGates(n) /\ run'.step = "worktree" /\ run'.n = n
    BY <1>a, <1>4, SelectDoes
  <2>2. CASE run'.step = "idle"
    BY <2>1, <2>2, GatesKept
  <2>3. CASE PreviousGates(n) /\ run'.step = "worktree" /\ run'.n = n
    BY <1>a, <2>1, <2>3, GatesTaken
  <2>4. QED  BY <2>1, <2>2, <2>3
<1>5. CASE RestartAgent \/ Resume
  <2> DEFINE n == ContinuedBatch
  <2>1. /\ n \in Numbers /\ gates' = gates /\ commits' = commits /\ PreviousGates(n)
        /\ run'.step \in {"implement", "validate"} /\ run'.n = n
    BY <1>a, <1>5, RestartDoes, ResumeDoes DEF MayContinue
  <2>2. QED  BY <1>a, <2>1, GatesTaken
<1>6. CASE CreateWorktree \/ RunAgent \/ CopyResult \/ Tick \/ MarkSupportDue \/ Sync
  <2>1. commits' = commits /\ gates'.closeout = gates.closeout
        /\ gates.e2e \subseteq gates'.e2e /\ gates.journal \subseteq gates'.journal
    BY <1>a, <1>6 DEF CreateWorktree, RunAgent, CopyResult, Tick, MarkSupportDue, Sync, GateFiles
  <2>2. /\ ~Quiet /\ run'.n = run.n
        /\ run'.step \in {"implement", "copy", "validate", "due", "closeout", "tick"}
    BY <1>a, <1>6, GotoDoes DEF CreateWorktree, RunAgent, CopyResult, Tick, MarkSupportDue, Sync
  <2>3. QED  BY <2>1, <2>2, GatesKept DEF Closing
<1>7. CASE Validate \/ CheckMerge \/ WriteJournal
  <2>1. commits' = commits /\ gates'.closeout = gates.closeout
        /\ gates.e2e \subseteq gates'.e2e /\ gates.journal \subseteq gates'.journal
    BY <1>a, <1>7 DEF Validate, CheckMerge, WriteJournal, disk, GateFiles
  <2>2. CASE Fail
    BY <1>a, <2>1, <2>2, FailDoes, GatesKept
  <2>3. CASE ~Fail
    <3>1. /\ ~Quiet /\ run'.n = run.n
          /\ run'.step \in {"merge", "journal", "sync"}
      BY <1>a, <1>7, <2>3, GotoDoes DEF Validate, CheckMerge, WriteJournal
    <3>2. QED  BY <2>1, <3>1, GatesKept DEF Closing
  <2>4. QED  BY <2>2, <2>3
<1>8. CASE Closeout
  <2>1. /\ run.step = "closeout" /\ run'.n = run.n /\ run'.step \in {"commit", "support"}
        /\ commits' = commits
    BY <1>a, <1>8, GotoDoes DEF Closeout
  <2>2. gates' = [gates EXCEPT !.closeout = @ \cup {run.n}]
    BY <1>8 DEF Closeout
  <2>3. /\ gates'.closeout = gates.closeout \cup {run.n}
        /\ gates'.e2e = gates.e2e /\ gates'.journal = gates.journal
    BY <1>a, <2>2 DEF GateFiles
  <2>4. run.n \in 1..(Last + 1) /\ HasPrevious(run.n) /\ run.n \in Numbers
    BY <2>1 DEF GateInv, TypeInv, Numbered
  <2>5. PICK k \in 0..MaxBatch : gates'.closeout = 1..k /\ k \in {Last, run.n} /\ run.n \in 1..k
    <3>1. CASE run.n = Last + 1
      <4>1. (1..Last) \cup {run.n} = 1..run.n /\ run.n \in 0..MaxBatch
        BY <1>a, <2>4, <3>1, LastType, NumbersAreBounded
      <4>2. QED  BY <2>3, <4>1 DEF GateInv
    <3>2. CASE run.n # Last + 1
      <4>1. run.n \in 1..Last
        BY <1>a, <2>4, <3>2, LastType
      <4>2. QED  BY <1>a, <2>3, <4>1, LastType DEF GateInv
    <3>3. QED  BY <3>1, <3>2
  <2>6. Last' = k
    BY <2>5, HighestOfInterval DEF Last
  <2>7. Committed' = Committed /\ \A n : HasPrevious(n) => HasPrevious(n)'
    BY <2>1, <2>3 DEF Committed, HasPrevious
  <2>8. HasPrevious(Last)' /\ HasPrevious(run.n)'
    BY <2>1, <2>4, <2>5, <2>6, <2>7 DEF GateInv, HasPrevious
  <2>9. run.n \in 1..(k + 1)
    BY <2>5
  <2>10. QED  BY <2>1, <2>3, <2>5, <2>6, <2>7, <2>8, <2>9 DEF GateInv, Closing
<1>9. CASE WriteSupportGate
  <2>1. /\ commits' = commits /\ gates'.closeout = gates.closeout
        /\ gates'.e2e = gates.e2e /\ gates'.journal = gates.journal
    BY <1>a, <1>9 DEF WriteSupportGate, GateFiles
  <2>2. /\ run.step = "support" /\ run'.n = run.n /\ run'.step = "commit"
    BY <1>a, <1>9, GotoDoes DEF WriteSupportGate
  <2>3. QED  BY <2>1, <2>2, GatesKept DEF Closing
<1>10. CASE Commit
  <2>1. /\ run.step = "commit" /\ run'.n = run.n /\ run'.step = "finish" /\ gates' = gates
        /\ commits' = Append(commits, [n |-> run.n, recorded |-> run.n \in results])
    BY <1>a, <1>10, GotoDoes DEF Commit
  <2>2. Committed' = Committed \cup {run.n}
    <3> DEFINE c == [n |-> run.n, recorded |-> run.n \in results]
    <3>1. c \in [n : Numbers, recorded : BOOLEAN] /\ c.n = run.n
      BY <2>1 DEF TypeInv, Numbered
    <3>2. commits' = Append(commits, c)
      BY <2>1
    <3> HIDE DEF c
    <3>3. QED  BY <1>a, <3>1, <3>2, CommittedAppend
  <2>3. Last' = Last /\ \A n : HasPrevious(n) => HasPrevious(n)'
    BY <2>1 DEF Last, HasPrevious
  <2>4. QED  BY <2>1, <2>2, <2>3 DEF GateInv, Closing
<1>11. CASE Finish
  <2>1. Quiet' /\ gates' = gates /\ commits' = commits
    BY <1>11 DEF Finish, IdleRun
  <2>2. QED  BY <2>1, GatesKept
<1>12. CASE RefuseToContinue \/ RejectContinued \/ ContinueCommitted
  <2>1. gates' = gates /\ commits' = commits
    BY <1>a, <1>12, ContinuationGatesAre
       DEF RefuseToContinue, RejectContinued, ContinueCommitted
  <2>2. CASE Fail
    BY <1>a, <2>1, <2>2, FailDoes, GatesKept
  <2>3. CASE ContinueCommitted
    <3>1. Quiet'
      BY <2>3 DEF ContinueCommitted, IdleRun
    <3>2. QED  BY <2>1, <3>1, GatesKept
  <2>4. QED  BY <1>12, <2>2, <2>3 DEF RefuseToContinue, RejectContinued
<1>13. CASE Clean
  <2>1. PICK n : /\ n = Min(Incomplete)
                 /\ gates' = [gates EXCEPT !.e2e = @ \ {n}, !.journal = @ \ {n},
                                           !.closeout = @ \ {n}]
                 /\ commits' = commits /\ run' = run /\ run.step = "idle" /\ Incomplete # {}
    BY <1>13 DEF Clean
  <2>2. n \in results /\ n > Last
    BY <1>a, <2>1, IncompleteHasMin
  <2>3. n \notin gates.closeout /\ \A m \in 1..(Last - 1) : m # n
    BY <1>a, <2>2, LastType DEF GateInv
  <2>4. /\ gates'.closeout = gates.closeout
        /\ gates'.e2e = gates.e2e \ {n} /\ gates'.journal = gates.journal \ {n}
    BY <1>a, <2>1, <2>3 DEF GateFiles
  <2>5. Last' = Last /\ Committed' = Committed
    BY <2>1, <2>4 DEF Last, Committed
  <2>6. QED  BY <2>1, <2>3, <2>4, <2>5 DEF GateInv, HasPrevious, Closing
<1>14. CASE Break
  <2>1. Quiet' /\ gates' = gates /\ commits' = commits
    BY <1>14 DEF Break, IdleRun, disk
  <2>2. QED  BY <2>1, GatesKept
<1>15. CASE UNCHANGED vars
  BY <1>15 DEF vars, GateInv, Last, Committed, HasPrevious
<1>16. QED
  BY <1>1, <1>2, <1>3, <1>4, <1>5, <1>6, <1>7, <1>8, <1>9, <1>10, <1>11, <1>12, <1>13, <1>14, <1>15
     DEF Next, Work, Operator, Continue

LEMMA GateInit == Init => GateInv
<1> SUFFICES ASSUME Init  PROVE GateInv
  OBVIOUS
<1>1. /\ gates.closeout = {} /\ Committed = {} /\ run.step = "idle"
  BY DEF Init, Committed, IdleRun
<1>2. Last = 0
  BY <1>1 DEF Last, Highest
<1>3. QED  BY <1>1, <1>2 DEF GateInv, HasPrevious, Quiet, Closing

(* Before a batch is committed every earlier one has its gates, whatever   *)
(* crashed and was continued, cleaned or started anew.                     *)
THEOREM EarlierClosed == Spec => []EarlierBatchesClosed
<1>1. TypeInv /\ GateInv => EarlierBatchesClosed
  <2> SUFFICES ASSUME TypeOK, GateInv, NEW n \in Committed, NEW m \in 1..(n - 1)
               PROVE  m \in gates.e2e \cap gates.journal \cap gates.closeout
    BY DEF EarlierBatchesClosed, TypeInv
  <2>1. n \in 1..Last
    BY DEF GateInv
  <2>2. m \in 1..Last /\ m \in 1..(Last - 1)
    BY <2>1, LastType
  <2>3. QED  BY <2>2 DEF GateInv, HasPrevious
<1>2. Init => GateInv
  BY GateInit
<1>3. TypeInv /\ GateInv /\ [Next]_vars => GateInv'
  BY GateNext
<1>4. QED  BY <1>1, <1>2, <1>3, TypeAlways, PTL DEF Spec

-----------------------------------------------------------------------------
(* The work trees and the results.                                         *)

BeforeAgent == {"worktree", "implement"}

Accepted == {"merge", "journal", "sync", "tick", "due", "closeout"}

NoResultAbove == \A n \in Numbers : n > Last => ~HasResult(n)

(* A result above the last closed batch is that of the next number, whose  *)
(* work tree holds it.                                                     *)
TreeInv ==
  /\ results \subseteq 1..(Last + 1)
  /\ \A n \in gates.closeout : n > 1 => n - 1 \in results
  /\ \A n \in Numbers : trees[n].there => n <= Last + 1 /\ (n > 1 => n - 1 \in results)
  /\ \A n \in Numbers : ~trees[n].there => trees[n] = NoTree
  /\ \A n \in Numbers : trees[n].result = "none" =>
       trees[n].covers = {} /\ trees[n].support = "none"
  /\ \A n \in results : n > Last \/ trees[n].there => HasResult(n)

(* The batch worked on, and the one the state file names: a dry run writes *)
(* another there, but no work tree.                                        *)
RunInv ==
  ~Quiet =>
    /\ run.n > 1 => run.n - 1 \in results
    /\ run.step = "worktree" => run.n = NextBatchNumber
    /\ run.step # "worktree" => MyTree.there
    /\ run.step \in BeforeAgent => run.n \notin results \/ Bugfixed
    /\ run.step \notin BeforeAgent \cup {"copy"} /\ HasFile(run.n) => run.n \in results
    /\ run.step \in Accepted => MyTree.result # "none"
    /\ run.n <= Last => NoResultAbove
    /\ state.tree \/ run.step = "worktree" => state.n = run.n

(* A closed batch is taken up only if there is no open one.                *)
QuietInv ==
  Quiet /\ StateTree /\ state.n <= Last => NoResultAbove

BatchInv == TreeInv /\ RunInv /\ QuietInv

LEMMA PlaceDoes ==
  ASSUME TypeInv, CreateWorktree
  PROVE  /\ run.step = "worktree" /\ run'.step = "implement" /\ run'.n = run.n
         /\ run'.items = run.items /\ run'.support = run.support /\ run'.origin = run.origin
         /\ state'.n = state.n /\ state'.tree /\ state'.support = state.support
         /\ \A m \in Numbers : m # run.n => trees'[m] = trees[m]
         /\ trees'[run.n].there /\ trees'[run.n].result = MyTree.result
         /\ trees'[run.n].covers = MyTree.covers /\ trees'[run.n].support = MyTree.support
<1>1. run.n \in Numbers /\ trees \in [Numbers -> Tree] /\ state \in RuntimeState
  BY DEF CreateWorktree, TypeInv, Numbered, TypeOK
<1>2. /\ trees' = [trees EXCEPT ![run.n].there = TRUE]
      /\ state' = [state EXCEPT !.running = TRUE, !.tree = TRUE]
      /\ run.step = "worktree" /\ Goto("implement")
  BY DEF CreateWorktree
<1>3. QED  BY <1>1, <1>2, GotoDoes DEF TypeInv, Tree, RuntimeState, MyTree

LEMMA AgentDoes ==
  ASSUME TypeInv, RunAgent
  PROVE  /\ run.step = "implement" /\ run'.step = "copy" /\ run'.n = run.n
         /\ run'.items = run.items /\ run'.support = run.support /\ run'.origin = run.origin
         /\ \A m \in Numbers : m # run.n => trees'[m] = trees[m]
         /\ trees'[run.n].there = MyTree.there
         /\ Bugfixed => trees'[run.n].result \in {"bugfix", "success"}
         /\ trees'[run.n].result = "none" =>
              trees'[run.n].covers = {} /\ trees'[run.n].support = "none"
         /\ trees'[run.n].covers \subseteq MyTree.covers \cup run.items
         /\ trees'[run.n].support \in {"none", run.support, MyTree.support}
<1>1. /\ run.n \in Numbers /\ trees \in [Numbers -> Tree] /\ MyTree \in Tree
      /\ run.step = "implement" /\ Goto("copy")
  BY DEF RunAgent, TypeInv, Numbered, TypeOK, MyTree
<1>2. PICK file \in {"none", "failure", "success"}, covers \in SUBSET run.items :
        /\ file = "none" => covers = {}
        /\ trees' = [trees EXCEPT
             ![run.n].result = IF ~Bugfixed THEN file
                               ELSE IF file = "none" THEN "bugfix" ELSE "success",
             ![run.n].covers = Bugfixes \cup covers,
             ![run.n].support = IF file = "success" THEN run.support
                                ELSE IF Bugfixed THEN @ ELSE "none"]
  BY DEF RunAgent
<1>3. /\ trees'[run.n].there = MyTree.there
      /\ trees'[run.n].result = IF ~Bugfixed THEN file
                                ELSE IF file = "none" THEN "bugfix" ELSE "success"
      /\ trees'[run.n].covers = Bugfixes \cup covers
      /\ trees'[run.n].support = IF file = "success" THEN run.support
                                 ELSE IF Bugfixed THEN MyTree.support ELSE "none"
  BY <1>1, <1>2 DEF Tree, MyTree
<1>4. \A m \in Numbers : m # run.n => trees'[m] = trees[m]
  BY <1>1, <1>2
<1>5. Bugfixes \subseteq MyTree.covers /\ (~Bugfixed => Bugfixes = {})
  BY DEF Bugfixes
<1>6. /\ run'.step = "copy" /\ run'.n = run.n
      /\ run'.items = run.items /\ run'.support = run.support /\ run'.origin = run.origin
  BY <1>1, GotoDoes DEF TypeInv
<1>7. QED  BY <1>1, <1>2, <1>3, <1>4, <1>5, <1>6

LEMMA BugfixDoes ==
  ASSUME TypeInv, run.n \in Numbers, RunBugfix
  PROVE  /\ \A m \in Numbers : m # run.n => trees'[m] = trees[m]
         /\ trees'[run.n].there = MyTree.there
         /\ trees'[run.n].result = IF HasFile(run.n) THEN "success" ELSE "bugfix"
         /\ MyTree.covers \subseteq trees'[run.n].covers
         /\ trees'[run.n].covers \subseteq MyTree.covers \cup run.items
         /\ trees'[run.n].support \in {run.support, MyTree.support}
<1>1. trees \in [Numbers -> Tree] /\ MyTree \in Tree
  BY DEF TypeInv, TypeOK, MyTree
<1>2. PICK fixes \in SUBSET run.items, support \in {run.support, MyTree.support} :
        trees' = [trees EXCEPT ![run.n].result = IF HasFile(run.n) THEN "success" ELSE "bugfix",
                    ![run.n].covers = @ \cup fixes, ![run.n].support = support]
  BY DEF RunBugfix
<1>3. /\ trees'[run.n].there = MyTree.there
      /\ trees'[run.n].result = IF HasFile(run.n) THEN "success" ELSE "bugfix"
      /\ trees'[run.n].covers = MyTree.covers \cup fixes
      /\ trees'[run.n].support = support
  BY <1>1, <1>2 DEF Tree, MyTree
<1>4. \A m \in Numbers : m # run.n => trees'[m] = trees[m]
  BY <1>1, <1>2
<1>5. QED  BY <1>2, <1>3, <1>4

(* Validation and the journal end the run or go on.                        *)
LEMMA ValidateDoes ==
  ASSUME TypeInv, Validate
  PROVE  /\ run.step = "validate" /\ run.n \in Numbers
         /\ UNCHANGED <<results, ticked, due, commits, faults>>
         /\ gates'.closeout = gates.closeout /\ gates'.support = gates.support
         /\ state'.n = state.n /\ state'.tree = state.tree /\ state'.support = state.support
         /\ trees' = trees \/ RunBugfix
         /\ \/ run' = IdleRun /\ run'.step = "idle"
            \/ /\ run'.step = "merge" /\ run'.n = run.n /\ run'.items = run.items
               /\ run'.support = run.support /\ run'.origin = run.origin
               /\ RunBugfix \/ MyTree.result \in {"success", "bugfix"}
<1>1. /\ run.step = "validate" /\ run.n \in Numbers
      /\ UNCHANGED <<results, ticked, due, commits, faults>>
  BY DEF Validate, TypeInv, Numbered
<1>2. gates'.closeout = gates.closeout /\ gates'.support = gates.support
  BY DEF Validate, TypeInv, TypeOK
<1>3. trees' = trees \/ RunBugfix
  BY DEF Validate
<1>4. CASE Fail
  BY <1>1, <1>2, <1>3, <1>4, FailDoes DEF TypeInv
<1>5. CASE ~Fail
  <2>1. /\ Goto("merge") /\ state' = state
        /\ RunBugfix \/ MyTree.result \in {"success", "bugfix"}
    BY <1>5 DEF Validate
  <2>2. QED  BY <1>1, <1>2, <1>3, <2>1, GotoDoes DEF TypeInv
<1>6. QED  BY <1>4, <1>5

LEMMA JournalDoes ==
  ASSUME TypeInv, WriteJournal
  PROVE  /\ run.step = "journal" /\ run.n \in Numbers
         /\ UNCHANGED <<results, gates, ticked, due, commits, faults>>
         /\ state'.n = state.n /\ state'.tree = state.tree /\ state'.support = state.support
         /\ \A m \in Numbers :
              /\ trees'[m].there = trees[m].there /\ trees'[m].result = trees[m].result
              /\ trees'[m].covers = trees[m].covers /\ trees'[m].support = trees[m].support
              /\ trees'[m] = trees[m] \/ m = run.n
         /\ \/ run' = IdleRun /\ run'.step = "idle"
            \/ /\ run'.step = "sync" /\ run'.n = run.n /\ run'.items = run.items
               /\ run'.support = run.support /\ run'.origin = run.origin
<1>1. /\ run.step = "journal" /\ run.n \in Numbers
      /\ UNCHANGED <<results, gates, ticked, due, commits, faults>>
  BY DEF WriteJournal, TypeInv, Numbered
<1>2. trees \in [Numbers -> Tree]
  BY DEF TypeInv, TypeOK
<1>3. \A m \in Numbers :
        /\ trees'[m].there = trees[m].there /\ trees'[m].result = trees[m].result
        /\ trees'[m].covers = trees[m].covers /\ trees'[m].support = trees[m].support
        /\ trees'[m] = trees[m] \/ m = run.n
  BY <1>1, <1>2 DEF WriteJournal, Tree
<1>4. CASE Fail
  BY <1>1, <1>3, <1>4, FailDoes DEF TypeInv
<1>5. CASE ~Fail
  <2>1. Goto("sync") /\ SetPhase
    BY <1>5 DEF WriteJournal
  <2>2. QED  BY <1>1, <1>3, <2>1, GotoDoes, SetPhaseDoes DEF TypeInv
<1>6. QED  BY <1>4, <1>5

(* Steps that leave the disk as it is.                                     *)
LEMMA TreeKept ==
  ASSUME TreeInv, results' = results, trees' = trees, gates'.closeout = gates.closeout
  PROVE  /\ TreeInv' /\ Last' = Last /\ NoResultAbove' = NoResultAbove
         /\ \A n : HasFile(n)' = HasFile(n) /\ HasResult(n)' = HasResult(n)
<1>1. Last' = Last
  BY DEF Last
<1>2. \A n : HasFile(n)' = HasFile(n) /\ HasResult(n)' = HasResult(n)
  BY DEF HasFile, HasResult
<1>3. NoResultAbove' = NoResultAbove
  BY <1>1, <1>2 DEF NoResultAbove
<1>4. QED  BY <1>1, <1>2, <1>3 DEF TreeInv

LEMMA BatchRests ==
  ASSUME BatchInv, results' = results, trees' = trees, gates'.closeout = gates.closeout,
         Quiet, Quiet',
         ~state'.tree \/ (state'.n = state.n /\ state'.tree = state.tree)
  PROVE  BatchInv'
<1>1. /\ TreeInv' /\ Last' = Last /\ NoResultAbove' = NoResultAbove
  BY TreeKept DEF BatchInv
<1>2. QuietInv'
  BY <1>1 DEF BatchInv, QuietInv, StateTree
<1>3. QED  BY <1>1, <1>2 DEF BatchInv, RunInv

LEMMA BatchGoesOn ==
  ASSUME BatchInv, results' = results, trees' = trees, gates'.closeout = gates.closeout,
         ~Quiet, ~Quiet', run'.n = run.n, run.step \notin BeforeAgent,
         run'.step \notin BeforeAgent \cup {"copy"}, run.step # "copy",
         run'.step \in Accepted => run.step \in Accepted \/ MyTree.result # "none",
         state'.n = state.n, state'.tree = state.tree
  PROVE  BatchInv'
<1>1. /\ TreeInv' /\ Last' = Last /\ NoResultAbove' = NoResultAbove
      /\ HasFile(run.n)' = HasFile(run.n) /\ MyTree' = MyTree
  BY TreeKept DEF BatchInv, MyTree, HasFile
<1>2. QuietInv'
  BY DEF QuietInv
<1>3. RunInv'
  BY <1>1 DEF BatchInv, RunInv, BeforeAgent
<1>4. QED  BY <1>1, <1>2, <1>3 DEF BatchInv

LEMMA BatchStops ==
  ASSUME TreeInv', RunInv, Last' = Last, NoResultAbove => NoResultAbove',
         ~Quiet, Quiet', state'.n = state.n, state'.tree = state.tree
  PROVE  BatchInv'
<1>1. QuietInv'
  BY DEF QuietInv, RunInv, StateTree
<1>2. QED  BY <1>1 DEF BatchInv, RunInv

(* Steps that only change the work tree of the batch.                      *)
LEMMA TreeChanged ==
  ASSUME TypeInv, GateInv, BatchInv, ~Quiet, results' = results, gates'.closeout = gates.closeout,
         \A m \in Numbers : m # run.n => trees'[m] = trees[m],
         trees'[run.n].there,
         trees'[run.n].result = "none" =>
           /\ trees'[run.n].covers = {} /\ trees'[run.n].support = "none"
           /\ run.n \notin results
  PROVE  /\ TreeInv' /\ Last' = Last
         /\ run.n <= Last => NoResultAbove'
<1>1. Last' = Last /\ Last \in Nat /\ run.n \in Numbers /\ run.n \in Nat /\ run.n <= Last + 1
  BY LastType DEF Last, TypeInv, Numbered, Quiet, GateInv
<1>2. \A m \in Numbers : m # run.n => HasResult(m)' = HasResult(m)
  BY DEF HasResult
<1>3. \A m : trees'[m].there /\ trees'[m].result # "none" => HasResult(m)'
  BY DEF HasResult
<1>4. results \subseteq Numbers
  BY DEF TypeInv, TypeOK
<1>5. TreeInv'
  <2>1. results' \subseteq 1..(Last + 1)' /\ \A n \in gates'.closeout : n > 1 => n - 1 \in results'
    BY <1>1 DEF BatchInv, TreeInv
  <2>2. \A n \in Numbers : trees'[n].there => n <= Last' + 1 /\ (n > 1 => n - 1 \in results')
    BY <1>1 DEF BatchInv, TreeInv, RunInv
  <2>3. \A n \in Numbers : ~trees'[n].there => trees'[n] = NoTree
    BY <1>1 DEF BatchInv, TreeInv
  <2>4. \A n \in Numbers : trees'[n].result = "none" =>
          trees'[n].covers = {} /\ trees'[n].support = "none"
    BY <1>1 DEF BatchInv, TreeInv
  <2>5. \A n \in results' : n > Last' \/ trees'[n].there => HasResult(n)'
    BY <1>1, <1>2, <1>3, <1>4 DEF BatchInv, TreeInv
  <2>6. QED  BY <2>1, <2>2, <2>3, <2>4, <2>5 DEF TreeInv
<1>6. run.n <= Last => NoResultAbove'
  BY <1>1, <1>2 DEF BatchInv, RunInv, NoResultAbove
<1>7. QED  BY <1>1, <1>5, <1>6

(* The batch that is taken up.                                             *)
LEMMA ContinuedIs ==
  ASSUME TypeOK, BatchInv, Quiet, NEW n \in Numbers, n = ContinuedBatch
  PROVE  /\ trees[n].there
         /\ ~StateTree => HasResult(n)
         /\ n <= Last => NoResultAbove
<1>1. CASE StateTree
  <2>1. n = state.n /\ trees[n].there
    BY <1>1 DEF ContinuedBatch, StateTree
  <2>2. QED  BY <1>1, <2>1 DEF BatchInv, QuietInv
<1>2. CASE ~StateTree
  <2> DEFINE S == {m \in Numbers : HasResult(m)}
  <2>1. n = Highest(S)
    BY <1>2 DEF ContinuedBatch, LatestResumable
  <2>2. n \in S /\ \A m \in S : m <= n
    <3> HIDE DEF S
    <3>1. S \in SUBSET Numbers /\ n # 0
      BY NumbersAreBounded DEF S
    <3>2. QED  BY <2>1, <3>1, HighestIs
  <2>3. HasResult(n) /\ trees[n].there
    BY <2>2 DEF HasResult
  <2>4. ASSUME n <= Last  PROVE NoResultAbove
    BY <2>2, <2>4, LastType, NumbersAreBounded DEF NoResultAbove
  <2>5. QED  BY <1>2, <2>3, <2>4
<1>3. QED  BY <1>1, <1>2

LEMMA NextIs ==
  ASSUME TypeOK
  PROVE  /\ NextBatchNumber \in Nat /\ NextBatchNumber \notin results
         /\ NextBatchNumber > 1 => NextBatchNumber - 1 \in results
         /\ \A m \in results : m < NextBatchNumber
<1>1. results \in SUBSET Numbers
  BY DEF TypeOK
<1>2. /\ Highest(results) \in Nat /\ \A m \in results : m <= Highest(results)
      /\ Highest(results) # 0 => Highest(results) \in results
  BY <1>1, HighestIs, LifecycleAssumption
<1>3. results \subseteq Nat
  BY <1>1, NumbersAreBounded
<1>4. QED  BY <1>2, <1>3 DEF NextBatchNumber

(* Steps that take up a batch.                                             *)
LEMMA BatchTaken ==
  ASSUME TreeInv', Last' = Last, NEW n \in Numbers, run'.n = n, ~Quiet', state'.n = n,
         n > 1 => n - 1 \in results',
         run'.step = "worktree" => n = NextBatchNumber',
         run'.step \in {"worktree", "implement", "validate"},
         run'.step # "validate" => n \notin results' \/ trees'[n].result = "bugfix",
         run'.step = "validate" /\ trees'[n].result \in {"failure", "success"} => n \in results',
         run'.step # "worktree" => trees'[n].there,
         n <= Last => NoResultAbove'
  PROVE  BatchInv'
<1>1. MyTree' = trees'[n]
  BY DEF MyTree
<1>2. /\ Bugfixed' = (trees'[n].result = "bugfix")
      /\ HasFile(run.n)' = (trees'[n].result \in {"failure", "success"})
  BY <1>1 DEF Bugfixed, HasFile
<1>3. /\ run'.step \notin Accepted
      /\ run'.step \in BeforeAgent <=> run'.step # "validate"
      /\ run'.step # "copy"
  BY DEF BeforeAgent, Accepted
<1>4. RunInv'
  <2>1. /\ run'.n > 1 => run'.n - 1 \in results'
        /\ run'.step = "worktree" => run'.n = NextBatchNumber'
        /\ run'.step # "worktree" => MyTree'.there
    BY <1>1
  <2>2. /\ run'.step \in BeforeAgent => run'.n \notin results' \/ Bugfixed'
        /\ run'.step \notin BeforeAgent \cup {"copy"} /\ HasFile(run.n)' => run'.n \in results'
    BY <1>2, <1>3
  <2>3. QED  BY <1>3, <2>1, <2>2 DEF RunInv
<1>5. QED  BY <1>4 DEF BatchInv, QuietInv

(* A result is copied for the batch worked on, which then has one.         *)
LEMMA ResultAdded ==
  ASSUME TypeOK, TreeInv, NEW n \in Numbers, trees' = trees, gates'.closeout = gates.closeout,
         results' \in {results, results \cup {n}},
         n <= Last + 1, results' # results => HasResult(n)
  PROVE  /\ TreeInv' /\ Last' = Last /\ NoResultAbove' = NoResultAbove
<1>1. Last' = Last /\ n \in 1..(Last + 1)
  BY LastType, NumbersAreBounded DEF Last
<1>2. \A m : HasResult(m)' = HasResult(m)
  BY DEF HasResult
<1>3. NoResultAbove' = NoResultAbove
  BY <1>1, <1>2 DEF NoResultAbove
<1>4. TreeInv'
  BY <1>1, <1>2 DEF TreeInv
<1>5. QED  BY <1>1, <1>3, <1>4

(* Closing the batch worked on closes no other.                            *)
LEMMA CloseoutSteps ==
  ASSUME NEW k \in Nat, NEW l \in Nat, NEW n \in 1..(k + 1), 1..l = (1..k) \cup {n}
  PROVE  l \in {k, k + 1} /\ k <= l /\ n <= l /\ (l # k => l = n)
<1>1. n \in 1..l
  OBVIOUS
<1>2. k > 0 => k \in 1..l
  OBVIOUS
<1>3. l > 0 => l \in 1..k \/ l = n
  OBVIOUS
<1>4. QED  BY <1>1, <1>2, <1>3

LEMMA BatchNext ==
  ASSUME TypeInv, GateInv, BatchInv, [Next]_vars
  PROVE  BatchInv'
<1>a. /\ TypeOK /\ gates \in GateFiles /\ run \in Run /\ state \in RuntimeState
      /\ Last \in Nat /\ Last \in 0..MaxBatch
  BY LastType DEF TypeInv, TypeOK, GateFiles
<1>b. ~Quiet => /\ run.n \in Numbers /\ run.n \in Nat /\ run.n >= 1 /\ run.n <= Last + 1
  BY <1>a, NumbersAreBounded DEF TypeInv, Numbered, Quiet, GateInv
<1>1. ASSUME NEW scope \in Scopes, Launch(scope)  PROVE BatchInv'
  <2>1. /\ Quiet /\ Quiet' /\ state' = state
        /\ results' = results /\ trees' = trees /\ gates' = gates
    BY <1>1 DEF Launch, IdleRun, disk, Quiet
  <2>2. QED  BY <2>1, BatchRests
<1>2. CASE RefuseToStart \/ Start \/ EndOfScope
  <2>1. Quiet /\ results' = results /\ trees' = trees /\ gates' = gates
    BY <1>a, <1>2, RepairsNothing DEF RefuseToStart, Start, EndOfScope, disk, Quiet
  <2>2. Quiet'
    BY <1>a, <1>2, GotoDoes DEF RefuseToStart, Start, EndOfScope, IdleRun, Quiet
  <2>3. state' = state \/ ~state'.tree
    BY <1>2 DEF RefuseToStart, Start, EndOfScope, FreshState
  <2>4. QED  BY <2>1, <2>2, <2>3, BatchRests
<1>3. ASSUME NEW scope \in Scopes, DryRun(scope)  PROVE BatchInv'
  <2>1. run' = run /\ results' = results /\ trees' = trees /\ gates' = gates
    BY <1>a, <1>3, RepairsNothing DEF DryRun
  <2>2. state' = state \/ (state'.n = NextBatchNumber /\ ~state'.tree)
    BY <1>3 DEF DryRun, FreshState
  <2>3. CASE Quiet
    BY <2>1, <2>2, <2>3, BatchRests DEF Quiet
  <2>4. CASE ~Quiet
    <3>1. /\ TreeInv' /\ Last' = Last /\ NoResultAbove' = NoResultAbove
          /\ HasFile(run.n)' = HasFile(run.n) /\ MyTree' = MyTree
          /\ NextBatchNumber' = NextBatchNumber
      BY <2>1, TreeKept DEF BatchInv, MyTree, HasFile, NextBatchNumber
    <3>2. RunInv'
      BY <2>1, <2>2, <2>4, <3>1 DEF BatchInv, RunInv, Quiet, Bugfixed
    <3>3. QED  BY <2>1, <2>4, <3>1, <3>2 DEF BatchInv, QuietInv, Quiet
  <2>5. QED  BY <2>3, <2>4
<1>4. CASE Select
  <2> DEFINE n == NextBatchNumber
  <2>1. /\ run.step = "select" /\ n \in Numbers /\ gates' = gates
        /\ results' = results /\ trees' = trees
        /\ state'.n = n /\ ~state'.tree
        /\ \/ run'.step = "idle"
           \/ run'.step = "worktree" /\ run'.n = n
    BY <1>a, <1>4, SelectDoes
  <2>2. CASE run'.step = "idle"
    BY <2>1, <2>2, BatchRests DEF Quiet
  <2>3. CASE run'.step = "worktree" /\ run'.n = n
    <3>1. /\ TreeInv' /\ Last' = Last /\ NoResultAbove' = NoResultAbove /\ n = NextBatchNumber'
      BY <2>1, TreeKept DEF BatchInv, NextBatchNumber
    <3>2. n \notin results /\ (n > 1 => n - 1 \in results) /\ n \in Nat
          /\ \A m \in results : m < n
      BY <1>a, NextIs
    <3>3. ASSUME n <= Last, NEW m \in Numbers, m > Last, HasResult(m)  PROVE FALSE
      <4>1. m = Last + 1 /\ m > 1 /\ m - 1 \in results
        BY <1>a, <2>1, <3>3, NumbersAreBounded DEF BatchInv, TreeInv, HasResult
      <4>2. Last \in results /\ Last < n
        BY <1>a, <3>2, <4>1
      <4>3. QED  BY <1>a, <3>2, <3>3, <4>2
    <3>4. n <= Last => NoResultAbove
      BY <3>3 DEF NoResultAbove
    <3> HIDE DEF n
    <3>5. QED  BY <2>1, <2>3, <3>1, <3>2, <3>4, BatchTaken DEF Quiet
  <2>4. QED  BY <2>1, <2>2, <2>3
<1>5. CASE RestartAgent
  <2> DEFINE n == ContinuedBatch
  <2>1. /\ Quiet /\ n \in Numbers /\ gates' = gates /\ ~HasFile(n)
        /\ results' = results /\ trees' = trees
        /\ state'.n = n /\ run'.step = "implement" /\ run'.n = n
    BY <1>a, <1>5, RestartDoes DEF Quiet
  <2>2. trees[n].there /\ (n <= Last => NoResultAbove)
    BY <1>a, <2>1, ContinuedIs
  <2>3. /\ TreeInv' /\ Last' = Last /\ NoResultAbove' = NoResultAbove
    BY <2>1, TreeKept DEF BatchInv
  <2>4. n \in results => trees[n].result = "bugfix"
    BY <2>1, <2>2 DEF BatchInv, TreeInv, HasFile, HasResult, TypeInv, TypeOK, Tree
  <2>5. n > 1 => n - 1 \in results
    BY <2>1, <2>2 DEF BatchInv, TreeInv
  <2> HIDE DEF n
  <2>6. QED  BY <2>1, <2>2, <2>3, <2>4, <2>5, BatchTaken DEF Quiet
<1>6. CASE Resume
  <2> DEFINE n == ContinuedBatch
  <2>1. /\ Quiet /\ n \in Numbers /\ gates' = gates /\ HasResult(n)
        /\ results' = CopiedResults(n) /\ trees' = trees
        /\ state'.n = n /\ run'.step = "validate" /\ run'.n = n
    BY <1>a, <1>6, ResumeDoes DEF Quiet
  <2>2. trees[n].there /\ (n <= Last => NoResultAbove)
    BY <1>a, <2>1, ContinuedIs
  <2>3. n <= Last + 1 /\ (n > 1 => n - 1 \in results)
    BY <2>1, <2>2 DEF BatchInv, TreeInv
  <2> HIDE DEF n
  <2>4. /\ results' \in {results, results \cup {n}} /\ results \subseteq results'
        /\ trees[n].result \in {"failure", "success"} => n \in results'
    BY <2>1 DEF CopiedResults, HasFile
  <2>5. /\ TreeInv' /\ Last' = Last /\ NoResultAbove' = NoResultAbove
    BY <1>a, <2>1, <2>3, <2>4, ResultAdded DEF BatchInv
  <2>6. QED  BY <2>1, <2>2, <2>3, <2>4, <2>5, BatchTaken DEF Quiet
<1>7. CASE CreateWorktree
  <2>1. /\ ~Quiet /\ ~Quiet' /\ run.step = "worktree" /\ run'.step = "implement" /\ run'.n = run.n
        /\ results' = results /\ gates' = gates
        /\ state'.n = state.n
        /\ \A m \in Numbers : m # run.n => trees'[m] = trees[m]
        /\ trees'[run.n].there /\ trees'[run.n].result = MyTree.result
        /\ trees'[run.n].covers = MyTree.covers /\ trees'[run.n].support = MyTree.support
    BY <1>7, PlaceDoes DEF CreateWorktree, Quiet
  <2>2. /\ run.n \notin results /\ state.n = run.n /\ (run.n > 1 => run.n - 1 \in results)
    BY <1>a, <2>1, NextIs DEF BatchInv, RunInv
  <2>3. MyTree.result = "none" => MyTree.covers = {} /\ MyTree.support = "none"
    BY <1>b, <2>1 DEF BatchInv, TreeInv, MyTree
  <2>4. /\ TreeInv' /\ Last' = Last /\ (run.n <= Last => NoResultAbove')
    BY <2>1, <2>2, <2>3, TreeChanged
  <2>5. QED  BY <1>b, <2>1, <2>2, <2>4, BatchTaken
<1>8. CASE RunAgent
  <2>1. /\ ~Quiet /\ ~Quiet' /\ run.step = "implement" /\ run'.step = "copy" /\ run'.n = run.n
        /\ results' = results /\ gates' = gates /\ state' = state
        /\ \A m \in Numbers : m # run.n => trees'[m] = trees[m]
        /\ trees'[run.n].there = MyTree.there
        /\ Bugfixed => trees'[run.n].result \in {"bugfix", "success"}
        /\ trees'[run.n].result = "none" =>
             trees'[run.n].covers = {} /\ trees'[run.n].support = "none"
    BY <1>8, AgentDoes DEF RunAgent, Quiet
  <2>2. MyTree.there /\ (run.n \notin results \/ Bugfixed)
    BY <2>1 DEF BatchInv, RunInv, BeforeAgent
  <2>3. /\ TreeInv' /\ Last' = Last /\ (run.n <= Last => NoResultAbove')
    BY <2>1, <2>2, TreeChanged
  <2>4. MyTree'.there
    BY <2>1, <2>2 DEF MyTree
  <2>5. RunInv'
    BY <2>1, <2>3, <2>4 DEF BatchInv, RunInv, BeforeAgent, Accepted
  <2>6. QED  BY <2>1, <2>3, <2>5 DEF BatchInv, QuietInv
<1>9. CASE CopyResult
  <2>1. /\ ~Quiet /\ ~Quiet' /\ run.step = "copy" /\ run'.step = "validate" /\ run'.n = run.n
        /\ results' = CopiedResults(run.n) /\ gates' = gates /\ trees' = trees
        /\ state'.n = state.n /\ state'.tree = state.tree
    BY <1>a, <1>9, GotoDoes, SetPhaseDoes DEF CopyResult, Quiet
  <2>2. MyTree.there
    BY <2>1 DEF BatchInv, RunInv
  <2>3. /\ results' \in {results, results \cup {run.n}} /\ results \subseteq results'
        /\ results' # results => HasResult(run.n)
        /\ HasFile(run.n) => run.n \in results'
    BY <2>1, <2>2 DEF CopiedResults, HasFile, HasResult, MyTree
  <2>4. /\ TreeInv' /\ Last' = Last /\ NoResultAbove' = NoResultAbove
    BY <1>a, <1>b, <2>1, <2>3, ResultAdded DEF BatchInv
  <2>5. MyTree' = MyTree /\ HasFile(run.n)' = HasFile(run.n)
    BY <2>1 DEF MyTree, HasFile
  <2>6. RunInv'
    BY <2>1, <2>3, <2>4, <2>5 DEF BatchInv, RunInv, BeforeAgent, Accepted
  <2>7. QED  BY <2>1, <2>4, <2>6 DEF BatchInv, QuietInv
<1>10. CASE Validate
  <2>1. /\ ~Quiet /\ run.step = "validate" /\ run.n \in Numbers
        /\ results' = results /\ gates'.closeout = gates.closeout
        /\ state'.n = state.n /\ state'.tree = state.tree
        /\ trees' = trees \/ RunBugfix
        /\ \/ run'.step = "idle"
           \/ /\ run'.step = "merge" /\ run'.n = run.n
              /\ RunBugfix \/ MyTree.result \in {"success", "bugfix"}
    BY <1>10, ValidateDoes DEF Quiet
  <2>2. MyTree.there
    BY <2>1 DEF BatchInv, RunInv
  <2>3. CASE trees' = trees
    <3>1. /\ TreeInv' /\ Last' = Last /\ NoResultAbove' = NoResultAbove
      BY <2>1, <2>3, TreeKept DEF BatchInv
    <3>2. CASE run'.step = "idle"
      BY <2>1, <3>1, <3>2, BatchStops DEF BatchInv, Quiet
    <3>3. CASE run'.step # "idle" /\ ~RunBugfix
      BY <2>1, <2>3, <3>3, BatchGoesOn DEF BeforeAgent, Quiet
    <3>4. CASE run'.step # "idle" /\ RunBugfix
      <4>1. MyTree.result # "none"
        BY <2>1, <2>3, <3>4, BugfixDoes DEF MyTree
      <4>2. QED  BY <2>1, <2>3, <3>4, <4>1, BatchGoesOn DEF BeforeAgent, Quiet
    <3>5. QED  BY <3>2, <3>3, <3>4
  <2>4. CASE RunBugfix
    <3>1. /\ \A m \in Numbers : m # run.n => trees'[m] = trees[m]
          /\ trees'[run.n].there
          /\ trees'[run.n].result = IF HasFile(run.n) THEN "success" ELSE "bugfix"
      BY <2>1, <2>2, <2>4, BugfixDoes
    <3>2. /\ TreeInv' /\ Last' = Last /\ (run.n <= Last => NoResultAbove')
      BY <2>1, <3>1, TreeChanged
    <3>3. CASE run'.step = "idle"
      <4>1. QuietInv'
        BY <2>1, <3>2, <3>3 DEF QuietInv, BatchInv, RunInv, StateTree, Quiet
      <4>2. QED  BY <3>2, <3>3, <4>1 DEF BatchInv, RunInv, Quiet
    <3>4. CASE run'.step = "merge" /\ run'.n = run.n
      <4>1. MyTree'.there /\ MyTree'.result # "none" /\ HasFile(run.n)' = HasFile(run.n)
        BY <3>1, <3>4 DEF MyTree, HasFile
      <4>2. RunInv'
        BY <2>1, <3>2, <3>4, <4>1 DEF BatchInv, RunInv, BeforeAgent, Accepted, Quiet
      <4>3. QED  BY <3>2, <3>4, <4>2 DEF BatchInv, QuietInv, Quiet
    <3>5. QED  BY <2>1, <3>3, <3>4
  <2>5. QED  BY <2>1, <2>3, <2>4
<1>11. CASE CheckMerge
  <2>1. /\ ~Quiet /\ run.step = "merge" /\ results' = results /\ gates' = gates /\ trees' = trees
    BY <1>11 DEF CheckMerge, disk, Quiet
  <2>2. CASE Fail
    <3>1. Quiet' /\ state'.n = state.n /\ state'.tree = state.tree
      BY <1>a, <2>2, FailDoes DEF Quiet
    <3>2. TreeInv' /\ Last' = Last /\ NoResultAbove' = NoResultAbove
      BY <2>1, TreeKept DEF BatchInv
    <3>3. QED  BY <2>1, <3>1, <3>2, BatchStops DEF BatchInv
  <2>3. CASE ~Fail
    <3>1. run'.step = "journal" /\ run'.n = run.n /\ state'.n = state.n /\ state'.tree = state.tree
      BY <1>a, <1>11, <2>3, GotoDoes, SetPhaseDoes DEF CheckMerge
    <3>2. QED  BY <2>1, <3>1, BatchGoesOn DEF BeforeAgent, Accepted, Quiet
  <2>4. QED  BY <2>2, <2>3
<1>12. CASE WriteJournal
  <2>1. /\ ~Quiet /\ run.step = "journal" /\ run.n \in Numbers
        /\ results' = results /\ gates' = gates
        /\ state'.n = state.n /\ state'.tree = state.tree
        /\ \A m \in Numbers :
             /\ trees'[m].there = trees[m].there /\ trees'[m].result = trees[m].result
             /\ trees'[m].covers = trees[m].covers /\ trees'[m].support = trees[m].support
             /\ trees'[m] = trees[m] \/ m = run.n
        /\ \/ run'.step = "idle"
           \/ run'.step = "sync" /\ run'.n = run.n
    BY <1>12, JournalDoes DEF Quiet
  <2>2. MyTree.there /\ MyTree.result # "none"
    BY <2>1 DEF BatchInv, RunInv, Accepted, BeforeAgent
  <2>3. trees'[run.n].there /\ trees'[run.n].result # "none"
        /\ \A m \in Numbers : m # run.n => trees'[m] = trees[m]
    BY <2>1, <2>2 DEF MyTree
  <2>4. /\ TreeInv' /\ Last' = Last /\ (run.n <= Last => NoResultAbove')
    BY <2>1, <2>3, TreeChanged
  <2>5. CASE run'.step = "idle"
    <3>1. QuietInv'
      BY <2>1, <2>4, <2>5 DEF QuietInv, BatchInv, RunInv, StateTree, Quiet
    <3>2. QED  BY <2>4, <2>5, <3>1 DEF BatchInv, RunInv, Quiet
  <2>6. CASE run'.step = "sync" /\ run'.n = run.n
    <3>1. MyTree'.there /\ MyTree'.result # "none" /\ HasFile(run.n)' = HasFile(run.n)
      BY <2>1, <2>3, <2>6 DEF MyTree, HasFile
    <3>2. RunInv'
      BY <2>1, <2>4, <2>6, <3>1 DEF BatchInv, RunInv, BeforeAgent, Accepted, Quiet
    <3>3. QED  BY <2>4, <2>6, <3>2 DEF BatchInv, QuietInv, Quiet
  <2>7. QED  BY <2>1, <2>5, <2>6
<1>13. CASE Sync
  <2>1. /\ ~Quiet /\ ~Quiet' /\ run.step = "sync" /\ run'.step = "tick" /\ run'.n = run.n
        /\ results' \in {results, results \cup {run.n}} /\ trees' = trees
        /\ gates'.closeout = gates.closeout
        /\ state'.n = state.n /\ state'.tree = state.tree
    BY <1>a, <1>13, GotoDoes, SetPhaseDoes DEF Sync, Quiet, GateFiles
  <2>2. MyTree.there /\ MyTree.result # "none" /\ HasResult(run.n)
    BY <2>1 DEF BatchInv, RunInv, Accepted, BeforeAgent, MyTree, HasResult
  <2>3. /\ TreeInv' /\ Last' = Last /\ NoResultAbove' = NoResultAbove
    BY <1>a, <1>b, <2>1, <2>2, ResultAdded DEF BatchInv
  <2>4. MyTree' = MyTree /\ HasFile(run.n)' = HasFile(run.n)
    BY <2>1 DEF MyTree, HasFile
  <2>5. RunInv'
    BY <2>1, <2>2, <2>3, <2>4 DEF BatchInv, RunInv, BeforeAgent, Accepted
  <2>6. QED  BY <2>1, <2>3, <2>5 DEF BatchInv, QuietInv
<1>14. CASE Tick \/ MarkSupportDue \/ WriteSupportGate \/ Commit
  <2>1. /\ results' = results /\ trees' = trees /\ gates'.closeout = gates.closeout
        /\ state'.n = state.n /\ state'.tree = state.tree
    BY <1>a, <1>14, SetPhaseDoes DEF Tick, MarkSupportDue, WriteSupportGate, Commit, GateFiles
  <2>2. \/ run.step = "tick" /\ run'.step = "due" /\ run'.n = run.n
        \/ run.step = "due" /\ run'.step = "closeout" /\ run'.n = run.n
        \/ run.step = "support" /\ run'.step = "commit" /\ run'.n = run.n
        \/ run.step = "commit" /\ run'.step = "finish" /\ run'.n = run.n
    BY <1>a, <1>14, GotoDoes DEF Tick, MarkSupportDue, WriteSupportGate, Commit
  <2>3. QED  BY <2>1, <2>2, BatchGoesOn DEF BeforeAgent, Accepted, Quiet
<1>15. CASE Closeout
  <2>1. /\ ~Quiet /\ ~Quiet' /\ run.step = "closeout" /\ run'.n = run.n
        /\ run'.step \in {"commit", "support"}
        /\ results' = results /\ trees' = trees /\ state' = state
    BY <1>a, <1>15, GotoDoes DEF Closeout, Quiet
  <2>2. gates'.closeout = gates.closeout \cup {run.n}
    BY <1>a, <1>15 DEF Closeout, GateFiles
  <2>3. /\ Last' \in Nat /\ gates'.closeout = 1..Last'
    <3>1. TypeInv' /\ GateInv'
      BY TypeNext, GateNext
    <3>2. gates'.closeout \in SUBSET Numbers
      BY <3>1 DEF TypeInv, TypeOK
    <3>3. Last' \in 0..MaxBatch
      BY <3>2, HighestIs DEF Last
    <3>4. QED  BY <1>a, <3>1, <3>3 DEF GateInv
  <2>4. Last' \in {Last, Last + 1} /\ Last <= Last' /\ run.n <= Last' /\ (Last' # Last => Last' = run.n)
    <3>1. Last \in Nat /\ run.n \in 1..(Last + 1)
      BY <1>a, <1>b, <2>1 DEF GateInv
    <3>2. Last' \in Nat /\ 1..Last' = (1..Last) \cup {run.n}
      BY <2>2, <2>3 DEF GateInv
    <3> HIDE DEF Last
    <3>3. QED  BY <3>1, <3>2, CloseoutSteps
  <2>5. \A m : HasResult(m)' = HasResult(m)
    BY <2>1 DEF HasResult
  <2>6. TreeInv'
    <3>1. results' \subseteq 1..(Last' + 1)
      BY <1>a, <2>1, <2>4 DEF BatchInv, TreeInv
    <3>2. \A n \in gates'.closeout : n > 1 => n - 1 \in results'
      BY <2>1, <2>2 DEF BatchInv, TreeInv, RunInv
    <3>3. \A n \in Numbers : trees'[n].there => n <= Last' + 1 /\ (n > 1 => n - 1 \in results')
      <4> SUFFICES ASSUME NEW n \in Numbers, trees'[n].there
                   PROVE  n <= Last' + 1 /\ (n > 1 => n - 1 \in results')
        OBVIOUS
      <4>1. n <= Last + 1 /\ (n > 1 => n - 1 \in results) /\ n \in Nat
        BY <2>1, NumbersAreBounded DEF BatchInv, TreeInv
      <4>2. Last' \in Nat /\ Last \in Nat /\ Last <= Last'
        BY <1>a, <2>3, <2>4
      <4>a. \A a, b, c \in Nat : a <= b + 1 /\ b <= c => a <= c + 1
        OBVIOUS
      <4>3. n <= Last' + 1
        BY <4>1, <4>2, <4>a, Zenon
      <4>4. QED  BY <2>1, <4>1, <4>3
    <3>4. \A n \in results' : n > Last' \/ trees'[n].there => HasResult(n)'
      <4>1. results \subseteq Nat
        BY NumbersAreBounded DEF TypeInv, TypeOK
      <4>2. QED  BY <1>a, <2>1, <2>3, <2>4, <2>5, <4>1 DEF BatchInv, TreeInv
    <3>5. QED  BY <2>1, <3>1, <3>2, <3>3, <3>4 DEF BatchInv, TreeInv
  <2>7. NoResultAbove'
    <3>1. ASSUME NEW m \in Numbers, m > Last', HasResult(m)  PROVE FALSE
      <4>1. m <= Last + 1 /\ m \in Nat
        BY <3>1, NumbersAreBounded DEF BatchInv, TreeInv, HasResult
      <4>2. CASE Last' = Last
        BY <2>1, <2>4, <3>1, <4>2 DEF BatchInv, RunInv, NoResultAbove
      <4>3. CASE Last' = Last + 1
        BY <1>a, <3>1, <4>1, <4>3
      <4>4. QED  BY <2>4, <4>2, <4>3
    <3>2. QED  BY <2>5, <3>1 DEF NoResultAbove
  <2>8. MyTree' = MyTree /\ HasFile(run.n)' = HasFile(run.n)
    BY <2>1 DEF MyTree, HasFile
  <2>9. RunInv'
    BY <2>1, <2>7, <2>8 DEF BatchInv, RunInv, BeforeAgent, Accepted
  <2>10. QED  BY <2>1, <2>6, <2>9 DEF BatchInv, QuietInv
<1>16. CASE Finish
  <2>1. /\ ~Quiet /\ Quiet' /\ run.step = "finish" /\ results' = results /\ gates' = gates
        /\ trees' = [n \in Numbers |-> IF n \in Pruned THEN NoTree ELSE trees[n]]
        /\ state'.n = state.n /\ state'.tree = state.tree
    BY <1>a, <1>16 DEF Finish, IdleRun, Quiet, RuntimeState
  <2>2. Last' = Last /\ run.n <= Last /\ \A n \in Pruned : n <= Last
    BY <1>a, <2>1 DEF Last, GateInv, Closing, Pruned, Closed
  <2>3. \A n \in Numbers : /\ trees'[n] = IF n \in Pruned THEN NoTree ELSE trees[n]
                           /\ n > Last => trees'[n] = trees[n]
    BY <1>a, <2>1, <2>2, NumbersAreBounded
  <2>4. ~NoTree.there /\ NoTree.covers = {} /\ NoTree.support = "none"
    BY DEF NoTree
  <2>5. TreeInv'
    <3>1. results' \subseteq 1..(Last' + 1) /\ \A n \in gates'.closeout : n > 1 => n - 1 \in results'
      BY <2>1, <2>2 DEF BatchInv, TreeInv
    <3>2. \A n \in Numbers : trees'[n].there => trees'[n] = trees[n]
      BY <2>3, <2>4
    <3>3. \A n \in Numbers : trees'[n].there => n <= Last' + 1 /\ (n > 1 => n - 1 \in results')
      BY <2>1, <2>2, <3>2 DEF BatchInv, TreeInv
    <3>4. \A n \in Numbers : ~trees'[n].there => trees'[n] = NoTree
      BY <2>3 DEF BatchInv, TreeInv
    <3>5. \A n \in Numbers : trees'[n].result = "none" =>
            trees'[n].covers = {} /\ trees'[n].support = "none"
      BY <2>3, <2>4 DEF BatchInv, TreeInv
    <3>6. \A n \in results' : n > Last' \/ trees'[n].there => HasResult(n)'
      <4>1. results \subseteq Numbers
        BY DEF TypeInv, TypeOK
      <4>2. QED  BY <2>1, <2>2, <2>3, <3>2, <4>1 DEF BatchInv, TreeInv, HasResult
    <3>7. QED  BY <3>1, <3>3, <3>4, <3>5, <3>6 DEF TreeInv
  <2>6. NoResultAbove'
    BY <2>1, <2>2, <2>3 DEF BatchInv, RunInv, NoResultAbove, HasResult
  <2>7. QED  BY <2>1, <2>5, <2>6 DEF BatchInv, RunInv, QuietInv
<1>17. CASE RefuseToContinue \/ RejectContinued \/ ContinueCommitted
  <2>1. Quiet /\ gates' = gates /\ results' = results /\ trees' = trees
    BY <1>a, <1>17, ContinuationGatesAre
       DEF RefuseToContinue, RejectContinued, ContinueCommitted, Quiet
  <2>2. CASE Fail
    BY <1>a, <2>1, <2>2, FailDoes, BatchRests DEF Quiet
  <2>3. CASE ContinueCommitted
    <3>1. Quiet' /\ state'.n = state.n /\ state'.tree = state.tree
      BY <1>a, <2>3 DEF ContinueCommitted, IdleRun, Quiet, RuntimeState
    <3>2. QED  BY <2>1, <3>1, BatchRests
  <2>4. QED  BY <1>17, <2>2, <2>3 DEF RefuseToContinue, RejectContinued
<1>18. CASE Clean
  <2>1. PICK n : /\ n = Min(Incomplete) /\ Incomplete # {}
                 /\ trees' = [trees EXCEPT ![n] = NoTree]
                 /\ results' = results \ {n}
                 /\ gates' = [gates EXCEPT !.e2e = @ \ {n}, !.journal = @ \ {n},
                                           !.closeout = @ \ {n}]
                 /\ state' = NoState /\ run' = run /\ run.step = "idle"
    BY <1>18 DEF Clean
  <2>2. n \in results /\ n > Last /\ n \in Numbers /\ n = Last + 1
    BY <1>a, <2>1, IncompleteHasMin DEF BatchInv, TreeInv, TypeOK
  <2>3. gates'.closeout = gates.closeout
    BY <1>a, <2>1, <2>2 DEF GateFiles, GateInv
  <2>4. Last' = Last
    BY <2>3 DEF Last
  <2>5. \A m \in Numbers : trees'[m] = IF m = n THEN NoTree ELSE trees[m]
    BY <2>1, <2>2 DEF TypeInv, TypeOK
  <2>6. ~NoTree.there /\ NoTree.covers = {} /\ NoTree.support = "none"
    BY DEF NoTree
  <2>7. TreeInv'
    <3>1. results' \subseteq 1..(Last' + 1)
      BY <2>1, <2>4 DEF BatchInv, TreeInv
    <3>2. \A m \in gates'.closeout : m > 1 => m - 1 \in results'
      BY <1>a, <2>1, <2>2, <2>3 DEF BatchInv, TreeInv, GateInv
    <3>3. \A m \in Numbers : trees'[m].there => m <= Last' + 1 /\ (m > 1 => m - 1 \in results')
      BY <1>a, <2>1, <2>2, <2>4, <2>5, <2>6, NumbersAreBounded DEF BatchInv, TreeInv
    <3>4. \A m \in Numbers : ~trees'[m].there => trees'[m] = NoTree
      BY <2>5, <2>6 DEF BatchInv, TreeInv
    <3>5. \A m \in Numbers : trees'[m].result = "none" =>
            trees'[m].covers = {} /\ trees'[m].support = "none"
      BY <2>5, <2>6 DEF BatchInv, TreeInv
    <3>6. \A m \in results' : m > Last' \/ trees'[m].there => HasResult(m)'
      <4>1. results \subseteq Numbers
        BY DEF TypeInv, TypeOK
      <4>2. QED  BY <2>1, <2>4, <2>5, <4>1 DEF BatchInv, TreeInv, HasResult
    <3>7. QED  BY <3>1, <3>2, <3>3, <3>4, <3>5, <3>6 DEF TreeInv
  <2>8. ~state'.tree /\ Quiet'
    BY <2>1 DEF NoState, Quiet
  <2>9. QED  BY <2>7, <2>8 DEF BatchInv, RunInv, QuietInv, StateTree
<1>19. CASE Break
  <2>1. /\ Quiet' /\ results' = results /\ trees' = trees /\ gates' = gates
        /\ state'.n = state.n /\ state'.tree = state.tree
    BY <1>a, <1>19 DEF Break, IdleRun, disk, Quiet, RuntimeState
  <2>2. /\ TreeInv' /\ Last' = Last /\ NoResultAbove' = NoResultAbove
    BY <2>1, TreeKept DEF BatchInv
  <2>3. QED  BY <2>1, <2>2, BatchRests, BatchStops DEF BatchInv
<1>20. CASE UNCHANGED vars
  <2>1. /\ results' = results /\ trees' = trees /\ gates' = gates /\ state' = state /\ run' = run
    BY <1>20 DEF vars
  <2>2. TreeInv' /\ RunInv' /\ QuietInv'
    BY <2>1 DEF BatchInv, TreeInv, RunInv, QuietInv, Quiet, StateTree, NoResultAbove, Last,
                HasResult, HasFile, MyTree, Bugfixed, NextBatchNumber
  <2>3. QED  BY <2>2 DEF BatchInv
<1>21. QED
  BY <1>1, <1>2, <1>3, <1>4, <1>5, <1>6, <1>7, <1>8, <1>9, <1>10, <1>11, <1>12, <1>13, <1>14,
     <1>15, <1>16, <1>17, <1>18, <1>19, <1>20
     DEF Next, Work, Operator, Continue

LEMMA BatchInit == Init => BatchInv
<1> SUFFICES ASSUME Init  PROVE BatchInv
  OBVIOUS
<1>1. /\ gates.closeout = {} /\ results = {} /\ run.step = "idle" /\ ~state.tree
      /\ trees = [n \in Numbers |-> NoTree]
  BY DEF Init, IdleRun, NoState
<1>2. \A n \in Numbers : trees[n] = NoTree
  BY <1>1
<1>3. TreeInv
  BY <1>1, <1>2 DEF TreeInv, NoTree
<1>4. QED  BY <1>1, <1>3 DEF BatchInv, RunInv, QuietInv, Quiet, StateTree

(* The invariants of the disk and of the run so far.                       *)
LifeInv == TypeInv /\ GateInv /\ BatchInv

LEMMA LifeAlways == Spec => []LifeInv
<1>1. Init => LifeInv
  BY InitType, GateInit, BatchInit DEF LifeInv, TypeInv, Numbered, Init, IdleRun
<1>2. LifeInv /\ [Next]_vars => LifeInv'
  BY TypeNext, GateNext, BatchNext DEF LifeInv
<1>3. QED  BY <1>1, <1>2, PTL DEF Spec

(* A batch that keeps new scopes from starting is the one that continueYolo *)
(* takes up, and its work tree holds a result, whatever refused starts and  *)
(* dry runs wrote to the state file and wherever the batch was interrupted. *)
THEOREM InterruptedResumes == Spec => []InterruptedIsResumable
<1>1. LifeInv => InterruptedIsResumable
  <2> SUFFICES ASSUME LifeInv, Incomplete # {}, run.step = "idle"
               PROVE  Incomplete = {ContinuedBatch} /\ HasResult(ContinuedBatch)
    BY DEF InterruptedIsResumable
  <2>a. TypeOK /\ GateInv /\ BatchInv /\ Quiet /\ Last \in Nat /\ results \subseteq Numbers
    BY LastType DEF LifeInv, TypeInv, TypeOK, Quiet
  <2>1. PICK n \in results : n > Last
    BY <2>a, IncompleteIs DEF Above
  <2>2. n = Last + 1 /\ n \in Numbers /\ HasResult(n) /\ Incomplete = {n}
    <3>1. \A m \in results : m > Last => m = Last + 1
      BY <2>a, NumbersAreBounded DEF BatchInv, TreeInv
    <3>2. n = Last + 1 /\ n \in Numbers /\ HasResult(n)
      BY <2>a, <2>1, <3>1 DEF BatchInv, TreeInv
    <3>3. Incomplete = {n}
      BY <2>a, <2>1, <3>1, <3>2, IncompleteIs DEF Above
    <3>4. QED  BY <3>2, <3>3
  <2>3. \A m \in Numbers : HasResult(m) => m <= n
    BY <2>a, <2>2, NumbersAreBounded DEF BatchInv, TreeInv, HasResult
  <2>4. CASE StateTree
    <3>1. ContinuedBatch = state.n /\ state.n \in Numbers /\ trees[state.n].there
      BY <2>a, <2>4, LifecycleAssumption DEF ContinuedBatch, StateTree, TypeOK, RuntimeState, Numbers
    <3>2. ~(state.n <= Last)
      BY <2>a, <2>1, <2>2, <2>4 DEF BatchInv, QuietInv, NoResultAbove
    <3>3. state.n <= Last + 1
      BY <2>a, <3>1 DEF BatchInv, TreeInv
    <3>4. state.n \in Nat
      BY <3>1, NumbersAreBounded
    <3>5. state.n = n
      BY <2>a, <2>2, <3>2, <3>3, <3>4
    <3>6. QED  BY <2>2, <3>1, <3>5
  <2>5. CASE ~StateTree
    <3> DEFINE S == {m \in Numbers : HasResult(m)}
    <3>1. ContinuedBatch = Highest(S)
      BY <2>5 DEF ContinuedBatch, LatestResumable
    <3>2. S \in SUBSET Numbers /\ n \in S /\ \A m \in S : m <= n
      BY <2>2, <2>3
    <3> HIDE DEF S
    <3>3. Highest(S) \in S /\ n <= Highest(S)
      BY <3>2, HighestIs
    <3>4. Highest(S) = n
      <4>1. Highest(S) <= n /\ Highest(S) \in Numbers /\ n \in Numbers
        BY <3>2, <3>3
      <4>2. Highest(S) \in Nat /\ n \in Nat
        BY <4>1, NumbersAreBounded
      <4>3. QED  BY <3>3, <4>1, <4>2
    <3>5. QED  BY <2>2, <3>1, <3>4
  <2>6. QED  BY <2>4, <2>5
<1>2. QED  BY <1>1, LifeAlways, PTL

-----------------------------------------------------------------------------
(* The log.                                                                *)

OnceInv ==
  /\ \A i \in DOMAIN commits : commits[i].recorded => commits[i].n \in results
  /\ ~Quiet /\ run.step # "finish" =>
       \A i \in DOMAIN commits : commits[i].n = run.n => ~commits[i].recorded
  /\ \A i, j \in DOMAIN commits :
       i < j /\ commits[i].n = commits[j].n => ~commits[i].recorded

LEMMA OnceKept ==
  ASSUME OnceInv, commits' = commits, results \subseteq results',
         Quiet' \/ (~Quiet /\ run.step # "finish" /\ run'.n = run.n)
  PROVE  OnceInv'
BY DEF OnceInv

LEMMA CommitsType ==
  ASSUME TypeOK
  PROVE  \A i \in DOMAIN commits : /\ commits[i] \in [n : Numbers, recorded : BOOLEAN]
                                   /\ commits[i].n \in Committed /\ i \in Nat
<1>1. commits \in Seq([n : Numbers, recorded : BOOLEAN])
  BY DEF TypeOK
<1>2. \A i \in DOMAIN commits : commits[i] \in [n : Numbers, recorded : BOOLEAN] /\ i \in Nat
  <2> DEFINE S == [n : Numbers, recorded : BOOLEAN]
  <2>1. commits \in Seq(S)
    BY <1>1
  <2> SUFFICES ASSUME NEW i \in DOMAIN commits  PROVE commits[i] \in S /\ i \in Nat
    OBVIOUS
  <2> HIDE DEF S
  <2>2. QED  BY <2>1
<1>3. \A i \in DOMAIN commits : commits[i].n \in Committed
  BY DEF Committed
<1>4. QED  BY <1>2, <1>3

(* What most steps do to the run: take it to another step, or end it.      *)
LEMMA RunMoves ==
  ASSUME TypeInv, GateInv,
         \/ CreateWorktree \/ RunAgent \/ CopyResult \/ Validate \/ CheckMerge \/ WriteJournal
         \/ Sync \/ Tick \/ MarkSupportDue \/ Closeout \/ WriteSupportGate \/ Commit
  PROVE  /\ ~Quiet /\ run.step # "finish"
         /\ \/ run' = IdleRun /\ Quiet'
            \/ /\ ~Quiet' /\ run'.n = run.n /\ run'.items = run.items
               /\ run'.support = run.support /\ run'.origin = run.origin
         /\ results \subseteq results'
<1>a. TypeOK
  BY DEF TypeInv
<1>1. CASE CreateWorktree \/ RunAgent \/ CopyResult \/ Sync \/ Tick \/ MarkSupportDue
  <2>1. PICK step : Goto(step) /\ step \in {"implement", "copy", "validate", "tick", "due", "closeout"}
    BY <1>1 DEF CreateWorktree, RunAgent, CopyResult, Sync, Tick, MarkSupportDue
  <2>2. run.step \in {"worktree", "implement", "copy", "sync", "tick", "due"}
    BY <1>1 DEF CreateWorktree, RunAgent, CopyResult, Sync, Tick, MarkSupportDue
  <2>3. results \subseteq results'
    BY <1>1 DEF CreateWorktree, RunAgent, CopyResult, Sync, Tick, MarkSupportDue, CopiedResults
  <2>4. QED  BY <1>a, <2>1, <2>2, <2>3, GotoDoes DEF Quiet
<1>2. CASE Validate \/ WriteJournal
  BY <1>2, ValidateDoes, JournalDoes DEF Quiet
<1>3. CASE CheckMerge
  <2>1. run.step = "merge" /\ results' = results
    BY <1>3 DEF CheckMerge, disk
  <2>2. CASE Fail
    BY <1>a, <2>1, <2>2, FailDoes DEF Quiet
  <2>3. CASE Goto("journal")
    BY <1>a, <2>1, <2>3, GotoDoes DEF Quiet
  <2>4. QED  BY <1>3, <2>2, <2>3 DEF CheckMerge
<1>4. CASE Closeout \/ WriteSupportGate \/ Commit
  BY <1>a, <1>4, GotoDoes DEF Closeout, WriteSupportGate, Commit, Quiet
<1>5. QED  BY <1>1, <1>2, <1>3, <1>4

(* Steps between batches, and a process's end.                             *)
LEMMA RunRests ==
  ASSUME TypeInv, GateInv,
         \/ \E scope \in Scopes : Launch(scope)
         \/ RefuseToStart \/ Start \/ EndOfScope \/ Finish
         \/ RefuseToContinue \/ RejectContinued \/ ContinueCommitted \/ Break
  PROVE  /\ Quiet' /\ (Start => Quiet)
         /\ run'.origin = "plan" \/ (Start /\ run'.origin = run.origin)
         /\ run'.support = "none" \/ (Start /\ run'.support = run.support)
         /\ results' = results
         /\ UNCHANGED <<ticked, due, commits, gates>>
<1>a. TypeOK
  BY DEF TypeInv
<1>1. /\ results' = results
      /\ UNCHANGED <<ticked, due, commits, gates>>
  BY <1>a, RepairsNothing, ContinuationGatesAre
     DEF Launch, RefuseToStart, Start, EndOfScope, Finish, RefuseToContinue, RejectContinued,
         ContinueCommitted, Break, disk
<1>2. CASE \E scope \in Scopes : Launch(scope)
  BY <1>1, <1>2 DEF Launch, IdleRun, Quiet
<1>3. CASE RefuseToStart \/ EndOfScope \/ Finish \/ Break
  <2>1. CASE run' = IdleRun /\ ~Start
    BY <1>1, <2>1 DEF IdleRun, Quiet
  <2>2. ~Start
    BY <1>3 DEF RefuseToStart, EndOfScope, Finish, Break, Start, Goto, IdleRun
  <2>3. CASE Finish
    BY <1>1, <2>2, <2>3 DEF Finish, IdleRun, Quiet
  <2>4. QED  BY <1>3, <2>1, <2>2, <2>3 DEF RefuseToStart, EndOfScope, Break
<1>4. CASE Start
  BY <1>a, <1>1, <1>4, GotoDoes DEF Start, Quiet
<1>5. CASE RefuseToContinue \/ RejectContinued
  BY <1>a, <1>1, <1>5, FailDoes DEF RefuseToContinue, RejectContinued, IdleRun, Quiet
<1>6. CASE ContinueCommitted
  BY <1>1, <1>6 DEF ContinueCommitted, IdleRun, Quiet
<1>7. QED  BY <1>2, <1>3, <1>4, <1>5, <1>6

LEMMA OnceNext ==
  ASSUME LifeInv, OnceInv, [Next]_vars
  PROVE  OnceInv'
<1>a. /\ TypeInv /\ TypeOK /\ GateInv /\ BatchInv /\ Last \in Nat
  BY LastType DEF LifeInv, TypeInv
<1>1. CASE \/ \E scope \in Scopes : Launch(scope)
           \/ RefuseToStart \/ Start \/ EndOfScope \/ Finish
           \/ RefuseToContinue \/ RejectContinued \/ ContinueCommitted \/ Break
  BY <1>a, <1>1, RunRests, OnceKept
<1>2. CASE \/ CreateWorktree \/ RunAgent \/ CopyResult \/ Validate \/ CheckMerge \/ WriteJournal
           \/ Sync \/ Tick \/ MarkSupportDue \/ Closeout \/ WriteSupportGate
  <2>1. commits' = commits
    BY <1>2 DEF CreateWorktree, RunAgent, CopyResult, Validate, CheckMerge, WriteJournal,
                Sync, Tick, MarkSupportDue, Closeout, WriteSupportGate, disk
  <2>2. QED  BY <1>a, <1>2, <2>1, RunMoves, OnceKept
<1>3. ASSUME NEW scope \in Scopes, DryRun(scope)  PROVE OnceInv'
  BY <1>3 DEF DryRun, OnceInv, Quiet
<1>4. CASE Select
  <2> DEFINE n == NextBatchNumber
  <2>1. /\ commits' = commits /\ results' = results
        /\ run'.step = "idle" \/ run'.n = n
    BY <1>a, <1>4, SelectDoes
  <2>2. n \notin results
    BY <1>a, NextIs
  <2>3. QED  BY <2>1, <2>2 DEF OnceInv, Quiet
<1>5. CASE RestartAgent \/ Resume
  <2> DEFINE n == ContinuedBatch
  <2>1. /\ commits' = commits /\ run'.n = n /\ n \notin Committed
    BY <1>a, <1>5, RestartDoes, ResumeDoes DEF MayContinue
  <2>2. results \subseteq results'
    BY <1>a, <1>5, RestartDoes, ResumeDoes DEF CopiedResults
  <2>3. QED  BY <1>a, <2>1, <2>2, CommitsType DEF OnceInv
<1>6. CASE Commit
  <2> DEFINE c == [n |-> run.n, recorded |-> run.n \in results]
             k == Len(commits) + 1
  <2>1. /\ commits' = Append(commits, c) /\ results' = results /\ run.step = "commit"
        /\ run'.step = "finish"
    BY <1>a, <1>6, GotoDoes DEF Commit
  <2>2. c.n = run.n /\ (c.recorded => run.n \in results)
    OBVIOUS
  <2>3. commits \in Seq([n : Numbers, recorded : BOOLEAN])
    BY <1>a DEF TypeOK
  <2> HIDE DEF c
  <2>4. /\ DOMAIN commits' = DOMAIN commits \cup {k}
        /\ \A i \in DOMAIN commits : commits'[i] = commits[i] /\ i < k /\ i \in Nat
        /\ commits'[k] = c /\ k \in Nat
    BY <2>1, <2>3
  <2>5. \A i \in DOMAIN commits : commits[i].n = run.n => ~commits[i].recorded
    BY <2>1 DEF OnceInv, Quiet
  <2> HIDE DEF k
  <2>6. \A i \in DOMAIN commits' : commits'[i].recorded => commits'[i].n \in results'
    BY <2>1, <2>2, <2>4 DEF OnceInv
  <2>7. ASSUME NEW i \in DOMAIN commits', NEW j \in DOMAIN commits',
               i < j, commits'[i].n = commits'[j].n
        PROVE  ~commits'[i].recorded
    <3>1. i \in DOMAIN commits
      BY <2>4, <2>7
    <3>2. CASE j \in DOMAIN commits
      BY <2>4, <2>7, <3>1, <3>2 DEF OnceInv
    <3>3. CASE j = k
      BY <2>2, <2>4, <2>5, <2>7, <3>1, <3>3
    <3>4. QED  BY <2>4, <3>2, <3>3
  <2>8. QED  BY <2>1, <2>6, <2>7 DEF OnceInv
<1>7. CASE Clean
  <2>1. PICK n : /\ n = Min(Incomplete) /\ Incomplete # {}
                 /\ results' = results \ {n} /\ commits' = commits /\ run' = run /\ run.step = "idle"
    BY <1>7 DEF Clean
  <2>2. n > Last
    BY <1>a, <2>1, IncompleteHasMin
  <2>3. \A i \in DOMAIN commits : commits[i].n # n
    BY <1>a, <2>2, CommitsType DEF GateInv
  <2>4. QED  BY <2>1, <2>3 DEF OnceInv, Quiet
<1>8. CASE UNCHANGED vars
  BY <1>8 DEF vars, OnceInv, Quiet
<1>9. QED
  BY <1>1, <1>2, <1>3, <1>4, <1>5, <1>6, <1>7, <1>8 DEF Next, Work, Operator, Continue

(* A batch whose result is in the project when it is committed is not      *)
(* committed again.                                                        *)
RecordedCommittedOnce ==
  \A i, j \in DOMAIN commits :
    i < j /\ commits[i].n = commits[j].n => ~commits[i].recorded

LEMMA OnceAlways == Spec => []OnceInv
<1>1. Init => OnceInv
  BY DEF Init, OnceInv, Quiet, IdleRun
<1>2. LifeInv /\ OnceInv /\ [Next]_vars => OnceInv'
  BY OnceNext
<1>3. QED  BY <1>1, <1>2, LifeAlways, PTL DEF Spec

(* A batch is committed only once if its result is in the project, however *)
(* often the runtime crashed, was continued or cleaned a batch.            *)
THEOREM RecordedOnce == Spec => []RecordedCommittedOnce
<1>1. OnceInv => RecordedCommittedOnce
  BY DEF OnceInv, RecordedCommittedOnce
<1>2. QED  BY <1>1, OnceAlways, PTL

-----------------------------------------------------------------------------
(* What is ticked for a batch that was taken up.                           *)

OriginInv ==
  /\ Quiet => run.origin = "plan"
  /\ run.step \in BeforeAgent \cup {"copy"} => run.origin = "plan"
  /\ ~Quiet /\ run.origin # "plan" => run.items \subseteq MyTree.covers

LEMMA OriginKept ==
  ASSUME TypeInv, GateInv, OriginInv, ~Quiet' => MyTree.covers \subseteq MyTree'.covers,
         run.step \notin BeforeAgent \cup {"copy"},
         \/ Validate \/ CheckMerge \/ WriteJournal
         \/ Sync \/ Tick \/ MarkSupportDue \/ Closeout \/ WriteSupportGate \/ Commit
  PROVE  OriginInv'
<1>1. /\ ~Quiet
      /\ \/ run' = IdleRun
         \/ ~Quiet' /\ run'.items = run.items /\ run'.origin = run.origin
  BY RunMoves
<1>2. IdleRun.origin = "plan" /\ IdleRun.step = "idle"
  BY DEF IdleRun
<1>3. run'.step \in BeforeAgent \cup {"copy"} => run' = IdleRun
  <2>1. CASE Validate \/ WriteJournal
    BY <2>1, ValidateDoes, JournalDoes DEF BeforeAgent
  <2>2. CASE CheckMerge
    BY <2>2, GotoDoes DEF CheckMerge, Fail, BeforeAgent, TypeInv
  <2>3. CASE Sync \/ Tick \/ MarkSupportDue \/ Closeout \/ WriteSupportGate \/ Commit
    BY <2>3, GotoDoes DEF Sync, Tick, MarkSupportDue, Closeout, WriteSupportGate, Commit,
                          BeforeAgent, TypeInv
  <2>4. QED  BY <2>1, <2>2, <2>3
<1>4. CASE run' = IdleRun
  BY <1>2, <1>4 DEF OriginInv, Quiet
<1>5. CASE ~Quiet' /\ run'.items = run.items /\ run'.origin = run.origin /\ run' # IdleRun
  BY <1>1, <1>3, <1>5 DEF OriginInv
<1>6. QED  BY <1>1, <1>4, <1>5

LEMMA OriginNext ==
  ASSUME LifeInv, OriginInv, [Next]_vars
  PROVE  OriginInv'
<1>a. /\ TypeInv /\ TypeOK /\ GateInv /\ BatchInv
  BY DEF LifeInv, TypeInv
<1>1. CASE \/ \E scope \in Scopes : Launch(scope)
           \/ RefuseToStart \/ Start \/ EndOfScope \/ Finish
           \/ RefuseToContinue \/ RejectContinued \/ ContinueCommitted \/ Break
  BY <1>a, <1>1, RunRests DEF OriginInv, Quiet, BeforeAgent
<1>2. CASE CreateWorktree \/ RunAgent \/ CopyResult
  <2>1. run.origin = "plan"
    BY <1>2 DEF OriginInv, BeforeAgent, CreateWorktree, RunAgent, CopyResult
  <2>2. run' = IdleRun \/ run'.origin = run.origin
    BY <1>a, <1>2, RunMoves
  <2>3. QED  BY <2>1, <2>2 DEF OriginInv, IdleRun
<1>3. CASE Validate
  <2>1. /\ run.step = "validate" /\ run.n \in Numbers
        /\ trees' = trees \/ RunBugfix
        /\ run' = IdleRun \/ run'.n = run.n
    BY <1>a, <1>3, ValidateDoes
  <2>2. run'.n = run.n => MyTree.covers \subseteq MyTree'.covers
    BY <1>a, <2>1, BugfixDoes DEF MyTree
  <2>3. QED  BY <1>a, <1>3, <2>1, <2>2, OriginKept DEF BeforeAgent, IdleRun, Quiet
<1>4. CASE WriteJournal
  <2>1. /\ run.step = "journal" /\ run.n \in Numbers
        /\ \A m \in Numbers : trees'[m].covers = trees[m].covers
        /\ run' = IdleRun \/ run'.n = run.n
    BY <1>a, <1>4, JournalDoes
  <2>2. run'.n = run.n => MyTree.covers \subseteq MyTree'.covers
    BY <2>1 DEF MyTree
  <2>3. QED  BY <1>a, <1>4, <2>1, <2>2, OriginKept DEF BeforeAgent, IdleRun, Quiet
<1>5. CASE \/ CheckMerge \/ Sync \/ Tick \/ MarkSupportDue \/ Closeout \/ WriteSupportGate \/ Commit
  <2>1. trees' = trees /\ run.step \notin BeforeAgent \cup {"copy"}
    BY <1>5 DEF CheckMerge, Sync, Tick, MarkSupportDue, Closeout, WriteSupportGate, Commit,
                disk, BeforeAgent
  <2>2. run' = IdleRun \/ run'.n = run.n
    BY <1>a, <1>5, RunMoves
  <2>3. run'.n = run.n => MyTree' = MyTree
    BY <2>1 DEF MyTree
  <2>4. QED  BY <1>a, <1>5, <2>1, <2>2, <2>3, OriginKept DEF IdleRun, Quiet
<1>6. ASSUME NEW scope \in Scopes, DryRun(scope)  PROVE OriginInv'
  BY <1>6 DEF DryRun, OriginInv, Quiet, MyTree
<1>7. CASE Select
  <2>1. /\ run.step = "select"
        /\ run' = IdleRun \/ run'.origin = run.origin
    BY <1>a, <1>7, SelectDoes
  <2>2. QED  BY <2>1 DEF OriginInv, Quiet, IdleRun
<1>8. CASE RestartAgent
  <2>1. run'.origin = "plan"
    BY <1>a, <1>8, RestartDoes
  <2>2. QED  BY <2>1 DEF OriginInv
<1>9. CASE Resume
  <2> DEFINE n == ContinuedBatch
  <2>1. /\ run'.step = "validate" /\ run'.n = n /\ trees' = trees
        /\ \/ MatchesResult(n) /\ run'.items = ContinuedItems
           \/ run'.items = Reported(n)
    BY <1>a, <1>9, ResumeDoes
  <2>2. run'.items \subseteq Reported(n)
    BY <2>1 DEF MatchesResult, ContinuedItems
  <2>3. MyTree'.covers = Reported(n)
    BY <2>1 DEF MyTree, Reported
  <2>4. QED  BY <2>1, <2>2, <2>3 DEF OriginInv, Quiet, BeforeAgent
<1>10. CASE Clean
  BY <1>10 DEF Clean, OriginInv, Quiet
<1>11. CASE UNCHANGED vars
  BY <1>11 DEF vars, OriginInv, Quiet, MyTree
<1>12. QED
  BY <1>1, <1>2, <1>3, <1>4, <1>5, <1>6, <1>7, <1>8, <1>9, <1>10, <1>11
     DEF Next, Work, Operator, Continue

(* What a step may never do: tick, for a batch that was taken up from its  *)
(* result, an item that its results do not report.                         *)
THEOREM ReportedTicks == Spec => ContinuedTicksAreReported
<1>1. Init => OriginInv
  BY DEF Init, OriginInv, Quiet, IdleRun
<1>2. LifeInv /\ OriginInv /\ [Next]_vars => OriginInv'
  BY OriginNext
<1>3. ASSUME TypeInv, GateInv, OriginInv, [Next]_vars, run.origin # "plan", ticked' # ticked
      PROVE  ticked' \ ticked \subseteq Reported(run.n)
  <2>1. CASE Tick
    BY <1>3, <2>1 DEF Tick, OriginInv, Quiet, MyTree, Reported
  <2>2. CASE ~Tick
    <3>a. TypeOK
      BY <1>3 DEF TypeInv
    <3>1. ~(\/ \E scope \in Scopes : Launch(scope)
            \/ RefuseToStart \/ Start \/ EndOfScope \/ Finish
            \/ RefuseToContinue \/ RejectContinued \/ ContinueCommitted \/ Break)
      BY <1>3, RunRests
    <3>2. ~(\/ CreateWorktree \/ RunAgent \/ CopyResult \/ Validate \/ CheckMerge \/ WriteJournal
            \/ Sync \/ MarkSupportDue \/ Closeout \/ WriteSupportGate \/ Commit)
      BY <1>3 DEF CreateWorktree, RunAgent, CopyResult, Validate, CheckMerge, WriteJournal,
                  Sync, MarkSupportDue, Closeout, WriteSupportGate, Commit, disk
    <3>3. ~(Select \/ RestartAgent \/ Resume \/ Clean \/ UNCHANGED vars)
      BY <1>3 DEF Select, RestartAgent, Resume, Clean, vars
    <3>4. ~(\E scope \in Scopes : DryRun(scope))
      BY <1>3 DEF DryRun
    <3>5. QED  BY <1>3, <2>2, <3>1, <3>2, <3>3, <3>4 DEF Next, Work, Operator, Continue
  <2>3. QED  BY <2>1, <2>2
<1>4. TypeInv /\ GateInv /\ OriginInv /\ [Next]_vars
        => [run.origin # "plan" /\ ticked' # ticked
              => ticked' \ ticked \subseteq Reported(run.n)]_vars
  BY <1>3
<1>5. LifeInv => TypeInv /\ GateInv
  BY DEF LifeInv
<1>6. QED
  BY <1>1, <1>2, <1>4, <1>5, LifeAlways, PTL DEF Spec, ContinuedTicksAreReported

-----------------------------------------------------------------------------
(* What the commits stand for.                                             *)

(* Support is planned only when every item is ticked.                      *)
SupportInv ==
  Unchecked # {} => /\ ~due /\ state.support = "none" /\ run.support = "none"
                    /\ \A n \in Numbers : trees[n].support = "none"

LEMMA PlannedIs ==
  ASSUME TypeOK, NEW scope
  PROVE  /\ PlannedSupport(scope) = "none" \/ PlannedSupport(scope) \notin gates.support
         /\ ~due /\ Unchecked # {} => PlannedSupport(scope) = "none"
         /\ PlannedItems(scope) \in SUBSET Unchecked /\ ContinuedItems \in SUBSET Unchecked
         /\ ContinuedSupport # "none" => ContinuedItems = {}
BY DEF PlannedSupport, NextSupport, PlannedItems, ContinuedItems, FirstUnchecked

LEMMA SupportNext ==
  ASSUME LifeInv, SupportInv, [Next]_vars
  PROVE  SupportInv'
<1>a. /\ TypeInv /\ TypeOK /\ GateInv /\ trees \in [Numbers -> Tree] /\ run \in Run
      /\ state \in RuntimeState
  BY DEF LifeInv, TypeInv, TypeOK
<1> SUFFICES ASSUME Unchecked' # {}, Unchecked # {} => ~due /\ state.support = "none" /\ run.support = "none"
                    /\ \A n \in Numbers : trees[n].support = "none"
             PROVE  /\ ~due' /\ state'.support = "none" /\ run'.support = "none"
                    /\ \A n \in Numbers : trees'[n].support = "none"
  BY DEF SupportInv
<1>b. ASSUME ticked' = ticked
      PROVE  /\ Unchecked' = Unchecked /\ ~due /\ state.support = "none" /\ run.support = "none"
             /\ \A n \in Numbers : trees[n].support = "none"
             /\ \A scope : PlannedSupport(scope) = "none"
             /\ ContinuedSupport = "none"
  <2>1. Unchecked' = Unchecked /\ Unchecked # {}
    BY <1>b DEF Unchecked
  <2>2. QED  BY <1>a, <2>1, PlannedIs DEF ContinuedSupport
<1>1. CASE \/ \E scope \in Scopes : Launch(scope)
           \/ RefuseToStart \/ Start \/ EndOfScope \/ Finish
           \/ RefuseToContinue \/ RejectContinued \/ ContinueCommitted \/ Break
  <2>1. /\ ticked' = ticked /\ due' = due
        /\ run'.support = "none" \/ run'.support = run.support
    BY <1>a, <1>1, RunRests
  <2>2. state'.support \in {"none", state.support}
    <3>1. CASE RefuseToContinue \/ RejectContinued
      BY <1>a, <3>1, FailDoes DEF RefuseToContinue, RejectContinued
    <3>2. CASE RefuseToStart
      BY <3>2 DEF RefuseToStart, FreshState
    <3>3. CASE Finish \/ ContinueCommitted \/ Break
      BY <1>a, <3>3 DEF Finish, ContinueCommitted, Break, RuntimeState
    <3>4. QED  BY <1>1, <3>1, <3>2, <3>3 DEF Launch, Start, EndOfScope
  <2>3. \A n \in Numbers : trees'[n].support \in {"none", trees[n].support}
    <3>1. CASE Finish
      BY <3>1 DEF Finish, NoTree
    <3>2. CASE ~Finish
      BY <1>1, <3>2 DEF Launch, RefuseToStart, Start, EndOfScope, RefuseToContinue,
                        RejectContinued, ContinueCommitted, Break, disk
    <3>3. QED  BY <3>1, <3>2
  <2>4. QED  BY <1>b, <2>1, <2>2, <2>3
<1>2. CASE CreateWorktree \/ RunAgent
  <2>1. /\ ticked' = ticked /\ due' = due /\ run'.support = run.support
        /\ state'.support = state.support
    BY <1>a, <1>2, PlaceDoes, AgentDoes DEF CreateWorktree, RunAgent
  <2>2. \A n \in Numbers : trees'[n].support \in {"none", run.support, trees[n].support}
    BY <1>a, <1>2, PlaceDoes, AgentDoes DEF MyTree
  <2>3. QED  BY <1>b, <2>1, <2>2
<1>3. CASE Validate \/ WriteJournal
  <2>1. /\ ticked' = ticked /\ due' = due /\ run'.support \in {"none", run.support}
        /\ state'.support = state.support
    BY <1>a, <1>3, ValidateDoes, JournalDoes DEF IdleRun
  <2>2. \A n \in Numbers : trees'[n].support \in {"none", run.support, trees[n].support}
    BY <1>a, <1>3, ValidateDoes, BugfixDoes, JournalDoes DEF MyTree
  <2>3. QED  BY <1>b, <2>1, <2>2
<1>4. CASE \/ CopyResult \/ CheckMerge \/ Sync \/ MarkSupportDue \/ Closeout \/ WriteSupportGate
           \/ Commit
  <2>1. ticked' = ticked /\ trees' = trees
    BY <1>4 DEF CopyResult, CheckMerge, Sync, MarkSupportDue, Closeout, WriteSupportGate, Commit, disk
  <2>2. run'.support \in {"none", run.support}
    BY <1>a, <1>4, RunMoves DEF IdleRun
  <2>3. state'.support = state.support
    <3>1. CASE CheckMerge
      BY <1>a, <3>1, FailDoes, SetPhaseDoes DEF CheckMerge
    <3>2. CASE ~CheckMerge
      BY <1>a, <1>4, <3>2, SetPhaseDoes
         DEF CopyResult, Sync, MarkSupportDue, Closeout, WriteSupportGate, Commit
    <3>3. QED  BY <3>1, <3>2
  <2>4. ~due'
    <3>1. CASE MarkSupportDue
      BY <1>b, <2>1, <3>1 DEF MarkSupportDue
    <3>2. CASE ~MarkSupportDue
      BY <1>4, <1>b, <2>1, <3>2
         DEF CopyResult, CheckMerge, Sync, Closeout, WriteSupportGate, Commit, disk
    <3>3. QED  BY <3>1, <3>2
  <2>5. QED  BY <1>b, <2>1, <2>2, <2>3, <2>4
<1>5. CASE Tick
  <2>1. /\ due' = due /\ trees' = trees /\ state' = state /\ run'.support = run.support
        /\ Unchecked' \subseteq Unchecked
    BY <1>a, <1>5, GotoDoes DEF Tick, Unchecked
  <2>2. QED  BY <2>1
<1>6. ASSUME NEW scope \in Scopes, DryRun(scope)
      PROVE  /\ ~due' /\ state'.support = "none" /\ run'.support = "none"
             /\ \A n \in Numbers : trees'[n].support = "none"
  <2>1. /\ ticked' = ticked /\ due' = due /\ run' = run /\ trees' = trees
        /\ state' = state \/ state'.support = PlannedSupport(scope)
    BY <1>6 DEF DryRun, FreshState
  <2>2. QED  BY <1>b, <2>1
<1>7. CASE Select
  <2>1. /\ ticked' = ticked /\ due' = due /\ trees' = trees
        /\ state'.support = PlannedSupport(run.scope)
        /\ run' = IdleRun \/ run'.support = PlannedSupport(run.scope)
    BY <1>a, <1>7, SelectDoes
  <2>2. QED  BY <1>b, <2>1 DEF IdleRun
<1>8. CASE RestartAgent \/ Resume
  <2>1. /\ ticked' = ticked /\ due' = due /\ trees' = trees
        /\ state'.support = state.support /\ run'.support = ContinuedSupport
    BY <1>a, <1>8, RestartDoes, ResumeDoes
  <2>2. QED  BY <1>b, <2>1
<1>9. CASE Clean
  <2>1. /\ ticked' = ticked /\ due' = due /\ run' = run /\ state' = NoState
        /\ \A n \in Numbers : trees'[n] \in {NoTree, trees[n]}
    BY <1>a, <1>9 DEF Clean
  <2>2. QED  BY <1>b, <2>1 DEF NoState, NoTree
<1>10. CASE UNCHANGED vars
  BY <1>10, <1>b DEF vars
<1>11. QED
  BY <1>1, <1>2, <1>3, <1>4, <1>5, <1>6, <1>7, <1>8, <1>9, <1>10
     DEF Next, Work, Operator, Continue

-----------------------------------------------------------------------------
(* What is owed for the commits, and what there is to show for them.  A    *)
(* batch that is closed and not yet committed already owes its commit.     *)

Uncommitted == gates.closeout \ Committed

Pending == IF run.step = "support" THEN {run.support} ELSE {}

Owed == Len(commits) + Cardinality(Uncommitted)

Taken == gates.support \cup Pending

Credit == Cardinality(ticked) + Cardinality(Taken) + faults

Paid == Owed + 1 <= Credit

Untaken(support) == support # "none" /\ support \notin gates.support

FreshItems == run.items # {} /\ run.items \cap ticked = {}

BeforeTick == {"worktree", "implement", "copy", "validate", "merge", "journal", "sync", "tick"}

BeforeClose == BeforeTick \cup {"due", "closeout"}

(* A batch that is to be closed for the first time, or was committed       *)
(* before, has something to show that no other commit stands for: items    *)
(* that are not ticked, a support gate that is not written, or a crash.    *)
RunPays ==
  /\ run.step \in BeforeTick /\ run.n \notin Uncommitted =>
       Paid \/ FreshItems \/ Untaken(run.support)
  /\ run.step \in BeforeTick /\ run.n > Last => Paid \/ run.items \cap ticked = {}
  /\ run.step \in {"due", "closeout"} /\ run.n \notin Uncommitted =>
       Paid \/ Untaken(run.support)
  /\ run.step \in {"support", "commit"} /\ run.n \in Committed => Paid

(* What continueYolo will take up.                                         *)
StatePays ==
  (IF Quiet THEN ContinuedBatch > Last ELSE run.n > Last) =>
    Paid \/ state.support = "none" \/ Untaken(state.support)

TreesPay == \A n \in Numbers : n > Last => Paid \/ trees[n].covers \cap ticked = {}

CreditInv == Owed <= Credit /\ RunPays /\ StatePays /\ TreesPay

CountsOK ==
  /\ IsFiniteSet(ticked) /\ Cardinality(ticked) \in Nat
  /\ IsFiniteSet(Uncommitted) /\ Cardinality(Uncommitted) \in Nat
  /\ IsFiniteSet(Taken) /\ Cardinality(Taken) \in Nat
  /\ Len(commits) \in Nat /\ faults \in Nat
  /\ Owed \in Nat /\ Credit \in Nat

LEMMA CountsType == TypeInv => CountsOK
<1> SUFFICES ASSUME TypeInv  PROVE CountsOK
  OBVIOUS
<1>1. IsFiniteSet(ticked)
  <2>1. IsFiniteSet(1..NItems) /\ ticked \in SUBSET (1..NItems)
    BY FS_Interval, LifecycleAssumption DEF TypeInv, TypeOK, Items
  <2>2. QED  BY <2>1, FS_Subset
<1>2. IsFiniteSet(Uncommitted)
  <2>1. IsFiniteSet(1..MaxBatch) /\ Uncommitted \in SUBSET (1..MaxBatch)
    BY FS_Interval, LifecycleAssumption DEF TypeInv, TypeOK, Uncommitted, Numbers
  <2>2. QED  BY <2>1, FS_Subset
<1>3. IsFiniteSet(Taken)
  <2> DEFINE S == (({} \cup {"none"}) \cup {"phase"}) \cup {"final"}
  <2>1. IsFiniteSet(S)
    BY FS_EmptySet, FS_AddElement
  <2>2. gates.support \in SUBSET {"phase", "final"} /\ run.support \in Support
    BY DEF TypeInv, TypeOK, Run
  <2>3. Taken \in SUBSET S
    BY <2>2 DEF Taken, Pending, Support
  <2>4. QED  BY <2>1, <2>3, FS_Subset
<1>4. Len(commits) \in Nat /\ faults \in Nat
  BY LifecycleAssumption DEF TypeInv, TypeOK
<1>5. /\ Cardinality(ticked) \in Nat /\ Cardinality(Uncommitted) \in Nat
      /\ Cardinality(Taken) \in Nat
  BY <1>1, <1>2, <1>3, FS_CardinalityType
<1>6. Owed \in Nat /\ Credit \in Nat
  BY <1>4, <1>5 DEF Owed, Credit
<1>7. QED  BY <1>1, <1>2, <1>3, <1>4, <1>5, <1>6 DEF CountsOK

LEMMA CountsNext ==
  ASSUME TypeInv'
  PROVE  CountsOK'
BY CountsType, PTL

(* What is left undone, or only done more of, loses no credit; a tick or a  *)
(* crash gains some.                                                        *)
LEMMA CreditKept ==
  ASSUME TypeInv, TypeInv', commits' = commits, gates'.closeout = gates.closeout,
         ticked \subseteq ticked',
         \/ Taken \subseteq Taken' /\ faults' \in {faults, faults + 1}
         \/ gates'.support = gates.support /\ faults' = faults + 1
  PROVE  /\ Owed' = Owed /\ Credit <= Credit'
         /\ Paid => Paid'
         /\ Owed <= Credit => Owed' <= Credit'
         /\ Owed <= Credit /\ ticked' # ticked /\ faults' = faults => Paid'
         /\ Owed <= Credit /\ Taken \subseteq Taken' /\ faults' = faults + 1 => Paid'
<1> DEFINE t == Cardinality(ticked)  u == Cardinality(ticked')
           s == Cardinality(Taken)   r == Cardinality(Taken')
<1>1. CountsOK /\ CountsOK'
  BY CountsType, CountsNext
<1>2. /\ t \in Nat /\ u \in Nat /\ s \in Nat /\ r \in Nat /\ faults \in Nat /\ faults' \in Nat
      /\ Owed \in Nat /\ Credit \in Nat /\ Owed' \in Nat /\ Credit' \in Nat
      /\ IsFiniteSet(ticked') /\ IsFiniteSet(Taken') /\ IsFiniteSet(Taken)
  BY <1>1 DEF CountsOK
<1>3. Owed' = Owed
  BY DEF Owed, Uncommitted, Committed
<1>4. t <= u /\ (ticked' # ticked => t + 1 <= u)
  <2>1. t <= u /\ (t = u => ticked' = ticked)
    BY <1>2, FS_Subset
  <2>2. QED  BY <1>2, <2>1
<1>5. CASE Taken \subseteq Taken' /\ faults' \in {faults, faults + 1}
  <2>1. s <= r
    BY <1>2, <1>5, FS_Subset
  <2>2. Credit = t + s + faults /\ Credit' = u + r + faults'
    BY DEF Credit
  <2>3. (Paid <=> Owed + 1 <= Credit) /\ (Paid' <=> Owed' + 1 <= Credit')
    BY DEF Paid
  <2>4. faults' = faults \/ faults' = faults + 1
    BY <1>5
  <2> HIDE DEF t, u, s, r
  <2>5. /\ Credit <= Credit'
        /\ ticked' # ticked /\ faults' = faults => Credit + 1 <= Credit'
        /\ faults' = faults + 1 => Credit + 1 <= Credit'
    <3>1. \A a, b, c, d, f, g \in Nat :
            a <= b /\ c <= d /\ (g = f \/ g = f + 1) =>
              /\ a + c + f <= b + d + g
              /\ a + 1 <= b => a + c + f + 1 <= b + d + g
              /\ g = f + 1 => a + c + f + 1 <= b + d + g
      OBVIOUS
    <3>2. t \in Nat /\ u \in Nat /\ s \in Nat /\ r \in Nat /\ faults \in Nat /\ faults' \in Nat
      BY <1>2
    <3>3. QED  BY <1>4, <2>1, <2>2, <2>4, <3>1, <3>2
  <2>6. QED  BY <1>2, <1>3, <2>3, <2>5
<1>6. CASE gates'.support = gates.support /\ faults' = faults + 1 /\ ~(Taken \subseteq Taken')
  <2>1. s <= r + 1
    <3>1. PICK x : Taken \in SUBSET (Taken' \cup {x})
      BY <1>6 DEF Taken, Pending
    <3>2. IsFiniteSet(Taken' \cup {x}) /\ Cardinality(Taken' \cup {x}) <= r + 1
      <4> DEFINE T == Taken'
      <4>1. IsFiniteSet(T) /\ Cardinality(T) = r /\ r \in Nat
        BY <1>2
      <4> HIDE DEF T, r
      <4>2. /\ IsFiniteSet(T \cup {x})
            /\ Cardinality(T \cup {x}) = IF x \in T THEN Cardinality(T) ELSE Cardinality(T) + 1
        BY <4>1, FS_AddElement
      <4>3. Cardinality(T \cup {x}) <= r + 1
        BY <4>1, <4>2
      <4>4. QED  BY <4>2, <4>3 DEF T
    <3>3. s <= Cardinality(Taken' \cup {x}) /\ Cardinality(Taken' \cup {x}) \in Nat
      BY <3>1, <3>2, FS_Subset, FS_CardinalityType
    <3>4. QED  BY <1>2, <3>2, <3>3
  <2>2. Credit = t + s + faults /\ Credit' = u + r + faults'
    BY DEF Credit
  <2> HIDE DEF t, u, s, r
  <2>3. QED  BY <1>2, <1>3, <1>4, <1>6, <2>1, <2>2 DEF Paid
<1>7. QED  BY <1>5, <1>6

(* Above the highest closed batch nothing is left of a batch when an older *)
(* one was taken up.                                                        *)
LEMMA SettledTrees == TreeInv /\ NoResultAbove => TreesPay
BY DEF TreeInv, NoResultAbove, TreesPay, HasResult, NoTree

StateBelow == state.tree => state.n <= Last

ContinuedAbove == ContinuedBatch > Last

LEMMA StoppedBelow == TypeOK /\ NoResultAbove /\ StateBelow => ~ContinuedAbove
<1> SUFFICES ASSUME TypeOK, NoResultAbove, StateBelow  PROVE ~(ContinuedBatch > Last)
  BY DEF ContinuedAbove
<1>1. Last \in Nat
  BY LastType
<1>2. CASE StateTree
  BY <1>1, <1>2 DEF StateTree, StateBelow, ContinuedBatch, TypeOK, RuntimeState
<1>3. CASE ~StateTree
  <2> DEFINE S == {n \in Numbers : HasResult(n)}
  <2>1. ContinuedBatch = Highest(S) /\ S \in SUBSET Numbers
    BY <1>3 DEF ContinuedBatch, LatestResumable
  <2>2. \A n \in S : ~(n > Last)
    BY DEF NoResultAbove
  <2> HIDE DEF S
  <2>3. Highest(S) = 0 \/ Highest(S) \in S
    BY <2>1, HighestIs
  <2>4. QED  BY <1>1, <2>1, <2>2, <2>3
<1>4. QED  BY <1>2, <1>3

LEMMA ContinuedSame ==
  ASSUME trees' = trees, state'.n = state.n, state'.tree = state.tree
  PROVE  ContinuedBatch' = ContinuedBatch
BY DEF ContinuedBatch, StateTree, LatestResumable, HasResult

LEMMA LifeIs ==
  ASSUME LifeInv
  PROVE  /\ TypeInv /\ TypeOK /\ GateInv /\ BatchInv /\ TreeInv /\ Last \in Nat
         /\ ~Quiet => /\ run.n \in Numbers /\ (run.n <= Last <=> run.n \in gates.closeout)
                      /\ (run.n > Last <=> ~(run.n <= Last))
                      /\ (run.n <= Last => NoResultAbove)
         /\ \A n \in Committed : n \in gates.closeout
         /\ \A n \in Numbers : n \in gates.closeout <=> ~(n > Last)
<1>1. TypeInv /\ TypeOK /\ GateInv /\ BatchInv /\ TreeInv /\ Last \in Nat
  BY LastType DEF LifeInv, TypeInv, BatchInv
<1>2. \A n \in Numbers : n \in Nat /\ 1 <= n
  BY NumbersAreBounded
<1>3. \A n \in Numbers : /\ n \in gates.closeout <=> ~(n > Last)
                         /\ n \in gates.closeout <=> n <= Last
                         /\ n > Last <=> ~(n <= Last)
  BY <1>1, <1>2 DEF GateInv
<1>4. ~Quiet => run.n \in Numbers /\ (run.n <= Last => NoResultAbove)
  BY <1>1 DEF TypeInv, Numbered, BatchInv, RunInv, Quiet
<1>5. \A n \in Committed : n \in gates.closeout
  BY <1>1 DEF GateInv
<1>6. QED  BY <1>1, <1>3, <1>4, <1>5

(* Above the highest closed batch, results come to name at most the items  *)
(* of the batch that is worked on.                                         *)
Covering ==
  \A n \in Numbers : n > Last =>
    \/ trees'[n].covers \subseteq trees[n].covers
    \/ /\ n = run.n /\ run.step \in BeforeTick
       /\ trees'[n].covers \subseteq trees[n].covers \cup run.items

LEMMA CoveringPays ==
  ASSUME CreditInv, Last' = Last, ticked' = ticked, Paid => Paid', Covering
  PROVE  TreesPay'
<1> SUFFICES ASSUME NEW n \in Numbers, n > Last, ~Paid'
             PROVE  trees'[n].covers \cap ticked' = {}
  BY DEF TreesPay
<1>1. trees[n].covers \cap ticked = {}
  BY DEF CreditInv, TreesPay
<1>2. n = run.n /\ run.step \in BeforeTick => run.items \cap ticked = {}
  BY DEF CreditInv, RunPays
<1>3. QED  BY <1>1, <1>2 DEF Covering

LEMMA CreditMoves ==
  ASSUME LifeInv, LifeInv', CreditInv, ~Quiet,
         \/ run.step \in BeforeTick /\ run'.step \in BeforeTick
         \/ run.step = "due" /\ run'.step = "closeout",
         run'.n = run.n, run'.items = run.items, run'.support = run.support,
         state'.support = state.support, ticked' = ticked, commits' = commits, faults' = faults,
         gates'.closeout = gates.closeout, gates'.support = gates.support, Covering
  PROVE  CreditInv'
<1>1. Pending = {} /\ Pending' = {} /\ Taken' = Taken /\ ~Quiet'
  BY DEF BeforeTick, Pending, Quiet, Taken
<1>2. TypeInv /\ TypeInv'
  BY DEF LifeInv
<1>3. (Owed <= Credit => Owed' <= Credit') /\ (Paid => Paid')
  BY <1>1, <1>2, CreditKept
<1>4. /\ Last' = Last /\ Committed' = Committed /\ Uncommitted' = Uncommitted
  BY DEF Last, Committed, Uncommitted
<1>5. \A s : Untaken(s)' = Untaken(s)
  BY DEF Untaken
<1>6. /\ FreshItems' = FreshItems
      /\ \A k \in {run.n} : k > Last' <=> k > Last
  BY <1>4 DEF FreshItems
<1>7. Untaken(run.support)' = Untaken(run.support) /\ Untaken(state.support)' = Untaken(state.support)
  BY DEF Untaken
<1>8. RunPays'
  <2>1. CASE run.step \in BeforeTick /\ run'.step \in BeforeTick
    BY <1>3, <1>4, <1>6, <1>7, <2>1 DEF CreditInv, RunPays, BeforeTick
  <2>2. CASE run.step = "due" /\ run'.step = "closeout"
    BY <1>3, <1>4, <1>7, <2>2 DEF CreditInv, RunPays, BeforeTick
  <2>3. QED  BY <2>1, <2>2
<1>9. StatePays'
  BY <1>1, <1>3, <1>4, <1>7 DEF CreditInv, StatePays
<1>10. TreesPay'
  BY <1>3, <1>4, CoveringPays
<1>11. QED  BY <1>3, <1>8, <1>9, <1>10 DEF CreditInv

LEMMA CreditStops ==
  ASSUME LifeInv, LifeInv', CreditInv, ~Quiet, Quiet',
         state'.n = state.n, state'.tree = state.tree, state'.support = state.support,
         ticked' = ticked, commits' = commits, gates'.closeout = gates.closeout,
         gates'.support = gates.support,
         \/ run.step # "support" /\ faults' \in {faults, faults + 1}
         \/ faults' = faults + 1,
         run.n <= Last /\ NoResultAbove => NoResultAbove', Covering
  PROVE  CreditInv'
<1>1. /\ Pending' = {} /\ Last' = Last /\ TypeInv /\ TypeInv' /\ TypeOK'
      /\ \A s : Untaken(s) <=> (s # "none" /\ s \notin gates.support)
  BY DEF Pending, Quiet, Last, LifeInv, TypeInv, Untaken
<1>2. (Owed <= Credit => Owed' <= Credit') /\ (Paid => Paid')
  <2>1. \/ Taken \subseteq Taken' /\ faults' \in {faults, faults + 1}
        \/ gates'.support = gates.support /\ faults' = faults + 1
    BY DEF Taken, Pending
  <2>2. QED  BY <1>1, <2>1, CreditKept
<1>3. RunPays'
  BY DEF RunPays, BeforeTick, Quiet
<1>4. TreesPay'
  BY <1>1, <1>2, CoveringPays
<1>5. StatePays'
  <2>1. CASE run.n > Last
    BY <1>1, <1>2, <2>1 DEF CreditInv, StatePays, Untaken
  <2>2. CASE run.n <= Last
    <3>1. NoResultAbove'
      BY <2>2, LifeIs
    <3>2. state.tree => state.n <= Last
      BY <2>2, LifeIs DEF BatchInv, RunInv
    <3>3. StateBelow'
      BY <1>1, <3>2 DEF StateBelow
    <3>4. ~ContinuedAbove'
      BY <1>1, <3>1, <3>3, StoppedBelow, PTL
    <3>5. QED  BY <3>4 DEF StatePays, ContinuedAbove
  <2>3. QED  BY <2>1, <2>2, LifeIs
<1>6. QED  BY <1>2, <1>3, <1>4, <1>5 DEF CreditInv

LEMMA CreditRests ==
  ASSUME LifeInv, LifeInv', CreditInv, Quiet, Quiet', Covering,
         ticked' = ticked, commits' = commits, gates'.closeout = gates.closeout,
         gates'.support = gates.support, faults' = faults,
         \/ state'.support = "none" \/ Untaken(state'.support)
         \/ ContinuedBatch' = ContinuedBatch /\ state'.support = state.support
  PROVE  CreditInv'
<1>1. /\ Pending = {} /\ Pending' = {} /\ Taken' = Taken /\ Last' = Last /\ TypeInv /\ TypeInv'
  BY DEF Pending, Quiet, Taken, Last, LifeInv
<1>2. (Owed <= Credit => Owed' <= Credit') /\ (Paid => Paid')
  BY <1>1, CreditKept
<1>3. RunPays'
  BY DEF RunPays, BeforeTick, Quiet
<1>4. StatePays'
  BY <1>1, <1>2 DEF CreditInv, StatePays, Untaken
<1>5. TreesPay'
  BY <1>1, <1>2, CoveringPays
<1>6. QED  BY <1>2, <1>3, <1>4, <1>5 DEF CreditInv

LEMMA CreditTaken ==
  ASSUME LifeInv, LifeInv', CreditInv, Quiet, trees' = trees,
         ticked' = ticked, commits' = commits, gates' = gates, faults' = faults,
         NEW n \in Numbers, run'.n = n, run'.step \in BeforeTick,
         \/ n \in Uncommitted \/ Paid \/ Untaken(run'.support)
         \/ run'.items # {} /\ run'.items \cap ticked = {},
         n > Last => Paid \/ run'.items \cap ticked = {},
         n > Last => Paid \/ state'.support = "none" \/ Untaken(state'.support)
  PROVE  CreditInv'
<1>1. /\ Pending = {} /\ Pending' = {} /\ Taken' = Taken /\ Last' = Last /\ TypeInv /\ TypeInv'
      /\ Uncommitted' = Uncommitted /\ ~Quiet'
  BY DEF Pending, Quiet, BeforeTick, Taken, Last, LifeInv, Uncommitted, Committed
<1>2. (Owed <= Credit => Owed' <= Credit') /\ (Paid => Paid')
  BY <1>1, CreditKept
<1>3. /\ Untaken(run'.support) => Untaken(run.support)'
      /\ Untaken(state'.support) => Untaken(state.support)'
  BY DEF Untaken
<1>4. RunPays'
  BY <1>1, <1>2, <1>3 DEF RunPays, BeforeTick, FreshItems
<1>5. StatePays'
  BY <1>1, <1>2, <1>3 DEF StatePays
<1>6. TreesPay'
  BY <1>1, <1>2, CoveringPays DEF Covering
<1>7. QED  BY <1>2, <1>4, <1>5, <1>6 DEF CreditInv

LEMMA CreditTick ==
  ASSUME LifeInv, LifeInv', CreditInv, Tick
  PROVE  CreditInv'
<1>1. /\ run.step = "tick" /\ run'.step = "due" /\ run'.n = run.n /\ run'.items = run.items
      /\ run'.support = run.support /\ ticked' = ticked \cup run.items
      /\ UNCHANGED <<results, gates, due, commits, trees, state, faults>>
  BY GotoDoes DEF Tick, LifeInv, TypeInv
<1>2. /\ Pending = {} /\ Pending' = {} /\ Taken' = Taken /\ Last' = Last /\ TypeInv /\ TypeInv'
      /\ Uncommitted' = Uncommitted /\ ~Quiet /\ ~Quiet'
  BY <1>1 DEF Pending, Quiet, Taken, Last, LifeInv, Uncommitted, Committed
<1>3. /\ (Owed <= Credit => Owed' <= Credit') /\ (Paid => Paid')
      /\ Owed <= Credit /\ ticked' # ticked => Paid'
  BY <1>1, <1>2, CreditKept
<1>4. Untaken(run.support)' = Untaken(run.support) /\ Untaken(state.support)' = Untaken(state.support)
  BY <1>1 DEF Untaken
<1>5. FreshItems => ticked' # ticked
  BY <1>1 DEF FreshItems
<1>6. RunPays'
  BY <1>1, <1>2, <1>3, <1>4, <1>5 DEF CreditInv, RunPays, BeforeTick
<1>7. StatePays'
  BY <1>1, <1>2, <1>3, <1>4 DEF CreditInv, StatePays
<1>8. TreesPay'
  <2>1. CASE ticked' # ticked
    BY <1>3, <2>1 DEF CreditInv, TreesPay
  <2>2. CASE ticked' = ticked
    BY <1>1, <1>2, <1>3, <2>2, CoveringPays DEF Covering
  <2>3. QED  BY <2>1, <2>2
<1>9. QED  BY <1>3, <1>6, <1>7, <1>8 DEF CreditInv

(* A batch that was closed before is worked on when nothing is left of one *)
(* above it.                                                               *)
Settled ==
  ~Quiet /\ run.n \in gates.closeout => run.n <= Last /\ ~(run.n > Last) /\ NoResultAbove

LEMMA SettledIs == LifeInv => Settled
BY LifeIs DEF Settled

(* What a batch owes once it is closed it has shown by then.                *)
LEMMA CreditCloseout ==
  ASSUME LifeInv, LifeInv', CreditInv, Closeout
  PROVE  CreditInv'
<1> DEFINE s == Cardinality(Taken)
<1>1. /\ run.step = "closeout" /\ run'.n = run.n /\ run'.support = run.support
      /\ run'.step = (IF run.support = "none" THEN "commit" ELSE "support")
      /\ gates'.closeout = gates.closeout \cup {run.n} /\ gates'.support = gates.support
      /\ UNCHANGED <<results, ticked, due, commits, trees, state, faults>>
  BY GotoDoes DEF Closeout, LifeInv, TypeInv, TypeOK
<1>2. CountsOK /\ CountsOK'
  BY CountsType, CountsNext DEF LifeInv
<1>3. /\ IsFiniteSet(Uncommitted) /\ Cardinality(Uncommitted) \in Nat /\ Len(commits) \in Nat
      /\ IsFiniteSet(Taken) /\ s \in Nat /\ Owed \in Nat /\ Credit \in Nat
  BY <1>2 DEF CountsOK
<1>4. run.n \in Committed => run.n \in gates.closeout
  BY LifeIs
<1>5. Owed' = IF run.n \in gates.closeout THEN Owed ELSE Owed + 1
  <2>1. CASE run.n \in gates.closeout
    <3>1. Uncommitted' = Uncommitted
      BY <1>1, <2>1 DEF Uncommitted, Committed
    <3>2. QED  BY <1>1, <2>1, <3>1 DEF Owed
  <2>2. CASE run.n \notin gates.closeout
    <3>1. Uncommitted' = Uncommitted \cup {run.n} /\ run.n \notin Uncommitted
      BY <1>1, <1>4, <2>2 DEF Uncommitted, Committed
    <3>2. Cardinality(Uncommitted') = Cardinality(Uncommitted) + 1
      BY <1>3, <3>1, FS_AddElement
    <3>3. QED  BY <1>1, <1>3, <2>2, <3>2 DEF Owed
  <2>3. QED  BY <2>1, <2>2
<1>6. Credit' = IF Untaken(run.support) THEN Credit + 1 ELSE Credit
  <2>1. Taken = gates.support /\ Taken' = IF run.support = "none" THEN Taken ELSE Taken \cup {run.support}
    BY <1>1 DEF Taken, Pending
  <2>2. CASE Untaken(run.support)
    <3>1. Taken' = Taken \cup {run.support} /\ run.support \notin Taken
      BY <2>1, <2>2 DEF Untaken
    <3>2. Cardinality(Taken') = s + 1
      BY <1>3, <3>1, FS_AddElement
    <3>3. Credit' = Cardinality(ticked) + Cardinality(Taken') + faults
      BY <1>1 DEF Credit
    <3>4. Cardinality(ticked) \in Nat /\ faults \in Nat /\ Credit = Cardinality(ticked) + s + faults
      BY <1>2 DEF CountsOK, Credit
    <3> HIDE DEF s
    <3>5. QED  BY <1>3, <2>2, <3>2, <3>3, <3>4
  <2>3. CASE ~Untaken(run.support)
    <3>1. Taken' = Taken
      BY <2>1, <2>3 DEF Untaken
    <3>2. QED  BY <1>1, <2>3, <3>1 DEF Credit
  <2>4. QED  BY <2>2, <2>3
<1> HIDE DEF s
<1>7. Owed <= Credit /\ (run.n \notin Uncommitted => Paid \/ Untaken(run.support))
  BY <1>1 DEF CreditInv, RunPays
<1>8. (Paid <=> Owed + 1 <= Credit) /\ (Paid' <=> Owed' + 1 <= Credit')
  BY DEF Paid
<1>9. /\ Owed' <= Credit'
      /\ run.n \in Committed => Paid'
  <2>1. run.n \notin gates.closeout => run.n \notin Uncommitted /\ run.n \notin Committed
    BY <1>4 DEF Uncommitted
  <2>2. run.n \in Committed => run.n \notin Uncommitted
    BY DEF Uncommitted
  <2>3. QED  BY <1>3, <1>4, <1>5, <1>6, <1>7, <1>8, <2>1, <2>2
<1>10. ~Quiet' /\ run'.n \in gates'.closeout /\ Committed' = Committed
  BY <1>1 DEF Quiet, Committed
<1>11. run'.n <= Last' /\ NoResultAbove' /\ ~(run'.n > Last')
  <2>1. Settled'
    BY SettledIs, PTL
  <2>2. QED  BY <1>10, <2>1 DEF Settled
<1>12. TreesPay'
  BY <1>11, SettledTrees, PTL DEF LifeInv, BatchInv
<1>13. RunPays'
  BY <1>1, <1>9, <1>10 DEF RunPays, BeforeTick
<1>14. StatePays'
  BY <1>10, <1>11 DEF StatePays
<1>15. QED  BY <1>9, <1>12, <1>13, <1>14 DEF CreditInv

LEMMA CreditSupport ==
  ASSUME LifeInv, LifeInv', CreditInv, WriteSupportGate
  PROVE  CreditInv'
<1>1. /\ run.step = "support" /\ run'.step = "commit" /\ run'.n = run.n
      /\ gates'.closeout = gates.closeout /\ gates'.support = gates.support \cup {run.support}
      /\ UNCHANGED <<results, ticked, due, commits, trees, state, faults>>
  BY GotoDoes DEF WriteSupportGate, LifeInv, TypeInv, TypeOK
<1>2. Taken' = Taken
  BY <1>1 DEF Taken, Pending
<1>3. /\ Owed' = Owed /\ Credit' = Credit /\ Paid' = Paid /\ Committed' = Committed
  BY <1>1, <1>2 DEF Owed, Uncommitted, Committed, Credit, Paid
<1>4. ~Quiet' /\ run'.n \in gates'.closeout
  BY <1>1 DEF LifeInv, GateInv, Closing, Quiet
<1>5. Settled'
  BY SettledIs, PTL
<1>6. TreesPay'
  <2>1. NoResultAbove'
    BY <1>4, <1>5 DEF Settled
  <2>2. QED  BY <2>1, SettledTrees, PTL DEF LifeInv, BatchInv
<1>7. RunPays'
  BY <1>1, <1>3 DEF CreditInv, RunPays, BeforeTick
<1>8. StatePays'
  BY <1>4, <1>5 DEF StatePays, Settled
<1>9. QED  BY <1>3, <1>6, <1>7, <1>8 DEF CreditInv

LEMMA CreditCommit ==
  ASSUME LifeInv, LifeInv', CreditInv, Commit
  PROVE  CreditInv'
<1> DEFINE c == [n |-> run.n, recorded |-> run.n \in results]
<1>1. /\ run.step = "commit" /\ run'.step = "finish" /\ run'.n = run.n
      /\ commits' = Append(commits, c)
      /\ UNCHANGED <<results, gates, ticked, due, trees, faults>>
  BY GotoDoes DEF Commit, LifeInv, TypeInv
<1>2. CountsOK
  BY CountsType DEF LifeInv
<1>3. run.n \in gates.closeout /\ run.n \in Numbers /\ commits \in Seq([n : Numbers, recorded : BOOLEAN])
  BY <1>1, LifeIs DEF LifeInv, GateInv, Closing, Quiet, TypeInv, TypeOK
<1>4. c \in [n : Numbers, recorded : BOOLEAN] /\ c.n = run.n
  BY <1>3
<1> HIDE DEF c
<1>5. Len(commits') = Len(commits) + 1
  BY <1>1, <1>3, <1>4
<1>6. Committed' = Committed \cup {run.n}
  BY <1>1, <1>4, CommittedAppend DEF LifeInv, TypeInv
<1>7. Credit' = Credit
  BY <1>1 DEF Credit, Taken, Pending
<1>8. Owed' = IF run.n \in Committed THEN Owed + 1 ELSE Owed
  <2>1. CASE run.n \in Committed
    <3>1. Uncommitted' = Uncommitted
      BY <1>1, <1>6, <2>1 DEF Uncommitted
    <3>2. QED  BY <1>2, <1>5, <2>1, <3>1 DEF Owed, CountsOK
  <2>2. CASE run.n \notin Committed
    <3>1. Uncommitted' = Uncommitted \ {run.n} /\ run.n \in Uncommitted
      BY <1>1, <1>3, <1>6, <2>2 DEF Uncommitted
    <3>2. Cardinality(Uncommitted') = Cardinality(Uncommitted) - 1
      BY <1>2, <3>1, FS_RemoveElement DEF CountsOK
    <3>3. QED  BY <1>2, <1>5, <2>2, <3>2 DEF Owed, CountsOK
  <2>3. QED  BY <2>1, <2>2
<1>9. Owed' <= Credit'
  BY <1>1, <1>2, <1>7, <1>8 DEF CreditInv, RunPays, Paid, CountsOK
<1>10. ~Quiet' /\ run'.n \in gates'.closeout
  BY <1>1, <1>3 DEF Quiet
<1>11. Settled'
  BY SettledIs, PTL
<1>12. TreesPay'
  <2>1. NoResultAbove'
    BY <1>10, <1>11 DEF Settled
  <2>2. QED  BY <2>1, SettledTrees, PTL DEF LifeInv, BatchInv
<1>13. RunPays'
  BY <1>1 DEF RunPays, BeforeTick
<1>14. StatePays'
  BY <1>10, <1>11 DEF StatePays, Settled
<1>15. QED  BY <1>9, <1>12, <1>13, <1>14 DEF CreditInv

LEMMA CreditNext ==
  ASSUME LifeInv, LifeInv', SupportInv, CreditInv, [Next]_vars
  PROVE  CreditInv'
<1>a. /\ TypeInv /\ TypeOK /\ GateInv /\ BatchInv /\ TreeInv /\ Last \in Nat
  BY LifeIs
<1>b. \A S : S \cap ticked = {} <=> \A i \in S : i \notin ticked
  OBVIOUS
<1>1. CASE \/ \E scope \in Scopes : Launch(scope)
           \/ RefuseToStart \/ Start \/ EndOfScope
           \/ RefuseToContinue \/ RejectContinued \/ ContinueCommitted
  <2>1. UNCHANGED <<ticked, commits, gates>> /\ Quiet'
    BY <1>a, <1>1, RunRests
  <2>2. Quiet /\ trees' = trees /\ faults' = faults
    BY <1>1 DEF Launch, RefuseToStart, Start, EndOfScope, RefuseToContinue, RejectContinued,
                ContinueCommitted, Quiet, disk
  <2>3. \/ state'.support = "none"
        \/ state'.n = state.n /\ state'.tree = state.tree /\ state'.support = state.support
    <3>1. CASE RefuseToStart
      BY <3>1 DEF RefuseToStart, FreshState
    <3>2. CASE RefuseToContinue \/ RejectContinued
      BY <1>a, <3>2, FailDoes DEF RefuseToContinue, RejectContinued
    <3>3. CASE ContinueCommitted
      BY <1>a, <3>3 DEF ContinueCommitted, TypeOK, RuntimeState
    <3>4. QED  BY <1>1, <3>1, <3>2, <3>3 DEF Launch, Start, EndOfScope
  <2>4. QED  BY <2>1, <2>2, <2>3, ContinuedSame, CreditRests DEF Covering
<1>2. CASE Finish \/ Break
  <2>1. UNCHANGED <<ticked, commits, gates>> /\ Quiet'
    BY <1>a, <1>2, RunRests
  <2>2. state'.n = state.n /\ state'.tree = state.tree /\ state'.support = state.support
    BY <1>a, <1>2 DEF Finish, Break, TypeOK, RuntimeState
  <2>3. \A n \in Numbers : trees'[n] \in {NoTree, trees[n]}
    BY <1>a, <1>2 DEF Finish, Break, disk
  <2>4. NoResultAbove => NoResultAbove'
    BY <2>1, <2>3 DEF NoResultAbove, HasResult, NoTree, Last
  <2>5. Covering
    BY <2>3 DEF Covering, NoTree
  <2>6. CASE Finish
    BY <2>1, <2>2, <2>4, <2>5, <2>6, CreditStops DEF Finish, Quiet
  <2>7. CASE Break /\ ~Quiet
    BY <2>1, <2>2, <2>4, <2>5, <2>7, CreditStops DEF Break
  <2>8. CASE Break /\ Quiet
    <3>1. trees' = trees /\ faults' = faults + 1 /\ Last' = Last /\ TypeInv'
      BY <2>1, <2>8 DEF Break, disk, Last, LifeInv
    <3>2. Taken' = Taken
      BY <2>1, <2>8 DEF Taken, Pending, Quiet
    <3>3. (Owed <= Credit => Owed' <= Credit') /\ Paid'
      BY <1>a, <2>1, <3>1, <3>2, CreditKept DEF CreditInv
    <3>4. QED
      BY <2>1, <3>3 DEF CreditInv, RunPays, StatePays, TreesPay, BeforeTick, Quiet
  <2>9. QED  BY <1>2, <2>6, <2>7, <2>8
<1>3. CASE CreateWorktree \/ RunAgent
  <2>1. /\ UNCHANGED <<gates, ticked, commits, faults>> /\ ~Quiet
        /\ run.step \in BeforeTick /\ run'.step \in BeforeTick
        /\ run'.n = run.n /\ run'.items = run.items /\ run'.support = run.support
        /\ state'.support = state.support
    BY <1>a, <1>3, PlaceDoes, AgentDoes DEF CreateWorktree, RunAgent, BeforeTick, Quiet
  <2>2. Covering
    BY <1>a, <1>3, <2>1, PlaceDoes, AgentDoes DEF Covering, MyTree
  <2>3. QED  BY <2>1, <2>2, CreditMoves
<1>4. CASE Validate \/ WriteJournal
  <2>1. /\ UNCHANGED <<ticked, commits, faults>> /\ ~Quiet /\ run.n \in Numbers
        /\ gates'.closeout = gates.closeout /\ gates'.support = gates.support
        /\ run.step \in BeforeTick /\ run.step # "support"
        /\ state'.n = state.n /\ state'.tree = state.tree /\ state'.support = state.support
        /\ \/ run'.step = "idle"
           \/ /\ run'.step \in BeforeTick /\ run'.n = run.n /\ run'.items = run.items
              /\ run'.support = run.support
    BY <1>a, <1>4, ValidateDoes, JournalDoes DEF BeforeTick, Quiet
  <2>2. Covering
    BY <1>a, <1>4, <2>1, ValidateDoes, BugfixDoes, JournalDoes DEF Covering, MyTree
  <2>3. CASE run'.step = "idle"
    <3>1. run.n <= Last /\ NoResultAbove => NoResultAbove'
      <4>1. Last' = Last
        BY <2>1 DEF Last
      <4>2. ASSUME run.n <= Last, NEW n \in Numbers, n > Last, HasResult(n)'
            PROVE  HasResult(n)
        <5>1. n # run.n
          BY <1>a, <2>1, <4>2, NumbersAreBounded
        <5>2. CASE Validate
          BY <1>a, <2>1, <4>2, <5>1, <5>2, ValidateDoes, BugfixDoes DEF HasResult
        <5>3. CASE WriteJournal
          BY <1>a, <4>2, <5>3, JournalDoes DEF HasResult
        <5>4. QED  BY <1>4, <5>2, <5>3
      <4>3. QED  BY <4>1, <4>2 DEF NoResultAbove
    <3>2. QED  BY <2>1, <2>2, <2>3, <3>1, CreditStops DEF Quiet
  <2>4. CASE run'.step # "idle"
    BY <2>1, <2>2, <2>4, CreditMoves
  <2>5. QED  BY <2>3, <2>4
<1>5. CASE CopyResult \/ CheckMerge \/ Sync \/ MarkSupportDue
  <2>1. /\ UNCHANGED <<ticked, commits, trees, faults>> /\ ~Quiet
        /\ gates'.closeout = gates.closeout /\ gates'.support = gates.support
        /\ run.step # "support"
    BY <1>a, <1>5 DEF CopyResult, CheckMerge, Sync, MarkSupportDue, disk, Quiet, TypeOK
  <2>2. state'.n = state.n /\ state'.tree = state.tree /\ state'.support = state.support
    <3>1. CASE CheckMerge
      BY <1>a, <3>1, FailDoes, SetPhaseDoes DEF CheckMerge
    <3>2. CASE CopyResult \/ Sync \/ MarkSupportDue
      BY <1>a, <3>2, SetPhaseDoes DEF CopyResult, Sync, MarkSupportDue
    <3>3. QED  BY <1>5, <3>1, <3>2
  <2>3. Covering
    BY <2>1 DEF Covering
  <2>4. CASE Fail
    <3>1. run' = IdleRun /\ Quiet'
      BY <1>a, <2>4, FailDoes DEF Quiet
    <3>2. NoResultAbove => NoResultAbove'
      BY <2>1 DEF NoResultAbove, HasResult, Last
    <3>3. QED  BY <2>1, <2>2, <2>3, <3>1, <3>2, CreditStops
  <2>5. CASE ~Fail
    <3>1. PICK step : /\ Goto(step)
                      /\ \/ run.step \in BeforeTick /\ step \in BeforeTick
                         \/ run.step = "due" /\ step = "closeout"
      BY <1>5, <2>5 DEF CopyResult, CheckMerge, Sync, MarkSupportDue, BeforeTick
    <3>2. /\ run'.n = run.n /\ run'.items = run.items /\ run'.support = run.support
          /\ run'.step = step
      BY <1>a, <3>1, GotoDoes
    <3>3. QED  BY <2>1, <2>2, <2>3, <3>1, <3>2, CreditMoves
  <2>6. QED  BY <2>4, <2>5
<1>6. CASE Tick \/ Closeout \/ WriteSupportGate \/ Commit
  BY <1>6, CreditTick, CreditCloseout, CreditSupport, CreditCommit
<1>7. ASSUME NEW scope \in Scopes, DryRun(scope)  PROVE CreditInv'
  <2>1. /\ UNCHANGED <<ticked, commits, trees, run, faults, gates>>
        /\ state' = state \/ state'.support = PlannedSupport(scope)
    BY <1>a, <1>7, RepairsNothing DEF DryRun, FreshState
  <2>2. /\ Covering /\ Quiet' = Quiet /\ Last' = Last
        /\ \A s : Untaken(s)' = Untaken(s)
    BY <2>1 DEF Covering, Quiet, Last, Untaken
  <2>3. state' = state \/ state'.support = "none" \/ Untaken(state'.support)
    BY <1>a, <2>1, PlannedIs DEF Untaken
  <2>4. CASE Quiet
    BY <2>1, <2>2, <2>3, <2>4, ContinuedSame, CreditRests
  <2>5. CASE ~Quiet
    <3>1. /\ Owed' = Owed /\ Credit' = Credit /\ Paid' = Paid
      BY <2>1 DEF Owed, Uncommitted, Committed, Credit, Taken, Pending, Paid
    <3>2. RunPays'
      BY <2>1, <2>2, <3>1 DEF CreditInv, RunPays, Uncommitted, Committed, FreshItems, Untaken
    <3>3. StatePays'
      BY <2>1, <2>2, <2>3, <2>5, <3>1 DEF CreditInv, StatePays, Untaken
    <3>4. TreesPay'
      BY <2>1, <2>2, <3>1 DEF CreditInv, TreesPay
    <3>5. QED  BY <3>1, <3>2, <3>3, <3>4 DEF CreditInv
  <2>6. QED  BY <2>4, <2>5
<1>8. CASE Select
  <2> DEFINE n == NextBatchNumber
             support == PlannedSupport(run.scope)
             items == PlannedItems(run.scope)
  <2>1. /\ run.step = "select" /\ n \in Numbers /\ gates' = gates /\ ~NothingToDo(run.scope)
        /\ UNCHANGED <<ticked, commits, trees, faults>>
        /\ state'.support = support
        /\ \/ run'.step = "idle"
           \/ run'.step = "worktree" /\ run'.n = n /\ run'.items = items /\ run'.support = support
    BY <1>a, <1>8, SelectDoes
  <2>2. /\ support = "none" \/ Untaken(support)
        /\ items \cap ticked = {} /\ (items # {} \/ support # "none")
    BY <1>a, <2>1, PlannedIs DEF Untaken, NothingToDo, Unchecked
  <2> HIDE DEF n, support, items
  <2>3. Quiet /\ Covering
    BY <2>1 DEF Quiet, Covering
  <2>4. CASE run'.step = "idle"
    BY <2>1, <2>2, <2>3, <2>4, CreditRests DEF Quiet
  <2>5. CASE run'.step = "worktree" /\ run'.n = n /\ run'.items = items /\ run'.support = support
    BY <2>1, <2>2, <2>3, <2>5, CreditTaken DEF BeforeTick
  <2>6. QED  BY <2>1, <2>4, <2>5
<1>9. CASE RestartAgent \/ Resume
  <2> DEFINE n == ContinuedBatch
  <2>1. /\ run.step = "idle" /\ n \in Numbers /\ gates' = gates /\ MayContinue(n)
        /\ UNCHANGED <<ticked, commits, trees, faults>>
        /\ state'.support = state.support /\ run'.support = state.support
        /\ run'.step \in BeforeTick /\ run'.n = n
        /\ \/ run'.items = ContinuedItems
           \/ ~MatchesResult(n) /\ IsTakenUp(n) /\ run'.items = Reported(n)
    BY <1>a, <1>9, RestartDoes, ResumeDoes DEF BeforeTick, ContinuedSupport
  <2>2. /\ n \notin Committed /\ (ContinuedItems # {} \/ state.support # "none")
        /\ ContinuedItems \cap ticked = {} /\ ContinuedItems \in SUBSET Unchecked
    BY <1>a, <2>1, PlannedIs DEF MayContinue, ContinuedSupport, Unchecked
  <2>3. n \in Uncommitted \/ n > Last
    BY <2>1, <2>2, LifeIs DEF Uncommitted
  <2>4. n > Last => Paid \/ state.support = "none" \/ Untaken(state.support)
    BY <2>1 DEF CreditInv, StatePays, Quiet
  <2>5. n > Last => Paid \/ Reported(n) \cap ticked = {}
    BY <2>1 DEF CreditInv, TreesPay, Reported
  <2>6. state.support = "none" => run'.items # {}
    <3>1. CASE run'.items = ContinuedItems
      BY <2>2, <3>1
    <3>2. CASE ~MatchesResult(n) /\ IsTakenUp(n) /\ run'.items = Reported(n)
      BY <2>1, <2>2, <3>2 DEF IsTakenUp, SupportInv
    <3>3. QED  BY <2>1, <3>1, <3>2
  <2>7. Quiet
    BY <2>1 DEF Quiet
  <2> HIDE DEF n
  <2>8. QED  BY <2>1, <2>2, <2>3, <2>4, <2>5, <2>6, <2>7, CreditTaken
<1>10. CASE Clean
  <2>1. PICK n : /\ n = Min(Incomplete) /\ Incomplete # {} /\ run.step = "idle"
                 /\ trees' = [trees EXCEPT ![n] = NoTree]
                 /\ gates' = [gates EXCEPT !.e2e = @ \ {n}, !.journal = @ \ {n},
                                           !.closeout = @ \ {n}]
                 /\ state' = NoState /\ UNCHANGED <<ticked, commits, run, faults>>
    BY <1>10 DEF Clean
  <2>2. n > Last /\ n \in Numbers
    BY <1>a, <2>1, IncompleteHasMin DEF TypeOK
  <2>3. gates'.closeout = gates.closeout /\ gates'.support = gates.support
    BY <1>a, <2>1, <2>2, LifeIs DEF TypeOK
  <2>4. Covering
    BY <1>a, <2>1 DEF Covering, NoTree, TypeOK
  <2>5. Quiet /\ Quiet' /\ state'.support = "none"
    BY <2>1 DEF Quiet, NoState
  <2>6. QED  BY <2>1, <2>3, <2>4, <2>5, CreditRests
<1>11. CASE UNCHANGED vars
  BY <1>11 DEF vars, CreditInv, RunPays, StatePays, TreesPay, Owed, Credit, Paid, Taken, Pending,
               Uncommitted, Committed, Untaken, FreshItems, Last, Quiet, ContinuedBatch,
               StateTree, LatestResumable, HasResult
<1>12. QED
  BY <1>1, <1>2, <1>3, <1>4, <1>5, <1>6, <1>7, <1>8, <1>9, <1>10, <1>11
     DEF Next, Work, Operator, Continue

LEMMA CreditAlways == Spec => [](LifeInv /\ CreditInv)
<1>1. Init => SupportInv /\ CreditInv
  <2> SUFFICES ASSUME Init  PROVE SupportInv /\ CreditInv
    OBVIOUS
  <2>1. /\ gates.closeout = {} /\ gates.support = {} /\ ticked = {} /\ commits = <<>> /\ faults = 0
        /\ run.step = "idle" /\ run.support = "none" /\ state.support = "none" /\ ~due
        /\ \A n \in Numbers : trees[n] = NoTree
    BY DEF Init, IdleRun, NoState
  <2>2. SupportInv
    BY <2>1 DEF SupportInv, NoTree
  <2>3. Uncommitted = {} /\ Taken = {}
    BY <2>1 DEF Uncommitted, Taken, Pending
  <2>4. Owed = 0 /\ Credit = 0
    BY <2>1, <2>3, FS_EmptySet DEF Owed, Credit
  <2>5. RunPays /\ StatePays /\ TreesPay
    BY <2>1 DEF RunPays, StatePays, TreesPay, BeforeTick, NoTree
  <2>6. QED  BY <2>2, <2>4, <2>5 DEF CreditInv
<1>2. LifeInv /\ LifeInv' /\ SupportInv /\ CreditInv /\ [Next]_vars => SupportInv' /\ CreditInv'
  BY SupportNext, CreditNext
<1>3. QED  BY <1>1, <1>2, LifeAlways, PTL DEF Spec

(* No batch is committed for nothing: every commit stands for an item      *)
(* ticked or a support gate written, but for one batch repeated after each *)
(* crash, so the loop over the batches of a full scope ends.               *)
THEOREM CommitsPaid == Spec => []CommitsAdvance
<1>1. LifeInv /\ CreditInv => CommitsAdvance
  <2> SUFFICES ASSUME LifeInv, CreditInv  PROVE CommitsAdvance
    OBVIOUS
  <2> DEFINE t == Cardinality(ticked)  g == Cardinality(gates.support)
             u == Cardinality(Uncommitted)  s == Cardinality(Taken)  l == Len(commits)
  <2>1. CountsOK
    BY CountsType DEF LifeInv
  <2>2. /\ t \in Nat /\ u \in Nat /\ s \in Nat /\ l \in Nat /\ faults \in Nat
        /\ IsFiniteSet(Taken) /\ IsFiniteSet(Uncommitted)
    BY <2>1 DEF CountsOK
  <2>3. IsFiniteSet(gates.support) /\ g \in Nat
    <3>1. gates.support \in SUBSET Taken
      BY DEF Taken
    <3>2. QED  BY <2>2, <3>1, FS_Subset, FS_CardinalityType
  <2>4. l + u <= t + s + faults /\ (Paid <=> l + u + 1 <= t + s + faults)
    BY <2>2 DEF CreditInv, Owed, Credit, Paid
  <2>5. CASE run.step # "support"
    <3>1. s = g
      BY <2>5 DEF Taken, Pending
    <3> HIDE DEF t, g, u, s, l
    <3>2. l <= t + g + faults
      BY <2>2, <2>3, <2>4, <3>1
    <3>3. QED  BY <3>2 DEF CommitsAdvance, t, g, l
  <2>6. CASE run.step = "support"
    <3>1. s <= g + 1
      <4>1. Taken = gates.support \cup {run.support}
        BY <2>6 DEF Taken, Pending
      <4>2. Cardinality(gates.support \cup {run.support}) <= g + 1
        <5> DEFINE T == gates.support
        <5>1. IsFiniteSet(T) /\ g = Cardinality(T) /\ g \in Nat
          BY <2>3
        <5> HIDE DEF T, g
        <5>2. Cardinality(T \cup {run.support}) =
                IF run.support \in T THEN Cardinality(T) ELSE Cardinality(T) + 1
          BY <5>1, FS_AddElement
        <5>3. Cardinality(T \cup {run.support}) <= g + 1
          BY <5>1, <5>2
        <5>4. QED  BY <5>3 DEF T
      <4>3. QED  BY <4>1, <4>2
    <3>2. Paid \/ u # 0
      <4>1. run.n \in Committed => Paid
        BY <2>6 DEF CreditInv, RunPays
      <4>2. run.n \notin Committed => run.n \in Uncommitted
        BY <2>6 DEF LifeInv, GateInv, Closing, Uncommitted
      <4>3. QED  BY <2>2, <4>1, <4>2, FS_EmptySet
    <3> HIDE DEF t, g, u, s, l
    <3>3. l <= t + g + faults
      <4>1. u # 0 => u >= 1
        BY <2>2
      <4>2. l + 1 <= t + s + faults
        BY <2>2, <2>4, <3>2, <4>1
      <4>3. QED  BY <2>2, <2>3, <3>1, <4>2
    <3>4. QED  BY <3>3 DEF CommitsAdvance, t, g, l
  <2>7. QED  BY <2>5, <2>6
<1>2. QED  BY <1>1, CreditAlways, PTL

-----------------------------------------------------------------------------
(* The order of the commits, of a runtime that crashed at most once.       *)

(* Closed batches whose commit was cut off.                                *)
Interrupted == {m \in Uncommitted : ~(run.n = m /\ run.step \in {"support", "commit"})}

InOrder == faults = 0 \/ Interrupted # {}

(* While a batch waits for its commit, the latest closed batch is the one  *)
(* that continueYolo finds: no older work tree outlives its result, and no *)
(* result of a closed batch is left uncopied.                              *)
Ordered ==
  /\ \A m \in Numbers : m < Last /\ trees[m].there => HasResult(Last)
  /\ \A n \in gates.closeout : HasFile(n) => n \in results \/ (run.step = "copy" /\ run.n = n)

RunRises == ~Quiet => run.n >= Last

StateRises == Quiet /\ StateTree => state.n >= Last

RiseInv ==
  faults <= 1 =>
    /\ faults = 0 => Interrupted = {}
    /\ RunRises /\ StateRises
    /\ InOrder => Ordered
    /\ CommitsRise

LEMMA OrderedKept ==
  ASSUME Ordered, gates'.closeout = gates.closeout, Last \in Numbers \/ Last = 0,
         \A m \in Numbers : m < Last /\ trees'[m].there => trees[m].there,
         Last \in Numbers /\ HasResult(Last) => HasResult(Last)',
         \A n \in gates.closeout : HasFile(n)' => HasFile(n),
         \A n \in gates.closeout : n \in results => n \in results',
         run.step = "copy" => run'.step = "copy" /\ run'.n = run.n
  PROVE  Ordered'
<1>1. Last' = Last
  BY DEF Last
<1>2. \A m \in Numbers : m < Last' /\ trees'[m].there => HasResult(Last)'
  BY <1>1, NumbersAreBounded DEF Ordered
<1>3. HasResult(Last)' <=> trees'[Last'].there /\ trees'[Last'].result # "none"
  BY DEF HasResult
<1>4. \A n \in gates'.closeout : HasFile(n)' => n \in results' \/ (run'.step = "copy" /\ run'.n = n)
  BY DEF Ordered
<1>5. QED  BY <1>1, <1>2, <1>3, <1>4 DEF Ordered, HasResult

LEMMA RiseKept ==
  ASSUME LifeInv, RiseInv, gates'.closeout = gates.closeout, commits' = commits, faults' = faults,
         \/ run.step \notin {"support", "commit"}
         \/ run.step = "support" /\ run'.step = "commit" /\ run'.n = run.n,
         faults <= 1 /\ InOrder /\ Ordered => Ordered',
         faults <= 1 /\ ~Quiet' => run'.n >= Last,
         faults <= 1 /\ Quiet' /\ StateTree' => state'.n >= Last
  PROVE  RiseInv'
<1> SUFFICES ASSUME faults <= 1
             PROVE  /\ faults = 0 => Interrupted' = {}
                    /\ RunRises' /\ StateRises'
                    /\ InOrder' => Ordered'
                    /\ CommitsRise'
  BY DEF RiseInv
<1>1. Last' = Last /\ Uncommitted' = Uncommitted
  BY DEF Last, Uncommitted, Committed
<1>2. Interrupted' \subseteq Interrupted
  BY <1>1 DEF Interrupted
<1>3. InOrder' => InOrder
  BY <1>2 DEF InOrder
<1>4. RunRises' /\ StateRises'
  BY <1>1 DEF RunRises, StateRises
<1>5. CommitsRise'
  BY DEF CommitsRise, RiseInv
<1>6. QED  BY <1>2, <1>3, <1>4, <1>5 DEF RiseInv

(* A batch that is selected, or taken up again, is not below the latest    *)
(* closed one.                                                             *)
LEMMA SelectedRises ==
  ASSUME LifeInv
  PROVE  NextBatchNumber >= Last
<1>1. /\ TypeOK /\ TreeInv /\ GateInv /\ Last \in Nat
  BY LifeIs
<1>2. Last > 1 => Last - 1 \in results
  BY <1>1 DEF TreeInv, GateInv
<1>3. NextBatchNumber \in Nat /\ NextBatchNumber >= 1
  <2>1. Highest(results) \in Nat
    BY <1>1, HighestIs DEF TypeOK, Numbers
  <2>2. QED  BY <2>1 DEF NextBatchNumber
<1>4. QED  BY <1>1, <1>2, <1>3, NextIs

LEMMA ContinuedRises ==
  ASSUME LifeInv, RiseInv, faults <= 1, run.step = "idle",
         NEW n \in Numbers, n = ContinuedBatch, n \notin Committed
  PROVE  n >= Last
<1>1. /\ TypeOK /\ TreeInv /\ GateInv /\ Last \in Nat /\ n \in Nat /\ BatchInv
  BY LifeIs, NumbersAreBounded
<1>2. CASE StateTree
  BY <1>2 DEF RiseInv, StateRises, Quiet, ContinuedBatch
<1>3. CASE ~StateTree /\ n < Last
  <2> DEFINE S == {m \in Numbers : HasResult(m)}
  <2>1. n = Highest(S) /\ S \in SUBSET Numbers
    BY <1>3 DEF ContinuedBatch, LatestResumable
  <2>2. HasResult(n) /\ trees[n].there
    BY <1>1, <1>3, ContinuedIs DEF Quiet
  <2>3. n \in Interrupted
    BY <1>1, <1>3, NumbersAreBounded DEF GateInv, Uncommitted, Interrupted
  <2>4. Ordered
    BY <2>3 DEF RiseInv, InOrder
  <2>5. HasResult(Last) /\ Last \in Numbers
    <3>1. HasResult(Last)
      BY <1>3, <2>2, <2>4 DEF Ordered
    <3>2. Last \in Numbers
      BY <1>1, <1>3, LastType DEF Numbers
    <3>3. QED  BY <3>1, <3>2
  <2>6. Last \in S
    BY <2>5
  <2> HIDE DEF S
  <2>7. Last <= n
    BY <2>1, <2>6, HighestIs
  <2>8. QED  BY <1>1, <1>3, <2>7
<1>4. QED  BY <1>1, <1>2, <1>3

(* An agent that is run again for the latest closed batch may leave no     *)
(* result, but there was none before, nor an older work tree.              *)
LEMMA AgentOrder ==
  ASSUME LifeInv, RunAgent, Ordered, run.n >= Last
  PROVE  Ordered'
<1>a. /\ TypeInv /\ TypeOK /\ GateInv /\ BatchInv /\ Last \in Nat /\ run.n \in Numbers /\ ~Quiet
      /\ run.n \in Nat
  <2>1. ~Quiet
    BY DEF RunAgent, Quiet
  <2>2. QED  BY <2>1, LifeIs, NumbersAreBounded
<1>1. /\ run.step = "implement" /\ run'.step = "copy" /\ run'.n = run.n
      /\ \A m \in Numbers : m # run.n => trees'[m] = trees[m]
      /\ trees'[run.n].there = MyTree.there
      /\ Bugfixed => trees'[run.n].result \in {"bugfix", "success"}
      /\ UNCHANGED <<results, gates>>
  BY <1>a, AgentDoes DEF RunAgent
<1>2. Last' = Last
  BY <1>1 DEF Last
<1>3. /\ \A m \in Numbers : trees'[m].there = trees[m].there
      /\ MyTree = trees[run.n]
  BY <1>a, <1>1 DEF MyTree
<1>4. \A n \in gates.closeout : HasFile(n)' => n \in results' \/ (run'.step = "copy" /\ run'.n = n)
  <2>1. \A n \in gates.closeout : n \in Numbers
    BY <1>a DEF TypeOK
  <2>2. QED  BY <1>1, <2>1 DEF Ordered, HasFile
<1>5. ASSUME NEW m \in Numbers, m < Last, trees[m].there
      PROVE  HasResult(Last)'
  <2>1. HasResult(Last)
    BY <1>5 DEF Ordered
  <2>2. Last \in Numbers /\ Last \in gates.closeout
    BY <1>a, <1>5, LastType, NumbersAreBounded DEF GateInv, Numbers
  <2>3. CASE run.n # Last
    <3>1. trees'[Last] = trees[Last]
      BY <1>1, <2>2, <2>3
    <3>2. QED  BY <1>2, <2>1, <3>1 DEF HasResult
  <2>4. CASE run.n = Last
    <3>1. Bugfixed
      <4>1. run.n \notin results \/ Bugfixed
        BY <1>a, <1>1 DEF BatchInv, RunInv, BeforeAgent
      <4>2. HasFile(run.n) => run.n \in results
        BY <1>1, <2>2, <2>4 DEF Ordered
      <4>3. trees[run.n].result \in {"none", "failure", "success", "bugfix"}
        BY <1>a DEF TypeOK, Tree
      <4>4. QED  BY <1>3, <2>1, <2>4, <4>1, <4>2, <4>3 DEF HasFile, HasResult, Bugfixed
    <3>2. trees'[Last].there /\ trees'[Last].result # "none"
      BY <1>1, <1>3, <2>1, <2>4, <3>1 DEF HasResult
    <3>3. QED  BY <1>2, <3>2 DEF HasResult
  <2>5. QED  BY <2>3, <2>4
<1>6. QED  BY <1>1, <1>2, <1>3, <1>4, <1>5 DEF Ordered

(* Pruning spares the latest of the closed work trees before an older one.  *)
LEMMA PruneOrder ==
  ASSUME LifeInv, Finish, Ordered
  PROVE  Ordered'
<1>a. /\ TypeOK /\ GateInv /\ Last \in Nat
  BY LifeIs
<1>1. /\ run.step = "finish" /\ UNCHANGED <<results, gates>>
      /\ trees' = [n \in Numbers |-> IF n \in Pruned THEN NoTree ELSE trees[n]]
  BY DEF Finish
<1>2. ASSUME NEW m \in Numbers, m < Last, trees'[m].there
      PROVE  trees[m].there /\ HasResult(Last) /\ HasResult(Last)'
  <2>1. m \notin Pruned /\ trees[m].there
    BY <1>1, <1>2 DEF NoTree
  <2>2. HasResult(Last) /\ Last \in Numbers /\ Last \in gates.closeout /\ m \in gates.closeout
    <3>1. HasResult(Last)
      BY <1>2, <2>1 DEF Ordered
    <3>2. Last \in 1..Last /\ m \in 1..Last
      BY <1>a, <1>2, NumbersAreBounded
    <3>3. QED  BY <1>a, <3>1, <3>2, LastType DEF GateInv
  <2>3. m \in Closed /\ Last \in Closed
    BY <2>1, <2>2 DEF Closed, HasResult
  <2>4. Keep # 0
    <3>1. Closed \in SUBSET Numbers
      BY DEF Closed
    <3>2. IsFiniteSet(Above(Closed, m))
      <4>1. IsFiniteSet(1..MaxBatch)
        BY FS_Interval, LifecycleAssumption
      <4>2. Above(Closed, m) \in SUBSET (1..MaxBatch)
        BY <3>1 DEF Above, Numbers
      <4>3. QED  BY <4>1, <4>2, FS_Subset
    <3>3. Cardinality(Above(Closed, m)) \in Nat
      BY <3>2, FS_CardinalityType
    <3>4. ~(Cardinality(Above(Closed, m)) >= Keep)
      BY <2>1, <2>3 DEF Pruned
    <3>5. QED  BY <3>3, <3>4
  <2>5. Above(Closed, Last) = {}
    <3>1. \A n \in Closed : n \in Numbers /\ n \in gates.closeout
      BY DEF Closed
    <3>2. \A n \in Closed : ~(n > Last)
      BY <3>1, LifeIs
    <3>3. QED  BY <3>2 DEF Above
  <2>6. Last \notin Pruned
    BY <2>4, <2>5, FS_EmptySet, LifecycleAssumption DEF Pruned
  <2>7. trees'[Last] = trees[Last] /\ Last' = Last
    BY <1>1, <2>2, <2>6 DEF Last
  <2>8. QED  BY <2>1, <2>2, <2>7 DEF HasResult
<1>3. ASSUME NEW n \in gates.closeout, HasFile(n)'  PROVE n \in results
  <2>1. n \in Numbers
    BY <1>a DEF TypeOK
  <2>2. trees'[n] = trees[n]
    BY <1>1, <1>3, <2>1 DEF HasFile, NoTree
  <2>3. HasFile(n)
    BY <1>3, <2>2 DEF HasFile
  <2>4. QED  BY <1>1, <2>3 DEF Ordered
<1>4. Last' = Last
  BY <1>1 DEF Last
<1>5. QED  BY <1>1, <1>2, <1>3, <1>4 DEF Ordered

LastIsNat == Last \in Nat

LEMMA LastIsNatural == TypeOK => LastIsNat
BY LastType DEF LastIsNat

LEMMA RiseCloseout ==
  ASSUME LifeInv, LifeInv', RiseInv, Closeout
  PROVE  RiseInv'
<1> SUFFICES ASSUME faults <= 1
             PROVE  /\ faults = 0 => Interrupted' = {}
                    /\ RunRises' /\ StateRises'
                    /\ InOrder' => Ordered'
                    /\ CommitsRise'
  BY DEF Closeout, RiseInv
<1>1. /\ run.step = "closeout" /\ run'.n = run.n /\ run'.step \in {"support", "commit"}
      /\ gates'.closeout = gates.closeout \cup {run.n}
      /\ UNCHANGED <<results, ticked, due, commits, trees, state, faults>>
  BY GotoDoes DEF Closeout, LifeInv, TypeInv, TypeOK
<1>2. /\ ~Quiet /\ ~Quiet' /\ run.n \in Numbers /\ run.n \in Nat /\ Last \in Nat
      /\ BatchInv /\ GateInv /\ GateInv' /\ Last' \in Nat
  <2>1. ~Quiet /\ ~Quiet'
    BY <1>1 DEF Quiet
  <2>2. TypeOK' /\ GateInv'
    BY DEF LifeInv, TypeInv
  <2>3. LastIsNat'
    BY <2>2, LastIsNatural, PTL
  <2>4. QED  BY <2>1, <2>2, <2>3, LifeIs, NumbersAreBounded DEF LastIsNat
<1>3. run.n >= Last /\ run.n <= Last + 1
  BY <1>2 DEF RiseInv, RunRises, GateInv
<1>4. Last' = run.n
  <2>1. 1..Last' = (1..Last) \cup {run.n}
    BY <1>1, <1>2 DEF GateInv
  <2>2. run.n \in 1..(Last + 1)
    BY <1>2 DEF GateInv
  <2>3. Last' \in {Last, Last + 1} /\ run.n <= Last' /\ (Last' # Last => Last' = run.n)
    BY <1>2, <2>1, <2>2, CloseoutSteps
  <2>4. QED  BY <1>2, <1>3, <2>2, <2>3
<1>5. Last' = run.n /\ HasResult(run.n)
  <2>1. MyTree.there /\ MyTree.result # "none"
    BY <1>1, <1>2 DEF BatchInv, RunInv, Accepted
  <2>2. QED  BY <1>2, <1>4, <2>1, NumbersAreBounded DEF MyTree, HasResult
<1>6. Interrupted' \subseteq Interrupted
  BY <1>1 DEF Interrupted, Uncommitted, Committed
<1>7. InOrder' => Ordered'
  <2> SUFFICES ASSUME InOrder'  PROVE Ordered'
    OBVIOUS
  <2>0. InOrder
    BY <1>1, <1>6 DEF InOrder
  <2>1. HasResult(Last)'
    BY <1>1, <1>5 DEF HasResult
  <2>2. HasFile(run.n) => run.n \in results
    BY <1>1, <1>2 DEF BatchInv, RunInv, BeforeAgent
  <2>3. InOrder => Ordered
    BY DEF RiseInv
  <2>4. QED  BY <1>1, <2>0, <2>1, <2>2, <2>3 DEF Ordered, HasFile
<1>8. RunRises' /\ StateRises' /\ CommitsRise'
  BY <1>1, <1>2, <1>5 DEF RunRises, StateRises, CommitsRise, RiseInv
<1>9. QED  BY <1>6, <1>7, <1>8 DEF RiseInv

LEMMA LastIsNumber ==
  ASSUME LifeInv
  PROVE  Last \in Numbers \/ Last = 0
<1>1. Last \in 0..MaxBatch /\ Last \in Nat /\ MaxBatch \in Nat
  BY LifeIs, LastType
<1>2. QED  BY <1>1 DEF Numbers

LEMMA RiseCommit ==
  ASSUME LifeInv, OnceInv, RiseInv, Commit
  PROVE  RiseInv'
<1> SUFFICES ASSUME faults <= 1
             PROVE  /\ faults = 0 => Interrupted' = {}
                    /\ RunRises' /\ StateRises'
                    /\ InOrder' => Ordered'
                    /\ CommitsRise'
  BY DEF Commit, RiseInv
<1> DEFINE c == [n |-> run.n, recorded |-> run.n \in results]
           k == Len(commits) + 1
<1>a. /\ TypeInv /\ TypeOK /\ GateInv /\ Last \in Nat /\ (Last \in Numbers \/ Last = 0)
  BY LifeIs, LastIsNumber
<1>1. /\ run.step = "commit" /\ run'.step = "finish" /\ run'.n = run.n
      /\ commits' = Append(commits, c)
      /\ UNCHANGED <<results, gates, ticked, due, trees, faults>>
  BY <1>a, GotoDoes DEF Commit
<1>2. c.n = run.n /\ (c.recorded => run.n \in results) /\ run.n \in Numbers /\ run.n \in Nat
  BY <1>1, LifeIs, NumbersAreBounded DEF Quiet
<1>3. commits \in Seq([n : Numbers, recorded : BOOLEAN]) /\ c \in [n : Numbers, recorded : BOOLEAN]
  BY <1>a, <1>2 DEF TypeOK
<1> HIDE DEF c
<1>4. /\ DOMAIN commits' = DOMAIN commits \cup {k}
      /\ \A i \in DOMAIN commits : commits'[i] = commits[i] /\ i < k /\ i \in Nat
      /\ commits'[k] = c /\ k \in Nat
  BY <1>1, <1>3
<1>5. Committed' = Committed \cup {run.n}
  BY <1>a, <1>1, <1>2, <1>3, CommittedAppend
<1> HIDE DEF k
<1>6. Interrupted' \subseteq Interrupted
  BY <1>1, <1>5 DEF Interrupted, Uncommitted
<1>7. RunRises /\ StateRises /\ CommitsRise /\ (InOrder => Ordered) /\ run.n >= Last
  BY <1>1 DEF RiseInv, RunRises, Quiet
<1>8. InOrder' => Ordered'
  <2>1. InOrder' => InOrder
    BY <1>1, <1>6 DEF InOrder
  <2>2. Ordered => Ordered'
    BY <1>a, <1>1, OrderedKept DEF HasResult, HasFile, Last
  <2>3. QED  BY <1>7, <2>1, <2>2
<1>9. RunRises' /\ StateRises'
  BY <1>1, <1>7 DEF RunRises, StateRises, Quiet, Last
<1>10. ASSUME NEW i \in DOMAIN commits', NEW j \in DOMAIN commits', i < j
       PROVE  \/ commits'[i].n < commits'[j].n
              \/ commits'[i].n = commits'[j].n /\ ~commits'[i].recorded
  <2>1. i \in DOMAIN commits
    BY <1>4, <1>10
  <2>2. CASE j \in DOMAIN commits
    BY <1>4, <1>7, <1>10, <2>1, <2>2 DEF CommitsRise
  <2>3. CASE j = k
    <3>1. commits[i].n <= Last /\ commits[i].n \in Nat
      BY <1>a, <2>1, CommitsType, NumbersAreBounded DEF GateInv
    <3>2. commits[i].n = run.n => ~commits[i].recorded
      BY <1>1, <2>1 DEF OnceInv, Quiet
    <3>3. QED  BY <1>a, <1>2, <1>4, <1>7, <2>1, <2>3, <3>1, <3>2
  <2>4. QED  BY <1>4, <2>2, <2>3
<1>11. CommitsRise'
  BY <1>10 DEF CommitsRise
<1>12. QED  BY <1>6, <1>8, <1>9, <1>11 DEF RiseInv

(* The one crash.                                                          *)
LEMMA RiseBreak ==
  ASSUME LifeInv, RiseInv, Break
  PROVE  RiseInv'
<1> SUFFICES ASSUME faults' <= 1
             PROVE  /\ faults' = 0 => Interrupted' = {}
                    /\ RunRises' /\ StateRises'
                    /\ InOrder' => Ordered'
                    /\ CommitsRise'
  BY DEF RiseInv
<1>a. /\ TypeInv /\ TypeOK /\ GateInv /\ BatchInv /\ Last \in Nat /\ faults \in Nat
      /\ (Last \in Numbers \/ Last = 0)
  BY LifeIs, LastIsNumber, LifecycleAssumption DEF TypeOK
<1>1. /\ faults' = faults + 1 /\ run'.step = "idle"
      /\ state'.n = state.n /\ state'.tree = state.tree
      /\ UNCHANGED <<results, gates, ticked, due, commits, trees>>
  BY <1>a DEF Break, disk, IdleRun, TypeOK, RuntimeState
<1>2. faults = 0 /\ faults' = 1
  BY <1>a, <1>1
<1>3. Interrupted = {} /\ RunRises /\ StateRises /\ Ordered /\ CommitsRise
  BY <1>2 DEF RiseInv, InOrder
<1>4. Last' = Last /\ Uncommitted' = Uncommitted /\ StateTree' = StateTree
  BY <1>1 DEF Last, Uncommitted, Committed, StateTree
<1>5. RunRises' /\ StateRises'
  <2>1. ~Quiet /\ StateTree => state.n >= Last
    BY <1>a, <1>3 DEF BatchInv, RunInv, RunRises, StateTree
  <2>2. StateTree => state.n >= Last
    BY <1>3, <2>1 DEF StateRises
  <2>3. QED  BY <1>1, <1>4, <2>2 DEF RunRises, StateRises, Quiet
<1>6. InOrder' => Ordered'
  <2>1. CASE run.step = "copy"
    <3>1. Interrupted' = {}
      BY <1>3, <1>4, <2>1 DEF Interrupted
    <3>2. QED  BY <1>2, <3>1 DEF InOrder
  <2>2. CASE run.step # "copy"
    BY <1>a, <1>1, <1>3, <2>2, OrderedKept DEF HasResult, HasFile, Last
  <2>3. QED  BY <2>1, <2>2
<1>7. QED  BY <1>1, <1>2, <1>3, <1>5, <1>6 DEF CommitsRise

LEMMA RiseNext ==
  ASSUME LifeInv, LifeInv', OnceInv, RiseInv, [Next]_vars
  PROVE  RiseInv'
<1>a. /\ TypeInv /\ TypeOK /\ GateInv /\ BatchInv /\ TreeInv /\ Last \in Nat
      /\ (Last \in Numbers \/ Last = 0)
      /\ \A n \in gates.closeout : n \in Numbers
  BY LifeIs, LastIsNumber DEF TypeOK
<1>b. faults <= 1 => RunRises /\ StateRises
  BY DEF RiseInv
<1>c. ~Quiet => (state.tree => state.n = run.n) /\ run.n \in Nat
  BY <1>a, LifeIs, NumbersAreBounded DEF BatchInv, RunInv
<1>1. CASE \/ \E scope \in Scopes : Launch(scope)
           \/ RefuseToStart \/ Start \/ EndOfScope
           \/ RefuseToContinue \/ RejectContinued \/ ContinueCommitted
  <2>1. UNCHANGED <<results, commits, gates>> /\ Quiet'
    BY <1>a, <1>1, RunRests
  <2>2. Quiet /\ trees' = trees /\ faults' = faults
    BY <1>1 DEF Launch, RefuseToStart, Start, EndOfScope, RefuseToContinue, RejectContinued,
                ContinueCommitted, Quiet, disk
  <2>3. \/ ~state'.tree
        \/ state'.n = state.n /\ state'.tree = state.tree
    <3>1. CASE RefuseToStart
      BY <3>1 DEF RefuseToStart, FreshState
    <3>2. CASE RefuseToContinue \/ RejectContinued
      BY <1>a, <3>2, FailDoes DEF RefuseToContinue, RejectContinued
    <3>3. CASE ContinueCommitted
      BY <1>a, <3>3 DEF ContinueCommitted, TypeOK, RuntimeState
    <3>4. QED  BY <1>1, <3>1, <3>2, <3>3 DEF Launch, Start, EndOfScope
  <2>4. Ordered => Ordered'
    BY <1>a, <2>1, <2>2, OrderedKept DEF HasResult, HasFile, Last, Quiet
  <2>5. Quiet' /\ StateTree' => StateTree /\ state'.n = state.n
    BY <2>2, <2>3 DEF StateTree
  <2>6. QED  BY <1>b, <2>1, <2>2, <2>4, <2>5, RiseKept DEF StateRises, Quiet
<1>2. CASE Finish
  <2>1. /\ UNCHANGED <<results, commits, gates, faults>> /\ Quiet' /\ ~Quiet /\ run.step = "finish"
    BY <1>a, <1>2, RunRests DEF Finish, Quiet
  <2>2. state'.n = state.n /\ state'.tree = state.tree
    BY <1>a, <1>2 DEF Finish, TypeOK, RuntimeState
  <2>3. QED
    BY <1>2, <1>b, <1>c, <2>1, <2>2, PruneOrder, RiseKept DEF RunRises, StateTree
<1>3. CASE RunAgent
  <2>1. /\ UNCHANGED <<results, commits, gates, faults>> /\ ~Quiet /\ ~Quiet'
        /\ run'.n = run.n /\ run.step = "implement"
    BY <1>a, <1>3, AgentDoes DEF RunAgent, Quiet
  <2>2. faults <= 1 => run.n >= Last
    BY <1>b, <2>1 DEF RunRises
  <2>3. QED  BY <1>3, <2>1, <2>2, AgentOrder, RiseKept
<1>4. CASE \/ CreateWorktree \/ CopyResult \/ Validate \/ CheckMerge \/ WriteJournal \/ Sync
           \/ Tick \/ MarkSupportDue \/ WriteSupportGate
  <2>1. /\ UNCHANGED <<commits, faults>>
        /\ gates'.closeout = gates.closeout
    BY <1>a, <1>4, ValidateDoes, JournalDoes
       DEF CreateWorktree, CopyResult, CheckMerge, Sync, Tick, MarkSupportDue,
           WriteSupportGate, disk, TypeOK
  <2>2. /\ ~Quiet /\ results \subseteq results'
        /\ Quiet' \/ (~Quiet' /\ run'.n = run.n)
    BY <1>a, <1>4, RunMoves
  <2>3. \/ run.step \notin {"support", "commit"}
        \/ run.step = "support" /\ run'.step = "commit" /\ run'.n = run.n
    BY <1>a, <1>4, ValidateDoes, JournalDoes, GotoDoes
       DEF CreateWorktree, CopyResult, CheckMerge, Sync, Tick, MarkSupportDue, WriteSupportGate
  <2>4. Quiet' => state'.n = state.n /\ state'.tree = state.tree
    <3>1. CASE Validate \/ WriteJournal
      BY <1>a, <3>1, ValidateDoes, JournalDoes
    <3>2. CASE CheckMerge
      BY <1>a, <3>2, FailDoes, SetPhaseDoes DEF CheckMerge
    <3>3. CASE CreateWorktree \/ CopyResult \/ Sync \/ Tick \/ MarkSupportDue \/ WriteSupportGate
      BY <1>a, <3>3, GotoDoes
         DEF CreateWorktree, CopyResult, Sync, Tick, MarkSupportDue, WriteSupportGate, Quiet
    <3>4. QED  BY <1>4, <3>1, <3>2, <3>3
  <2>5. ASSUME faults <= 1, Ordered  PROVE Ordered'
    <3>1. run.n >= Last /\ run.n \in Nat
      BY <1>b, <1>c, <2>2, <2>5 DEF RunRises
    <3>2. CASE CopyResult
      <4>1. /\ run.step = "copy" /\ results' = CopiedResults(run.n) /\ trees' = trees
        BY <3>2 DEF CopyResult
      <4>2. \A n : HasFile(n)' = HasFile(n) /\ HasResult(n)' = HasResult(n)
        BY <4>1 DEF HasFile, HasResult
      <4>3. \A n \in gates.closeout : HasFile(n)' => n \in results'
        BY <2>5, <4>1, <4>2 DEF Ordered, CopiedResults
      <4>4. Last' = Last
        BY <2>1 DEF Last
      <4>5. QED  BY <2>1, <2>5, <4>1, <4>3, <4>4 DEF Ordered, HasResult
    <3>3. CASE CreateWorktree
      <4>1. /\ run.step = "worktree"
            /\ \A m \in Numbers : m # run.n => trees'[m] = trees[m]
            /\ trees'[run.n].result = MyTree.result /\ trees'[run.n].there
        BY <1>a, <3>3, PlaceDoes
      <4>2. \A m \in Numbers : trees'[m].result = trees[m].result
        BY <4>1 DEF MyTree
      <4>3. \A m \in Numbers : m < Last => m # run.n
        BY <1>a, <3>1, NumbersAreBounded
      <4>4. Last \in Numbers /\ HasResult(Last) => HasResult(Last)'
        BY <2>1, <4>1, <4>2 DEF HasResult, Last
      <4>5. QED
        BY <1>a, <2>1, <2>2, <2>5, <4>1, <4>2, <4>3, <4>4, OrderedKept DEF HasFile
    <3>4. CASE Validate \/ WriteJournal
      <4>1. /\ run.step \in {"validate", "journal"} /\ run.n \in Numbers /\ results' = results
        BY <1>a, <3>4, ValidateDoes, JournalDoes
      <4>2. \A m \in Numbers :
              /\ trees'[m].there <=> trees[m].there
              /\ trees[m].result # "none" => trees'[m].result # "none"
        <5>1. CASE Validate
          BY <1>a, <5>1, ValidateDoes, BugfixDoes DEF MyTree
        <5>2. CASE WriteJournal
          BY <1>a, <5>2, JournalDoes
        <5>3. QED  BY <3>4, <5>1, <5>2
      <4>3. \A m \in Numbers : HasFile(m)' => HasFile(m)
        <5>1. CASE Validate
          BY <1>a, <5>1, ValidateDoes, BugfixDoes DEF MyTree, HasFile
        <5>2. CASE WriteJournal
          BY <1>a, <5>2, JournalDoes DEF HasFile
        <5>3. QED  BY <3>4, <5>1, <5>2
      <4>4. Last \in Numbers /\ HasResult(Last) => HasResult(Last)'
        <5>1. Last' = Last
          BY <2>1 DEF Last
        <5>2. QED  BY <4>2, <5>1 DEF HasResult
      <4>5. /\ \A m \in Numbers : m < Last /\ trees'[m].there => trees[m].there
            /\ \A n \in gates.closeout : HasFile(n)' => HasFile(n)
            /\ \A n \in gates.closeout : n \in results => n \in results'
        BY <1>a, <4>1, <4>2, <4>3
      <4>6. QED  BY <1>a, <2>1, <2>5, <4>1, <4>4, <4>5, OrderedKept
    <3>5. CASE CheckMerge \/ Sync \/ Tick \/ MarkSupportDue \/ WriteSupportGate
      <4>1. trees' = trees /\ run.step # "copy"
        BY <3>5 DEF CheckMerge, Sync, Tick, MarkSupportDue, WriteSupportGate, disk
      <4>2. QED
        BY <1>a, <2>1, <2>2, <2>5, <4>1, OrderedKept DEF HasFile, HasResult, Last
    <3>6. QED  BY <1>4, <3>2, <3>3, <3>4, <3>5
  <2>6. faults <= 1 /\ ~Quiet' => run'.n >= Last
    BY <1>b, <2>2 DEF RunRises
  <2>7. faults <= 1 /\ Quiet' /\ StateTree' => state'.n >= Last
    BY <1>b, <1>c, <2>2, <2>4 DEF RunRises, StateTree
  <2>8. QED  BY <2>1, <2>2, <2>3, <2>5, <2>6, <2>7, RiseKept
<1>5. CASE Closeout
  BY <1>5, RiseCloseout
<1>6. CASE Commit \/ Break
  BY <1>6, RiseCommit, RiseBreak
<1>7. ASSUME NEW scope \in Scopes, DryRun(scope)  PROVE RiseInv'
  <2>1. /\ UNCHANGED <<results, commits, trees, run, faults, gates>>
        /\ state' = state \/ ~state'.tree
    BY <1>a, <1>7, RepairsNothing DEF DryRun, FreshState
  <2>2. /\ Last' = Last /\ Interrupted' = Interrupted /\ InOrder' = InOrder
        /\ Ordered' = Ordered /\ CommitsRise' = CommitsRise /\ RunRises' = RunRises
    BY <2>1 DEF Last, Interrupted, Uncommitted, Committed, InOrder, Ordered, HasResult, HasFile,
                CommitsRise, RunRises, Quiet
  <2>3. StateRises => StateRises'
    BY <2>1, <2>2 DEF StateRises, Quiet, StateTree
  <2>4. QED  BY <2>1, <2>2, <2>3 DEF RiseInv
<1>8. CASE Select
  <2> DEFINE n == NextBatchNumber
  <2>1. /\ run.step = "select" /\ gates' = gates /\ UNCHANGED <<results, commits, trees, faults>>
        /\ ~state'.tree
        /\ \/ run'.step = "idle"
           \/ run'.step = "worktree" /\ run'.n = n
    BY <1>a, <1>8, SelectDoes
  <2>2. n >= Last
    BY SelectedRises
  <2> HIDE DEF n
  <2>3. Ordered => Ordered'
    BY <1>a, <2>1, OrderedKept DEF HasResult, HasFile, Last
  <2>4. (~Quiet' => run'.n >= Last) /\ ~StateTree'
    BY <2>1, <2>2 DEF Quiet, StateTree
  <2>5. QED  BY <2>1, <2>3, <2>4, RiseKept
<1>9. CASE RestartAgent \/ Resume
  <2> DEFINE n == ContinuedBatch
  <2>1. /\ run.step = "idle" /\ n \in Numbers /\ gates' = gates /\ n \notin Committed
        /\ UNCHANGED <<commits, trees, faults>> /\ results \subseteq results'
        /\ run'.step \in {"implement", "validate"} /\ run'.n = n
    BY <1>a, <1>9, RestartDoes, ResumeDoes DEF MayContinue, CopiedResults
  <2>2. faults <= 1 => n >= Last
    BY <2>1, ContinuedRises
  <2> HIDE DEF n
  <2>3. Ordered => Ordered'
    BY <1>a, <2>1, OrderedKept DEF HasResult, HasFile, Last
  <2>4. QED  BY <2>1, <2>2, <2>3, RiseKept DEF Quiet
<1>10. CASE Clean
  <2>1. PICK n : /\ n = Min(Incomplete) /\ Incomplete # {} /\ run.step = "idle"
                 /\ trees' = [trees EXCEPT ![n] = NoTree] /\ results' = results \ {n}
                 /\ gates' = [gates EXCEPT !.e2e = @ \ {n}, !.journal = @ \ {n},
                                           !.closeout = @ \ {n}]
                 /\ state' = NoState /\ UNCHANGED <<commits, run, faults>>
    BY <1>10 DEF Clean
  <2>2. n > Last /\ n \in Numbers
    BY <1>a, <2>1, IncompleteHasMin DEF TypeOK
  <2>3. gates'.closeout = gates.closeout /\ n \notin gates.closeout
    BY <1>a, <2>1, <2>2, LifeIs DEF TypeOK
  <2>4. \A m \in Numbers : m # n => trees'[m] = trees[m]
    BY <1>a, <2>1 DEF TypeOK
  <2>5. \A m \in Numbers : m <= Last => m # n
    BY <1>a, <2>2, NumbersAreBounded
  <2>6. Ordered => Ordered'
    <3>1. \A m \in Numbers : m < Last => m # n
      BY <1>a, <2>5, NumbersAreBounded
    <3>2. Last \in Numbers /\ HasResult(Last) => HasResult(Last)'
      <4>1. Last' = Last
        BY <2>3 DEF Last
      <4>2. Last \in Numbers => trees'[Last] = trees[Last]
        BY <1>a, <2>4, <2>5
      <4>3. QED  BY <4>1, <4>2 DEF HasResult
    <3>3. \A m \in gates.closeout : (HasFile(m)' => HasFile(m)) /\ (m \in results => m \in results')
      BY <1>a, <2>1, <2>3, <2>4 DEF HasFile
    <3>4. QED  BY <1>a, <2>1, <2>3, <2>4, <3>1, <3>2, <3>3, OrderedKept
  <2>7. Quiet' /\ ~StateTree'
    BY <2>1 DEF Quiet, StateTree, NoState
  <2>8. QED  BY <2>1, <2>3, <2>6, <2>7, RiseKept
<1>11. CASE UNCHANGED vars
  BY <1>11 DEF vars, RiseInv, RunRises, StateRises, Interrupted, InOrder, Ordered, CommitsRise,
               Uncommitted, Committed, Last, Quiet, StateTree, HasResult, HasFile
<1>12. QED
  BY <1>1, <1>2, <1>3, <1>4, <1>5, <1>6, <1>7, <1>8, <1>9, <1>10, <1>11
     DEF Next, Work, Operator, Continue

(* The commits of a runtime that crashed, or stopped on an error, at most  *)
(* once are in the order of their batches' numbers, and a batch whose      *)
(* result was in the project is not committed again.                       *)
THEOREM CommitsInOrder == Spec => [](faults <= 1 => CommitsRise)
<1>1. Init => RiseInv
  <2> SUFFICES ASSUME Init  PROVE RiseInv
    OBVIOUS
  <2>1. /\ gates.closeout = {} /\ commits = <<>> /\ run.step = "idle" /\ ~state.tree
        /\ \A n \in Numbers : trees[n] = NoTree
    BY DEF Init, IdleRun, NoState
  <2>2. Interrupted = {} /\ RunRises /\ StateRises /\ Ordered /\ CommitsRise
    BY <2>1 DEF Interrupted, Uncommitted, RunRises, StateRises, StateTree, Quiet, Ordered, NoTree,
                CommitsRise
  <2>3. QED  BY <2>2 DEF RiseInv
<1>2. LifeInv /\ LifeInv' /\ OnceInv /\ RiseInv /\ [Next]_vars => RiseInv'
  BY RiseNext
<1>3. RiseInv => (faults <= 1 => CommitsRise)
  BY DEF RiseInv
<1>4. QED  BY <1>1, <1>2, <1>3, LifeAlways, OnceAlways, PTL DEF Spec
=============================================================================
