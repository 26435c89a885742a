------------------------ MODULE SharedProject_proofs ------------------------
(* Proofs about SharedProject, for any items, files, directories, agents,  *)
(* operators and numbers of batches.                                       *)
EXTENDS SharedProject, FiniteSetTheorems, TLAPS

USE SharedAssumption

-----------------------------------------------------------------------------
(* The plan of a parallel run.                                             *)

(* A function that is a plan of the first n items.                         *)
PlanUpTo(n, plan) ==
  plan = [k \in 0..n |-> IF k = 0 THEN << >> ELSE Extended(plan[k - 1], ItemSeq[k])]

(* Stands in for induction, which the provers cannot instantiate: a set of *)
(* numbers that is not empty has a least one.                              *)
LEMMA LeastNat ==
  ASSUME NEW S \in SUBSET Nat, S # {}
  PROVE  \E m \in S : \A k \in S : m <= k
<1> DEFINE Below(n) == 0..n
           Sets == {Below(n) : n \in S}
<1>1. Sets \subseteq FiniteSubsetsOf(Nat) /\ Sets # {}
  <2>1. \A n \in S : Below(n) \in FiniteSubsetsOf(Nat)
    BY FS_Interval DEF FiniteSubsetsOf
  <2>2. PICK n \in S : TRUE
    OBVIOUS
  <2> HIDE DEF Below
  <2>3. QED  BY <2>1, <2>2
<1>2. PICK B \in Sets : \A C \in Sets : ~(<<C, B>> \in StrictSubsetOrdering(Nat))
  <2> HIDE DEF Sets
  <2>1. QED  BY <1>1, FS_StrictSubsetOrderingWellFounded, WFMin
<1>3. PICK m \in S : B = 0..m
  BY <1>2
<1>4. ASSUME NEW k \in S, k < m  PROVE FALSE
  <2>1. 0..k \subseteq 0..m /\ m \in 0..m /\ m \notin 0..k
    BY <1>4
  <2>2. <<0..k, B>> \in StrictSubsetOrdering(Nat)
    BY <1>3, <2>1 DEF StrictSubsetOrdering
  <2>3. QED  BY <1>2, <2>2
<1>5. QED  BY <1>4

(* Recursion over the items defines a plan: the least number of items      *)
(* without one would follow a number with one.                             *)
LEMMA PlanExists ==
  ASSUME NEW n \in Nat PROVE \E plan : PlanUpTo(n, plan)
<1> DEFINE Bad == {k \in Nat : ~\E plan : PlanUpTo(k, plan)}
<1> SUFFICES ASSUME Bad # {} PROVE FALSE
  OBVIOUS
<1>1. PICK m \in Bad : \A k \in Bad : m <= k
  BY LeastNat
<1>2. CASE m = 0
  <2>1. PlanUpTo(0, [k \in 0..0 |-> << >>])
    BY DEF PlanUpTo
  <2>2. QED  BY <1>1, <1>2, <2>1
<1>3. CASE m # 0
  <2>1. m - 1 \in Nat /\ m - 1 \notin Bad
    BY <1>1, <1>3
  <2>2. PICK plan : PlanUpTo(m - 1, plan)
    BY <2>1
  <2> DEFINE longer == [k \in 0..m |-> IF k = m THEN Extended(plan[m - 1], ItemSeq[m]) ELSE plan[k]]
  <2>3. \A k \in 0..m - 1 : longer[k] = plan[k]
    BY <1>1
  <2>4. ASSUME NEW k \in 0..m
        PROVE  longer[k] = IF k = 0 THEN << >> ELSE Extended(longer[k - 1], ItemSeq[k])
    <3>1. CASE k = m
      <4>1. m - 1 \in 0..m - 1  BY <1>1, <1>3
      <4>2. longer[m - 1] = plan[m - 1]  BY <2>3, <4>1
      <4>3. QED  BY <1>3, <3>1, <4>2
    <3>2. CASE k # m
      <4>1. k \in 0..m - 1 /\ (k # 0 => k - 1 \in 0..m - 1)  BY <1>1, <3>2
      <4>2. plan[k] = IF k = 0 THEN << >> ELSE Extended(plan[k - 1], ItemSeq[k])
        BY <2>2, <4>1 DEF PlanUpTo
      <4>3. longer[k] = plan[k] /\ (k # 0 => longer[k - 1] = plan[k - 1])
        BY <2>3, <4>1
      <4> HIDE DEF longer
      <4>4. QED  BY <4>2, <4>3
    <3>3. QED  BY <3>1, <3>2
  <2>5. longer = [k \in 0..m |-> longer[k]]
    OBVIOUS
  <2>6. PlanUpTo(m, longer)
    <3> HIDE DEF longer
    <3>1. QED  BY <2>4, <2>5 DEF PlanUpTo
  <2>7. QED  BY <1>1, <2>6
<1>4. QED  BY <1>2, <1>3

(* So the function that CHOOSE picks for Planned satisfies its recursion.  *)
LEMMA PlannedIsPlan == PlanUpTo(Len(ItemSeq), Planned)
<1>1. \E plan : PlanUpTo(Len(ItemSeq), plan)
  BY PlanExists
<1>2. Planned = CHOOSE plan : PlanUpTo(Len(ItemSeq), plan)
  BY DEF Planned, PlanUpTo, Extended
<1>3. QED  BY <1>1, <1>2

(* No two agents work on one item or on one file.                          *)
Apart(shards) ==
  \A s, t \in DOMAIN shards : s # t =>
    \A i \in shards[s], j \in shards[t] : i # j /\ Affected[i] \cap Affected[j] = {}

(* A parallel plan of any items is at most as wide as allowed; its items   *)
(* are claimed by nobody else, and no two of its agents get the same item  *)
(* or the same affected file.                                              *)
THEOREM PlanIsFree ==
  /\ Planned[Len(ItemSeq)] \in Seq(SUBSET Items)
  /\ Len(Planned[Len(ItemSeq)]) <= MaxParallel
  /\ \A s \in DOMAIN Planned[Len(ItemSeq)] : \A i \in Planned[Len(ItemSeq)][s] : Free(i)
  /\ Apart(Planned[Len(ItemSeq)])
<1> DEFINE N == Len(ItemSeq)
           Fits(shards) == /\ shards \in Seq(SUBSET Items)
                           /\ Len(shards) <= MaxParallel
                           /\ \A s \in DOMAIN shards : \A i \in shards[s] : Free(i)
                           /\ Apart(shards)
           Bad == {k \in 0..N : ~Fits(Planned[k])}
<1>1. N \in Nat
  OBVIOUS
<1>2. \A k \in 0..N : Planned[k] = IF k = 0 THEN << >> ELSE Extended(Planned[k - 1], ItemSeq[k])
  BY PlannedIsPlan DEF PlanUpTo
<1>3. ASSUME NEW shards, NEW i \in Items, Fits(shards)
      PROVE  Fits(Extended(shards, i))
  <2>1. CASE Extended(shards, i) = shards
    BY <1>3, <2>1
  <2>2. CASE Extended(shards, i) = Append(shards, {i}) /\ Len(shards) < MaxParallel /\ Free(i) /\ Independent(i, shards)
    <3>1. {i} \in SUBSET Items /\ Len(shards) \in Nat
      BY <1>3
    <3>2. /\ Append(shards, {i}) \in Seq(SUBSET Items)
          /\ Len(Append(shards, {i})) <= MaxParallel
          /\ \A s \in DOMAIN Append(shards, {i}) :
               Append(shards, {i})[s] = IF s = Len(shards) + 1 THEN {i} ELSE shards[s]
          /\ \A s \in DOMAIN Append(shards, {i}) : s = Len(shards) + 1 \/ s \in DOMAIN shards
      BY <1>3, <2>2, <3>1
    <3>3. \A j \in UNION {shards[k] : k \in DOMAIN shards} : i # j /\ Affected[i] \cap Affected[j] = {}
      BY <2>2 DEF Independent
    <3>4. Apart(Append(shards, {i}))
      BY <1>3, <3>2, <3>3 DEF Apart
    <3>5. QED  BY <1>3, <2>2, <3>2, <3>4
  <2>3. QED  BY <2>1, <2>2 DEF Extended
<1>4. Bad = {}
  <2> SUFFICES ASSUME Bad # {} PROVE FALSE
    OBVIOUS
  <2>1. PICK m \in Bad : \A k \in Bad : m <= k
    <3>1. Bad \in SUBSET Nat
      BY <1>1
    <3> HIDE DEF Bad
    <3>2. QED  BY <3>1, LeastNat
  <2>2. Fits(<< >>)
    BY DEF Apart
  <2>3. m # 0
    BY <1>1, <1>2, <2>1, <2>2
  <2>4. m - 1 \in 0..N /\ Fits(Planned[m - 1]) /\ ItemSeq[m] \in Items
    <3>1. m \in 1..N /\ m - 1 \in 0..N /\ ~(m <= m - 1)
      BY <1>1, <2>1, <2>3
    <3>2. m - 1 \notin Bad
      BY <2>1, <3>1
    <3>3. ItemSeq[m] \in Items
      BY <3>1 DEF Items
    <3> HIDE DEF N, Fits
    <3>4. QED  BY <3>1, <3>2, <3>3
  <2>5. Fits(Extended(Planned[m - 1], ItemSeq[m]))
    <3> HIDE DEF Fits
    <3>1. QED  BY <1>3, <2>4
  <2> HIDE DEF Fits
  <2>6. QED  BY <1>2, <2>1, <2>3, <2>5
<1>5. N \in 0..N
  BY <1>1
<1> HIDE DEF N
<1>6. Fits(Planned[N])
  BY <1>4, <1>5
<1>7. QED  BY <1>6 DEF N

-----------------------------------------------------------------------------
(* Types.                                                                  *)

(* A claim that was read keeps its file's name.                            *)
Names == External \cup Batches

Loaded == [name : Names, claim : Claim]

RunRecord ==
  [step : Steps, mode : {"serial", "parallel"}, batch : Batches, left : SUBSET Names,
   held : Loaded \cup {NoClaim}, loaded : SUBSET Loaded, broken : BOOLEAN,
   standing : SUBSET External, shards : Seq(SUBSET Items), at : Nat \ {0},
   declared : Seq(SUBSET Paths), local : Seq(SUBSET Files),
   paths : SUBSET Paths, dirty : SUBSET Files]

CommitRow == [files : [Files -> Content], claims : [Names -> Claim \cup {NoClaim}],
              checked : SUBSET Items, batch : {0} \cup Batches]

TablesOK ==
  /\ claims \in [Names -> Claim \cup {NoClaim}]
  /\ root \in [Files -> Content]
  /\ log \in Seq(CommitRow) /\ log # << >>
  /\ trees \in [Batches -> [0..MaxParallel -> Tree \cup {NoTree}]]
  /\ records \in [results : SUBSET Batches, closed : SUBSET Batches]
  /\ checked \in SUBSET Items
  /\ commands \in 0..MaxCommands

(* Steps from the runtime's own claim to the commit, and those of a merge. *)
InHand == {"claim", "agents", "gates", "ready", "merge", "copy", "local", "tick", "commit"}
Merging == {"merge", "copy", "local", "tick", "commit"}

(* Every shard has a tree from the start of its agent, and answers for all *)
(* of them are in before the gates.                                        *)
RunOK ==
  /\ run \in RunRecord
  /\ run.step = "held" => run.held \in Loaded
  /\ run.step \in {"idle", "load", "held", "claim", "clean"} =>
       run.declared = << >> /\ run.local = << >> /\ run.at = 1
  /\ run.step \in InHand =>
       /\ 1 <= Len(run.shards)
       /\ IF run.mode = "serial" THEN Len(run.shards) = 1 ELSE Len(run.shards) <= MaxParallel
       /\ run.at <= Len(run.shards)
       /\ Len(run.local) = Len(run.declared) /\ Len(run.declared) <= Len(run.shards)
       /\ run.step = "agents" => Len(run.declared) < Len(run.shards)
       /\ run.step \in {"claim", "agents", "gates", "ready"} => run.at = 1
       /\ run.step \in {"tick", "commit"} => run.at = Len(run.shards)
       /\ run.step \in {"gates", "ready"} \cup Merging => Len(run.declared) = Len(run.shards)
       /\ run.step # "claim" => \A s \in DOMAIN run.shards : TreeOf(s) \in Tree

Typed == TablesOK /\ RunOK

LEMMA TrackedIsTree ==
  ASSUME NEW files \in [Files -> Content]
  PROVE  Tracked(files) \in [Files -> Content]
BY DEF Tracked, Content

LEMMA IdleIsRun ==
  /\ IdleRun \in RunRecord
  /\ IdleRun.step = "idle" /\ IdleRun.declared = << >> /\ IdleRun.local = << >>
  /\ IdleRun.at = 1 /\ IdleRun.shards = << >> /\ IdleRun.standing = {} /\ IdleRun.loaded = {}
BY DEF IdleRun, RunRecord, Steps, Batches, Names

LEMMA StopOK == ASSUME Typed, Stop PROVE RunOK'
BY IdleIsRun DEF Stop, RunOK, InHand

LEMMA InitTyped == Init => Typed
<1> SUFFICES ASSUME Init PROVE Typed
  OBVIOUS
<1>1. RunOK  BY IdleIsRun DEF Init, RunOK, InHand
<1>2. root \in [Files -> Content] BY DEF Init, Content
<1>3. log \in Seq(CommitRow) /\ log # << >>
  <2>1. [files |-> Tracked(root), claims |-> claims, checked |-> {}, batch |-> 0] \in CommitRow
    BY <1>2, TrackedIsTree DEF Init, CommitRow, Names
  <2>2. QED  BY <2>1 DEF Init
<1>4. /\ claims \in [Names -> Claim \cup {NoClaim}]
      /\ trees \in [Batches -> [0..MaxParallel -> Tree \cup {NoTree}]]
      /\ records \in [results : SUBSET Batches, closed : SUBSET Batches]
      /\ checked \in SUBSET Items
      /\ commands \in 0..MaxCommands
  BY DEF Init, Names
<1>6. TablesOK
  BY <1>2, <1>3, <1>4 DEF TablesOK
<1>7. QED BY <1>1, <1>6 DEF Typed

LEMMA LaunchTyped == ASSUME Typed, NEW mode \in {"serial", "parallel"}, Launch(mode) PROVE Typed'
<1> USE DEF Typed
<1>1. TablesOK' BY DEF TablesOK, Launch, Operates
<1>2. RunOK' 
  BY IdleIsRun DEF RunOK, Launch, RunRecord, InHand, TablesOK, Names, Steps
<1>3. QED BY <1>1, <1>2

(* What normalizing and reconciling make of a claim: its tasks and files   *)
(* stay, a committed claim is not active, the others only lose their       *)
(* spelling.                                                               *)
LEMMA ClaimForms ==
  ASSUME NEW claim \in Claim, NEW c
  PROVE /\ Normalized(claim) \in Claim /\ Normalized(claim).tasks = claim.tasks /\ Normalized(claim).files = claim.files
        /\ Normalized(claim).status \in Statuses
        /\ Normalized(Normalized(claim)) = Normalized(claim)
        /\ Reconciled(c, claim) \in Claim
        /\ c \notin Committed => Reconciled(c, claim) = claim
        /\ c \in Committed => ~Active(Reconciled(c, claim))
        /\ Active(claim) <=> Active(Normalized(claim))
BY DEF Normalized, Reconciled, Claim, Statuses, Active

LEMMA ReadTyped == ASSUME Typed, NEW c \in DOMAIN claims, ReadClaim(c) PROVE Typed'
<1> USE DEF Typed
<1>1. TablesOK' BY DEF TablesOK, ReadClaim, OnlyRun
<1>2. c \in Names /\ HasShape(claims[c]) => Reconciled(c, Normalized(claims[c])) \in Claim
   BY ClaimForms DEF HasShape, TablesOK
<1>3. RunOK' 
  BY <1>2 DEF RunOK, ReadClaim, RunRecord, InHand, TablesOK, Names, Steps, Loaded
<1>4. QED BY <1>1, <1>3

LEMMA WriteBackTyped == ASSUME Typed, WriteBack PROVE Typed'
<1> USE DEF Typed
<1>1. TablesOK' BY DEF TablesOK, WriteBack, RunOK, Loaded
<1>3. RunOK' 
  BY DEF RunOK, WriteBack, RunRecord, InHand, Names, Steps
<1>4. QED BY <1>1, <1>3

LEMMA SelectedIsItems == Selected \in SUBSET Items
BY DEF Selected, Items


LEMMA HeadIsTree ==
  ASSUME Typed
  PROVE  /\ Len(log) \in Nat \ {0} /\ Tip \in CommitRow /\ head \in [Files -> Content]
<1>1. Len(log) \in Nat \ {0}
  BY DEF Typed, TablesOK
<1>2. log[Len(log)] \in CommitRow
  BY <1>1 DEF Typed, TablesOK
<1>3. QED BY <1>1, <1>2 DEF Tip, head, CommitRow

LEMMA StartTyped ==
  ASSUME Typed, NEW shards \in Seq(SUBSET Items), StartAgents(shards),
         run.step \in {"load", "claim"}, run.step = "load" => run.mode = "parallel",
         Len(shards) >= 1,
         IF run.mode = "serial" THEN Len(shards) = 1 ELSE Len(shards) <= MaxParallel,
         run.at = 1
  PROVE  RunOK' /\ trees' \in [Batches -> [0..MaxParallel -> Tree \cup {NoTree}]]
<1> USE DEF Typed
<1>1. [files |-> head, base |-> head] \in Tree
  BY HeadIsTree DEF Tree
<1>2. run.batch \in Batches /\ run \in RunRecord
  BY DEF RunOK, RunRecord
<1>3. trees' \in [Batches -> [0..MaxParallel -> Tree \cup {NoTree}]]
  BY <1>1, <1>2 DEF StartAgents, CreateTrees, TablesOK
<1>4. /\ run' = [run EXCEPT !.step = "agents", !.shards = shards, !.loaded = {}]
      /\ run.declared = << >> /\ run.local = << >>
  BY DEF StartAgents, RunOK
<1>5. ASSUME NEW s \in DOMAIN shards PROVE TreeOf(s)' \in Tree
  <2>1. TreeId(s) \in 0..MaxParallel /\ TreeId(s)' = TreeId(s) /\ run'.batch = run.batch
    BY <1>2, <1>4 DEF TreeId, RunRecord
  <2>2. trees'[run.batch][TreeId(s)] = IF trees[run.batch][TreeId(s)] = NoTree
                                       THEN [files |-> head, base |-> head]
                                       ELSE trees[run.batch][TreeId(s)]
    BY <1>2, <2>1 DEF StartAgents, CreateTrees, TablesOK
  <2>3. trees[run.batch][TreeId(s)] \in Tree \cup {NoTree}
    BY <1>2, <2>1 DEF TablesOK
  <2>4. QED  BY <1>1, <2>1, <2>2, <2>3 DEF TreeOf
<1>6. run' \in RunRecord
  BY <1>2, <1>4 DEF RunRecord, Steps
<1>7. /\ run'.step = "agents" /\ run'.shards = shards /\ run'.mode = run.mode /\ run'.at = 1
      /\ Len(run'.declared) = 0 /\ Len(run'.local) = 0 /\ Len(shards) \in Nat
  BY <1>2, <1>4 DEF RunRecord
<1>8. \A s \in DOMAIN run'.shards : TreeOf(s)' \in Tree
  BY <1>5, <1>7
<1>9. RunOK'
  BY <1>6, <1>7, <1>8 DEF RunOK, InHand, Merging
<1>10. QED  BY <1>3, <1>9

LEMMA LoadIsRead ==
  ASSUME Typed, LoadEnds
  PROVE  run.at = 1 /\ run.declared = << >> /\ run.local = << >> /\ run.step = "load"
BY DEF LoadEnds, Typed, RunOK
LEMMA PlanTyped == ASSUME Typed, Plan PROVE Typed'
<1>1. RunOK' /\ trees' \in [Batches -> [0..MaxParallel -> Tree \cup {NoTree}]]
  <2>1. Planned[Len(ItemSeq)] \in Seq(SUBSET Items) /\ 2 <= Len(Planned[Len(ItemSeq)])
        /\ Len(Planned[Len(ItemSeq)]) <= MaxParallel /\ Len(Planned[Len(ItemSeq)]) \in Nat
    BY PlanIsFree DEF Plan
  <2>2. run.step = "load" /\ run.mode = "parallel" /\ StartAgents(Planned[Len(ItemSeq)]) /\ run.at = 1
    BY LoadIsRead DEF Plan
  <2> HIDE DEF Planned
  <2>3. QED  BY <2>1, <2>2, StartTyped
<1>2. TablesOK' BY <1>1 DEF Typed, TablesOK, Plan
<1>3. QED BY <1>1, <1>2 DEF Typed

LEMMA AcceptTyped == ASSUME Typed, AcceptClaims PROVE Typed'
<1>1. TablesOK' BY DEF Typed, TablesOK, AcceptClaims, OnlyRun
<1>2. /\ run \in RunRecord /\ run.mode = "serial" /\ <<Selected>> \in Seq(SUBSET Items) /\ Len(<<Selected>>) = 1
      /\ run.declared = << >> /\ run.local = << >> /\ run.at = 1
      /\ run' = [run EXCEPT !.step = "claim", !.shards = <<Selected>>]
  BY SelectedIsItems, LoadIsRead DEF AcceptClaims, Typed, RunOK
<1>3. run' \in RunRecord /\ run'.step = "claim" /\ run'.mode = "serial" /\ Len(run'.shards) = 1 /\ run'.at = 1
      /\ run'.declared = << >> /\ run'.local = << >>
  <2> HIDE DEF Selected
  <2>1. QED BY <1>2 DEF RunRecord, Steps
<1>4. RunOK'  BY <1>3 DEF RunOK, InHand, Merging
<1>5. QED BY <1>1, <1>4 DEF Typed

(* The runtime's own claim *)
LEMMA MarkOK == ASSUME Typed, run.step \in InHand, NEW status \in Statuses, Mark(status)
   PROVE claims' \in [Names -> Claim \cup {NoClaim}] /\ \A c \in External : claims'[c] = claims[c]
<1>1. CASE run.mode = "parallel"
  BY <1>1 DEF Mark, Typed, TablesOK
<1>2. CASE run.mode = "serial"
  <2>1. run.shards[1] \in SUBSET Items /\ run.batch \in Batches
    BY <1>2 DEF Typed, RunOK, RunRecord
  <2>2. [tasks |-> run.shards[1], files |-> UNION {Affected[i] : i \in run.shards[1]},
                     status |-> status, schema |-> 1] \in Claim
    BY <2>1 DEF Claim, Statuses
  <2>3. QED BY <1>2, <2>1, <2>2 DEF Mark, Typed, TablesOK, Names
<1>3. QED BY <1>1, <1>2 DEF Typed, RunOK, RunRecord

LEMMA WriteClaimTyped == ASSUME Typed, WriteClaim PROVE Typed'
<1>0. run.step \in InHand /\ run.shards \in Seq(SUBSET Items)
  BY DEF WriteClaim, InHand, Typed, RunOK, RunRecord
<1>1. RunOK' /\ trees' \in [Batches -> [0..MaxParallel -> Tree \cup {NoTree}]]
  BY <1>0, StartTyped DEF WriteClaim, Typed, RunOK
<1>2. claims' \in [Names -> Claim \cup {NoClaim}]
  BY <1>0, MarkOK DEF WriteClaim, Statuses
<1>3. TablesOK' BY <1>1, <1>2 DEF Typed, TablesOK, WriteClaim
<1>4. QED BY <1>1, <1>3 DEF Typed

LEMMA ReturnsTyped == ASSUME Typed, AgentReturns PROVE Typed'
<1> DEFINE s == Len(run.declared) + 1
<1>1. /\ run \in RunRecord /\ run.step = "agents" /\ s \in DOMAIN run.shards /\ TreeOf(s) \in Tree
      /\ TreeId(s) \in 0..MaxParallel /\ run.batch \in Batches
      /\ \A t \in DOMAIN run.shards : TreeOf(t) \in Tree /\ TreeId(t) \in 0..MaxParallel
  BY DEF Typed, RunOK, RunRecord, AgentReturns, InHand, TreeId
<1>2. PICK o \in Outcomes :
       /\ trees' = [trees EXCEPT ![run.batch][TreeId(s)].files =
                      [f \in Files |-> IF f \in o.removed THEN {}
                                       ELSE IF f \in o.edited THEN @[f] \cup run.shards[s] ELSE @[f]]]
       /\ run' = [run EXCEPT !.declared = Append(@, o.declared), !.local = Append(@, o.local),
                             !.step = IF s = Len(run.shards) THEN "gates" ELSE @]
  BY DEF AgentReturns
<1> DEFINE new == [f \in Files |-> IF f \in o.removed THEN {}
                                  ELSE IF f \in o.edited THEN TreeOf(s).files[f] \cup run.shards[s]
                                  ELSE TreeOf(s).files[f]]
           tree == [TreeOf(s) EXCEPT !.files = new]
<1>3. trees' = [trees EXCEPT ![run.batch] = [@ EXCEPT ![TreeId(s)] = tree]]
  BY <1>1, <1>2 DEF TreeOf, Typed, TablesOK, Tree
<1>4. tree \in Tree
  <2>1. run.shards[s] \in SUBSET Items
    BY <1>1 DEF RunRecord
  <2>2. new \in [Files -> Content]
    BY <1>1, <2>1 DEF Tree, Content
  <2> HIDE DEF new
  <2>3. QED  BY <1>1, <2>2 DEF Tree
<1>5. trees' \in [Batches -> [0..MaxParallel -> Tree \cup {NoTree}]]
  <2> HIDE DEF tree
  <2>1. QED BY <1>1, <1>3, <1>4 DEF Typed, TablesOK
<1>6. TablesOK'
  BY <1>1, <1>5 DEF Typed, TablesOK, AgentReturns, RunRecord
<1>7. \A t \in DOMAIN run.shards : TreeOf(t)' = IF TreeId(t) = TreeId(s) THEN tree ELSE TreeOf(t)
  <2> HIDE DEF tree
  <2>1. run'.batch = run.batch /\ run'.mode = run.mode  BY <1>1, <1>2 DEF RunRecord
  <2>2. QED BY <1>1, <1>3, <2>1 DEF Typed, TablesOK, TreeOf, TreeId
<1>8. /\ run' \in RunRecord /\ run'.shards = run.shards /\ run'.at = run.at /\ run'.mode = run.mode
      /\ Len(run'.declared) = s /\ Len(run'.local) = s
      /\ run'.step = IF s = Len(run.shards) THEN "gates" ELSE "agents"
  <2>1. o.declared \in SUBSET Paths /\ o.local \in SUBSET Files  OBVIOUS
  <2>2. Len(run.local) = Len(run.declared)  BY <1>1 DEF Typed, RunOK, InHand
  <2>3. run.declared \in Seq(SUBSET Paths) /\ run.local \in Seq(SUBSET Files) /\ run.step = "agents"
    BY <1>1 DEF RunRecord
  <2>4. /\ Append(run.declared, o.declared) \in Seq(SUBSET Paths) /\ Len(Append(run.declared, o.declared)) = s
        /\ Append(run.local, o.local) \in Seq(SUBSET Files) /\ Len(Append(run.local, o.local)) = s
    BY <2>1, <2>2, <2>3
  <2> HIDE DEF s
  <2>5. QED BY <1>1, <1>2, <2>3, <2>4 DEF RunRecord, Steps
<1>9. RunOK'
  <2>1. \A t \in DOMAIN run'.shards : TreeOf(t)' \in Tree
    <3> HIDE DEF tree
    <3>1. QED BY <1>1, <1>4, <1>7, <1>8
  <2>2. s \in Nat /\ Len(run.declared) \in Nat /\ Len(run.shards) \in Nat BY <1>1 DEF RunRecord
  <2>3. /\ 1 <= Len(run.shards)
        /\ IF run.mode = "serial" THEN Len(run.shards) = 1 ELSE Len(run.shards) <= MaxParallel
        /\ run.at <= Len(run.shards) /\ run.at = 1
        /\ s <= Len(run.shards)
    BY <1>1, <2>2 DEF Typed, RunOK, InHand
  <2> HIDE DEF s
  <2>4. s = Len(run.shards) \/ s < Len(run.shards)  BY <2>2, <2>3
  <2>5. QED  BY <1>8, <2>1, <2>3, <2>4 DEF RunOK, InHand, Merging
<1>10. QED BY <1>6, <1>9 DEF Typed

LEMMA RejectTyped == ASSUME Typed, Reject PROVE Typed'
<1>1. TablesOK' BY MarkOK DEF Typed, TablesOK, Reject, InHand, Statuses
<1>2. RunOK' BY StopOK DEF Reject
<1>3. QED BY <1>1, <1>2 DEF Typed

(* Steps of a batch in hand that only move it on. *)
LEMMA MoveTyped ==
  ASSUME Typed, UNCHANGED trees, run.step \in InHand \ {"claim", "agents"},
         NEW step \in Merging \cup {"ready"},
         NEW at \in Nat \ {0}, at <= Len(run.shards),
         step = "ready" => at = 1, step \in {"tick", "commit"} => at = Len(run.shards),
         NEW paths \in SUBSET Paths, NEW dirty \in SUBSET Files,
         run' = [run EXCEPT !.step = step, !.at = at, !.paths = paths, !.dirty = dirty]
  PROVE  RunOK'
<1>1. run \in RunRecord  BY DEF Typed, RunOK
<1>2. run' \in RunRecord /\ run'.step = step /\ run'.at = at /\ run'.batch = run.batch /\ run'.mode = run.mode
      /\ run'.shards = run.shards /\ run'.declared = run.declared /\ run'.local = run.local
  BY <1>1 DEF RunRecord, Steps, Merging
<1>3. \A s : TreeOf(s)' = TreeOf(s) BY <1>2 DEF TreeOf, TreeId
<1>4. run.step \in {"gates", "ready"} \cup Merging  BY DEF InHand, Merging
<1>5. QED BY <1>2, <1>3, <1>4 DEF Typed, RunOK, InHand, Merging

LEMMA PassGatesTyped == ASSUME Typed, PassGates PROVE Typed'
<1>1. TablesOK' /\ UNCHANGED trees  BY DEF Typed, TablesOK, PassGates, OnlyRun
<1>2. run \in RunRecord /\ run.step = "gates" /\ run.at = 1 /\ 1 <= Len(run.shards) /\ 1 \in Nat \ {0}
  BY DEF PassGates, Typed, RunOK, InHand
<1>3. run.paths \in SUBSET Paths /\ run.dirty \in SUBSET Files  BY <1>2 DEF RunRecord
<1>5. CASE run' = IdleRun  BY <1>5, StopOK, <1>1 DEF Stop, Typed
<1>6. CASE run' = [run EXCEPT !.step = "ready"]
  <2>1. run' = [run EXCEPT !.step = "ready", !.at = 1, !.paths = run.paths, !.dirty = run.dirty]
    BY <1>2, <1>6 DEF RunRecord
  <2>2. RunOK'  BY <1>1, <1>2, <1>3, <2>1, MoveTyped DEF InHand, Merging
  <2>3. QED BY <1>1, <2>2 DEF Typed
<1>7. CASE run' = [run EXCEPT !.step = "merge"]
  <2>1. run' = [run EXCEPT !.step = "merge", !.at = 1, !.paths = run.paths, !.dirty = run.dirty]
    BY <1>2, <1>7 DEF RunRecord
  <2>2. RunOK'  BY <1>1, <1>2, <1>3, <2>1, MoveTyped DEF InHand, Merging
  <2>3. QED BY <1>1, <2>2 DEF Typed
<1>8. QED BY <1>5, <1>6, <1>7 DEF PassGates

LEMMA PassReadinessTyped == ASSUME Typed, PassReadiness PROVE Typed'
<1>1. TablesOK' /\ UNCHANGED trees  BY DEF Typed, TablesOK, PassReadiness, OnlyRun
<1>2. run \in RunRecord /\ run.step = "ready" /\ run.at = 1 /\ 1 <= Len(run.shards) /\ 1 \in Nat \ {0}
  BY DEF PassReadiness, Typed, RunOK, InHand
<1>3. run.paths \in SUBSET Paths /\ run.dirty \in SUBSET Files  BY <1>2 DEF RunRecord
<1>4. run' = [run EXCEPT !.step = "merge", !.at = 1, !.paths = run.paths, !.dirty = run.dirty]
  BY <1>2 DEF RunRecord, PassReadiness
<1>5. RunOK'  BY <1>1, <1>2, <1>3, <1>4, MoveTyped DEF InHand, Merging
<1>6. QED BY <1>1, <1>5 DEF Typed

(* What the sync may copy lies in the trees.                               *)
LEMMA CandidatesArePaths ==
  ASSUME Typed, run.step \in Merging \cup {"gates", "ready"}, NEW s \in DOMAIN run.shards
  PROVE  Candidates(s) \in SUBSET Paths
<1>1. run \in RunRecord /\ Len(run.declared) = Len(run.shards)  BY DEF Typed, RunOK, InHand, Merging
<1>2. run.declared[s] \in SUBSET Paths  BY <1>1 DEF RunRecord
<1>3. TreeStatus(s) \in SUBSET Paths  BY DEF TreeStatus, GitStatus, UntrackedDirs, Paths
<1>4. QED  BY <1>2, <1>3 DEF Candidates

LEMMA CheckSyncTyped == ASSUME Typed, CheckSync PROVE Typed'
<1>1. UNCHANGED trees  BY DEF CheckSync
<1>2. /\ run \in RunRecord /\ run.step = "merge" /\ run.at \in DOMAIN run.shards
      /\ run.at \in Nat \ {0} /\ run.at <= Len(run.shards) /\ run.batch \in Batches
  BY DEF CheckSync, Typed, RunOK, RunRecord, InHand
<1>3. TablesOK'
  BY <1>2 DEF Typed, TablesOK, CheckSync
<1>4. CASE MergeReady(run.at)
  <2> DEFINE paths == {p \in Candidates(run.at) : ~Excluded(p)}
             dirty == {f \in Files \ Ignored : op \in root[f] /\ root[f] # head[f]}
  <2>1. paths \in SUBSET Paths /\ dirty \in SUBSET Files
    BY <1>2, CandidatesArePaths DEF Merging
  <2>2. run' = [run EXCEPT !.step = "copy", !.paths = paths, !.dirty = dirty]
    BY <1>4 DEF CheckSync
  <2> HIDE DEF paths, dirty
  <2>3. run' = [run EXCEPT !.step = "copy", !.at = run.at, !.paths = paths, !.dirty = dirty]
    BY <1>2, <2>2 DEF RunRecord
  <2>4. RunOK'  BY <1>1, <1>2, <2>1, <2>3, MoveTyped DEF InHand, Merging
  <2>5. QED BY <1>3, <2>4 DEF Typed
<1>5. CASE ~MergeReady(run.at)
  BY <1>3, <1>5, StopOK DEF CheckSync, Stop, Typed
<1>6. QED BY <1>4, <1>5

(* The trees of a batch in hand are there.                                 *)
LEMMA TreeInHand ==
  ASSUME Typed, run.step \in InHand \ {"claim"}, NEW s \in DOMAIN run.shards
  PROVE  TreeOf(s) \in Tree /\ TreeOf(s).files \in [Files -> Content] /\ TreeOf(s).base \in [Files -> Content]
BY DEF Typed, RunOK, Tree

LEMMA CopyPathTyped == ASSUME Typed, NEW p \in Paths, CopyPath(p) PROVE Typed'
<1>1. UNCHANGED trees  BY DEF CopyPath
<1>2. /\ run \in RunRecord /\ run.step = "copy" /\ run.at \in DOMAIN run.shards
      /\ run.at \in Nat \ {0} /\ run.at <= Len(run.shards)
  BY DEF CopyPath, Typed, RunOK, RunRecord, InHand
<1>3. root' \in [Files -> Content]
  BY <1>2, TreeInHand DEF CopyPath, Typed, TablesOK, InHand
<1>4. TablesOK'  BY <1>3 DEF Typed, TablesOK, CopyPath
<1>5. run.paths \ {p} \in SUBSET Paths /\ run.dirty \in SUBSET Files
      /\ run' = [run EXCEPT !.step = "copy", !.at = run.at, !.paths = run.paths \ {p}, !.dirty = run.dirty]
  BY <1>2 DEF RunRecord, CopyPath
<1>6. RunOK'  BY <1>1, <1>2, <1>5, MoveTyped DEF InHand, Merging
<1>7. QED BY <1>4, <1>6 DEF Typed

LEMMA SyncEndsTyped == ASSUME Typed, SyncEnds PROVE Typed'
<1>1. TablesOK' /\ UNCHANGED trees  BY DEF Typed, TablesOK, SyncEnds, OnlyRun
<1>2. /\ run \in RunRecord /\ run.step = "copy" /\ run.at \in Nat \ {0} /\ run.at <= Len(run.shards)
  BY DEF SyncEnds, Typed, RunOK, RunRecord, InHand
<1>3. run.paths \in SUBSET Paths /\ {} \in SUBSET Files
      /\ run' = [run EXCEPT !.step = "local", !.at = run.at, !.paths = run.paths, !.dirty = {}]
  BY <1>2 DEF RunRecord, SyncEnds
<1>4. RunOK'  BY <1>1, <1>2, <1>3, MoveTyped DEF InHand, Merging
<1>5. QED BY <1>1, <1>4 DEF Typed

LEMMA CopyLocalTyped == ASSUME Typed, CopyLocal PROVE Typed'
<1>1. UNCHANGED trees  BY DEF CopyLocal
<1>2. /\ run \in RunRecord /\ run.step = "local" /\ run.at \in DOMAIN run.shards
      /\ run.at \in Nat \ {0} /\ run.at <= Len(run.shards) /\ Len(run.shards) \in Nat
  BY DEF CopyLocal, Typed, RunOK, RunRecord, InHand
<1>3. root' \in [Files -> Content]
  BY <1>2, TreeInHand DEF CopyLocal, Typed, TablesOK, InHand
<1>4. TablesOK'  BY <1>3 DEF Typed, TablesOK, CopyLocal
<1>5. run.paths \in SUBSET Paths /\ run.dirty \in SUBSET Files  BY <1>2 DEF RunRecord
<1>6. CASE run' = IdleRun  BY <1>4, <1>6, StopOK DEF Stop, Typed
<1>7. CASE run.at < Len(run.shards) /\ run' = [run EXCEPT !.step = "merge", !.at = @ + 1]
  <2>1. run.at + 1 \in Nat \ {0} /\ run.at + 1 <= Len(run.shards)  BY <1>2, <1>7
  <2>2. run' = [run EXCEPT !.step = "merge", !.at = run.at + 1, !.paths = run.paths, !.dirty = run.dirty]
    BY <1>2, <1>7 DEF RunRecord
  <2>3. RunOK'  BY <1>1, <1>2, <1>5, <2>1, <2>2, MoveTyped DEF InHand, Merging
  <2>4. QED  BY <1>4, <2>3 DEF Typed
<1>8. CASE ~(run.at < Len(run.shards)) /\ run' = [run EXCEPT !.step = "tick"]
  <2>1. run.at = Len(run.shards)  BY <1>2, <1>8
  <2>2. run' = [run EXCEPT !.step = "tick", !.at = run.at, !.paths = run.paths, !.dirty = run.dirty]
    BY <1>2, <1>8 DEF RunRecord
  <2>3. RunOK'  BY <1>1, <1>2, <1>5, <2>1, <2>2, MoveTyped DEF InHand, Merging
  <2>4. QED  BY <1>4, <2>3 DEF Typed
<1>9. QED BY <1>6, <1>7, <1>8 DEF CopyLocal

LEMMA TickTyped == ASSUME Typed, Tick PROVE Typed'
<1>1. UNCHANGED trees  BY DEF Tick
<1>2. /\ run \in RunRecord /\ run.step = "tick" /\ run.at = Len(run.shards) /\ run.batch \in Batches
      /\ run.at \in Nat \ {0} /\ run.at <= Len(run.shards) /\ run.step \in InHand
      /\ run.shards \in Seq(SUBSET Items)
  BY DEF Tick, Typed, RunOK, RunRecord, InHand
<1>3. checked' \in SUBSET Items
  BY <1>2 DEF Tick, Typed, TablesOK
<1>4. claims' \in [Names -> Claim \cup {NoClaim}]
  BY <1>2, MarkOK DEF Tick, Statuses
<1>5. records' \in [results : SUBSET Batches, closed : SUBSET Batches]
  BY <1>2 DEF Tick, Typed, TablesOK
<1>6. TablesOK'  BY <1>3, <1>4, <1>5 DEF Typed, TablesOK, Tick
<1>7. run.paths \in SUBSET Paths /\ run.dirty \in SUBSET Files
      /\ run' = [run EXCEPT !.step = "commit", !.at = run.at, !.paths = run.paths, !.dirty = run.dirty]
  BY <1>2 DEF RunRecord, Tick
<1>8. RunOK'  BY <1>1, <1>2, <1>7, MoveTyped DEF InHand, Merging
<1>9. QED BY <1>6, <1>8 DEF Typed

LEMMA CommitTyped ==
  ASSUME Typed, NEW n \in {0} \cup Batches, CommitAs(n)
  PROVE  log' \in Seq(CommitRow) /\ log' # << >> /\ Len(log') = Len(log) + 1
         /\ \A k \in DOMAIN log' : log'[k] = IF k = Len(log) + 1
                                         THEN [files |-> Tracked(root), claims |-> claims, checked |-> checked, batch |-> n]
                                         ELSE log[k]
<1>1. [files |-> Tracked(root), claims |-> claims, checked |-> checked, batch |-> n] \in CommitRow
  BY TrackedIsTree DEF Typed, TablesOK, CommitRow
<1>2. log \in Seq(CommitRow)  BY DEF Typed, TablesOK
<1> DEFINE row == [files |-> Tracked(root), claims |-> claims, checked |-> checked, batch |-> n]
<1>3. log' = Append(log, row)  BY DEF CommitAs
<1> HIDE DEF row
<1>4. log' \in Seq(CommitRow) /\ log' # << >> /\ Len(log') = Len(log) + 1
  BY <1>1, <1>2, <1>3 DEF row
<1>5. \A k \in DOMAIN log' : log'[k] = IF k = Len(log) + 1 THEN row ELSE log[k]
  BY <1>2, <1>3
<1>6. QED  BY <1>4, <1>5 DEF row

LEMMA BatchCommitTyped == ASSUME Typed, Commit PROVE Typed'
<1>1. run.batch \in {0} \cup Batches  BY DEF Typed, RunOK, RunRecord
<1>2. TablesOK'  BY <1>1, CommitTyped DEF Commit, Typed, TablesOK
<1>3. QED  BY <1>2, StopOK DEF Commit, Typed

LEMMA CrashTyped == ASSUME Typed, Crash PROVE Typed'
<1>1. TablesOK'  BY DEF Typed, TablesOK, Crash, OnlyRun
<1>2. QED  BY <1>1, StopOK DEF Crash, Typed

LEMMA CleanTyped == ASSUME Typed, NEW n \in Batches, Clean(n) PROVE Typed'
<1>1. records' \in [results : SUBSET Batches, closed : SUBSET Batches]
  BY DEF Clean, WithoutRecords, Typed, TablesOK
<1>2. trees' \in [Batches -> [0..MaxParallel -> Tree \cup {NoTree}]]
  BY DEF Clean, WithoutTree, Typed, TablesOK
<1>3. TablesOK'  BY <1>1, <1>2 DEF Clean, Typed, TablesOK
<1>4. QED  BY <1>3, StopOK DEF Clean, Typed

LEMMA PreviousCommit ==
  ASSUME Typed, Len(log) > 1
  PROVE  /\ Len(log) - 1 \in DOMAIN log /\ log[Len(log) - 1] \in CommitRow
         /\ SubSeq(log, 1, Len(log) - 1) \in Seq(CommitRow) \ {<< >>}
         /\ [log[Len(log) - 1] EXCEPT !.batch = 0] \in CommitRow
<1>1. log \in Seq(CommitRow) /\ Len(log) \in Nat  BY DEF Typed, TablesOK
<1>2. Len(log) - 1 \in DOMAIN log /\ log[Len(log) - 1] \in CommitRow  BY <1>1
<1>3. [log[Len(log) - 1] EXCEPT !.batch = 0] \in CommitRow  BY <1>2 DEF CommitRow
<1>4. SubSeq(log, 1, Len(log) - 1) \in Seq(CommitRow) /\ Len(SubSeq(log, 1, Len(log) - 1)) = Len(log) - 1
  BY <1>1
<1>5. SubSeq(log, 1, Len(log) - 1) # << >>
  <2>1. SubSeq(log, 1, Len(log) - 1) = << >> => Len(log) - 1 = 0
    BY <1>4, Len(<< >>) = 0
  <2>2. \A n \in Nat : n > 1 => n - 1 # 0  OBVIOUS
  <2>3. Len(log) - 1 # 0  BY <1>1, <2>2
  <2>4. QED  BY <2>1, <2>3
<1>6. QED  BY <1>2, <1>3, <1>4, <1>5

LEMMA UndoTyped == ASSUME Typed, NEW revert \in BOOLEAN, Undo(revert) PROVE Typed'
<1> DEFINE to == log[Len(log) - 1]
<1>1. Len(log) > 1 /\ run.step = "idle"  BY DEF Undo
<1>2. to \in CommitRow /\ Tip \in CommitRow /\ head \in [Files -> Content]
  BY <1>1, HeadIsTree, PreviousCommit
<1>3. to.files \in [Files -> Content] /\ to.claims \in [Names -> Claim \cup {NoClaim}] /\ to.checked \in SUBSET Items
      /\ Tip.claims \in [Names -> Claim \cup {NoClaim}] /\ Tip.batch \in {0} \cup Batches
  BY <1>2 DEF CommitRow
<1>4. /\ root' = IF revert THEN Reverted(root, head, to.files) ELSE Reset(root, head, to.files, {})
      /\ claims' = IF revert THEN Reverted(claims, Tip.claims, to.claims)
                   ELSE Reset(claims, Tip.claims, to.claims, NoClaim)
      /\ checked' = IF revert /\ to.checked = Tip.checked THEN checked ELSE to.checked
      /\ log' = IF revert THEN Append(log, [to EXCEPT !.batch = 0]) ELSE SubSeq(log, 1, Len(log) - 1)
      /\ run' = IF Tip.batch = 0 THEN run ELSE [IdleRun EXCEPT !.step = "clean", !.batch = Tip.batch]
      /\ trees' = trees /\ records' = records
  BY DEF Undo
<1>5. commands' \in 0..MaxCommands  BY DEF Undo, Operates, Typed, TablesOK
<1>6. log' \in Seq(CommitRow) /\ log' # << >>
  <2>1. log \in Seq(CommitRow)  BY DEF Typed, TablesOK
  <2> HIDE DEF to
  <2>2. [to EXCEPT !.batch = 0] \in CommitRow /\ SubSeq(log, 1, Len(log) - 1) \in Seq(CommitRow) \ {<< >>}
    BY <1>1, PreviousCommit DEF to
  <2>3. Append(log, [to EXCEPT !.batch = 0]) \in Seq(CommitRow) \ {<< >>}
    BY <2>1, <2>2
  <2>4. QED  BY <1>4, <2>2, <2>3
<1> HIDE DEF to
<1>7. root' \in [Files -> Content]
  BY <1>2, <1>3, <1>4 DEF Reverted, Reset, Typed, TablesOK
<1>8. claims' \in [Names -> Claim \cup {NoClaim}]
  BY <1>3, <1>4 DEF Reverted, Reset, Typed, TablesOK
<1>9. TablesOK'  BY <1>3, <1>4, <1>5, <1>6, <1>7, <1>8 DEF Typed, TablesOK
<1>10. RunOK'
  <2>1. CASE Tip.batch = 0  BY <1>1, <1>4, <2>1 DEF Typed, RunOK, InHand
  <2>2. CASE Tip.batch # 0
    <3>1. run' \in RunRecord /\ run'.step = "clean" /\ run'.declared = << >> /\ run'.local = << >> /\ run'.at = 1
      BY <1>3, <1>4, <2>2, IdleIsRun DEF RunRecord, Steps
    <3>2. QED  BY <3>1 DEF RunOK, InHand
  <2>3. QED  BY <2>1, <2>2
<1>11. QED  BY <1>9, <1>10 DEF Typed

LEMMA EditTyped == ASSUME Typed, NEW f \in Files, OperatorEdits(f) PROVE Typed'
<1>1. root' \in [Files -> Content]  BY DEF OperatorEdits, Typed, TablesOK, Content
<1>2. TablesOK'  BY <1>1 DEF OperatorEdits, Operates, Typed, TablesOK
<1>3. RunOK'  BY DEF OperatorEdits, Typed, RunOK, TreeOf, TreeId
<1>4. QED  BY <1>2, <1>3 DEF Typed

LEMMA OwnCommitTyped == ASSUME Typed, OperatorCommits PROVE Typed'
<1>1. TablesOK'  BY CommitTyped DEF OperatorCommits, Operates, Typed, TablesOK
<1>2. RunOK'  BY DEF OperatorCommits, Typed, RunOK, TreeOf, TreeId
<1>3. QED  BY <1>1, <1>2 DEF Typed

LEMMA ChangeTyped == ASSUME Typed, NEW c \in External, ChangesClaim(c) PROVE Typed'
<1>1. claims' \in [Names -> Claim \cup {NoClaim}]  BY DEF ChangesClaim, Typed, TablesOK, Names
<1>2. TablesOK'  BY <1>1 DEF ChangesClaim, Operates, Typed, TablesOK
<1>3. run \in RunRecord /\ run' = [run EXCEPT !.standing = @ \ {c}] /\ trees' = trees
  BY DEF ChangesClaim, Typed, RunOK
<1>4. run' \in RunRecord /\ \A s : TreeOf(s)' = TreeOf(s)
  BY <1>3 DEF RunRecord, TreeOf, TreeId
<1>5. RunOK'  BY <1>3, <1>4 DEF Typed, RunOK, RunRecord, InHand, Merging
<1>6. QED  BY <1>2, <1>5 DEF Typed

LEMMA RefuseTyped == ASSUME Typed, RefuseClaims PROVE Typed'
<1>1. TablesOK'  BY DEF Typed, TablesOK, RefuseClaims, OnlyRun
<1>2. QED  BY <1>1, StopOK DEF RefuseClaims, Typed

LEMMA StutterTyped == ASSUME Typed, UNCHANGED vars PROVE Typed'
BY DEF vars, Typed, TablesOK, RunOK, TreeOf, TreeId

LEMMA NextTyped == ASSUME Typed, [Next]_vars PROVE Typed'
<1>1. ASSUME Runtime PROVE Typed'
  BY <1>1, LaunchTyped, ReadTyped, WriteBackTyped, RefuseTyped, PlanTyped, AcceptTyped, WriteClaimTyped,
     ReturnsTyped, RejectTyped, PassGatesTyped, PassReadinessTyped, CheckSyncTyped, CopyPathTyped,
     SyncEndsTyped, CopyLocalTyped, TickTyped, BatchCommitTyped DEF Runtime
<1>2. ASSUME Operators PROVE Typed'
  BY <1>2, EditTyped, OwnCommitTyped, UndoTyped, ChangeTyped DEF Operators
<1>3. QED  BY <1>1, <1>2, CrashTyped, CleanTyped, StutterTyped DEF Next

(* The tables, the trees and the state of the run keep their types, and no *)
(* agent answers twice.                                                    *)
THEOREM TypeCorrect == Spec => []TypeOK
<1>1. Typed => TypeOK
  <2> SUFFICES ASSUME Typed PROVE TypeOK
    OBVIOUS
  <2>1. \A k \in DOMAIN log : log[k].files \in [Files -> Content] /\ log[k].batch \in {0} \cup Batches
    <3>1. \A k \in DOMAIN log : log[k] \in CommitRow  BY DEF Typed, TablesOK
    <3>2. QED  BY <3>1 DEF CommitRow
  <2>2. /\ run.step \in Steps /\ run.batch \in Batches
        /\ run.left \subseteq External \cup Batches /\ run.standing \subseteq External
    BY DEF Typed, RunOK, RunRecord, Names
  <2>3. run \in RunRecord /\ RunOK  BY DEF Typed, RunOK
  <2>4. Len(run.declared) <= Len(run.shards)
    <3>1. run.step \in InHand \/ run.step \in {"idle", "load", "held", "claim", "clean"}
      BY <2>2 DEF Steps, InHand
    <3>2. QED  BY <2>3, <3>1 DEF RunOK, RunRecord
  <2>5. QED  BY <2>1, <2>2, <2>4 DEF Typed, TablesOK, TypeOK, Names
<1>2. QED  BY <1>1, InitTyped, NextTyped, PTL DEF Spec

(* Steps outside a merge: they begin the first sync, or none is under way. *)
LEMMA OutOfMerge ==
  ASSUME Typed, Runtime \/ OperatorCommits \/ (\E revert \in BOOLEAN : Undo(revert)) \/ Crash \/ \E n \in Batches : Clean(n),
         ~CheckSync, \A p \in Paths : ~CopyPath(p), ~SyncEnds, ~CopyLocal, ~Tick
  PROVE  run'.step \notin Merging \/ (run'.step = "merge" /\ run'.at = 1)
<1> DEFINE Goal == run'.step \notin Merging \/ (run'.step = "merge" /\ run'.at = 1)
<1>1. run \in RunRecord  BY DEF Typed, RunOK
<1>2. ASSUME run' = IdleRun PROVE Goal  BY <1>2, IdleIsRun DEF Merging
<1>3. ASSUME NEW mode \in {"serial", "parallel"}, Launch(mode) PROVE Goal
  BY <1>3 DEF Launch, IdleRun, Merging
<1>4. ASSUME NEW c \in DOMAIN claims, ReadClaim(c) PROVE Goal
  BY <1>1, <1>4 DEF ReadClaim, RunRecord, Merging
<1>5. CASE WriteBack  BY <1>1, <1>5 DEF WriteBack, RunRecord, Merging
<1>6. CASE RefuseClaims \/ Reject \/ Commit \/ Crash \/ \E n \in Batches : Clean(n)
  BY <1>2, <1>6 DEF RefuseClaims, Reject, Commit, Crash, Clean, Stop
<1>7. CASE Plan \/ WriteClaim
  <2> HIDE DEF Planned
  <2>1. PICK shards : run' = [run EXCEPT !.step = "agents", !.shards = shards, !.loaded = {}]
    BY <1>7 DEF Plan, WriteClaim, StartAgents
  <2>2. QED  BY <1>1, <2>1 DEF RunRecord, Merging
<1>8. CASE AcceptClaims
  <2> HIDE DEF Selected
  <2>1. QED  BY <1>1, <1>8 DEF AcceptClaims, RunRecord, Merging
<1>9. CASE AgentReturns
  <2>1. PICK o \in Outcomes :
          run' = [run EXCEPT !.declared = Append(@, o.declared), !.local = Append(@, o.local),
                             !.step = IF Len(run.declared) + 1 = Len(run.shards) THEN "gates" ELSE @]
    BY <1>9 DEF AgentReturns
  <2>2. run.step = "agents"  BY <1>9 DEF AgentReturns
  <2>3. QED  BY <1>1, <2>1, <2>2 DEF RunRecord, Merging
<1>10. CASE PassGates
  <2>1. run.step = "gates" /\ run.at = 1  BY <1>10 DEF PassGates, Typed, RunOK, InHand
  <2>2. QED  BY <1>1, <1>2, <1>10, <2>1 DEF PassGates, RunRecord, Merging
<1>11. CASE PassReadiness
  <2>1. run.step = "ready" /\ run.at = 1  BY <1>11 DEF PassReadiness, Typed, RunOK, InHand
  <2>2. QED  BY <1>1, <1>11, <2>1 DEF PassReadiness, RunRecord, Merging
<1>12. CASE OperatorCommits  BY <1>12 DEF OperatorCommits, Merging
<1>13. ASSUME NEW revert \in BOOLEAN, Undo(revert) PROVE Goal
  <2>1. run.step = "idle" /\ run' = IF Tip.batch = 0 THEN run ELSE [IdleRun EXCEPT !.step = "clean", !.batch = Tip.batch]
    BY <1>13 DEF Undo
  <2>2. QED  BY <2>1 DEF IdleRun, Merging
<1>14. QED
  BY <1>3, <1>4, <1>5, <1>6, <1>7, <1>8, <1>9, <1>10, <1>11, <1>12, <1>13 DEF Runtime

-----------------------------------------------------------------------------
(* Claims.                                                                 *)

(* Committed claims were read as closed.                                   *)
CommittedSeen ==
  run.step \in {"load", "held"} =>
    \A l \in run.loaded \cup (IF run.step = "held" THEN {run.held} ELSE {}) :
      l.name \in Committed => ~Active(l.claim)

Shows(l, c) == l.name = c /\ l.claim = Normalized(claims[c])

(* A standing claim is active, and while the claims are loaded it is yet   *)
(* to be read or was read as it is.                                        *)
StandingSeen ==
  /\ run.step \in {"idle", "clean"} => run.standing = {}
  /\ \A c \in run.standing : Active(claims[c])
  /\ run.step \in {"load", "held"} /\ ~run.broken =>
       \A c \in run.standing :
         \/ c \in run.left
         \/ run.step = "held" /\ Shows(run.held, c)
         \/ \E l \in run.loaded : Shows(l, c)

ClaimsInv == CommittedSeen /\ StandingSeen /\ StandingClaimsAreKept

LEMMA InitClaims == Init => ClaimsInv
BY DEF Init, IdleRun, ClaimsInv, CommittedSeen, StandingSeen, StandingClaimsAreKept

(* A step that starts nothing and takes no claim away. *)
LEMMA StopClaims == ASSUME run' = IdleRun PROVE ClaimsInv'
BY DEF IdleRun, ClaimsInv, CommittedSeen, StandingSeen, StandingClaimsAreKept

(* Only the runtime's own claims are reconciled.                           *)
LEMMA CommittedBatches == ASSUME Typed PROVE Committed \subseteq Batches
<1>1. \A k \in DOMAIN log : log[k] \in CommitRow
  BY DEF Typed, TablesOK
<1>2. \A k \in DOMAIN log : log[k].batch \in {0} \cup Batches
  BY <1>1 DEF CommitRow
<1>3. QED  BY <1>2 DEF Committed

LEMMA LaunchClaims ==
  ASSUME Typed, ClaimsInv, NEW mode \in {"serial", "parallel"}, Launch(mode)
  PROVE  ClaimsInv'
<1>1. /\ run'.step = "load" /\ run'.loaded = {} /\ run'.standing = {c \in External : Active(claims[c])}
      /\ run'.left = {c \in DOMAIN claims : claims[c] # NoClaim} /\ claims' = claims
  BY DEF Launch, IdleRun
<1>2. CommittedSeen'  BY <1>1 DEF CommittedSeen
<1>3. StandingSeen'  BY <1>1 DEF StandingSeen, Typed, TablesOK, Names, Active
<1>4. StandingClaimsAreKept'  BY <1>1 DEF StandingClaimsAreKept
<1>5. QED  BY <1>2, <1>3, <1>4 DEF ClaimsInv

LEMMA ReadClaims == ASSUME Typed, ClaimsInv, NEW c \in DOMAIN claims, ReadClaim(c) PROVE ClaimsInv'
<1>1. run \in RunRecord /\ run.step = "load" /\ claims' = claims /\ log' = log /\ c \in Names
  BY DEF ReadClaim, OnlyRun, Typed, TablesOK, RunOK
<1>2. CASE HasShape(claims[c])
  <2> DEFINE read == Reconciled(c, Normalized(claims[c]))
  <2>1. claims[c] \in Claim  BY <1>1, <1>2 DEF HasShape, Typed, TablesOK
  <2>2. run' = [run EXCEPT !.left = @ \ {c}, !.step = "held", !.held = [name |-> c, claim |-> read]]
    BY <1>2 DEF ReadClaim
  <2>3. (c \in Committed => ~Active(read)) /\ (c \notin Committed => read = Normalized(claims[c]))
    BY <2>1, ClaimForms
  <2> HIDE DEF read
  <2>4. /\ run'.step = "held" /\ run'.left = run.left \ {c} /\ run'.held = [name |-> c, claim |-> read]
        /\ run'.loaded = run.loaded /\ run'.broken = run.broken /\ run'.standing = run.standing
        /\ run'.shards = run.shards
    BY <1>1, <2>2 DEF RunRecord
  <2>5. CommittedSeen'
    BY <1>1, <2>3, <2>4 DEF ClaimsInv, CommittedSeen, Committed
  <2>6. c \in run.standing => read = Normalized(claims[c])
    BY <1>1, <2>3, CommittedBatches, SharedAssumption DEF RunRecord
  <2>7. StandingSeen'
    BY <1>1, <2>4, <2>6 DEF ClaimsInv, StandingSeen, Shows
  <2>8. StandingClaimsAreKept'  BY <2>4 DEF StandingClaimsAreKept
  <2>9. QED  BY <2>5, <2>7, <2>8 DEF ClaimsInv
<1>3. CASE ~HasShape(claims[c])
  <2>1. /\ run'.step = "load" /\ run'.loaded = run.loaded /\ run'.broken = TRUE /\ run'.standing = run.standing
        /\ run'.shards = run.shards
    BY <1>1, <1>3 DEF RunRecord, ReadClaim
  <2>2. QED
    BY <1>1, <2>1 DEF ClaimsInv, CommittedSeen, StandingSeen, StandingClaimsAreKept, Committed, Tip
<1>4. QED  BY <1>2, <1>3

LEMMA WriteBackClaims == ASSUME Typed, ClaimsInv, WriteBack PROVE ClaimsInv'
<1> DEFINE h == run.held
<1>1. /\ run \in RunRecord /\ run.step = "held" /\ h \in Loaded
      /\ claims \in [Names -> Claim \cup {NoClaim}] /\ log' = log
  BY DEF WriteBack, Typed, TablesOK, RunOK
<1> HIDE DEF h
<1>2. /\ run'.step = "load" /\ run'.left = run.left /\ run'.loaded = run.loaded \cup {h}
      /\ run'.broken = run.broken /\ run'.shards = run.shards
      /\ run'.standing = IF IsNews THEN run.standing \ {h.name} ELSE run.standing
  BY <1>1 DEF RunRecord, WriteBack, h
<1>3. h.name \in Names /\ h.claim \in Claim  BY <1>1 DEF Loaded
<1>4. claims' = [claims EXCEPT ![h.name] = h.claim]  BY DEF WriteBack, h
<1>5. CommittedSeen'
  BY <1>1, <1>2 DEF ClaimsInv, CommittedSeen, Committed, h
<1>6. ASSUME h.name \in run'.standing
      PROVE  claims[h.name] \in Claim /\ Normalized(claims[h.name]) = h.claim /\ Active(claims'[h.name])
             /\ Normalized(claims'[h.name]) = h.claim
  <2>1. ~IsNews /\ h.name \in run.standing  BY <1>2, <1>6
  <2>2. claims[h.name] # NoClaim /\ Normalized(claims[h.name]) = h.claim
    BY <2>1 DEF IsNews, h
  <2>3. claims[h.name] \in Claim  BY <1>1, <1>3, <2>2
  <2>4. Normalized(h.claim) = h.claim /\ Active(claims[h.name])
    BY <2>1, <2>2, <2>3, ClaimForms DEF ClaimsInv, StandingSeen
  <2>5. Active(h.claim)  BY <2>2, <2>3, <2>4, ClaimForms
  <2>6. claims'[h.name] = h.claim  BY <1>1, <1>3, <1>4
  <2>7. QED  BY <2>2, <2>3, <2>4, <2>5, <2>6
<1>7. \A c \in run'.standing : c # h.name => c \in run.standing /\ claims'[c] = claims[c]
  BY <1>1, <1>2, <1>4 DEF RunRecord
<1>8. StandingSeen'
  <2>1. \A c \in run'.standing : Active(claims'[c])
    BY <1>6, <1>7 DEF ClaimsInv, StandingSeen
  <2>2. ASSUME ~run.broken, NEW c \in run'.standing
        PROVE  c \in run.left \/ \E l \in run'.loaded : l.name = c /\ l.claim = Normalized(claims'[c])
    <3>1. CASE c = h.name  BY <1>2, <1>6, <3>1
    <3>2. CASE c # h.name
      BY <1>1, <1>2, <1>7, <2>2, <3>2 DEF ClaimsInv, StandingSeen, Shows, h
    <3>3. QED  BY <3>1, <3>2
  <2>3. QED  BY <1>2, <2>1, <2>2 DEF StandingSeen, Shows
<1>9. StandingClaimsAreKept'  BY <1>2 DEF StandingClaimsAreKept
<1>10. QED  BY <1>5, <1>8, <1>9 DEF ClaimsInv

(* What the claims loaded last allow is free of every standing claim.      *)
LEMMA FreeOfStanding ==
  ASSUME Typed, ClaimsInv, LoadEnds, ClaimsAgree, NEW i \in Items, Free(i), NEW c \in run.standing
  PROVE  i \notin claims[c].tasks /\ Affected[i] \cap claims[c].files = {}
<1>1. run \in RunRecord /\ run.step = "load" /\ run.left = {} /\ ~run.broken
  BY DEF LoadEnds, ClaimsAgree, Typed, RunOK
<1>2. c \in External /\ Active(claims[c]) /\ claims[c] \in Claim
  BY <1>1 DEF RunRecord, ClaimsInv, StandingSeen, Typed, TablesOK, Names, Active
<1>3. PICK l \in run.loaded : Shows(l, c)
  BY <1>1 DEF ClaimsInv, StandingSeen
<1>4. l.name \in External /\ Active(l.claim) /\ l.claim.tasks = claims[c].tasks /\ l.claim.files = claims[c].files
  BY <1>2, <1>3, ClaimForms DEF Shows
<1>5. l.claim \in Others  BY <1>4 DEF Others
<1>6. QED  BY <1>4, <1>5 DEF Free, SameTask

(* A batch starts with items that the claims leave free.                   *)
LEMMA StartsFree ==
  ASSUME Typed, ClaimsInv, LoadEnds, ClaimsAgree, NEW shards \in Seq(SUBSET Items),
         \A s \in DOMAIN shards : \A i \in shards[s] : Free(i),
         NEW step \in InHand, claims' = claims, run'.step = step, run'.shards = shards, run'.standing = run.standing
  PROVE  ClaimsInv'
<1>1. CommittedSeen'  BY DEF CommittedSeen, InHand
<1>2. StandingSeen'  BY DEF ClaimsInv, StandingSeen, InHand
<1>3. StandingClaimsAreKept'
  <2>1. ASSUME NEW s \in DOMAIN shards, NEW c \in run.standing, NEW i \in shards[s]
        PROVE  i \notin claims[c].tasks /\ Affected[i] \cap claims[c].files = {}
    BY FreeOfStanding
  <2>2. QED  BY <2>1 DEF StandingClaimsAreKept
<1>4. QED  BY <1>1, <1>2, <1>3 DEF ClaimsInv

LEMMA PlanClaims == ASSUME Typed, ClaimsInv, Plan PROVE ClaimsInv'
<1>1. run \in RunRecord  BY DEF Typed, RunOK
<1> HIDE DEF Planned
<1>2. LoadEnds /\ ClaimsAgree /\ claims' = claims
      /\ run' = [run EXCEPT !.step = "agents", !.shards = Planned[Len(ItemSeq)], !.loaded = {}]
  BY DEF Plan, StartAgents
<1>3. run'.step = "agents" /\ run'.shards = Planned[Len(ItemSeq)] /\ run'.standing = run.standing
  BY <1>1, <1>2 DEF RunRecord
<1>4. QED  BY <1>2, <1>3, PlanIsFree, StartsFree DEF InHand

LEMMA AcceptClaimsKept == ASSUME Typed, ClaimsInv, AcceptClaims PROVE ClaimsInv'
<1>1. run \in RunRecord  BY DEF Typed, RunOK
<1>2. <<Selected>> \in Seq(SUBSET Items) /\ DOMAIN <<Selected>> = {1} /\ <<Selected>>[1] = Selected
  BY SelectedIsItems
<1>3. LoadEnds /\ ClaimsAgree /\ claims' = claims /\ \A i \in Selected : Free(i)
  BY DEF AcceptClaims, OnlyRun
<1> HIDE DEF Selected
<1>4. run'.step = "claim" /\ run'.shards = <<Selected>> /\ run'.standing = run.standing
  BY <1>1 DEF RunRecord, AcceptClaims
<1>5. \A s \in DOMAIN <<Selected>> : \A i \in <<Selected>>[s] : Free(i)
  BY <1>2, <1>3
<1>6. QED  BY <1>2, <1>3, <1>4, <1>5, StartsFree DEF InHand

(* While a batch is in hand nobody but the owner changes a standing claim. *)
LEMMA HandClaims ==
  ASSUME Typed, ClaimsInv, run.step \in InHand, run'.step \in InHand,
         run'.standing \subseteq run.standing, run'.shards = run.shards,
         \A c \in run'.standing : claims'[c] = claims[c]
  PROVE  ClaimsInv'
<1>1. CommittedSeen'  BY DEF CommittedSeen, InHand
<1>2. StandingSeen'  BY DEF ClaimsInv, StandingSeen, InHand
<1>3. StandingClaimsAreKept'
  BY DEF ClaimsInv, StandingClaimsAreKept, InHand
<1>4. QED  BY <1>1, <1>2, <1>3 DEF ClaimsInv

LEMMA BatchClaims ==
  ASSUME Typed, ClaimsInv,
         WriteClaim \/ AgentReturns \/ PassGates \/ PassReadiness \/ CheckSync \/ SyncEnds \/ CopyLocal
         \/ Tick \/ \E p \in Paths : CopyPath(p)
  PROVE  ClaimsInv'
<1>1. run \in RunRecord /\ run.standing \subseteq External  BY DEF Typed, RunOK, RunRecord
<1>2. CASE run' = IdleRun  BY <1>2, StopClaims
<1>3. CASE run' # IdleRun
  <2>1. run.step \in InHand
    BY
       DEF WriteClaim, AgentReturns, PassGates, PassReadiness, CheckSync, SyncEnds, CopyLocal, Tick, CopyPath, InHand
  <2>2. \A c \in External : claims'[c] = claims[c]
    BY <2>1, MarkOK
       DEF WriteClaim, AgentReturns, PassGates, PassReadiness, CheckSync, SyncEnds, CopyLocal, Tick,
       CopyPath, OnlyRun, Statuses
  <2>3. /\ run'.standing = run.standing /\ run'.shards = run.shards /\ run'.step \in InHand
    <3>1. CASE WriteClaim  BY <1>1, <3>1 DEF WriteClaim, StartAgents, RunRecord, InHand
    <3>2. CASE AgentReturns
      <4>1. PICK o \in Outcomes :
              run' = [run EXCEPT !.declared = Append(@, o.declared), !.local = Append(@, o.local),
                                 !.step = IF Len(run.declared) + 1 = Len(run.shards) THEN "gates" ELSE @]
        BY <3>2 DEF AgentReturns
      <4>2. run.step = "agents"  BY <3>2 DEF AgentReturns
      <4>3. QED  BY <1>1, <4>1, <4>2 DEF RunRecord, InHand
    <3>3. CASE PassGates  BY <1>1, <1>3, <3>3 DEF PassGates, RunRecord, InHand
    <3>4. CASE PassReadiness  BY <1>1, <1>3, <3>4 DEF PassReadiness, RunRecord, InHand
    <3>5. CASE CheckSync  BY <1>1, <1>3, <3>5 DEF CheckSync, RunRecord, InHand
    <3>6. CASE SyncEnds  BY <1>1, <1>3, <3>6 DEF SyncEnds, RunRecord, InHand
    <3>7. CASE CopyLocal  BY <1>1, <1>3, <3>7 DEF CopyLocal, RunRecord, InHand
    <3>8. CASE Tick  BY <1>1, <1>3, <3>8 DEF Tick, RunRecord, InHand
    <3>9. CASE \E p \in Paths : CopyPath(p)  BY <1>1, <1>3, <3>9 DEF CopyPath, RunRecord, InHand
    <3>10. QED  BY <3>1, <3>2, <3>3, <3>4, <3>5, <3>6, <3>7, <3>8, <3>9
  <2>4. QED
    BY <1>1, <2>1, <2>2, <2>3, HandClaims
<1>4. QED  BY <1>2, <1>3

LEMMA UndoClaims == ASSUME Typed, ClaimsInv, NEW revert \in BOOLEAN, Undo(revert) PROVE ClaimsInv'
<1>1. run.step = "idle" /\ run' = IF Tip.batch = 0 THEN run ELSE [IdleRun EXCEPT !.step = "clean", !.batch = Tip.batch]
  BY DEF Undo
<1>2. run'.step \in {"idle", "clean"} /\ run'.standing = {}
  BY <1>1, IdleIsRun DEF ClaimsInv, StandingSeen, IdleRun
<1>3. QED  BY <1>2 DEF ClaimsInv, CommittedSeen, StandingSeen, StandingClaimsAreKept

LEMMA ChangeClaims == ASSUME Typed, ClaimsInv, NEW c \in External, ChangesClaim(c) PROVE ClaimsInv'
<1>1. /\ run \in RunRecord /\ log' = log /\ claims \in [Names -> Claim \cup {NoClaim}]
      /\ run' = [run EXCEPT !.standing = @ \ {c}]
  BY DEF ChangesClaim, Typed, TablesOK, RunOK
<1>2. /\ run'.step = run.step /\ run'.standing = run.standing \ {c} /\ run'.held = run.held /\ run'.loaded = run.loaded
      /\ run'.left = run.left /\ run'.broken = run.broken /\ run'.shards = run.shards
  BY <1>1 DEF RunRecord
<1>3. \A d \in Names \ {c} : claims'[d] = claims[d]  BY <1>1 DEF ChangesClaim
<1>4. run'.standing \subseteq Names \ {c}  BY <1>1, <1>2 DEF RunRecord, Names
<1>5. CommittedSeen'  BY <1>1, <1>2 DEF ClaimsInv, CommittedSeen, Committed
<1>6. StandingSeen'
  BY <1>2, <1>3, <1>4 DEF ClaimsInv, StandingSeen, Shows
<1>7. StandingClaimsAreKept'
  BY <1>2, <1>3, <1>4 DEF ClaimsInv, StandingClaimsAreKept
<1>8. QED  BY <1>5, <1>6, <1>7 DEF ClaimsInv

(* Steps that touch neither the run nor a claim. *)
LEMMA SameClaims ==
  ASSUME ClaimsInv, run' = run, claims' = claims, log' = log \/ run.step = "idle"
  PROVE  ClaimsInv'
BY DEF ClaimsInv, CommittedSeen, StandingSeen, StandingClaimsAreKept, Shows, Committed

(* Every step keeps what the claims say.                                   *)
LEMMA NextClaims == ASSUME Typed, ClaimsInv, [Next]_vars PROVE ClaimsInv'
<1>1. ASSUME Runtime PROVE ClaimsInv'
  <2>1. CASE RefuseClaims \/ Reject \/ Commit
    BY <2>1, StopClaims DEF RefuseClaims, Reject, Commit, Stop
  <2>2. QED
    BY <1>1, <2>1, LaunchClaims, ReadClaims, WriteBackClaims, PlanClaims, AcceptClaimsKept, BatchClaims
       DEF Runtime
<1>2. ASSUME Operators PROVE ClaimsInv'
  <2>1. ASSUME NEW f \in Files, OperatorEdits(f) PROVE ClaimsInv'
    BY <2>1, SameClaims DEF OperatorEdits
  <2>2. ASSUME OperatorCommits PROVE ClaimsInv'
    BY <2>2, SameClaims DEF OperatorCommits
  <2>3. QED  BY <1>2, <2>1, <2>2, UndoClaims, ChangeClaims DEF Operators
<1>3. ASSUME Crash \/ \E n \in Batches : Clean(n) PROVE ClaimsInv'
  BY <1>3, StopClaims DEF Crash, Clean, Stop
<1>4. CASE UNCHANGED vars  BY <1>4, SameClaims DEF vars
<1>5. QED  BY <1>1, <1>2, <1>3, <1>4 DEF Next

LEMMA ClaimsHold == Spec => [](Typed /\ ClaimsInv)
<1>1. Init => Typed /\ ClaimsInv  BY InitTyped, InitClaims
<1>2. Typed /\ ClaimsInv /\ [Next]_vars => (Typed /\ ClaimsInv)'  BY NextTyped, NextClaims
<1>3. QED  BY <1>1, <1>2, PTL DEF Spec

(* No agent is given what an active claim of someone else's holds, for any *)
(* claims and whatever their owners do while the runtime reads, reconciles *)
(* and writes them back.                                                   *)
THEOREM StandingClaimsHold == Spec => []StandingClaimsAreKept
BY ClaimsHold, PTL DEF ClaimsInv

(* Every claim of a committed batch was reconciled when the claims are     *)
(* judged.                                                                 *)
THEOREM CommittedClaimsHold == Spec => []CommittedClaimsClose
<1>1. Typed /\ ClaimsInv => CommittedClaimsClose
  BY DEF ClaimsInv, CommittedSeen, CommittedClaimsClose, LoadEnds
<1>2. QED  BY <1>1, ClaimsHold, PTL

-----------------------------------------------------------------------------
(* What people have in the root tree.                                      *)

(* Changes of people are in product files alone, wherever these are kept.  *)
OpOnly(files) == \A f \in Files : op \in files[f] => KindOf[f] = "product"

OpInv ==
  /\ OpOnly(root)
  /\ \A k \in DOMAIN log : OpOnly(log[k].files)
  /\ \A n \in Batches, t \in 0..MaxParallel : trees[n][t] # NoTree => OpOnly(trees[n][t].files)

LEMMA InitOp == Init => OpInv
<1> SUFFICES ASSUME Init PROVE OpInv
  OBVIOUS
<1>1. OpOnly(root)  BY DEF Init, OpOnly, base, op
<1>2. OpOnly(Tracked(root))  BY <1>1 DEF OpOnly, Tracked
<1>3. \A k \in DOMAIN log : OpOnly(log[k].files)
  <2> DEFINE first == [files |-> Tracked(root), claims |-> claims, checked |-> {}, batch |-> 0]
  <2>1. log = <<first>> /\ OpOnly(first.files)  BY <1>2 DEF Init
  <2> HIDE DEF first
  <2>2. QED  BY <2>1
<1>4. \A n \in Batches, t \in 0..MaxParallel : trees[n][t] = NoTree  BY DEF Init
<1>5. QED  BY <1>1, <1>3, <1>4 DEF OpInv

LEMMA OpCommit ==
  ASSUME Typed, OpInv, NEW n \in {0} \cup Batches, CommitAs(n)
  PROVE  \A k \in DOMAIN log' : OpOnly(log'[k].files)
<1>1. OpOnly(Tracked(root))  BY DEF OpInv, OpOnly, Tracked
<1>2. \A k \in DOMAIN log' : k = Len(log) + 1 \/ (k \in DOMAIN log /\ log'[k] = log[k])
  BY CommitTyped DEF Typed, TablesOK
<1>3. \A k \in DOMAIN log' : k = Len(log) + 1 => log'[k].files = Tracked(root)
  BY CommitTyped
<1>4. QED  BY <1>1, <1>2, <1>3 DEF OpInv

LEMMA OpTip == ASSUME Typed, OpInv PROVE OpOnly(head)
<1>1. Len(log) \in DOMAIN log  BY HeadIsTree
<1>2. QED  BY <1>1 DEF OpInv, head, Tip

LEMMA OpTree ==
  ASSUME Typed, OpInv, run.step \in InHand \ {"claim"}, NEW s \in DOMAIN run.shards
  PROVE  OpOnly(TreeOf(s).files)
<1>1. TreeOf(s) # NoTree  BY TreeInHand, SharedAssumption
<1>2. run.batch \in Batches /\ TreeId(s) \in 0..MaxParallel
  BY SharedAssumption DEF Typed, RunOK, RunRecord, TreeId, InHand
<1>3. QED  BY <1>1, <1>2 DEF OpInv, TreeOf

LEMMA OpStart ==
  ASSUME Typed, OpInv, NEW shards, CreateTrees(shards)
  PROVE  \A n \in Batches, t \in 0..MaxParallel : trees'[n][t] # NoTree => OpOnly(trees'[n][t].files)
<1>1. run.batch \in Batches  BY DEF Typed, RunOK, RunRecord
<1>2. OpOnly([files |-> head, base |-> head].files)  BY OpTip
<1>3. ASSUME NEW n \in Batches, NEW t \in 0..MaxParallel
      PROVE  trees'[n][t] \in {trees[n][t], [files |-> head, base |-> head]}
  BY <1>1 DEF CreateTrees, Typed, TablesOK
<1>4. QED  BY <1>2, <1>3 DEF OpInv

(* Agents change files as members of their batch, not as people.           *)
LEMMA OpReturns == ASSUME Typed, OpInv, AgentReturns PROVE OpInv'
<1> DEFINE s == Len(run.declared) + 1
<1>1. /\ run \in RunRecord /\ run.step = "agents" /\ s \in DOMAIN run.shards
      /\ TreeId(s) \in 0..MaxParallel /\ run.batch \in Batches
  BY SharedAssumption DEF Typed, RunOK, RunRecord, AgentReturns, InHand, TreeId
<1>2. TreeOf(s) \in Tree /\ OpOnly(TreeOf(s).files)  BY <1>1, TreeInHand, OpTree DEF InHand
<1>3. op \notin run.shards[s]  BY <1>1, SharedAssumption DEF RunRecord
<1>4. PICK o \in Outcomes :
        trees' = [trees EXCEPT ![run.batch][TreeId(s)].files =
                    [f \in Files |-> IF f \in o.removed THEN {}
                                     ELSE IF f \in o.edited THEN @[f] \cup run.shards[s] ELSE @[f]]]
  BY DEF AgentReturns
<1> HIDE DEF s
<1>5. ASSUME NEW n \in Batches, NEW t \in 0..MaxParallel, trees'[n][t] # NoTree
      PROVE  OpOnly(trees'[n][t].files)
  <2>1. CASE n = run.batch /\ t = TreeId(s)
    <3>1. trees'[n][t].files = [f \in Files |-> IF f \in o.removed THEN {}
                                               ELSE IF f \in o.edited THEN TreeOf(s).files[f] \cup run.shards[s]
                                               ELSE TreeOf(s).files[f]]
      BY <1>1, <1>2, <1>4, <2>1 DEF Typed, TablesOK, TreeOf, Tree
    <3>2. QED  BY <1>2, <1>3, <3>1 DEF OpOnly
  <2>2. CASE ~(n = run.batch /\ t = TreeId(s))
    <3>1. trees'[n][t] = trees[n][t]
      BY <1>1, <1>4, <2>2 DEF Typed, TablesOK
    <3>2. QED  BY <1>5, <3>1 DEF OpInv
  <2>3. QED  BY <2>1, <2>2
<1>6. QED  BY <1>5 DEF OpInv, AgentReturns

LEMMA OpSame == ASSUME OpInv, root' = root, log' = log, trees' = trees PROVE OpInv'
BY DEF OpInv

LEMMA OpRoot == ASSUME Typed, OpInv, OpOnly(root'), log' = log, trees' = trees PROVE OpInv'
BY DEF OpInv

LEMMA OpUndo == ASSUME Typed, OpInv, NEW revert \in BOOLEAN, Undo(revert) PROVE OpInv'
<1> DEFINE to == log[Len(log) - 1]
<1>1. Len(log) > 1 /\ log \in Seq(CommitRow) /\ Len(log) \in Nat /\ root \in [Files -> Content]
  BY DEF Undo, Typed, TablesOK
<1>2. to \in CommitRow /\ OpOnly(to.files) /\ Len(log) - 1 \in DOMAIN log
  BY <1>1, PreviousCommit DEF OpInv
<1>3. OpOnly(root')
  BY <1>1, <1>2 DEF Undo, Reverted, Reset, OpInv, OpOnly
<1>4. ASSUME NEW k \in DOMAIN log' PROVE OpOnly(log'[k].files)
  <2>1. CASE revert
    <3>1. [to EXCEPT !.batch = 0] \in CommitRow /\ [to EXCEPT !.batch = 0].files = to.files
      BY <1>1, <1>2, PreviousCommit DEF CommitRow
    <3> HIDE DEF to
    <3>2. log' = Append(log, [to EXCEPT !.batch = 0])  BY <2>1 DEF Undo, to
    <3>3. (k = Len(log) + 1 /\ log'[k] = [to EXCEPT !.batch = 0]) \/ (k \in DOMAIN log /\ log'[k] = log[k])
      BY <1>1, <3>1, <3>2
    <3>4. QED  BY <1>2, <3>1, <3>3 DEF OpInv
  <2>2. CASE ~revert
    <3>1. log' = SubSeq(log, 1, Len(log) - 1)  BY <2>2 DEF Undo
    <3>2. k \in DOMAIN log /\ log'[k] = log[k]  BY <1>1, <3>1
    <3>3. QED  BY <3>2 DEF OpInv
  <2>3. QED  BY <2>1, <2>2
<1>5. QED  BY <1>3, <1>4 DEF OpInv, Undo

LEMMA NextOp == ASSUME Typed, OpInv, [Next]_vars PROVE OpInv'
<1>1. ASSUME Runtime PROVE OpInv'
  <2>1. CASE Plan
    <3> HIDE DEF Planned
    <3>1. QED  BY <2>1, OpStart DEF Plan, StartAgents, OpInv
  <2>2. CASE WriteClaim
    BY <2>2, OpStart DEF WriteClaim, StartAgents, OpInv
  <2>3. CASE Commit
    BY <2>3, OpCommit DEF Commit, Typed, RunOK, RunRecord, OpInv
  <2>4. ASSUME NEW p \in Paths, CopyPath(p) PROVE OpInv'
    <3>1. run.step = "copy" /\ run.at \in DOMAIN run.shards
      BY <2>4 DEF CopyPath, Typed, RunOK, RunRecord, InHand
    <3>2. OpOnly(TreeOf(run.at).files)  BY <3>1, OpTree DEF InHand
    <3>3. OpOnly(root')  BY <2>4, <3>2 DEF CopyPath, OpInv, OpOnly
    <3>4. QED  BY <2>4, <3>3, OpRoot DEF CopyPath
  <2>5. CASE CopyLocal
    <3>1. run.step = "local" /\ run.at \in DOMAIN run.shards
      BY <2>5 DEF CopyLocal, Typed, RunOK, RunRecord, InHand
    <3>2. OpOnly(TreeOf(run.at).files)  BY <3>1, OpTree DEF InHand
    <3>3. OpOnly(root')  BY <2>5, <3>2 DEF CopyLocal, OpInv, OpOnly
    <3>4. QED  BY <2>5, <3>3, OpRoot DEF CopyLocal
  <2>6. QED
    BY <1>1, <2>1, <2>2, <2>3, <2>4, <2>5, OpReturns, OpSame
       DEF Runtime, Launch, ReadClaim, WriteBack, RefuseClaims, AcceptClaims, Reject, PassGates, PassReadiness,
           CheckSync, SyncEnds, Tick, OnlyRun
<1>2. ASSUME Operators PROVE OpInv'
  <2>1. ASSUME NEW f \in Files, OperatorEdits(f) PROVE OpInv'
    <3>1. OpOnly(root')  BY <2>1 DEF OperatorEdits, OpInv, OpOnly, Typed, TablesOK
    <3>2. QED  BY <2>1, <3>1, OpRoot DEF OperatorEdits
  <2>2. CASE OperatorCommits  BY <2>2, OpCommit DEF OperatorCommits, OpInv
  <2>3. QED  BY <1>2, <2>1, <2>2, OpUndo, OpSame DEF Operators, ChangesClaim
<1>3. CASE Crash  BY <1>3, OpSame DEF Crash, OnlyRun
<1>4. ASSUME NEW n \in Batches, Clean(n) PROVE OpInv'
  <2>1. \A m \in Batches, t \in 0..MaxParallel : trees'[m][t] \in {trees[m][t], NoTree}
    BY <1>4 DEF Clean, WithoutTree, Typed, TablesOK
  <2>2. QED  BY <1>4, <2>1 DEF Clean, OpInv
<1>5. CASE UNCHANGED vars  BY <1>5, OpSame DEF vars
<1>6. QED  BY <1>1, <1>2, <1>3, <1>4, <1>5 DEF Next

(* The files that copying a path may write.                                *)
Copied(p) == IF p \in Files THEN {p} ELSE Inside[p]

(* While a tree is copied, what people changed before is in the root tree, *)
(* and in the tree as well where a copy is still to come.                  *)
DirtyKept ==
  run.step = "copy" =>
    \A f \in run.dirty \cap TrackedFor(run.at) :
      /\ op \in root[f]
      /\ \A p \in run.paths : f \in Copied(p) => op \in TreeOf(run.at).files[f]

(* A changed file outside the directories looked at as a whole shows up by itself. *)
LEMMA ShownInRoot ==
  ASSUME NEW s, NEW f \in TrackedFor(s) \ Ignored, root[f] # head[f]
  PROVE  f \in GitStatus(root, head)
BY DEF TrackedFor, GitStatus

(* Files that are looked at one by one are copied one by one.              *)
LEMMA CopiedAlone ==
  ASSUME Typed, run.step \in Merging, NEW s \in DOMAIN run.shards,
         NEW f \in TrackedFor(s), NEW p \in Candidates(s), f \in Copied(p)
  PROVE  p = f
<1>1. p \in Paths  BY CandidatesArePaths
<1>2. ASSUME p \in Dirs PROVE FALSE
  <2>1. f \in Inside[p]  BY <1>2, SharedAssumption DEF Copied
  <2>2. p \in UntrackedDirs(TreeOf(s).base) \/ p \in run.declared[s]
    <3>1. p \notin Files  BY <1>2, SharedAssumption
    <3>2. QED  BY <3>1 DEF Candidates, TreeStatus, GitStatus
  <2>3. QED  BY <1>2, <2>1, <2>2 DEF TrackedFor
<1>3. QED  BY <1>1, <1>2 DEF Paths, Copied

(* The check of the root tree lets only equal content go over a change.    *)
LEMMA CheckKeepsDirty == ASSUME Typed, OpInv, CheckSync PROVE DirtyKept'
<1>1. CASE ~MergeReady(run.at)
  BY <1>1, IdleIsRun DEF CheckSync, DirtyKept
<1>2. CASE MergeReady(run.at)
  <2>1. /\ run \in RunRecord /\ run.step \in Merging /\ run.at \in DOMAIN run.shards
    BY DEF CheckSync, Typed, RunOK, RunRecord, InHand, Merging
  <2>2. /\ run'.at = run.at /\ run'.batch = run.batch /\ run'.mode = run.mode /\ run'.declared = run.declared
        /\ run'.paths = {p \in Candidates(run.at) : ~Excluded(p)}
        /\ run'.dirty = {f \in Files \ Ignored : op \in root[f] /\ root[f] # head[f]}
        /\ root' = root /\ trees' = trees /\ log' = log
    BY <1>2, <2>1 DEF CheckSync, RunRecord
  <2>3. TrackedFor(run.at)' = TrackedFor(run.at) /\ TreeOf(run.at)' = TreeOf(run.at)
    BY <2>2 DEF TrackedFor, TreeOf, TreeId, head, Tip, UntrackedDirs
  <2>4. ASSUME NEW f \in Files \ Ignored, op \in root[f], root[f] # head[f], f \in TrackedFor(run.at),
               NEW p \in Candidates(run.at), ~Excluded(p), f \in Copied(p)
        PROVE  op \in TreeOf(run.at).files[f]
    <3>1. p = f  BY <2>1, <2>4, CopiedAlone
    <3>2. f \in GitStatus(root, head) \cap Candidates(run.at)  BY <2>4, <3>1, ShownInRoot
    <3>3. KindOf[f] = "product"  BY <2>4 DEF OpInv, OpOnly
    <3>4. SameContent(f, run.at)  BY <1>2, <2>4, <3>1, <3>2, <3>3 DEF MergeReady, RootAllows
    <3>5. QED  BY <2>4, <3>4 DEF SameContent
  <2>5. QED  BY <2>2, <2>3, <2>4 DEF DirtyKept
<1>3. QED  BY <1>1, <1>2

LEMMA CopyKeepsDirty ==
  ASSUME Typed, DirtyKept, NEW p \in Paths, CopyPath(p)
  PROVE  DirtyKept' /\ \A f \in run.dirty \cap TrackedFor(run.at) : op \in root'[f]
<1>1. /\ run \in RunRecord /\ run.step = "copy" /\ p \in run.paths
  BY DEF CopyPath, Typed, RunOK
<1>2. run' = [run EXCEPT !.paths = @ \ {p}] /\ trees' = trees /\ log' = log
  BY DEF CopyPath
<1>3. /\ run'.at = run.at /\ run'.batch = run.batch /\ run'.mode = run.mode /\ run'.declared = run.declared
      /\ run'.paths = run.paths \ {p} /\ run'.dirty = run.dirty
  BY <1>1, <1>2 DEF RunRecord
<1>4. TrackedFor(run.at)' = TrackedFor(run.at) /\ TreeOf(run.at)' = TreeOf(run.at)
  BY <1>2, <1>3 DEF TrackedFor, TreeOf, TreeId, head, Tip, UntrackedDirs
<1>5. ASSUME NEW f \in run.dirty \cap TrackedFor(run.at) PROVE op \in root'[f]
  <2>1. f \in Files /\ op \in root[f]  BY <1>1, <1>5 DEF DirtyKept, TrackedFor
  <2>2. CASE f \notin Copied(p)  BY <2>1, <2>2 DEF CopyPath, Copied
  <2>3. CASE f \in Copied(p)
    <3>1. op \in TreeOf(run.at).files[f]  BY <1>1, <1>5, <2>3 DEF DirtyKept
    <3>2. root'[f] \in {root[f], TreeOf(run.at).files[f]}  BY <2>1 DEF CopyPath
    <3>3. QED  BY <2>1, <3>1, <3>2
  <2>4. QED  BY <2>2, <2>3
<1>6. QED  BY <1>1, <1>3, <1>4, <1>5 DEF DirtyKept

LEMMA EditKeepsDirty ==
  ASSUME Typed, DirtyKept, NEW g \in Files, OperatorEdits(g)
  PROVE  DirtyKept' /\ \A f \in Files : op \in root[f] => op \in root'[f]
<1>1. run' = run /\ trees' = trees /\ log' = log /\ root' = [root EXCEPT ![g] = @ \cup {op}]
      /\ root \in [Files -> Content]
  BY DEF OperatorEdits, Typed, TablesOK
<1>2. \A f \in Files : op \in root[f] => op \in root'[f]  BY <1>1
<1>3. TrackedFor(run.at)' = TrackedFor(run.at) /\ TreeOf(run.at)' = TreeOf(run.at)
  BY <1>1 DEF TrackedFor, TreeOf, TreeId, head, Tip, UntrackedDirs
<1>4. TrackedFor(run.at) \subseteq Files  BY DEF TrackedFor
<1>5. QED  BY <1>1, <1>2, <1>3, <1>4 DEF DirtyKept

LEMMA ChangeKeepsDirty ==
  ASSUME Typed, DirtyKept, NEW c \in External, ChangesClaim(c)
  PROVE  DirtyKept'
<1>1. run' = [run EXCEPT !.standing = @ \ {c}] /\ run \in RunRecord /\ root' = root /\ trees' = trees /\ log' = log
  BY DEF ChangesClaim, Typed, RunOK
<1>2. /\ run'.at = run.at /\ run'.batch = run.batch /\ run'.mode = run.mode /\ run'.declared = run.declared
      /\ run'.paths = run.paths /\ run'.dirty = run.dirty /\ run'.step = run.step
  BY <1>1 DEF RunRecord
<1>3. TrackedFor(run.at)' = TrackedFor(run.at) /\ TreeOf(run.at)' = TreeOf(run.at)
  BY <1>1, <1>2 DEF TrackedFor, TreeOf, TreeId, head, Tip, UntrackedDirs
<1>4. QED  BY <1>1, <1>2, <1>3 DEF DirtyKept

(* The other steps neither copy nor begin to.                              *)
LEMMA OutOfCopy ==
  ASSUME Typed, Runtime \/ OperatorCommits \/ (\E revert \in BOOLEAN : Undo(revert)) \/ Crash \/ \E n \in Batches : Clean(n),
         ~CheckSync, \A p \in Paths : ~CopyPath(p)
  PROVE  run'.step # "copy" /\ (run.step = "copy" => root' = root)
<1>1. run \in RunRecord  BY DEF Typed, RunOK
<1>2. run'.step # "copy"
  <2>1. CASE SyncEnds  BY <1>1, <2>1 DEF SyncEnds, RunRecord
  <2>2. CASE CopyLocal  BY <1>1, <2>2, IdleIsRun DEF CopyLocal, RunRecord
  <2>3. CASE Tick  BY <1>1, <2>3 DEF Tick, RunRecord
  <2>4. QED  BY <2>1, <2>2, <2>3, OutOfMerge DEF Merging
<1>3. run.step = "copy" => root' = root
  BY
     DEF Runtime, Launch, ReadClaim, OnlyRun, WriteBack, RefuseClaims, Plan, AcceptClaims, WriteClaim, AgentReturns,
     Reject, PassGates, PassReadiness, SyncEnds, CopyLocal, Tick, Commit, OperatorCommits, Undo, Crash, Clean
<1>4. QED  BY <1>2, <1>3

LEMMA NextKeepsDirty ==
  ASSUME Typed, OpInv, DirtyKept, [Next]_vars
  PROVE  /\ DirtyKept'
         /\ run.step = "copy" => \A f \in run.dirty \cap TrackedFor(run.at) : op \in root'[f]
<1> DEFINE Goal == /\ DirtyKept'
                   /\ run.step = "copy" => \A f \in run.dirty \cap TrackedFor(run.at) : op \in root'[f]
<1>1. TrackedFor(run.at) \subseteq Files  BY DEF TrackedFor
<1>2. run.step = "copy" => \A f \in run.dirty \cap TrackedFor(run.at) : op \in root[f]
  BY DEF DirtyKept
<1>3. CASE CheckSync
  <2>1. run.step # "copy"  BY <1>3 DEF CheckSync
  <2>2. QED  BY <1>3, <2>1, CheckKeepsDirty
<1>4. ASSUME NEW p \in Paths, CopyPath(p) PROVE Goal  BY <1>4, CopyKeepsDirty
<1>5. ASSUME NEW f \in Files, OperatorEdits(f) PROVE Goal
  BY <1>1, <1>2, <1>5, EditKeepsDirty
<1>6. ASSUME NEW c \in External, ChangesClaim(c) PROVE Goal
  BY <1>2, <1>6, ChangeKeepsDirty DEF ChangesClaim
<1>7. CASE UNCHANGED vars
  <2>1. run' = run /\ root' = root /\ trees' = trees /\ log' = log
    BY <1>7 DEF vars
  <2>2. TrackedFor(run.at)' = TrackedFor(run.at) /\ TreeOf(run.at)' = TreeOf(run.at)
    BY <2>1 DEF TrackedFor, TreeOf, TreeId, head, Tip
  <2>3. DirtyKept'
    BY <2>1, <2>2 DEF DirtyKept
  <2>4. QED  BY <1>2, <2>1, <2>3
<1>8. ASSUME run'.step # "copy", run.step = "copy" => root' = root PROVE Goal
  BY <1>2, <1>8 DEF DirtyKept
<1>9. QED
  BY <1>3, <1>4, <1>5, <1>6, <1>7, <1>8, OutOfCopy DEF Next, Runtime, Operators

LEMMA DirtyHolds == Spec => [](Typed /\ OpInv /\ DirtyKept)
<1>1. Init => Typed /\ OpInv /\ DirtyKept
  BY InitTyped, InitOp DEF Init, IdleRun, DirtyKept
<1>2. Typed /\ OpInv /\ DirtyKept /\ [Next]_vars => (Typed /\ OpInv /\ DirtyKept)'
  BY NextTyped, NextOp, NextKeepsDirty
<1>3. QED  BY <1>1, <1>2, PTL DEF Spec

(* Syncs keep the uncommitted work of people, for any layout of files and  *)
(* directories and whatever agents list.                                   *)
THEOREM UncommittedWorkHolds == Spec => UncommittedWorkSurvives
<1>1. Typed /\ OpInv /\ DirtyKept /\ [Next]_vars =>
        [run.step = "copy" => \A f \in run.dirty \cap TrackedFor(run.at) : op \in root'[f]]_vars
  BY NextKeepsDirty
<1>2. QED  BY <1>1, DirtyHolds, PTL DEF Spec, UncommittedWorkSurvives

-----------------------------------------------------------------------------
(* Merging.                                                                *)

(* What shard s made of file f is in this content.                         *)
Whole(s, f, content) ==
  LET own == TreeOf(s).files[f] IN
  IF own # {} THEN own \subseteq content /\ (content = own \/ op \in content)
              ELSE content = {} \/ op \in content

(* Shard s changed f, from what is still the last commit.                  *)
Changed(s, f) == TreeOf(s).base = head /\ f \in Guarded /\ TreeOf(s).files[f] # head[f]

(* The shards that were merged are in the root tree, and what of the shard *)
(* at hand is still to be copied says the same of them.                    *)
MergedSoFar ==
  run.step \in Merging =>
    \A s \in DOMAIN run.shards, f \in Files : Changed(s, f) =>
      /\ s < run.at \/ (s = run.at /\ run.step \in {"local", "tick", "commit"}) => Whole(s, f, root[f])
      /\ run.step = "copy" /\ s = run.at => f \in run.paths \/ Whole(s, f, root[f])
      /\ run.step = "copy" /\ s < run.at /\ f \in run.paths => Whole(s, f, TreeOf(run.at).files[f])

CopiedByName ==
  run.step = "copy" => \A f \in Guarded, p \in run.paths : f \in Copied(p) => p = f

MergeInv == MergedSoFar /\ CopiedByName

(* Nothing that a batch's merge is measured by changes while it is under way. *)
LEMMA MergeFrame ==
  ASSUME trees' = trees, log' = log, run'.batch = run.batch, run'.mode = run.mode, run'.shards = run.shards,
         run'.declared = run.declared, run'.local = run.local
  PROVE  /\ \A s, f : Changed(s, f)' <=> Changed(s, f)
         /\ \A s : TreeOf(s)' = TreeOf(s)
         /\ \A s, f, content : Whole(s, f, content)' = Whole(s, f, content)
         /\ Guarded' = Guarded
<1>1. \A s : TreeOf(s)' = TreeOf(s)  BY DEF TreeOf, TreeId
<1>2. head' = head  BY DEF head, Tip
<1>3. \A s : TrackedFor(s)' = TrackedFor(s)  BY <1>1, <1>2 DEF TrackedFor, UntrackedDirs
<1>4. Guarded' = Guarded  BY <1>2, <1>3 DEF Guarded
<1>5. QED  BY <1>1, <1>2, <1>4 DEF Changed, Whole

LEMMA GuardedFile ==
  ASSUME NEW f \in Guarded, NEW s \in DOMAIN run.shards
  PROVE  f \in Files /\ f \in TrackedFor(s) \ Ignored /\ f \notin run.local[s] /\ ~MayStay(f) /\ ~Excluded(f)
         /\ KindOf[f] = "product" /\ op \notin head[f]
BY DEF Guarded, Ignored, Disposition, MayStay, Excluded

(* What an agent changed is among the paths that the sync copies. *)
LEMMA ChangeIsCandidate ==
  ASSUME Typed, run.step \in Merging, NEW s \in DOMAIN run.shards, NEW f, Changed(s, f), DeclaresChanges(s)
  PROVE  f \in Candidates(s)
<1>1. f \in Guarded /\ TreeOf(s).files[f] # TreeOf(s).base[f]  BY DEF Changed
<1>2. f \in Files /\ f \in TrackedFor(s) \ Ignored /\ ~MayStay(f)  BY <1>1, GuardedFile
<1>3. f \in TreeStatus(s)  BY <1>1, <1>2 DEF TreeStatus, GitStatus, TrackedFor
<1>4. CASE run.declared[s] = {}  BY <1>3, <1>4 DEF Candidates
<1>5. CASE run.declared[s] # {}
  <2>1. ~Covers(run.declared[s], f)
    BY <1>2, SharedAssumption DEF Covers, TrackedFor
  <2>2. QED  BY <1>2, <1>3, <1>5, <2>1 DEF DeclaresChanges, Candidates
<1>6. QED  BY <1>4, <1>5

(* What an earlier sync left shows as a change, so that only equal content goes over it. *)
LEMMA WholeIsShown ==
  ASSUME Typed, run.step \in Merging, NEW s \in DOMAIN run.shards, NEW t \in DOMAIN run.shards,
         NEW f, Changed(s, f), Whole(s, f, root[f]), RootAllows(t), f \in Candidates(t)
  PROVE  root[f] = TreeOf(t).files[f]
<1>1. f \in Guarded /\ TreeOf(s).files[f] # head[f]  BY DEF Changed
<1>2. f \in Files /\ f \in TrackedFor(t) \ Ignored /\ ~Excluded(f) /\ KindOf[f] = "product" /\ op \notin head[f]
  BY <1>1, GuardedFile
<1>3. root[f] # head[f]  BY <1>1, <1>2 DEF Whole
<1>4. f \in GitStatus(root, head)  BY <1>2, <1>3, ShownInRoot
<1>5. SameContent(f, t)  BY <1>2, <1>4 DEF RootAllows
<1>6. QED  BY <1>2, <1>5 DEF SameContent

LEMMA BatchInMerge ==
  ASSUME Typed, run.step \in Merging
  PROVE  /\ run \in RunRecord /\ run.at \in DOMAIN run.shards /\ run.at \in Nat /\ Len(run.shards) \in Nat
         /\ DOMAIN run.shards = 1..Len(run.shards)
         /\ run.step \in {"tick", "commit"} => run.at = Len(run.shards)
BY DEF Typed, RunOK, RunRecord, InHand, Merging

LEMMA CheckMerges == ASSUME Typed, MergeInv, CheckSync PROVE MergeInv'
<1>1. CASE ~MergeReady(run.at)
  BY <1>1, IdleIsRun DEF CheckSync, MergeInv, MergedSoFar, CopiedByName, Merging
<1>2. CASE MergeReady(run.at)
  <2>1. run.step = "merge" /\ run.step \in Merging  BY DEF CheckSync, Merging
  <2>2. run \in RunRecord /\ run.at \in DOMAIN run.shards  BY <2>1, BatchInMerge
  <2>3. /\ run'.step = "copy" /\ run'.at = run.at /\ run'.batch = run.batch /\ run'.mode = run.mode
        /\ run'.shards = run.shards /\ run'.declared = run.declared /\ run'.local = run.local
        /\ run'.paths = {p \in Candidates(run.at) : ~Excluded(p)}
        /\ root' = root /\ trees' = trees /\ log' = log
    BY <1>2, <2>2 DEF CheckSync, RunRecord
  <2>4. DeclaresChanges(run.at) /\ RootAllows(run.at)  BY <1>2 DEF MergeReady
  <2>5. ASSUME NEW s \in DOMAIN run.shards, NEW f \in Files, Changed(s, f)
        PROVE  /\ s < run.at => Whole(s, f, root[f])
               /\ s = run.at => f \in run'.paths
               /\ s < run.at /\ f \in run'.paths => Whole(s, f, TreeOf(run.at).files[f])
    <3>1. s < run.at => Whole(s, f, root[f])
      BY <2>1, <2>5 DEF MergeInv, MergedSoFar
    <3>2. s = run.at => f \in run'.paths
      BY <2>1, <2>2, <2>3, <2>4, <2>5, ChangeIsCandidate, GuardedFile DEF Changed
    <3>3. s < run.at /\ f \in run'.paths => Whole(s, f, TreeOf(run.at).files[f])
      BY <2>1, <2>2, <2>3, <2>4, <2>5, <3>1, WholeIsShown
    <3>4. QED  BY <3>1, <3>2, <3>3
  <2>6. MergedSoFar'
    BY <2>2, <2>3, <2>5, MergeFrame DEF MergedSoFar, RunRecord
  <2>7. \A f \in Guarded, p \in run'.paths : f \in Copied(p) => p = f
    <3>1. ASSUME NEW f \in Guarded, NEW p \in run'.paths, f \in Copied(p) PROVE p = f
      BY <2>1, <2>2, <2>3, <3>1, CopiedAlone, GuardedFile
    <3>2. QED  BY <3>1
  <2>8. CopiedByName'  BY <2>3, <2>7, MergeFrame DEF CopiedByName, Copied
  <2>9. QED  BY <2>6, <2>8 DEF MergeInv
<1>3. QED  BY <1>1, <1>2

LEMMA CopyMerges == ASSUME Typed, MergeInv, NEW p \in Paths, CopyPath(p) PROVE MergeInv'
<1>1. run.step = "copy" /\ run.step \in Merging /\ p \in run.paths  BY DEF CopyPath, Merging
<1>2. run \in RunRecord /\ run.at \in DOMAIN run.shards  BY <1>1, BatchInMerge
<1>3. /\ run'.step = "copy" /\ run'.at = run.at /\ run'.batch = run.batch /\ run'.mode = run.mode
      /\ run'.shards = run.shards /\ run'.declared = run.declared /\ run'.local = run.local
      /\ run'.paths = run.paths \ {p} /\ trees' = trees /\ log' = log
  BY <1>1, <1>2 DEF CopyPath, RunRecord
<1>4. ASSUME NEW f \in Guarded
      PROVE  root'[f] = IF f = p THEN TreeOf(run.at).files[f] ELSE root[f]
  <2>1. f \in Files  BY DEF Guarded
  <2>2. CASE f = p  BY <2>1, <2>2 DEF CopyPath, Exists
  <2>3. CASE f # p
    <3>1. f \notin Copied(p)  BY <1>1, <2>3 DEF MergeInv, CopiedByName
    <3>2. QED  BY <2>1, <2>3, <3>1 DEF CopyPath, Copied
  <2>4. QED  BY <2>2, <2>3
<1>5. ASSUME NEW s \in DOMAIN run.shards, NEW f \in Files, Changed(s, f)
      PROVE  /\ s < run.at => Whole(s, f, root'[f])
             /\ s = run.at => f \in run'.paths \/ Whole(s, f, root'[f])
             /\ s < run.at /\ f \in run'.paths => Whole(s, f, TreeOf(run.at).files[f])
  <2>1. root'[f] = IF f = p THEN TreeOf(run.at).files[f] ELSE root[f]
    BY <1>4, <1>5 DEF Changed
  <2>2. /\ s < run.at => Whole(s, f, root[f])
        /\ s = run.at => f \in run.paths \/ Whole(s, f, root[f])
        /\ s < run.at /\ f \in run.paths => Whole(s, f, TreeOf(run.at).files[f])
    BY <1>1, <1>5 DEF MergeInv, MergedSoFar
  <2>3. Whole(s, f, TreeOf(s).files[f])  BY DEF Whole
  <2>4. QED  BY <1>1, <1>3, <2>1, <2>2, <2>3
<1>6. MergedSoFar'
  BY <1>2, <1>3, <1>5, MergeFrame DEF MergedSoFar, RunRecord
<1>7. CopiedByName'  BY <1>1, <1>3, MergeFrame DEF MergeInv, CopiedByName, Copied
<1>8. QED  BY <1>6, <1>7 DEF MergeInv

LEMMA SyncEndMerges == ASSUME Typed, MergeInv, SyncEnds PROVE MergeInv'
<1>1. run.step = "copy" /\ run.step \in Merging /\ run.paths = {}  BY DEF SyncEnds, Merging
<1>2. run \in RunRecord /\ run.at \in DOMAIN run.shards  BY <1>1, BatchInMerge
<1>3. /\ run'.step = "local" /\ run'.at = run.at /\ run'.batch = run.batch /\ run'.mode = run.mode
      /\ run'.shards = run.shards /\ run'.declared = run.declared /\ run'.local = run.local
      /\ root' = root /\ trees' = trees /\ log' = log
  BY <1>1, <1>2 DEF SyncEnds, RunRecord, OnlyRun
<1>4. QED
  BY <1>1, <1>2, <1>3, MergeFrame DEF MergeInv, MergedSoFar, CopiedByName

LEMMA LocalMerges == ASSUME Typed, MergeInv, CopyLocal PROVE MergeInv'
<1>1. run.step = "local" /\ run.step \in Merging  BY DEF CopyLocal, Merging
<1>2. run \in RunRecord /\ run.at \in DOMAIN run.shards /\ run.at \in Nat /\ DOMAIN run.shards = 1..Len(run.shards)
  BY <1>1, BatchInMerge
<1>3. CASE run' = IdleRun
  BY <1>3, IdleIsRun DEF MergeInv, MergedSoFar, CopiedByName, Merging
<1>4. CASE run' # IdleRun
  <2>1. /\ run'.batch = run.batch /\ run'.mode = run.mode
        /\ run'.shards = run.shards /\ run'.declared = run.declared /\ run'.local = run.local
        /\ trees' = trees /\ log' = log
        /\ (run'.step = "merge" /\ run'.at = run.at + 1) \/ (run'.step = "tick" /\ run'.at = run.at)
    BY <1>2, <1>4 DEF CopyLocal, RunRecord
  <2>2. \A f \in Guarded : root'[f] = root[f]
    <3>1. ASSUME NEW f \in Guarded PROVE root'[f] = root[f]
      <4>1. f \in Files /\ f \notin run.local[run.at]  BY <1>2, GuardedFile
      <4>2. QED  BY <4>1 DEF CopyLocal
    <3>2. QED  BY <3>1
  <2>3. ASSUME NEW s \in DOMAIN run.shards, NEW f \in Files, Changed(s, f), s <= run.at
        PROVE  Whole(s, f, root'[f])
    <3>1. root'[f] = root[f]  BY <2>2, <2>3 DEF Changed
    <3>2. s < run.at \/ s = run.at  BY <1>2, <2>3
    <3>3. QED  BY <1>1, <2>3, <3>1, <3>2 DEF MergeInv, MergedSoFar
  <2>4. ASSUME NEW s \in DOMAIN run.shards, s < run'.at \/ (s = run'.at /\ run'.step = "tick")
        PROVE  s <= run.at
    BY <1>2, <2>1, <2>4
  <2>5. run'.step \in {"merge", "tick"}  BY <2>1
  <2>6. MergedSoFar'
    <3>1. ASSUME NEW s \in DOMAIN run'.shards, NEW f \in Files, Changed(s, f)',
                 s < run'.at \/ (s = run'.at /\ run'.step \in {"local", "tick", "commit"})
          PROVE  Whole(s, f, root[f])'
      <4>1. Changed(s, f) /\ s \in DOMAIN run.shards  BY <2>1, <3>1, MergeFrame
      <4>2. s <= run.at  BY <2>1, <2>4, <2>5, <3>1, <4>1
      <4>3. Whole(s, f, root'[f])  BY <2>3, <4>1, <4>2
      <4>4. Whole(s, f, root[f])' = Whole(s, f, root'[f])  BY <2>1 DEF Whole, TreeOf, TreeId
      <4>5. QED  BY <4>3, <4>4
    <3>2. QED  BY <2>5, <3>1 DEF MergedSoFar
  <2>7. CopiedByName'  BY <2>5 DEF CopiedByName
  <2>8. QED  BY <2>6, <2>7 DEF MergeInv
<1>5. QED  BY <1>3, <1>4

LEMMA TickMerges == ASSUME Typed, MergeInv, Tick PROVE MergeInv'
<1>1. run.step = "tick" /\ run.step \in Merging  BY DEF Tick, Merging
<1>2. run \in RunRecord  BY <1>1, BatchInMerge
<1>3. /\ run'.step = "commit" /\ run'.at = run.at /\ run'.batch = run.batch /\ run'.mode = run.mode
      /\ run'.shards = run.shards /\ run'.declared = run.declared /\ run'.local = run.local
      /\ root' = root /\ trees' = trees /\ log' = log
  BY <1>1, <1>2 DEF Tick, RunRecord
<1>4. QED
  BY <1>1, <1>3, MergeFrame DEF MergeInv, MergedSoFar, CopiedByName

LEMMA WholeWithEdit ==
  ASSUME NEW s, NEW f, NEW content, NEW more, Whole(s, f, content), more \in {content, content \cup {op}}
  PROVE  Whole(s, f, more)
BY DEF Whole

LEMMA EditMerges == ASSUME Typed, MergeInv, NEW g \in Files, OperatorEdits(g) PROVE MergeInv'
<1>1. run' = run /\ trees' = trees /\ log' = log /\ root' = [root EXCEPT ![g] = @ \cup {op}]
      /\ root \in [Files -> Content]
  BY DEF OperatorEdits, Typed, TablesOK
<1>2. \A f \in Files : root'[f] \in {root[f], root[f] \cup {op}}  BY <1>1
<1>3. \A s, f : f \in Files /\ Whole(s, f, root[f]) => Whole(s, f, root'[f])
  BY <1>2, WholeWithEdit
<1>4. MergedSoFar'
  <2>1. ASSUME run.step \in Merging, NEW s \in DOMAIN run.shards, NEW f \in Files, Changed(s, f)
        PROVE  /\ s < run.at \/ (s = run.at /\ run.step \in {"local", "tick", "commit"}) => Whole(s, f, root'[f])
               /\ run.step = "copy" /\ s = run.at => f \in run.paths \/ Whole(s, f, root'[f])
               /\ run.step = "copy" /\ s < run.at /\ f \in run.paths => Whole(s, f, TreeOf(run.at).files[f])
    BY <1>3, <2>1 DEF MergeInv, MergedSoFar
  <2>2. /\ \A s, f : Changed(s, f)' <=> Changed(s, f)
        /\ \A s : TreeOf(s)' = TreeOf(s)
        /\ \A s, f, content : Whole(s, f, content)' = Whole(s, f, content)
    BY <1>1, MergeFrame
  <2>3. QED  BY <1>1, <2>1, <2>2 DEF MergedSoFar
<1>5. CopiedByName'  BY <1>1, MergeFrame DEF MergeInv, CopiedByName, Copied
<1>6. QED  BY <1>4, <1>5 DEF MergeInv

LEMMA SameMerges ==
  ASSUME MergeInv, root' = root, trees' = trees, log' = log,
         run' = run \/ \E c : run \in RunRecord /\ run' = [run EXCEPT !.standing = @ \ {c}]
  PROVE  MergeInv'
<1>1. /\ run'.step = run.step /\ run'.at = run.at /\ run'.batch = run.batch /\ run'.mode = run.mode
      /\ run'.shards = run.shards /\ run'.declared = run.declared /\ run'.local = run.local /\ run'.paths = run.paths
  BY DEF RunRecord
<1>2. QED  BY <1>1, MergeFrame DEF MergeInv, MergedSoFar, CopiedByName, Copied

(* Every step of a merge keeps what was merged before.                     *)
LEMMA NextMerges == ASSUME Typed, MergeInv, [Next]_vars PROVE MergeInv'
<1>1. ASSUME run'.step \notin Merging PROVE MergeInv'
  BY <1>1 DEF MergeInv, MergedSoFar, CopiedByName, Merging
<1>2. ASSUME Typed', run'.step = "merge", run'.at = 1 PROVE MergeInv'
  <2>1. \A s \in DOMAIN run'.shards : ~(s < run'.at)  BY <1>2 DEF Typed, RunOK, RunRecord
  <2>2. QED  BY <1>2, <2>1 DEF MergeInv, MergedSoFar, CopiedByName
<1>3. Typed'  BY NextTyped
<1>4. ASSUME NEW c \in External, ChangesClaim(c) PROVE MergeInv'
  BY <1>4, SameMerges DEF ChangesClaim, Typed, RunOK
<1>5. CASE UNCHANGED vars  BY <1>5, SameMerges DEF vars
<1>6. QED
  BY <1>1, <1>2, <1>3, <1>4, <1>5, CheckMerges, CopyMerges, SyncEndMerges, LocalMerges, TickMerges, EditMerges,
     OutOfMerge DEF Next, Runtime, Operators

LEMMA MergeHolds == Spec => [](Typed /\ MergeInv)
<1>1. Init => Typed /\ MergeInv
  BY InitTyped DEF Init, IdleRun, MergeInv, MergedSoFar, CopiedByName, Merging
<1>2. Typed /\ MergeInv /\ [Next]_vars => (Typed /\ MergeInv)'
  BY NextTyped, NextMerges
<1>3. QED  BY <1>1, <1>2, PTL DEF Spec

(* The step that MergedBatchIsWhole speaks of.                             *)
WholeCommit ==
  run.step = "commit" /\ Len(log') > Len(log) =>
    \A s \in DOMAIN run.shards : TreeOf(s).base = head =>
      \A f \in Guarded :
        LET own == TreeOf(s).files[f]
            committed == log'[Len(log')].files[f] IN
        own # head[f] => IF own # {} THEN own \subseteq committed
                         ELSE committed = {} \/ op \in committed

LEMMA CommitIsWhole == ASSUME Typed, MergeInv, [Next]_vars PROVE WholeCommit
<1> SUFFICES ASSUME run.step = "commit", Len(log') > Len(log) PROVE WholeCommit
  BY DEF WholeCommit
<1>1. log' # log /\ run.step \in Merging  BY DEF Merging, Typed, TablesOK
<1>2. Commit
  BY <1>1
     DEF Next, vars, Runtime, Operators, Launch, ReadClaim, OnlyRun, WriteBack, RefuseClaims, Plan, AcceptClaims,
     WriteClaim, AgentReturns, Reject, PassGates, PassReadiness, CheckSync, CopyPath, SyncEnds, CopyLocal,
     Tick, OperatorEdits, OperatorCommits, Undo, ChangesClaim, Crash, Clean
<1>3. log'[Len(log')].files = Tracked(root)
  <2>1. run.batch \in {0} \cup Batches  BY DEF Typed, RunOK, RunRecord
  <2> DEFINE row == [files |-> Tracked(root), claims |-> claims, checked |-> checked, batch |-> run.batch]
  <2>2. log' = Append(log, row) /\ row.files = Tracked(root)  BY <1>2 DEF Commit, CommitAs
  <2>3. log \in Seq(CommitRow) /\ row \in CommitRow
    BY <2>1, TrackedIsTree DEF Typed, TablesOK, CommitRow
  <2> HIDE DEF row
  <2>4. log'[Len(log')] = row  BY <2>2, <2>3
  <2>5. QED  BY <2>2, <2>4
<1>4. ASSUME NEW s \in DOMAIN run.shards, TreeOf(s).base = head, NEW f \in Guarded, TreeOf(s).files[f] # head[f]
      PROVE  Whole(s, f, log'[Len(log')].files[f])
  <2>1. f \in Files \ Ignored /\ Changed(s, f)  BY <1>4, GuardedFile DEF Changed
  <2>2. log'[Len(log')].files[f] = root[f]  BY <1>3, <2>1 DEF Tracked
  <2>3. s < run.at \/ s = run.at
    <3>1. run.at = Len(run.shards) /\ s \in 1..Len(run.shards) /\ Len(run.shards) \in Nat
      BY <1>1, BatchInMerge
    <3>2. QED  BY <3>1
  <2>4. QED  BY <1>1, <2>1, <2>2, <2>3 DEF MergeInv, MergedSoFar
<1>5. QED  BY <1>4 DEF WholeCommit, Whole

(* Batches of any number of agents are committed whole, whatever their     *)
(* results list and whichever of them changed the same files.              *)
THEOREM MergedBatchHolds == Spec => MergedBatchIsWhole
<1>1. Typed /\ MergeInv /\ [Next]_vars => [WholeCommit]_vars
  BY CommitIsWhole
<1>2. QED  BY <1>1, MergeHolds, PTL DEF Spec, MergedBatchIsWhole, WholeCommit
=============================================================================
