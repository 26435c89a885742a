-------------------- MODULE ClassificationPipeline_proofs --------------------
(* Proofs about the classification engine, for any tables, products, packs, *)
(* requests, processes, worker ids and number of faults: the requests on    *)
(* their own, the worker loops on their own, what the rules of a pack make  *)
(* of a run, and both on the tables they share.                             *)
EXTENDS ClassificationPipeline, EvaluatedRuns, FiniteSetTheorems, SequenceTheorems, TLAPS

USE TablesAssumption

-----------------------------------------------------------------------------
(* The requests: RunRequests.                                               *)

USE RequestsAssumption

(* What a request knows of run r: its own row before a committed one.      *)
RowOf(w, table, r) == IF w.staged[r] # NoRow THEN w.staged[r] ELSE table[r]

ProductsIn(ids) == {ids[i] : i \in DOMAIN ids}

FitsFacts(row) == row.pack \in Packs => JurisdictionOf[row.pack] = MarketOf[row.facts]

(* A row as a request inserts it.                                          *)
Fresh(row) ==
  /\ FitsFacts(row)
  /\ \E q \in Products, f \in Facts :
       row = BlockedRun(q, f) \/ \E k \in Packs : row = QueuedRun(q, k, f)

(* The runs answered so far and the products still to do are the products  *)
(* that were asked for.                                                    *)
OnCourse(w, table) ==
  /\ \A r \in w.answers : RowOf(w, table, r) # NoRow
  /\ {RowOf(w, table, r).product : r \in w.answers} \cup ProductsIn(w.todo)
       = ProductsIn(w.asked)

(* A request at work on the table of runs.                                 *)
Sound(w, table) ==
  /\ w.step \in {"product", "pack", "existing"} => w.todo # <<>>
  /\ w.step \in {"commit", "replied"} => w.todo = <<>>
  /\ w.step \in {"pack", "existing"} => w.snapshot \in Facts
  /\ w.step = "existing" => /\ w.pack \in Packs
                            /\ JurisdictionOf[w.pack] = MarketOf[w.snapshot]
  /\ \A r \in Runs : w.staged[r] # NoRow => table[r] = NoRow /\ Fresh(w.staged[r])
  /\ w.step = "replied" => \A r \in Runs : w.staged[r] = NoRow
  /\ w.step # "idle" => OnCourse(w, table)

(* No two requests insert a row of the same id.                            *)
StagedApart ==
  \A g, h \in Handlers : \A r \in Runs :
    g # h => handlers[g].staged[r] = NoRow \/ handlers[h].staged[r] = NoRow

ActiveFits == \A j \in Jurisdictions : active[j] \in Packs => JurisdictionOf[active[j]] = j

RequestsInv == /\ RequestsTypeOK /\ QueuedRunHasJob /\ PackFitsFacts
       /\ ActiveFits /\ StagedApart
       /\ \A h \in Handlers : Sound(handlers[h], runs)

-----------------------------------------------------------------------------
LEMMA NoRowIsNoRun == NoRow \notin RunRow /\ NoRow \notin JobRow
BY DEF NoRow, RunRow, JobRow, TerminalStatus, DecidedStatus

LEMMA IdleIsHandler == IdleHandler \in Handler
<1>1. <<>> \in Seq(Products)
  BY EmptySeq
<1>2. QED  BY <1>1 DEF IdleHandler, Handler

LEMMA IdleIsSound ==
  ASSUME NEW table PROVE Sound(IdleHandler, table)
BY DEF Sound, IdleHandler

LEMMA InsertedRows ==
  ASSUME NEW p \in Products, NEW f \in Facts, NEW k \in Packs
  PROVE  QueuedRun(p, k, f) \in RunRow /\ BlockedRun(p, f) \in RunRow
BY DEF QueuedRun, BlockedRun, RunRow, TerminalStatus, DecidedStatus

LEMMA QueuedJobIsJob ==
  ASSUME NEW row \in RunRow PROVE QueuedJob(row.pack, row.facts) \in JobRow
BY DEF QueuedJob, JobRow, RunRow

(* The products of a request are its first one and those of the rest.      *)
LEMMA FirstAndRest ==
  ASSUME NEW ids \in Seq(Products), ids # <<>>
  PROVE  /\ Head(ids) \in Products /\ Tail(ids) \in Seq(Products)
         /\ Len(ids) = 1 <=> Tail(ids) = <<>>
         /\ ProductsIn(ids) = {Head(ids)} \cup ProductsIn(Tail(ids))
<1>1. /\ Head(ids) \in Products /\ Tail(ids) \in Seq(Products)
      /\ Len(Tail(ids)) = Len(ids) - 1
      /\ \A i \in 1..Len(Tail(ids)) : Tail(ids)[i] = ids[i + 1]
  BY HeadTailProperties
<1>2. Len(ids) \in Nat \ {0} /\ DOMAIN ids = 1..Len(ids)
  BY EmptySeq, LenProperties
<1>3. Len(Tail(ids)) \in Nat /\ DOMAIN Tail(ids) = 1..Len(Tail(ids))
  BY <1>1, LenProperties
<1>4. Len(ids) = 1 <=> Tail(ids) = <<>>
  <2>1. Tail(ids) # <<>> => Len(Tail(ids)) # 0
    BY <1>1, EmptySeq
  <2>2. Tail(ids) = <<>> => Len(Tail(ids)) = 0
    BY EmptySeq
  <2>3. QED  BY <1>1, <1>2, <1>3, <2>1, <2>2
<1>5. Head(ids) = ids[1]
  BY <1>2
<1>6. ProductsIn(ids) \subseteq {Head(ids)} \cup ProductsIn(Tail(ids))
  <2>1. ASSUME NEW i \in 1..Len(ids), i # 1
        PROVE  ids[i] \in ProductsIn(Tail(ids))
    <3>1. i - 1 \in DOMAIN Tail(ids) /\ (i - 1) + 1 = i
      BY <1>1, <1>2, <1>3, <2>1
    <3>2. Tail(ids)[i - 1] = ids[i]
      BY <1>1, <1>3, <3>1
    <3>3. QED  BY <3>1, <3>2 DEF ProductsIn
  <2>2. \A i \in 1..Len(ids) : ids[i] \in {Head(ids)} \cup ProductsIn(Tail(ids))
    BY <1>5, <2>1
  <2>3. ProductsIn(ids) = {ids[i] : i \in 1..Len(ids)}
    BY <1>2 DEF ProductsIn
  <2>4. QED  BY <2>2, <2>3
<1>7. {Head(ids)} \cup ProductsIn(Tail(ids)) \subseteq ProductsIn(ids)
  <2>1. ids[1] \in ProductsIn(ids)
    BY <1>2 DEF ProductsIn
  <2>2. ASSUME NEW j \in 1..Len(Tail(ids)) PROVE Tail(ids)[j] \in ProductsIn(ids)
    <3>1. j + 1 \in DOMAIN ids /\ Tail(ids)[j] = ids[j + 1]
      BY <1>1, <1>2, <1>3
    <3>2. QED  BY <3>1 DEF ProductsIn
  <2>3. ProductsIn(Tail(ids)) = {Tail(ids)[j] : j \in 1..Len(Tail(ids))}
    BY <1>3 DEF ProductsIn
  <2>4. QED  BY <1>5, <2>1, <2>2, <2>3
<1>8. QED  BY <1>1, <1>4, <1>6, <1>7

-----------------------------------------------------------------------------
(* Answering the first product, with a run that is known to be for it or   *)
(* with a new row, keeps a request sound.                                  *)
LEMMA AnsweredIsSound ==
  ASSUME NEW w \in Handler, NEW table, Sound(w, table), w.step \in {"pack", "existing"},
         NEW r \in Runs, NEW row \in RunRow \cup {NoRow},
         \/ row = w.staged[r]
         \/ w.staged[r] = NoRow /\ table[r] = NoRow /\ row # NoRow /\ Fresh(row),
         RowOf([w EXCEPT !.staged = [w.staged EXCEPT ![r] = row]], table, r) # NoRow,
         RowOf([w EXCEPT !.staged = [w.staged EXCEPT ![r] = row]], table, r).product
           = Head(w.todo)
  PROVE  /\ Answered(w, r, row) \in Handler
         /\ Sound(Answered(w, r, row), table)
         /\ \A q \in Runs : Answered(w, r, row).staged[q] # NoRow =>
                              w.staged[q] # NoRow \/ q = r
<1> DEFINE a == Answered(w, r, row)
<1>1. w.todo \in Seq(Products) /\ w.todo # <<>> /\ OnCourse(w, table)
  BY DEF Handler, Sound
<1>2. /\ a.step = IF Len(w.todo) = 1 THEN "commit" ELSE "product"
      /\ a.todo = Tail(w.todo) /\ a.asked = w.asked
      /\ a.snapshot = NoFacts /\ a.pack = NoPack
      /\ a.staged = [w.staged EXCEPT ![r] = row] /\ a.answers = w.answers \cup {r}
  BY DEF Answered, Handler
<1>3. a \in Handler
  <2>1. Tail(w.todo) \in Seq(Products)
    BY <1>1, FirstAndRest
  <2>2. [w.staged EXCEPT ![r] = row] \in [Runs -> RunRow \cup {NoRow}]
    BY DEF Handler
  <2>3. QED  BY <2>1, <2>2 DEF Answered, Handler
<1>4. \A q \in Runs : a.staged[q] = IF q = r THEN row ELSE w.staged[q]
  BY <1>2 DEF Handler
<1>5. \A q \in Runs \ {r} : RowOf(a, table, q) = RowOf(w, table, q)
  BY <1>4 DEF RowOf
<1>6. RowOf(a, table, r) # NoRow /\ RowOf(a, table, r).product = Head(w.todo)
  <2>1. [w EXCEPT !.staged = [w.staged EXCEPT ![r] = row]].staged = a.staged
    BY <1>2 DEF Handler
  <2>2. QED  BY <2>1 DEF RowOf
<1>7. r \in w.answers => RowOf(a, table, r) = RowOf(w, table, r)
  BY <1>1, <1>4 DEF OnCourse, RowOf
<1> HIDE DEF a
<1>8. w.answers \subseteq Runs
  BY DEF Handler
<1>9. OnCourse(a, table)
  <2>1. \A q \in w.answers : RowOf(a, table, q) = RowOf(w, table, q)
    BY <1>5, <1>7, <1>8
  <2>2. {RowOf(a, table, q).product : q \in a.answers}
          = {RowOf(w, table, q).product : q \in w.answers} \cup {Head(w.todo)}
    BY <1>2, <1>6, <2>1
  <2>3. ProductsIn(w.todo) = {Head(w.todo)} \cup ProductsIn(a.todo)
    BY <1>1, <1>2, FirstAndRest
  <2>4. \A q \in a.answers : RowOf(a, table, q) # NoRow
    BY <1>1, <1>2, <1>6, <2>1 DEF OnCourse
  <2>5. QED  BY <1>1, <1>2, <2>2, <2>3, <2>4 DEF OnCourse
<1>10. Len(w.todo) = 1 <=> a.todo = <<>>
  BY <1>1, <1>2, FirstAndRest
<1>11. \A q \in Runs : a.staged[q] # NoRow => table[q] = NoRow /\ Fresh(a.staged[q])
  BY <1>4 DEF Sound
<1>12. Sound(a, table)
  BY <1>2, <1>9, <1>10, <1>11 DEF Sound
<1>13. QED  BY <1>3, <1>4, <1>12 DEF a

(* A step of one request that leaves the tables alone.                     *)
LEMMA RequestStep ==
  ASSUME RequestsInv, NEW h \in Handlers, NEW w \in Handler, Sound(w, runs),
         \A r \in Runs : w.staged[r] # NoRow => handlers[h].staged[r] # NoRow \/ r \in FreeIds,
         handlers' = [handlers EXCEPT ![h] = w],
         UNCHANGED <<facts, active, runs, jobs>>
  PROVE  RequestsInv'
<1>1. RequestsTypeOK'
  BY DEF RequestsInv, RequestsTypeOK
<1>2. \A g \in Handlers : handlers'[g] = IF g = h THEN w ELSE handlers[g]
  BY DEF RequestsInv, RequestsTypeOK
<1>3. StagedApart'
  <2>1. ASSUME NEW g \in Handlers, g # h, NEW r \in Runs, w.staged[r] # NoRow
        PROVE  handlers[g].staged[r] = NoRow
    <3>1. CASE handlers[h].staged[r] # NoRow
      BY <2>1, <3>1 DEF RequestsInv, StagedApart
    <3>2. CASE r \in FreeIds
      BY <2>1, <3>2 DEF FreeIds
    <3>3. QED  BY <2>1, <3>1, <3>2
  <2>2. ASSUME NEW g \in Handlers, NEW k \in Handlers, NEW r \in Runs, g # k
        PROVE  handlers'[g].staged[r] = NoRow \/ handlers'[k].staged[r] = NoRow
    <3>1. CASE g = h
      <4>1. w.staged[r] # NoRow => handlers[k].staged[r] = NoRow
        BY <2>1, <2>2, <3>1
      <4>2. handlers'[g] = w /\ handlers'[k] = handlers[k]
        BY <1>2, <2>2, <3>1
      <4>3. QED  BY <4>1, <4>2
    <3>2. CASE k = h
      <4>1. w.staged[r] # NoRow => handlers[g].staged[r] = NoRow
        BY <2>1, <2>2, <3>2
      <4>2. handlers'[k] = w /\ handlers'[g] = handlers[g]
        BY <1>2, <2>2, <3>2
      <4>3. QED  BY <4>1, <4>2
    <3>3. CASE g # h /\ k # h
      BY <1>2, <2>2, <3>3 DEF RequestsInv, StagedApart
    <3>4. QED  BY <3>1, <3>2, <3>3
  <2>3. QED  BY <2>2 DEF StagedApart
<1>4. \A g \in Handlers : Sound(handlers'[g], runs)
  BY <1>2 DEF RequestsInv
<1>5. QueuedRunHasJob' /\ PackFitsFacts' /\ ActiveFits'
  BY DEF RequestsInv, QueuedRunHasJob, PackFitsFacts, ActiveFits
<1>6. QED  BY <1>1, <1>3, <1>4, <1>5 DEF RequestsInv

(* A step that commits nothing and leaves the requests alone.              *)
LEMMA OtherStep ==
  ASSUME RequestsInv, RequestsTypeOK', ActiveFits', UNCHANGED <<runs, jobs, handlers>>
  PROVE  RequestsInv'
BY DEF RequestsInv, QueuedRunHasJob, PackFitsFacts, StagedApart

-----------------------------------------------------------------------------
LEMMA RequestsInitInv == RequestsInit /\ EmptyTables => RequestsInv
<1> SUFFICES ASSUME RequestsInit, EmptyTables PROVE RequestsInv
  OBVIOUS
<1>1. RequestsTypeOK
  BY IdleIsHandler DEF EmptyTables, RequestsInit, RequestsTypeOK
<1>2. \A h \in Handlers : Sound(handlers[h], runs)
  BY IdleIsSound DEF EmptyTables, RequestsInit
<1>3. StagedApart
  BY DEF EmptyTables, RequestsInit, StagedApart, IdleHandler
<1>4. ActiveFits
  BY DEF EmptyTables, RequestsInit, ActiveFits
<1>5. QueuedRunHasJob /\ PackFitsFacts
  BY DEF EmptyTables, QueuedRunHasJob, PackFitsFacts
<1>6. QED  BY <1>1, <1>2, <1>3, <1>4, <1>5 DEF RequestsInv

LEMMA ImportStep ==
  ASSUME RequestsInv, NEW p \in Products, NEW f \in Facts, Import(p, f) PROVE RequestsInv'
<1>1. RequestsTypeOK'
  BY DEF RequestsInv, RequestsTypeOK, Import
<1>2. QED  BY <1>1, OtherStep DEF RequestsInv, ActiveFits, Import

LEMMA ActivateStep ==
  ASSUME RequestsInv, ActivatePack PROVE RequestsInv'
<1>1. PICK k \in Packs : active' = [active EXCEPT ![JurisdictionOf[k]] = k]
  BY DEF ActivatePack, Packs_!Next, Packs_!Activate
<1>2. UNCHANGED <<facts, runs, jobs, handlers>>
  BY DEF ActivatePack
<1>3. RequestsTypeOK'
  BY <1>1, <1>2 DEF RequestsInv, RequestsTypeOK
<1>4. ActiveFits'
  BY <1>1 DEF RequestsInv, RequestsTypeOK, ActiveFits
<1>5. QED  BY <1>2, <1>3, <1>4, OtherStep

LEMMA ReceiveStep ==
  ASSUME RequestsInv, NEW h \in Handlers, Receive(h) PROVE RequestsInv'
<1>0. PICK n \in 1..RequestLimit :
        \E ids \in [1..n -> Products] :
          handlers' = [handlers EXCEPT
                         ![h] = [IdleHandler EXCEPT !.step = "product",
                                                    !.asked = ids, !.todo = ids]]
  BY DEF Receive
<1>1. PICK ids \in [1..n -> Products] :
        handlers' = [handlers EXCEPT
                       ![h] = [IdleHandler EXCEPT !.step = "product",
                                                  !.asked = ids, !.todo = ids]]
  BY <1>0
<1> DEFINE w == [IdleHandler EXCEPT !.step = "product", !.asked = ids, !.todo = ids]
<1>2. ids \in Seq(Products) /\ ids # <<>>
  <2>1. n \in Nat /\ n # 0
    OBVIOUS
  <2>2. ids \in Seq(Products)
    BY <2>1
  <2>3. Len(ids) = n
    BY <2>1, <2>2
  <2>4. QED  BY <2>1, <2>2, <2>3, EmptySeq
<1>3. w \in Handler
  BY <1>2, IdleIsHandler DEF Handler
<1>4. /\ w.step = "product" /\ w.todo = ids /\ w.asked = ids /\ w.answers = {}
      /\ \A r \in Runs : w.staged[r] = NoRow
  BY DEF IdleHandler
<1>5. handlers' = [handlers EXCEPT ![h] = w]
  BY <1>1
<1> HIDE DEF w
<1>6. OnCourse(w, runs)
  BY <1>4 DEF OnCourse
<1>7. Sound(w, runs)
  BY <1>2, <1>4, <1>6 DEF Sound
<1>8. UNCHANGED <<facts, active, runs, jobs>>
  BY DEF Receive
<1>9. \A r \in Runs : w.staged[r] # NoRow => handlers[h].staged[r] # NoRow \/ r \in FreeIds
  BY <1>4
<1>10. QED  BY <1>3, <1>5, <1>7, <1>8, <1>9, RequestStep

LEMMA IdleStep ==
  ASSUME RequestsInv, NEW h \in Handlers, handlers' = [handlers EXCEPT ![h] = IdleHandler],
         UNCHANGED <<facts, active, runs, jobs>>
  PROVE  RequestsInv'
<1>1. \A r \in Runs : IdleHandler.staged[r] = NoRow
  BY DEF IdleHandler
<1>2. \A r \in Runs : IdleHandler.staged[r] # NoRow =>
                          handlers[h].staged[r] # NoRow \/ r \in FreeIds
  BY <1>1
<1>3. Sound(IdleHandler, runs)
  BY IdleIsSound
<1>4. QED  BY <1>2, <1>3, IdleIsHandler, RequestStep

LEMMA FetchProductStep ==
  ASSUME RequestsInv, NEW h \in Handlers, FetchProduct(h) PROVE RequestsInv'
<1> DEFINE v == handlers[h]
           f == facts[Head(v.todo)]
           w == [v EXCEPT !.step = "pack", !.snapshot = f]
<1>1. v \in Handler /\ Sound(v, runs)
  BY DEF RequestsInv, RequestsTypeOK
<1>2. v.step = "product" /\ UNCHANGED <<facts, active, runs, jobs>>
  BY DEF FetchProduct
<1>3. CASE f = NoFacts
  <2>1. handlers' = [handlers EXCEPT ![h] = IdleHandler]
    BY <1>3 DEF FetchProduct
  <2>2. QED  BY <1>2, <2>1, IdleStep
<1>4. CASE f # NoFacts
  <2>1. handlers' = [handlers EXCEPT ![h] = w]
    BY <1>4 DEF FetchProduct
  <2>2. v.todo \in Seq(Products) /\ v.todo # <<>>
    BY <1>1, <1>2 DEF Handler, Sound
  <2>3. f \in Facts
    BY <1>4, <2>2, FirstAndRest DEF RequestsInv, RequestsTypeOK
  <2> HIDE DEF f, v
  <2>4. /\ w.step = "pack" /\ w.snapshot = f /\ w.asked = v.asked /\ w.todo = v.todo
        /\ w.staged = v.staged /\ w.answers = v.answers
    BY <1>1 DEF Handler
  <2>5. w \in Handler
    BY <1>1, <2>3 DEF Handler
  <2> HIDE DEF w
  <2>6. OnCourse(w, runs)
    BY <1>1, <1>2, <2>4 DEF Sound, OnCourse, RowOf
  <2>7. Sound(w, runs)
    BY <1>1, <2>2, <2>3, <2>4, <2>6 DEF Sound
  <2>8. \A r \in Runs : w.staged[r] # NoRow => handlers[h].staged[r] # NoRow
    BY <2>4 DEF v
  <2>9. QED  BY <1>2, <2>1, <2>5, <2>7, <2>8, RequestStep
<1>5. QED  BY <1>3, <1>4

(* A new row answers the first product of a request.                       *)
LEMMA InsertStep ==
  ASSUME RequestsInv, NEW h \in Handlers, handlers[h].step \in {"pack", "existing"},
         NEW r \in FreeIds, NEW row \in RunRow, Fresh(row),
         row.product = Head(handlers[h].todo),
         handlers' = [handlers EXCEPT ![h] = Answered(handlers[h], r, row)],
         UNCHANGED <<facts, active, runs, jobs>>
  PROVE  RequestsInv'
<1> DEFINE v == handlers[h]
<1>1. v \in Handler /\ Sound(v, runs)
  BY DEF RequestsInv, RequestsTypeOK
<1>2. r \in Runs /\ runs[r] = NoRow /\ v.staged[r] = NoRow /\ row # NoRow
  BY NoRowIsNoRun DEF FreeIds
<1>3. RowOf([v EXCEPT !.staged = [v.staged EXCEPT ![r] = row]], runs, r) = row
  BY <1>1, <1>2 DEF RowOf, Handler
<1>4. /\ Answered(v, r, row) \in Handler
      /\ Sound(Answered(v, r, row), runs)
      /\ \A q \in Runs : Answered(v, r, row).staged[q] # NoRow => v.staged[q] # NoRow \/ q = r
  <2> HIDE DEF v
  <2>1. v.step \in {"pack", "existing"} /\ row.product = Head(v.todo)
    BY DEF v
  <2>2. \/ row = v.staged[r]
        \/ v.staged[r] = NoRow /\ runs[r] = NoRow /\ row # NoRow /\ Fresh(row)
    BY <1>2
  <2>3. /\ RowOf([v EXCEPT !.staged = [v.staged EXCEPT ![r] = row]], runs, r) # NoRow
        /\ RowOf([v EXCEPT !.staged = [v.staged EXCEPT ![r] = row]], runs, r).product
             = Head(v.todo)
    BY <1>2, <1>3, <2>1
  <2>4. row \in RunRow \cup {NoRow}
    OBVIOUS
  <2>5. QED  BY <1>1, <1>2, <2>1, <2>2, <2>3, <2>4, AnsweredIsSound
<1>5. \A q \in Runs : Answered(v, r, row).staged[q] # NoRow =>
                        handlers[h].staged[q] # NoRow \/ q \in FreeIds
  BY <1>4
<1>6. QED  BY <1>4, <1>5, RequestStep

LEMMA FetchPackStep ==
  ASSUME RequestsInv, NEW h \in Handlers, FetchPack(h) PROVE RequestsInv'
<1> DEFINE v == handlers[h]
           k == active[MarketOf[v.snapshot]]
           w == [v EXCEPT !.step = "existing", !.pack = k]
<1>1. v \in Handler /\ Sound(v, runs)
  BY DEF RequestsInv, RequestsTypeOK
<1>2. v.step = "pack" /\ UNCHANGED <<facts, active, runs, jobs>>
  BY DEF FetchPack
<1>3. v.snapshot \in Facts /\ v.todo \in Seq(Products) /\ v.todo # <<>>
  BY <1>1, <1>2 DEF Sound, Handler
<1>4. MarketOf[v.snapshot] \in Jurisdictions /\ k \in Packs \cup {NoPack}
  BY <1>3 DEF RequestsInv, RequestsTypeOK
<1>5. CASE k # NoPack
  <2>1. handlers' = [handlers EXCEPT ![h] = w]
    BY <1>5 DEF FetchPack, Market, RequestsInv, RequestsTypeOK
  <2>2. k \in Packs /\ JurisdictionOf[k] = MarketOf[v.snapshot]
    BY <1>4, <1>5 DEF RequestsInv, ActiveFits
  <2> HIDE DEF k, v
  <2>3. /\ w.step = "existing" /\ w.pack = k /\ w.snapshot = v.snapshot
        /\ w.asked = v.asked /\ w.todo = v.todo
        /\ w.staged = v.staged /\ w.answers = v.answers
    BY <1>1 DEF Handler
  <2>4. w \in Handler
    BY <1>1, <2>2 DEF Handler
  <2> HIDE DEF w
  <2>5. OnCourse(w, runs)
    BY <1>1, <1>2, <2>3 DEF Sound, OnCourse, RowOf
  <2>6. Sound(w, runs)
    BY <1>1, <1>3, <2>2, <2>3, <2>5 DEF Sound
  <2>7. \A r \in Runs : w.staged[r] # NoRow => handlers[h].staged[r] # NoRow
    BY <2>3 DEF v
  <2>8. QED  BY <1>2, <2>1, <2>4, <2>6, <2>7, RequestStep
<1>6. CASE k = NoPack
  <2>1. PICK r \in FreeIds :
          handlers' = [handlers EXCEPT
                         ![h] = Answered(v, r, BlockedRun(Head(v.todo), v.snapshot))]
    BY <1>6 DEF FetchPack, Market
  <2> DEFINE row == BlockedRun(Head(v.todo), v.snapshot)
  <2>2. Head(v.todo) \in Products
    BY <1>3, FirstAndRest
  <2>3. row.product = Head(v.todo) /\ Fresh(row)
    BY <1>3, <2>2 DEF BlockedRun, FitsFacts, Fresh
  <2>4. row \in RunRow
    BY <1>3, <2>2 DEF BlockedRun, RunRow, TerminalStatus, DecidedStatus
  <2> HIDE DEF row
  <2>5. handlers' = [handlers EXCEPT ![h] = Answered(handlers[h], r, row)]
    BY <2>1 DEF row
  <2>6. QED  BY <1>2, <2>3, <2>4, <2>5, InsertStep
<1>7. QED  BY <1>5, <1>6

LEMMA FetchExistingStep ==
  ASSUME RequestsInv, NEW h \in Handlers, FetchExisting(h) PROVE RequestsInv'
<1> DEFINE v == handlers[h]
           found == Existing(v, Head(v.todo), v.pack)
<1>1. v \in Handler /\ Sound(v, runs)
  BY DEF RequestsInv, RequestsTypeOK
<1>2. v.step = "existing" /\ UNCHANGED <<facts, active, runs, jobs>>
  BY DEF FetchExisting
<1>3. /\ v.snapshot \in Facts /\ v.todo \in Seq(Products) /\ v.todo # <<>>
      /\ v.pack \in Packs /\ JurisdictionOf[v.pack] = MarketOf[v.snapshot]
  BY <1>1, <1>2 DEF Sound, Handler
<1>4. CASE found # {}
  <2>1. PICK r \in found : handlers' = [handlers EXCEPT ![h] = Answered(v, r, v.staged[r])]
    BY <1>4 DEF FetchExisting
  <2>2. PICK row \in {runs[r], v.staged[r]} \ {NoRow} : row.product = Head(v.todo)
    BY <2>1 DEF Existing
  <2>3. r \in Runs
    BY <2>1 DEF Existing
  <2> HIDE DEF found
  <2>4. handlers[h] = v
    OBVIOUS
  <2> HIDE DEF v
  <2>5. v.staged[r] # NoRow => runs[r] = NoRow
    BY <1>1, <2>3 DEF Sound
  <2>6. [v EXCEPT !.staged = [v.staged EXCEPT ![r] = v.staged[r]]].staged = v.staged
    BY <1>1, <2>3 DEF Handler
  <2>7. RowOf([v EXCEPT !.staged = [v.staged EXCEPT ![r] = v.staged[r]]], runs, r) = row
    BY <2>2, <2>5, <2>6 DEF RowOf
  <2>8. v.staged[r] \in RunRow \cup {NoRow}
    BY <1>1, <2>3 DEF Handler
  <2>9. /\ Answered(v, r, v.staged[r]) \in Handler
        /\ Sound(Answered(v, r, v.staged[r]), runs)
    BY <1>1, <1>2, <2>2, <2>3, <2>7, <2>8, AnsweredIsSound
  <2>10. Answered(v, r, v.staged[r]).staged = v.staged
    BY <1>1, <2>3 DEF Answered, Handler
  <2> DEFINE w == Answered(v, r, v.staged[r])
  <2>11. handlers' = [handlers EXCEPT ![h] = w] /\ UNCHANGED <<facts, active, runs, jobs>>
    BY <1>2, <2>1
  <2>12. \A i \in Runs : w.staged[i] # NoRow => handlers[h].staged[i] # NoRow \/ i \in FreeIds
    BY <2>4, <2>10
  <2> HIDE DEF w
  <2>13. w \in Handler /\ Sound(w, runs)
    BY <2>9 DEF w
  <2>14. QED  BY <2>11, <2>12, <2>13, RequestStep
<1>5. CASE found = {}
  <2>1. PICK r \in FreeIds :
          handlers' = [handlers EXCEPT
                         ![h] = Answered(v, r, QueuedRun(Head(v.todo), v.pack, v.snapshot))]
    BY <1>5 DEF FetchExisting
  <2> DEFINE row == QueuedRun(Head(v.todo), v.pack, v.snapshot)
  <2>2. Head(v.todo) \in Products
    BY <1>3, FirstAndRest
  <2>3. row.product = Head(v.todo) /\ Fresh(row)
    <3>1. row.product = Head(v.todo) /\ FitsFacts(row)
      BY <1>3 DEF QueuedRun, FitsFacts
    <3>2. QED  BY <1>3, <2>2, <3>1 DEF Fresh
  <2>4. row \in RunRow
    BY <1>3, <2>2, InsertedRows
  <2> HIDE DEF row
  <2>5. handlers' = [handlers EXCEPT ![h] = Answered(handlers[h], r, row)]
    BY <2>1 DEF row
  <2>6. QED  BY <1>2, <2>3, <2>4, <2>5, InsertStep
<1>6. QED  BY <1>4, <1>5

(* The rows of a request become the table's, and its reply names them.     *)
LEMMA CommitStep ==
  ASSUME RequestsInv, NEW h \in Handlers, Commit(h) PROVE RequestsInv'
<1> DEFINE v == handlers[h]
           w == [IdleHandler EXCEPT !.step = "replied", !.asked = v.asked, !.answers = v.answers]
<1>1. v \in Handler /\ Sound(v, runs)
  BY DEF RequestsInv, RequestsTypeOK
<1>2. /\ v.step = "commit" /\ UNCHANGED <<facts, active>>
      /\ handlers' = [handlers EXCEPT ![h] = w]
  BY DEF Commit
<1>3. \A r \in Runs : runs'[r] = IF v.staged[r] = NoRow THEN runs[r] ELSE v.staged[r]
  BY DEF Commit
<1>4. \A r \in Runs : jobs'[r] = IF v.staged[r] # NoRow /\ v.staged[r].status = "queued"
                                  THEN QueuedJob(v.staged[r].pack, v.staged[r].facts)
                                  ELSE jobs[r]
  BY DEF Commit
<1>5. v.staged \in [Runs -> RunRow \cup {NoRow}]
  BY <1>1 DEF Handler
<1>6. runs' \in [Runs -> RunRow \cup {NoRow}]
  BY <1>5 DEF Commit, RequestsInv, RequestsTypeOK
<1>7. jobs' \in [Runs -> JobRow \cup {NoRow}]
  <2>1. \A r \in Runs : jobs'[r] \in JobRow \cup {NoRow}
    BY <1>4, <1>5, QueuedJobIsJob DEF RequestsInv, RequestsTypeOK
  <2>2. jobs' = [r \in Runs |-> jobs'[r]]
    BY DEF Commit
  <2>3. QED  BY <2>1, <2>2
<1>8. w \in Handler
  BY <1>1, IdleIsHandler DEF Handler
<1>9. /\ w.step = "replied" /\ w.todo = <<>> /\ w.asked = v.asked /\ w.answers = v.answers
      /\ \A r \in Runs : w.staged[r] = NoRow
  BY DEF IdleHandler
<1>10. \A g \in Handlers : handlers'[g] = IF g = h THEN w ELSE handlers[g]
  BY <1>2 DEF RequestsInv, RequestsTypeOK
<1> HIDE DEF w
<1>11. RequestsTypeOK'
  BY <1>2, <1>6, <1>7, <1>8 DEF RequestsInv, RequestsTypeOK
<1>12. QueuedRunHasJob'
  <2> SUFFICES ASSUME NEW r \in Runs, runs'[r] # NoRow, runs'[r].status = "queued"
               PROVE  /\ jobs'[r] # NoRow
                      /\ jobs'[r].pack = runs'[r].pack /\ jobs'[r].facts = runs'[r].facts
    BY DEF QueuedRunHasJob
  <2>1. CASE v.staged[r] = NoRow
    BY <1>3, <1>4, <2>1 DEF RequestsInv, QueuedRunHasJob
  <2>2. CASE v.staged[r] # NoRow
    <3>1. jobs'[r] = QueuedJob(runs'[r].pack, runs'[r].facts)
      BY <1>3, <1>4, <2>2
    <3>2. runs'[r] \in RunRow
      BY <1>6
    <3>3. jobs'[r] \in JobRow
      BY <3>1, <3>2, QueuedJobIsJob
    <3>4. jobs'[r] # NoRow
      BY <3>3, NoRowIsNoRun
    <3>5. jobs'[r].pack = runs'[r].pack /\ jobs'[r].facts = runs'[r].facts
      BY <3>1 DEF QueuedJob
    <3>6. QED  BY <3>4, <3>5
  <2>3. QED  BY <2>1, <2>2
<1>13. PackFitsFacts'
  <2>1. \A r \in Runs : v.staged[r] # NoRow => FitsFacts(v.staged[r])
    BY <1>1 DEF Sound, Fresh
  <2>2. QED  BY <1>3, <2>1 DEF RequestsInv, PackFitsFacts, FitsFacts
<1>14. ActiveFits'
  BY <1>2 DEF RequestsInv, ActiveFits
<1>15. StagedApart'
  BY <1>9, <1>10 DEF RequestsInv, StagedApart
<1>16. \A g \in Handlers : Sound(handlers'[g], runs')
  <2>1. Sound(w, runs')
    <3>1. \A r \in Runs : RowOf(w, runs', r) = RowOf(v, runs, r)
      BY <1>3, <1>9 DEF RowOf
    <3>2. OnCourse(v, runs) /\ v.todo = <<>> /\ v.answers \subseteq Runs
      BY <1>1, <1>2 DEF Sound, Handler
    <3>3. {RowOf(w, runs', r).product : r \in w.answers}
            = {RowOf(v, runs, r).product : r \in v.answers}
      BY <1>9, <3>1, <3>2
    <3>4. OnCourse(w, runs')
      BY <1>9, <3>1, <3>2, <3>3 DEF OnCourse
    <3>5. QED  BY <1>9, <3>4 DEF Sound
  <2>2. ASSUME NEW g \in Handlers, g # h PROVE Sound(handlers[g], runs')
    <3> DEFINE o == handlers[g]
    <3>1. o \in Handler /\ Sound(o, runs)
      BY DEF RequestsInv, RequestsTypeOK
    <3>2. \A r \in Runs : o.staged[r] = NoRow \/ v.staged[r] = NoRow
      BY <2>2 DEF RequestsInv, StagedApart
    <3>3. \A r \in Runs : runs[r] # NoRow => v.staged[r] = NoRow
      BY <1>1 DEF Sound
    <3> HIDE DEF o, v
    <3>4. \A r \in Runs : RowOf(o, runs, r) # NoRow => RowOf(o, runs', r) = RowOf(o, runs, r)
      BY <1>3, <3>2, <3>3 DEF RowOf
    <3>5. OnCourse(o, runs) => OnCourse(o, runs')
      <4> SUFFICES ASSUME OnCourse(o, runs) PROVE OnCourse(o, runs')
        OBVIOUS
      <4>1. o.answers \subseteq Runs
        BY <3>1 DEF Handler
      <4>2. \A r \in o.answers : RowOf(o, runs', r) = RowOf(o, runs, r)
        BY <3>4, <4>1 DEF OnCourse
      <4>3. QED  BY <4>2 DEF OnCourse
    <3>6. \A r \in Runs : o.staged[r] # NoRow => runs'[r] = NoRow /\ Fresh(o.staged[r])
      BY <1>3, <3>1, <3>2 DEF Sound
    <3>7. Sound(o, runs')
      BY <3>1, <3>5, <3>6 DEF Sound
    <3>8. QED  BY <3>7 DEF o
  <2>3. QED  BY <1>10, <2>1, <2>2
<1>17. QED  BY <1>11, <1>12, <1>13, <1>14, <1>15, <1>16 DEF RequestsInv

-----------------------------------------------------------------------------
LEMMA RequestsNextInv == RequestsInv /\ [RequestsNext]_requestVars => RequestsInv'
<1> SUFFICES ASSUME RequestsInv, [RequestsNext]_requestVars PROVE RequestsInv'
  OBVIOUS
<1>1. ASSUME NEW h \in Handlers, Receive(h) PROVE RequestsInv'
  BY <1>1, ReceiveStep
<1>2. ASSUME NEW h \in Handlers, Serve(h) PROVE RequestsInv'
  BY <1>2, FetchProductStep, FetchPackStep, FetchExistingStep, CommitStep DEF Serve
<1>3. ASSUME NEW h \in Handlers, RequestFails(h) PROVE RequestsInv'
  BY <1>3, IdleStep DEF RequestFails
<1>4. ASSUME NEW p \in Products, NEW f \in Facts, Import(p, f) PROVE RequestsInv'
  BY <1>4, ImportStep
<1>5. CASE ActivatePack
  BY <1>5, ActivateStep
<1>6. CASE UNCHANGED requestVars
  BY <1>6 DEF requestVars, RequestsInv, RequestsTypeOK, QueuedRunHasJob, PackFitsFacts,
              ActiveFits, StagedApart
<1>7. QED  BY <1>1, <1>2, <1>3, <1>4, <1>5, <1>6 DEF RequestsNext

LEMMA RequestsSpecInv == RequestsSpec => []RequestsInv
BY RequestsInitInv, RequestsNextInv, PTL DEF RequestsSpec, NothingRequested

(* Whatever requests, imports and activations are interleaved, and wherever *)
(* a request fails, a queued run is in the table only with its job.         *)
THEOREM QueuedRunsHaveJobs == RequestsSpec => [](RequestsTypeOK /\ QueuedRunHasJob)
<1>1. RequestsInv => RequestsTypeOK /\ QueuedRunHasJob
  BY DEF RequestsInv
<1>2. QED  BY <1>1, RequestsSpecInv, PTL

(* The pack of a run is of the jurisdiction its frozen facts are about,     *)
(* however imports move the product while a request reads it.               *)
THEOREM PacksFitFacts == RequestsSpec => []PackFitsFacts
<1>1. RequestsInv => PackFitsFacts
  BY DEF RequestsInv
<1>2. QED  BY <1>1, RequestsSpecInv, PTL

LEMMA RepliesOfInv == RequestsInv => RepliesHold
<1> SUFFICES ASSUME RequestsInv, NEW h \in Handlers, handlers[h].step = "replied"
             PROVE  /\ \A r \in handlers[h].answers : runs[r] # NoRow
                    /\ {runs[r].product : r \in handlers[h].answers}
                         = ProductsIn(handlers[h].asked)
  BY DEF RepliesHold, ProductsIn
<1> DEFINE w == handlers[h]
<1>1. w \in Handler /\ Sound(w, runs)
  BY DEF RequestsInv, RequestsTypeOK
<1>2. w.step = "replied"
  OBVIOUS
<1> HIDE DEF w
<1>3. OnCourse(w, runs) /\ w.todo = <<>> /\ w.answers \subseteq Runs
  BY <1>1, <1>2 DEF Sound, Handler
<1>4. \A r \in w.answers : RowOf(w, runs, r) = runs[r]
  BY <1>1, <1>2, <1>3 DEF Sound, RowOf
<1>5. ProductsIn(<<>>) = {}
  BY DEF ProductsIn
<1>6. /\ \A r \in w.answers : runs[r] # NoRow
      /\ {runs[r].product : r \in w.answers} = ProductsIn(w.asked)
  BY <1>3, <1>4, <1>5 DEF OnCourse
<1>7. QED  BY <1>6 DEF w

(* A reply names committed runs, for the products that were asked for and   *)
(* for no others, in requests of any length that name products repeatedly.  *)
THEOREM RepliesAreCommitted == RequestsSpec => []RepliesHold
BY RepliesOfInv, RequestsSpecInv, PTL

-----------------------------------------------------------------------------
(* The worker loops: ClassificationJobs.                                    *)

USE JobsAssumption

(* The written row of an evaluable job is a run row again.                  *)
LEMMA DecidedIsRun ==
  ASSUME NEW r \in Runs, NEW p \in Procs, TypeOK, JobMatchesRun,
         jobs[r] # NoRow, jobs[r].pack \in Packs, Evaluation(jobs[r]) # EvalError
  PROVE  /\ Decided(r, p) \in RunRow
         /\ Decided(r, p).status \in DecidedStatus
         /\ Decided(r, p).outcome = Evaluation(jobs[r])
         /\ Decided(r, p).status = StatusOf[Evaluation(jobs[r])]
         /\ Decided(r, p).pack = jobs[r].pack
         /\ Decided(r, p).facts = jobs[r].facts
         /\ Decided(r, p).product = runs[r].product
<1>1. jobs[r] \in JobRow /\ runs[r] \in RunRow
  BY DEF TypeOK, JobMatchesRun
<1>2. Evaluation(jobs[r]) \in Outcomes
  <2>1. <<jobs[r].pack, jobs[r].facts>> \in Packs \X Facts
    BY <1>1 DEF JobRow
  <2>2. QED  BY <2>1 DEF Evaluation
<1>3. StatusOf[Evaluation(jobs[r])] \in DecidedStatus
  BY <1>2
<1>4. QED
  BY <1>1, <1>2, <1>3 DEF Decided, RunRow, JobRow, TerminalStatus

LEMMA InitInv == Init => Inv
<1> SUFFICES ASSUME Init PROVE Inv
  OBVIOUS
<1>1. TypeOK
  BY DEF Init, TypeOK, QueuedRun, QueuedJob, RunRow, JobRow, NoRow, Worker, Steps,
         IdleWorker
<1>2. JobMatchesRun
  BY DEF Init, JobMatchesRun, QueuedRun, QueuedJob, NoRow
<1>3. WorkerMemoryIsCurrent
  BY DEF Init, WorkerMemoryIsCurrent, IdleWorker
<1>4. CompletedMeansDecided
  BY DEF Init, CompletedMeansDecided, QueuedJob, NoRow
<1>5. DecidedByOwnInputs
  BY DEF Init, DecidedByOwnInputs, QueuedRun, NoRow
<1>6. QED  BY <1>1, <1>2, <1>3, <1>4, <1>5 DEF Inv

-----------------------------------------------------------------------------
(* Steps that leave the tables alone change one worker's memory; the other *)
(* conjuncts of the invariant carry over unchanged.                        *)
LEMMA MemoryStep ==
  ASSUME Inv, UNCHANGED <<runs, jobs>>, faults' \in 0..MaxFaults,
         NEW p \in Procs, NEW w \in Worker,
         workers' = [workers EXCEPT ![p] = w],
         w.step \in {"idle", "select", "dead"} => w.batch = {},
         \A r \in w.batch : jobs[r].status \in {"leased", "completed", "failed"},
         w.step \in {"persist", "complete", "fail"} => w.run \in w.batch,
         w.step = "persist" => /\ jobs[w.run].pack \in Packs
                              /\ Evaluation(jobs[w.run]) # EvalError,
         w.step = "complete" => runs[w.run].status \in TerminalStatus
  PROVE  Inv'
<1>1. TypeOK'
  BY DEF Inv, TypeOK
<1>2. JobMatchesRun'
  BY DEF Inv, JobMatchesRun
<1>3. WorkerMemoryIsCurrent'
  BY DEF Inv, TypeOK, WorkerMemoryIsCurrent, Evaluation
<1>4. CompletedMeansDecided'
  BY DEF Inv, CompletedMeansDecided
<1>5. DecidedByOwnInputs'
  BY DEF Inv, DecidedByOwnInputs
<1>6. QED  BY <1>1, <1>2, <1>3, <1>4, <1>5 DEF Inv

(* The jobs of a batch exist, and so do their runs.                        *)
LEMMA BatchRowsExist ==
  ASSUME Inv, NEW p \in Procs, NEW r \in workers[p].batch
  PROVE  /\ r \in Runs
         /\ jobs[r] \in JobRow
         /\ runs[r] \in RunRow
<1>1. r \in Runs
  BY DEF Inv, TypeOK, Worker
<1>2. jobs[r] # NoRow
  BY DEF Inv, WorkerMemoryIsCurrent, NoRow
<1>3. QED  BY <1>1, <1>2 DEF Inv, TypeOK, JobMatchesRun

LEMMA FetchRunInv ==
  ASSUME Inv, NEW p \in Procs, NEW r \in Runs, FetchRun(p, r)
  PROVE  Inv'
<1>1. workers[p] \in Worker /\ r \in workers[p].batch /\ faults \in 0..MaxFaults
  BY DEF FetchRun, Inv, TypeOK
<1>2. \A q \in workers[p].batch : jobs[q].status \in {"leased", "completed", "failed"}
  BY DEF Inv, WorkerMemoryIsCurrent
<1>3. CASE /\ runs[r].status \in TerminalStatus
           /\ workers' = [workers EXCEPT ![p].step = "complete", ![p].run = r]
  <2> DEFINE w == [workers[p] EXCEPT !.step = "complete", !.run = r]
  <2>1. workers' = [workers EXCEPT ![p] = w] /\ w \in Worker
    BY <1>1, <1>3 DEF Worker, Steps, Inv, TypeOK
  <2>2. w.step = "complete" /\ w.run = r /\ w.batch = workers[p].batch
    BY <1>1 DEF Worker
  <2> HIDE DEF w
  <2>3. QED  BY <1>1, <1>2, <1>3, <2>1, <2>2, MemoryStep DEF FetchRun
<1>4. CASE workers' = [workers EXCEPT ![p] = [IdleWorker EXCEPT !.step = "dead"]]
  <2> DEFINE w == [IdleWorker EXCEPT !.step = "dead"]
  <2>1. w \in Worker /\ w.step = "dead" /\ w.batch = {}
    BY DEF Worker, Steps, IdleWorker
  <2>2. workers' = [workers EXCEPT ![p] = w]
    BY <1>4
  <2> HIDE DEF w
  <2>3. QED  BY <1>1, <2>1, <2>2, MemoryStep DEF FetchRun
<1>5. CASE /\ jobs[r].pack # NoPack
           /\ workers' = [workers EXCEPT
                           ![p].step = IF Evaluation(jobs[r]) = EvalError
                                       THEN "fail" ELSE "persist",
                           ![p].run = r]
  <2> DEFINE w == [workers[p] EXCEPT
                     !.step = IF Evaluation(jobs[r]) = EvalError THEN "fail" ELSE "persist",
                     !.run = r]
  <2>1. workers' = [workers EXCEPT ![p] = w] /\ w \in Worker
    BY <1>1, <1>5 DEF Worker, Steps, Inv, TypeOK
  <2>2. /\ w.step = IF Evaluation(jobs[r]) = EvalError THEN "fail" ELSE "persist"
        /\ w.run = r
        /\ w.batch = workers[p].batch
    BY <1>1 DEF Worker
  <2>3. jobs[r].pack \in Packs
    BY <1>1, <1>5, BatchRowsExist DEF JobRow
  <2> HIDE DEF w
  <2>4. QED  BY <1>1, <1>2, <2>1, <2>2, <2>3, MemoryStep DEF FetchRun
<1>6. QED  BY <1>3, <1>4, <1>5 DEF FetchRun

LEMMA SelectLeasedInv ==
  ASSUME Inv, NEW p \in Procs, SelectLeased(p)
  PROVE  Inv'
<1>1. PICK B \in Batches(p) :
        workers' = [workers EXCEPT ![p].step = IF B = {} THEN "idle" ELSE "fetch",
                                   ![p].batch = B]
  BY DEF SelectLeased
<1>2. B \subseteq LeasedTo(p) /\ B \subseteq Runs
  BY DEF Batches, LeasedTo
<1> DEFINE w == [workers[p] EXCEPT !.step = IF B = {} THEN "idle" ELSE "fetch",
                                   !.batch = B]
<1>3. workers[p] \in Worker /\ faults \in 0..MaxFaults
  BY DEF Inv, TypeOK
<1>4. /\ workers' = [workers EXCEPT ![p] = w]
      /\ w \in Worker
      /\ w.step = IF B = {} THEN "idle" ELSE "fetch"
      /\ w.batch = B
  BY <1>1, <1>2, <1>3 DEF Worker, Steps, Inv, TypeOK
<1>5. \A r \in B : jobs[r].status = "leased"
  BY <1>2 DEF LeasedTo
<1> HIDE DEF w
<1>6. QED  BY <1>3, <1>4, <1>5, MemoryStep DEF SelectLeased

LEMMA FetchFailsInv ==
  ASSUME Inv, NEW p \in Procs, NEW r \in Runs, FetchFails(p, r)
  PROVE  Inv'
<1> DEFINE w == [workers[p] EXCEPT !.step = "fail", !.run = r]
<1>1. workers[p] \in Worker /\ r \in workers[p].batch /\ faults' \in 0..MaxFaults
  BY DEF FetchFails, Fault, Inv, TypeOK
<1>2. /\ workers' = [workers EXCEPT ![p] = w]
      /\ w \in Worker
      /\ w.step = "fail" /\ w.run = r /\ w.batch = workers[p].batch
  BY <1>1 DEF FetchFails, Worker, Steps, Inv, TypeOK
<1>3. \A q \in w.batch : jobs[q].status \in {"leased", "completed", "failed"}
  BY <1>2 DEF Inv, WorkerMemoryIsCurrent
<1> HIDE DEF w
<1>4. QED  BY <1>1, <1>2, <1>3, MemoryStep DEF FetchFails

LEMMA IdleIsWorker == IdleWorker \in Worker /\ IdleWorker.step = "idle" /\ IdleWorker.batch = {}
BY DEF IdleWorker, Worker, Steps

LEMMA TickAbortsInv ==
  ASSUME Inv, NEW p \in Procs, TickAborts(p) \/ RestartProcess(p)
  PROVE  Inv'
<1>1. /\ faults' \in 0..MaxFaults
      /\ workers' = [workers EXCEPT ![p] = IdleWorker]
      /\ UNCHANGED <<runs, jobs>>
  BY DEF TickAborts, RestartProcess, Fault, Inv, TypeOK
<1>2. QED  BY <1>1, IdleIsWorker, MemoryStep

-----------------------------------------------------------------------------
(* Steps that write the tables.                                            *)

(* Any number of rows may be inserted in one step, each with the job of    *)
(* its own pack and facts or as a row without a pack.                      *)
LEMMA RowsInserted ==
  ASSUME Inv, UNCHANGED <<workers, faults>>,
         runs' \in [Runs -> RunRow \cup {NoRow}], jobs' \in [Runs -> JobRow \cup {NoRow}],
         \A r \in Runs :
           \/ runs'[r] = runs[r] /\ jobs'[r] = jobs[r]
           \/ /\ runs[r] = NoRow /\ runs'[r] # NoRow
              /\ \/ jobs'[r] = NoRow
                 \/ /\ jobs'[r].pack = runs'[r].pack /\ jobs'[r].facts = runs'[r].facts
                    /\ jobs'[r].status = "queued"
              /\ runs'[r].status = "queued" \/ runs'[r].pack = NoPack
  PROVE  Inv'
<1>1. \A r \in Runs : runs[r] = NoRow => jobs[r] = NoRow
  BY DEF Inv, JobMatchesRun
<1>2. TypeOK'
  BY DEF Inv, TypeOK
<1>3. JobMatchesRun'
  BY DEF Inv, JobMatchesRun
<1>4. WorkerMemoryIsCurrent'
  <2>1. ASSUME NEW q \in Procs, NEW j \in workers[q].batch
        PROVE  j \in Runs /\ runs'[j] = runs[j] /\ jobs'[j] = jobs[j]
    <3>1. j \in Runs /\ runs[j] # NoRow
      BY BatchRowsExist, NoRowIsNoRun
    <3>2. QED  BY <3>1
  <2> SUFFICES ASSUME NEW q \in Procs
      PROVE  LET w == workers[q] IN
             /\ w.step \in {"idle", "select", "dead"} => w.batch = {}
             /\ \A r \in w.batch : jobs'[r].status \in {"leased", "completed", "failed"}
             /\ w.step \in {"persist", "complete", "fail"} => w.run \in w.batch
             /\ w.step = "persist" => /\ jobs'[w.run].pack \in Packs
                                      /\ Verdict[<<jobs'[w.run].pack, jobs'[w.run].facts>>]
                                           # EvalError
             /\ w.step = "complete" => runs'[w.run].status \in TerminalStatus
    BY DEF WorkerMemoryIsCurrent, Evaluation
  <2> DEFINE w == workers[q]
  <2>2. /\ w.step \in {"idle", "select", "dead"} => w.batch = {}
        /\ \A r \in w.batch : jobs[r].status \in {"leased", "completed", "failed"}
        /\ w.step \in {"persist", "complete", "fail"} => w.run \in w.batch
        /\ w.step = "persist" => /\ jobs[w.run].pack \in Packs
                                 /\ Verdict[<<jobs[w.run].pack, jobs[w.run].facts>>] # EvalError
        /\ w.step = "complete" => runs[w.run].status \in TerminalStatus
    BY DEF Inv, WorkerMemoryIsCurrent, Evaluation
  <2>3. \A j \in w.batch : runs'[j] = runs[j] /\ jobs'[j] = jobs[j]
    BY <2>1
  <2> HIDE DEF w
  <2>4. /\ w.step = "persist" => jobs'[w.run] = jobs[w.run]
        /\ w.step = "complete" => runs'[w.run] = runs[w.run]
    BY <2>2, <2>3
  <2>5. \A r \in w.batch : jobs'[r].status \in {"leased", "completed", "failed"}
    BY <2>2, <2>3
  <2>6. QED  BY <2>2, <2>4, <2>5 DEF w
<1>5. CompletedMeansDecided'
  BY DEF Inv, CompletedMeansDecided, NoRow
<1>6. DecidedByOwnInputs'
  <2> SUFFICES ASSUME NEW r \in Runs, runs'[r] # NoRow, runs'[r].status # "queued",
                      runs'[r].pack \in Packs
               PROVE  LET outcome == Verdict[<<runs'[r].pack, runs'[r].facts>>] IN
                      /\ outcome # EvalError
                      /\ runs'[r].outcome = outcome
                      /\ runs'[r].status = StatusOf[outcome]
    BY DEF DecidedByOwnInputs
  <2>1. runs'[r] = runs[r]
    OBVIOUS
  <2>2. QED  BY <2>1 DEF Inv, DecidedByOwnInputs
<1>7. QED  BY <1>2, <1>3, <1>4, <1>5, <1>6 DEF Inv

LEMMA InsertInv ==
  ASSUME Inv, NEW r \in Runs, NEW p \in Products, NEW f \in Facts,
         \/ InsertBlocked(r, p, f)
         \/ \E k \in Packs : InsertQueued(r, p, k, f)
  PROVE  Inv'
<1>1. /\ runs[r] = NoRow /\ UNCHANGED <<workers, faults>>
      /\ runs \in [Runs -> RunRow \cup {NoRow}] /\ jobs \in [Runs -> JobRow \cup {NoRow}]
      /\ jobs[r] = NoRow
  BY DEF InsertBlocked, InsertQueued, Inv, TypeOK, JobMatchesRun
<1>2. CASE InsertBlocked(r, p, f)
  <2>1. /\ BlockedRun(p, f) \in RunRow /\ BlockedRun(p, f) # NoRow
        /\ BlockedRun(p, f).pack = NoPack
    BY NoRowIsNoRun DEF BlockedRun, RunRow, TerminalStatus, DecidedStatus
  <2>2. runs' = [runs EXCEPT ![r] = BlockedRun(p, f)] /\ jobs' = jobs
    BY <1>2 DEF InsertBlocked
  <2>3. QED  BY <1>1, <2>1, <2>2, RowsInserted
<1>3. ASSUME NEW k \in Packs, InsertQueued(r, p, k, f) PROVE Inv'
  <2>1. /\ QueuedRun(p, k, f) \in RunRow /\ QueuedRun(p, k, f) # NoRow
        /\ QueuedRun(p, k, f).status = "queued"
        /\ QueuedRun(p, k, f).pack = k /\ QueuedRun(p, k, f).facts = f
    BY NoRowIsNoRun DEF QueuedRun, RunRow
  <2>2. /\ QueuedJob(k, f) \in JobRow
        /\ QueuedJob(k, f).status = "queued"
        /\ QueuedJob(k, f).pack = k /\ QueuedJob(k, f).facts = f
    BY DEF QueuedJob, JobRow
  <2>3. /\ runs' = [runs EXCEPT ![r] = QueuedRun(p, k, f)]
        /\ jobs' = [jobs EXCEPT ![r] = QueuedJob(k, f)]
    BY <1>3 DEF InsertQueued
  <2>4. QED  BY <1>1, <2>1, <2>2, <2>3, RowsInserted
<1>4. QED  BY <1>2, <1>3

(* Steps that write only the lease and status columns of jobs, and leave   *)
(* the worker that takes them between two jobs or between two statements.  *)
LEMMA LeaseColumnsStep ==
  ASSUME Inv, runs' = runs, faults' \in 0..MaxFaults,
         jobs' \in [Runs -> JobRow \cup {NoRow}],
         \A r \in Runs :
           /\ jobs'[r] = NoRow <=> jobs[r] = NoRow
           /\ jobs'[r].pack = jobs[r].pack
           /\ jobs'[r].facts = jobs[r].facts
           /\ jobs[r].status \in {"leased", "completed", "failed"} =>
                jobs'[r].status \in {"leased", "completed", "failed"}
           /\ jobs'[r].status = "completed" =>
                jobs[r].status = "completed" \/ runs[r].status \in TerminalStatus,
         NEW p \in Procs, NEW w \in Worker,
         workers' = [workers EXCEPT ![p] = w],
         w.step \in {"idle", "select", "dead"} => w.batch = {},
         w.batch \subseteq workers[p].batch,
         w.step \in {"idle", "select", "fetch"} \/ w = workers[p]
  PROVE  Inv'
<1>1. TypeOK'
  BY DEF Inv, TypeOK
<1>2. JobMatchesRun'
  BY DEF Inv, JobMatchesRun
<1>3. \A q \in Procs : workers'[q] = IF q = p THEN w ELSE workers[q]
  BY DEF Inv, TypeOK
<1>4. \A q \in Procs : workers[q].batch \subseteq Runs
  BY DEF Inv, TypeOK, Worker
<1>6. WorkerMemoryIsCurrent'
  <2> SUFFICES ASSUME NEW q \in Procs
      PROVE  LET v == workers'[q] IN
             /\ v.step \in {"idle", "select", "dead"} => v.batch = {}
             /\ \A r \in v.batch : jobs'[r].status \in {"leased", "completed", "failed"}
             /\ v.step \in {"persist", "complete", "fail"} => v.run \in v.batch
             /\ v.step = "persist" => /\ jobs'[v.run].pack \in Packs
                                      /\ Verdict[<<jobs'[v.run].pack, jobs'[v.run].facts>>] # EvalError
             /\ v.step = "complete" => runs'[v.run].status \in TerminalStatus
    BY DEF WorkerMemoryIsCurrent, Evaluation
  <2>1. CASE workers'[q] = workers[q]
    <3> DEFINE v == workers[q]
    <3>1. /\ v.step \in {"idle", "select", "dead"} => v.batch = {}
          /\ \A r \in v.batch : jobs[r].status \in {"leased", "completed", "failed"}
          /\ v.step \in {"persist", "complete", "fail"} => v.run \in v.batch
          /\ v.step = "complete" => runs[v.run].status \in TerminalStatus
      BY DEF Inv, WorkerMemoryIsCurrent
    <3>2. v.step = "persist" =>
            /\ jobs[v.run].pack \in Packs
            /\ Verdict[<<jobs[v.run].pack, jobs[v.run].facts>>] # EvalError
      BY DEF Inv, WorkerMemoryIsCurrent, Evaluation
    <3>3. \A r \in v.batch : r \in Runs
      BY <1>4
    <3>4. workers'[q] = v
      BY <2>1
    <3>5. \A r \in v.batch : jobs'[r].status \in {"leased", "completed", "failed"}
      BY <3>1, <3>3
    <3>6. v.step = "persist" => /\ jobs'[v.run].pack = jobs[v.run].pack
                               /\ jobs'[v.run].facts = jobs[v.run].facts
      BY <3>1, <3>3
    <3> HIDE DEF v
    <3>7. QED  BY <3>1, <3>2, <3>4, <3>5, <3>6
  <2>2. CASE q = p /\ w.step \in {"idle", "select", "fetch"}
    BY <1>3, <1>4, <2>2 DEF Inv, WorkerMemoryIsCurrent
  <2>3. QED  BY <1>3, <2>1, <2>2
<1>7. CompletedMeansDecided'
  BY DEF Inv, CompletedMeansDecided
<1>8. DecidedByOwnInputs'
  BY DEF Inv, DecidedByOwnInputs
<1>9. QED  BY <1>1, <1>2, <1>6, <1>7, <1>8 DEF Inv

LEMMA LeaseJobsInv ==
  ASSUME Inv, NEW p \in Procs, LeaseJobs(p)
  PROVE  Inv'
<1>1. Picked \subseteq Eligible /\ Eligible \subseteq Runs
  BY DEF Picked, Eligible
<1>2. \A r \in Picked : jobs[r] \in JobRow /\ jobs[r].status \in {"queued", "leased"}
  BY <1>1 DEF Eligible, Inv, TypeOK, NoRow
<1> DEFINE Leased(r) == [jobs[r] EXCEPT !.status = "leased", !.live = TRUE,
                                        !.owner = WorkerIdOf[p]]
<1>3. \A r \in Picked : /\ Leased(r) \in JobRow
                        /\ Leased(r) # NoRow
                        /\ Leased(r).status = "leased"
                        /\ Leased(r).pack = jobs[r].pack
                        /\ Leased(r).facts = jobs[r].facts
  BY <1>2 DEF JobRow, NoRow
<1>4. \A r \in Picked : jobs[r] # NoRow
  BY <1>2 DEF JobRow, NoRow
<1>5. jobs' = [r \in Runs |-> IF r \in Picked THEN Leased(r) ELSE jobs[r]]
  BY DEF LeaseJobs
<1> HIDE DEF Leased
<1> DEFINE w == [workers[p] EXCEPT !.step = "select"]
<1>6. /\ workers[p] \in Worker /\ workers[p].batch = {}
      /\ jobs \in [Runs -> JobRow \cup {NoRow}]
  BY DEF LeaseJobs, Inv, TypeOK, WorkerMemoryIsCurrent
<1>7. /\ workers' = [workers EXCEPT ![p] = w]
      /\ w \in Worker /\ w.step = "select" /\ w.batch = {}
  BY <1>6 DEF LeaseJobs, Worker, Steps, Inv, TypeOK
<1> HIDE DEF w
<1>8. jobs' \in [Runs -> JobRow \cup {NoRow}]
  BY <1>3, <1>5, <1>6
<1>9. \A r \in Runs :
        /\ jobs'[r] = NoRow <=> jobs[r] = NoRow
        /\ jobs'[r].pack = jobs[r].pack
        /\ jobs'[r].facts = jobs[r].facts
        /\ jobs'[r].status = jobs[r].status \/ jobs'[r].status = "leased"
  BY <1>3, <1>4, <1>5
<1>10. runs' = runs /\ faults' \in 0..MaxFaults
  BY DEF LeaseJobs, Inv, TypeOK
<1>11. QED  BY <1>6, <1>7, <1>8, <1>9, <1>10, LeaseColumnsStep

LEMMA MarkedInv ==
  ASSUME Inv, NEW p \in Procs, MarkCompleted(p) \/ MarkFailed(p)
  PROVE  Inv'
<1> DEFINE r == workers[p].run
           rest == workers[p].batch \ {r}
<1>1. PICK status \in {"completed", "failed"} :
        /\ Marked(p, status)
        /\ status = "completed" => runs[r].status \in TerminalStatus
  BY DEF MarkCompleted, MarkFailed, Inv, WorkerMemoryIsCurrent
<1>2. r \in workers[p].batch
  BY DEF MarkCompleted, MarkFailed, Inv, WorkerMemoryIsCurrent
<1>3. r \in Runs /\ jobs[r] \in JobRow /\ workers[p] \in Worker
  BY <1>2, BatchRowsExist DEF Inv, TypeOK
<1> DEFINE job == [jobs[r] EXCEPT !.status = status]
           w == [workers[p] EXCEPT !.step = IF rest = {} THEN "idle" ELSE "fetch",
                                   !.batch = rest, !.run = NoRun]
<1>4. /\ jobs' = [jobs EXCEPT ![r] = job]
      /\ job \in JobRow /\ job # NoRow /\ jobs[r] # NoRow
      /\ job.status = status
      /\ job.pack = jobs[r].pack
      /\ job.facts = jobs[r].facts
  <2>1. jobs' = [jobs EXCEPT ![r] = job]
    <3>1. jobs' = [jobs EXCEPT ![r].status = status]
      BY <1>1 DEF Marked
    <3>2. QED  BY <3>1
  <2>2. QED  BY <1>3, <2>1 DEF JobRow, NoRow
<1>5. /\ workers' = [workers EXCEPT ![p] = w]
      /\ w \in Worker /\ w.batch = rest
      /\ w.step = IF rest = {} THEN "idle" ELSE "fetch"
  BY <1>1, <1>3 DEF Marked, Worker, Steps, Inv, TypeOK
<1> HIDE DEF job, w
<1>6. jobs \in [Runs -> JobRow \cup {NoRow}]
  BY DEF Inv, TypeOK
<1>7. jobs' \in [Runs -> JobRow \cup {NoRow}]
  BY <1>3, <1>4, <1>6
<1>8. \A s \in Runs :
        /\ jobs'[s] = NoRow <=> jobs[s] = NoRow
        /\ jobs'[s].pack = jobs[s].pack
        /\ jobs'[s].facts = jobs[s].facts
        /\ jobs'[s].status = jobs[s].status \/ (s = r /\ jobs'[s].status = status)
  BY <1>3, <1>4, <1>6
<1>9. runs' = runs /\ faults' \in 0..MaxFaults
  BY <1>1 DEF Marked, Inv, TypeOK
<1>10. QED  BY <1>1, <1>5, <1>7, <1>8, <1>9, LeaseColumnsStep

LEMMA LeaseExpiresInv ==
  ASSUME Inv, NEW r \in Runs, LeaseExpires(r), NEW p \in Procs
  PROVE  Inv'
<1> DEFINE job == [jobs[r] EXCEPT !.live = FALSE]
<1>1. jobs[r] \in JobRow /\ jobs[r] # NoRow
  BY DEF LeaseExpires, Inv, TypeOK, NoRow
<1>2. /\ jobs' = [jobs EXCEPT ![r] = job]
      /\ job \in JobRow /\ job # NoRow
      /\ job.status = jobs[r].status /\ job.pack = jobs[r].pack /\ job.facts = jobs[r].facts
  BY <1>1 DEF LeaseExpires, JobRow, NoRow, Inv, TypeOK
<1> HIDE DEF job
<1>3. jobs \in [Runs -> JobRow \cup {NoRow}] /\ workers[p] \in Worker
      /\ workers' = [workers EXCEPT ![p] = workers[p]]
  BY DEF LeaseExpires, Inv, TypeOK
<1>4. jobs' \in [Runs -> JobRow \cup {NoRow}]
  BY <1>2, <1>3
<1>5. \A s \in Runs :
        /\ jobs'[s] = NoRow <=> jobs[s] = NoRow
        /\ jobs'[s].pack = jobs[s].pack
        /\ jobs'[s].facts = jobs[s].facts
        /\ jobs'[s].status = jobs[s].status
  BY <1>1, <1>2, <1>3
<1>6. runs' = runs /\ faults' \in 0..MaxFaults
  BY DEF LeaseExpires, Fault, Inv, TypeOK
<1>7. workers[p].step \in {"idle", "select", "dead"} => workers[p].batch = {}
  BY DEF Inv, WorkerMemoryIsCurrent
<1>8. QED  BY <1>3, <1>4, <1>5, <1>6, <1>7, LeaseColumnsStep

(* The outcome write, as both a successful and a failed statement make it. *)
LEMMA OutcomeStep ==
  ASSUME Inv, NEW p \in Procs, workers[p].step = "persist",
         WriteOutcome(p, workers[p].run) \/ UNCHANGED runs,
         jobs' = jobs, faults' \in 0..MaxFaults,
         NEW step \in {"complete", "fail"},
         workers' = [workers EXCEPT ![p].step = step],
         step = "complete" => WriteOutcome(p, workers[p].run)
  PROVE  Inv'
<1> DEFINE r == workers[p].run
<1>1. r \in workers[p].batch /\ jobs[r].pack \in Packs /\ Evaluation(jobs[r]) # EvalError
  BY DEF Inv, WorkerMemoryIsCurrent
<1>2. r \in Runs /\ jobs[r] \in JobRow /\ runs[r] \in RunRow /\ jobs[r] # NoRow
  BY <1>1, BatchRowsExist DEF JobRow, NoRow
<1>3. /\ Decided(r, p) \in RunRow
      /\ Decided(r, p).status \in DecidedStatus
      /\ Decided(r, p).outcome = Evaluation(jobs[r])
      /\ Decided(r, p).status = StatusOf[Evaluation(jobs[r])]
      /\ Decided(r, p).pack = jobs[r].pack
      /\ Decided(r, p).facts = jobs[r].facts
  BY <1>1, <1>2, DecidedIsRun DEF Inv
<1>4. runs \in [Runs -> RunRow \cup {NoRow}] /\ workers[p] \in Worker
  BY DEF Inv, TypeOK
<1>5. \/ runs' = runs
      \/ runs[r].status \notin TerminalStatus /\ runs' = [runs EXCEPT ![r] = Decided(r, p)]
  BY DEF WriteOutcome
<1>6. step = "complete" => runs'[r].status \in TerminalStatus
  BY <1>2, <1>3, <1>4 DEF WriteOutcome, TerminalStatus
<1>7. \A s \in Runs : \/ runs'[s] = runs[s]
                      \/ /\ s = r /\ runs'[s] = Decided(r, p)
                         /\ runs'[s].status \in TerminalStatus
  BY <1>2, <1>3, <1>4, <1>5 DEF TerminalStatus
<1>8. TypeOK'
  <2>1. runs' \in [Runs -> RunRow \cup {NoRow}]
    BY <1>3, <1>4, <1>5
  <2>2. workers' \in [Procs -> Worker]
    BY <1>4 DEF Inv, TypeOK, Worker, Steps
  <2>3. QED  BY <2>1, <2>2 DEF Inv, TypeOK
<1>9. JobMatchesRun'
  <2>1. Decided(r, p) # NoRow
    BY <1>3 DEF RunRow, NoRow
  <2>2. QED  BY <1>3, <1>7, <2>1 DEF Inv, JobMatchesRun
<1>10. WorkerMemoryIsCurrent'
  <2>1. \A q \in Procs : /\ workers'[q].batch = workers[q].batch
                         /\ workers'[q].run = workers[q].run
                         /\ workers'[q].step = IF q = p THEN step ELSE workers[q].step
    BY <1>4 DEF Inv, TypeOK, Worker
  <2>2. \A q \in Procs : workers[q].batch \subseteq Runs
    BY DEF Inv, TypeOK, Worker
  <2>3. \A q \in Procs : workers'[q].step = "complete" =>
                           runs'[workers[q].run].status \in TerminalStatus
    BY <1>6, <1>7, <2>1, <2>2 DEF Inv, WorkerMemoryIsCurrent
  <2>4. \A q \in Procs : workers'[q].step = "persist" =>
                           /\ jobs[workers[q].run].pack \in Packs
                           /\ Evaluation(jobs[workers[q].run])' # EvalError
    BY <2>1 DEF Inv, WorkerMemoryIsCurrent, Evaluation
  <2>5. QED
    BY <1>1, <2>1, <2>3, <2>4 DEF Inv, WorkerMemoryIsCurrent, Evaluation
<1>11. CompletedMeansDecided'
  BY <1>7 DEF Inv, CompletedMeansDecided
<1>12. DecidedByOwnInputs'
  <2>1. ASSUME runs'[r] = Decided(r, p)
        PROVE  LET outcome == Verdict[<<runs'[r].pack, runs'[r].facts>>] IN
               /\ outcome # EvalError
               /\ runs'[r].outcome = outcome
               /\ runs'[r].status = StatusOf[outcome]
    BY <1>1, <1>3, <2>1 DEF Evaluation
  <2>2. QED  BY <1>7, <2>1 DEF Inv, DecidedByOwnInputs
<1>13. QED  BY <1>8, <1>9, <1>10, <1>11, <1>12 DEF Inv

LEMMA PersistInv ==
  ASSUME Inv, NEW p \in Procs, PersistOutcome(p) \/ PersistFails(p)
  PROVE  Inv'
<1>1. CASE PersistOutcome(p)
  BY <1>1, OutcomeStep DEF PersistOutcome, Inv, TypeOK
<1>2. CASE PersistFails(p)
  <2>1. faults' \in 0..MaxFaults
    BY <1>2 DEF PersistFails, Fault, Inv, TypeOK
  <2>2. QED  BY <1>2, <2>1, OutcomeStep DEF PersistFails
<1>3. QED  BY <1>1, <1>2

-----------------------------------------------------------------------------
(* Every step of a worker and of the clock preserves the invariant.        *)
LEMMA WorkerNextInv == Inv /\ WorkerNext => Inv'
<1> SUFFICES ASSUME Inv, WorkerNext PROVE Inv'
  OBVIOUS
<1>1. ASSUME NEW p \in Procs, Work(p) PROVE Inv'
  BY <1>1, LeaseJobsInv, SelectLeasedInv, PersistInv, MarkedInv, FetchRunInv DEF Work
<1>2. ASSUME NEW p \in Procs, Disturb(p) PROVE Inv'
  BY <1>2, PersistInv, TickAbortsInv, FetchFailsInv DEF Disturb
<1>3. ASSUME NEW r \in Runs, LeaseExpires(r) PROVE Inv'
  BY <1>3, LeaseExpiresInv
<1>4. QED  BY <1>1, <1>2, <1>3 DEF WorkerNext

LEMMA NextInv == Inv /\ [Next]_vars => Inv'
<1> SUFFICES ASSUME Inv, [Next]_vars PROVE Inv'
  OBVIOUS
<1>1. CASE WorkerNext
  BY <1>1, WorkerNextInv
<1>2. ASSUME NEW r \in Runs, Enqueue(r) PROVE Inv'
  BY <1>2, InsertInv DEF Enqueue
<1>3. CASE UNCHANGED vars
  BY <1>3 DEF vars, Inv, TypeOK, JobMatchesRun, WorkerMemoryIsCurrent, CompletedMeansDecided,
              DecidedByOwnInputs, Evaluation
<1>4. QED  BY <1>1, <1>2, <1>3 DEF Next

(* The tables, the workers' memory and the decided outcomes stay           *)
(* consistent under every interleaving of any number of workers and faults.*)
THEOREM Safety == Spec => []Inv
<1>1. Init => Inv  BY InitInv
<1>2. Inv /\ [Next]_vars => Inv'  BY NextInv
<1>3. QED  BY <1>1, <1>2, PTL DEF Spec

(* A completed job's run is always decided.                                *)
THEOREM CompletedIsDecided == Spec => []CompletedMeansDecided
<1>1. Inv => CompletedMeansDecided  BY DEF Inv
<1>2. QED  BY <1>1, Safety, PTL

(* A decided run always carries the outcome of its own pack and facts.     *)
THEOREM DecisionsAreReproducible == Spec => []DecidedByOwnInputs
<1>1. Inv => DecidedByOwnInputs  BY DEF Inv
<1>2. QED  BY <1>1, Safety, PTL

-----------------------------------------------------------------------------
(* How a row is decided: by its own frozen inputs while it is open.        *)
Decides(r) ==
  /\ runs[r] \in RunRow
  /\ runs[r].status \notin TerminalStatus
  /\ jobs[r].pack \in Packs /\ Evaluation(jobs[r]) # EvalError
  /\ jobs[r] # NoRow
  /\ \E p \in Procs : runs'[r] = Decided(r, p)

(* How a row is inserted.                                                  *)
Inserts(r) ==
  /\ runs[r] = NoRow
  /\ \E q \in Products, f \in Facts :
       runs'[r] = BlockedRun(q, f) \/ \E k \in Packs : runs'[r] = QueuedRun(q, k, f)

RowStep(r) == runs'[r] = runs[r] \/ Inserts(r) \/ Decides(r)

LEMMA WorkerRowStep ==
  ASSUME Inv, WorkerNext, NEW r \in Runs
  PROVE  runs'[r] = runs[r] \/ Decides(r)
<1>1. CASE \E p \in Procs : PersistOutcome(p) \/ PersistFails(p)
  <2>1. PICK p \in Procs : PersistOutcome(p) \/ PersistFails(p)
    BY <1>1
  <2>2. workers[p].run \in workers[p].batch /\ workers[p].step = "persist"
    BY <2>1 DEF PersistOutcome, PersistFails, Inv, WorkerMemoryIsCurrent
  <2>3. workers[p].run \in Runs /\ runs[workers[p].run] \in RunRow
        /\ jobs[workers[p].run] \in JobRow
    BY <2>2, BatchRowsExist
  <2>4. jobs[workers[p].run].pack \in Packs /\ Evaluation(jobs[workers[p].run]) # EvalError
    BY <2>2 DEF Inv, WorkerMemoryIsCurrent
  <2>5. WriteOutcome(p, workers[p].run) \/ UNCHANGED runs
    BY <2>1 DEF PersistOutcome, PersistFails
  <2>6. \/ runs' = runs
        \/ /\ runs[workers[p].run].status \notin TerminalStatus
           /\ runs' = [runs EXCEPT ![workers[p].run] = Decided(workers[p].run, p)]
    BY <2>5 DEF WriteOutcome
  <2>7. runs \in [Runs -> RunRow \cup {NoRow}]
    BY DEF Inv, TypeOK
  <2>8. jobs[workers[p].run] # NoRow
    BY <2>3, NoRowIsNoRun
  <2>9. QED  BY <2>3, <2>4, <2>6, <2>7, <2>8 DEF Decides
<1>2. CASE UNCHANGED runs
  BY <1>2
<1>3. QED
  BY <1>1, <1>2
  DEF WorkerNext, Work, Disturb, LeaseJobs, SelectLeased, FetchRun, MarkCompleted,
      MarkFailed, Marked, FetchFails, TickAborts, RestartProcess, LeaseExpires

LEMMA RunRowStep ==
  ASSUME Inv, Next, NEW r \in Runs
  PROVE  RowStep(r)
<1>1. CASE WorkerNext
  BY <1>1, WorkerRowStep DEF RowStep
<1>2. CASE \E s \in Runs : Enqueue(s)
  <2>1. PICK s \in Runs, q \in Products, f \in Facts :
          InsertBlocked(s, q, f) \/ \E k \in Packs : InsertQueued(s, q, k, f)
    BY <1>2 DEF Enqueue
  <2>2. runs \in [Runs -> RunRow \cup {NoRow}]
    BY DEF Inv, TypeOK
  <2>3. QED  BY <2>1, <2>2 DEF InsertBlocked, InsertQueued, Inserts, RowStep
<1>3. QED  BY <1>1, <1>2 DEF Next

(* What no step of a worker changes: which rows and jobs there are and     *)
(* what they are about; a row it writes is not queued any more, and a      *)
(* marked job stays marked.                                                *)
LEMMA WorkerKeepsRow ==
  ASSUME Inv, WorkerNext, NEW r \in Runs
  PROVE  /\ runs'[r] = NoRow <=> runs[r] = NoRow
         /\ runs[r] # NoRow => /\ runs'[r].product = runs[r].product
                               /\ runs'[r].pack = runs[r].pack
                               /\ runs'[r].facts = runs[r].facts
         /\ runs'[r] # NoRow /\ runs'[r].status = "queued" => runs'[r] = runs[r]
<1>1. CASE runs'[r] = runs[r]
  BY <1>1
<1>2. CASE Decides(r)
  <2>1. PICK p \in Procs : runs'[r] = Decided(r, p)
    BY <1>2 DEF Decides
  <2>2. /\ Decided(r, p) \in RunRow
        /\ Decided(r, p).status \in DecidedStatus
        /\ Decided(r, p).pack = jobs[r].pack
        /\ Decided(r, p).facts = jobs[r].facts
        /\ Decided(r, p).product = runs[r].product
    BY <1>2, DecidedIsRun DEF Inv, Decides
  <2>3. jobs[r].pack = runs[r].pack /\ jobs[r].facts = runs[r].facts
    BY <1>2 DEF Inv, JobMatchesRun, Decides
  <2>4. runs[r] # NoRow /\ runs'[r] # NoRow
    BY <1>2, <2>1, <2>2, NoRowIsNoRun DEF Decides
  <2>5. runs'[r].status # "queued"
    BY <2>1, <2>2 DEF DecidedStatus
  <2>6. QED  BY <2>1, <2>2, <2>3, <2>4, <2>5
<1>3. QED  BY <1>1, <1>2, WorkerRowStep

LEMMA WorkerKeepsJob ==
  ASSUME Inv, WorkerNext, NEW r \in Runs
  PROVE  /\ jobs'[r] = NoRow <=> jobs[r] = NoRow
         /\ jobs[r] # NoRow => /\ jobs'[r].pack = jobs[r].pack
                               /\ jobs'[r].facts = jobs[r].facts
         /\ jobs[r].status \in {"completed", "failed"} =>
              jobs'[r].status \in {"completed", "failed"}
<1>1. /\ jobs \in [Runs -> JobRow \cup {NoRow}]
      /\ NoRow \notin JobRow
      /\ NoRow.status = "absent"
  BY NoRowIsNoRun DEF Inv, TypeOK, NoRow
<1>2. ASSUME NEW p \in Procs, LeaseJobs(p)
      PROVE  \/ jobs'[r] = jobs[r]
             \/ /\ jobs[r] \in JobRow /\ jobs[r].status \in {"queued", "leased"}
                /\ jobs'[r] = [jobs[r] EXCEPT !.status = "leased", !.live = TRUE,
                                              !.owner = WorkerIdOf[p]]
  <2>1. jobs'[r] = IF r \in Picked
                   THEN [jobs[r] EXCEPT !.status = "leased", !.live = TRUE,
                                        !.owner = WorkerIdOf[p]]
                   ELSE jobs[r]
    BY <1>2 DEF LeaseJobs
  <2>2. r \in Picked => jobs[r].status \in {"queued", "leased"}
    BY DEF Picked, Eligible
  <2>3. r \in Picked => jobs[r] \in JobRow
    BY <1>1, <2>2
  <2>4. QED  BY <2>1, <2>2, <2>3
<1>3. CASE \E p \in Procs : LeaseJobs(p)
  <2>1. PICK p \in Procs : LeaseJobs(p)
    BY <1>3
  <2>2. CASE jobs'[r] = jobs[r]
    BY <2>2
  <2>3. CASE /\ jobs[r] \in JobRow /\ jobs[r].status \in {"queued", "leased"}
             /\ jobs'[r] = [jobs[r] EXCEPT !.status = "leased", !.live = TRUE,
                                           !.owner = WorkerIdOf[p]]
    <3>1. /\ jobs'[r].status = "leased"
          /\ jobs'[r].pack = jobs[r].pack /\ jobs'[r].facts = jobs[r].facts
      BY <2>3 DEF JobRow
    <3>2. jobs'[r] # NoRow /\ jobs[r] # NoRow
      BY <1>1, <2>3, <3>1
    <3>3. QED  BY <2>3, <3>1, <3>2
  <2>4. QED  BY <1>2, <2>1, <2>2, <2>3
<1>4. CASE \E p \in Procs : MarkCompleted(p) \/ MarkFailed(p)
  <2>0. PICK p \in Procs : MarkCompleted(p) \/ MarkFailed(p)
    BY <1>4
  <2>1. PICK status \in {"completed", "failed"} : Marked(p, status)
    BY <2>0 DEF MarkCompleted, MarkFailed
  <2>2. jobs' = [jobs EXCEPT ![workers[p].run].status = status]
    BY <2>1 DEF Marked
  <2>3. CASE r # workers[p].run
    BY <1>1, <2>2, <2>3
  <2>4. CASE r = workers[p].run
    <3>1. jobs[r] \in JobRow
      <4>1. workers[p].run \in workers[p].batch
        BY <2>0 DEF MarkCompleted, MarkFailed, Inv, WorkerMemoryIsCurrent
      <4>2. QED  BY <2>4, <4>1, BatchRowsExist
    <3>2. jobs'[r] = [jobs[r] EXCEPT !.status = status]
      BY <1>1, <2>2, <2>4
    <3>3. jobs'[r] \in JobRow /\ jobs'[r].status = status
          /\ jobs'[r].pack = jobs[r].pack /\ jobs'[r].facts = jobs[r].facts
      BY <3>1, <3>2 DEF JobRow
    <3>4. QED  BY <1>1, <3>1, <3>3
  <2>5. QED  BY <2>3, <2>4
<1>5. CASE \E s \in Runs : LeaseExpires(s)
  <2>1. PICK s \in Runs : LeaseExpires(s)
    BY <1>5
  <2>2. jobs' = [jobs EXCEPT ![s].live = FALSE] /\ jobs[s].status = "leased"
    BY <2>1 DEF LeaseExpires
  <2>3. jobs[s] \in JobRow
    BY <1>1, <2>2
  <2>4. [jobs[s] EXCEPT !.live = FALSE] \in JobRow
    BY <2>3 DEF JobRow
  <2>5. QED  BY <1>1, <2>2, <2>3, <2>4 DEF JobRow
<1>6. CASE UNCHANGED jobs
  BY <1>6
<1>7. QED
  BY <1>3, <1>4, <1>5, <1>6
  DEF WorkerNext, Work, Disturb, SelectLeased, FetchRun, PersistOutcome,
      FetchFails, PersistFails, TickAborts, RestartProcess

LEMMA FinalRow ==
  ASSUME NEW r \in Runs, RowStep(r), runs[r].status \in TerminalStatus
  PROVE  runs'[r] = runs[r]
<1>1. runs[r] # NoRow
  BY DEF NoRow, TerminalStatus, DecidedStatus
<1>2. QED  BY <1>1 DEF RowStep, Inserts, Decides

(* A decided run row is never written again.                               *)
THEOREM DecisionsAreFinal == Spec => DecisionIsFinal
<1>1. Inv /\ [Next]_vars =>
        [\A r \in Runs : runs[r].status \in TerminalStatus => runs'[r] = runs[r]]_vars
  BY FinalRow, RunRowStep
<1>2. QED  BY <1>1, Safety, PTL DEF Spec, DecisionIsFinal

(* A job that was marked completed or failed never goes back to a lease.   *)
THEOREM MarkedJobsAreDone == Spec => MarkedJobsStayMarked
<1>1. Inv /\ [Next]_vars =>
        [\A r \in Runs : jobs[r].status \in {"completed", "failed"} =>
                         jobs'[r].status \in {"completed", "failed"}]_vars
  <2> SUFFICES ASSUME Inv, Next, NEW r \in Runs, jobs[r].status \in {"completed", "failed"}
               PROVE  jobs'[r].status \in {"completed", "failed"}
    OBVIOUS
  <2>1. CASE WorkerNext
    BY <2>1, WorkerKeepsJob
  <2>2. CASE \E s \in Runs : Enqueue(s)
    <3>1. jobs \in [Runs -> JobRow \cup {NoRow}] /\ jobs[r] # NoRow
      BY DEF Inv, TypeOK, NoRow
    <3>2. runs[r] # NoRow
      BY <3>1 DEF Inv, JobMatchesRun
    <3>3. QED  BY <2>2, <3>1, <3>2 DEF Enqueue, InsertQueued, InsertBlocked
  <2>3. QED  BY <2>1, <2>2 DEF Next
<1>2. QED  BY <1>1, Safety, PTL DEF Spec, MarkedJobsStayMarked

-----------------------------------------------------------------------------
(* The ledger's own definitions are those of the tables.                   *)
LEMMA LedgerRows ==
  /\ \A row \in RunRow : row # NoRow
  /\ \A packs : \A q \in Products, f \in Facts :
       \A k \in packs : Visible(QueuedRun(q, k, f)) \in Ledger!QueuedRows(packs)
  /\ \A q \in Products, f \in Facts : Visible(BlockedRun(q, f)) \in Ledger!BlockedRows
  /\ Ledger!NoRow = NoRow
  /\ Visible(NoRow) = NoRow
<1>1. \A row \in RunRow : row # NoRow
  BY NoRowIsNoRun
<1>2. \A packs : \A q \in Products, f \in Facts :
       \A k \in packs : Visible(QueuedRun(q, k, f)) \in Ledger!QueuedRows(packs)
  BY DEF Visible, QueuedRun, NoRow, Ledger!QueuedRows, Ledger!Visible, Ledger!QueuedRun,
         Ledger!NoRow
<1>3. \A q \in Products, f \in Facts : Visible(BlockedRun(q, f)) \in Ledger!BlockedRows
  BY DEF Visible, BlockedRun, NoRow, Ledger!BlockedRows, Ledger!Visible, Ledger!BlockedRun,
         Ledger!NoRow
<1>4. Ledger!NoRow = NoRow /\ Visible(NoRow) = NoRow
  BY DEF Ledger!NoRow, NoRow, Visible
<1>5. QED  BY <1>1, <1>2, <1>3, <1>4

LEMMA LedgerRowStep ==
  ASSUME Inv, NEW r \in Runs, RowStep(r)
  PROVE  Ledger!RowStep(Visible(runs[r]), Visible(runs'[r]))
<1>1. CASE runs'[r] = runs[r]
  BY <1>1 DEF Ledger!RowStep
<1>2. CASE Inserts(r)
  BY <1>2, LedgerRows DEF Ledger!RowStep, Inserts
<1>3. CASE Decides(r)
  <2>0. PICK p \in Procs : runs'[r] = Decided(r, p)
    BY <1>3 DEF Decides
  <2>9. /\ runs[r] \in RunRow /\ runs[r].status \notin TerminalStatus
        /\ jobs[r].pack \in Packs /\ Evaluation(jobs[r]) # EvalError /\ jobs[r] # NoRow
    BY <1>3 DEF Decides
  <2>1. /\ Decided(r, p) \in RunRow
        /\ Decided(r, p).outcome = Evaluation(jobs[r])
        /\ Decided(r, p).status = StatusOf[Evaluation(jobs[r])]
        /\ Decided(r, p).pack = jobs[r].pack
        /\ Decided(r, p).facts = jobs[r].facts
        /\ Decided(r, p).product = runs[r].product
    BY <2>9, DecidedIsRun DEF Inv
  <2>2. jobs[r].pack = runs[r].pack /\ jobs[r].facts = runs[r].facts
    BY <2>9 DEF Inv, JobMatchesRun
  <2>3. runs[r].status = "queued"
    <3>1. SUFFICES ASSUME runs[r].status # "queued" PROVE FALSE
      OBVIOUS
    <3>2. /\ Verdict[<<runs[r].pack, runs[r].facts>>] # EvalError
          /\ runs[r].status = StatusOf[Verdict[<<runs[r].pack, runs[r].facts>>]]
      BY <2>9, <2>2, <3>1, LedgerRows DEF Inv, DecidedByOwnInputs
    <3>3. Verdict[<<runs[r].pack, runs[r].facts>>] \in Outcomes
      BY <2>9, <2>2, <3>2 DEF RunRow
    <3>4. QED  BY <2>9, <3>2, <3>3 DEF TerminalStatus
  <2> DEFINE row == Visible(runs[r])
  <2>4. /\ row = [product |-> runs[r].product, pack |-> runs[r].pack, facts |-> runs[r].facts,
                  status |-> "queued", outcome |-> runs[r].outcome]
    BY <2>9, <2>3, LedgerRows DEF Visible
  <2>5. Visible(runs'[r]) =
          [product |-> runs[r].product, pack |-> runs[r].pack, facts |-> runs[r].facts,
           status |-> StatusOf[Evaluation(jobs[r])], outcome |-> Evaluation(jobs[r])]
    BY <2>0, <2>9, <2>1, <2>2, LedgerRows DEF Visible
  <2> HIDE DEF row
  <2>6. Ledger!CanDecide(row)
    BY <2>9, <2>2, <2>4 DEF Ledger!CanDecide, Evaluation
  <2>7. Ledger!DecidedRow(row) = Visible(runs'[r])
    <3>1. Verdict[<<row.pack, row.facts>>] = Evaluation(jobs[r])
      BY <2>2, <2>4 DEF Evaluation
    <3>2. Ledger!DecidedRow(row) =
            [row EXCEPT !.status = StatusOf[Evaluation(jobs[r])],
                        !.outcome = Evaluation(jobs[r])]
      BY <3>1 DEF Ledger!DecidedRow
    <3>3. QED  BY <2>4, <2>5, <3>2
  <2>8. QED  BY <2>6, <2>7 DEF Ledger!RowStep, row
<1>4. QED  BY <1>1, <1>2, <1>3 DEF RowStep

LEMMA LedgerInit == Init => Ledger!Init
<1> SUFFICES ASSUME Init PROVE Ledger!Init
  OBVIOUS
<1>1. \A r \in Runs : Visible(runs[r]) \in {Ledger!NoRow} \cup Ledger!QueuedRows({NoPack})
  BY LedgerRows DEF Init
<1>2. QED  BY <1>1 DEF Ledger!Init

(* The worker loops implement the ledger: each step of them inserts,       *)
(* decides or leaves every run as the abstract specification allows.       *)
THEOREM Refinement == Spec => ImplementsLedger
<1>1. Inv /\ [Next]_vars => [Ledger!Next]_([r \in Runs |-> Visible(runs[r])])
  <2> SUFFICES ASSUME Inv, Next
               PROVE  \A r \in Runs : Ledger!RowStep(Visible(runs[r]), Visible(runs'[r]))
    BY DEF Ledger!Next, vars
  <2>1. QED  BY RunRowStep, LedgerRowStep
<1>2. QED  BY <1>1, LedgerInit, Safety, PTL DEF Spec, ImplementsLedger, Ledger!Spec

-----------------------------------------------------------------------------
(* What the decision of a run says of the rules of its pack: EvaluatedRuns. *)

USE RulesAssumption, EvaluationAssumption

(* What stands at a place of a rule list.                                   *)
LEMMA RuleAt ==
  ASSUME NEW rules \in Seq(Rule), NEW i \in DOMAIN rules
  PROVE  /\ i \in Nat
         /\ rules[i].code \in Codes \cup {NoCode}
         /\ rules[i].confidence \in 0..MaxConfidence
         /\ rules[i].confidence \in Nat
<1>1. i \in 1..Len(rules) /\ rules[i] \in Rule
  OBVIOUS
<1>2. QED  BY <1>1 DEF Rule

(* If any rule fits, one of them comes before all others that fit.          *)
LEMMA SelectedIsFirst ==
  ASSUME NEW rules \in Seq(Rule), NEW words, Matched(rules, words) # {}
  PROVE  /\ Selected(rules, words) \in Matched(rules, words)
         /\ \A j \in Matched(rules, words) \ {Selected(rules, words)} :
              Precedes(rules, Selected(rules, words), j)
<1> DEFINE M == Matched(rules, words)
           Before(i) == {j \in M : Precedes(rules, j, i)}
           Sets == {Before(i) : i \in M}
<1>1. \A i \in M : i \in Nat /\ rules[i].confidence \in Nat
  BY RuleAt DEF Matched
<1>2. IsFiniteSet(M)
  <2>1. IsFiniteSet(DOMAIN rules)
    BY FS_Interval
  <2>2. M \subseteq DOMAIN rules
    BY DEF Matched
  <2>3. QED  BY <2>1, <2>2, FS_Subset
<1>3. Sets \subseteq FiniteSubsetsOf(M) /\ Sets # {}
  <2>1. \A i \in M : Before(i) \in FiniteSubsetsOf(M)
    <3> HIDE DEF M
    <3> TAKE i \in M
    <3>1. Before(i) \in SUBSET M
      OBVIOUS
    <3>2. IsFiniteSet(Before(i))
      BY <1>2, <3>1, FS_Subset
    <3>3. QED  BY <3>1, <3>2 DEF FiniteSubsetsOf
  <2>2. Sets # {}
    <3>1. PICK i \in M : TRUE
      OBVIOUS
    <3>2. Before(i) \in Sets
      BY <3>1
    <3>3. QED  BY <3>2
  <2> HIDE DEF Before, M
  <2>3. QED  BY <2>1, <2>2
<1>4. PICK B \in Sets : \A C \in Sets : ~(<<C, B>> \in StrictSubsetOrdering(M))
  <2> HIDE DEF Sets, M
  <2>1. QED  BY <1>3, FS_StrictSubsetOrderingWellFounded, WFMin
<1>5. PICK first \in M : B = Before(first)
  BY <1>4
<1>6. ASSUME NEW j \in M \ {first}, ~Precedes(rules, first, j)
      PROVE  FALSE
  <2>1. Precedes(rules, j, first)
    BY <1>1, <1>6 DEF Precedes
  <2>2. \A i \in M : Precedes(rules, i, j) => Precedes(rules, i, first)
    BY <1>1, <2>1 DEF Precedes
  <2>3. ~Precedes(rules, j, j)
    BY <1>1 DEF Precedes
  <2>4. Before(j) \subseteq Before(first) /\ Before(j) # Before(first)
    BY <2>1, <2>2, <2>3
  <2>5. <<Before(j), Before(first)>> \in StrictSubsetOrdering(M)
    BY <2>4 DEF StrictSubsetOrdering
  <2>6. QED  BY <1>4, <1>5, <2>5
<1>7. QED  BY <1>5, <1>6 DEF Selected

(* The evaluation of rules on a text is decided "classified" only if one of *)
(* the rules that fit is of enough confidence and clear of all others.      *)
THEOREM ClearDecision ==
  ASSUME NEW rules \in Seq(Rule), NEW words,
         OutcomeDecision(Evaluate(rules, words)) = "classified"
  PROVE  \E b \in Matched(rules, words) :
           /\ rules[b].code = Evaluate(rules, words).code
           /\ rules[b].code \in Codes
           /\ rules[b].confidence >= ReviewThreshold
           /\ \A j \in Matched(rules, words) \ {b} :
                rules[b].confidence - rules[j].confidence >= TieDelta
<1> DEFINE outcome == Evaluate(rules, words)
           best == Selected(rules, words)
<1>1. outcome.code # NoCode /\ ~HasTie(outcome) /\ ~(outcome.confidence < ReviewThreshold)
  BY DEF OutcomeDecision
<1>2. Matched(rules, words) # {}
  BY <1>1 DEF Evaluate
<1>3. best \in Matched(rules, words) /\ best \in DOMAIN rules
  BY <1>2, SelectedIsFirst DEF Matched
<1>4. \A i \in DOMAIN rules : /\ rules[i].confidence \in 0..MaxConfidence
                              /\ rules[i].code \in Codes \cup {NoCode}
  BY RuleAt
<1>5. outcome = [code |-> rules[best].code, confidence |-> rules[best].confidence,
                 rejected |-> Rejected(rules, words, DOMAIN rules \ {best})]
  BY <1>2 DEF Evaluate
<1>6. \A j \in Matched(rules, words) \ {best} :
        rules[best].confidence - rules[j].confidence >= TieDelta
  <2> TAKE j \in Matched(rules, words) \ {best}
  <2>1. j \in DOMAIN rules
    BY DEF Matched
  <2>2. [code |-> rules[j].code, reason |-> Reason(rules, words, j)] \in outcome.rejected
    BY <1>5, <2>1 DEF Rejected
  <2>3. Reason(rules, words, j) # "tie_score"
    BY <1>1, <2>2 DEF HasTie
  <2>4. ~Ties(rules[best].confidence, rules[j].confidence)
    BY <2>3 DEF Reason
  <2>5. QED  BY <1>3, <1>4, <2>1, <2>4 DEF Ties, TieDelta
<1>7. /\ rules[best].code = outcome.code
      /\ rules[best].code \in Codes
      /\ rules[best].confidence >= ReviewThreshold
  BY <1>1, <1>3, <1>4, <1>5 DEF ReviewThreshold
<1>8. QED  BY <1>3, <1>6, <1>7

(* A decided run with a pack carries the evaluation of that pack's rules.   *)
LEMMA DecidedIsEvaluated ==
  ASSUME Inv, NEW r \in Runs, runs[r] # NoRow, runs[r].status # "queued",
         runs[r].pack \in Packs
  PROVE  LET rules == DocumentOf[runs[r].pack].rules
             words == WordsOf[runs[r].facts] IN
         /\ rules \in Seq(Rule)
         /\ Evaluable(rules)
         /\ runs[r].outcome = Evaluate(rules, words)
         /\ runs[r].status = OutcomeDecision(Evaluate(rules, words))
<1> DEFINE k == runs[r].pack
           f == runs[r].facts
<1>1. f \in Facts
  BY DEF Inv, TypeOK, RunRow
<1>2. Verdict[<<k, f>>] = VerdictOf(k, f)
  <2>1. <<k, f>> \in Packs \X Facts
    BY <1>1
  <2>2. QED  BY <2>1
<1>3. /\ Verdict[<<k, f>>] # EvalError
      /\ runs[r].outcome = Verdict[<<k, f>>]
      /\ runs[r].status = StatusOf[Verdict[<<k, f>>]]
  BY DEF Inv, DecidedByOwnInputs
<1>4. Verdict[<<k, f>>] \in Outcomes
  <2>1. <<k, f>> \in Packs \X Facts
    BY <1>1
  <2>2. Verdict \in [Packs \X Facts -> Outcomes \cup {EvalError}]
    OBVIOUS
  <2>3. QED  BY <1>3, <2>1, <2>2
<1>5. StatusOf[Verdict[<<k, f>>]] = OutcomeDecision(Verdict[<<k, f>>])
  BY <1>4
<1>6. DocumentOf[k].rules \in Seq(Rule)
  BY DEF Document
<1>7. QED  BY <1>2, <1>3, <1>5, <1>6 DEF VerdictOf

(* Only a run with a pack is ever classified.                               *)
ClassifiedByPack ==
  \A r \in Runs : runs[r].status = "classified" => runs[r].pack \in Packs

LEMMA ClassifiedByPackStep ==
  ASSUME Inv, ClassifiedByPack, \A r \in Runs : RowStep(r)
  PROVE  ClassifiedByPack'
<1> SUFFICES ASSUME NEW r \in Runs, runs'[r].status = "classified"
             PROVE  runs'[r].pack \in Packs
  BY DEF ClassifiedByPack
<1>1. CASE runs'[r] = runs[r]
  BY <1>1 DEF ClassifiedByPack
<1>2. CASE Inserts(r)
  <2>1. PICK q \in Products, f \in Facts :
          runs'[r] = BlockedRun(q, f) \/ \E k \in Packs : runs'[r] = QueuedRun(q, k, f)
    BY <1>2 DEF Inserts
  <2>2. BlockedRun(q, f).status = "blocked"
    BY DEF BlockedRun
  <2>3. \A k \in Packs : QueuedRun(q, k, f).status = "queued"
    BY DEF QueuedRun
  <2>4. QED  BY <2>1, <2>2, <2>3
<1>3. CASE Decides(r)
  BY <1>3, DecidedIsRun DEF Inv, Decides
<1>4. QED  BY <1>1, <1>2, <1>3 DEF RowStep

LEMMA ClassifiedByPackInv == Spec => []ClassifiedByPack
<1>1. Init => ClassifiedByPack
  BY DEF Init, QueuedRun, NoRow, ClassifiedByPack
<1>2. Inv /\ ClassifiedByPack /\ [Next]_vars => ClassifiedByPack'
  <2>1. CASE UNCHANGED vars
    BY <2>1 DEF vars, ClassifiedByPack
  <2>2. CASE Next
    BY <2>2, RunRowStep, ClassifiedByPackStep
  <2>3. QED  BY <2>1, <2>2
<1>3. QED  BY <1>1, <1>2, Safety, PTL DEF Spec

LEMMA ClearWhenClassified == Inv /\ ClassifiedByPack => ClassifiedIsClear
<1> SUFFICES ASSUME Inv, ClassifiedByPack, NEW r \in Runs,
                    runs[r] # NoRow, runs[r].status = "classified"
             PROVE  \E best \in Found(runs[r]) :
                      /\ best.code = runs[r].outcome.code
                      /\ best.code \in Codes
                      /\ best.confidence >= ReviewThreshold
                      /\ \A other \in Found(runs[r]) :
                           \/ other.code = best.code
                           \/ best.confidence - other.confidence >= TieDelta
  BY DEF ClassifiedIsClear
<1>1. runs[r].pack \in Packs
  BY DEF ClassifiedByPack
<1> DEFINE rules == DocumentOf[runs[r].pack].rules
           words == WordsOf[runs[r].facts]
<1>2. /\ rules \in Seq(Rule)
      /\ runs[r].outcome = Evaluate(rules, words)
      /\ OutcomeDecision(Evaluate(rules, words)) = "classified"
  BY <1>1, DecidedIsEvaluated
<1>3. Found(runs[r]) = {rules[i] : i \in Matched(rules, words)}
  BY DEF Found, Matched
<1> HIDE DEF rules, words
<1>4. PICK b \in Matched(rules, words) :
        /\ rules[b].code = Evaluate(rules, words).code
        /\ rules[b].code \in Codes
        /\ rules[b].confidence >= ReviewThreshold
        /\ \A j \in Matched(rules, words) \ {b} :
             rules[b].confidence - rules[j].confidence >= TieDelta
  BY <1>2, ClearDecision
<1>5. \A other \in Found(runs[r]) :
        \/ other.code = rules[b].code
        \/ rules[b].confidence - other.confidence >= TieDelta
  BY <1>3, <1>4
<1>6. QED  BY <1>2, <1>3, <1>4, <1>5

(* Every classified run is clear, whatever the workers do.                  *)
THEOREM ClassifiedRunsAreClear == Spec => []ClassifiedIsClear
BY ClearWhenClassified, ClassifiedByPackInv, Safety, PTL

LEMMA DecidedKeepsGolden == Inv => GoldenCasesBind
<1> SUFFICES ASSUME Inv, NEW r \in Runs, runs[r] # NoRow, runs[r].pack \in Packs,
                    runs[r].status # "queued", Certified(DocumentOf[runs[r].pack]),
                    NEW i \in DOMAIN DocumentOf[runs[r].pack].golden,
                    DocumentOf[runs[r].pack].golden[i].words = WordsOf[runs[r].facts]
             PROVE  runs[r].outcome.code = DocumentOf[runs[r].pack].golden[i].expected
  BY DEF GoldenCasesBind
<1>1. runs[r].outcome = Evaluate(DocumentOf[runs[r].pack].rules, WordsOf[runs[r].facts])
  BY DecidedIsEvaluated
<1>2. GoldenCasePasses(DocumentOf[runs[r].pack], DocumentOf[runs[r].pack].golden[i])
  BY DEF Certified, Valid
<1>3. QED  BY <1>1, <1>2 DEF GoldenCasePasses

(* What certification tested is what the workers do: a run on the text of a *)
(* golden case of its certified pack is decided for the case's code.        *)
THEOREM GoldenCasesAreKept == Spec => []GoldenCasesBind
BY DecidedKeepsGolden, Safety, PTL

(* A valid pack can be evaluated on every product, so that no run by one    *)
(* fails for its pack.                                                      *)
THEOREM ValidIsEvaluable ==
  ASSUME NEW document \in Document, Valid(document)
  PROVE  Evaluable(document.rules)
BY DEF Valid, ValidRule, Evaluable

-----------------------------------------------------------------------------
(* Requests and workers on the same tables: ClassificationPipeline.         *)

PipelineInv == RequestsInv /\ Inv

(* Whatever a request at work knows of the runs stays true when a worker    *)
(* writes them.                                                             *)
LEMMA WorkerKeepsSound ==
  ASSUME Inv, WorkerNext, NEW w \in Handler, Sound(w, runs)
  PROVE  Sound(w, runs')
<1>1. \A r \in Runs : /\ RowOf(w, runs', r) = NoRow <=> RowOf(w, runs, r) = NoRow
                      /\ RowOf(w, runs, r) # NoRow =>
                           RowOf(w, runs', r).product = RowOf(w, runs, r).product
  BY WorkerKeepsRow DEF RowOf
<1>2. OnCourse(w, runs) => OnCourse(w, runs')
  <2> SUFFICES ASSUME OnCourse(w, runs) PROVE OnCourse(w, runs')
    OBVIOUS
  <2>1. w.answers \subseteq Runs
    BY DEF Handler
  <2>2. \A r \in w.answers : /\ RowOf(w, runs', r) # NoRow
                             /\ RowOf(w, runs', r).product = RowOf(w, runs, r).product
    BY <1>1, <2>1 DEF OnCourse
  <2>3. {RowOf(w, runs', r).product : r \in w.answers}
          = {RowOf(w, runs, r).product : r \in w.answers}
    BY <2>2
  <2>4. QED  BY <2>2, <2>3 DEF OnCourse
<1>3. \A r \in Runs : w.staged[r] # NoRow => runs'[r] = NoRow /\ Fresh(w.staged[r])
  BY WorkerKeepsRow DEF Sound
<1>4. QED  BY <1>2, <1>3 DEF Sound

LEMMA WorkerKeepsRequests ==
  ASSUME PipelineInv, WorkerNext, UNCHANGED <<facts, active, handlers>>
  PROVE  RequestsInv'
<1>1. RequestsTypeOK'
  BY WorkerNextInv DEF PipelineInv, RequestsInv, RequestsTypeOK, Inv, TypeOK
<1>2. QueuedRunHasJob'
  <2> SUFFICES ASSUME NEW r \in Runs, runs'[r] # NoRow, runs'[r].status = "queued"
               PROVE  /\ jobs'[r] # NoRow
                      /\ jobs'[r].pack = runs'[r].pack /\ jobs'[r].facts = runs'[r].facts
    BY DEF QueuedRunHasJob
  <2>1. runs'[r] = runs[r]
    BY WorkerKeepsRow DEF PipelineInv
  <2>2. jobs[r] # NoRow /\ jobs[r].pack = runs[r].pack /\ jobs[r].facts = runs[r].facts
    BY <2>1 DEF PipelineInv, RequestsInv, QueuedRunHasJob
  <2>3. QED  BY <2>1, <2>2, WorkerKeepsJob DEF PipelineInv
<1>3. PackFitsFacts'
  BY WorkerKeepsRow DEF PipelineInv, RequestsInv, PackFitsFacts
<1>4. ActiveFits'
  BY DEF PipelineInv, RequestsInv, ActiveFits
<1>5. StagedApart'
  <2>1. handlers' = handlers /\ StagedApart
    BY DEF PipelineInv, RequestsInv
  <2>2. QED  BY <2>1 DEF StagedApart
<1>6. \A h \in Handlers : Sound(handlers[h], runs')
  BY WorkerKeepsSound DEF PipelineInv, RequestsInv, RequestsTypeOK
<1>7. QED  BY <1>1, <1>2, <1>3, <1>4, <1>5, <1>6 DEF RequestsInv

(* A request leaves the tables alone until it commits; then its rows are    *)
(* inserted, each with its job.                                             *)
LEMMA CommittedRows ==
  ASSUME PipelineInv, NEW h \in Handlers, Commit(h), NEW r \in Runs
  PROVE  \/ runs'[r] = runs[r] /\ jobs'[r] = jobs[r]
         \/ /\ runs[r] = NoRow /\ jobs[r] = NoRow
            /\ runs'[r] = handlers[h].staged[r] /\ runs'[r] # NoRow
            /\ \/ /\ jobs'[r] = NoRow
                  /\ \E q \in Products, f \in Facts : runs'[r] = BlockedRun(q, f)
               \/ \E q \in Products, f \in Facts, k \in Packs :
                    runs'[r] = QueuedRun(q, k, f) /\ jobs'[r] = QueuedJob(k, f)
<1> DEFINE v == handlers[h]
<1>1. /\ runs'[r] = IF v.staged[r] = NoRow THEN runs[r] ELSE v.staged[r]
      /\ jobs'[r] = IF v.staged[r] # NoRow /\ v.staged[r].status = "queued"
                    THEN QueuedJob(v.staged[r].pack, v.staged[r].facts)
                    ELSE jobs[r]
  BY DEF Commit
<1>2. CASE v.staged[r] = NoRow
  BY <1>1, <1>2
<1>3. CASE v.staged[r] # NoRow
  <2>1. runs[r] = NoRow /\ Fresh(v.staged[r])
    BY <1>3 DEF PipelineInv, RequestsInv, Sound
  <2>2. jobs[r] = NoRow
    BY <2>1 DEF PipelineInv, Inv, JobMatchesRun
  <2>3. PICK q \in Products, f \in Facts :
          v.staged[r] = BlockedRun(q, f) \/ \E k \in Packs : v.staged[r] = QueuedRun(q, k, f)
    BY <2>1 DEF Fresh
  <2>4. CASE v.staged[r] = BlockedRun(q, f)
    <3>1. v.staged[r].status # "queued"
      BY <2>4 DEF BlockedRun
    <3>2. QED  BY <1>1, <1>3, <2>1, <2>2, <2>4, <3>1
  <2>5. ASSUME NEW k \in Packs, v.staged[r] = QueuedRun(q, k, f)
        PROVE  runs'[r] = QueuedRun(q, k, f) /\ jobs'[r] = QueuedJob(k, f)
    <3>1. /\ v.staged[r].status = "queued"
          /\ v.staged[r].pack = k /\ v.staged[r].facts = f
      BY <2>5 DEF QueuedRun
    <3>2. QED  BY <1>1, <1>3, <2>5, <3>1
  <2>6. QED  BY <1>1, <1>3, <2>1, <2>2, <2>3, <2>4, <2>5
<1>4. QED  BY <1>2, <1>3

(* The steps of a request before its commit, and those of the rest.         *)
LEMMA RequestsLeaveTables ==
  ASSUME RequestsNext, \A h \in Handlers : ~Commit(h)
  PROVE  UNCHANGED <<runs, jobs>>
BY DEF RequestsNext, Receive, Serve, FetchProduct, FetchPack, FetchExisting, RequestFails,
       Import, ActivatePack

LEMMA CommitKeepsWorkers ==
  ASSUME PipelineInv, RequestsInv', NEW h \in Handlers, Commit(h), UNCHANGED <<workers, faults>>
  PROVE  Inv'
<1>1. /\ runs' \in [Runs -> RunRow \cup {NoRow}]
      /\ jobs' \in [Runs -> JobRow \cup {NoRow}]
  BY DEF RequestsInv, RequestsTypeOK
<1>2. ASSUME NEW r \in Runs
      PROVE  \/ runs'[r] = runs[r] /\ jobs'[r] = jobs[r]
             \/ /\ runs[r] = NoRow /\ runs'[r] # NoRow
                /\ \/ jobs'[r] = NoRow
                   \/ /\ jobs'[r].pack = runs'[r].pack /\ jobs'[r].facts = runs'[r].facts
                      /\ jobs'[r].status = "queued"
                /\ runs'[r].status = "queued" \/ runs'[r].pack = NoPack
  <2>1. \A q \in Products, f \in Facts : BlockedRun(q, f).pack = NoPack
    BY DEF BlockedRun
  <2>2. \A q \in Products, f \in Facts, k \in Packs :
          /\ QueuedRun(q, k, f).status = "queued" /\ QueuedJob(k, f).status = "queued"
          /\ QueuedRun(q, k, f).pack = QueuedJob(k, f).pack
          /\ QueuedRun(q, k, f).facts = QueuedJob(k, f).facts
    BY DEF QueuedRun, QueuedJob
  <2>3. CASE runs'[r] = runs[r] /\ jobs'[r] = jobs[r]
    BY <2>3
  <2>4. CASE /\ runs[r] = NoRow /\ runs'[r] # NoRow
             /\ \/ /\ jobs'[r] = NoRow
                   /\ \E q \in Products, f \in Facts : runs'[r] = BlockedRun(q, f)
                \/ \E q \in Products, f \in Facts, k \in Packs :
                     runs'[r] = QueuedRun(q, k, f) /\ jobs'[r] = QueuedJob(k, f)
    BY <2>1, <2>2, <2>4
  <2>5. QED  BY <2>3, <2>4, CommittedRows
<1>3. QED  BY <1>1, <1>2, RowsInserted DEF PipelineInv

LEMMA PipelineInitInv == PipelineInit => PipelineInv
<1> SUFFICES ASSUME RequestsInit, Init PROVE RequestsInv /\ Inv
  BY DEF PipelineInit, PipelineInv
<1>1. Inv
  BY InitInv
<1>2. RequestsTypeOK
  BY <1>1, IdleIsHandler DEF RequestsInit, RequestsTypeOK, Inv, TypeOK
<1>3. \A h \in Handlers : Sound(handlers[h], runs)
  BY IdleIsSound DEF RequestsInit
<1>4. StagedApart /\ ActiveFits
  BY DEF RequestsInit, StagedApart, ActiveFits, IdleHandler
<1>5. PICK p \in Products, f \in Facts :
        /\ \A r \in Runs : runs[r] = IF r \in Migrated THEN QueuedRun(p, NoPack, f) ELSE NoRow
        /\ \A r \in Runs : jobs[r] = IF r \in Migrated THEN QueuedJob(NoPack, f) ELSE NoRow
  BY DEF Init
<1>6. /\ QueuedRun(p, NoPack, f).pack = NoPack /\ QueuedRun(p, NoPack, f).facts = f
      /\ QueuedJob(NoPack, f).pack = NoPack /\ QueuedJob(NoPack, f).facts = f
      /\ QueuedJob(NoPack, f) # NoRow
  BY DEF QueuedRun, QueuedJob, NoRow
<1>7. QueuedRunHasJob /\ PackFitsFacts
  BY <1>5, <1>6 DEF QueuedRunHasJob, PackFitsFacts
<1>8. QED  BY <1>1, <1>2, <1>3, <1>4, <1>7 DEF RequestsInv

LEMMA PipelineNextInv == PipelineInv /\ [PipelineNext]_pipelineVars => PipelineInv'
<1> SUFFICES ASSUME PipelineInv, [PipelineNext]_pipelineVars PROVE PipelineInv'
  OBVIOUS
<1>1. CASE RequestsNext /\ UNCHANGED <<workers, faults>>
  <2>1. RequestsInv'
    BY <1>1, RequestsNextInv DEF PipelineInv
  <2>2. CASE \E h \in Handlers : Commit(h)
    BY <1>1, <2>1, <2>2, CommitKeepsWorkers DEF PipelineInv
  <2>3. CASE \A h \in Handlers : ~Commit(h)
    <3>1. UNCHANGED vars
      BY <1>1, <2>3, RequestsLeaveTables DEF vars
    <3>2. QED  BY <2>1, <3>1, NextInv DEF PipelineInv
  <2>4. QED  BY <2>2, <2>3
<1>2. CASE WorkerNext /\ UNCHANGED <<facts, active, handlers>>
  BY <1>2, WorkerNextInv, WorkerKeepsRequests DEF PipelineInv
<1>3. CASE UNCHANGED pipelineVars
  <2>1. UNCHANGED vars /\ UNCHANGED requestVars
    BY <1>3 DEF pipelineVars, requestVars, vars
  <2>2. QED  BY <2>1, NextInv, RequestsNextInv DEF PipelineInv
<1>4. QED  BY <1>1, <1>2, <1>3 DEF PipelineNext

LEMMA PipelineAlways == PipelineSpec => []PipelineInv
BY PipelineInitInv, PipelineNextInv, PTL DEF PipelineSpec

(* What holds of the requests alone and of the workers alone holds of both  *)
(* together: neither is disturbed by what the other does to its rows.       *)
THEOREM PipelineSafety ==
  PipelineSpec => [](/\ QueuedRunHasJob /\ PackFitsFacts /\ RepliesHold
                     /\ CompletedMeansDecided /\ DecidedByOwnInputs)
<1>1. PipelineInv => /\ QueuedRunHasJob /\ PackFitsFacts /\ RepliesHold
                     /\ CompletedMeansDecided /\ DecidedByOwnInputs
  BY RepliesOfInv DEF PipelineInv, RequestsInv, Inv
<1>2. QED  BY <1>1, PipelineAlways, PTL

-----------------------------------------------------------------------------
(* Every step of the whole inserts, decides or leaves a row.                *)
LEMMA PipelineRowStep ==
  ASSUME PipelineInv, PipelineNext, NEW r \in Runs
  PROVE  RowStep(r)
<1>1. CASE \E h \in Handlers : Commit(h)
  BY <1>1, CommittedRows DEF RowStep, Inserts
<1>2. CASE RequestsNext /\ \A h \in Handlers : ~Commit(h)
  BY <1>2, RequestsLeaveTables DEF RowStep
<1>3. CASE WorkerNext
  BY <1>3, WorkerRowStep DEF RowStep, PipelineInv
<1>4. QED  BY <1>1, <1>2, <1>3 DEF PipelineNext

(* Requests and workers together implement the ledger of decide-once runs.  *)
THEOREM PipelineRefinement == PipelineSpec => ImplementsLedger
<1>1. PipelineInit => Ledger!Init
  BY LedgerInit DEF PipelineInit
<1>2. PipelineInv /\ [PipelineNext]_pipelineVars
        => [Ledger!Next]_([r \in Runs |-> Visible(runs[r])])
  <2> SUFFICES ASSUME PipelineInv, PipelineNext
               PROVE  \A r \in Runs : Ledger!RowStep(Visible(runs[r]), Visible(runs'[r]))
    BY DEF Ledger!Next, pipelineVars, requestVars
  <2>1. QED  BY PipelineRowStep, LedgerRowStep DEF PipelineInv
<1>3. QED  BY <1>1, <1>2, PipelineAlways, PTL DEF PipelineSpec, ImplementsLedger, Ledger!Spec

(* No request and no worker ever writes a decided run again.                *)
THEOREM PipelineDecisionsAreFinal == PipelineSpec => DecisionIsFinal
<1>1. PipelineInv /\ [PipelineNext]_pipelineVars =>
        [\A r \in Runs : runs[r].status \in TerminalStatus => runs'[r] = runs[r]]_vars
  BY FinalRow, PipelineRowStep DEF pipelineVars, requestVars, vars
<1>2. QED  BY <1>1, PipelineAlways, PTL DEF PipelineSpec, DecisionIsFinal

(* No request puts back to work a job that a worker has marked.             *)
THEOREM PipelineMarkedJobsAreDone == PipelineSpec => MarkedJobsStayMarked
<1>1. PipelineInv /\ [PipelineNext]_pipelineVars =>
        [\A r \in Runs : jobs[r].status \in {"completed", "failed"} =>
                         jobs'[r].status \in {"completed", "failed"}]_vars
  <2> SUFFICES ASSUME PipelineInv, PipelineNext,
                      NEW r \in Runs, jobs[r].status \in {"completed", "failed"}
               PROVE  jobs'[r].status \in {"completed", "failed"}
    BY DEF pipelineVars, requestVars, vars
  <2>1. CASE \E h \in Handlers : Commit(h)
    <3>1. jobs[r] # NoRow
      BY DEF NoRow
    <3>2. jobs'[r] = jobs[r]
      BY <2>1, <3>1, CommittedRows
    <3>3. QED  BY <3>2
  <2>2. CASE RequestsNext /\ \A h \in Handlers : ~Commit(h)
    BY <2>2, RequestsLeaveTables
  <2>3. CASE WorkerNext
    BY <2>3, WorkerKeepsJob DEF PipelineInv
  <2>4. QED  BY <2>1, <2>2, <2>3 DEF PipelineNext
<1>2. QED  BY <1>1, PipelineAlways, PTL DEF PipelineSpec, MarkedJobsStayMarked

(* What is said of classified runs and of golden cases holds of the runs    *)
(* that clients ask for, with any requests and workers at once.             *)
THEOREM PipelineRunsAreClear == PipelineSpec => [](ClassifiedIsClear /\ GoldenCasesBind)
<1>1. PipelineInit => ClassifiedByPack
  BY DEF PipelineInit, Init, QueuedRun, NoRow, ClassifiedByPack
<1>2. PipelineInv /\ ClassifiedByPack /\ [PipelineNext]_pipelineVars => ClassifiedByPack'
  <2>1. CASE UNCHANGED pipelineVars
    BY <2>1 DEF pipelineVars, requestVars, ClassifiedByPack
  <2>2. CASE PipelineNext
    BY <2>2, PipelineRowStep, ClassifiedByPackStep DEF PipelineInv
  <2>3. QED  BY <2>1, <2>2
<1>3. PipelineInv /\ ClassifiedByPack => ClassifiedIsClear /\ GoldenCasesBind
  BY ClearWhenClassified, DecidedKeepsGolden DEF PipelineInv
<1>4. QED  BY <1>1, <1>2, <1>3, PipelineAlways, PTL DEF PipelineSpec

-----------------------------------------------------------------------------
(* A job enqueued by a request has a pack.                                  *)
JobsHavePacks == \A r \in Runs : jobs[r] # NoRow => jobs[r].pack \in Packs

(* Without old jobs from before the migration, no worker ever panics on a   *)
(* run without a pack.                                                      *)
THEOREM WorkersLive ==
  ASSUME Migrated = {}
  PROVE  PipelineSpec => []WorkersSurvive
<1> DEFINE Alive == PipelineInv /\ JobsHavePacks /\ WorkersSurvive
<1>1. PipelineInit => Alive
  <2> SUFFICES ASSUME PipelineInit PROVE JobsHavePacks /\ WorkersSurvive
    BY PipelineInitInv
  <2>1. \A r \in Runs : jobs[r] = NoRow
    BY DEF PipelineInit, Init
  <2>2. QED  BY <2>1 DEF PipelineInit, Init, JobsHavePacks, WorkersSurvive, IdleWorker
<1>2. Alive /\ [PipelineNext]_pipelineVars => Alive'
  <2> SUFFICES ASSUME Alive, [PipelineNext]_pipelineVars
               PROVE  JobsHavePacks' /\ WorkersSurvive'
    BY PipelineNextInv
  <2>1. CASE \E h \in Handlers : Commit(h) /\ UNCHANGED workers
    <3>1. PICK h \in Handlers : Commit(h)
      BY <2>1
    <3>2. \A k \in Packs, f \in Facts : QueuedJob(k, f).pack \in Packs
      BY DEF QueuedJob
    <3>3. JobsHavePacks'
      BY <3>1, <3>2, CommittedRows DEF JobsHavePacks
    <3>4. QED  BY <2>1, <3>3 DEF WorkersSurvive
  <2>2. CASE WorkerNext
    <3>1. JobsHavePacks'
      BY <2>2, WorkerKeepsJob DEF JobsHavePacks, PipelineInv
    <3>2. ASSUME NEW p \in Procs, NEW r \in Runs, FetchRun(p, r)
          PROVE  /\ r \in workers[p].batch
                 /\ workers' = [workers EXCEPT ![p] = workers'[p]]
                 /\ workers'[p].step # "dead"
      <4>1. r \in workers[p].batch
        BY <3>2 DEF FetchRun
      <4>2. jobs[r].pack # NoPack
        <5>1. r \in Runs /\ jobs[r] \in JobRow
          BY <4>1, BatchRowsExist DEF PipelineInv
        <5>2. jobs[r].pack \in Packs
          BY <5>1, NoRowIsNoRun DEF JobsHavePacks
        <5>3. QED  BY <5>2
      <4>3. workers \in [Procs -> Worker]
        BY DEF PipelineInv, Inv, TypeOK
      <4>4. QED  BY <3>2, <4>1, <4>2, <4>3 DEF FetchRun, Worker
    <3>3. WorkersSurvive'
      <4> SUFFICES ASSUME NEW q \in Procs PROVE workers'[q].step # "dead"
        BY DEF WorkersSurvive
      <4>1. workers \in [Procs -> Worker] /\ \A p \in Procs : workers[p].step # "dead"
        BY DEF PipelineInv, Inv, TypeOK, WorkersSurvive
      <4>2. CASE \E p \in Procs, r \in Runs : FetchRun(p, r)
        BY <3>2, <4>1, <4>2
      <4>3. CASE ~ \E p \in Procs, r \in Runs : FetchRun(p, r)
        <5>1. CASE UNCHANGED workers
          BY <4>1, <5>1
        <5>2. \A p \in Procs : workers[p] \in Worker
          BY <4>1
        <5>3. ASSUME NEW p \in Procs, Work(p) \/ Disturb(p)
              PROVE  workers'[q].step # "dead"
          <6>1. ASSUME NEW step, step # "dead", workers' = [workers EXCEPT ![p].step = step]
                PROVE  workers'[q].step # "dead"
            <7>1. q # p => workers'[q] = workers[q]
              BY <4>1, <6>1
            <7>2. q = p => workers'[q] = [workers[p] EXCEPT !.step = step]
              BY <4>1, <6>1
            <7>3. QED  BY <4>1, <5>2, <6>1, <7>1, <7>2 DEF Worker
          <6>2. ASSUME NEW step, step # "dead", NEW batch,
                       \/ workers' = [workers EXCEPT ![p].step = step, ![p].batch = batch]
                       \/ workers' = [workers EXCEPT ![p].step = step, ![p].batch = batch,
                                                     ![p].run = NoRun]
                PROVE  workers'[q].step # "dead"
            <7>1. q # p => workers'[q] = workers[q]
              BY <4>1, <6>2
            <7>2. q = p =>
                    \/ workers'[q] = [workers[p] EXCEPT !.step = step, !.batch = batch]
                    \/ workers'[q] = [workers[p] EXCEPT !.step = step, !.batch = batch,
                                                        !.run = NoRun]
              BY <4>1, <6>2
            <7>3. QED  BY <4>1, <5>2, <6>2, <7>1, <7>2 DEF Worker
          <6>3. CASE LeaseJobs(p) \/ PersistOutcome(p) \/ PersistFails(p)
            BY <6>1, <6>3 DEF LeaseJobs, PersistOutcome, PersistFails
          <6>4. CASE SelectLeased(p)
            BY <6>2, <6>4 DEF SelectLeased
          <6>5. CASE MarkCompleted(p) \/ MarkFailed(p)
            BY <6>2, <6>5 DEF MarkCompleted, MarkFailed, Marked
          <6>6. CASE TickAborts(p) \/ RestartProcess(p)
            BY <4>1, <6>6 DEF TickAborts, RestartProcess, IdleWorker
          <6>7. CASE \E r \in Runs : FetchFails(p, r)
            BY <4>1, <5>2, <6>7 DEF FetchFails, Worker
          <6>8. QED  BY <4>3, <5>3, <6>3, <6>4, <6>5, <6>6, <6>7 DEF Work, Disturb
        <5>4. QED  BY <2>2, <5>1, <5>3 DEF WorkerNext, LeaseExpires
      <4>4. QED  BY <4>2, <4>3
    <3>4. QED  BY <3>1, <3>3
  <2>3. CASE UNCHANGED <<jobs, workers>>
    BY <2>3 DEF JobsHavePacks, WorkersSurvive
  <2>4. QED
    BY <2>1, <2>2, <2>3, RequestsLeaveTables DEF PipelineNext, pipelineVars, requestVars
<1>3. Alive => WorkersSurvive
  OBVIOUS
<1> HIDE DEF Alive
<1>4. QED  BY <1>1, <1>2, <1>3, PTL DEF PipelineSpec

-----------------------------------------------------------------------------
(* No two rows of a table are of the same product and the same pack.        *)
Distinct(table) ==
  \A r, q \in Runs :
    (/\ table[r] # NoRow /\ table[q] # NoRow
     /\ table[r].product = table[q].product
     /\ table[r].pack = table[q].pack /\ table[r].pack \in Packs) => r = q

(* The table as a request sees it.                                          *)
Seen(w, table) == [r \in Runs |-> RowOf(w, table, r)]

(* With rows that are about the same, or fewer of them, it stays so; and    *)
(* with a new row that no other is like.                                    *)
LEMMA StillDistinct ==
  ASSUME NEW t, NEW u, Distinct(t),
         \A r \in Runs : u[r] # NoRow => /\ t[r] # NoRow
                                         /\ u[r].product = t[r].product
                                         /\ u[r].pack = t[r].pack
  PROVE  Distinct(u)
BY DEF Distinct

LEMMA OneMoreIsDistinct ==
  ASSUME NEW t, NEW u, Distinct(t), NEW n \in Runs,
         \A r \in Runs \ {n} : u[r] = t[r],
         \/ u[n].pack \notin Packs
         \/ \A r \in Runs : t[r] # NoRow /\ t[r].pack = u[n].pack =>
                              t[r].product # u[n].product
  PROVE  Distinct(u)
<1> SUFFICES ASSUME NEW r \in Runs, NEW q \in Runs, r # q,
                    u[r] # NoRow, u[q] # NoRow, u[r].product = u[q].product,
                    u[r].pack = u[q].pack, u[r].pack \in Packs
             PROVE  FALSE
  BY DEF Distinct
<1>1. CASE r # n /\ q # n
  <2>1. u[r] = t[r] /\ u[q] = t[q]
    BY <1>1
  <2>2. QED  BY <2>1 DEF Distinct
<1>2. CASE r = n
  <2>1. u[q] = t[q]
    BY <1>2
  <2>2. QED  BY <1>2, <2>1
<1>3. CASE q = n
  <2>1. u[r] = t[r]
    BY <1>3
  <2>2. QED  BY <1>3, <2>1
<1>4. QED  BY <1>1, <1>2, <1>3

(* fetch_existing_run asks for every status a run with a pack can have.     *)
LEMMA RowsAreOpen ==
  ASSUME PipelineInv, NEW h \in Handlers, NEW r \in Runs,
         NEW row \in {runs[r], handlers[h].staged[r]} \ {NoRow}, row.pack \in Packs
  PROVE  row.status \in OpenStatus
<1>1. CASE row = handlers[h].staged[r]
  <2>1. Fresh(row)
    BY <1>1 DEF PipelineInv, RequestsInv, Sound
  <2>2. PICK q \in Products, f \in Facts :
          row = BlockedRun(q, f) \/ \E k \in Packs : row = QueuedRun(q, k, f)
    BY <2>1 DEF Fresh
  <2>3. QED  BY <2>2 DEF BlockedRun, QueuedRun, OpenStatus
<1>2. CASE row = runs[r] /\ runs[r].status # "queued"
  <2> DEFINE outcome == Verdict[<<runs[r].pack, runs[r].facts>>]
  <2>1. runs[r] \in RunRow
    BY <1>2 DEF PipelineInv, Inv, TypeOK
  <2>2. <<runs[r].pack, runs[r].facts>> \in Packs \X Facts
    BY <1>2, <2>1 DEF RunRow
  <2>3. outcome # EvalError /\ runs[r].status = StatusOf[outcome]
    BY <1>2 DEF PipelineInv, Inv, DecidedByOwnInputs
  <2>4. outcome \in Outcomes
    <3>1. Verdict \in [Packs \X Facts -> Outcomes \cup {EvalError}]
      OBVIOUS
    <3>2. QED  BY <2>2, <2>3, <3>1
  <2> HIDE DEF outcome
  <2>5. StatusOf[outcome] \in DecidedStatus
    BY <2>4
  <2>6. QED  BY <1>2, <2>3, <2>5 DEF DecidedStatus, OpenStatus
<1>3. CASE row = runs[r] /\ runs[r].status = "queued"
  BY <1>3 DEF OpenStatus
<1>4. QED  BY <1>1, <1>2, <1>3

(* What the requests see holds one run per pack.                            *)
SeenOnce == /\ OneRunPerPack
            /\ \A h \in Handlers : Distinct(Seen(handlers[h], runs))

LEMMA AloneStep ==
  ASSUME PipelineInv, SeenOnce, \A g, h \in Handlers : g = h,
         NEW h \in Handlers, NEW w, handlers' = [handlers EXCEPT ![h] = w],
         UNCHANGED runs, Distinct(Seen(w, runs))
  PROVE  SeenOnce'
<1>1. \A g \in Handlers : handlers'[g] = w
  BY DEF PipelineInv, RequestsInv, RequestsTypeOK
<1>2. QED  BY <1>1 DEF SeenOnce, OneRunPerPack

(* A step in which a request stages nothing new.                            *)
LEMMA NothingStaged ==
  ASSUME PipelineInv, SeenOnce, NEW h \in Handlers, NEW w,
         \A r \in Runs : w.staged[r] \in {NoRow, handlers[h].staged[r]}
  PROVE  Distinct(Seen(w, runs))
<1> DEFINE v == handlers[h]
<1>1. Distinct(Seen(v, runs))
  BY DEF SeenOnce
<1>2. \A r \in Runs : v.staged[r] # NoRow => runs[r] = NoRow
  BY DEF PipelineInv, RequestsInv, Sound
<1>3. \A r \in Runs : RowOf(w, runs, r) # NoRow => RowOf(w, runs, r) = RowOf(v, runs, r)
  BY <1>2 DEF RowOf
<1> HIDE DEF v
<1>4. \A r \in Runs : Seen(w, runs)[r] # NoRow => Seen(w, runs)[r] = Seen(v, runs)[r]
  BY <1>3 DEF Seen
<1>5. QED  BY <1>1, <1>4, StillDistinct

(* A step in which it stages a new row, one without a pack or one that is   *)
(* like no other it sees.                                                   *)
LEMMA RowStaged ==
  ASSUME PipelineInv, SeenOnce, NEW h \in Handlers, NEW n \in FreeIds, NEW row \in RunRow,
         \/ row.pack \notin Packs
         \/ \A r \in Runs :
              LET seen == RowOf(handlers[h], runs, r) IN
              seen # NoRow /\ seen.pack = row.pack => seen.product # row.product
  PROVE  Distinct(Seen(Answered(handlers[h], n, row), runs))
<1> DEFINE v == handlers[h]
           w == Answered(v, n, row)
<1>1. Distinct(Seen(v, runs)) /\ v \in Handler /\ n \in Runs
  BY DEF SeenOnce, PipelineInv, RequestsInv, RequestsTypeOK, FreeIds
<1>2. w.staged = [v.staged EXCEPT ![n] = row] /\ row # NoRow
  BY <1>1, NoRowIsNoRun DEF Answered, Handler
<1>3. /\ \A r \in Runs \ {n} : RowOf(w, runs, r) = RowOf(v, runs, r)
      /\ RowOf(w, runs, n) = row
  BY <1>1, <1>2 DEF RowOf, Handler
<1> HIDE DEF w
<1>4. /\ \A r \in Runs \ {n} : Seen(w, runs)[r] = Seen(v, runs)[r]
      /\ Seen(w, runs)[n] = row
  BY <1>1, <1>3 DEF Seen
<1>5. \/ row.pack \notin Packs
      \/ \A r \in Runs : Seen(v, runs)[r] # NoRow /\ Seen(v, runs)[r].pack = row.pack =>
                           Seen(v, runs)[r].product # row.product
  BY DEF Seen
<1> HIDE DEF v
<1>6. Distinct(Seen(w, runs))
  BY <1>1, <1>4, <1>5, OneMoreIsDistinct
<1>7. QED  BY <1>6 DEF v, w

LEMMA FetchExistingOnce ==
  ASSUME PipelineInv, SeenOnce, \A g, h \in Handlers : g = h,
         NEW h \in Handlers, FetchExisting(h)
  PROVE  SeenOnce'
<1> DEFINE v == handlers[h]
           found == Existing(v, Head(v.todo), v.pack)
<1>1. v \in Handler /\ Sound(v, runs) /\ v.step = "existing" /\ UNCHANGED runs
  BY DEF PipelineInv, RequestsInv, RequestsTypeOK, FetchExisting
<1>2. CASE found # {}
  <2>1. PICK r \in found : handlers' = [handlers EXCEPT ![h] = Answered(v, r, v.staged[r])]
    BY <1>2 DEF FetchExisting
  <2>2. r \in Runs
    BY <2>1 DEF Existing
  <2>3. Answered(v, r, v.staged[r]).staged = v.staged
    BY <1>1, <2>2 DEF Answered, Handler
  <2>4. Distinct(Seen(Answered(v, r, v.staged[r]), runs))
    BY <2>3, NothingStaged
  <2>5. QED  BY <1>1, <2>1, <2>4, AloneStep
<1>3. CASE found = {}
  <2> DEFINE row == QueuedRun(Head(v.todo), v.pack, v.snapshot)
  <2>1. PICK n \in FreeIds : handlers' = [handlers EXCEPT ![h] = Answered(v, n, row)]
    BY <1>3 DEF FetchExisting
  <2>2. /\ v.snapshot \in Facts /\ v.pack \in Packs
        /\ v.todo \in Seq(Products) /\ v.todo # <<>>
    BY <1>1 DEF Sound, Handler
  <2>3. row \in RunRow
    BY <2>2, FirstAndRest, InsertedRows
  <2>4. row.product = Head(v.todo) /\ row.pack = v.pack
    BY DEF QueuedRun
  <2>5. ASSUME NEW r \in Runs, RowOf(v, runs, r) # NoRow, RowOf(v, runs, r).pack = v.pack
        PROVE  RowOf(v, runs, r).product # Head(v.todo)
    <3>1. RowOf(v, runs, r) \in {runs[r], v.staged[r]} \ {NoRow}
      BY <2>5 DEF RowOf
    <3>2. RowOf(v, runs, r).status \in OpenStatus
      BY <2>2, <2>5, <3>1, RowsAreOpen
    <3>3. r \notin found
      BY <1>3
    <3>4. QED  BY <2>5, <3>1, <3>2, <3>3 DEF Existing
  <2> HIDE DEF row
  <2>6. Distinct(Seen(Answered(v, n, row), runs))
    BY <2>3, <2>4, <2>5, RowStaged
  <2>7. QED  BY <1>1, <2>1, <2>6, AloneStep
<1>4. QED  BY <1>2, <1>3

LEMMA FetchPackOnce ==
  ASSUME PipelineInv, SeenOnce, \A g, h \in Handlers : g = h,
         NEW h \in Handlers, FetchPack(h)
  PROVE  SeenOnce'
<1> DEFINE v == handlers[h]
           pack == active[Market(v)]
<1>1. v \in Handler /\ Sound(v, runs) /\ v.step = "pack" /\ UNCHANGED runs
  BY DEF PipelineInv, RequestsInv, RequestsTypeOK, FetchPack
<1>2. CASE pack # NoPack
  <2> DEFINE w == [v EXCEPT !.step = "existing", !.pack = pack]
  <2>1. handlers' = [handlers EXCEPT ![h] = w]
    BY <1>2 DEF FetchPack, PipelineInv, RequestsInv, RequestsTypeOK
  <2>2. w.staged = v.staged
    BY <1>1 DEF Handler
  <2> HIDE DEF w
  <2>3. Distinct(Seen(w, runs))
    BY <2>2, NothingStaged
  <2>4. QED  BY <1>1, <2>1, <2>3, AloneStep
<1>3. CASE pack = NoPack
  <2> DEFINE row == BlockedRun(Head(v.todo), v.snapshot)
  <2>1. PICK n \in FreeIds : handlers' = [handlers EXCEPT ![h] = Answered(v, n, row)]
    BY <1>3 DEF FetchPack
  <2>2. v.snapshot \in Facts /\ v.todo \in Seq(Products) /\ v.todo # <<>>
    BY <1>1 DEF Sound, Handler
  <2>3. row \in RunRow /\ row.pack = NoPack
    <3>1. Head(v.todo) \in Products
      BY <2>2, FirstAndRest
    <3>2. QED  BY <2>2, <3>1 DEF BlockedRun, RunRow, TerminalStatus, DecidedStatus
  <2> HIDE DEF row
  <2>4. Distinct(Seen(Answered(v, n, row), runs))
    BY <2>3, RowStaged
  <2>5. QED  BY <1>1, <2>1, <2>4, AloneStep
<1>4. QED  BY <1>2, <1>3

(* The steps of a request that stage nothing: it begins, ends or reads.     *)
LEMMA OtherStepOnce ==
  ASSUME PipelineInv, SeenOnce, \A g, h \in Handlers : g = h,
         NEW h \in Handlers, Receive(h) \/ FetchProduct(h) \/ RequestFails(h)
  PROVE  SeenOnce'
<1> DEFINE v == handlers[h]
<1>1. v \in Handler /\ UNCHANGED runs
  BY DEF PipelineInv, RequestsInv, RequestsTypeOK, Receive, FetchProduct, RequestFails
<1>2. ASSUME NEW ids
      PROVE  \A r \in Runs :
               [IdleHandler EXCEPT !.step = "product", !.asked = ids, !.todo = ids].staged[r]
                 = NoRow
  BY DEF IdleHandler
<1>3. \A r \in Runs : IdleHandler.staged[r] = NoRow
  BY DEF IdleHandler
<1>4. ASSUME NEW f
      PROVE  [v EXCEPT !.step = "pack", !.snapshot = f].staged = v.staged
  BY <1>1 DEF Handler
<1>5. CASE Receive(h)
  <2>1. PICK ids : handlers' = [handlers EXCEPT
                     ![h] = [IdleHandler EXCEPT !.step = "product",
                                                !.asked = ids, !.todo = ids]]
    BY <1>5 DEF Receive
  <2>2. QED  BY <1>1, <1>2, <2>1, NothingStaged, AloneStep
<1>6. CASE handlers' = [handlers EXCEPT ![h] = IdleHandler]
  BY <1>1, <1>3, <1>6, NothingStaged, AloneStep
<1>7. CASE FetchProduct(h) /\ facts[Head(v.todo)] # NoFacts
  <2>1. handlers' = [handlers EXCEPT
          ![h] = [v EXCEPT !.step = "pack", !.snapshot = facts[Head(v.todo)]]]
    BY <1>7 DEF FetchProduct
  <2>2. QED  BY <1>1, <1>4, <2>1, NothingStaged, AloneStep
<1>8. QED  BY <1>5, <1>6, <1>7 DEF FetchProduct, RequestFails

LEMMA CommitOnce ==
  ASSUME PipelineInv, SeenOnce, \A g, h \in Handlers : g = h,
         NEW h \in Handlers, Commit(h)
  PROVE  SeenOnce'
<1> DEFINE v == handlers[h]
           w == [IdleHandler EXCEPT !.step = "replied", !.asked = v.asked, !.answers = v.answers]
<1>1. /\ handlers' = [handlers EXCEPT ![h] = w]
      /\ runs' = Seen(v, runs)
  BY DEF Commit, Seen, RowOf
<1>2. \A g \in Handlers : handlers'[g] = w
  BY <1>1 DEF PipelineInv, RequestsInv, RequestsTypeOK
<1>3. \A r \in Runs : w.staged[r] = NoRow
  BY DEF IdleHandler
<1> HIDE DEF w
<1>4. \A r \in Runs : Seen(w, runs')[r] = runs'[r]
  BY <1>3 DEF Seen, RowOf
<1>5. Distinct(runs')
  BY <1>1 DEF SeenOnce
<1>6. Distinct(Seen(w, runs'))
  BY <1>4, <1>5, StillDistinct
<1>7. QED  BY <1>2, <1>5, <1>6 DEF SeenOnce, OneRunPerPack, Distinct

LEMMA WorkerStepOnce ==
  ASSUME PipelineInv, SeenOnce, WorkerNext, UNCHANGED handlers
  PROVE  SeenOnce'
<1>1. Distinct(runs) => Distinct(runs')
  BY WorkerKeepsRow, StillDistinct DEF PipelineInv
<1>2. ASSUME NEW h \in Handlers PROVE Distinct(Seen(handlers[h], runs'))
  <2> DEFINE v == handlers[h]
  <2>1. \A r \in Runs : RowOf(v, runs', r) # NoRow =>
                          /\ RowOf(v, runs, r) # NoRow
                          /\ RowOf(v, runs', r).product = RowOf(v, runs, r).product
                          /\ RowOf(v, runs', r).pack = RowOf(v, runs, r).pack
    BY WorkerKeepsRow DEF RowOf, PipelineInv
  <2>2. Distinct(Seen(v, runs))
    BY DEF SeenOnce
  <2> HIDE DEF v
  <2>3. \A r \in Runs : Seen(v, runs')[r] # NoRow =>
                          /\ Seen(v, runs)[r] # NoRow
                          /\ Seen(v, runs')[r].product = Seen(v, runs)[r].product
                          /\ Seen(v, runs')[r].pack = Seen(v, runs)[r].pack
    BY <2>1 DEF Seen
  <2>4. Distinct(Seen(v, runs'))
    BY <2>2, <2>3, StillDistinct
  <2>5. QED  BY <2>4 DEF v
<1>3. Distinct(runs)
  BY DEF SeenOnce, OneRunPerPack, Distinct
<1>4. OneRunPerPack'
  BY <1>1, <1>3 DEF OneRunPerPack, Distinct
<1>5. QED  BY <1>2, <1>4 DEF SeenOnce

(* Where requests are served one at a time, a product has one run with a    *)
(* pack, however often it is asked for and whatever the workers do.         *)
THEOREM OneRunEach ==
  ASSUME \A g, h \in Handlers : g = h
  PROVE  PipelineSpec => []OneRunPerPack
<1>1. PipelineInit => SeenOnce
  <2> SUFFICES ASSUME PipelineInit PROVE SeenOnce
    OBVIOUS
  <2>1. \A r \in Runs : runs[r] # NoRow => runs[r].pack \notin Packs
    BY DEF PipelineInit, Init, QueuedRun
  <2>2. Distinct(runs)
    BY <2>1 DEF Distinct
  <2>3. ASSUME NEW h \in Handlers PROVE Distinct(Seen(handlers[h], runs))
    <3>1. \A r \in Runs : handlers[h].staged[r] = NoRow
      BY DEF PipelineInit, RequestsInit, IdleHandler
    <3>2. \A r \in Runs : Seen(handlers[h], runs)[r] = runs[r]
      BY <3>1 DEF Seen, RowOf
    <3>3. QED  BY <2>2, <3>2, StillDistinct
  <2>4. QED  BY <2>2, <2>3 DEF SeenOnce, OneRunPerPack, Distinct
<1>2. PipelineInv /\ SeenOnce /\ [PipelineNext]_pipelineVars => SeenOnce'
  <2> SUFFICES ASSUME PipelineInv, SeenOnce, [PipelineNext]_pipelineVars PROVE SeenOnce'
    OBVIOUS
  <2>1. CASE UNCHANGED <<runs, handlers>>
    BY <2>1 DEF SeenOnce, OneRunPerPack
  <2>2. CASE RequestsNext
    <3>1. ASSUME NEW h \in Handlers, Receive(h) \/ Serve(h) \/ RequestFails(h)
          PROVE  SeenOnce'
      BY <3>1, FetchExistingOnce, FetchPackOnce, OtherStepOnce, CommitOnce DEF Serve
    <3>2. CASE \/ \E p \in Products, f \in Facts : Import(p, f)
               \/ ActivatePack
      BY <2>1, <3>2 DEF Import, ActivatePack
    <3>3. QED  BY <2>2, <3>1, <3>2 DEF RequestsNext
  <2>3. CASE WorkerNext /\ UNCHANGED handlers
    BY <2>3, WorkerStepOnce
  <2>4. QED  BY <2>1, <2>2, <2>3 DEF PipelineNext, pipelineVars, requestVars
<1>3. SeenOnce => OneRunPerPack
  BY DEF SeenOnce
<1>4. QED  BY <1>1, <1>2, <1>3, PipelineAlways, PTL DEF PipelineSpec
=============================================================================
