---------------------------- MODULE RunRequests ----------------------------
(***************************************************************************)
(* POST /api/classifications/run: one READ COMMITTED transaction over the  *)
(* requested products.  For each it reads the product, then the pack that  *)
(* is active where the product is sold, then the runs already made for the *)
(* product with that pack, and answers with one of those or inserts a run  *)
(* and its job.  Imports and activations commit between these reads.       *)
(*                                                                         *)
(* A product's facts include the jurisdiction it is sold in; NoFacts is a  *)
(* product that is missing, archived or not ready.                         *)
(***************************************************************************)
EXTENDS ClassificationStore, Sequences

CONSTANTS Jurisdictions,
          JurisdictionOf,  \* [Packs -> Jurisdictions]
          MarketOf,        \* [Facts -> Jurisdictions]
          NoFacts,
          Handlers,        \* requests served at the same time
          RequestLimit     \* products in one request

ASSUME RequestsAssumption ==
  /\ JurisdictionOf \in [Packs -> Jurisdictions]
  /\ MarketOf \in [Facts -> Jurisdictions]
  /\ NoFacts \notin Facts
  /\ RequestLimit \in Nat

VARIABLES facts,     \* the products table: current facts of each product
          active,    \* the active pack of each jurisdiction
          handlers   \* each request's transaction and reply

requestVars == <<facts, active, runs, jobs, handlers>>

(* staged: the rows the transaction has inserted; answers: the runs its    *)
(* reply will name.                                                        *)
Handler == [step : {"idle", "product", "pack", "existing", "commit", "replied"},
            asked : Seq(Products), todo : Seq(Products),
            snapshot : Facts \cup {NoFacts}, pack : Packs \cup {NoPack},
            staged : [Runs -> RunRow \cup {NoRow}], answers : SUBSET Runs]

IdleHandler == [step |-> "idle", asked |-> <<>>, todo |-> <<>>,
                snapshot |-> NoFacts, pack |-> NoPack,
                staged |-> [r \in Runs |-> NoRow], answers |-> {}]

RequestsTypeOK ==
  /\ facts \in [Products -> Facts \cup {NoFacts}]
  /\ active \in [Jurisdictions -> Packs \cup {NoPack}]
  /\ runs \in [Runs -> RunRow \cup {NoRow}]
  /\ jobs \in [Runs -> JobRow \cup {NoRow}]
  /\ handlers \in [Handlers -> Handler]

RequestsInit ==
  /\ facts = [p \in Products |-> NoFacts]
  /\ active = [j \in Jurisdictions |-> NoPack]
  /\ handlers = [h \in Handlers |-> IdleHandler]

-----------------------------------------------------------------------------
(* The rest of the system, as the requests see it.                         *)

Packs_ == INSTANCE ActivePack

ActivatePack == Packs_!Next /\ UNCHANGED <<facts, runs, jobs, handlers>>

(* An import writes complete facts or rejects the row.                     *)
Import(p, f) ==
  /\ facts' = [facts EXCEPT ![p] = f]
  /\ UNCHANGED <<active, runs, jobs, handlers>>

-----------------------------------------------------------------------------
(* validate_run_request has accepted the ids; a product may occur twice.   *)
Receive(h) ==
  /\ handlers[h].step \in {"idle", "replied"}
  /\ \E n \in 1..RequestLimit : \E ids \in [1..n -> Products] :
       handlers' = [handlers EXCEPT
                      ![h] = [IdleHandler EXCEPT !.step = "product",
                                                 !.asked = ids, !.todo = ids]]
  /\ UNCHANGED <<facts, active, runs, jobs>>

(* Mutant: a product that is not ready is left out of the request.         *)
FetchOrSkip(h) ==
  LET w == handlers[h] IN
  /\ w.step = "product"
  /\ handlers' = [handlers EXCEPT
                    ![h] = IF facts[Head(w.todo)] # NoFacts
                           THEN [w EXCEPT !.step = "pack", !.snapshot = facts[Head(w.todo)]]
                           ELSE [w EXCEPT !.step = IF Len(w.todo) = 1 THEN "commit" ELSE @,
                                          !.todo = Tail(w.todo)]]
  /\ UNCHANGED <<facts, active, runs, jobs>>

(* fetch_ready_product: a product that is not ready ends the request and   *)
(* rolls back what it has inserted for the others.                         *)
FetchProduct(h) ==
  LET w == handlers[h] IN
  /\ w.step = "product"
  /\ handlers' = [handlers EXCEPT
                    ![h] = IF facts[Head(w.todo)] = NoFacts THEN IdleHandler
                           ELSE [w EXCEPT !.step = "pack",
                                          !.snapshot = facts[Head(w.todo)]]]
  /\ UNCHANGED <<facts, active, runs, jobs>>

(* The first product is answered by run r, with row as its new staged row. *)
Answered(w, r, row) ==
  [w EXCEPT !.step = IF Len(w.todo) = 1 THEN "commit" ELSE "product",
            !.todo = Tail(w.todo), !.snapshot = NoFacts, !.pack = NoPack,
            !.staged = [w.staged EXCEPT ![r] = row], !.answers = w.answers \cup {r}]

(* gen_random_uuid: an id no committed or staged row has.                  *)
FreeIds == {r \in Runs : runs[r] = NoRow /\ \A h \in Handlers : handlers[h].staged[r] = NoRow}

(* Mutant: the jurisdiction is read from the product again.                *)
Reread(w) == IF facts[Head(w.todo)] = NoFacts THEN MarketOf[w.snapshot]
             ELSE MarketOf[facts[Head(w.todo)]]

Market(w) == MarketOf[w.snapshot]

(* Mutant: the request goes on without a pack and queues the run.          *)
QueueWithoutPack(h) ==
  LET w == handlers[h] IN
  /\ w.step = "pack"
  /\ handlers' = [handlers EXCEPT ![h].step = "existing", ![h].pack = active[Market(w)]]
  /\ UNCHANGED <<facts, active, runs, jobs>>

(* fetch_active_pack; without a pack a blocked run is inserted.            *)
FetchPack(h) ==
  LET w == handlers[h]
      pack == active[Market(w)] IN
  /\ w.step = "pack"
  /\ \/ /\ pack # NoPack
        /\ handlers' = [handlers EXCEPT ![h].step = "existing", ![h].pack = pack]
     \/ /\ pack = NoPack
        /\ \E r \in FreeIds :
             handlers' = [handlers EXCEPT
                            ![h] = Answered(w, r, BlockedRun(Head(w.todo), w.snapshot))]
  /\ UNCHANGED <<facts, active, runs, jobs>>

(* The runs of a product with a pack that fetch_existing_run finds: what   *)
(* is committed, and what this transaction has inserted itself.            *)
OpenStatus == {"queued", "running", "classified", "needs_review", "blocked"}

(* Mutant: the look-up runs on the pool and misses the request's own rows. *)
ExistingCommitted(w, product, pack) ==
  {r \in Runs :
     /\ runs[r] # NoRow
     /\ runs[r].product = product /\ runs[r].pack = pack /\ runs[r].status \in OpenStatus}

Existing(w, product, pack) ==
  {r \in Runs :
     \E row \in {runs[r], w.staged[r]} \ {NoRow} :
       row.product = product /\ row.pack = pack /\ row.status \in OpenStatus}

(* Mutant: the run is inserted on the pool, outside the transaction.       *)
InsertOnPool(h) ==
  LET w == handlers[h]
      existing == Existing(w, Head(w.todo), w.pack) IN
  /\ w.step = "existing"
  /\ IF existing # {}
     THEN /\ \E r \in existing :
               handlers' = [handlers EXCEPT ![h] = Answered(w, r, w.staged[r])]
          /\ UNCHANGED runs
     ELSE \E r \in FreeIds :
            LET row == QueuedRun(Head(w.todo), w.pack, w.snapshot) IN
            /\ handlers' = [handlers EXCEPT ![h] = Answered(w, r, row)]
            /\ runs' = [runs EXCEPT ![r] = row]
  /\ UNCHANGED <<facts, active, jobs>>

(* Mutant: the request keeps a copy of the run it found and writes it back. *)
FetchAndRestage(h) ==
  LET w == handlers[h]
      existing == Existing(w, Head(w.todo), w.pack) IN
  /\ w.step = "existing"
  /\ handlers' \in
       IF existing # {}
       THEN {[handlers EXCEPT ![h] = Answered(w, r, runs[r])] : r \in existing}
       ELSE {[handlers EXCEPT
                ![h] = Answered(w, r, QueuedRun(Head(w.todo), w.pack, w.snapshot))] :
             r \in FreeIds}
  /\ UNCHANGED <<facts, active, runs, jobs>>

(* An existing run is the answer whatever facts it was made with; of       *)
(* several, the newest (which is left open here).  Otherwise a queued run  *)
(* is inserted, and its job with the same pack and facts.                  *)
FetchExisting(h) ==
  LET w == handlers[h]
      existing == Existing(w, Head(w.todo), w.pack) IN
  /\ w.step = "existing"
  /\ handlers' \in
       IF existing # {}
       THEN {[handlers EXCEPT ![h] = Answered(w, r, w.staged[r])] : r \in existing}
       ELSE {[handlers EXCEPT
                ![h] = Answered(w, r, QueuedRun(Head(w.todo), w.pack, w.snapshot))] :
             r \in FreeIds}
  /\ UNCHANGED <<facts, active, runs, jobs>>

(* Mutant: the job is only inserted for the last product of the request.   *)
CommitOneJob(h) ==
  LET w == handlers[h]
      queued == {r \in Runs : w.staged[r] # NoRow /\ w.staged[r].status = "queued"} IN
  /\ w.step = "commit"
  /\ runs' = [r \in Runs |-> IF w.staged[r] = NoRow THEN runs[r] ELSE w.staged[r]]
  /\ jobs' = [r \in Runs |->
                IF r \in queued /\ w.staged[r].product = w.asked[Len(w.asked)]
                THEN QueuedJob(w.staged[r].pack, w.staged[r].facts)
                ELSE jobs[r]]
  /\ handlers' = [handlers EXCEPT ![h] = [IdleHandler EXCEPT !.step = "replied",
                                            !.asked = w.asked, !.answers = w.answers]]
  /\ UNCHANGED <<facts, active>>

Commit(h) ==
  LET w == handlers[h] IN
  /\ w.step = "commit"
  /\ runs' = [r \in Runs |-> IF w.staged[r] = NoRow THEN runs[r] ELSE w.staged[r]]
  /\ jobs' = [r \in Runs |->
                IF w.staged[r] # NoRow /\ w.staged[r].status = "queued"
                THEN QueuedJob(w.staged[r].pack, w.staged[r].facts)
                ELSE jobs[r]]
  /\ handlers' = [handlers EXCEPT ![h] = [IdleHandler EXCEPT !.step = "replied",
                                            !.asked = w.asked, !.answers = w.answers]]
  /\ UNCHANGED <<facts, active>>

(* A statement fails or the client goes away: the transaction is dropped.  *)
RequestFails(h) ==
  /\ handlers[h].step \notin {"idle", "replied"}
  /\ handlers' = [handlers EXCEPT ![h] = IdleHandler]
  /\ UNCHANGED <<facts, active, runs, jobs>>

-----------------------------------------------------------------------------
Serve(h) ==
  FetchProduct(h) \/ FetchPack(h) \/ FetchExisting(h) \/ Commit(h)

RequestsNext ==
  \/ \E h \in Handlers : Receive(h) \/ Serve(h) \/ RequestFails(h)
  \/ \E p \in Products, f \in Facts : Import(p, f)
  \/ ActivatePack

EmptyTables ==
  /\ runs = [r \in Runs |-> NoRow]
  /\ jobs = [r \in Runs |-> NoRow]

NothingRequested == RequestsInit /\ EmptyTables

RequestsSpec == NothingRequested /\ [][RequestsNext]_requestVars

-----------------------------------------------------------------------------
(* A queued run always has its job, with the same pack and facts: a        *)
(* request that is refused or fails halfway leaves no run that no worker   *)
(* will ever see.                                                          *)
QueuedRunHasJob ==
  \A r \in Runs :
    (runs[r] # NoRow /\ runs[r].status = "queued") =>
      /\ jobs[r] # NoRow
      /\ jobs[r].pack = runs[r].pack
      /\ jobs[r].facts = runs[r].facts

(* A run is never judged by the pack of a jurisdiction its frozen facts    *)
(* are not about, though an import may move the product to another         *)
(* jurisdiction between the two reads of a request.                        *)
PackFitsFacts ==
  \A r \in Runs :
    (runs[r] # NoRow /\ runs[r].pack \in Packs) =>
      JurisdictionOf[runs[r].pack] = MarketOf[runs[r].facts]

(* A reply "created" names a committed run for each requested product and  *)
(* nothing else.                                                           *)
RepliesHold ==
  \A h \in Handlers :
    LET w == handlers[h] IN
    w.step = "replied" =>
      /\ \A r \in w.answers : runs[r] # NoRow
      /\ {runs[r].product : r \in w.answers} = {w.asked[i] : i \in DOMAIN w.asked}

(* A product has at most one run with a pack, however often it is asked    *)
(* for, in one request or in many.  This is what fetch_existing_run is     *)
(* for; it takes requests that are served one at a time.                   *)
OneRunPerPack ==
  \A r, q \in Runs :
    (/\ runs[r] # NoRow /\ runs[q] # NoRow
     /\ runs[r].product = runs[q].product
     /\ runs[r].pack = runs[q].pack /\ runs[r].pack \in Packs) => r = q
=============================================================================
