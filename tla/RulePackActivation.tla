------------------------- MODULE RulePackActivation -------------------------
(***************************************************************************)
(* The life of rule pack rows: upload, validation, and the activation      *)
(* transaction with its row locks, its READ COMMITTED statements and the   *)
(* partial unique index on the active packs of a jurisdiction.  packs is   *)
(* what other transactions see; what a session has written and not yet     *)
(* committed is in its record.                                             *)
(*                                                                         *)
(* A pack's stored validation report is reduced to whether it passes the   *)
(* activation gate.  Passes says which packs' sources do when validated;   *)
(* Seeded holds the packs the setup command inserts as active, with a      *)
(* report of its own making.                                               *)
(***************************************************************************)
EXTENDS Naturals, FiniteSets

CONSTANTS Packs, Jurisdictions,
          JurisdictionOf,  \* [Packs -> Jurisdictions]
          Passes,          \* [Packs -> BOOLEAN]
          Seeded,
          Sessions,        \* connections that run the activation handler
          NoPack, NoSession

ASSUME ActivationAssumption ==
  /\ JurisdictionOf \in [Packs -> Jurisdictions]
  /\ Passes \in [Packs -> BOOLEAN]
  /\ Seeded \subseteq Packs
  /\ \A k, m \in Seeded : JurisdictionOf[k] = JurisdictionOf[m] => k = m
  /\ NoPack \notin Packs
  /\ NoSession \notin Sessions

VARIABLES packs,    \* the committed rows of rule_packs
          lock,     \* which session holds the write lock of a row
          sessions

vars == <<packs, lock, sessions>>

PackRow == [status : {"absent", "draft", "active", "retired"}, certified : BOOLEAN]

(* found: rows the retiring statement still has to visit; retired: rows it *)
(* has updated.                                                            *)
Session == [step : {"idle", "lock", "retire", "visit", "commit", "rollback"},
            pack : Packs \cup {NoPack}, found : SUBSET Packs, retired : SUBSET Packs]

IdleSession == [step |-> "idle", pack |-> NoPack, found |-> {}, retired |-> {}]

TypeOK ==
  /\ packs \in [Packs -> PackRow]
  /\ lock \in [Packs -> Sessions \cup {NoSession}]
  /\ sessions \in [Sessions -> Session]

Init ==
  /\ packs = [k \in Packs |-> IF k \in Seeded
                              THEN [status |-> "active", certified |-> TRUE]
                              ELSE [status |-> "absent", certified |-> FALSE]]
  /\ lock = [k \in Packs |-> NoSession]
  /\ sessions = [s \in Sessions |-> IdleSession]

(* upload_rule_pack validates the source and stores report and draft.      *)
Upload(k) ==
  /\ packs[k].status = "absent"
  /\ packs' = [packs EXCEPT ![k] = [status |-> "draft", certified |-> Passes[k]]]
  /\ UNCHANGED <<lock, sessions>>

(* Mutant: the trigger that keeps active packs immutable is missing.       *)
ValidateAnyRow(k) ==
  /\ packs[k].status # "absent"
  /\ lock[k] = NoSession
  /\ packs' = [packs EXCEPT ![k].certified = Passes[k]]
  /\ UNCHANGED <<lock, sessions>>

(* validate_rule_pack recomputes the report from the immutable source; its *)
(* UPDATE waits for the row.  On an active pack the trigger refuses any    *)
(* other report than the stored one, so that nothing changes.              *)
Validate(k) ==
  /\ packs[k].status \notin {"absent", "active"}
  /\ lock[k] = NoSession
  /\ packs' = [packs EXCEPT ![k].certified = Passes[k]]
  /\ UNCHANGED <<lock, sessions>>

-----------------------------------------------------------------------------
(* The activation handler.                                                 *)

(* Mutant: the retiring UPDATE forgets its condition on the jurisdiction.  *)
OthersAnywhere(k) == Packs \ {k}

Others(k) == {m \in Packs \ {k} : JurisdictionOf[m] = JurisdictionOf[k]}

Begin(s, k) ==
  /\ sessions[s].step = "idle"
  /\ packs[k].status # "absent"
  /\ sessions' = [sessions EXCEPT ![s].step = "lock", ![s].pack = k]
  /\ UNCHANGED <<packs, lock>>

(* locked_rule_pack and enforce_activation_report.                         *)
LockRow(s) ==
  LET k == sessions[s].pack IN
  /\ sessions[s].step = "lock"
  /\ lock[k] = NoSession
  /\ lock' = [lock EXCEPT ![k] = s]
  /\ sessions' = [sessions EXCEPT
                    ![s].step = IF packs[k].certified THEN "retire" ELSE "rollback"]
  /\ UNCHANGED packs

(* retire_active_packs: the statement's snapshot finds the rows to update. *)
FindActive(s) ==
  /\ sessions[s].step = "retire"
  /\ sessions' = [sessions EXCEPT
                    ![s].step = "visit",
                    ![s].found = {m \in Others(sessions[s].pack) :
                                    packs[m].status = "active"}]
  /\ UNCHANGED <<packs, lock>>

(* Mutant: the statement runs on the pool instead of the transaction.      *)
RetireCommitted(s, m) ==
  /\ sessions[s].step = "visit"
  /\ m \in sessions[s].found
  /\ lock[m] = NoSession
  /\ packs' = [packs EXCEPT ![m].status = "retired"]
  /\ sessions' = [sessions EXCEPT ![s].found = @ \ {m}]
  /\ UNCHANGED lock

(* The statement waits for a row's lock, looks at the row again and leaves *)
(* it alone when it is no longer active; the lock is kept either way.      *)
RetireRow(s, m) ==
  /\ sessions[s].step = "visit"
  /\ m \in sessions[s].found
  /\ lock[m] = NoSession
  /\ lock' = [lock EXCEPT ![m] = s]
  /\ sessions' = [sessions EXCEPT
                    ![s].found = @ \ {m},
                    ![s].retired = IF packs[m].status = "active" THEN @ \cup {m} ELSE @]
  /\ UNCHANGED packs

(* activate_locked_pack checks the unique index.  A rival entry that an    *)
(* unfinished transaction is removing or adding makes it wait.             *)
Rivals(s) ==
  {m \in Others(sessions[s].pack) :
     packs[m].status = "active" /\ m \notin sessions[s].retired}

(* Mutant: the index check does not wait for unfinished transactions.      *)
DecidedAtOnce(s) == FALSE

Undecided(s) ==
  \E t \in Sessions \ {s} :
    \/ sessions[t].retired \cap Rivals(s) # {}
    \/ sessions[t].step = "commit" /\ sessions[t].pack \in Others(sessions[s].pack)

Promote(s) ==
  /\ sessions[s].step = "visit"
  /\ sessions[s].found = {}
  /\ ~Undecided(s)
  /\ sessions' = [sessions EXCEPT
                    ![s].step = IF Rivals(s) = {} THEN "commit" ELSE "rollback"]
  /\ UNCHANGED <<packs, lock>>

Released(s) == [k \in Packs |-> IF lock[k] = s THEN NoSession ELSE lock[k]]

Commit(s) ==
  /\ sessions[s].step = "commit"
  /\ packs' = [k \in Packs |->
                 IF k \in sessions[s].retired THEN [packs[k] EXCEPT !.status = "retired"]
                 ELSE IF k = sessions[s].pack THEN [packs[k] EXCEPT !.status = "active"]
                 ELSE packs[k]]
  /\ lock' = Released(s)
  /\ sessions' = [sessions EXCEPT ![s] = IdleSession]

(* Mutant: the connection goes back to the pool with its transaction open. *)
ReturnOpen(s) ==
  /\ sessions[s].step = "rollback"
  /\ sessions' = [sessions EXCEPT ![s] = IdleSession]
  /\ UNCHANGED <<packs, lock>>

(* An early return drops the transaction.                                  *)
Rollback(s) ==
  /\ sessions[s].step = "rollback"
  /\ lock' = Released(s)
  /\ sessions' = [sessions EXCEPT ![s] = IdleSession]
  /\ UNCHANGED packs

(* A statement fails or the connection is lost.                            *)
StatementFails(s) ==
  /\ sessions[s].step \notin {"idle", "rollback"}
  /\ sessions' = [sessions EXCEPT ![s].step = "rollback"]
  /\ UNCHANGED <<packs, lock>>

-----------------------------------------------------------------------------
Advance(s) ==
  \/ LockRow(s) \/ FindActive(s) \/ Promote(s) \/ Commit(s) \/ Rollback(s)
  \/ \E m \in Packs : RetireRow(s, m)

Next ==
  \/ \E k \in Packs : Upload(k) \/ Validate(k)
  \/ \E s \in Sessions : \/ Advance(s) \/ StatementFails(s)
                         \/ \E k \in Packs : Begin(s, k)

Spec == Init /\ [][Next]_vars

(* A handler runs until it has to wait, and PostgreSQL grants a row lock   *)
(* or an index entry to those who wait for it in turn: nobody starves.     *)
FairSpec == Spec /\ \A s \in Sessions : SF_vars(Advance(s))

-----------------------------------------------------------------------------
ActiveIn(j) == {k \in Packs : JurisdictionOf[k] = j /\ packs[k].status = "active"}

(* Concurrent activations never leave two active packs in a jurisdiction,  *)
(* although each retires only what its own snapshot saw as active.         *)
OneActivePerJurisdiction ==
  \A k, m \in Packs :
    (/\ packs[k].status = "active"
     /\ packs[m].status = "active"
     /\ JurisdictionOf[k] = JurisdictionOf[m]) => k = m

(* The stored report of an active pack passes the activation gate: nothing *)
(* changes it between the check and the activation, nor afterwards.        *)
ActiveIsCertified ==
  \A k \in Packs : packs[k].status = "active" => packs[k].certified

(* A session past its first statement holds the row of its pack, whose     *)
(* report still passes, and the rows it has retired, which are all still   *)
(* active for everyone else.                                               *)
WritersHoldLocks ==
  \A s \in Sessions :
    LET w == sessions[s] IN
    /\ w.step # "idle" => w.pack \in Packs /\ packs[w.pack].status # "absent"
    /\ w.step = "idle" => w.found = {} /\ w.retired = {}
    /\ \A m \in w.found : m \in Others(w.pack)
    /\ w.step \in {"retire", "visit", "commit"} =>
         lock[w.pack] = s /\ packs[w.pack].certified
    /\ \A m \in w.retired :
         lock[m] = s /\ m \in Others(w.pack) /\ packs[m].status = "active"

(* A session about to commit has retired every rival, and no other session *)
(* is about to commit in its jurisdiction.                                 *)
CommitIsExclusive ==
  \A s \in Sessions :
    sessions[s].step = "commit" =>
      /\ Rivals(s) = {}
      /\ \A t \in Sessions \ {s} :
           sessions[t].step = "commit" => sessions[t].pack \notin Others(sessions[s].pack)

(* The inductive invariant the theorems rest on.                           *)
Inv ==
  /\ TypeOK
  /\ WritersHoldLocks
  /\ CommitIsExclusive
  /\ OneActivePerJurisdiction
  /\ ActiveIsCertified

(* No request ever finds a jurisdiction without a pack once it had one,    *)
(* whatever activations run, are refused, or break off.                    *)
NeverUncovered ==
  [][\A j \in Jurisdictions : ActiveIn(j) # {} => ActiveIn(j)' # {}]_vars

(* Every activation request ends: the row locks and the index waits never  *)
(* form a cycle and no refused request leaves a lock behind.               *)
ActivationsEnd == \A s \in Sessions : sessions[s].step # "idle" ~> sessions[s].step = "idle"

FirstOf(S) == IF S = {} THEN NoPack ELSE CHOOSE k \in S : TRUE

(* fetch_active_pack, which orders by date and takes the first.            *)
ActivePackOf(j) == FirstOf(ActiveIn(j))

(* The rows implement the one-active-pack register.                        *)
Register == INSTANCE ActivePack WITH active <- [j \in Jurisdictions |-> ActivePackOf(j)]
ImplementsActivePack == Register!Spec
=============================================================================
