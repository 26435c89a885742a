---------------------- MODULE RulePackActivation_proofs ----------------------
(***************************************************************************)
(* Rule pack activation, for any packs, jurisdictions and number of        *)
(* concurrent sessions.  One active pack per jurisdiction is not inductive *)
(* by itself: it needs that a session about to commit has seen every rival *)
(* retired and has no competitor, which in turn rests on the row locks.    *)
(***************************************************************************)
EXTENDS RulePackActivation, TLAPS

USE ActivationAssumption

(* Nothing is active twice and nobody holds a lock when the engine starts. *)
LEMMA InitInv == Init => Inv
<1> SUFFICES ASSUME Init  PROVE Inv
  OBVIOUS
<1>1. TypeOK
  BY DEF Init, TypeOK, PackRow, Session, IdleSession
<1>2. WritersHoldLocks /\ CommitIsExclusive
  BY DEF Init, WritersHoldLocks, CommitIsExclusive, IdleSession
<1>3. OneActivePerJurisdiction /\ ActiveIsCertified
  BY DEF Init, OneActivePerJurisdiction, ActiveIsCertified
<1> QED  BY <1>1, <1>2, <1>3 DEF Inv

(* Steps of the uncommitted part of a session: other sessions, the rows    *)
(* and the locks of others stay as they are, so only what is said of the   *)
(* session itself has to be shown.                                         *)
LEMMA OwnStep ==
  ASSUME Inv, TypeOK', NEW s \in Sessions,
         UNCHANGED packs,
         \A t \in Sessions \ {s} : sessions'[t] = sessions[t],
         \A m \in Packs : lock[m] \in Sessions \ {s} => lock'[m] = lock[m],
         sessions'[s].step # "idle" =>
           sessions'[s].pack \in Packs /\ packs[sessions'[s].pack].status # "absent",
         sessions'[s].step = "idle" => sessions'[s].found = {} /\ sessions'[s].retired = {},
         \A m \in sessions'[s].found : m \in Others(sessions'[s].pack),
         sessions'[s].step \in {"retire", "visit", "commit"} =>
           lock'[sessions'[s].pack] = s /\ packs[sessions'[s].pack].certified,
         \A m \in sessions'[s].retired :
           lock'[m] = s /\ m \in Others(sessions'[s].pack) /\ packs[m].status = "active",
         sessions'[s].step = "commit" =>
           /\ Rivals(s)' = {}
           /\ \A t \in Sessions \ {s} :
                sessions[t].step = "commit" =>
                  /\ sessions[t].pack \notin Others(sessions'[s].pack)
                  /\ sessions'[s].pack \notin Others(sessions[t].pack)
  PROVE  Inv'
<1>1. WritersHoldLocks'
  <2> SUFFICES ASSUME NEW t \in Sessions
               PROVE  /\ sessions'[t].step # "idle" =>
                           sessions'[t].pack \in Packs /\ packs'[sessions'[t].pack].status # "absent"
                      /\ sessions'[t].step = "idle" =>
                           sessions'[t].found = {} /\ sessions'[t].retired = {}
                      /\ \A m \in sessions'[t].found : m \in Others(sessions'[t].pack)
                      /\ sessions'[t].step \in {"retire", "visit", "commit"} =>
                           lock'[sessions'[t].pack] = t /\ packs'[sessions'[t].pack].certified
                      /\ \A m \in sessions'[t].retired :
                           /\ lock'[m] = t
                           /\ m \in Others(sessions'[t].pack)
                           /\ packs'[m].status = "active"
    BY DEF WritersHoldLocks, Others
  <2>1. CASE t = s
    BY <2>1
  <2>2. CASE t # s
    <3>1. sessions'[t] = sessions[t] /\ sessions[t] \in Session
      BY <2>2 DEF Inv, TypeOK
    <3>2. \A m \in Packs : lock[m] = t => lock'[m] = t
      BY <2>2
    <3> QED  BY <3>1, <3>2 DEF Inv, WritersHoldLocks, Session
  <2> QED  BY <2>1, <2>2
<1>2. CommitIsExclusive'
  <2> SUFFICES ASSUME NEW t \in Sessions, sessions'[t].step = "commit"
               PROVE  /\ Rivals(t)' = {}
                      /\ \A u \in Sessions \ {t} :
                           sessions'[u].step = "commit" =>
                             sessions'[u].pack \notin Others(sessions'[t].pack)
    BY DEF CommitIsExclusive, Others
  <2>1. CASE t = s
    BY <2>1
  <2>2. CASE t # s
    <3>1. sessions'[t] = sessions[t]
      BY <2>2
    <3>2. Rivals(t)' = {}
      BY <3>1 DEF Inv, CommitIsExclusive, Rivals, Others
    <3>3. ASSUME NEW u \in Sessions \ {t}, sessions'[u].step = "commit"
          PROVE  sessions'[u].pack \notin Others(sessions'[t].pack)
      <4>1. CASE u = s
        BY <4>1, <3>1, <3>3, <2>2
      <4>2. CASE u # s
        BY <4>2, <3>1, <3>3 DEF Inv, CommitIsExclusive
      <4> QED  BY <4>1, <4>2
    <3> QED  BY <3>2, <3>3
  <2> QED  BY <2>1, <2>2
<1>3. OneActivePerJurisdiction' /\ ActiveIsCertified'
  BY DEF Inv, OneActivePerJurisdiction, ActiveIsCertified
<1> QED  BY <1>1, <1>2, <1>3 DEF Inv


-----------------------------------------------------------------------------
LEMMA UploadInv == ASSUME Inv, NEW k \in Packs, Upload(k)  PROVE Inv'
<1>1. packs[k].status = "absent" /\ UNCHANGED <<lock, sessions>>
  BY DEF Upload
<1>2. \A m \in Packs : m # k => packs'[m] = packs[m]
  BY DEF Upload, Inv, TypeOK
<1>3. packs'[k].status = "draft"
  BY DEF Upload, Inv, TypeOK
<1>4. TypeOK'
  <2>1. [status |-> "draft", certified |-> Passes[k]] \in PackRow
    BY DEF PackRow
  <2> QED  BY <1>1, <2>1 DEF Upload, Inv, TypeOK
<1>5. WritersHoldLocks'
  <2> SUFFICES ASSUME NEW s \in Sessions
               PROVE  /\ sessions[s].step # "idle" =>
                           sessions[s].pack \in Packs /\ packs'[sessions[s].pack].status # "absent"
                      /\ sessions[s].step = "idle" =>
                           sessions[s].found = {} /\ sessions[s].retired = {}
                      /\ \A m \in sessions[s].found : m \in Others(sessions[s].pack)
                      /\ sessions[s].step \in {"retire", "visit", "commit"} =>
                           lock[sessions[s].pack] = s /\ packs'[sessions[s].pack].certified
                      /\ \A m \in sessions[s].retired :
                           /\ lock[m] = s
                           /\ m \in Others(sessions[s].pack)
                           /\ packs'[m].status = "active"
    BY <1>1 DEF WritersHoldLocks, Others
  <2>1. sessions[s].step # "idle" => sessions[s].pack \in Packs /\ sessions[s].pack # k
    BY <1>1 DEF Inv, WritersHoldLocks
  <2>2. \A m \in sessions[s].retired : m \in Packs /\ m # k
    BY <1>1 DEF Inv, WritersHoldLocks, Others
  <2> QED  BY <1>1, <1>2, <2>1, <2>2 DEF Inv, WritersHoldLocks
<1>6. CommitIsExclusive'
  <2>1. \A s \in Sessions : Rivals(s)' \subseteq Rivals(s)
    BY <1>1, <1>2, <1>3 DEF Rivals, Others
  <2> QED  BY <1>1, <2>1 DEF Inv, CommitIsExclusive, Others
<1>7. OneActivePerJurisdiction' /\ ActiveIsCertified'
  BY <1>1, <1>2, <1>3 DEF Inv, OneActivePerJurisdiction, ActiveIsCertified
<1> QED  BY <1>4, <1>5, <1>6, <1>7 DEF Inv

LEMMA ValidateInv == ASSUME Inv, NEW k \in Packs, Validate(k)  PROVE Inv'
<1>1. UNCHANGED <<lock, sessions>> /\ lock[k] = NoSession /\ packs[k].status # "active"
  BY DEF Validate
<1>2. \A m \in Packs : m # k => packs'[m] = packs[m]
  BY DEF Validate, Inv, TypeOK
<1>3. packs'[k].status = packs[k].status
  BY DEF Validate, Inv, TypeOK
<1>4. TypeOK'
  <2>1. Passes[k] \in BOOLEAN
    OBVIOUS
  <2>2. \A row \in PackRow, b \in BOOLEAN : [row EXCEPT !.certified = b] \in PackRow
    BY DEF PackRow
  <2>3. [packs[k] EXCEPT !.certified = Passes[k]] \in PackRow
    BY <2>1, <2>2 DEF Inv, TypeOK
  <2> QED  BY <1>1, <2>3 DEF Validate, Inv, TypeOK
<1>5. WritersHoldLocks'
  <2> SUFFICES ASSUME NEW s \in Sessions
               PROVE  /\ sessions[s].step # "idle" =>
                           sessions[s].pack \in Packs /\ packs'[sessions[s].pack].status # "absent"
                      /\ sessions[s].step = "idle" =>
                           sessions[s].found = {} /\ sessions[s].retired = {}
                      /\ \A m \in sessions[s].found : m \in Others(sessions[s].pack)
                      /\ sessions[s].step \in {"retire", "visit", "commit"} =>
                           lock[sessions[s].pack] = s /\ packs'[sessions[s].pack].certified
                      /\ \A m \in sessions[s].retired :
                           /\ lock[m] = s
                           /\ m \in Others(sessions[s].pack)
                           /\ packs'[m].status = "active"
    BY <1>1 DEF WritersHoldLocks, Others
  <2>1. sessions[s].step \in {"retire", "visit", "commit"} => sessions[s].pack # k
    BY <1>1 DEF Inv, WritersHoldLocks
  <2>2. \A m \in sessions[s].retired : m \in Packs
    BY DEF Inv, WritersHoldLocks, Others
  <2> QED  BY <1>1, <1>2, <1>3, <2>1, <2>2 DEF Inv, WritersHoldLocks
<1>6. CommitIsExclusive'
  <2>1. \A s \in Sessions : Rivals(s)' = Rivals(s)
    BY <1>1, <1>2, <1>3 DEF Rivals, Others
  <2> QED  BY <1>1, <2>1 DEF Inv, CommitIsExclusive, Others
<1>7. OneActivePerJurisdiction' /\ ActiveIsCertified'
  BY <1>1, <1>2, <1>3 DEF Inv, OneActivePerJurisdiction, ActiveIsCertified
<1> QED  BY <1>4, <1>5, <1>6, <1>7 DEF Inv

-----------------------------------------------------------------------------
(* One session moves; its new record is all that changes in sessions.      *)
LEMMA SessionStep ==
  ASSUME TypeOK, UNCHANGED packs, NEW s \in Sessions,
         NEW w \in Session, sessions' = [sessions EXCEPT ![s] = w],
         lock' \in [Packs -> Sessions \cup {NoSession}]
  PROVE  /\ TypeOK'
         /\ sessions'[s] = w
         /\ \A t \in Sessions \ {s} : sessions'[t] = sessions[t]
  BY DEF TypeOK

LEMMA BeginInv == ASSUME Inv, NEW s \in Sessions, NEW k \in Packs, Begin(s, k)  PROVE Inv'
<1> DEFINE w == [sessions[s] EXCEPT !.step = "lock", !.pack = k]
<1>1. sessions[s].retired = {} /\ sessions[s].found = {}
  BY DEF Begin, Inv, WritersHoldLocks
<1>2. w \in Session /\ sessions' = [sessions EXCEPT ![s] = w]
  <2>1. sessions[s] \in Session
    BY DEF Inv, TypeOK
  <2>2. w \in Session
    BY <2>1 DEF Session, Others
  <2>3. sessions' = [sessions EXCEPT ![s] = w]
    BY <2>1 DEF Begin, Inv, TypeOK, Session
  <2> QED  BY <2>2, <2>3
<1>3. /\ w.step = "lock" /\ w.pack = k /\ w.found = {} /\ w.retired = {}
      /\ packs[k].status # "absent" /\ UNCHANGED <<packs, lock>>
  BY <1>1 DEF Begin, Inv, TypeOK, Session
<1> HIDE DEF w
<1>4. /\ TypeOK' /\ sessions'[s] = w
      /\ \A t \in Sessions \ {s} : sessions'[t] = sessions[t]
  BY <1>2, <1>3, SessionStep DEF Inv, TypeOK
<1> QED  BY <1>3, <1>4, OwnStep

LEMMA LockRowInv == ASSUME Inv, NEW s \in Sessions, LockRow(s)  PROVE Inv'
<1> DEFINE k == sessions[s].pack
           w == [sessions[s] EXCEPT
                   !.step = IF packs[k].certified THEN "retire" ELSE "rollback"]
<1>1. /\ k \in Packs /\ packs[k].status # "absent" /\ lock[k] = NoSession
      /\ UNCHANGED packs /\ lock' = [lock EXCEPT ![k] = s]
      /\ \A m \in sessions[s].found : m \in Others(k)
      /\ \A m \in sessions[s].retired :
           lock[m] = s /\ m \in Others(k) /\ packs[m].status = "active"
  BY DEF LockRow, Inv, WritersHoldLocks
<1>2. w \in Session /\ sessions' = [sessions EXCEPT ![s] = w]
  <2>1. sessions[s] \in Session
    BY DEF Inv, TypeOK
  <2>2. w \in Session
    BY <2>1 DEF Session, Others
  <2>3. sessions' = [sessions EXCEPT ![s] = w]
    BY <2>1 DEF LockRow, Inv, TypeOK, Session
  <2> QED  BY <2>2, <2>3
<1>3. /\ w.step = (IF packs[k].certified THEN "retire" ELSE "rollback")
      /\ w.pack = k /\ w.found = sessions[s].found /\ w.retired = sessions[s].retired
  BY DEF Inv, TypeOK, Session
<1>4. lock' \in [Packs -> Sessions \cup {NoSession}]
      /\ lock'[k] = s /\ \A m \in Packs : m # k => lock'[m] = lock[m]
  BY <1>1 DEF Inv, TypeOK
<1>5. \A m \in Packs : lock[m] \in Sessions \ {s} => lock'[m] = lock[m]
  BY <1>1, <1>4
<1>6. \A m \in sessions[s].retired : m \in Packs /\ lock'[m] = s
  BY <1>1, <1>4 DEF Others
<1> HIDE DEF w, k
<1>7. /\ TypeOK' /\ sessions'[s] = w
      /\ \A t \in Sessions \ {s} : sessions'[t] = sessions[t]
  BY <1>1, <1>2, <1>4, SessionStep DEF Inv
<1> QED  BY <1>1, <1>3, <1>4, <1>5, <1>6, <1>7, OwnStep

LEMMA FindActiveInv == ASSUME Inv, NEW s \in Sessions, FindActive(s)  PROVE Inv'
<1> DEFINE k == sessions[s].pack
           w == [sessions[s] EXCEPT
                   !.step = "visit",
                   !.found = {m \in Others(k) : packs[m].status = "active"}]
<1>1. /\ k \in Packs /\ packs[k].status # "absent" /\ lock[k] = s /\ packs[k].certified
      /\ UNCHANGED <<packs, lock>>
      /\ \A m \in sessions[s].retired :
           lock[m] = s /\ m \in Others(k) /\ packs[m].status = "active"
  BY DEF FindActive, Inv, WritersHoldLocks
<1>2. w \in Session /\ sessions' = [sessions EXCEPT ![s] = w]
  <2>1. sessions[s] \in Session
    BY DEF Inv, TypeOK
  <2>2. w \in Session
    BY <2>1 DEF Session, Others
  <2>3. sessions' = [sessions EXCEPT ![s] = w]
    BY <2>1 DEF FindActive, Inv, TypeOK, Session
  <2> QED  BY <2>2, <2>3
<1>3. /\ w.step = "visit" /\ w.pack = k /\ w.retired = sessions[s].retired
      /\ \A m \in w.found : m \in Others(k)
  BY DEF Inv, TypeOK, Session
<1> HIDE DEF w, k
<1>4. /\ TypeOK' /\ sessions'[s] = w
      /\ \A t \in Sessions \ {s} : sessions'[t] = sessions[t]
  BY <1>1, <1>2, SessionStep DEF Inv, TypeOK
<1> QED  BY <1>1, <1>3, <1>4, OwnStep

LEMMA RetireRowInv ==
  ASSUME Inv, NEW s \in Sessions, NEW m \in Packs, RetireRow(s, m)  PROVE Inv'
<1> DEFINE k == sessions[s].pack
           retired == IF packs[m].status = "active" THEN sessions[s].retired \cup {m}
                      ELSE sessions[s].retired
           w == [sessions[s] EXCEPT !.found = sessions[s].found \ {m}, !.retired = retired]
<1>1. /\ k \in Packs /\ packs[k].status # "absent" /\ lock[k] = s /\ packs[k].certified
      /\ \A n \in sessions[s].found : n \in Others(k)
      /\ \A n \in sessions[s].retired :
           lock[n] = s /\ n \in Others(k) /\ packs[n].status = "active"
      /\ sessions[s].step = "visit"
  BY DEF RetireRow, Inv, WritersHoldLocks
<1>2. /\ m \in Others(k) /\ lock[m] = NoSession /\ UNCHANGED packs
      /\ lock' = [lock EXCEPT ![m] = s]
  BY <1>1 DEF RetireRow
<1>3. w \in Session /\ sessions' = [sessions EXCEPT ![s] = w]
  <2>1. sessions[s] \in Session
    BY DEF Inv, TypeOK
  <2>2. w \in Session
    BY <2>1 DEF Session, Others
  <2>3. sessions' = [sessions EXCEPT ![s] = w]
    BY <2>1 DEF RetireRow, Inv, TypeOK, Session
  <2> QED  BY <2>2, <2>3
<1>4. lock' \in [Packs -> Sessions \cup {NoSession}]
      /\ lock'[m] = s /\ \A n \in Packs : n # m => lock'[n] = lock[n]
  BY <1>2 DEF Inv, TypeOK
<1>5. \A n \in Packs : lock[n] \in Sessions \ {s} => lock'[n] = lock[n]
  BY <1>2, <1>4
<1>6. lock'[k] = s
  BY <1>1, <1>2, <1>4
<1>7. \A n \in retired : lock'[n] = s /\ n \in Others(k) /\ packs[n].status = "active"
  BY <1>1, <1>2, <1>4 DEF Others
<1>8. /\ w.step = "visit" /\ w.pack = k /\ w.retired = retired
      /\ w.found = sessions[s].found \ {m}
  BY <1>1 DEF Inv, TypeOK, Session
<1> HIDE DEF w, k, retired
<1>9. /\ TypeOK' /\ sessions'[s] = w
      /\ \A t \in Sessions \ {s} : sessions'[t] = sessions[t]
  BY <1>2, <1>3, <1>4, SessionStep DEF Inv
<1> QED  BY <1>1, <1>2, <1>5, <1>6, <1>7, <1>8, <1>9, OwnStep

LEMMA PromoteInv == ASSUME Inv, NEW s \in Sessions, Promote(s)  PROVE Inv'
<1> DEFINE k == sessions[s].pack
           w == [sessions[s] EXCEPT !.step = IF Rivals(s) = {} THEN "commit" ELSE "rollback"]
<1>1. /\ k \in Packs /\ packs[k].status # "absent" /\ lock[k] = s /\ packs[k].certified
      /\ UNCHANGED <<packs, lock>>
      /\ \A m \in sessions[s].found : m \in Others(k)
      /\ \A m \in sessions[s].retired :
           lock[m] = s /\ m \in Others(k) /\ packs[m].status = "active"
  BY DEF Promote, Inv, WritersHoldLocks
<1>2. w \in Session /\ sessions' = [sessions EXCEPT ![s] = w]
  <2>1. sessions[s] \in Session
    BY DEF Inv, TypeOK
  <2>2. w \in Session
    BY <2>1 DEF Session
  <2>3. sessions' = [sessions EXCEPT ![s] = w]
    BY <2>1 DEF Promote, Inv, TypeOK, Session
  <2> QED  BY <2>2, <2>3
<1>3. /\ w.step = (IF Rivals(s) = {} THEN "commit" ELSE "rollback") /\ w.pack = k
      /\ w.found = sessions[s].found /\ w.retired = sessions[s].retired
  BY DEF Inv, TypeOK, Session
<1> HIDE DEF w
<1>4. /\ TypeOK' /\ sessions'[s] = w
      /\ \A t \in Sessions \ {s} : sessions'[t] = sessions[t]
  BY <1>1, <1>2, SessionStep DEF Inv, TypeOK
<1>5. Rivals(s)' = Rivals(s)
  BY <1>1, <1>3, <1>4 DEF Rivals, Others
<1>6. ASSUME NEW t \in Sessions \ {s}, sessions[t].step = "commit"
      PROVE  sessions[t].pack \notin Others(k) /\ k \notin Others(sessions[t].pack)
  <2>1. sessions[t].pack \notin Others(k)
    BY <1>6 DEF Promote, Undecided
  <2>2. sessions[t].pack \in Packs
    BY <1>6 DEF Inv, WritersHoldLocks
  <2> QED  BY <1>1, <2>1, <2>2 DEF Others
<1> HIDE DEF k
<1> QED  BY <1>1, <1>3, <1>4, <1>5, <1>6, OwnStep

LEMMA StatementFailsInv == ASSUME Inv, NEW s \in Sessions, StatementFails(s)  PROVE Inv'
<1> DEFINE k == sessions[s].pack
           w == [sessions[s] EXCEPT !.step = "rollback"]
<1>1. /\ k \in Packs /\ packs[k].status # "absent" /\ UNCHANGED <<packs, lock>>
      /\ \A m \in sessions[s].found : m \in Others(k)
      /\ \A m \in sessions[s].retired :
           lock[m] = s /\ m \in Others(k) /\ packs[m].status = "active"
  BY DEF StatementFails, Inv, WritersHoldLocks
<1>2. w \in Session /\ sessions' = [sessions EXCEPT ![s] = w]
  <2>1. sessions[s] \in Session
    BY DEF Inv, TypeOK
  <2>2. w \in Session
    BY <2>1 DEF Session
  <2>3. sessions' = [sessions EXCEPT ![s] = w]
    BY <2>1 DEF StatementFails, Inv, TypeOK, Session
  <2> QED  BY <2>2, <2>3
<1>3. /\ w.step = "rollback" /\ w.pack = k
      /\ w.found = sessions[s].found /\ w.retired = sessions[s].retired
  BY DEF Inv, TypeOK, Session
<1> HIDE DEF w, k
<1>4. /\ TypeOK' /\ sessions'[s] = w
      /\ \A t \in Sessions \ {s} : sessions'[t] = sessions[t]
  BY <1>1, <1>2, SessionStep DEF Inv, TypeOK
<1> QED  BY <1>1, <1>3, <1>4, OwnStep

LEMMA ReleasedLocks ==
  ASSUME TypeOK, NEW s \in Sessions
  PROVE  /\ Released(s) \in [Packs -> Sessions \cup {NoSession}]
         /\ \A m \in Packs : lock[m] \in Sessions \ {s} => Released(s)[m] = lock[m]
BY DEF TypeOK, Released

LEMMA IdleFields ==
  /\ IdleSession \in Session
  /\ IdleSession.step = "idle"
  /\ IdleSession.found = {} /\ IdleSession.retired = {}
BY DEF IdleSession, Session

LEMMA RollbackInv == ASSUME Inv, NEW s \in Sessions, Rollback(s)  PROVE Inv'
<1>1. /\ UNCHANGED packs /\ lock' = Released(s)
      /\ sessions' = [sessions EXCEPT ![s] = IdleSession]
  BY DEF Rollback
<1>2. /\ lock' \in [Packs -> Sessions \cup {NoSession}]
      /\ \A m \in Packs : lock[m] \in Sessions \ {s} => lock'[m] = lock[m]
  BY <1>1, ReleasedLocks DEF Inv
<1>3. /\ TypeOK' /\ sessions'[s] = IdleSession
      /\ \A t \in Sessions \ {s} : sessions'[t] = sessions[t]
  BY <1>1, <1>2, IdleFields, SessionStep DEF Inv
<1> QED  BY <1>1, <1>2, <1>3, IdleFields, OwnStep

-----------------------------------------------------------------------------
(* What a commit does to the rows others see.                              *)
LEMMA CommittedRows ==
  ASSUME Inv, NEW s \in Sessions, Commit(s)
  PROVE  /\ sessions[s].pack \in Packs
         /\ sessions[s].pack \notin sessions[s].retired
         /\ sessions[s].retired \subseteq Others(sessions[s].pack)
         /\ packs' \in [Packs -> PackRow]
         /\ packs'[sessions[s].pack].status = "active"
         /\ \A m \in sessions[s].retired : packs'[m].status = "retired"
         /\ \A m \in Packs : m # sessions[s].pack /\ m \notin sessions[s].retired =>
              packs'[m] = packs[m]
         /\ \A m \in Packs : packs'[m].certified = packs[m].certified
<1> DEFINE k == sessions[s].pack
           gone == sessions[s].retired
<1>1. k \in Packs /\ gone \subseteq Others(k)
  BY DEF Commit, Inv, WritersHoldLocks
<1>2. k \notin gone /\ gone \subseteq Packs
  BY <1>1 DEF Others
<1>3. packs \in [Packs -> PackRow]
  BY DEF Inv, TypeOK
<1>4. packs' = [m \in Packs |-> IF m \in gone THEN [packs[m] EXCEPT !.status = "retired"]
                                ELSE IF m = k THEN [packs[m] EXCEPT !.status = "active"]
                                ELSE packs[m]]
  BY DEF Commit
<1> HIDE DEF k, gone
<1>5. packs' \in [Packs -> PackRow]
  BY <1>3, <1>4 DEF PackRow
<1>6. packs'[k].status = "active"
  BY <1>1, <1>2, <1>3, <1>4 DEF PackRow
<1>7. \A m \in gone : packs'[m].status = "retired"
  BY <1>2, <1>3, <1>4 DEF PackRow
<1>8. \A m \in Packs : m # k /\ m \notin gone => packs'[m] = packs[m]
  BY <1>4
<1>9. \A m \in Packs : packs'[m].certified = packs[m].certified
  BY <1>3, <1>4 DEF PackRow
<1> QED  BY <1>1, <1>2, <1>5, <1>6, <1>7, <1>8, <1>9 DEF k, gone

LEMMA CommitInv == ASSUME Inv, NEW s \in Sessions, Commit(s)  PROVE Inv'
<1> DEFINE k == sessions[s].pack
           gone == sessions[s].retired
<1>1. /\ k \in Packs /\ k \notin gone /\ gone \subseteq Others(k)
      /\ packs' \in [Packs -> PackRow] /\ packs'[k].status = "active"
      /\ \A m \in gone : packs'[m].status = "retired"
      /\ \A m \in Packs : m # k /\ m \notin gone => packs'[m] = packs[m]
      /\ \A m \in Packs : packs'[m].certified = packs[m].certified
  BY CommittedRows
<1>2. /\ sessions' = [sessions EXCEPT ![s] = IdleSession]
      /\ lock' = Released(s)
      /\ sessions[s].step = "commit"
  BY DEF Commit
<1>3. /\ lock' \in [Packs -> Sessions \cup {NoSession}]
      /\ \A m \in Packs : lock[m] \in Sessions \ {s} => lock'[m] = lock[m]
  BY <1>2, ReleasedLocks DEF Inv
<1>4. /\ sessions'[s] = IdleSession
      /\ \A t \in Sessions \ {s} : sessions'[t] = sessions[t]
  BY <1>2 DEF Inv, TypeOK
<1>5. TypeOK'
  BY <1>1, <1>2, <1>3, IdleFields DEF Inv, TypeOK
<1>6. \* the rows of s stay locked until it commits, so nobody else holds them
      lock[k] = s /\ \A m \in gone : lock[m] = s
  BY <1>2 DEF Inv, WritersHoldLocks
<1>7. \* every rival of k is among the rows retired
      \A m \in Others(k) : packs[m].status = "active" => m \in gone
  BY <1>2 DEF Inv, CommitIsExclusive, Rivals
<1> HIDE DEF k, gone
<1>8. WritersHoldLocks'
  <2> SUFFICES ASSUME NEW t \in Sessions
               PROVE  /\ sessions'[t].step # "idle" =>
                           sessions'[t].pack \in Packs /\ packs'[sessions'[t].pack].status # "absent"
                      /\ sessions'[t].step = "idle" =>
                           sessions'[t].found = {} /\ sessions'[t].retired = {}
                      /\ \A m \in sessions'[t].found : m \in Others(sessions'[t].pack)
                      /\ sessions'[t].step \in {"retire", "visit", "commit"} =>
                           lock'[sessions'[t].pack] = t /\ packs'[sessions'[t].pack].certified
                      /\ \A m \in sessions'[t].retired :
                           /\ lock'[m] = t
                           /\ m \in Others(sessions'[t].pack)
                           /\ packs'[m].status = "active"
    BY DEF WritersHoldLocks, Others
  <2>1. CASE t = s
    BY <2>1, <1>4, IdleFields
  <2>2. CASE t # s
    <3>1. sessions'[t] = sessions[t]
      BY <2>2, <1>4
    <3>2. sessions[t].step # "idle" =>
            sessions[t].pack \in Packs /\ packs'[sessions[t].pack].status # "absent"
      BY <1>1 DEF Inv, WritersHoldLocks
    <3>3. sessions[t].step \in {"retire", "visit", "commit"} =>
            lock'[sessions[t].pack] = t /\ packs'[sessions[t].pack].certified
      BY <2>2, <1>1, <1>3 DEF Inv, WritersHoldLocks
    <3>4. \A m \in sessions[t].retired : m \in Packs /\ lock[m] = t
      BY DEF Inv, WritersHoldLocks, Others
    <3>5. \A m \in sessions[t].retired : packs'[m] = packs[m] /\ lock'[m] = t
      BY <2>2, <3>4, <1>1, <1>3, <1>6
    <3> QED  BY <3>1, <3>2, <3>3, <3>5 DEF Inv, WritersHoldLocks
  <2> QED  BY <2>1, <2>2
<1>9. CommitIsExclusive'
  <2> SUFFICES ASSUME NEW t \in Sessions, sessions'[t].step = "commit"
               PROVE  /\ Rivals(t)' = {}
                      /\ \A u \in Sessions \ {t} :
                           sessions'[u].step = "commit" =>
                             sessions'[u].pack \notin Others(sessions'[t].pack)
    BY DEF CommitIsExclusive, Others
  <2>1. t # s /\ sessions'[t] = sessions[t]
    BY <1>4, IdleFields
  <2>2. k \notin Others(sessions[t].pack)
    BY <2>1, <1>2 DEF Inv, CommitIsExclusive, k
  <2>3. Rivals(t) = {}
    BY <2>1 DEF Inv, CommitIsExclusive
  <2>4. Rivals(t)' = {}
    <3> SUFFICES ASSUME NEW m \in Others(sessions[t].pack),
                        packs'[m].status = "active", m \notin sessions[t].retired
                 PROVE  FALSE
      BY <2>1 DEF Rivals, Others
    <3>1. m \in Packs /\ m # k
      BY <2>2 DEF Others
    <3>2. packs[m].status = "active"
      BY <3>1, <1>1
    <3> QED  BY <3>2, <2>3 DEF Rivals
  <2>5. ASSUME NEW u \in Sessions \ {t}, sessions'[u].step = "commit"
        PROVE  sessions'[u].pack \notin Others(sessions'[t].pack)
    <3>1. u # s /\ sessions'[u] = sessions[u]
      BY <2>5, <1>4, IdleFields
    <3> QED  BY <3>1, <2>1, <2>5 DEF Inv, CommitIsExclusive
  <2> QED  BY <2>4, <2>5
<1>10. OneActivePerJurisdiction'
  <2> SUFFICES ASSUME NEW m \in Packs, NEW n \in Packs,
                      packs'[m].status = "active", packs'[n].status = "active",
                      JurisdictionOf[m] = JurisdictionOf[n], m # n
               PROVE  FALSE
    BY DEF OneActivePerJurisdiction
  <2>1. m \notin gone /\ n \notin gone
    BY <1>1
  <2>2. CASE m = k \/ n = k
    BY <2>1, <2>2, <1>1, <1>7 DEF Others
  <2>3. CASE m # k /\ n # k
    BY <2>1, <2>3, <1>1 DEF Inv, OneActivePerJurisdiction
  <2> QED  BY <2>2, <2>3
<1>11. ActiveIsCertified'
  <2>1. packs[k].certified
    BY <1>2 DEF Inv, WritersHoldLocks, k
  <2> QED  BY <2>1, <1>1 DEF Inv, ActiveIsCertified
<1> QED  BY <1>5, <1>8, <1>9, <1>10, <1>11 DEF Inv

-----------------------------------------------------------------------------
(* Every step but a commit leaves the set of active packs as it is.        *)
LEMMA ActiveChangesOnCommit ==
  ASSUME Inv, [Next]_vars, ~\E s \in Sessions : Commit(s), NEW j \in Jurisdictions
  PROVE  ActiveIn(j)' = ActiveIn(j)
<1>1. \A k \in Packs : packs'[k].status = "active" <=> packs[k].status = "active"
  <2>1. CASE UNCHANGED packs
    BY <2>1
  <2>2. CASE \E k \in Packs : Upload(k)
    <3>1. PICK k \in Packs : Upload(k)
      BY <2>2
    <3>2. packs'[k].status = "draft" /\ packs[k].status = "absent"
      BY <3>1 DEF Upload, Inv, TypeOK
    <3>3. \A m \in Packs : m # k => packs'[m] = packs[m]
      BY <3>1 DEF Upload, Inv, TypeOK
    <3> QED  BY <3>2, <3>3
  <2>3. CASE \E k \in Packs : Validate(k)
    <3>1. PICK k \in Packs : Validate(k)
      BY <2>3
    <3>2. packs'[k].status = packs[k].status
      BY <3>1 DEF Validate, Inv, TypeOK, PackRow
    <3>3. \A m \in Packs : m # k => packs'[m] = packs[m]
      BY <3>1 DEF Validate, Inv, TypeOK
    <3> QED  BY <3>2, <3>3
  <2> QED
    BY <2>1, <2>2, <2>3 DEF Next, Advance, vars, LockRow, FindActive, RetireRow, Promote,
                            Rollback, StatementFails, Begin
<1> QED  BY <1>1 DEF ActiveIn

(* A commit replaces the active pack of one jurisdiction.                  *)
LEMMA CommitReplaces ==
  ASSUME Inv, NEW s \in Sessions, Commit(s), NEW j \in Jurisdictions
  PROVE  /\ sessions[s].pack \in Packs
         /\ JurisdictionOf[sessions[s].pack] = j => ActiveIn(j)' = {sessions[s].pack}
         /\ JurisdictionOf[sessions[s].pack] # j => ActiveIn(j)' = ActiveIn(j)
<1> DEFINE k == sessions[s].pack
<1>1. /\ k \in Packs /\ k \notin sessions[s].retired
      /\ sessions[s].retired \subseteq Others(k)
      /\ packs'[k].status = "active"
      /\ \A m \in sessions[s].retired : packs'[m].status = "retired"
      /\ \A m \in Packs : m # k /\ m \notin sessions[s].retired => packs'[m] = packs[m]
  BY CommittedRows
<1>2. Inv'
  BY CommitInv
<1> HIDE DEF k
<1>3. ASSUME JurisdictionOf[k] = j  PROVE ActiveIn(j)' = {k}
  BY <1>1, <1>2, <1>3 DEF ActiveIn, Inv, OneActivePerJurisdiction
<1>4. ASSUME JurisdictionOf[k] # j  PROVE ActiveIn(j)' = ActiveIn(j)
  <2>1. \A m \in Packs : JurisdictionOf[m] = j => packs'[m] = packs[m]
    BY <1>1, <1>4 DEF Others
  <2> QED  BY <2>1 DEF ActiveIn
<1> QED  BY <1>1, <1>3, <1>4 DEF k

-----------------------------------------------------------------------------
LEMMA NextInv == Inv /\ [Next]_vars => Inv'
<1> SUFFICES ASSUME Inv, [Next]_vars  PROVE Inv'
  OBVIOUS
<1>1. ASSUME NEW k \in Packs, Upload(k) \/ Validate(k)  PROVE Inv'
  BY <1>1, UploadInv, ValidateInv
<1>2. ASSUME NEW s \in Sessions, Advance(s)  PROVE Inv'
  BY <1>2, LockRowInv, FindActiveInv, PromoteInv, CommitInv, RollbackInv, RetireRowInv
  DEF Advance
<1>3. ASSUME NEW s \in Sessions, StatementFails(s)  PROVE Inv'
  BY <1>3, StatementFailsInv
<1>4. ASSUME NEW s \in Sessions, NEW k \in Packs, Begin(s, k)  PROVE Inv'
  BY <1>4, BeginInv
<1>5. CASE UNCHANGED vars
  BY <1>5 DEF vars, Inv, TypeOK, WritersHoldLocks, CommitIsExclusive, Rivals, Others,
              OneActivePerJurisdiction, ActiveIsCertified
<1> QED  BY <1>1, <1>2, <1>3, <1>4, <1>5 DEF Next

(* The inductive invariant holds in every reachable state of any number of *)
(* uploads, validations and concurrent activations of any packs.           *)
THEOREM Safety == Spec => []Inv
<1> QED  BY InitInv, NextInv, PTL DEF Spec

(* However activations interleave, wait for locks, are refused or break    *)
(* off, no jurisdiction ever has two active packs.                         *)
THEOREM AtMostOneActive == Spec => []OneActivePerJurisdiction
<1>1. Inv => OneActivePerJurisdiction
  BY DEF Inv
<1> QED  BY <1>1, Safety, PTL

(* The report of an active pack passes the activation gate at all times:   *)
(* the row lock covers the check, the trigger what comes after.            *)
THEOREM ActivePacksAreCertified == Spec => []ActiveIsCertified
<1>1. Inv => ActiveIsCertified
  BY DEF Inv
<1> QED  BY <1>1, Safety, PTL

(* A jurisdiction that has an active pack has one after every step: no     *)
(* request can fall between the retirement and the activation.             *)
THEOREM CoverageIsNeverLost == Spec => NeverUncovered
<1>1. Inv /\ [Next]_vars =>
        [\A j \in Jurisdictions : ActiveIn(j) # {} => ActiveIn(j)' # {}]_vars
  <2> SUFFICES ASSUME Inv, [Next]_vars, NEW j \in Jurisdictions, ActiveIn(j) # {}
               PROVE  ActiveIn(j)' # {}
    BY Zenon
  <2>1. CASE \E s \in Sessions : Commit(s)
    BY <2>1, CommitReplaces
  <2>2. CASE ~\E s \in Sessions : Commit(s)
    BY <2>2, ActiveChangesOnCommit
  <2> QED  BY <2>1, <2>2
<1> QED  BY <1>1, Safety, PTL DEF Spec, NeverUncovered

(* The rows, locks and statements implement the register of one active     *)
(* pack per jurisdiction that classification requests rely on.             *)
THEOREM Refinement == Spec => ImplementsActivePack
<1> DEFINE map == [j \in Jurisdictions |-> ActivePackOf(j)]
<1>1. \A j \in Jurisdictions : ActivePackOf(j) \in Register!PacksOf(j) \cup {NoPack}
  BY DEF ActivePackOf, FirstOf, ActiveIn, Register!PacksOf
<1>2. Init => Register!Init
  <2>1. \A j \in Jurisdictions : Register!PacksOf(j) \subseteq Packs
    BY DEF Register!PacksOf
  <2> QED  BY <1>1, <2>1 DEF Register!Init
<1>3. Inv /\ [Next]_vars => [Register!Next]_map
  <2> SUFFICES ASSUME Inv, [Next]_vars
               PROVE  map' = map \/ Register!Next
    BY Zenon
  <2>1. CASE \E s \in Sessions : Commit(s)
    <3>1. PICK s \in Sessions : Commit(s)
      BY <2>1
    <3> DEFINE k == sessions[s].pack
    <3>2. k \in Packs /\ JurisdictionOf[k] \in Jurisdictions
      BY <3>1 DEF Commit, Inv, WritersHoldLocks
    <3>3. \A j \in Jurisdictions :
            ActiveIn(j)' = IF JurisdictionOf[k] = j THEN {k} ELSE ActiveIn(j)
      BY <3>1, CommitReplaces
    <3> HIDE DEF k
    <3>4. \A j \in Jurisdictions :
            ActivePackOf(j)' = IF JurisdictionOf[k] = j THEN k ELSE ActivePackOf(j)
      <4>1. \A m : FirstOf({m}) = m
        BY DEF FirstOf
      <4> HIDE DEF FirstOf
      <4> QED  BY <3>3, <4>1 DEF ActivePackOf
    <3>5. map' = [map EXCEPT ![JurisdictionOf[k]] = k]
      BY <3>2, <3>4
    <3> QED  BY <3>2, <3>5 DEF Register!Next, Register!Activate
  <2>2. CASE ~\E s \in Sessions : Commit(s)
    <3>1. \A j \in Jurisdictions : ActivePackOf(j)' = ActivePackOf(j)
      BY <2>2, ActiveChangesOnCommit DEF ActivePackOf
    <3> QED  BY <3>1
  <2> QED  BY <2>1, <2>2
<1> QED  BY <1>2, <1>3, Safety, PTL DEF Spec, ImplementsActivePack, Register!Spec
=============================================================================
