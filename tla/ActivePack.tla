----------------------------- MODULE ActivePack -----------------------------
(***************************************************************************)
(* What rule pack activation promises the rest of the engine: in every     *)
(* jurisdiction there is one active pack or none yet, an activation        *)
(* replaces it in one step by a pack of that jurisdiction, and a           *)
(* jurisdiction that has a pack never loses it.                            *)
(***************************************************************************)
CONSTANTS Packs, Jurisdictions,
          JurisdictionOf,  \* [Packs -> Jurisdictions]
          NoPack

VARIABLE active

PacksOf(j) == {k \in Packs : JurisdictionOf[k] = j}

Init ==
  /\ active \in [Jurisdictions -> Packs \cup {NoPack}]
  /\ \A j \in Jurisdictions : active[j] \in PacksOf(j) \cup {NoPack}

Activate(k) == active' = [active EXCEPT ![JurisdictionOf[k]] = k]

Next == \E k \in Packs : Activate(k)

Spec == Init /\ [][Next]_active
=============================================================================
