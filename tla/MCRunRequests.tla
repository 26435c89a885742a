---------------------------- MODULE MCRunRequests ----------------------------
(* Two jurisdictions; facts about either; a pack for one of them only, or  *)
(* for both.                                                               *)
EXTENDS RunRequests

CONSTANTS us, eu, packUs, packEu, soldUs, soldEu, ok

MCJurisdictionOf == [k \in Packs |-> IF k = packEu THEN eu ELSE us]
MCMarketOf == [f \in Facts |-> IF f = soldEu THEN eu ELSE us]
MCVerdict == [in \in Packs \X Facts |-> ok]
MCStatusOf == [o \in Outcomes |-> "classified"]
=============================================================================
