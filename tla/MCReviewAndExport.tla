-------------------------- MODULE MCReviewAndExport --------------------------
(* Runs with one pack that recommends a code or finds none.                *)
EXTENDS ReviewAndExport

CONSTANTS k1, f1, f2, x1, found, none, c1, c2

MCVerdict == [in \in Packs \X Facts |-> IF in[2] = f1 THEN found ELSE none]
MCStatusOf == [o \in Outcomes |-> IF o = found THEN "classified" ELSE "blocked"]
MCCodeOf == [o \in Outcomes |-> IF o = found THEN c1 ELSE NoCode]
=============================================================================
