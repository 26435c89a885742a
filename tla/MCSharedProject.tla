--------------------------- MODULE MCSharedProject ---------------------------
(* Four items, one an audit and two of a domain; a file that git tracks,   *)
(* one in a directory that it does not know yet, a template-managed one,   *)
(* one of the vendored tooling and one that .gitignore names.              *)
EXTENDS SharedProject

CONSTANTS i1, i2, i3, i4, a, x, p, t, e, new, c1

MCItemSeq == <<i1, i2, i3, i4>>
MCAffected == [i \in Items |-> IF i = i1 THEN {a} ELSE IF i = i3 THEN {x} ELSE {}]
MCDomainOf == [i \in Items |-> IF i = i3 THEN "frontend" ELSE "backend"]
MCInside == [d \in Dirs |-> {x}]
MCKindOf == [q \in Files \cup Dirs |-> CASE q = p -> "template" [] q = t -> "tooling"
                                         [] q = e -> "environment" [] OTHER -> "product"]
MCClaims == {[tasks |-> {i1}, files |-> {}, status |-> "other", schema |-> 1],
             [tasks |-> {}, files |-> {x}, status |-> "stalled", schema |-> 1]}
MCOutcomes ==
  {[edited |-> {x, e}, removed |-> {}, declared |-> {x}, local |-> {e}],
   [edited |-> {a, x}, removed |-> {}, declared |-> {x}, local |-> {}],
   [edited |-> {a, p, t}, removed |-> {}, declared |-> {a}, local |-> {}],
   [edited |-> {x}, removed |-> {a}, declared |-> {}, local |-> {}],
   [edited |-> {x}, removed |-> {}, declared |-> {new}, local |-> {}],
   [edited |-> {t}, removed |-> {}, declared |-> {t}, local |-> {t}]}
==============================================================================
