--------------------------- MODULE MCReviewWindow ---------------------------
(***************************************************************************)
(* Two conspects: one with a term and a thought that was extracted with    *)
(* it, one with a term of its own.                                         *)
(***************************************************************************)
EXTENDS ReviewWindow

CONSTANTS c1, c2, term, thought, other

MCConspects == {c1, c2}
MCItems     == {term, thought, other}
MCItemsOf   == [c \in MCConspects |-> IF c = c1 THEN {term, thought} ELSE {other}]
MCExtracted == [i \in MCItems |-> IF i = thought THEN {term} ELSE {}]
=============================================================================
