------------------------------- MODULE MCReview -------------------------------
(***************************************************************************)
(* A small instance of Review for TLC: two conspects that bring a term of  *)
(* the same title each, and a graph that has another term.                 *)
(***************************************************************************)
EXTENDS Review, TLC

CONSTANTS k1, k2, a1, a2, p1, p2, titleA, titleX

MCConspects    == {k1, k2}
MCCandidates   == {a1, a2}
MCCandidatesOf == k1 :> <<a1>> @@ k2 :> <<a2>>
MCTitleOf      == a1 :> titleA @@ a2 :> titleA
MCTitles       == {titleA, titleX}
MCPreparers    == {p1, p2}
MCInitialGraph == <<[kind |-> "term", title |-> titleX, version |-> 1, by |-> "start"]>>
=============================================================================
