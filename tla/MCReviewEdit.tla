----------------------------- MODULE MCReviewEdit -----------------------------
(***************************************************************************)
(* A small instance of Review for TLC: one conspect with similar terms and *)
(* a thought that relates to one of them, and a graph that has the title   *)
(* of that term already.                                                   *)
(***************************************************************************)
EXTENDS Review, TLC

CONSTANTS k1, a1, a2, h1, p1, p2, titleA, titleB, titleH

MCConspects    == {k1}
MCCandidates   == {a1, a2, h1}
MCTerms        == {a1, a2}
MCCandidatesOf == k1 :> <<a1, a2, h1>>
MCTitleOf      == a1 :> titleA @@ a2 :> titleB @@ h1 :> titleH
MCRelates      == {<<h1, a1>>}
MCTitles       == {titleA, titleB, titleH}
MCEditTitles   == {titleA}
MCSimilar      == {titleA, titleB} \X {titleA, titleB}
MCPreparers    == {p1, p2}
MCInitialGraph == <<[kind |-> "term", title |-> titleA, version |-> 1, by |-> "start"]>>

\* Values for the run in which all three candidates are similar terms.
MCAllSimilar   == MCTitles \X MCTitles
MCEmptyGraph   == <<>>
=============================================================================
