------------------------------ MODULE MCBatches ------------------------------
(***************************************************************************)
(* A small instance of Batches for TLC: a captured session and one for     *)
(* manual text, three chunks of different continuity.                      *)
(***************************************************************************)
EXTENDS Batches, TLC

CONSTANTS mic, manual, c1, c2, c3

MCSessions == {mic, manual}
MCManualSessions == {manual}
MCChunks   == {c1, c2, c3}

\* No sentence ends in c1 and c2; c3 ends one and starts another.
MCSuffixLength == c1 :> 1 @@ c2 :> 2 @@ c3 :> 1
MCSentenceEnds == {c3}
=============================================================================
