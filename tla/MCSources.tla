------------------------------ MODULE MCSources ------------------------------
(***************************************************************************)
(* A small instance of Sources for TLC: one session of a microphone, two   *)
(* concurrent calls, two capture goroutines.                               *)
(***************************************************************************)
EXTENDS Sources, TLC

CONSTANTS mic1, a1, a2, r1, r2, c1

OneSession  == {mic1}
TwoCallers  == {a1, a2}
TwoRunners  == {r1, r2}
OneChunk    == {c1}
Nothing     == {}
UnitSuffix  == [c \in Chunks |-> 1]

CallSymmetry == Permutations({a1, a2}) \cup Permutations({r1, r2})
=============================================================================
