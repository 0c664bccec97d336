----------------------------- MODULE MCJobQueue -----------------------------
(***************************************************************************)
(* Small instances of JobQueue for TLC: a batch extraction and a review    *)
(* preparation, two workers.                                               *)
(***************************************************************************)
EXTENDS JobQueue, TLC

CONSTANTS extract1, prepare1, w1, w2

MCJobs        == {extract1, prepare1}
MCPrepareJobs == {prepare1}
MCExtractJobs == {extract1}
MCWorkers     == {w1, w2}

WorkerSymmetry == Permutations(MCWorkers)
=============================================================================
