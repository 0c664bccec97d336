------------------------------- MODULE Batches -------------------------------
(***************************************************************************)
(* Chunk persistence and batching (internal/storage/sqlite/batches.go) and *)
(* the session rows that drive it (internal/storage/sqlite/runtime.go).    *)
(*                                                                         *)
(* Each operation is one transaction on the store's single connection, so  *)
(* one action; one that fails is rolled back and changes nothing.  The     *)
(* batches of a session are a sequence in rowid order.  A batch carries    *)
(* its age and idle time, saturating at the policy's limits, instead of    *)
(* timestamps.  A chunk's text is abstracted to what copyContextTail sees  *)
(* of it: the length of its continuity suffix, and whether a sentence ends *)
(* in it.                                                                  *)
(***************************************************************************)
EXTENDS Integers, Sequences, FiniteSets, SequencesExt

CONSTANTS
    Sessions,       \* source sessions
    ManualSessions, \* those that SubmitText creates
    Chunks,         \* chunk identifiers
    SuffixLength,   \* the length of each chunk's continuity suffix
    SentenceEnds,   \* the chunks in which a sentence ends
    MaxDuration,    \* pipeline.conspect_max_duration, in time units
    IdleTimeout,    \* pipeline.conspect_idle_timeout, in time units
    TailLimit       \* context_tail_chars, at most 400, in the lengths' units

ASSUME ChunksAssumption ==
    /\ SuffixLength \in [Chunks -> Nat]
    /\ SentenceEnds \subseteq Chunks

ASSUME SessionsAssumption == ManualSessions \subseteq Sessions

ASSUME PolicyAssumption ==
    /\ MaxDuration \in Nat \ {0}
    /\ IdleTimeout \in Nat \ {0}
    /\ TailLimit \in Nat

VARIABLES
    state,      \* source_sessions.state; "none" is a session not created yet
    chunks,     \* the chunk rows of each session, by sequence
    batches     \* the analysis_batches of each session, by rowid

storeVars == <<state, chunks, batches>>

SourceStates  == {"none", "starting", "running", "paused", "stopped", "failed"}
Ended         == {"paused", "stopped", "failed"}
BatchStatuses == {"collecting", "ready", "extracting", "extracted", "failed"}

Context == [chunk : Chunks, length : Nat]
Batch   == [status  : BatchStatuses,
            age     : 0..MaxDuration,   \* now - started_at
            idle    : 0..IdleTimeout,   \* now - last_text_at
            focus   : Seq(Chunks),      \* rows of role focus, by position
            context : SUBSET Context,   \* rows of role context
            jobs    : Nat]              \* extract jobs queued for it

\* Every session, chunk and batch row is in a state of its type.
TypeOK ==
    /\ state   \in [Sessions -> SourceStates]
    /\ chunks  \in [Sessions -> Seq(Chunks)]
    /\ batches \in [Sessions -> Seq(Batch)]

Init ==
    /\ state   = [s \in Sessions |-> "none"]
    /\ chunks  = [s \in Sessions |-> <<>>]
    /\ batches = [s \in Sessions |-> <<>>]

-----------------------------------------------------------------------------
(* Helpers on the batches of one session.                                  *)

Collecting(bs) == {k \in DOMAIN bs : bs[k].status = "collecting"}

\* batchCloseReason
Overdue(b) == b.age >= MaxDuration \/ b.idle >= IdleTimeout

\* Mutant of Closed: the status is not looked at.
ClosedAgain(bs, K) ==
    [k \in DOMAIN bs |-> IF k \in K THEN [bs[k] EXCEPT !.status = "ready", !.jobs = @ + 1]
                                    ELSE bs[k]]

\* closeBatch: only a collecting batch is closed, and its job is queued with it.
Closed(bs, K) ==
    [k \in DOMAIN bs |->
        IF k \in K \cap Collecting(bs)
        THEN [bs[k] EXCEPT !.status = "ready", !.jobs = @ + 1]
        ELSE bs[k]]

OverdueIn(bs) == {k \in DOMAIN bs : Overdue(bs[k])}

\* The partial sums of a sequence of numbers.
Sums(f) ==
    LET sum[n \in 0..Len(f)] == IF n = 0 THEN 0 ELSE sum[n - 1] + f[n]
    IN  sum

\* The length of all but the first n chunks of a focus.
LengthAfter(focus, n) ==
    LET sums == Sums([i \in DOMAIN focus |-> SuffixLength[focus[i]]])
    IN  sums[Len(focus)] - sums[n]

\* What the chunks after position i of a focus leave of the context limit.
LeftAfter(focus, i) == TailLimit - LengthAfter(focus, i)

\* Mutant of ContextTail: the sentence is not looked for.
ContextTailToLimit(focus) ==
    {[chunk  |-> focus[i],
      length |-> IF SuffixLength[focus[i]] > LeftAfter(focus, i)
                 THEN LeftAfter(focus, i) ELSE SuffixLength[focus[i]]] :
        i \in {n \in DOMAIN focus : LeftAfter(focus, n) > 0 /\ SuffixLength[focus[n]] > 0}}

\* copyContextTail: the previous focus is read backwards until a sentence ends
\* or the limit is used up; the chunk that exceeds the limit is cut.
ContextTail(focus) ==
    {[chunk  |-> focus[i],
      length |-> IF SuffixLength[focus[i]] > LeftAfter(focus, i)
                 THEN LeftAfter(focus, i) ELSE SuffixLength[focus[i]]] :
        i \in {n \in DOMAIN focus :
                  /\ LeftAfter(focus, n) > 0
                  /\ SuffixLength[focus[n]] > 0
                  /\ \A m \in n + 1 .. Len(focus) : focus[m] \notin SentenceEnds}}

\* Mutant of NewBatch: the chunk that opens a batch is not attached to it.
NewEmptyBatch(bs, c) ==
    [status |-> "collecting", age |-> 0, idle |-> 0, focus |-> <<>>,
     context |-> IF bs = <<>> THEN {} ELSE ContextTail(bs[Len(bs)].focus),
     jobs |-> 0]

NewBatch(bs, c) ==
    [status |-> "collecting", age |-> 0, idle |-> 0, focus |-> <<c>>,
     context |-> IF bs = <<>> THEN {} ELSE ContextTail(bs[Len(bs)].focus),
     jobs |-> 0]

\* Mutant of Attached: an overdue batch is left to the sweeper.
AttachedUnclosed(bs, c) ==
    IF Collecting(bs) \ OverdueIn(bs) = {} THEN Append(bs, NewBatch(bs, c))
    ELSE [bs EXCEPT ![Len(bs)].focus = Append(@, c), ![Len(bs)].idle = 0]

\* Mutant of Attached: the newest batch is taken whatever its status.
AttachedToNewest(bs, c) ==
    IF bs = <<>> THEN <<NewBatch(bs, c)>>
    ELSE [bs EXCEPT ![Len(bs)].focus = Append(@, c), ![Len(bs)].idle = 0]

\* saveChunk on the session's batches: close the collecting batch if it is
\* overdue, open one if none is left, attach the chunk to it.
Attached(bs, c) ==
    LET kept == Closed(bs, OverdueIn(bs))
        open == Collecting(kept)
    IN  IF open = {} THEN Append(kept, NewBatch(kept, c))
        ELSE [k \in DOMAIN kept |->
                 IF k \in open
                 THEN [kept[k] EXCEPT !.focus = Append(@, c), !.idle = 0]
                 ELSE kept[k]]

Known == UNION {ToSet(chunks[s]) : s \in Sessions}

-----------------------------------------------------------------------------
(* The store's operations.                                                 *)

\* A session row is created by SourceManager.Start.
SaveSourceSession(s) ==
    /\ s \notin ManualSessions
    /\ state[s] = "none"
    /\ state' = [state EXCEPT ![s] = "starting"]
    /\ UNCHANGED <<chunks, batches>>

\* A repeated chunk identifier changes nothing: same content is ignored, other
\* content is an error.
SaveChunk(s, c) ==
    /\ s \notin ManualSessions
    /\ state[s] # "none"
    /\ c \notin Known
    /\ chunks'  = [chunks  EXCEPT ![s] = Append(@, c)]
    /\ batches' = [batches EXCEPT ![s] = Attached(@, c)]
    /\ UNCHANGED state

\* Manual text: a stopped session, its chunk and its closed batch at once.
SubmitText(s, c) ==
    /\ s \in ManualSessions
    /\ state[s] = "none"
    /\ c \notin Known
    /\ state'   = [state   EXCEPT ![s] = "stopped"]
    /\ chunks'  = [chunks  EXCEPT ![s] = Append(@, c)]
    /\ batches' = [batches EXCEPT ![s] =
                      LET bs == Attached(@, c) IN Closed(bs, DOMAIN bs)]

\* A transition to paused, stopped or failed closes the collecting batch too.
UpdateSourceSession(s, st) ==
    /\ s \notin ManualSessions
    /\ state[s] # "none"
    /\ state'   = [state EXCEPT ![s] = st]
    /\ batches' = [batches EXCEPT ![s] =
                      IF st \in Ended THEN Closed(@, DOMAIN @) ELSE @]
    /\ UNCHANGED chunks

FinalizeSource(s) ==
    /\ state[s] # "none"
    /\ batches' = [batches EXCEPT ![s] = Closed(@, DOMAIN @)]
    /\ UNCHANGED <<state, chunks>>

\* Mutant of Swept: the deadlines are left to the next chunk.
SweptEnded(st) ==
    [s \in Sessions |->
        Closed(batches[s], IF st[s] \in Ended THEN DOMAIN batches[s] ELSE {})]

\* sweepBatches, over the sessions as st has them: overdue batches, and every
\* batch of a session that has ended.
Swept(st) ==
    [s \in Sessions |->
        Closed(batches[s], IF st[s] \in Ended THEN DOMAIN batches[s]
                                              ELSE OverdueIn(batches[s]))]

SweepBatches ==
    /\ batches' = Swept(state)
    /\ UNCHANGED <<state, chunks>>

\* StartAppRun: the sessions of a run that did not end fail, paused ones stay
\* resumable, and the same transaction sweeps.
StartAppRun ==
    /\ state'   = [s \in Sessions |-> IF state[s] \in {"starting", "running"}
                                      THEN "failed" ELSE state[s]]
    /\ batches' = Swept(state')
    /\ UNCHANGED chunks

\* A handler of the batch's extract job moves its status.
SetStatus(s, k, from, to) ==
    /\ k \in DOMAIN batches[s]
    /\ batches[s][k].jobs > 0
    /\ batches[s][k].status \in from
    /\ batches' = [batches EXCEPT ![s][k].status = to]
    /\ UNCHANGED <<state, chunks>>

\* Mutant of BeginExtraction: a job's status is written to the batch.
BeginRunning(s, k) ==
    SetStatus(s, k, {"ready", "failed", "extracting"}, "running")

BeginExtraction(s, k) ==
    SetStatus(s, k, {"ready", "failed", "extracting"}, "extracting")

\* Mutant of SaveBatchFailure: a late failure overwrites the result.
SaveLateFailure(s, k) == SetStatus(s, k, BatchStatuses \ {"collecting"}, "failed")

SaveBatchFailure(s, k) ==
    SetStatus(s, k, {"ready", "failed", "extracting"}, "failed")

SaveBatchExtraction(s, k) ==
    SetStatus(s, k, {"ready", "failed", "extracting"}, "extracted")

\* One unit of time passes.
Aged(b) ==
    [b EXCEPT !.age  = IF @ < MaxDuration THEN @ + 1 ELSE @,
              !.idle = IF @ < IdleTimeout THEN @ + 1 ELSE @]

Tick ==
    /\ batches' = [s \in Sessions |->
                      [k \in DOMAIN batches[s] |->
                          IF k \in Collecting(batches[s])
                          THEN Aged(batches[s][k]) ELSE batches[s][k]]]
    /\ UNCHANGED <<state, chunks>>

Extraction(s, k) ==
    BeginExtraction(s, k) \/ SaveBatchFailure(s, k) \/ SaveBatchExtraction(s, k)

Next ==
    \/ \E s \in Sessions :
          \/ SaveSourceSession(s)
          \/ \E c \in Chunks : SaveChunk(s, c) \/ SubmitText(s, c)
          \/ \E st \in SourceStates \ {"none"} : UpdateSourceSession(s, st)
          \/ FinalizeSource(s)
          \/ \E k \in DOMAIN batches[s] : Extraction(s, k)
    \/ SweepBatches
    \/ StartAppRun
    \/ Tick

Spec == Init /\ [][Next]_storeVars

\* Time passes, and the Coordinator's ticker sweeps while the application runs.
FairSpec == Spec /\ WF_storeVars(Tick) /\ WF_storeVars(SweepBatches)

-----------------------------------------------------------------------------
(* What batching promises.                                                 *)

\* Every stored chunk is in the focus of exactly one batch of its session, and
\* the batches read one after the other give the session's text in the order
\* it was stored (docs/pipeline.md section 3).
FocusPartitionsChunks ==
    \A s \in Sessions :
        FlattenSeq([k \in DOMAIN batches[s] |-> batches[s][k].focus]) = chunks[s]

\* Only the newest batch of a session collects.
OnlyNewestCollects ==
    \A s \in Sessions : Collecting(batches[s]) \subseteq {Len(batches[s])}

\* However often and from wherever a batch is closed, exactly one extract job
\* is queued for it, in the transaction that closes it.
OneJobPerClosedBatch ==
    \A s \in Sessions : \A k \in DOMAIN batches[s] :
        batches[s][k].jobs = IF k \in Collecting(batches[s]) THEN 0 ELSE 1

Shorter(a, b) == IF a < b THEN a ELSE b

\* Where the unfinished sentence at the end of a focus begins.
Unfinished(focus) ==
    LET ends == {i \in DOMAIN focus : focus[i] \in SentenceEnds}
    IN  IF ends = {} THEN 1 ELSE CHOOSE i \in ends : \A j \in ends : j <= i

\* What context rows keep of a chunk.
Kept(rows, c) ==
    IF \E r \in rows : r.chunk = c THEN (CHOOSE r \in rows : r.chunk = c).length ELSE 0

\* The rows keep of every end part of a focus what the limit allows of the
\* unfinished sentence in it: the chunks at the end come first.
Continues(rows, focus) ==
    LET kept == Sums([i \in DOMAIN focus |-> Kept(rows, focus[i])])
    IN  /\ \A r \in rows : /\ r.chunk \in ToSet(focus)
                           /\ \A q \in rows : q.chunk = r.chunk => q = r
        /\ \A i \in 0..Len(focus) :
              kept[Len(focus)] - kept[i]
                 = Shorter(TailLimit,
                           LengthAfter(focus, IF i < Unfinished(focus)
                                              THEN Unfinished(focus) - 1 ELSE i))

\* The context of a batch is what the limit allows of the unfinished sentence
\* of the batch just before it, and of that batch only, even if it is still
\* queued.
ContextContinuesPrevious ==
    \A s \in Sessions : \A k \in DOMAIN batches[s] :
        Continues(batches[s][k].context,
                  IF k = 1 THEN <<>> ELSE batches[s][k - 1].focus)

\* A batch that is closed is never reopened or added to, so every attempt to
\* extract it sees the same input, and an extracted batch is final.
ClosedIsFrozen ==
    [][\A s \in Sessions : \A k \in DOMAIN batches[s] \ Collecting(batches[s]) :
          LET old == batches[s][k]  new == batches'[s][k]
          IN  /\ new.focus = old.focus /\ new.context = old.context
              /\ new.status # "collecting"
              /\ old.status = "extracted" => new.status = "extracted"]_storeVars

\* No batch collects for ever: the text of every session is handed to
\* extraction, whatever became of its source.
CollectingEnds ==
    \A s \in Sessions :
        Collecting(batches[s]) # {} ~>
            \A k \in DOMAIN batches[s] : batches[s][k].status # "collecting"

\* The text of a session that still collects, and what has been closed.
Open(bs)    == IF Collecting(bs) = {} THEN <<>> ELSE bs[Len(bs)].focus
Windows(bs) == [k \in 1 .. (IF Collecting(bs) = {} THEN Len(bs) ELSE Len(bs) - 1)
                   |-> bs[k].focus]

Intake == INSTANCE TextIntake WITH
    open    <- [s \in Sessions |-> Open(batches[s])],
    windows <- [s \in Sessions |-> Windows(batches[s])]

\* Batching implements the abstract intake of text.
ImplementsIntake == Intake!Spec
=============================================================================
