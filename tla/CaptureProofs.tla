---------------------------- MODULE CaptureProofs ----------------------------
(***************************************************************************)
(* Theorems about Batches and Sources, for any sessions, chunks, deadlines *)
(* and context limit, and any number of callers and capture goroutines.    *)
(***************************************************************************)
EXTENDS Sources, NumberLemmas

-----------------------------------------------------------------------------
(* Partial sums, and the type of the context rows.                         *)

\* g holds the first n partial sums of f.
IsSum(g, f, n) == \A i \in 0..n : g[i] = IF i = 0 THEN 0 ELSE g[i - 1] + f[i]

\* What the definition of Sums says, and its type.
LEMMA SumsDef ==
    ASSUME NEW f \in Seq(Nat)
    PROVE  /\ Sums(f) \in [0..Len(f) -> Nat]
           /\ Sums(f)[0] = 0
           /\ \A n \in 1..Len(f) : Sums(f)[n] = Sums(f)[n - 1] + f[n]
<1> DEFINE S == {n \in Nat : n <= Len(f) => \E g \in [0..n -> Nat] : IsSum(g, f, n)}
<1>1. 0 \in S
  <2>1. [i \in 0..0 |-> 0] \in [0..0 -> Nat] /\ IsSum([i \in 0..0 |-> 0], f, 0)
    BY DEF IsSum
  <2>2. QED
    BY <2>1
<1>2. ASSUME NEW n \in Nat, n \in S
      PROVE  n + 1 \in S
  <2> SUFFICES ASSUME n + 1 <= Len(f)
               PROVE  \E g \in [0..n + 1 -> Nat] : IsSum(g, f, n + 1)
    OBVIOUS
  <2>1. PICK g \in [0..n -> Nat] : IsSum(g, f, n)
    BY <1>2
  <2> DEFINE h == [i \in 0..n + 1 |-> IF i <= n THEN g[i] ELSE g[n] + f[n + 1]]
  <2>2. h \in [0..n + 1 -> Nat]
    OBVIOUS
  <2>3. ASSUME NEW i \in 0..n + 1
        PROVE  h[i] = IF i = 0 THEN 0 ELSE h[i - 1] + f[i]
    <3>1. CASE i <= n
      <4>1. h[i] = g[i] /\ (i # 0 => h[i - 1] = g[i - 1])
        BY <3>1
      <4>2. QED
        BY <2>1, <3>1, <4>1 DEF IsSum
    <3>2. CASE i = n + 1
      BY <3>2
    <3>3. QED
      BY <3>1, <3>2
  <2> HIDE DEF h
  <2>4. QED
    BY <2>2, <2>3 DEF IsSum
<1> HIDE DEF S
<1>3. Len(f) \in S
  BY <1>1, <1>2, Induction
<1>4. PICK g \in [0..Len(f) -> Nat] : IsSum(g, f, Len(f))
  BY <1>3 DEF S
<1>5. g = [n \in 0..Len(f) |-> IF n = 0 THEN 0 ELSE g[n - 1] + f[n]]
  <2>1. g = [n \in 0..Len(f) |-> g[n]]
    BY <1>4
  <2>2. QED
    BY <1>4, <2>1 DEF IsSum
<1>6. Sums(f) = [n \in 0..Len(f) |-> IF n = 0 THEN 0 ELSE Sums(f)[n - 1] + f[n]]
  BY <1>5 DEF Sums
<1>7. Sums(f)[0] = 0 /\ \A n \in 1..Len(f) : Sums(f)[n] = Sums(f)[n - 1] + f[n]
  BY <1>6, SMTT(30)
<1> DEFINE N == {n \in Nat : n <= Len(f) => Sums(f)[n] \in Nat}
<1>8. 0 \in N
  BY <1>7
<1>9. ASSUME NEW n \in Nat, n \in N
      PROVE  n + 1 \in N
  <2> SUFFICES ASSUME n + 1 <= Len(f) PROVE Sums(f)[n + 1] \in Nat
    OBVIOUS
  <2>1. n + 1 \in 1..Len(f) /\ (n + 1) - 1 = n
    OBVIOUS
  <2>2. Sums(f)[n + 1] = Sums(f)[n] + f[n + 1]
    BY <1>7, <2>1
  <2>3. Sums(f)[n] \in Nat
    BY <1>9
  <2>4. QED
    BY <2>1, <2>2, <2>3
<1> HIDE DEF N
<1>10. \A n \in Nat : n \in N
  BY <1>8, <1>9, Induction
<1>11. \A n \in 0..Len(f) : Sums(f)[n] \in Nat
  BY <1>10 DEF N
<1>12. Sums(f) \in [0..Len(f) -> Nat]
  <2>1. Sums(f) = [n \in 0..Len(f) |-> Sums(f)[n]]
    BY <1>6
  <2>2. QED
    BY <1>11, <2>1
<1>13. QED
  BY <1>7, <1>12

\* The lengths of the chunks of a focus.
LEMMA LengthsType ==
    ASSUME NEW focus \in Seq(Chunks)
    PROVE  [i \in DOMAIN focus |-> SuffixLength[focus[i]]] \in Seq(Nat)
  BY ChunksAssumption

LEMMA LeftAfterType ==
    ASSUME NEW focus \in Seq(Chunks), NEW i \in 0..Len(focus)
    PROVE  LengthAfter(focus, i) \in Int /\ LeftAfter(focus, i) \in Int
<1> DEFINE f == [n \in DOMAIN focus |-> SuffixLength[focus[n]]]
<1>1. f \in Seq(Nat) /\ Len(f) = Len(focus)
  BY LengthsType
<1>2. Sums(f) \in [0..Len(focus) -> Nat]
  BY <1>1, SumsDef
<1> HIDE DEF f
<1>3. Sums(f)[Len(focus)] \in Nat /\ Sums(f)[i] \in Nat
  BY <1>2
<1>4. QED
  BY <1>3, PolicyAssumption DEF LengthAfter, LeftAfter, f

LEMMA ContextTailType ==
    ASSUME NEW focus \in Seq(Chunks)
    PROVE  ContextTail(focus) \in SUBSET Context
<1> SUFFICES ASSUME NEW i \in DOMAIN focus, LeftAfter(focus, i) > 0
             PROVE  [chunk  |-> focus[i],
                     length |-> IF SuffixLength[focus[i]] > LeftAfter(focus, i)
                                THEN LeftAfter(focus, i)
                                ELSE SuffixLength[focus[i]]] \in Context
  BY DEF ContextTail
<1>1. LeftAfter(focus, i) \in Nat
  BY LeftAfterType
<1>2. SuffixLength[focus[i]] \in Nat /\ focus[i] \in Chunks
  BY ChunksAssumption
<1>3. QED
  BY <1>1, <1>2 DEF Context

-----------------------------------------------------------------------------
(* The helpers on the batches of one session.                              *)

\* What holds of the batches of every session at any time.
BatchesOK(bs) ==
    /\ bs \in Seq(Batch)
    /\ Collecting(bs) \subseteq {Len(bs)}
    /\ \A k \in DOMAIN bs : /\ bs[k].focus # <<>>
                            /\ bs[k].jobs = IF k \in Collecting(bs) THEN 0 ELSE 1

\* One batch closed, and one lengthened.
LEMMA ClosedBatch ==
    ASSUME NEW b \in Batch, b.jobs = 0
    PROVE  LET d == [b EXCEPT !.status = "ready", !.jobs = @ + 1]
           IN  /\ d \in Batch
               /\ d.focus = b.focus /\ d.context = b.context
               /\ d.status = "ready" /\ d.jobs = 1
<1> DEFINE e == [b EXCEPT !.status = "ready"]
<1>1. /\ e \in Batch /\ e.status = "ready" /\ e.jobs = 0
      /\ e.focus = b.focus /\ e.context = b.context
  BY DEF Batch, BatchStatuses
<1> HIDE DEF e
<1>2. /\ [e EXCEPT !.jobs = @ + 1] \in Batch
      /\ [e EXCEPT !.jobs = @ + 1].status = "ready"
      /\ [e EXCEPT !.jobs = @ + 1].jobs = 1
      /\ [e EXCEPT !.jobs = @ + 1].focus = b.focus
      /\ [e EXCEPT !.jobs = @ + 1].context = b.context
  BY <1>1 DEF Batch
<1>3. b.jobs = e.jobs
  BY <1>1
<1>4. [b EXCEPT !.status = "ready", !.jobs = @ + 1] = [e EXCEPT !.jobs = @ + 1]
  BY <1>3 DEF e
<1>5. QED
  BY <1>2, <1>4

LEMMA LongerBatch ==
    ASSUME NEW b \in Batch, NEW c \in Chunks,
           NEW d, d = [b EXCEPT !.focus = Append(@, c), !.idle = 0]
    PROVE  /\ d \in Batch
           /\ d.status = b.status /\ d.jobs = b.jobs /\ d.context = b.context
           /\ d.focus = Append(b.focus, c) /\ d.focus # <<>>
<1>1. b.focus \in Seq(Chunks) /\ Append(b.focus, c) \in Seq(Chunks)
  BY DEF Batch
<1>2. Append(b.focus, c) # <<>>
  BY <1>1
<1>3. 0 \in 0..IdleTimeout
  BY PolicyAssumption
<1>4. QED
  BY <1>1, <1>2, <1>3 DEF Batch

\* Closing keeps the batches and what they hold; the closed ones no longer
\* collect.
LEMMA ClosedBatches ==
    ASSUME NEW bs, BatchesOK(bs), NEW K
    PROVE  /\ BatchesOK(Closed(bs, K))
           /\ DOMAIN Closed(bs, K) = DOMAIN bs
           /\ Len(Closed(bs, K)) = Len(bs)
           /\ Collecting(Closed(bs, K)) = Collecting(bs) \ K
           /\ \A k \in DOMAIN bs :
                 /\ Closed(bs, K)[k].focus = bs[k].focus
                 /\ Closed(bs, K)[k].context = bs[k].context
                 /\ k \notin Collecting(bs) => Closed(bs, K)[k] = bs[k]
<1> DEFINE cl == Closed(bs, K)
<1>1. bs \in Seq(Batch) /\ Len(bs) \in Nat /\ DOMAIN bs = 1..Len(bs)
  BY DEF BatchesOK
<1>2. ASSUME NEW k \in DOMAIN bs, k \in K \cap Collecting(bs)
      PROVE  /\ cl[k] \in Batch
             /\ cl[k].focus = bs[k].focus /\ cl[k].context = bs[k].context
             /\ cl[k].status = "ready" /\ cl[k].jobs = 1
  <2>1. bs[k] \in Batch /\ bs[k].jobs = 0
    BY <1>1, <1>2 DEF BatchesOK
  <2>2. cl[k] = [bs[k] EXCEPT !.status = "ready", !.jobs = @ + 1]
    BY <1>2 DEF Closed
  <2> HIDE DEF cl
  <2>3. QED
    BY <2>1, <2>2, ClosedBatch
<1>3. ASSUME NEW k \in DOMAIN bs, k \notin K \cap Collecting(bs)
      PROVE  cl[k] = bs[k] /\ cl[k] \in Batch
  BY <1>1, <1>3 DEF Closed
<1>4. DOMAIN cl = DOMAIN bs /\ cl \in Seq(Batch) /\ Len(cl) = Len(bs)
  <2>1. cl = [k \in 1..Len(bs) |-> cl[k]]
    BY <1>1 DEF Closed
  <2>2. \A k \in 1..Len(bs) : cl[k] \in Batch
    BY <1>1, <1>2, <1>3
  <2> HIDE DEF cl
  <2>3. QED
    BY <1>1, <2>1, <2>2
<1>5. Collecting(cl) = Collecting(bs) \ K
  BY <1>2, <1>3, <1>4 DEF Collecting
<1>6. BatchesOK(cl)
  BY <1>2, <1>3, <1>4, <1>5 DEF BatchesOK
<1>7. QED
  BY <1>2, <1>3, <1>4, <1>5, <1>6

\* The new batch is well-typed, collects, and holds its chunk.
LEMMA NewBatchType ==
    ASSUME NEW bs, BatchesOK(bs), NEW c \in Chunks
    PROVE  /\ NewBatch(bs, c) \in Batch
           /\ NewBatch(bs, c).status = "collecting"
           /\ NewBatch(bs, c).focus = <<c>>
           /\ NewBatch(bs, c).jobs = 0
           /\ NewBatch(bs, c).context = IF bs = <<>> THEN {}
                                        ELSE ContextTail(bs[Len(bs)].focus)
<1>1. NewBatch(bs, c).context \in SUBSET Context
  <2>1. CASE bs = <<>>
    BY <2>1 DEF NewBatch
  <2>2. CASE bs # <<>>
    <3>1. bs[Len(bs)].focus \in Seq(Chunks)
      <4>1. bs \in Seq(Batch) /\ Len(bs) \in DOMAIN bs
        BY <2>2 DEF BatchesOK
      <4>2. bs[Len(bs)] \in Batch
        BY <4>1
      <4>3. QED
        BY <4>2 DEF Batch
    <3>2. QED
      BY <2>2, <3>1, ContextTailType DEF NewBatch
  <2>3. QED
    BY <2>1, <2>2
<1>2. QED
  BY <1>1, PolicyAssumption DEF NewBatch, Batch, BatchStatuses

\* Attaching a chunk appends a batch of that chunk when none is left to take
\* it, and otherwise lengthens the newest batch, which collects.
LEMMA AttachedBatches ==
    ASSUME NEW bs, BatchesOK(bs), NEW c \in Chunks
    PROVE  LET kept == Closed(bs, OverdueIn(bs))
               at   == Attached(bs, c)
           IN  /\ BatchesOK(at)
               /\ at # <<>>
               /\ Collecting(at) = {Len(at)}
               /\ \A k \in DOMAIN bs \ Collecting(bs) : at[k] = bs[k]
               /\ \/ /\ Collecting(kept) = {}
                     /\ at = Append(kept, NewBatch(kept, c))
                  \/ /\ Collecting(bs) = {Len(bs)} /\ bs # <<>>
                     /\ Collecting(kept) = Collecting(bs)
                     /\ Len(at) = Len(bs)
                     /\ \A k \in DOMAIN bs : k # Len(bs) => at[k] = bs[k]
                     /\ at[Len(at)].focus = Append(bs[Len(bs)].focus, c)
                     /\ at[Len(at)].context = bs[Len(bs)].context
<1> DEFINE kept == Closed(bs, OverdueIn(bs))
           at   == Attached(bs, c)
<1>1. /\ BatchesOK(kept) /\ DOMAIN kept = DOMAIN bs /\ Len(kept) = Len(bs)
      /\ Collecting(kept) \subseteq Collecting(bs)
      /\ \A k \in DOMAIN bs : /\ kept[k].focus = bs[k].focus
                              /\ kept[k].context = bs[k].context
                              /\ k \notin Collecting(bs) => kept[k] = bs[k]
  BY ClosedBatches
<1>2. /\ bs \in Seq(Batch) /\ kept \in Seq(Batch) /\ Len(bs) \in Nat
      /\ DOMAIN bs = 1..Len(bs) /\ DOMAIN kept = 1..Len(bs)
      /\ Collecting(bs) \subseteq {Len(bs)}
  BY <1>1 DEF BatchesOK
<1>3. CASE Collecting(kept) = {}
  <2> DEFINE b == NewBatch(kept, c)
  <2>1. at = Append(kept, b)
    BY <1>3 DEF Attached
  <2>2. b \in Batch /\ b.status = "collecting" /\ b.focus = <<c>> /\ b.jobs = 0
    BY <1>1, NewBatchType
  <2> HIDE DEF kept, at, b
  <2>3. /\ at \in Seq(Batch) /\ Len(at) = Len(bs) + 1 /\ at[Len(bs) + 1] = b
        /\ \A k \in 1..Len(bs) : at[k] = kept[k]
    BY <1>1, <1>2, <2>1, <2>2
  <2>4. Collecting(at) = {Len(at)}
    BY <1>2, <1>3, <2>2, <2>3 DEF Collecting
  <2>5. \A k \in DOMAIN at : /\ at[k].focus # <<>>
                             /\ at[k].jobs = IF k \in Collecting(at) THEN 0 ELSE 1
    <3> SUFFICES ASSUME NEW k \in DOMAIN at
                 PROVE  /\ at[k].focus # <<>>
                        /\ at[k].jobs = IF k \in Collecting(at) THEN 0 ELSE 1
      OBVIOUS
    <3>1. CASE k = Len(bs) + 1
      <4>1. <<c>> # <<>>
        OBVIOUS
      <4>2. k \in Collecting(at) /\ at[k] = b
        BY <2>3, <2>4, <3>1
      <4>3. QED
        BY <2>2, <4>1, <4>2
    <3>2. CASE k \in 1..Len(bs)
      BY <1>1, <1>2, <1>3, <2>3, <2>4, <3>2 DEF BatchesOK
    <3>3. QED
      BY <1>2, <2>3, <3>1, <3>2
  <2>6. \A k \in DOMAIN bs \ Collecting(bs) : at[k] = bs[k]
    BY <1>1, <1>2, <2>3
  <2>7. QED
    BY <1>3, <2>1, <2>3, <2>4, <2>5, <2>6 DEF BatchesOK, kept, at, b
<1>4. CASE Collecting(kept) # {}
  <2> DEFINE n == Len(bs)
  <2>1. Collecting(kept) = {n} /\ Collecting(bs) = {n} /\ n \in DOMAIN bs
    BY <1>1, <1>2, <1>4 DEF Collecting
  <2>2. n \notin OverdueIn(bs)
    BY <2>1, ClosedBatches
  <2>3. kept[n] = bs[n]
    BY <2>1, <2>2 DEF Closed
  <2>4. at = [k \in DOMAIN kept |->
                 IF k = n THEN [kept[k] EXCEPT !.focus = Append(@, c), !.idle = 0]
                          ELSE kept[k]]
    BY <2>1 DEF Attached
  <2>5. bs[n] \in Batch /\ bs[n].status = "collecting" /\ bs[n].jobs = 0
    BY <1>2, <2>1 DEF BatchesOK, Collecting
  <2>6. /\ at[n] = [bs[n] EXCEPT !.focus = Append(@, c), !.idle = 0]
        /\ \A k \in DOMAIN bs : k # n => at[k] = kept[k] /\ kept[k] = bs[k]
        /\ at = [k \in 1..n |-> at[k]]
    BY <1>1, <1>2, <2>1, <2>3, <2>4
  <2> HIDE DEF kept, at
  <2>7. /\ at[n] \in Batch /\ at[n].status = "collecting" /\ at[n].jobs = 0
        /\ at[n].focus = Append(bs[n].focus, c) /\ at[n].context = bs[n].context
        /\ at[n].focus # <<>>
    <3>1. PICK b \in Batch : b = bs[n]
      BY <2>5
    <3>2. PICK d : d = at[n]
      OBVIOUS
    <3>3. d = [b EXCEPT !.focus = Append(@, c), !.idle = 0]
      BY <2>6, <3>1, <3>2
    <3>4. /\ d \in Batch /\ d.status = b.status /\ d.jobs = b.jobs
          /\ d.context = b.context /\ d.focus = Append(b.focus, c) /\ d.focus # <<>>
      BY <3>3, LongerBatch
    <3>5. QED
      BY <2>5, <3>1, <3>2, <3>4
  <2>8. at \in Seq(Batch) /\ Len(at) = n /\ DOMAIN at = DOMAIN bs
    BY <1>2, <2>6, <2>7
  <2>9. Collecting(at) = {n}
    BY <1>2, <2>1, <2>6, <2>7, <2>8 DEF Collecting
  <2>10. BatchesOK(at)
    <3>1. ASSUME NEW k \in DOMAIN at, k # n
          PROVE  at[k].focus # <<>> /\ at[k].jobs = 1
      BY <2>1, <2>6, <2>8, <3>1 DEF BatchesOK
    <3>2. QED
      BY <2>7, <2>8, <2>9, <3>1 DEF BatchesOK
  <2>11. at # <<>> /\ bs # <<>>
    BY <1>2, <2>1, <2>8
  <2>12. \A k \in DOMAIN bs \ Collecting(bs) : at[k] = bs[k]
    BY <2>1, <2>6
  <2>13. QED
    BY <2>1, <2>6, <2>7, <2>8, <2>9, <2>10, <2>11, <2>12 DEF kept, at
<1>5. QED
  BY <1>3, <1>4

-----------------------------------------------------------------------------
(* The steps of the store.                                                 *)

\* The batches of a session before and after a step that stores no text:
\* closed or not, aged, or moved by their extraction.
Touched(bs, new) ==
    /\ BatchesOK(new)
    /\ DOMAIN new = DOMAIN bs
    /\ Len(new) = Len(bs)
    /\ Collecting(new) \subseteq Collecting(bs)
    /\ \A k \in DOMAIN bs : /\ new[k].focus = bs[k].focus
                            /\ new[k].context = bs[k].context
                            /\ bs[k].status = "extracted" => new[k].status = "extracted"

LEMMA ClosedTouches ==
    ASSUME NEW bs, BatchesOK(bs), NEW K
    PROVE  Touched(bs, Closed(bs, K))
  BY ClosedBatches DEF Touched, Collecting

LEMMA SetStatusTouches ==
    ASSUME NEW bs, BatchesOK(bs), NEW k \in DOMAIN bs, bs[k].jobs > 0,
           NEW to \in BatchStatuses \ {"collecting"},
           bs[k].status = "extracted" => to = "extracted"
    PROVE  Touched(bs, [bs EXCEPT ![k].status = to])
<1> DEFINE b   == [bs[k] EXCEPT !.status = to]
           new == [bs EXCEPT ![k].status = to]
<1>1. bs \in Seq(Batch) /\ DOMAIN bs = 1..Len(bs) /\ Len(bs) \in Nat /\ bs[k] \in Batch
  BY DEF BatchesOK
<1>2. k \notin Collecting(bs)
  BY <1>1 DEF BatchesOK
<1>3. /\ b \in Batch /\ b.status = to /\ b.focus = bs[k].focus
      /\ b.context = bs[k].context /\ b.jobs = bs[k].jobs
  BY <1>1 DEF Batch, BatchStatuses
<1> HIDE DEF b
<1>4. new = [i \in 1..Len(bs) |-> IF i = k THEN b ELSE bs[i]]
  BY <1>1 DEF b
<1> HIDE DEF new
<1>5. new \in Seq(Batch) /\ DOMAIN new = DOMAIN bs /\ Len(new) = Len(bs)
  BY <1>1, <1>3, <1>4
<1>6. \A i \in DOMAIN bs : new[i] = IF i = k THEN b ELSE bs[i]
  BY <1>1, <1>4
<1>7. Collecting(new) = Collecting(bs)
  BY <1>2, <1>3, <1>5, <1>6 DEF Collecting
<1>8. BatchesOK(new)
  BY <1>3, <1>5, <1>6, <1>7 DEF BatchesOK
<1>9. Touched(bs, new)
  BY <1>3, <1>5, <1>6, <1>7, <1>8 DEF Touched
<1>10. QED
  BY <1>9 DEF new

LEMMA AgeingTouches ==
    ASSUME NEW bs, BatchesOK(bs)
    PROVE  Touched(bs, [k \in DOMAIN bs |-> IF k \in Collecting(bs)
                                            THEN Aged(bs[k]) ELSE bs[k]])
<1> DEFINE new == [k \in DOMAIN bs |-> IF k \in Collecting(bs)
                                       THEN Aged(bs[k]) ELSE bs[k]]
<1>1. bs \in Seq(Batch) /\ DOMAIN bs = 1..Len(bs) /\ Len(bs) \in Nat
  BY DEF BatchesOK
<1>2. ASSUME NEW k \in DOMAIN bs
      PROVE  /\ Aged(bs[k]) \in Batch
             /\ Aged(bs[k]).status = bs[k].status /\ Aged(bs[k]).jobs = bs[k].jobs
             /\ Aged(bs[k]).focus = bs[k].focus /\ Aged(bs[k]).context = bs[k].context
  <2>1. bs[k] \in Batch
    BY <1>1
  <2>2. /\ bs[k].age < MaxDuration => bs[k].age + 1 \in 0..MaxDuration
        /\ bs[k].idle < IdleTimeout => bs[k].idle + 1 \in 0..IdleTimeout
    BY <2>1, PolicyAssumption DEF Batch
  <2> DEFINE a == IF bs[k].age < MaxDuration THEN bs[k].age + 1 ELSE bs[k].age
             i == IF bs[k].idle < IdleTimeout THEN bs[k].idle + 1 ELSE bs[k].idle
             e == [bs[k] EXCEPT !.age = a]
  <2>3. a \in 0..MaxDuration /\ i \in 0..IdleTimeout
    BY <2>1, <2>2 DEF Batch
  <2> HIDE DEF a, i
  <2>4. /\ e \in Batch /\ e.status = bs[k].status /\ e.jobs = bs[k].jobs
        /\ e.focus = bs[k].focus /\ e.context = bs[k].context /\ e.idle = bs[k].idle
    BY <2>1, <2>3 DEF Batch
  <2> HIDE DEF e
  <2>5. LET d == [e EXCEPT !.idle = i]
        IN  /\ d \in Batch /\ d.status = e.status /\ d.jobs = e.jobs
            /\ d.focus = e.focus /\ d.context = e.context
    BY <2>3, <2>4 DEF Batch
  <2>6. Aged(bs[k]) = [e EXCEPT !.idle = i]
    BY <2>4 DEF Aged, e, a, i
  <2>7. QED
    BY <2>4, <2>5, <2>6
<1>3. new \in Seq(Batch) /\ DOMAIN new = DOMAIN bs /\ Len(new) = Len(bs)
  <2>1. \A k \in 1..Len(bs) : new[k] \in Batch
    BY <1>1, <1>2
  <2>2. new = [k \in 1..Len(bs) |-> new[k]]
    BY <1>1
  <2> HIDE DEF new
  <2>3. QED
    BY <1>1, <2>1, <2>2
<1>4. \A k \in DOMAIN bs : new[k] = IF k \in Collecting(bs) THEN Aged(bs[k]) ELSE bs[k]
  OBVIOUS
<1> HIDE DEF new
<1>5. Collecting(new) = Collecting(bs)
  BY <1>2, <1>3, <1>4 DEF Collecting
<1>6. BatchesOK(new)
  BY <1>2, <1>3, <1>4, <1>5 DEF BatchesOK
<1>7. Touched(bs, new)
  BY <1>2, <1>3, <1>4, <1>5, <1>6 DEF Touched
<1>8. QED
  BY <1>7 DEF new

\* The inductive invariant of the rows, apart from what the batches hold.
RowsInv ==
    /\ state   \in [Sessions -> SourceStates]
    /\ chunks  \in [Sessions -> Seq(Chunks)]
    /\ batches = [s \in Sessions |-> batches[s]]
    /\ \A s \in Sessions : /\ BatchesOK(batches[s])
                           /\ state[s] = "none" => batches[s] = <<>>

\* A step that stores no text.
NothingStored ==
    /\ chunks' = chunks
    /\ \A s \in Sessions : Touched(batches[s], batches'[s])

\* A step that stores one new chunk: it is attached, and for manual text the
\* batches are closed at once.
ChunkStored(s, c) ==
    /\ c \notin Known
    /\ chunks' = [chunks EXCEPT ![s] = Append(@, c)]
    /\ \A t \in Sessions \ {s} : batches'[t] = batches[t]
    /\ \/ batches'[s] = Attached(batches[s], c)
       \/ /\ batches[s] = <<>>
          /\ batches'[s] = Closed(Attached(batches[s], c), DOMAIN Attached(batches[s], c))

LEMMA UntouchedTouches ==
    ASSUME NEW bs, BatchesOK(bs)
    PROVE  Touched(bs, bs)
  BY DEF Touched

\* Every step of the store stores one new chunk or none.
LEMMA StoreStep ==
    ASSUME RowsInv, [Next]_storeVars
    PROVE  /\ batches' = [s \in Sessions |-> batches'[s]]
           /\ state' \in [Sessions -> SourceStates]
           /\ \A s \in Sessions : state'[s] = "none" => state[s] = "none" /\ batches'[s] = batches[s]
           /\ NothingStored \/ \E s \in Sessions, c \in Chunks : ChunkStored(s, c)
<1> DEFINE Goal == /\ batches' = [s \in Sessions |-> batches'[s]]
                   /\ state' \in [Sessions -> SourceStates]
                   /\ \A s \in Sessions : state'[s] = "none" =>
                                             state[s] = "none" /\ batches'[s] = batches[s]
                   /\ NothingStored \/ \E s \in Sessions, c \in Chunks : ChunkStored(s, c)
<1>1. /\ state \in [Sessions -> SourceStates] /\ chunks \in [Sessions -> Seq(Chunks)]
      /\ batches = [s \in Sessions |-> batches[s]]
      /\ \A s \in Sessions : BatchesOK(batches[s]) /\ (state[s] = "none" => batches[s] = <<>>)
  BY DEF RowsInv
<1>2. \A s \in Sessions : Touched(batches[s], batches[s])
  BY <1>1, UntouchedTouches
\* One session's batches are closed, or moved by a handler.
<1>3. ASSUME NEW s \in Sessions, NEW bs, batches' = [batches EXCEPT ![s] = bs],
             Touched(batches[s], bs), chunks' = chunks
      PROVE  NothingStored /\ batches' = [t \in Sessions |-> batches'[t]]
  <2>1. batches' = [t \in Sessions |-> IF t = s THEN bs ELSE batches[t]]
    BY <1>1, <1>3
  <2>2. \A t \in Sessions : Touched(batches[t], batches'[t])
    BY <1>2, <1>3, <2>1
  <2>3. QED
    BY <1>3, <2>1, <2>2 DEF NothingStored
<1>4. ASSUME NEW s \in Sessions, SaveSourceSession(s)
      PROVE  Goal
  BY <1>1, <1>2, <1>4 DEF SaveSourceSession, NothingStored, SourceStates
<1>5. ASSUME NEW s \in Sessions, NEW c \in Chunks, SaveChunk(s, c)
      PROVE  Goal
  <2>1. ChunkStored(s, c)
    BY <1>1, <1>5 DEF SaveChunk, ChunkStored
  <2>2. QED
    BY <1>1, <1>5, <2>1 DEF SaveChunk
<1>6. ASSUME NEW s \in Sessions, NEW c \in Chunks, SubmitText(s, c)
      PROVE  Goal
  <2>1. ChunkStored(s, c)
    BY <1>1, <1>6 DEF SubmitText, ChunkStored
  <2>2. QED
    BY <1>1, <1>6, <2>1 DEF SubmitText, SourceStates
<1>7. ASSUME NEW s \in Sessions, NEW st \in SourceStates \ {"none"}, UpdateSourceSession(s, st)
      PROVE  Goal
  <2> DEFINE bs == IF st \in Ended THEN Closed(batches[s], DOMAIN batches[s]) ELSE batches[s]
  <2>1. Touched(batches[s], bs)
    BY <1>1, <1>2, ClosedTouches
  <2>2. batches' = [batches EXCEPT ![s] = bs] /\ chunks' = chunks
    BY <1>7 DEF UpdateSourceSession
  <2> HIDE DEF bs
  <2>3. NothingStored /\ batches' = [t \in Sessions |-> batches'[t]]
    BY <1>3, <2>1, <2>2
  <2>4. QED
    BY <1>1, <1>7, <2>2, <2>3 DEF UpdateSourceSession
<1>8. ASSUME NEW s \in Sessions, FinalizeSource(s)
      PROVE  Goal
  <2> DEFINE bs == Closed(batches[s], DOMAIN batches[s])
  <2>1. Touched(batches[s], bs)
    BY <1>1, ClosedTouches
  <2>2. batches' = [batches EXCEPT ![s] = bs] /\ chunks' = chunks
    BY <1>8 DEF FinalizeSource
  <2> HIDE DEF bs
  <2>3. NothingStored /\ batches' = [t \in Sessions |-> batches'[t]]
    BY <1>3, <2>1, <2>2
  <2>4. QED
    BY <1>1, <1>8, <2>2, <2>3 DEF FinalizeSource
<1>9. ASSUME NEW s \in Sessions, NEW k \in DOMAIN batches[s], Extraction(s, k)
      PROVE  Goal
  <2>1. PICK to \in {"extracting", "failed", "extracted"} :
           SetStatus(s, k, {"ready", "failed", "extracting"}, to)
    BY <1>9 DEF Extraction, BeginExtraction, SaveBatchFailure, SaveBatchExtraction
  <2>2. Touched(batches[s], [batches[s] EXCEPT ![k].status = to])
    BY <1>1, <2>1, SetStatusTouches DEF SetStatus, BatchStatuses
  <2>3. batches' = [batches EXCEPT ![s] = [batches[s] EXCEPT ![k].status = to]]
    BY <2>1 DEF SetStatus
  <2>4. NothingStored /\ batches' = [t \in Sessions |-> batches'[t]]
    BY <1>3, <2>1, <2>2, <2>3 DEF SetStatus
  <2>5. state' = state /\ state[s] # "none"
    BY <1>1, <1>9, <2>1 DEF SetStatus
  <2>6. QED
    BY <1>1, <2>3, <2>4, <2>5
<1>10. ASSUME NEW st \in [Sessions -> SourceStates], state' = st,
              \A s \in Sessions : st[s] = "none" => state[s] = "none",
              batches' = Swept(st), chunks' = chunks
       PROVE  Goal
  <2>1. ASSUME NEW s \in Sessions
        PROVE  \E K : batches'[s] = Closed(batches[s], K)
    BY <1>10 DEF Swept
  <2>2. \A s \in Sessions : Touched(batches[s], batches'[s])
    BY <1>1, <2>1, ClosedTouches
  <2>3. batches' = [s \in Sessions |-> batches'[s]]
    BY <1>10 DEF Swept
  <2>4. ASSUME NEW s \in Sessions, st[s] = "none"
        PROVE  batches'[s] = batches[s]
    <3>1. batches[s] = <<>>
      BY <1>1, <1>10, <2>4
    <3>2. BatchesOK(batches'[s]) /\ Len(batches'[s]) = 0
      BY <2>2, <3>1 DEF Touched
    <3>3. QED
      BY <3>1, <3>2 DEF BatchesOK
  <2>5. QED
    BY <1>10, <2>2, <2>3, <2>4 DEF NothingStored
<1>11. CASE SweepBatches
  BY <1>1, <1>10, <1>11 DEF SweepBatches
<1>12. CASE StartAppRun
  <2>1. /\ state' \in [Sessions -> SourceStates]
        /\ \A s \in Sessions : state'[s] = "none" => state[s] = "none"
    BY <1>1, <1>12 DEF StartAppRun, SourceStates
  <2>2. QED
    BY <1>10, <1>12, <2>1 DEF StartAppRun
<1>13. CASE Tick
  <2>1. ASSUME NEW s \in Sessions
        PROVE  Touched(batches[s], batches'[s])
    BY <1>1, <1>13, AgeingTouches DEF Tick
  <2>2. batches' = [s \in Sessions |-> batches'[s]]
    BY <1>13 DEF Tick
  <2>3. ASSUME NEW s \in Sessions, state[s] = "none"
        PROVE  batches'[s] = batches[s]
    <3>1. batches[s] = <<>>
      BY <1>1, <2>3
    <3>2. BatchesOK(batches'[s]) /\ Len(batches'[s]) = 0
      BY <2>1, <3>1 DEF Touched
    <3>3. QED
      BY <3>1, <3>2 DEF BatchesOK
  <2>4. QED
    BY <1>1, <1>13, <2>1, <2>2, <2>3 DEF Tick, NothingStored
<1>14. CASE UNCHANGED storeVars
  BY <1>1, <1>2, <1>14 DEF storeVars, NothingStored
<1>15. QED
  BY <1>4, <1>5, <1>6, <1>7, <1>8, <1>9, <1>11, <1>12, <1>13, <1>14 DEF Next

-----------------------------------------------------------------------------
(* The context of a batch.                                                 *)

Distinct(f) == \A i, j \in DOMAIN f : f[i] = f[j] => i = j

\* A position is past the last sentence end, or at it, exactly from where the
\* unfinished sentence begins.
LEMMA UnfinishedDef ==
    ASSUME NEW focus \in Seq(Chunks)
    PROVE  /\ Unfinished(focus) \in 1..Len(focus) + 1
           /\ Len(focus) > 0 => Unfinished(focus) <= Len(focus)
           /\ \A i \in 1..Len(focus) :
                 (\A m \in i + 1..Len(focus) : focus[m] \notin SentenceEnds)
                    <=> i >= Unfinished(focus)
<1> DEFINE n    == Len(focus)
           ends == {i \in DOMAIN focus : focus[i] \in SentenceEnds}
<1>1. n \in Nat /\ DOMAIN focus = 1..n
  OBVIOUS
<1>2. CASE ends = {}
  <2>1. Unfinished(focus) = 1
    BY <1>2 DEF Unfinished
  <2>2. QED
    BY <1>1, <1>2, <2>1
<1>3. CASE ends # {}
  <2> DEFINE D == {n - i : i \in ends}
  <2>1. D \in SUBSET Nat /\ D # {}
    BY <1>1, <1>3
  <2>2. PICK d \in D : \A e \in D : d <= e
    BY <2>1, LeastNumber
  <2>3. PICK i \in ends : d = n - i
    BY <2>2
  <2>4. ASSUME NEW j \in ends
        PROVE  j <= i
    <3>1. n - j \in D /\ i \in 1..n /\ j \in 1..n
      BY <1>1
    <3>2. d <= n - j
      BY <2>2, <3>1
    <3> HIDE DEF D, ends, n
    <3>3. QED
      BY <1>1, <2>3, <3>1, <3>2
  <2>5. Unfinished(focus) \in ends /\ \A j \in ends : j <= Unfinished(focus)
    BY <1>3, <2>4 DEF Unfinished
  <2>6. QED
    BY <1>1, <2>5
<1>4. QED
  BY <1>2, <1>3

\* ContextTail takes what the property says it takes.
LEMMA ContextTailContinues ==
    ASSUME NEW focus \in Seq(Chunks), Distinct(focus)
    PROVE  Continues(ContextTail(focus), focus)
<1> DEFINE n       == Len(focus)
           rows    == ContextTail(focus)
           Taken(i) == /\ LeftAfter(focus, i) > 0
                       /\ SuffixLength[focus[i]] > 0
                       /\ \A m \in i + 1..n : focus[m] \notin SentenceEnds
           Cut(i)  == IF SuffixLength[focus[i]] > LeftAfter(focus, i)
                      THEN LeftAfter(focus, i) ELSE SuffixLength[focus[i]]
           len     == [i \in DOMAIN focus |-> SuffixLength[focus[i]]]
           kept    == [i \in DOMAIN focus |-> Kept(rows, focus[i])]
           U       == Unfinished(focus)
<1>1. n \in Nat /\ DOMAIN focus = 1..n
  OBVIOUS
<1>2. rows = {[chunk |-> focus[i], length |-> Cut(i)] : i \in {j \in 1..n : Taken(j)}}
  BY <1>1 DEF ContextTail
<1>3. \A r \in rows : \E i \in 1..n : Taken(i) /\ r.chunk = focus[i] /\ r.length = Cut(i)
                                     /\ r = [chunk |-> focus[i], length |-> Cut(i)]
  BY <1>2
<1>4. \A i \in 1..n : Taken(i) => [chunk |-> focus[i], length |-> Cut(i)] \in rows
  BY <1>2
<1>5. \A i \in 1..n : LeftAfter(focus, i) \in Int /\ SuffixLength[focus[i]] \in Nat
  BY LeftAfterType, ChunksAssumption
<1> HIDE DEF rows, Cut, Taken
<1>6. \A r \in rows : /\ r.chunk \in ToSet(focus)
                      /\ \A q \in rows : q.chunk = r.chunk => q = r
  <2> SUFFICES ASSUME NEW r \in rows
               PROVE  /\ r.chunk \in ToSet(focus)
                      /\ \A q \in rows : q.chunk = r.chunk => q = r
    OBVIOUS
  <2>1. PICK i \in 1..n : r.chunk = focus[i] /\ r = [chunk |-> focus[i], length |-> Cut(i)]
    BY <1>3
  <2>2. ASSUME NEW q \in rows, q.chunk = r.chunk
        PROVE  q = r
    <3>1. PICK j \in 1..n : q.chunk = focus[j] /\ q = [chunk |-> focus[j], length |-> Cut(j)]
      BY <1>3
    <3>2. i = j
      BY <1>1, <2>1, <2>2, <3>1 DEF Distinct
    <3>3. QED
      BY <2>1, <3>1, <3>2
  <2>3. QED
    BY <1>1, <2>1, <2>2 DEF ToSet
<1>7. ASSUME NEW i \in 1..n
      PROVE  kept[i] = IF Taken(i) THEN Cut(i) ELSE 0
  <2>1. CASE Taken(i)
    <3> DEFINE r == [chunk |-> focus[i], length |-> Cut(i)]
    <3>1. r \in rows /\ r.chunk = focus[i] /\ r.length = Cut(i)
      BY <1>4, <2>1
    <3> HIDE DEF r
    <3>2. \A q \in rows : q.chunk = focus[i] => q = r
      BY <1>6, <3>1
    <3>3. (CHOOSE q \in rows : q.chunk = focus[i]) = r
      BY <3>1, <3>2
    <3>4. QED
      BY <1>1, <2>1, <3>1, <3>3 DEF Kept
  <2>2. CASE ~Taken(i)
    <3>1. ~\E r \in rows : r.chunk = focus[i]
      <4> SUFFICES ASSUME NEW r \in rows, r.chunk = focus[i] PROVE FALSE
        OBVIOUS
      <4>1. PICK j \in 1..n : Taken(j) /\ r.chunk = focus[j]
        BY <1>3
      <4>2. i = j
        BY <1>1, <4>1 DEF Distinct
      <4>3. QED
        BY <2>2, <4>1, <4>2
    <3>2. QED
      BY <1>1, <2>2, <3>1 DEF Kept
  <2>3. QED
    BY <2>1, <2>2
<1>8. /\ U \in 1..n + 1 /\ (n > 0 => U <= n)
      /\ \A i \in 1..n : (\A m \in i + 1..n : focus[m] \notin SentenceEnds) <=> i >= U
  BY UnfinishedDef
<1> HIDE DEF U
<1>9. /\ Sums(len) \in [0..n -> Nat]
      /\ \A i \in 1..n : Sums(len)[i] = Sums(len)[i - 1] + SuffixLength[focus[i]]
  <2>1. len \in Seq(Nat) /\ Len(len) = n
    BY LengthsType
  <2>2. \A i \in 1..n : len[i] = SuffixLength[focus[i]]
    BY <1>1
  <2> HIDE DEF len
  <2>3. QED
    BY <2>1, <2>2, SumsDef
<1>10. \A i \in 0..n : LengthAfter(focus, i) = Sums(len)[n] - Sums(len)[i]
  BY DEF LengthAfter
<1> HIDE DEF len
<1>11. /\ Sums(kept) \in [0..n -> Nat]
       /\ \A i \in 1..n : Sums(kept)[i] = Sums(kept)[i - 1] + (IF Taken(i) THEN Cut(i) ELSE 0)
  <2>1. \A i \in 1..n : (IF Taken(i) THEN Cut(i) ELSE 0) \in Nat
    BY <1>5 DEF Cut, Taken
  <2>2. kept \in Seq(Nat) /\ Len(kept) = n
    <3>1. \A i \in 1..n : kept[i] \in Nat
      BY <1>7, <2>1
    <3>2. kept = [i \in 1..n |-> kept[i]]
      BY <1>1
    <3> HIDE DEF kept
    <3>3. QED
      BY <1>1, <3>1, <3>2
  <2> HIDE DEF kept
  <2>3. QED
    BY <1>7, <2>2, SumsDef
<1> HIDE DEF kept
<1> DEFINE From(i) == IF i < U THEN U - 1 ELSE i
           S == {d \in Nat : d <= n => Sums(kept)[n] - Sums(kept)[n - d]
                                = Shorter(TailLimit, LengthAfter(focus, From(n - d)))}
<1>12. 0 \in S
  <2>1. From(n) = n
    BY <1>1, <1>8
  <2>2. Sums(kept)[n] \in Nat /\ Sums(len)[n] \in Nat
    BY <1>1, <1>9, <1>11
  <2>3. QED
    BY <1>1, <1>10, <2>1, <2>2, PolicyAssumption DEF Shorter
<1>13. ASSUME NEW d \in Nat, d \in S
       PROVE  d + 1 \in S
  <2> SUFFICES ASSUME d + 1 <= n
               PROVE  Sums(kept)[n] - Sums(kept)[n - (d + 1)]
                         = Shorter(TailLimit, LengthAfter(focus, From(n - (d + 1))))
    OBVIOUS
  <2> DEFINE i == n - d
  <2>1. i \in 1..n /\ i - 1 \in 0..n /\ n - (d + 1) = i - 1 /\ n \in 0..n /\ i \in 0..n
    BY <1>1
  <2>2. Sums(kept)[n] - Sums(kept)[i] = Shorter(TailLimit, LengthAfter(focus, From(i)))
    BY <1>13, <2>1
  <2> HIDE DEF i
  <2>3. /\ Sums(kept)[n] \in Nat /\ Sums(kept)[i] \in Nat /\ Sums(kept)[i - 1] \in Nat
        /\ Sums(kept)[i] = Sums(kept)[i - 1] + (IF Taken(i) THEN Cut(i) ELSE 0)
    BY <1>11, <2>1
  <2>4. /\ Sums(len)[n] \in Nat /\ Sums(len)[i] \in Nat /\ Sums(len)[i - 1] \in Nat
        /\ Sums(len)[i] = Sums(len)[i - 1] + SuffixLength[focus[i]]
        /\ LengthAfter(focus, i) = Sums(len)[n] - Sums(len)[i]
        /\ LengthAfter(focus, i - 1) = Sums(len)[n] - Sums(len)[i - 1]
    BY <1>9, <1>10, <2>1
  <2>5. CASE i < U
    <3>1. ~Taken(i)
      BY <1>8, <2>1, <2>5 DEF Taken
    <3>2. From(i - 1) = From(i)
      BY <1>8, <2>1, <2>5
    <3>3. Sums(kept)[i] = Sums(kept)[i - 1]
      BY <2>3, <3>1
    <3>4. QED
      BY <2>1, <2>2, <3>2, <3>3
  <2>6. CASE i >= U
    <3>1. From(i) = i /\ From(i - 1) = i - 1
      BY <1>8, <2>1, <2>6
    <3>2. Taken(i) <=> LeftAfter(focus, i) > 0 /\ SuffixLength[focus[i]] > 0
      BY <1>8, <2>1, <2>6 DEF Taken
    <3>3. LeftAfter(focus, i) = TailLimit - LengthAfter(focus, i)
      BY DEF LeftAfter
    <3>4. SuffixLength[focus[i]] \in Nat /\ TailLimit \in Nat
      BY <1>5, <2>1, PolicyAssumption
    <3> DEFINE K == Sums(kept)[n]
               a == Sums(kept)[i]
               b == Sums(kept)[i - 1]
               before == LengthAfter(focus, i - 1)
               after  == LengthAfter(focus, i)
               length == SuffixLength[focus[i]]
    <3>5. K - a = Shorter(TailLimit, after)
      BY <2>2, <3>1
    <3>6. a = b + (IF TailLimit - after > 0 /\ length > 0
                   THEN IF length > TailLimit - after THEN TailLimit - after ELSE length
                   ELSE 0)
      BY <2>3, <3>2, <3>3 DEF Cut
    <3>7. /\ K \in Nat /\ a \in Nat /\ b \in Nat /\ TailLimit \in Nat /\ length \in Nat
          /\ after \in Int /\ before = after + length
      BY <2>3, <2>4, <3>4, SMTT(30)
    <3> HIDE DEF K, a, b, before, after, length
    <3>8. K - b = Shorter(TailLimit, before)
      BY <3>5, <3>6, <3>7 DEF Shorter
    <3>9. QED
      BY <2>1, <3>1, <3>8 DEF K, b, before
  <2>7. QED
    BY <1>8, <2>1, <2>5, <2>6
<1> HIDE DEF S
<1>14. \A d \in Nat : d \in S
  BY <1>12, <1>13, Induction
<1>15. ASSUME NEW i \in 0..n
       PROVE  Sums(kept)[n] - Sums(kept)[i] = Shorter(TailLimit, LengthAfter(focus, From(i)))
  <2>1. n - i \in S /\ n - i <= n /\ n - (n - i) = i
    BY <1>1, <1>14
  <2>2. QED
    BY <2>1 DEF S
<1>16. QED
  BY <1>6, <1>15 DEF Continues, kept, rows, U

\* The first batch of a session has nothing to continue.
LEMMA NothingToContinue == Continues({}, <<>>)
<1> DEFINE f == [i \in DOMAIN <<>> |-> Kept({}, <<>>[i])]
           g == [i \in DOMAIN <<>> |-> SuffixLength[<<>>[i]]]
<1>1. f \in Seq(Nat) /\ Len(f) = 0 /\ g \in Seq(Nat) /\ Len(g) = 0
  OBVIOUS
<1> HIDE DEF f, g
<1>2. Sums(f)[0] = 0 /\ Sums(g)[0] = 0
  BY <1>1, SumsDef
<1>3. Unfinished(<<>>) = 1
  <2>1. {i \in DOMAIN <<>> : <<>>[i] \in SentenceEnds} = {}
    OBVIOUS
  <2>2. QED
    BY <2>1 DEF Unfinished
<1>4. LengthAfter(<<>>, 0) = 0
  BY <1>2 DEF LengthAfter, g
<1>5. \A i \in 0..Len(<<>>) : i = 0
  OBVIOUS
<1>6. Sums(f)[0] - Sums(f)[0] = Shorter(TailLimit, LengthAfter(<<>>, 0))
  BY <1>2, <1>4, PolicyAssumption DEF Shorter
<1>7. QED
  BY <1>3, <1>5, <1>6 DEF Continues, f

-----------------------------------------------------------------------------
(* The text of one session.                                                *)

Focuses(bs) == [k \in DOMAIN bs |-> bs[k].focus]

\* The batches of a session hold its chunks, in order.
HoldsText(bs, cs) ==
    /\ FlattenSeq(Focuses(bs)) = cs
    /\ \A k \in DOMAIN bs : /\ Distinct(bs[k].focus)
                            /\ ToSet(bs[k].focus) \subseteq ToSet(cs)

ContextOK(bs) ==
    \A k \in DOMAIN bs :
        Continues(bs[k].context, IF k = 1 THEN <<>> ELSE bs[k - 1].focus)

LEMMA FocusType ==
    ASSUME NEW bs, BatchesOK(bs), NEW k \in 1..Len(bs)
    PROVE  bs[k].focus \in Seq(Chunks)
<1>1. bs \in Seq(Batch)
  BY DEF BatchesOK
<1>2. bs[k] \in Batch
  BY <1>1
<1>3. QED
  BY <1>2 DEF Batch

LEMMA FocusesType ==
    ASSUME NEW bs, BatchesOK(bs)
    PROVE  /\ Focuses(bs) \in Seq(Seq(Chunks))
           /\ Len(Focuses(bs)) = Len(bs)
           /\ \A k \in 1..Len(bs) : Focuses(bs)[k] = bs[k].focus
<1>1. bs \in Seq(Batch) /\ DOMAIN bs = 1..Len(bs) /\ Len(bs) \in Nat
  BY DEF BatchesOK
<1>2. \A k \in 1..Len(bs) : bs[k].focus \in Seq(Chunks)
  BY FocusType
<1>3. QED
  BY <1>1, <1>2 DEF Focuses

LEMMA TouchedHolds ==
    ASSUME NEW bs, NEW new, BatchesOK(bs), Touched(bs, new), NEW cs
    PROVE  /\ HoldsText(bs, cs) => HoldsText(new, cs)
           /\ ContextOK(bs) => ContextOK(new)
<1>1. /\ DOMAIN new = DOMAIN bs
      /\ \A k \in DOMAIN bs : new[k].focus = bs[k].focus /\ new[k].context = bs[k].context
  BY DEF Touched
<1>2. Focuses(new) = Focuses(bs)
  BY <1>1 DEF Focuses
<1>3. ASSUME HoldsText(bs, cs)
      PROVE  HoldsText(new, cs)
  BY <1>1, <1>2, <1>3 DEF HoldsText
<1>4. ASSUME ContextOK(bs)
      PROVE  ContextOK(new)
  <2> SUFFICES ASSUME NEW k \in DOMAIN bs
               PROVE  Continues(new[k].context, IF k = 1 THEN <<>> ELSE new[k - 1].focus)
    BY <1>1 DEF ContextOK
  <2>1. DOMAIN bs = 1..Len(bs) /\ Len(bs) \in Nat
    BY DEF BatchesOK
  <2>2. k # 1 => k - 1 \in DOMAIN bs
    BY <2>1
  <2>3. QED
    BY <1>1, <1>4, <2>2 DEF ContextOK
<1>5. QED
  BY <1>3, <1>4

LEMMA ToSetAppend ==
    ASSUME NEW f \in Seq(Chunks), NEW c \in Chunks
    PROVE  ToSet(Append(f, c)) = ToSet(f) \cup {c}
<1>1. /\ DOMAIN Append(f, c) = 1..Len(f) + 1 /\ DOMAIN f = 1..Len(f) /\ Len(f) \in Nat
      /\ Append(f, c)[Len(f) + 1] = c
      /\ \A i \in 1..Len(f) : Append(f, c)[i] = f[i]
  OBVIOUS
<1>2. ToSet(Append(f, c)) \subseteq ToSet(f) \cup {c}
  BY <1>1 DEF ToSet
<1>3. ToSet(f) \cup {c} \subseteq ToSet(Append(f, c))
  <2>1. Len(f) + 1 \in 1..Len(f) + 1 /\ \A i \in 1..Len(f) : i \in 1..Len(f) + 1
    BY <1>1
  <2>2. QED
    BY <1>1, <2>1 DEF ToSet
<1>4. QED
  BY <1>2, <1>3

\* The chunks of a distinct sequence stay distinct when a new one follows them.
LEMMA DistinctAppend ==
    ASSUME NEW f \in Seq(Chunks), Distinct(f), NEW c \in Chunks, c \notin ToSet(f)
    PROVE  Distinct(Append(f, c)) /\ ToSet(Append(f, c)) = ToSet(f) \cup {c}
<1>1. \A i \in 1..Len(f) : f[i] # c
  BY DEF ToSet
<1>2. Distinct(Append(f, c))
  BY <1>1 DEF Distinct
<1>3. QED
  BY <1>2, ToSetAppend

\* The foci of the first n batches.
Firsts(bs, n) == [k \in 1..n |-> bs[k].focus]

\* The last focus of a session lengthened, or a focus added.
LEMMA FocusLengthened ==
    ASSUME NEW bs, NEW new, BatchesOK(bs), BatchesOK(new), Len(bs) > 0, Len(new) = Len(bs),
           \A k \in DOMAIN bs : k # Len(bs) => new[k].focus = bs[k].focus,
           NEW c \in Chunks,
           new[Len(bs)].focus = Append(bs[Len(bs)].focus, c)
    PROVE  FlattenSeq(Focuses(new)) = Append(FlattenSeq(Focuses(bs)), c)
<1> DEFINE n == Len(bs)
           P == Firsts(bs, n - 1)
           f == bs[n].focus
<1>1. /\ Focuses(bs) \in Seq(Seq(Chunks)) /\ Len(Focuses(bs)) = n
      /\ Focuses(new) \in Seq(Seq(Chunks)) /\ Len(Focuses(new)) = n
      /\ \A k \in 1..n : Focuses(bs)[k] = bs[k].focus /\ Focuses(new)[k] = new[k].focus
  BY FocusesType
<1>2. n \in Nat /\ n > 0 /\ DOMAIN bs = 1..n
  BY DEF BatchesOK
<1>3. f \in Seq(Chunks) /\ f = Focuses(bs)[n]
  BY <1>1, <1>2
<1> HIDE DEF f
<1>4. P \in Seq(Seq(Chunks)) /\ Len(P) = n - 1 /\ \A k \in 1..n - 1 : P[k] = Focuses(bs)[k]
  <2>1. \A k \in 1..n - 1 : bs[k].focus \in Seq(Chunks)
    BY <1>2, FocusType
  <2>2. QED
    BY <1>1, <1>2, <2>1 DEF Firsts
<1> HIDE DEF P, n
<1>5. Focuses(bs) = Append(P, f)
  BY <1>1, <1>2, <1>3, <1>4
<1>6. Focuses(new) = Append(P, Append(f, c))
  <2>1. ASSUME NEW k \in 1..n - 1
        PROVE  Focuses(new)[k] = P[k]
    <3>1. k \in 1..n /\ k # n
      BY <1>2
    <3>2. new[k].focus = bs[k].focus
      BY <1>2, <3>1 DEF n
    <3>3. QED
      BY <1>1, <1>4, <3>1, <3>2
  <2>2. Focuses(new)[n] = Append(f, c)
    BY <1>1, <1>2 DEF f, n
  <2>3. QED
    BY <1>1, <1>2, <1>3, <1>4, <2>1, <2>2
<1>7. FlattenSeq(P) \in Seq(Chunks)
  BY <1>4, FlattenSeqType
<1>8. FlattenSeq(Focuses(bs)) = FlattenSeq(P) \o f
  BY <1>3, <1>4, <1>5, FlattenSeqAppend
<1>9. FlattenSeq(Focuses(new)) = FlattenSeq(P) \o Append(f, c)
  <2>1. Append(f, c) \in Seq(Chunks)
    BY <1>3
  <2>2. QED
    BY <1>4, <1>6, <2>1, FlattenSeqAppend
<1>10. FlattenSeq(P) \o Append(f, c) = Append(FlattenSeq(P) \o f, c)
  BY <1>3, <1>7
<1>11. QED
  BY <1>8, <1>9, <1>10

LEMMA FocusAdded ==
    ASSUME NEW bs, NEW new, BatchesOK(bs), BatchesOK(new), Len(new) = Len(bs) + 1,
           \A k \in DOMAIN bs : new[k].focus = bs[k].focus,
           NEW c \in Chunks, new[Len(bs) + 1].focus = <<c>>
    PROVE  FlattenSeq(Focuses(new)) = Append(FlattenSeq(Focuses(bs)), c)
<1> DEFINE n == Len(bs)
           F == Focuses(bs)
           G == Focuses(new)
<1>1. /\ F \in Seq(Seq(Chunks)) /\ Len(F) = n
      /\ G \in Seq(Seq(Chunks)) /\ Len(G) = n + 1
      /\ \A k \in 1..n : F[k] = bs[k].focus
      /\ \A k \in 1..n + 1 : G[k] = new[k].focus
  BY FocusesType
<1>2. n \in Nat /\ DOMAIN bs = 1..n
  BY DEF BatchesOK
<1>3. ASSUME NEW k \in 1..n
      PROVE  G[k] = F[k]
  <2>1. k \in 1..n + 1
    BY <1>2
  <2>2. new[k].focus = bs[k].focus
    BY <1>2
  <2>3. QED
    BY <1>1, <2>1, <2>2
<1>4. G[n + 1] = <<c>>
  BY <1>1, <1>2
<1> HIDE DEF F, G, n
<1>5. G = Append(F, <<c>>)
  BY <1>1, <1>2, <1>3, <1>4
<1>6. <<c>> \in Seq(Chunks)
  OBVIOUS
<1>7. FlattenSeq(G) = FlattenSeq(F) \o <<c>>
  BY <1>1, <1>5, <1>6, FlattenSeqAppend
<1>8. FlattenSeq(F) \in Seq(Chunks)
  BY <1>1, FlattenSeqType
<1>9. QED
  BY <1>7, <1>8 DEF F, G

\* Attaching a chunk appends it to the text, and the context of a batch it
\* opens continues the batch before.
LEMMA AttachedHolds ==
    ASSUME NEW bs, NEW cs \in Seq(Chunks), NEW c \in Chunks, c \notin ToSet(cs),
           BatchesOK(bs), HoldsText(bs, cs), ContextOK(bs)
    PROVE  HoldsText(Attached(bs, c), Append(cs, c)) /\ ContextOK(Attached(bs, c))
<1> DEFINE at   == Attached(bs, c)
           kept == Closed(bs, OverdueIn(bs))
           n    == Len(bs)
<1>1. /\ BatchesOK(at)
      /\ \/ at = Append(kept, NewBatch(kept, c))
         \/ /\ bs # <<>> /\ Len(at) = n
            /\ \A k \in DOMAIN bs : k # n => at[k] = bs[k]
            /\ at[Len(at)].focus = Append(bs[n].focus, c)
            /\ at[Len(at)].context = bs[n].context
  BY AttachedBatches
<1>2. /\ BatchesOK(kept) /\ DOMAIN kept = DOMAIN bs /\ Len(kept) = n
      /\ \A k \in DOMAIN bs : /\ kept[k].focus = bs[k].focus
                              /\ kept[k].context = bs[k].context
  BY ClosedBatches
<1>3. bs \in Seq(Batch) /\ n \in Nat /\ DOMAIN bs = 1..n
  BY DEF BatchesOK
<1>4. \A k \in 1..n : bs[k].focus \in Seq(Chunks)
  BY FocusType
<1>5. /\ FlattenSeq(Focuses(bs)) = cs
      /\ \A k \in 1..n : /\ Distinct(bs[k].focus)
                         /\ ToSet(bs[k].focus) \subseteq ToSet(cs)
      /\ \A k \in 1..n :
            Continues(bs[k].context, IF k = 1 THEN <<>> ELSE bs[k - 1].focus)
  BY <1>3 DEF HoldsText, ContextOK
<1>6. ToSet(Append(cs, c)) = ToSet(cs) \cup {c}
  BY ToSetAppend
<1> HIDE DEF at, kept, n
<1>7. CASE at = Append(kept, NewBatch(kept, c))
  <2> DEFINE b == NewBatch(kept, c)
  <2>1. /\ b \in Batch /\ b.focus = <<c>>
        /\ b.context = IF kept = <<>> THEN {} ELSE ContextTail(kept[Len(kept)].focus)
    BY <1>2, NewBatchType
  <2> HIDE DEF b
  <2>2. /\ Len(at) = n + 1 /\ at[n + 1] = b /\ DOMAIN at = 1..n + 1
        /\ \A k \in 1..n : at[k] = kept[k]
    <3>1. kept \in Seq(Batch)
      BY <1>2 DEF BatchesOK
    <3>2. QED
      BY <1>2, <1>3, <1>7, <2>1, <3>1 DEF b
  <2>3. \A k \in 1..n : at[k].focus = bs[k].focus /\ at[k].context = bs[k].context
    BY <1>2, <1>3, <2>2
  <2>4. FlattenSeq(Focuses(at)) = Append(cs, c)
    <3>1. at[Len(bs) + 1].focus = <<c>> /\ Len(at) = Len(bs) + 1
      BY <2>1, <2>2 DEF n
    <3>2. \A k \in DOMAIN bs : at[k].focus = bs[k].focus
      BY <1>3, <2>3
    <3>3. FlattenSeq(Focuses(at)) = Append(FlattenSeq(Focuses(bs)), c)
      BY <1>1, <3>1, <3>2, FocusAdded
    <3>4. QED
      BY <1>5, <3>3
  <2>5. Distinct(<<c>>) /\ ToSet(<<c>>) = {c}
    BY DEF Distinct, ToSet
  <2>6. ASSUME NEW k \in DOMAIN at
        PROVE  Distinct(at[k].focus) /\ ToSet(at[k].focus) \subseteq ToSet(Append(cs, c))
    <3>1. CASE k = n + 1
      <4>1. at[k].focus = <<c>>
        BY <2>1, <2>2, <3>1
      <4>2. QED
        BY <1>6, <2>5, <4>1
    <3>2. CASE k \in 1..n
      BY <1>5, <1>6, <2>3, <3>2
    <3>3. QED
      BY <1>3, <2>2, <3>1, <3>2
  <2>7. Continues(b.context, IF n + 1 = 1 THEN <<>> ELSE at[n].focus)
    <3>1. CASE n = 0
      <4>1. kept = <<>>
        BY <1>2, <3>1 DEF BatchesOK
      <4>2. QED
        BY <2>1, <3>1, <4>1, NothingToContinue
    <3>2. CASE n # 0
      <4>1. kept # <<>> /\ n \in 1..n /\ n + 1 # 1
        BY <1>2, <1>3, <3>2
      <4>2. b.context = ContextTail(bs[n].focus)
        BY <1>2, <1>3, <2>1, <4>1
      <4>3. at[n].focus = bs[n].focus
        BY <2>3, <4>1
      <4>4. Continues(ContextTail(bs[n].focus), bs[n].focus)
        BY <1>4, <1>5, <4>1, ContextTailContinues
      <4>5. QED
        BY <4>1, <4>2, <4>3, <4>4
    <3>3. QED
      BY <3>1, <3>2
  <2>8. ASSUME NEW k \in DOMAIN at
        PROVE  Continues(at[k].context, IF k = 1 THEN <<>> ELSE at[k - 1].focus)
    <3>1. CASE k = n + 1
      <4>1. k - 1 = n /\ at[k] = b
        BY <1>3, <2>2, <3>1
      <4>2. QED
        BY <2>7, <3>1, <4>1
    <3>2. CASE k \in 1..n
      <4>1. k # 1 => k - 1 \in 1..n
        BY <1>3, <3>2
      <4>2. (IF k = 1 THEN <<>> ELSE at[k - 1].focus)
              = (IF k = 1 THEN <<>> ELSE bs[k - 1].focus)
        BY <2>3, <4>1
      <4>3. QED
        BY <1>5, <2>3, <3>2, <4>2
    <3>3. QED
      BY <1>3, <2>2, <3>1, <3>2
  <2>9. QED
    BY <2>4, <2>6, <2>8 DEF HoldsText, ContextOK, at
<1>8. CASE /\ bs # <<>> /\ Len(at) = n
           /\ \A k \in DOMAIN bs : k # n => at[k] = bs[k]
           /\ at[Len(at)].focus = Append(bs[n].focus, c)
           /\ at[Len(at)].context = bs[n].context
  <2>1. n \in 1..n /\ Len(bs) > 0 /\ DOMAIN at = 1..n
    BY <1>1, <1>3, <1>8 DEF n, BatchesOK
  <2>2. FlattenSeq(Focuses(at)) = Append(cs, c)
    <3>1. /\ Len(at) = Len(bs)
          /\ \A k \in DOMAIN bs : k # Len(bs) => at[k].focus = bs[k].focus
          /\ at[Len(bs)].focus = Append(bs[Len(bs)].focus, c)
      BY <1>8 DEF n
    <3>2. FlattenSeq(Focuses(at)) = Append(FlattenSeq(Focuses(bs)), c)
      BY <1>1, <2>1, <3>1, FocusLengthened
    <3>3. QED
      BY <1>5, <3>2
  <2>3. /\ at[n].focus = Append(bs[n].focus, c) /\ at[n].context = bs[n].context
        /\ \A k \in 1..n : k # n => at[k].focus = bs[k].focus
        /\ \A k \in 1..n : at[k].context = bs[k].context
    BY <1>3, <1>8
  <2>4. Distinct(at[n].focus) /\ ToSet(at[n].focus) = ToSet(bs[n].focus) \cup {c}
    <3>1. c \notin ToSet(bs[n].focus)
      BY <1>5, <2>1
    <3>2. QED
      BY <1>4, <1>5, <2>1, <2>3, <3>1, DistinctAppend
  <2>5. \A k \in DOMAIN at : Distinct(at[k].focus) /\ ToSet(at[k].focus) \subseteq ToSet(Append(cs, c))
    BY <1>5, <1>6, <2>1, <2>3, <2>4
  <2>6. ASSUME NEW k \in DOMAIN at
        PROVE  Continues(at[k].context, IF k = 1 THEN <<>> ELSE at[k - 1].focus)
    <3>1. k \in 1..n /\ (k # 1 => k - 1 \in 1..n /\ k - 1 # n)
      BY <1>3, <2>1
    <3>2. (IF k = 1 THEN <<>> ELSE at[k - 1].focus) = (IF k = 1 THEN <<>> ELSE bs[k - 1].focus)
      BY <2>3, <3>1
    <3>3. QED
      BY <1>5, <2>3, <3>1, <3>2
  <2>7. QED
    BY <2>2, <2>5, <2>6 DEF HoldsText, ContextOK, at
<1>9. QED
  BY <1>1, <1>7, <1>8

-----------------------------------------------------------------------------
(* The invariant of the store.                                             *)

\* The inductive invariant: the rows are well-formed, and the batches of every
\* session hold its text.
StoreInv ==
    /\ RowsInv
    /\ \A s \in Sessions : /\ HoldsText(batches[s], chunks[s])
                           /\ ContextOK(batches[s])

LEMMA StoreInit == Init => StoreInv
<1> SUFFICES ASSUME Init PROVE StoreInv
  OBVIOUS
<1>1. <<>> \in Seq(Batch) /\ Len(<<>>) = 0 /\ DOMAIN <<>> = {}
  OBVIOUS
<1>2. BatchesOK(<<>>) /\ ContextOK(<<>>)
  BY <1>1 DEF BatchesOK, Collecting, ContextOK
<1>3. HoldsText(<<>>, <<>>)
  <2>1. Focuses(<<>>) = <<>>
    BY <1>1 DEF Focuses
  <2>2. FlattenSeq(<<>>) = <<>>
    BY DEF FlattenSeq
  <2>3. QED
    BY <1>1, <2>1, <2>2 DEF HoldsText
<1>4. RowsInv
  BY <1>2 DEF Init, RowsInv, SourceStates
<1>5. QED
  BY <1>2, <1>3, <1>4 DEF Init, StoreInv

\* The batches of the session that gets a chunk.
LEMMA StoredBatches ==
    ASSUME StoreInv, NEW s \in Sessions, NEW c \in Chunks, ChunkStored(s, c)
    PROVE  /\ BatchesOK(batches'[s])
           /\ HoldsText(batches'[s], Append(chunks[s], c))
           /\ ContextOK(batches'[s])
<1> DEFINE bs == batches[s]
           at == Attached(bs, c)
<1>1. /\ BatchesOK(bs) /\ HoldsText(bs, chunks[s]) /\ ContextOK(bs)
      /\ chunks[s] \in Seq(Chunks)
  BY DEF StoreInv, RowsInv
<1>2. c \notin ToSet(chunks[s])
  BY DEF ChunkStored, Known
<1>3. BatchesOK(at) /\ HoldsText(at, Append(chunks[s], c)) /\ ContextOK(at)
  BY <1>1, <1>2, AttachedHolds, AttachedBatches
<1>4. Touched(at, Closed(at, DOMAIN at))
  BY <1>3, ClosedTouches
<1>5. batches'[s] = at \/ batches'[s] = Closed(at, DOMAIN at)
  BY DEF ChunkStored
<1> HIDE DEF at
<1>6. CASE batches'[s] = at
  BY <1>3, <1>6
<1>7. CASE batches'[s] = Closed(at, DOMAIN at)
  BY <1>3, <1>4, <1>7, TouchedHolds DEF Touched
<1>8. QED
  BY <1>5, <1>6, <1>7

LEMMA StoreInvStep ==
    ASSUME StoreInv, [Next]_storeVars
    PROVE  StoreInv'
<1>1. /\ RowsInv /\ chunks \in [Sessions -> Seq(Chunks)]
      /\ \A s \in Sessions : /\ BatchesOK(batches[s]) /\ HoldsText(batches[s], chunks[s])
                             /\ ContextOK(batches[s])
                             /\ state[s] = "none" => batches[s] = <<>>
  BY DEF StoreInv, RowsInv
<1>2. /\ batches' = [s \in Sessions |-> batches'[s]]
      /\ state' \in [Sessions -> SourceStates]
      /\ \A s \in Sessions : state'[s] = "none" =>
                                state[s] = "none" /\ batches'[s] = batches[s]
      /\ NothingStored \/ \E s \in Sessions, c \in Chunks : ChunkStored(s, c)
  BY <1>1, StoreStep
<1>3. /\ chunks' \in [Sessions -> Seq(Chunks)]
      /\ \A s \in Sessions : /\ BatchesOK(batches'[s])
                             /\ HoldsText(batches'[s], chunks'[s])
                             /\ ContextOK(batches'[s])
  <2>1. CASE NothingStored
    <3>1. ASSUME NEW s \in Sessions
          PROVE  /\ BatchesOK(batches'[s]) /\ HoldsText(batches'[s], chunks[s])
                 /\ ContextOK(batches'[s])
      <4>1. Touched(batches[s], batches'[s])
        BY <2>1 DEF NothingStored
      <4>2. QED
        BY <1>1, <4>1, TouchedHolds DEF Touched
    <3>2. QED
      BY <1>1, <2>1, <3>1 DEF NothingStored
  <2>2. ASSUME NEW s \in Sessions, NEW c \in Chunks, ChunkStored(s, c)
        PROVE  /\ chunks' \in [Sessions -> Seq(Chunks)]
               /\ \A t \in Sessions : /\ BatchesOK(batches'[t])
                                      /\ HoldsText(batches'[t], chunks'[t])
                                      /\ ContextOK(batches'[t])
    <3>1. chunks' = [chunks EXCEPT ![s] = Append(@, c)]
      BY <2>2 DEF ChunkStored
    <3>2. /\ chunks' \in [Sessions -> Seq(Chunks)]
          /\ chunks'[s] = Append(chunks[s], c)
          /\ \A t \in Sessions \ {s} : chunks'[t] = chunks[t]
      BY <1>1, <3>1
    <3>3. \A t \in Sessions \ {s} : batches'[t] = batches[t]
      BY <2>2 DEF ChunkStored
    <3>4. /\ BatchesOK(batches'[s]) /\ HoldsText(batches'[s], Append(chunks[s], c))
          /\ ContextOK(batches'[s])
      BY <2>2, StoredBatches
    <3>5. QED
      BY <1>1, <3>2, <3>3, <3>4
  <2>3. QED
    BY <1>2, <2>1, <2>2
<1>4. QED
  BY <1>1, <1>2, <1>3 DEF StoreInv, RowsInv

LEMMA StoreInvariant == Spec => []StoreInv
<1>1. StoreInv /\ [Next]_storeVars => StoreInv'
  BY StoreInvStep
<1>2. QED
  BY <1>1, StoreInit, PTL DEF Spec

-----------------------------------------------------------------------------
(* What batching promises.                                                 *)

LEMMA StoreInvType == StoreInv => TypeOK
<1> SUFFICES ASSUME StoreInv PROVE TypeOK
  OBVIOUS
<1>1. \A s \in Sessions : batches[s] \in Seq(Batch)
  BY DEF StoreInv, RowsInv, BatchesOK
<1>2. batches = [s \in Sessions |-> batches[s]]
  BY DEF StoreInv, RowsInv
<1>3. QED
  BY <1>1, <1>2 DEF TypeOK, StoreInv, RowsInv

\* The rows of sessions, chunks and batches keep their types: every transaction
\* of batches.go writes well-formed rows.
THEOREM BatchesTypeCorrect == Spec => []TypeOK
  BY StoreInvariant, StoreInvType, PTL

\* Whatever the chunks, closings, crashes and time that passes, the batches of
\* a session read one after the other give its text, each chunk once.
THEOREM TextIsPartitioned == Spec => []FocusPartitionsChunks
<1>1. StoreInv => FocusPartitionsChunks
  BY DEF StoreInv, HoldsText, Focuses, FocusPartitionsChunks
<1>2. QED
  BY <1>1, StoreInvariant, PTL

\* saveChunk finds at most one collecting batch to add to, the newest.
THEOREM NewestCollects == Spec => []OnlyNewestCollects
<1>1. StoreInv => OnlyNewestCollects
  BY DEF StoreInv, RowsInv, BatchesOK, OnlyNewestCollects
<1>2. QED
  BY <1>1, StoreInvariant, PTL

\* Deadlines, ended sources, the end of a source and the sweep close a batch
\* once between them: one extract job is queued for it.
THEOREM OneJobEach == Spec => []OneJobPerClosedBatch
<1>1. StoreInv => OneJobPerClosedBatch
  BY DEF StoreInv, RowsInv, BatchesOK, OneJobPerClosedBatch
<1>2. QED
  BY <1>1, StoreInvariant, PTL

\* copyContextTail gives each batch the unfinished sentence of the one before,
\* up to the limit, for any lengths, sentence ends and limit.
THEOREM ContextContinues == Spec => []ContextContinuesPrevious
<1>1. StoreInv => ContextContinuesPrevious
  BY DEF StoreInv, ContextOK, ContextContinuesPrevious
<1>2. QED
  BY <1>1, StoreInvariant, PTL

\* What a step may do to a batch that is closed.
Frozen ==
    \A s \in Sessions : \A k \in DOMAIN batches[s] \ Collecting(batches[s]) :
        LET old == batches[s][k]  new == batches'[s][k]
        IN  /\ new.focus = old.focus /\ new.context = old.context
            /\ new.status # "collecting"
            /\ old.status = "extracted" => new.status = "extracted"

LEMMA FrozenStep ==
    ASSUME StoreInv, [Next]_storeVars
    PROVE  Frozen
<1> SUFFICES ASSUME NEW s \in Sessions,
                    NEW k \in DOMAIN batches[s] \ Collecting(batches[s])
             PROVE  LET old == batches[s][k]  new == batches'[s][k]
                    IN  /\ new.focus = old.focus /\ new.context = old.context
                        /\ new.status # "collecting"
                        /\ old.status = "extracted" => new.status = "extracted"
  BY DEF Frozen
<1>1. RowsInv /\ BatchesOK(batches[s])
  BY DEF StoreInv, RowsInv
<1>2. batches[s][k].status # "collecting"
  BY DEF Collecting
<1>3. CASE Touched(batches[s], batches'[s])
  BY <1>2, <1>3 DEF Touched, Collecting
<1>4. CASE batches'[s] = batches[s]
  BY <1>2, <1>4
<1>5. ASSUME NEW c \in Chunks, ChunkStored(s, c)
      PROVE  batches'[s][k] = batches[s][k]
  <2>1. batches[s] # <<>>
    BY <1>1 DEF BatchesOK
  <2>2. batches'[s] = Attached(batches[s], c)
    BY <1>5, <2>1 DEF ChunkStored
  <2>3. QED
    BY <1>1, <2>2, AttachedBatches
<1>6. NothingStored \/ \E t \in Sessions, c \in Chunks : ChunkStored(t, c)
  BY <1>1, StoreStep
<1>7. QED
  BY <1>2, <1>3, <1>4, <1>5, <1>6 DEF NothingStored, ChunkStored

\* No operation reopens a closed batch, adds to it or takes back its extraction.
THEOREM ClosedStaysFrozen == Spec => ClosedIsFrozen
<1>1. StoreInv /\ [Next]_storeVars => [Frozen]_storeVars
  BY FrozenStep
<1>2. QED
  BY <1>1, StoreInvariant, PTL DEF Spec, ClosedIsFrozen, Frozen

-----------------------------------------------------------------------------
(* Batching implements the intake of text.                                 *)

\* What the mapping makes of the batches of one session.
LEMMA OpenAndWindows ==
    ASSUME NEW bs, BatchesOK(bs)
    PROVE  /\ Collecting(bs) = {} =>
                /\ Open(bs) = <<>>
                /\ Windows(bs) = [k \in 1..Len(bs) |-> bs[k].focus]
           /\ Collecting(bs) # {} =>
                /\ Collecting(bs) = {Len(bs)} /\ Len(bs) \in 1..Len(bs)
                /\ Open(bs) = bs[Len(bs)].focus /\ Open(bs) # <<>>
                /\ Windows(bs) = [k \in 1..Len(bs) - 1 |-> bs[k].focus]
           /\ Open(bs) \in Seq(Chunks) /\ Windows(bs) \in Seq(Seq(Chunks))
<1>1. bs \in Seq(Batch) /\ DOMAIN bs = 1..Len(bs) /\ Len(bs) \in Nat
      /\ Collecting(bs) \subseteq {Len(bs)} /\ Collecting(bs) \subseteq DOMAIN bs
      /\ \A k \in 1..Len(bs) : bs[k].focus # <<>>
  BY DEF BatchesOK, Collecting
<1>2. \A k \in 1..Len(bs) : bs[k].focus \in Seq(Chunks)
  BY FocusType
<1>3. CASE Collecting(bs) = {}
  BY <1>1, <1>2, <1>3 DEF Open, Windows
<1>4. CASE Collecting(bs) # {}
  <2>1. Collecting(bs) = {Len(bs)} /\ Len(bs) \in 1..Len(bs)
    BY <1>1, <1>4
  <2>2. \A k \in 1..Len(bs) - 1 : bs[k].focus \in Seq(Chunks)
    BY <1>1, <1>2
  <2>3. [k \in 1..Len(bs) - 1 |-> bs[k].focus] \in Seq(Seq(Chunks))
    BY <2>1, <2>2
  <2>4. QED
    BY <1>1, <1>2, <1>4, <2>1, <2>3 DEF Open, Windows
<1>5. QED
  BY <1>3, <1>4

\* Closing hands the open text over; nothing else without a new chunk shows.
LEMMA TouchedIntake ==
    ASSUME NEW bs, NEW new, BatchesOK(bs), Touched(bs, new)
    PROVE  IF Collecting(bs) # {} /\ Collecting(new) = {}
           THEN /\ Open(bs) # <<>> /\ Open(new) = <<>>
                /\ Windows(new) = Append(Windows(bs), Open(bs))
           ELSE Open(new) = Open(bs) /\ Windows(new) = Windows(bs)
<1> DEFINE n == Len(bs)
<1>1. /\ BatchesOK(new) /\ Len(new) = n /\ n \in Nat /\ DOMAIN bs = 1..n
      /\ Collecting(new) \subseteq Collecting(bs)
      /\ \A k \in 1..n : new[k].focus = bs[k].focus
  BY DEF Touched, BatchesOK
<1>2. [k \in 1..n |-> new[k].focus] = [k \in 1..n |-> bs[k].focus]
  BY <1>1
<1>3. CASE Collecting(bs) = {}
  <2>1. Collecting(new) = {}
    BY <1>1, <1>3
  <2>2. QED
    BY <1>1, <1>2, <1>3, <2>1, OpenAndWindows
<1>4. CASE Collecting(bs) # {} /\ Collecting(new) = {}
  <2>1. /\ Open(bs) = bs[n].focus /\ Open(bs) # <<>> /\ n \in 1..n
        /\ Windows(bs) = [k \in 1..n - 1 |-> bs[k].focus]
        /\ Windows(bs) \in Seq(Seq(Chunks)) /\ Open(bs) \in Seq(Chunks)
    BY <1>4, OpenAndWindows
  <2>2. Open(new) = <<>> /\ Windows(new) = [k \in 1..n |-> bs[k].focus]
    BY <1>1, <1>2, <1>4, OpenAndWindows
  <2> DEFINE W == Windows(bs)
             f == Open(bs)
  <2>3. /\ W \in Seq(Seq(Chunks)) /\ f \in Seq(Chunks) /\ Len(W) = n - 1
        /\ \A k \in 1..n - 1 : W[k] = bs[k].focus
    BY <1>1, <2>1
  <2>4. f = bs[n].focus
    BY <2>1
  <2> HIDE DEF W, f
  <2> DEFINE A == Append(W, f)
  <2>5. /\ A = [k \in 1..n |-> A[k]] /\ A[n] = f
        /\ \A k \in 1..n - 1 : A[k] = W[k]
    <3>1. A \in Seq(Seq(Chunks)) /\ Len(A) = n
      BY <1>1, <2>3
    <3>2. A[n] = f /\ \A k \in 1..n - 1 : A[k] = W[k]
      BY <1>1, <2>3
    <3> HIDE DEF A
    <3>3. QED
      BY <3>1, <3>2
  <2> HIDE DEF A
  <2>6. ASSUME NEW k \in 1..n
        PROVE  A[k] = bs[k].focus
    <3>1. k # n => k \in 1..n - 1
      BY <1>1
    <3>2. QED
      BY <2>3, <2>4, <2>5, <3>1
  <2>7. QED
    BY <1>4, <2>1, <2>2, <2>5, <2>6 DEF W, f, A
<1>5. CASE Collecting(bs) # {} /\ Collecting(new) # {}
  <2>1. \A k \in 1..n - 1 : new[k].focus = bs[k].focus
    BY <1>1
  <2>2. /\ Open(bs) = bs[n].focus /\ n \in 1..n
        /\ Windows(bs) = [k \in 1..n - 1 |-> bs[k].focus]
    BY <1>5, OpenAndWindows
  <2>3. Open(new) = new[n].focus /\ Windows(new) = [k \in 1..n - 1 |-> new[k].focus]
    BY <1>1, <1>5, OpenAndWindows
  <2>4. QED
    BY <1>1, <1>5, <2>1, <2>2, <2>3
<1>6. QED
  BY <1>3, <1>4, <1>5

\* A chunk joins the open text, or starts the next when that is overdue.
LEMMA AttachedIntake ==
    ASSUME NEW bs, BatchesOK(bs), NEW c \in Chunks
    PROVE  LET at == Attached(bs, c)
           IN  \/ Open(at) = Append(Open(bs), c) /\ Windows(at) = Windows(bs)
               \/ /\ Open(bs) # <<>> /\ Open(at) = <<c>>
                  /\ Windows(at) = Append(Windows(bs), Open(bs))
<1> DEFINE at   == Attached(bs, c)
           kept == Closed(bs, OverdueIn(bs))
           n    == Len(bs)
<1>1. /\ BatchesOK(at) /\ Collecting(at) = {Len(at)}
      /\ \/ Collecting(kept) = {} /\ at = Append(kept, NewBatch(kept, c))
         \/ /\ Collecting(bs) = {n} /\ Len(at) = n
            /\ \A k \in DOMAIN bs : k # n => at[k] = bs[k]
            /\ at[Len(at)].focus = Append(bs[n].focus, c)
  BY AttachedBatches
<1>2. BatchesOK(kept) /\ Len(kept) = n
  BY ClosedBatches
<1>3. n \in Nat /\ DOMAIN bs = 1..n /\ kept \in Seq(Batch)
  BY <1>2 DEF BatchesOK
<1>4. /\ Open(at) = at[Len(at)].focus
      /\ Windows(at) = [k \in 1..Len(at) - 1 |-> at[k].focus]
  BY <1>1, OpenAndWindows
<1>5. NewBatch(kept, c) \in Batch /\ NewBatch(kept, c).focus = <<c>>
  BY <1>2, NewBatchType
<1>6. Touched(bs, kept)
  BY ClosedTouches
<1> HIDE DEF at, kept, n
<1>7. CASE Collecting(kept) = {} /\ at = Append(kept, NewBatch(kept, c))
  <2>1. Open(at) = <<c>> /\ Windows(at) = Windows(kept)
    <3> DEFINE b == NewBatch(kept, c)
    <3>1. b \in Batch /\ b.focus = <<c>> /\ at = Append(kept, b)
      BY <1>5, <1>7
    <3> HIDE DEF b
    <3>2. /\ Len(at) = n + 1 /\ at[n + 1] = b /\ Len(at) - 1 = n
          /\ \A k \in 1..n : at[k] = kept[k]
      BY <1>2, <1>3, <3>1
    <3>3. Windows(kept) = [k \in 1..n |-> kept[k].focus]
      BY <1>2, <1>7, OpenAndWindows
    <3>4. QED
      BY <1>4, <3>1, <3>2, <3>3
  <2>2. CASE Collecting(bs) = {}
    <3>1. Windows(kept) = Windows(bs) /\ Open(bs) = <<>>
      BY <1>6, <2>2, TouchedIntake, OpenAndWindows
    <3>2. <<c>> = Append(<<>>, c)
      OBVIOUS
    <3>3. QED
      BY <2>1, <3>1, <3>2 DEF at
  <2>3. CASE Collecting(bs) # {}
    <3>1. Open(bs) # <<>> /\ Windows(kept) = Append(Windows(bs), Open(bs))
      BY <1>6, <1>7, <2>3, TouchedIntake
    <3>2. QED
      BY <2>1, <3>1 DEF at
  <2>4. QED
    BY <2>2, <2>3
<1>8. CASE /\ Collecting(bs) = {n} /\ Len(at) = n
           /\ \A k \in DOMAIN bs : k # n => at[k] = bs[k]
           /\ at[Len(at)].focus = Append(bs[n].focus, c)
  <2>1. Open(bs) = bs[n].focus /\ Windows(bs) = [k \in 1..n - 1 |-> bs[k].focus]
    BY <1>8, OpenAndWindows DEF n
  <2>2. \A k \in 1..n - 1 : at[k] = bs[k]
    BY <1>3, <1>8
  <2>3. QED
    BY <1>4, <1>8, <2>1, <2>2 DEF at
<1>9. QED
  BY <1>1, <1>7, <1>8

IntakeOpen    == [s \in Sessions |-> Open(batches[s])]
IntakeWindows == [s \in Sessions |-> Windows(batches[s])]

\* Accepted text is stored text.
LEMMA AcceptedIsKnown ==
    ASSUME StoreInv, NEW s \in Sessions
    PROVE  Intake!Accepted(s) \subseteq Known
<1> DEFINE bs == batches[s]
           W  == Windows(bs)
<1>1. /\ BatchesOK(bs) /\ DOMAIN bs = 1..Len(bs) /\ Len(bs) \in Nat
      /\ \A k \in 1..Len(bs) : ToSet(bs[k].focus) \subseteq ToSet(chunks[s])
  BY DEF StoreInv, RowsInv, BatchesOK, HoldsText
<1>2. ToSet(chunks[s]) \subseteq Known
  BY DEF Known
<1>3. ToSet(Open(bs)) \subseteq ToSet(chunks[s])
  <2>1. CASE Collecting(bs) = {}
    <3>1. Open(bs) = <<>>
      BY <1>1, <2>1, OpenAndWindows
    <3>2. ToSet(<<>>) = {}
      BY DEF ToSet
    <3>3. QED
      BY <3>1, <3>2
  <2>2. CASE Collecting(bs) # {}
    BY <1>1, <2>2, OpenAndWindows
  <2>3. QED
    BY <2>1, <2>2
<1>4. ASSUME NEW k \in DOMAIN W
      PROVE  ToSet(W[k]) \subseteq ToSet(chunks[s])
  <2>1. k \in 1..Len(bs) /\ W[k] = bs[k].focus
    <3>1. CASE Collecting(bs) = {}
      BY <1>1, <1>4, <3>1, OpenAndWindows
    <3>2. CASE Collecting(bs) # {}
      <4>1. W = [i \in 1..Len(bs) - 1 |-> bs[i].focus]
        BY <1>1, <3>2, OpenAndWindows
      <4>2. QED
        BY <1>1, <1>4, <4>1
    <3>3. QED
      BY <3>1, <3>2
  <2>2. QED
    BY <1>1, <2>1
<1>5. Intake!Accepted(s) = ToSet(Open(bs)) \cup UNION {ToSet(W[k]) : k \in DOMAIN W}
  BY DEF Intake!Accepted, ToSet
<1>6. QED
  BY <1>2, <1>3, <1>4, <1>5

LEMMA IntakeInit == Init => Intake!Init
<1>1. BatchesOK(<<>>) /\ Collecting(<<>>) = {}
  BY DEF BatchesOK, Collecting
<1>2. Open(<<>>) = <<>> /\ Windows(<<>>) = <<>>
  BY <1>1 DEF Open, Windows
<1>3. QED
  BY <1>2 DEF Init, Intake!Init

LEMMA IntakeStep ==
    ASSUME StoreInv, [Next]_storeVars
    PROVE  [Intake!Next]_(Intake!intake)
<1>1. RowsInv /\ \A s \in Sessions : BatchesOK(batches[s])
  BY DEF StoreInv, RowsInv
<1>2. NothingStored \/ \E s \in Sessions, c \in Chunks : ChunkStored(s, c)
  BY <1>1, StoreStep
<1>3. CASE NothingStored
  <2> DEFINE S == {s \in Sessions : Collecting(batches[s]) # {} /\ Collecting(batches'[s]) = {}}
  <2>1. ASSUME NEW s \in Sessions
        PROVE  IF s \in S
               THEN /\ Open(batches[s]) # <<>> /\ Open(batches'[s]) = <<>>
                    /\ Windows(batches'[s]) = Append(Windows(batches[s]), Open(batches[s]))
               ELSE /\ Open(batches'[s]) = Open(batches[s])
                    /\ Windows(batches'[s]) = Windows(batches[s])
    <3>1. Touched(batches[s], batches'[s])
      BY <1>3 DEF NothingStored
    <3>2. QED
      BY <1>1, <3>1, TouchedIntake
  <2>2. S \in SUBSET Sessions
    OBVIOUS
  <2> HIDE DEF S
  <2>3. Intake!Handover(S)
    BY <2>1, <2>2 DEF Intake!Handover
  <2>4. QED
    BY <2>2, <2>3 DEF Intake!Next
<1>4. ASSUME NEW s \in Sessions, NEW c \in Chunks, ChunkStored(s, c)
      PROVE  Intake!Next
  <2> DEFINE bs  == batches[s]
             at  == Attached(bs, c)
             o   == Open(batches[s])
             w   == Windows(batches[s])
             oo  == Open(batches'[s])
             ww  == Windows(batches'[s])
  <2>1. c \in Chunks \ UNION {Intake!Accepted(t) : t \in Sessions}
    BY <1>4, AcceptedIsKnown DEF ChunkStored
  <2>2. \A t \in Sessions \ {s} : /\ Open(batches'[t]) = Open(batches[t])
                                  /\ Windows(batches'[t]) = Windows(batches[t])
    BY <1>4 DEF ChunkStored
  <2>3. \/ oo = Append(o, c) /\ ww = w
        \/ o # <<>> /\ oo = <<c>> /\ ww = Append(w, o)
        \/ o = <<>> /\ oo = o /\ ww = Append(w, <<c>>)
    <3>1. \/ Open(at) = Append(o, c) /\ Windows(at) = w
          \/ o # <<>> /\ Open(at) = <<c>> /\ Windows(at) = Append(w, o)
      BY <1>1, AttachedIntake
    <3>2. CASE batches'[s] = at
      BY <3>1, <3>2
    <3>3. CASE bs = <<>> /\ batches'[s] = Closed(at, DOMAIN at)
      <4>1. o = <<>> /\ w = <<>>
        BY <3>3 DEF Open, Windows, Collecting
      <4>2. Open(at) = Append(<<>>, c) /\ Windows(at) = <<>>
        BY <3>1, <4>1
      <4>3. BatchesOK(at) /\ Collecting(at) # {} /\ Touched(at, Closed(at, DOMAIN at))
        BY <1>1, AttachedBatches, ClosedTouches
      <4>4. Collecting(Closed(at, DOMAIN at)) = {}
        <5>1. Collecting(Closed(at, DOMAIN at)) = Collecting(at) \ DOMAIN at
          BY <4>3, ClosedBatches
        <5>2. QED
          BY <5>1 DEF Collecting
      <4>5. oo = <<>> /\ ww = Append(<<>>, Append(<<>>, c))
        BY <3>3, <4>2, <4>3, <4>4, TouchedIntake
      <4>6. Append(<<>>, c) = <<c>>
        OBVIOUS
      <4>7. QED
        BY <4>1, <4>5, <4>6
    <3>4. QED
      BY <1>4, <3>2, <3>3 DEF ChunkStored
  <2> DEFINE P == IntakeOpen
             Q == IntakeWindows
             PP == [t \in Sessions |-> Open(batches'[t])]
             QQ == [t \in Sessions |-> Windows(batches'[t])]
  <2>4. /\ P[s] = o /\ Q[s] = w
        /\ PP = [P EXCEPT ![s] = oo] /\ QQ = [Q EXCEPT ![s] = ww]
    BY <2>2 DEF IntakeOpen, IntakeWindows
  <2>5. /\ oo = o => PP = P
        /\ ww = w => QQ = Q
    BY <2>2 DEF IntakeOpen, IntakeWindows
  <2>6. Intake!Join(s, c) \/ Intake!Turn(s, c) \/ Intake!Whole(s, c)
    <3> HIDE DEF o, w, oo, ww, PP, QQ
    <3>1. CASE oo = Append(o, c) /\ ww = w
      <4>1. PP = [P EXCEPT ![s] = Append(P[s], c)] /\ QQ = Q
        BY <2>4, <2>5, <3>1
      <4>2. QED
        BY <4>1 DEF Intake!Join, PP, QQ, IntakeOpen, IntakeWindows
    <3>2. CASE o # <<>> /\ oo = <<c>> /\ ww = Append(w, o)
      <4>1. /\ P[s] # <<>> /\ PP = [P EXCEPT ![s] = <<c>>]
            /\ QQ = [Q EXCEPT ![s] = Append(Q[s], P[s])]
        BY <2>4, <3>2
      <4>2. QED
        BY <4>1 DEF Intake!Turn, PP, QQ, IntakeOpen, IntakeWindows
    <3>3. CASE o = <<>> /\ oo = o /\ ww = Append(w, <<c>>)
      <4>1. P[s] = <<>> /\ PP = P /\ QQ = [Q EXCEPT ![s] = Append(Q[s], <<c>>)]
        BY <2>4, <2>5, <3>3
      <4>2. QED
        BY <4>1 DEF Intake!Whole, PP, QQ, IntakeOpen, IntakeWindows
    <3>4. QED
      BY <2>3, <3>1, <3>2, <3>3
  <2>7. QED
    BY <2>1, <2>6 DEF Intake!Next
<1>5. QED
  BY <1>2, <1>3, <1>4

\* Batching hands every session's text over whole, once and in order: a step of
\* the store is a step of TextIntake, or one the intake does not see.
THEOREM BatchesImplementIntake == Spec => ImplementsIntake
<1>1. StoreInv /\ [Next]_storeVars => [Intake!Next]_(Intake!intake)
  BY IntakeStep
<1>2. QED
  BY <1>1, IntakeInit, StoreInvariant, PTL DEF Spec, ImplementsIntake, Intake!Spec

-----------------------------------------------------------------------------
(* The source manager.                                                     *)

\* The steps of a call that lead to a write of its session's row or to a
\* launch, after the row was read.
Writing == {"create", "resume", "launch", "settle"}

Creating(a, s) == call[a].pc = "create" /\ call[a].session = s

\* The inductive invariant of the manager: goroutines and the active map name
\* each other, and no other call is about to write or launch a session that
\* Start is creating.
ManagerInv ==
    /\ state  \in [Sessions -> SourceStates]
    /\ app    \in {"up", "stopping"}
    /\ active \in [Sessions -> Runners \cup {Nobody}]
    /\ runner \in [Runners -> Runner]
    /\ call   \in [Callers -> Call]
    /\ \A r \in Runners : Alive(r) => /\ runner[r].session \in Captured
                                      /\ active[runner[r].session] = r
                                      /\ state[runner[r].session] # "none"
    /\ \A s \in Sessions : active[s] # Nobody => /\ Alive(active[s])
                                                 /\ runner[active[s]].session = s
    /\ \A a \in Callers : call[a].pc # "idle" => /\ call[a].session \in Captured
                                                 /\ state[call[a].session] # "none"
    /\ \A a \in Callers, s \in Sessions : Creating(a, s) =>
          /\ active[s] = Nobody
          /\ state[s] = "starting"
          /\ \A b \in Callers \ {a} : call[b].session = s => call[b].pc \notin Writing

LEMMA NobodyType == NoRunner \in Runner /\ NoCall \in Call
  BY DEF NoRunner, Runner, RunnerSteps, NoCall, Call, CallSteps, Ended

LEMMA ManagerInit == SourcesInit => ManagerInv
<1> SUFFICES ASSUME SourcesInit PROVE ManagerInv
  OBVIOUS
<1>1. NoRunner.pc = "none" /\ NoCall.pc = "idle"
  BY DEF NoRunner, NoCall
<1>2. QED
  BY <1>1, NobodyType DEF SourcesInit, Init, ManagerInv, SourceStates, Alive, Creating

\* What a call may become: no creation, and if it is about to write, of a
\* session no other call creates.
Harmless(v) ==
    /\ v \in Call
    /\ v.pc # "idle" => v.session \in Captured /\ state[v.session] # "none"
    /\ v.pc # "create"
    /\ v.pc \in Writing => \A b \in Callers : ~Creating(b, v.session)

\* The rows as a write leaves them that no creation can meet.
RowsKept ==
    /\ state' \in [Sessions -> SourceStates]
    /\ \A s \in Sessions :
          /\ state[s] # "none" => state'[s] # "none"
          /\ (\E a \in Callers : Creating(a, s)) => state'[s] = state[s]

\* The goroutines move, or are cancelled, and none starts or ends.
RunnersKept ==
    /\ runner' \in [Runners -> Runner]
    /\ \A r \in Runners : /\ (runner'[r].pc = "none") <=> (runner[r].pc = "none")
                          /\ runner'[r].session = runner[r].session

CallsKept ==
    /\ call' \in [Callers -> Call]
    /\ \A a \in Callers : call'[a] = call[a] \/ Harmless(call'[a])

\* A step that launches and creates nothing and ends no goroutine.
LEMMA QuietStep ==
    ASSUME ManagerInv, RowsKept, RunnersKept, CallsKept,
           app' \in {"up", "stopping"}, active' = active
    PROVE  ManagerInv'
<1>1. \A r \in Runners : Alive(r)' => Alive(r)
  BY DEF RunnersKept, Alive
<1>2. \A r \in Runners : Alive(r)' => /\ runner'[r].session \in Captured
                                      /\ active'[runner'[r].session] = r
                                      /\ state'[runner'[r].session] # "none"
  BY <1>1 DEF ManagerInv, RunnersKept, RowsKept, Captured
<1>3. \A s \in Sessions : active'[s] # Nobody => /\ runner'[active'[s]].pc # "none"
                                                 /\ runner'[active'[s]].session = s
  BY DEF ManagerInv, RunnersKept, Alive
<1>4. \A a \in Callers : call'[a].pc # "idle" => /\ call'[a].session \in Captured
                                                 /\ state'[call'[a].session] # "none"
  BY DEF ManagerInv, CallsKept, Harmless, RowsKept, Captured
<1>5. ASSUME NEW a \in Callers, NEW s \in Sessions, Creating(a, s)'
      PROVE  /\ active'[s] = Nobody
             /\ state'[s] = "starting"
             /\ \A b \in Callers \ {a} : call'[b].session = s => call'[b].pc \notin Writing
  <2>1. call'[a] = call[a] /\ Creating(a, s)
    BY <1>5 DEF CallsKept, Harmless, Creating
  <2>2. active'[s] = Nobody /\ state'[s] = "starting"
    BY <2>1 DEF ManagerInv, RowsKept
  <2>3. ASSUME NEW b \in Callers \ {a}, call'[b].session = s
        PROVE  call'[b].pc \notin Writing
    <3>1. CASE call'[b] = call[b]
      BY <2>1, <2>3, <3>1 DEF ManagerInv
    <3>2. CASE Harmless(call'[b])
      BY <2>1, <2>3, <3>2 DEF Harmless
    <3>3. QED
      BY <3>1, <3>2 DEF CallsKept
  <2>4. QED
    BY <2>2, <2>3
<1>6. QED
  BY <1>2, <1>3, <1>4, <1>5 DEF ManagerInv, RowsKept, RunnersKept, CallsKept, Alive

\* Writing or not the row of a session that exists and that nobody creates.
LEMMA RecordedStep ==
    ASSUME ManagerInv, NEW s \in Captured, state[s] # "none",
           \A a \in Callers : ~Creating(a, s),
           NEW st \in SourceStates \ {"none"},
           UpdateSourceSession(s, st) \/ UNCHANGED storeVars
    PROVE  RowsKept /\ [Next]_storeVars
<1>1. state \in [Sessions -> SourceStates] /\ s \in Sessions
  BY DEF ManagerInv, Captured
<1>2. CASE UpdateSourceSession(s, st)
  <2>1. RowsKept
    BY <1>1, <1>2 DEF UpdateSourceSession, RowsKept
  <2>2. Next
    BY <1>1, <1>2 DEF Next
  <2>3. QED
    BY <2>1, <2>2
<1>3. CASE UNCHANGED storeVars
  BY <1>1, <1>3 DEF storeVars, RowsKept
<1>4. QED
  BY <1>2, <1>3

LEMMA SameRows == ManagerInv /\ state' = state => RowsKept
  BY DEF ManagerInv, RowsKept

LEMMA SameRunners == ManagerInv /\ runner' = runner => RunnersKept
  BY DEF ManagerInv, RunnersKept

LEMMA SameCalls == ManagerInv /\ call' = call => CallsKept
  BY DEF ManagerInv, CallsKept

\* A call moves to a harmless step.
LEMMA CallMoves ==
    ASSUME ManagerInv, NEW a \in Callers, NEW v, Harmless(v),
           call' = [call EXCEPT ![a] = v]
    PROVE  CallsKept
<1>1. call \in [Callers -> Call] /\ v \in Call
  BY DEF ManagerInv, Harmless
<1>2. QED
  BY <1>1 DEF CallsKept

LEMMA AnswerIsHarmless == Harmless(NoCall)
  BY NobodyType DEF Harmless, NoCall, Writing

\* A goroutine moves.
LEMMA RunnerMoves ==
    ASSUME ManagerInv, NEW r \in Runners, Alive(r), NEW w \in Runner,
           w.pc # "none", w.session = runner[r].session,
           runner' = [runner EXCEPT ![r] = w]
    PROVE  RunnersKept
<1>1. runner \in [Runners -> Runner]
  BY DEF ManagerInv
<1>2. runner' \in [Runners -> Runner]
  BY <1>1
<1>3. \A q \in Runners : runner'[q] = IF q = r THEN w ELSE runner[q]
  BY <1>1
<1>4. QED
  BY <1>2, <1>3 DEF RunnersKept, Alive

LEMMA GotoMoves ==
    ASSUME ManagerInv, NEW r \in Runners, Alive(r), NEW pc \in RunnerSteps \ {"none"},
           Goto(r, pc)
    PROVE  RunnersKept
<1> DEFINE w == [runner[r] EXCEPT !.pc = pc]
<1>1. runner[r] \in Runner
  BY DEF ManagerInv
<1>2. w \in Runner /\ w.pc = pc /\ w.session = runner[r].session
  BY <1>1 DEF Runner
<1>3. runner' = [runner EXCEPT ![r] = w]
  BY DEF Goto
<1> HIDE DEF w
<1>4. QED
  BY <1>2, <1>3, RunnerMoves

\* The session of a goroutine exists, and nobody creates it.
LEMMA SessionOfRunner ==
    ASSUME ManagerInv, NEW r \in Runners, Alive(r)
    PROVE  /\ runner[r] \in Runner
           /\ runner[r].session \in Captured /\ runner[r].session \in Sessions
           /\ state[runner[r].session] # "none"
           /\ \A a \in Callers : ~Creating(a, runner[r].session)
<1>1. runner[r].session \in Captured /\ active[runner[r].session] = r /\ r # Nobody
  BY SourcesAssumption DEF ManagerInv
<1>2. runner[r].session \in Sessions
  BY <1>1 DEF Captured
<1>3. QED
  BY <1>1, <1>2 DEF ManagerInv

\* What holds of the call that moves.
LEMMA SessionOfCall ==
    ASSUME ManagerInv, NEW a \in Callers, call[a].pc # "idle"
    PROVE  /\ call[a] \in Call
           /\ call[a].session \in Captured /\ call[a].session \in Sessions
           /\ state[call[a].session] # "none"
           /\ call[a].pc \in Writing \ {"create"} =>
                 \A b \in Callers : ~Creating(b, call[a].session)
<1>1. call[a].session \in Captured /\ call[a].session \in Sessions
  BY DEF ManagerInv, Captured
<1>2. ASSUME call[a].pc \in Writing \ {"create"}, NEW b \in Callers
      PROVE  ~Creating(b, call[a].session)
  <2>1. CASE b = a
    BY <1>2, <2>1 DEF Creating
  <2>2. CASE b # a
    BY <1>1, <1>2, <2>2 DEF ManagerInv
  <2>3. QED
    BY <2>1, <2>2
<1>3. QED
  BY <1>1, <1>2 DEF ManagerInv

\* A goroutine is launched for a session without one.
LEMMA LaunchStep ==
    ASSUME ManagerInv, NEW a \in Callers, call[a].pc # "idle",
           active[call[a].session] = Nobody,
           \A b \in Callers \ {a} : ~Creating(b, call[a].session),
           Launch(call[a].session), Answer(a), UNCHANGED <<storeVars, app>>
    PROVE  ManagerInv'
<1> DEFINE s == call[a].session
<1>1. s \in Captured /\ s \in Sessions /\ state[s] # "none"
  BY SessionOfCall
<1>2. PICK r \in Runners :
         /\ ~Alive(r)
         /\ active' = [active EXCEPT ![s] = r]
         /\ runner' = [runner EXCEPT ![r] =
               [NoRunner EXCEPT !.pc = "starting", !.session = s,
                                !.cancelled = (app = "stopping")]]
  BY DEF Launch
<1> DEFINE w == [NoRunner EXCEPT !.pc = "starting", !.session = s,
                                 !.cancelled = (app = "stopping")]
<1>3. w \in Runner /\ w.pc = "starting" /\ w.session = s
  BY <1>1 DEF NoRunner, Runner, RunnerSteps, Ended
<1>4. /\ active \in [Sessions -> Runners \cup {Nobody}] /\ runner \in [Runners -> Runner]
      /\ call \in [Callers -> Call] /\ state \in [Sessions -> SourceStates]
  BY DEF ManagerInv
<1>5. /\ runner' \in [Runners -> Runner] /\ runner'[r] = w
      /\ \A q \in Runners \ {r} : runner'[q] = runner[q]
  BY <1>2, <1>3, <1>4
<1>6. /\ active' \in [Sessions -> Runners \cup {Nobody}] /\ active'[s] = r
      /\ \A t \in Sessions \ {s} : active'[t] = active[t]
  BY <1>1, <1>2, <1>4
<1>7. /\ call' \in [Callers -> Call] /\ call'[a] = NoCall /\ NoCall.pc = "idle"
      /\ \A b \in Callers \ {a} : call'[b] = call[b]
  <2>1. call' = [call EXCEPT ![a] = NoCall]
    BY DEF Answer
  <2>2. QED
    BY <1>4, <2>1, NobodyType DEF NoCall
<1>8. state' = state /\ app' = app
  BY DEF storeVars
<1>9. active[s] = Nobody /\ \A b \in Callers \ {a} : ~Creating(b, s)
  OBVIOUS
<1> HIDE DEF w, s
<1>10. \A q \in Runners : Alive(q)' => /\ runner'[q].session \in Captured
                                       /\ active'[runner'[q].session] = q
                                       /\ state'[runner'[q].session] # "none"
  <2> SUFFICES ASSUME NEW q \in Runners, Alive(q)'
               PROVE  /\ runner'[q].session \in Captured
                      /\ active'[runner'[q].session] = q
                      /\ state'[runner'[q].session] # "none"
    OBVIOUS
  <2>1. CASE q = r
    BY <1>1, <1>3, <1>5, <1>6, <1>8, <2>1
  <2>2. CASE q # r
    <3>1. runner'[q] = runner[q] /\ Alive(q)
      BY <1>5, <2>2 DEF Alive
    <3>2. /\ runner[q].session \in Captured /\ active[runner[q].session] = q
          /\ state[runner[q].session] # "none" /\ q # Nobody
      BY <3>1, SourcesAssumption DEF ManagerInv
    <3>3. runner[q].session \in Sessions \ {s}
      BY <1>9, <3>2 DEF Captured
    <3>4. QED
      BY <1>6, <1>8, <3>1, <3>2, <3>3
  <2>3. QED
    BY <2>1, <2>2
<1>11. \A t \in Sessions : active'[t] # Nobody => /\ runner'[active'[t]].pc # "none"
                                                  /\ runner'[active'[t]].session = t
  <2> SUFFICES ASSUME NEW t \in Sessions, active'[t] # Nobody
               PROVE  runner'[active'[t]].pc # "none" /\ runner'[active'[t]].session = t
    OBVIOUS
  <2>1. CASE t = s
    BY <1>3, <1>5, <1>6, <2>1
  <2>2. CASE t # s
    <3>1. /\ active'[t] = active[t] /\ active[t] \in Runners
          /\ Alive(active[t]) /\ runner[active[t]].session = t
      BY <1>4, <1>6, <2>2 DEF ManagerInv
    <3>2. active[t] # r
      BY <1>2, <3>1
    <3>3. QED
      BY <1>5, <3>1, <3>2 DEF Alive
  <2>3. QED
    BY <2>1, <2>2
<1>12. \A b \in Callers : call'[b].pc # "idle" => /\ call'[b].session \in Captured
                                                  /\ state'[call'[b].session] # "none"
  BY <1>7, <1>8 DEF ManagerInv
<1>13. ASSUME NEW b \in Callers, NEW t \in Sessions, Creating(b, t)'
       PROVE  /\ active'[t] = Nobody
              /\ state'[t] = "starting"
              /\ \A d \in Callers \ {b} : call'[d].session = t => call'[d].pc \notin Writing
  <2>1. b # a /\ call'[b] = call[b] /\ Creating(b, t)
    BY <1>7, <1>13 DEF Creating
  <2>2. t # s
    BY <1>9, <2>1
  <2>3. /\ active[t] = Nobody /\ state[t] = "starting"
        /\ \A d \in Callers \ {b} : call[d].session = t => call[d].pc \notin Writing
    BY <2>1 DEF ManagerInv
  <2>4. \A d \in Callers \ {b} : call'[d].session = t => call'[d].pc \notin Writing
    BY <1>7, <2>3 DEF Writing
  <2>5. QED
    BY <1>6, <1>8, <2>2, <2>3, <2>4
<1>14. QED
  BY <1>5, <1>6, <1>7, <1>8, <1>10, <1>11, <1>12, <1>13 DEF ManagerInv, Alive

\* Start creates a session row nobody knows yet.
LEMMA CreateStep ==
    ASSUME ManagerInv, NEW a \in Callers, NEW s \in Captured, StartCreate(a, s)
    PROVE  ManagerInv' /\ [Next]_storeVars
<1> DEFINE v == [NoCall EXCEPT !.pc = "create", !.session = s]
<1>1. /\ state' = [state EXCEPT ![s] = "starting"] /\ state[s] = "none"
      /\ call' = [call EXCEPT ![a] = v] /\ call[a].pc = "idle"
      /\ active' = active /\ runner' = runner /\ app' = app
  BY DEF StartCreate, SaveSourceSession
<1>2. /\ active \in [Sessions -> Runners \cup {Nobody}] /\ runner \in [Runners -> Runner]
      /\ call \in [Callers -> Call] /\ state \in [Sessions -> SourceStates]
      /\ s \in Sessions
  BY DEF ManagerInv, Captured
<1>3. v \in Call /\ v.pc = "create" /\ v.session = s
  BY <1>2 DEF NoCall, Call, CallSteps
<1> HIDE DEF v
<1>4. /\ call' \in [Callers -> Call] /\ call'[a] = v
      /\ \A b \in Callers \ {a} : call'[b] = call[b]
  BY <1>1, <1>2, <1>3
<1>5. /\ state' \in [Sessions -> SourceStates] /\ state'[s] = "starting"
      /\ \A t \in Sessions \ {s} : state'[t] = state[t]
  BY <1>1, <1>2 DEF SourceStates
<1>6. active[s] = Nobody
  <2>1. active[s] # Nobody => /\ active[s] \in Runners /\ Alive(active[s])
                              /\ runner[active[s]].session = s
    BY <1>2 DEF ManagerInv
  <2>2. QED
    BY <1>1, <2>1 DEF ManagerInv
<1>7. \A b \in Callers : call[b].pc # "idle" => call[b].session # s
  BY <1>1 DEF ManagerInv
<1>8. \A r \in Runners : Alive(r)' => /\ runner'[r].session \in Captured
                                      /\ active'[runner'[r].session] = r
                                      /\ state'[runner'[r].session] # "none"
  BY <1>1, <1>5 DEF ManagerInv, Alive, Captured
<1>9. \A b \in Callers : call'[b].pc # "idle" => /\ call'[b].session \in Captured
                                                 /\ state'[call'[b].session] # "none"
  <2> SUFFICES ASSUME NEW b \in Callers, call'[b].pc # "idle"
               PROVE  call'[b].session \in Captured /\ state'[call'[b].session] # "none"
    OBVIOUS
  <2>1. CASE b = a
    BY <1>3, <1>4, <1>5, <2>1
  <2>2. CASE b # a
    BY <1>4, <1>5, <1>7, <2>2 DEF ManagerInv, Captured
  <2>3. QED
    BY <2>1, <2>2
<1>10. ASSUME NEW b \in Callers, NEW t \in Sessions, Creating(b, t)'
       PROVE  /\ active'[t] = Nobody
              /\ state'[t] = "starting"
              /\ \A d \in Callers \ {b} : call'[d].session = t => call'[d].pc \notin Writing
  <2>1. CASE b = a
    <3>1. t = s
      BY <1>3, <1>4, <1>10, <2>1 DEF Creating
    <3>2. \A d \in Callers \ {b} : call'[d].session = t => call'[d].pc \notin Writing
      BY <1>4, <1>7, <2>1, <3>1 DEF Writing
    <3>3. QED
      BY <1>1, <1>5, <1>6, <3>1, <3>2
  <2>2. CASE b # a
    <3>1. call'[b] = call[b] /\ Creating(b, t) /\ call[b].pc # "idle" /\ call[b].session = t
      BY <1>4, <1>10, <2>2 DEF Creating
    <3>2. t # s
      BY <1>7, <3>1
    <3>3. /\ active[t] = Nobody /\ state[t] = "starting"
          /\ \A d \in Callers \ {b} : call[d].session = t => call[d].pc \notin Writing
      BY <3>1 DEF ManagerInv
    <3>4. \A d \in Callers \ {b} : call'[d].session = t => call'[d].pc \notin Writing
      BY <1>3, <1>4, <3>2, <3>3
    <3>5. QED
      BY <1>1, <1>5, <3>2, <3>3, <3>4
  <2>3. QED
    BY <2>1, <2>2
<1>11. ManagerInv'
  BY <1>1, <1>4, <1>5, <1>8, <1>9, <1>10 DEF ManagerInv, Alive
<1>12. Next
  BY <1>2 DEF StartCreate, Next
<1>13. QED
  BY <1>11, <1>12

\* A goroutine leaves the map and ends, in one step under the lock.
LEMMA LeaveStep ==
    ASSUME ManagerInv, NEW r \in Runners, Leave(r)
    PROVE  ManagerInv' /\ UNCHANGED storeVars
<1> DEFINE s == runner[r].session
<1>1. /\ active' = [active EXCEPT ![s] = Nobody] /\ runner' = [runner EXCEPT ![r] = NoRunner]
      /\ UNCHANGED <<storeVars, app, call>> /\ Alive(r)
  BY DEF Leave, Alive
<1>2. s \in Sessions /\ active[s] = r
  BY <1>1, SessionOfRunner DEF ManagerInv
<1>3. /\ active \in [Sessions -> Runners \cup {Nobody}] /\ runner \in [Runners -> Runner]
  BY DEF ManagerInv
<1> HIDE DEF s
<1>4. /\ active' \in [Sessions -> Runners \cup {Nobody}] /\ active'[s] = Nobody
      /\ \A t \in Sessions \ {s} : active'[t] = active[t]
  BY <1>1, <1>2, <1>3
<1>5. /\ runner' \in [Runners -> Runner] /\ runner'[r].pc = "none"
      /\ \A q \in Runners \ {r} : runner'[q] = runner[q]
  BY <1>1, <1>3, NobodyType DEF NoRunner
<1>6. state' = state /\ call' = call /\ app' = app
  BY <1>1 DEF storeVars
<1>7. \A q \in Runners : Alive(q)' => /\ runner'[q].session \in Captured
                                      /\ active'[runner'[q].session] = q
                                      /\ state'[runner'[q].session] # "none"
  <2> SUFFICES ASSUME NEW q \in Runners, Alive(q)'
               PROVE  /\ runner'[q].session \in Captured
                      /\ active'[runner'[q].session] = q
                      /\ state'[runner'[q].session] # "none"
    OBVIOUS
  <2>1. q # r /\ runner'[q] = runner[q] /\ Alive(q)
    BY <1>5 DEF Alive
  <2>2. /\ runner[q].session \in Captured /\ active[runner[q].session] = q
        /\ state[runner[q].session] # "none"
    BY <2>1 DEF ManagerInv
  <2>3. runner[q].session \in Sessions \ {s}
    BY <1>2, <2>1, <2>2 DEF Captured
  <2>4. QED
    BY <1>4, <1>6, <2>1, <2>2, <2>3
<1>8. \A t \in Sessions : active'[t] # Nobody => /\ runner'[active'[t]].pc # "none"
                                                 /\ runner'[active'[t]].session = t
  <2> SUFFICES ASSUME NEW t \in Sessions, active'[t] # Nobody
               PROVE  runner'[active'[t]].pc # "none" /\ runner'[active'[t]].session = t
    OBVIOUS
  <2>1. /\ t # s /\ active'[t] = active[t] /\ active[t] \in Runners
        /\ Alive(active[t]) /\ runner[active[t]].session = t
    BY <1>3, <1>4 DEF ManagerInv
  <2>2. active[t] # r
    BY <2>1 DEF s
  <2>3. QED
    BY <1>5, <2>1, <2>2 DEF Alive
<1>9. \A a \in Callers, t \in Sessions : Creating(a, t)' =>
          /\ active'[t] = Nobody
          /\ state'[t] = "starting"
          /\ \A b \in Callers \ {a} : call'[b].session = t => call'[b].pc \notin Writing
  BY <1>4, <1>6 DEF ManagerInv, Creating
<1>10. ManagerInv'
  BY <1>4, <1>5, <1>6, <1>7, <1>8, <1>9 DEF ManagerInv, Alive
<1>11. QED
  BY <1>1, <1>10

\* The next process starts without goroutines and calls.
LEMMA RestartStep ==
    ASSUME ManagerInv, Restart
    PROVE  ManagerInv' /\ [Next]_storeVars
<1>1. NoRunner.pc = "none" /\ NoCall.pc = "idle"
  BY DEF NoRunner, NoCall
<1>2. state' \in [Sessions -> SourceStates]
  BY DEF Restart, StartAppRun, ManagerInv, SourceStates
<1>3. ManagerInv'
  BY <1>1, <1>2, NobodyType DEF Restart, ManagerInv, Alive, Creating
<1>4. QED
  BY <1>3 DEF Restart, Next

LEMMA ShutdownKeeps ==
    ASSUME ManagerInv, Shutdown
    PROVE  RunnersKept
<1> DEFINE w == [r \in Runners |-> [runner[r] EXCEPT !.cancelled = TRUE]]
<1>1. runner \in [Runners -> Runner]
  BY DEF ManagerInv
<1>2. ASSUME NEW r \in Runners
      PROVE  /\ w[r] \in Runner /\ w[r].pc = runner[r].pc
             /\ w[r].session = runner[r].session
  <2>1. runner[r] \in Runner
    BY <1>1
  <2>2. QED
    BY <2>1 DEF Runner
<1>3. runner' = [r \in Runners |-> IF Alive(r) THEN w[r] ELSE runner[r]]
  BY DEF Shutdown
<1> HIDE DEF w
<1>4. QED
  BY <1>1, <1>2, <1>3 DEF RunnersKept

LEMMA StepIsHarmless ==
    ASSUME ManagerInv, NEW a \in Callers, call[a].pc # "idle",
           NEW pc \in CallSteps \ {"idle", "create"},
           pc \in Writing => \A b \in Callers : ~Creating(b, call[a].session),
           Step(a, pc)
    PROVE  CallsKept
<1> DEFINE v == [call[a] EXCEPT !.pc = pc]
<1>1. call[a] \in Call /\ call[a].session \in Captured /\ state[call[a].session] # "none"
  BY SessionOfCall
<1>2. v \in Call /\ v.pc = pc /\ v.session = call[a].session
  BY <1>1 DEF Call
<1>3. call' = [call EXCEPT ![a] = v]
  BY DEF Step
<1> HIDE DEF v
<1>4. Harmless(v)
  BY <1>1, <1>2 DEF Harmless
<1>5. QED
  BY <1>3, <1>4, CallMoves

LEMMA AnswerKeeps ==
    ASSUME ManagerInv, NEW a \in Callers, Answer(a)
    PROVE  CallsKept
  BY AnswerIsHarmless, CallMoves DEF Answer

\* A paused session is not being created.
LEMMA PausedIsCreated ==
    ASSUME ManagerInv, NEW s \in Sessions, state[s] = "paused"
    PROVE  \A b \in Callers : ~Creating(b, s)
  BY DEF ManagerInv

\* The steps of the calls.
LEMMA CallsStep ==
    ASSUME ManagerInv, NEW a \in Callers,
           \/ \E s \in Captured : \/ StartCreate(a, s) \/ ResumeCheck(a, s)
                                  \/ \E pause \in BOOLEAN : StopLook(a, s, pause)
           \/ CallStep(a)
           \/ StopGivesUp(a)
    PROVE  ManagerInv' /\ [Next]_storeVars
<1>1. ASSUME UNCHANGED storeVars
      PROVE  RowsKept /\ [Next]_storeVars
  BY <1>1, SameRows DEF storeVars
<1>2. ASSUME RowsKept, CallsKept, UNCHANGED <<app, active, runner>>
      PROVE  ManagerInv'
  <2>1. app' \in {"up", "stopping"} /\ active' = active
    BY <1>2 DEF ManagerInv
  <2>2. QED
    BY <1>2, <2>1, SameRunners, QuietStep
<1>3. ASSUME NEW s \in Captured, ResumeCheck(a, s)
      PROVE  ManagerInv' /\ [Next]_storeVars
  <2> DEFINE v == [NoCall EXCEPT !.pc = "checked", !.session = s]
  <2>1. /\ call' = [call EXCEPT ![a] = v] /\ state[s] # "none"
        /\ UNCHANGED storeVars /\ UNCHANGED <<app, active, runner>>
    BY <1>3 DEF ResumeCheck
  <2>2. v \in Call /\ v.pc = "checked" /\ v.session = s
    BY DEF NoCall, Call, CallSteps, Captured
  <2> HIDE DEF v
  <2>3. Harmless(v)
    BY <2>1, <2>2 DEF Harmless, Writing
  <2>4. QED
    BY <1>1, <1>2, <2>1, <2>3, CallMoves
<1>4. ASSUME NEW s \in Captured, NEW pause \in BOOLEAN, StopLook(a, s, pause)
      PROVE  ManagerInv' /\ [Next]_storeVars
  <2>1. state[s] # "none" /\ UNCHANGED storeVars /\ app' = app /\ active' = active
    BY <1>4 DEF StopLook
  <2>2. CASE active[s] = Nobody
    <3> DEFINE v == [NoCall EXCEPT !.pc = "lookup", !.session = s, !.pause = pause]
    <3>1. call' = [call EXCEPT ![a] = v] /\ runner' = runner
      BY <1>4, <2>2 DEF StopLook
    <3>2. v \in Call /\ v.pc = "lookup" /\ v.session = s
      BY DEF NoCall, Call, CallSteps, Captured
    <3> HIDE DEF v
    <3>3. Harmless(v)
      BY <2>1, <3>2 DEF Harmless, Writing
    <3>4. QED
      BY <1>1, <1>2, <2>1, <3>1, <3>3, CallMoves
  <2>3. CASE active[s] # Nobody
    <3> DEFINE r == active[s]
               v == [NoCall EXCEPT !.pc = "wait", !.session = s, !.awaits = r,
                                   !.pause = pause]
               w == [runner[r] EXCEPT !.cancelled = TRUE,
                                      !.final = IF pause THEN "paused" ELSE "stopped"]
    <3>1. /\ call' = [call EXCEPT ![a] = v]
          /\ runner' = [runner EXCEPT ![r].cancelled = TRUE,
                            ![r].final = IF pause THEN "paused" ELSE "stopped"]
      BY <1>4, <2>3 DEF StopLook
    <3>2. r \in Runners /\ Alive(r)
      BY <2>3 DEF ManagerInv, Captured
    <3>3. v \in Call /\ v.pc = "wait" /\ v.session = s
      BY <3>2 DEF NoCall, Call, CallSteps, Captured
    <3>4. w \in Runner /\ w.pc = runner[r].pc /\ w.session = runner[r].session
      <4> DEFINE e == [runner[r] EXCEPT !.cancelled = TRUE]
                 f == IF pause THEN "paused" ELSE "stopped"
      <4>1. runner[r] \in Runner /\ f \in {"stopped", "paused"}
        BY <3>2, SessionOfRunner
      <4>2. e \in Runner /\ e.pc = runner[r].pc /\ e.session = runner[r].session
        BY <4>1 DEF Runner
      <4> HIDE DEF e, f
      <4>3. LET d == [e EXCEPT !.final = f]
            IN  d \in Runner /\ d.pc = e.pc /\ d.session = e.session
        BY <4>1, <4>2 DEF Runner
      <4>4. w = [e EXCEPT !.final = f]
        BY DEF e, f
      <4>5. QED
        BY <4>2, <4>3, <4>4
    <3>5. runner' = [runner EXCEPT ![r] = w]
      BY <3>1, <3>2 DEF ManagerInv
    <3> HIDE DEF v, w, r
    <3>6. CallsKept
      <4>1. Harmless(v)
        BY <2>1, <3>3 DEF Harmless, Writing
      <4>2. QED
        BY <3>1, <4>1, CallMoves
    <3>7. RunnersKept
      BY <3>2, <3>4, <3>5, RunnerMoves DEF Alive
    <3>8. app' \in {"up", "stopping"}
      BY <2>1 DEF ManagerInv
    <3>9. QED
      BY <1>1, <2>1, <3>6, <3>7, <3>8, QuietStep
  <2>4. QED
    BY <2>2, <2>3
<1>5. CASE StartLaunch(a)
  <2> DEFINE s == call[a].session
  <2>1. call[a].pc = "create" /\ Launch(s) /\ Answer(a) /\ UNCHANGED <<storeVars, app>>
    BY <1>5 DEF StartLaunch
  <2>2. s \in Sessions /\ Creating(a, s)
    BY <2>1, SessionOfCall DEF Creating
  <2>3. /\ active[s] = Nobody
        /\ \A b \in Callers \ {a} : call[b].session = s => call[b].pc \notin Writing
    BY <2>2 DEF ManagerInv
  <2>4. \A b \in Callers \ {a} : ~Creating(b, s)
    BY <2>3 DEF Creating, Writing
  <2>5. QED
    BY <1>1, <2>1, <2>3, <2>4, LaunchStep
<1>6. CASE ResumeLaunch(a)
  <2>1. /\ call[a].pc = "launch" /\ Answer(a) /\ UNCHANGED <<storeVars, app>>
        /\ IF active[call[a].session] = Nobody THEN Launch(call[a].session)
           ELSE UNCHANGED <<active, runner>>
    BY <1>6 DEF ResumeLaunch
  <2>2. \A b \in Callers : ~Creating(b, call[a].session)
    BY <2>1, SessionOfCall DEF Writing
  <2>3. CASE active[call[a].session] = Nobody
    BY <1>1, <2>1, <2>2, <2>3, LaunchStep
  <2>4. CASE active[call[a].session] # Nobody
    BY <1>1, <1>2, <2>1, <2>4, AnswerKeeps
  <2>5. QED
    BY <2>3, <2>4
<1>7. CASE ResumeRead(a)
  <2>1. CASE state[call[a].session] = "paused"
    <3>1. call[a].pc = "checked" /\ Step(a, "resume")
      BY <1>7, <2>1 DEF ResumeRead
    <3>2. \A b \in Callers : ~Creating(b, call[a].session)
      BY <2>1, <3>1, SessionOfCall, PausedIsCreated
    <3>3. CallsKept
      BY <3>1, <3>2, StepIsHarmless DEF CallSteps
    <3>4. QED
      BY <1>1, <1>2, <1>7, <3>3 DEF ResumeRead
  <2>2. CASE state[call[a].session] # "paused"
    BY <1>1, <1>2, <1>7, <2>2, AnswerKeeps DEF ResumeRead
  <2>3. QED
    BY <2>1, <2>2
<1>8. CASE ResumeWrite(a)
  <2> DEFINE s == call[a].session
  <2>1. /\ call[a].pc = "resume" /\ UNCHANGED <<app, active, runner>>
        /\ \/ UpdateSourceSession(s, "starting") /\ Step(a, "launch")
           \/ UNCHANGED storeVars /\ Answer(a)
    BY <1>8 DEF ResumeWrite
  <2>2. /\ s \in Captured /\ state[s] # "none"
        /\ \A b \in Callers : ~Creating(b, s)
    BY <2>1, SessionOfCall DEF Writing
  <2>3. RowsKept /\ [Next]_storeVars
    BY <2>1, <2>2, RecordedStep DEF SourceStates
  <2>4. CallsKept
    BY <2>1, <2>2, StepIsHarmless, AnswerKeeps DEF CallSteps
  <2>5. QED
    BY <1>2, <2>1, <2>3, <2>4
<1>9. CASE StopLookup(a)
  <2>1. CASE ~call[a].pause /\ state[call[a].session] = "paused"
    <3>1. call[a].pc = "lookup" /\ Step(a, "settle")
      BY <1>9, <2>1 DEF StopLookup
    <3>2. \A b \in Callers : ~Creating(b, call[a].session)
      BY <2>1, <3>1, SessionOfCall, PausedIsCreated
    <3>3. CallsKept
      BY <3>1, <3>2, StepIsHarmless DEF CallSteps
    <3>4. QED
      BY <1>1, <1>2, <1>9, <3>3 DEF StopLookup
  <2>2. CASE ~(~call[a].pause /\ state[call[a].session] = "paused")
    BY <1>1, <1>2, <1>9, <2>2, AnswerKeeps DEF StopLookup
  <2>3. QED
    BY <2>1, <2>2
<1>10. CASE StopSettle(a)
  <2> DEFINE s == call[a].session
  <2>1. /\ call[a].pc = "settle" /\ UNCHANGED <<app, active, runner>> /\ Answer(a)
        /\ UpdateSourceSession(s, "stopped") \/ UNCHANGED storeVars
    BY <1>10 DEF StopSettle, Recorded
  <2>2. /\ s \in Captured /\ state[s] # "none"
        /\ \A b \in Callers : ~Creating(b, s)
    BY <2>1, SessionOfCall DEF Writing
  <2>3. RowsKept /\ [Next]_storeVars
    BY <2>1, <2>2, RecordedStep DEF SourceStates
  <2>4. QED
    BY <1>2, <2>1, <2>3, AnswerKeeps
<1>11. CASE StopReturn(a) \/ StopGivesUp(a)
  BY <1>1, <1>2, <1>11, AnswerKeeps DEF StopReturn, StopGivesUp
<1>12. QED
  BY <1>3, <1>4, <1>5, <1>6, <1>7, <1>8, <1>9, <1>10, <1>11, CreateStep DEF CallStep

\* The steps of the goroutines.
LEMMA RunnersStep ==
    ASSUME ManagerInv, NEW r \in Runners,
           RunnerStep(r) \/ Break(r) \/ \E c \in Chunks : Emit(r, c)
    PROVE  ManagerInv' /\ [Next]_storeVars
<1> DEFINE s == runner[r].session
<1>1. Alive(r)
  BY DEF RunnerStep, RunnerStart, Throttle, Proceed, Return, ReadFinal, RecordFinal,
         Leave, Break, Emit, Capturing, Alive
<1>2. /\ runner[r] \in Runner /\ s \in Captured /\ s \in Sessions /\ state[s] # "none"
      /\ \A a \in Callers : ~Creating(a, s)
      /\ runner \in [Runners -> Runner]
  BY <1>1, SessionOfRunner DEF ManagerInv
<1>3. ASSUME RowsKept, RunnersKept, UNCHANGED <<app, active, call>>
      PROVE  ManagerInv'
  <2>1. app' \in {"up", "stopping"} /\ active' = active
    BY <1>3 DEF ManagerInv
  <2>2. QED
    BY <1>3, <2>1, SameCalls, QuietStep
<1>4. ASSUME NEW st \in SourceStates \ {"none"}, Recorded(s, st)
      PROVE  RowsKept /\ [Next]_storeVars
  BY <1>2, <1>4, RecordedStep DEF Recorded
<1>5. ASSUME UNCHANGED storeVars
      PROVE  RowsKept /\ [Next]_storeVars
  BY <1>5, SameRows DEF storeVars
<1>6. ASSUME NEW w \in Runner, w.pc # "none", w.session = s, runner' = [runner EXCEPT ![r] = w]
      PROVE  RunnersKept
  BY <1>1, <1>6, RunnerMoves
\* A goroutine with another step and another verdict.
<1>7. ASSUME NEW pc \in RunnerSteps \ {"none"}, NEW st \in Ended,
             runner' = [runner EXCEPT ![r].pc = pc, ![r].verdict = st]
      PROVE  RunnersKept
  <2> DEFINE e == [runner[r] EXCEPT !.pc = pc]
             w == [e EXCEPT !.verdict = st]
  <2>1. e \in Runner /\ e.pc = pc /\ e.session = s
    BY <1>2 DEF Runner
  <2>2. runner' = [runner EXCEPT ![r] = w]
    BY <1>2, <1>7
  <2> HIDE DEF e
  <2>3. w \in Runner /\ w.pc = pc /\ w.session = s
    BY <2>1 DEF Runner
  <2> HIDE DEF w
  <2>4. QED
    BY <1>6, <2>2, <2>3
<1>8. CASE RunnerStart(r)
  <2>1. RunnersKept
    BY <1>1, <1>8, GotoMoves DEF RunnerStart, RunnerSteps
  <2>2. QED
    BY <1>3, <1>4, <1>8, <2>1 DEF RunnerStart, SourceStates
<1>9. CASE Throttle(r)
  <2> DEFINE w == [runner[r] EXCEPT !.paused = TRUE]
  <2>1. w \in Runner /\ w.pc # "none" /\ w.session = s
    BY <1>1, <1>2 DEF Runner, Alive
  <2>2. runner' = [runner EXCEPT ![r] = w]
    BY <1>9 DEF Throttle
  <2> HIDE DEF w
  <2>3. RunnersKept
    BY <1>6, <2>1, <2>2
  <2>4. QED
    BY <1>3, <1>4, <1>9, <2>3 DEF Throttle, SourceStates
<1>10. CASE Proceed(r)
  <2> DEFINE e == [runner[r] EXCEPT !.pc = "capturing"]
             w == [e EXCEPT !.paused = FALSE]
  <2>1. e \in Runner /\ e.pc = "capturing" /\ e.session = s
    BY <1>2 DEF Runner, RunnerSteps
  <2>2. runner' = [runner EXCEPT ![r] = w]
    BY <1>2, <1>10 DEF Proceed
  <2> HIDE DEF e
  <2>3. w \in Runner /\ w.pc = "capturing" /\ w.session = s
    BY <2>1 DEF Runner
  <2> HIDE DEF w
  <2>4. RunnersKept
    BY <1>6, <2>2, <2>3
  <2>5. RowsKept /\ [Next]_storeVars
    BY <1>4, <1>5, <1>10 DEF Proceed, SourceStates
  <2>6. QED
    BY <1>3, <1>10, <2>4, <2>5 DEF Proceed
<1>11. CASE Return(r)
  <2>1. RunnersKept
    BY <1>1, <1>11, GotoMoves DEF Return, RunnerSteps
  <2>2. QED
    BY <1>3, <1>5, <1>11, <2>1 DEF Return
<1>12. CASE Break(r)
  <2>1. RunnersKept
    BY <1>7, <1>12 DEF Break, RunnerSteps, Ended
  <2>2. QED
    BY <1>3, <1>5, <1>12, <2>1 DEF Break
<1>13. CASE ReadFinal(r)
  <2>1. runner[r].final \in Ended
    BY <1>2 DEF Runner, Ended
  <2>2. RunnersKept
    BY <1>7, <1>13, <2>1 DEF ReadFinal, RunnerSteps
  <2>3. QED
    BY <1>3, <1>5, <1>13, <2>2 DEF ReadFinal
<1>14. CASE RecordFinal(r)
  <2>1. runner[r].verdict \in SourceStates \ {"none"}
    BY <1>2 DEF Runner, Ended, SourceStates
  <2>2. RunnersKept
    BY <1>1, <1>14, GotoMoves DEF RecordFinal, RunnerSteps
  <2>3. QED
    BY <1>3, <1>4, <1>14, <2>1, <2>2 DEF RecordFinal
<1>15. CASE Leave(r)
  BY <1>15, LeaveStep
<1>16. ASSUME NEW c \in Chunks, Emit(r, c)
       PROVE  ManagerInv' /\ [Next]_storeVars
  <2>1. RunnersKept
    <3>1. PICK pc \in {"capturing", "queueing"} : Goto(r, pc)
      BY <1>16 DEF Emit
    <3>2. QED
      BY <1>1, <3>1, GotoMoves DEF RunnerSteps
  <2>2. SaveChunk(s, c) /\ state' = state
    BY <1>16 DEF Emit, SaveChunk
  <2>3. Next
    BY <1>2, <2>2 DEF Next
  <2>4. QED
    BY <1>3, <1>16, <2>1, <2>2, <2>3, SameRows DEF Emit
<1>17. QED
  BY <1>8, <1>9, <1>10, <1>11, <1>12, <1>13, <1>14, <1>15, <1>16 DEF RunnerStep

LEMMA SourcesStep ==
    ASSUME ManagerInv, [SourcesNext]_sourceVars
    PROVE  ManagerInv' /\ [Next]_storeVars
<1>1. app \in {"up", "stopping"}
  BY DEF ManagerInv
<1>2. ASSUME state' = state, UNCHANGED <<app, managerVars>>
      PROVE  ManagerInv'
  BY <1>1, <1>2, SameRows, SameRunners, SameCalls, QuietStep DEF managerVars
<1>3. CASE Sweep
  BY <1>2, <1>3 DEF Sweep, SweepBatches, Next
<1>4. CASE Pass
  BY <1>2, <1>4 DEF Pass, Tick, Next
<1>5. CASE Shutdown
  <2>1. UNCHANGED <<storeVars, active, call>> /\ app' = "stopping"
    BY <1>5 DEF Shutdown
  <2>2. RowsKept /\ RunnersKept /\ CallsKept
    BY <1>5, <2>1, SameRows, SameCalls, ShutdownKeeps DEF storeVars
  <2>3. QED
    BY <2>1, <2>2, QuietStep
<1>6. CASE UNCHANGED sourceVars
  BY <1>2, <1>6 DEF sourceVars, storeVars
<1>7. QED
  BY <1>3, <1>4, <1>5, <1>6, CallsStep, RunnersStep, RestartStep DEF SourcesNext

LEMMA ManagerInvariant == SourcesSpec => []ManagerInv
<1>1. ManagerInv /\ [SourcesNext]_sourceVars => ManagerInv'
  BY SourcesStep
<1>2. QED
  BY <1>1, ManagerInit, PTL DEF SourcesSpec

-----------------------------------------------------------------------------
(* What the source manager promises.                                       *)

\* Whatever calls, goroutines, failed writes, shutdowns and restarts do
\* together, the store sees transactions of batches.go and nothing else: what
\* holds of every run of the store holds under the manager.
THEOREM ManagerUsesTheStore == SourcesSpec => Spec
<1>1. SourcesInit => Init
  BY DEF SourcesInit
<1>2. ManagerInv /\ [SourcesNext]_sourceVars => [Next]_storeVars
  BY SourcesStep
<1>3. QED
  BY <1>1, <1>2, ManagerInvariant, PTL DEF SourcesSpec, Spec

\* The rows, the active map, the goroutines and the calls keep their types.
THEOREM SourcesTypeCorrect == SourcesSpec => []SourcesTypeOK
<1>1. TypeOK /\ ManagerInv => SourcesTypeOK
  BY DEF SourcesTypeOK, ManagerInv
<1>2. QED
  BY <1>1, ManagerInvariant, ManagerUsesTheStore, BatchesTypeCorrect, PTL

\* However many starts, resumes, stops and restarts interleave between the
\* lock, the read and the write of a row, a running goroutine is the one the
\* active map names for its session, so no session is captured twice.
THEOREM OneCapturePerSession == SourcesSpec => []ActiveIsTheCapture
<1>1. ManagerInv => ActiveIsTheCapture
  BY DEF ManagerInv, ActiveIsTheCapture
<1>2. QED
  BY <1>1, ManagerInvariant, PTL

\* Under the manager, too, the batches of a session give its text.
COROLLARY CapturedTextIsPartitioned == SourcesSpec => []FocusPartitionsChunks
  BY ManagerUsesTheStore, TextIsPartitioned, PTL

\* Under the manager, too, one extract job is queued for every closed batch.
COROLLARY OneJobUnderTheManager == SourcesSpec => []OneJobPerClosedBatch
  BY ManagerUsesTheStore, OneJobEach, PTL
=============================================================================
