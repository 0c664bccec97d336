---------------------------- MODULE NumberLemmas ----------------------------
(***************************************************************************)
(* Induction on natural numbers, in the form a first-order prover can use: *)
(* the property is a set.  With it, what the recursive functions of the    *)
(* models compute, for every input.                                        *)
(***************************************************************************)
EXTENDS Integers, Sequences, SequencesExt, WellFoundedInduction, TLAPS

LEMMA LeastNumber ==
    ASSUME NEW S \in SUBSET Nat, S # {}
    PROVE  \E n \in S : \A m \in S : n <= m
<1> DEFINE R == {p \in Nat \X Nat : p[1] < p[2]}
<1>1. R = OpToRel(<, Nat)
  BY DEF OpToRel
<1>2. IsWellFoundedOn(R, Nat)
  BY <1>1, NatLessThanWellFounded, Zenon
<1> HIDE DEF R
<1>3. PICK n \in S : \A m \in S : ~(<<m, n>> \in R)
  BY <1>2, WFMin, Zenon
<1>4. ASSUME NEW m \in S
      PROVE  n <= m
  <2>1. m \in Nat /\ n \in Nat
    OBVIOUS
  <2>2. m < n => <<m, n>> \in R
    BY <2>1 DEF R
  <2>3. ~(m < n)
    BY <1>3, <2>2
  <2>4. QED
    BY <2>1, <2>3
<1>5. QED
  BY <1>4

\* A set that holds 0 and with each number the next holds every number.
LEMMA Induction ==
    ASSUME NEW S, 0 \in S, \A n \in Nat : n \in S => n + 1 \in S
    PROVE  \A n \in Nat : n \in S
<1> SUFFICES ASSUME Nat \ S # {} PROVE FALSE
  OBVIOUS
<1>1. PICK n \in Nat \ S : \A m \in Nat \ S : n <= m
  BY LeastNumber
<1>2. n - 1 \in Nat /\ n - 1 \in S
  BY <1>1
<1>3. (n - 1) + 1 \in S
  BY <1>2
<1>4. QED
  BY <1>1, <1>3

\* f is defined by recursion from 0 to n.
IsRecursion(f, a, step, n) ==
    f[0] = a /\ \A i \in 1..n : f[i] = step[<<i, f[i - 1]>>]

\* Such a function exists.
LEMMA Recursion ==
    ASSUME NEW n \in Nat, NEW T, NEW a \in T, NEW step \in [(1..n) \X T -> T]
    PROVE  \E f \in [0..n -> T] : IsRecursion(f, a, step, n)
<1> DEFINE Upto(f, m) == f[0] = a /\ \A i \in 1..m : f[i] = step[<<i, f[i - 1]>>]
           S == {m \in Nat : m <= n => \E f \in [0..m -> T] : Upto(f, m)}
<1>1. 0 \in S
  <2> DEFINE f == [i \in 0..0 |-> a]
  <2>1. f \in [0..0 -> T] /\ Upto(f, 0)
    OBVIOUS
  <2> HIDE DEF f
  <2>2. QED
    BY <2>1
<1>2. ASSUME NEW m \in Nat, m \in S
      PROVE  m + 1 \in S
  <2> SUFFICES ASSUME m + 1 <= n PROVE \E f \in [0..m + 1 -> T] : Upto(f, m + 1)
    OBVIOUS
  <2>1. PICK f \in [0..m -> T] : Upto(f, m)
    BY <1>2
  <2> DEFINE h == [i \in 0..m + 1 |-> IF i \in 0..m THEN f[i] ELSE step[<<m + 1, f[m]>>]]
  <2>2. h \in [0..m + 1 -> T]
    <3>1. step[<<m + 1, f[m]>>] \in T
      <4>1. m + 1 \in 1..n /\ f[m] \in T
        BY <2>1
      <4>2. QED
        BY <4>1
    <3>2. \A i \in 0..m : f[i] \in T
      BY <2>1
    <3>3. QED
      BY <3>1, <3>2
  <2>3. h[0] = a
    BY <2>1
  <2>4. ASSUME NEW i \in 1..m + 1
        PROVE  h[i] = step[<<i, h[i - 1]>>]
    <3>1. h[i - 1] = f[i - 1]
      OBVIOUS
    <3>2. CASE i \in 1..m
      <4>1. h[i] = f[i]
        BY <3>2
      <4> HIDE DEF h
      <4>2. QED
        BY <2>1, <3>1, <3>2, <4>1
    <3>3. CASE i = m + 1
      <4>1. h[i] = step[<<m + 1, f[m]>>] /\ i - 1 = m
        BY <3>3
      <4> HIDE DEF h
      <4>2. QED
        BY <3>1, <3>3, <4>1
    <3>4. QED
      BY <3>2, <3>3
  <2> HIDE DEF h
  <2>5. QED
    BY <2>2, <2>3, <2>4
<1> HIDE DEF S
<1>3. n \in S
  BY <1>1, <1>2, Induction
<1>4. QED
  BY <1>3 DEF S, IsRecursion

-----------------------------------------------------------------------------
(* FlattenSeq appends.                                                     *)

\* g[i] is the concatenation of the first i of the sequences ss, up to n.
IsFlattening(g, ss, n) ==
    \A i \in 1..n : g[i] = IF i = 1 THEN ss[i] ELSE g[i - 1] \o ss[i]

LEMMA FlatteningUnique ==
    ASSUME NEW n \in Nat, NEW ss, NEW g, NEW h,
           IsFlattening(g, ss, n), IsFlattening(h, ss, n)
    PROVE  \A i \in 1..n : g[i] = h[i]
<1> DEFINE S == {i \in Nat : i \in 1..n => g[i] = h[i]}
<1>1. 0 \in S
  OBVIOUS
<1>2. ASSUME NEW i \in Nat, i \in S
      PROVE  i + 1 \in S
  BY <1>2 DEF IsFlattening
<1> HIDE DEF S
<1>3. \A i \in Nat : i \in S
  BY <1>1, <1>2, Induction
<1>4. QED
  BY <1>3 DEF S

LEMMA FlatteningExists ==
    ASSUME NEW T, NEW ss \in Seq(Seq(T))
    PROVE  \E g \in [1..Len(ss) -> Seq(T)] : IsFlattening(g, ss, Len(ss))
<1> DEFINE S == {n \in Nat : n <= Len(ss) =>
                    \E g \in [1..n -> Seq(T)] : IsFlattening(g, ss, n)}
<1>1. 0 \in S
  <2> DEFINE h == [i \in 1..0 |-> <<>>]
  <2>1. h \in [1..0 -> Seq(T)] /\ IsFlattening(h, ss, 0)
    BY DEF IsFlattening
  <2> HIDE DEF h
  <2>2. QED
    BY <2>1
<1>2. ASSUME NEW n \in Nat, n \in S
      PROVE  n + 1 \in S
  <2> SUFFICES ASSUME n + 1 <= Len(ss)
               PROVE  \E g \in [1..n + 1 -> Seq(T)] : IsFlattening(g, ss, n + 1)
    OBVIOUS
  <2>1. PICK g \in [1..n -> Seq(T)] : IsFlattening(g, ss, n)
    BY <1>2
  <2> DEFINE h == [i \in 1..n + 1 |-> IF i \in 1..n THEN g[i]
                                      ELSE IF n = 0 THEN ss[1]
                                      ELSE g[n] \o ss[n + 1]]
  <2>2. \A i \in 1..n + 1 : ss[i] \in Seq(T)
    OBVIOUS
  <2>3. h \in [1..n + 1 -> Seq(T)]
    BY <2>2
  <2>4. ASSUME NEW i \in 1..n + 1
        PROVE  h[i] = IF i = 1 THEN ss[i] ELSE h[i - 1] \o ss[i]
    <3>1. CASE i \in 1..n
      <4>1. h[i] = g[i] /\ (i # 1 => i - 1 \in 1..n /\ h[i - 1] = g[i - 1])
        BY <3>1
      <4>2. QED
        BY <2>1, <3>1, <4>1 DEF IsFlattening
    <3>2. CASE i = n + 1
      <4>1. n # 0 => n \in 1..n /\ h[n] = g[n]
        OBVIOUS
      <4>2. QED
        BY <3>2, <4>1
    <3>3. QED
      BY <3>1, <3>2
  <2> HIDE DEF h
  <2>5. QED
    BY <2>3, <2>4 DEF IsFlattening
<1> HIDE DEF S
<1>3. Len(ss) \in S
  BY <1>1, <1>2, Induction
<1>4. QED
  BY <1>3 DEF S

\* FlattenSeq is the last of the partial concatenations.
LEMMA FlattenSeqDef ==
    ASSUME NEW T, NEW ss \in Seq(Seq(T)), Len(ss) > 0,
           NEW g, IsFlattening(g, ss, Len(ss))
    PROVE  FlattenSeq(ss) = g[Len(ss)]
<1> DEFINE n == Len(ss)
           F == CHOOSE f : f = [i \in 1..n |-> IF i = 1 THEN ss[i] ELSE f[i - 1] \o ss[i]]
<1>1. n \in Nat /\ n > 0
  OBVIOUS
<1>2. PICK h \in [1..n -> Seq(T)] : IsFlattening(h, ss, n)
  BY FlatteningExists
<1>3. h = [i \in 1..n |-> IF i = 1 THEN ss[i] ELSE h[i - 1] \o ss[i]]
  <2>1. h = [i \in 1..n |-> h[i]]
    BY <1>2
  <2>2. \A i \in 1..n : h[i] = IF i = 1 THEN ss[i] ELSE h[i - 1] \o ss[i]
    BY <1>2 DEF IsFlattening
  <2> HIDE DEF n
  <2>3. [i \in 1..n |-> h[i]] = [i \in 1..n |-> IF i = 1 THEN ss[i] ELSE h[i - 1] \o ss[i]]
    BY <2>2
  <2>4. QED
    BY <2>1, <2>3
<1>4. F = [i \in 1..n |-> IF i = 1 THEN ss[i] ELSE F[i - 1] \o ss[i]]
  BY <1>3
<1>5. FlattenSeq(ss) = F[n]
  BY <1>1 DEF FlattenSeq
<1> HIDE DEF F
<1>6. IsFlattening(F, ss, n)
  BY <1>4 DEF IsFlattening
<1>7. F[n] = g[n]
  BY <1>1, <1>6, FlatteningUnique
<1>8. QED
  BY <1>5, <1>7

LEMMA FlattenSeqType ==
    ASSUME NEW T, NEW ss \in Seq(Seq(T))
    PROVE  FlattenSeq(ss) \in Seq(T)
<1>1. CASE Len(ss) = 0
  BY <1>1 DEF FlattenSeq
<1>2. CASE Len(ss) > 0
  <2>1. PICK g \in [1..Len(ss) -> Seq(T)] : IsFlattening(g, ss, Len(ss))
    BY FlatteningExists
  <2>2. FlattenSeq(ss) = g[Len(ss)]
    BY <1>2, <2>1, FlattenSeqDef
  <2>3. Len(ss) \in 1..Len(ss)
    BY <1>2
  <2>4. QED
    BY <2>1, <2>2, <2>3
<1>3. QED
  BY <1>1, <1>2

LEMMA FlattenSeqAppend ==
    ASSUME NEW T, NEW ss \in Seq(Seq(T)), NEW s \in Seq(T)
    PROVE  FlattenSeq(Append(ss, s)) = FlattenSeq(ss) \o s
<1> DEFINE n  == Len(ss)
           tt == Append(ss, s)
<1>1. tt \in Seq(Seq(T)) /\ Len(tt) = n + 1 /\ n \in Nat /\ tt[n + 1] = s
  OBVIOUS
<1>2. \A i \in 1..n : tt[i] = ss[i]
  OBVIOUS
<1> HIDE DEF n, tt
<1>3. PICK g \in [1..n + 1 -> Seq(T)] : IsFlattening(g, tt, n + 1)
  <2>1. \E g \in [1..Len(tt) -> Seq(T)] : IsFlattening(g, tt, Len(tt))
    BY <1>1, FlatteningExists
  <2>2. QED
    BY <1>1, <2>1
<1>4. FlattenSeq(tt) = g[n + 1]
  <2>1. Len(tt) > 0 /\ IsFlattening(g, tt, Len(tt))
    BY <1>1, <1>3
  <2>2. FlattenSeq(tt) = g[Len(tt)]
    BY <1>1, <2>1, FlattenSeqDef
  <2>3. QED
    BY <1>1, <2>2
<1>5. ASSUME NEW i \in 1..n + 1
      PROVE  g[i] = IF i = 1 THEN tt[i] ELSE g[i - 1] \o tt[i]
  BY <1>3 DEF IsFlattening
<1>6. IsFlattening(g, ss, n)
  <2> SUFFICES ASSUME NEW i \in 1..n
               PROVE  g[i] = IF i = 1 THEN ss[i] ELSE g[i - 1] \o ss[i]
    BY DEF IsFlattening
  <2>1. i \in 1..n + 1 /\ tt[i] = ss[i]
    BY <1>1, <1>2
  <2>2. QED
    BY <1>5, <2>1
<1>7. CASE n = 0
  <2>1. FlattenSeq(ss) = <<>>
    BY <1>7 DEF FlattenSeq, n
  <2>2. g[1] = s
    BY <1>1, <1>5, <1>7
  <2>3. QED
    BY <1>4, <1>7, <2>1, <2>2 DEF tt
<1>8. CASE n > 0
  <2>1. FlattenSeq(ss) = g[n]
    BY <1>6, <1>8, FlattenSeqDef DEF n
  <2>2. n + 1 \in 1..n + 1 /\ n + 1 # 1 /\ (n + 1) - 1 = n
    BY <1>1, <1>8
  <2>3. g[n + 1] = g[n] \o s
    BY <1>1, <1>5, <2>2
  <2>4. QED
    BY <1>4, <2>1, <2>3 DEF tt
<1>9. QED
  BY <1>1, <1>7, <1>8
=============================================================================
