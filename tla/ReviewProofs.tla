---------------------------- MODULE ReviewProofs ----------------------------
(***************************************************************************)
(* Theorems about Review, for any conspects, candidates, titles and        *)
(* similarity, any graph to start with, and any number of workers, errors  *)
(* and restarts.                                                           *)
(***************************************************************************)
EXTENDS Review, NumberLemmas, FiniteSetTheorems

-----------------------------------------------------------------------------
(* The least and the greatest of a set, and the rank of its elements.      *)

LEMMA MinOf ==
    ASSUME NEW S \in SUBSET Nat, S # {}
    PROVE  Min(S) \in S /\ \A m \in S : Min(S) <= m
<1>1. \E n \in S : \A m \in S : n <= m
  BY LeastNumber
<1>2. QED
  BY <1>1 DEF Min

LEMMA MaxOf ==
    ASSUME NEW n \in Nat, NEW S \in SUBSET (1..n), S # {}
    PROVE  Max(S) \in S
<1> DEFINE D == {n - i : i \in S}
<1>1. \A j \in S : j \in 1..n
  OBVIOUS
<1>2. D \in SUBSET Nat
  <2>1. \A j \in S : n - j \in Nat
    BY <1>1
  <2>2. QED
    BY <2>1
<1>3. D # {}
  OBVIOUS
<1>4. PICK d \in D : \A e \in D : d <= e
  BY <1>2, <1>3, LeastNumber
<1>5. PICK i \in S : d = n - i
  BY <1>4
<1>6. ASSUME NEW j \in S
      PROVE  i >= j
  <2>1. n - j \in D /\ i \in 1..n /\ j \in 1..n
    BY <1>1
  <2>2. d <= n - j
    BY <1>4, <2>1
  <2> HIDE DEF D
  <2>3. QED
    BY <1>5, <2>1, <2>2
<1>7. QED
  BY <1>5, <1>6 DEF Max

Rank(S, i) == Cardinality({j \in S : j <= i})

\* The ranks number the elements of a set of positions from 1 on, each once.
LEMMA RankOnce ==
    ASSUME NEW n \in Nat, NEW S \in SUBSET (1..n)
    PROVE  /\ IsFiniteSet(S) /\ Cardinality(S) \in Nat
           /\ \A i \in S : Rank(S, i) \in 1..Cardinality(S)
           /\ \A i, j \in S : Rank(S, i) = Rank(S, j) => i = j
<1>0. \A j \in S : j \in Nat
  <2>1. \A j \in S : j \in 1..n
    OBVIOUS
  <2>2. QED
    BY <2>1
<1>1. IsFiniteSet(S) /\ Cardinality(S) \in Nat
  <2>1. IsFiniteSet(1..n)
    BY FS_Interval
  <2>2. QED
    BY <2>1, FS_Subset, FS_CardinalityType
<1> DEFINE B(i) == {j \in S : j <= i}
<1>2. ASSUME NEW i \in S
      PROVE  IsFiniteSet(B(i)) /\ Cardinality(B(i)) \in 1..Cardinality(S)
  <2>1. B(i) \in SUBSET S /\ i \in B(i)
    BY <1>0
  <2> HIDE DEF B
  <2>2. IsFiniteSet(B(i)) /\ Cardinality(B(i)) <= Cardinality(S)
    BY <1>1, <2>1, FS_Subset
  <2>3. Cardinality(B(i)) \in Nat /\ Cardinality(B(i)) # 0
    BY <2>1, <2>2, FS_CardinalityType, FS_EmptySet
  <2>4. QED
    BY <1>1, <2>2, <2>3
<1>3. ASSUME NEW i \in S, NEW j \in S, i < j
      PROVE  Cardinality(B(i)) # Cardinality(B(j))
  <2>0. \A m \in S : (m <= i => m <= j) /\ j <= j /\ ~(j <= i)
    BY <1>0, <1>3
  <2>1. B(i) \in SUBSET B(j) /\ j \in B(j) /\ j \notin B(i)
    BY <2>0
  <2> HIDE DEF B
  <2>2. QED
    BY <1>2, <2>1, FS_Subset
<1>4. ASSUME NEW i \in S, NEW j \in S, Rank(S, i) = Rank(S, j)
      PROVE  i = j
  <2>1. ~(i < j) /\ ~(j < i)
    BY <1>3, <1>4 DEF Rank
  <2>2. QED
    BY <1>0, <2>1
<1>5. QED
  BY <1>1, <1>2, <1>4 DEF Rank

LEMMA RankOnto ==
    ASSUME NEW n \in Nat, NEW S \in SUBSET (1..n), NEW r \in 1..Cardinality(S)
    PROVE  \E i \in S : Rank(S, i) = r
<1>0. \A j \in S : j \in Nat /\ j <= n /\ j # 0
  <2>1. \A j \in S : j \in 1..n
    OBVIOUS
  <2>2. QED
    BY <2>1
<1>1. IsFiniteSet(S) /\ Cardinality(S) \in Nat /\ r \in Nat /\ 1 <= r /\ r <= Cardinality(S)
  <2>1. IsFiniteSet(S) /\ Cardinality(S) \in Nat
    BY RankOnce
  <2>2. QED
    BY <2>1
<1> DEFINE B(i) == {j \in S : j <= i}
           L == {i \in Nat : r <= Cardinality(B(i))}
<1>2. ASSUME NEW i \in Nat
      PROVE  IsFiniteSet(B(i)) /\ Cardinality(B(i)) \in Nat
  <2>1. B(i) \in SUBSET S
    OBVIOUS
  <2> HIDE DEF B
  <2>2. QED
    BY <1>1, <2>1, FS_Subset, FS_CardinalityType
<1>3. n \in L
  <2>1. B(n) = S
    BY <1>0
  <2>2. QED
    BY <1>1, <2>1
<1>4. PICK i \in Nat : r <= Cardinality(B(i)) /\ \A j \in Nat : r <= Cardinality(B(j)) => i <= j
  <2>1. PICK i \in L : \A j \in L : i <= j
    BY <1>3, LeastNumber
  <2>2. QED
    BY <2>1
<1>5. i # 0
  <2>0. \A j \in S : ~(j <= 0)
    BY <1>0
  <2>1. B(0) = {}
    BY <2>0
  <2>2. Cardinality(B(0)) = 0
    BY <2>1, FS_EmptySet
  <2> HIDE DEF B
  <2>3. QED
    BY <1>1, <1>4, <2>2
<1>6. i - 1 \in Nat /\ ~(i <= i - 1)
  BY <1>5
<1>7. Cardinality(B(i - 1)) < r
  <2>1. Cardinality(B(i - 1)) \in Nat
    BY <1>2, <1>6
  <2>2. ~(r <= Cardinality(B(i - 1)))
    BY <1>4, <1>6
  <2> HIDE DEF B
  <2>3. QED
    BY <1>1, <2>1, <2>2
<1>8. i \in S /\ B(i) = B(i - 1) \cup {i} /\ i \notin B(i - 1)
  <2>1. \A j \in S : j <= i <=> (j <= i - 1 \/ j = i)
    BY <1>0
  <2>2. i \in S
    <3> SUFFICES ASSUME i \notin S PROVE FALSE
      OBVIOUS
    <3>1. B(i) = B(i - 1)
      BY <2>1
    <3> HIDE DEF B
    <3>2. QED
      BY <1>1, <1>4, <1>2, <1>6, <1>7, <3>1
  <2>3. QED
    BY <1>6, <2>1, <2>2
<1>9. Cardinality(B(i)) = Cardinality(B(i - 1)) + 1
  <2> HIDE DEF B
  <2>1. QED
    BY <1>2, <1>6, <1>8, FS_AddElement
<1>10. Cardinality(B(i)) = r
  <2>1. Cardinality(B(i - 1)) \in Nat
    BY <1>2, <1>6
  <2>2. r <= Cardinality(B(i))
    BY <1>4
  <2> HIDE DEF B
  <2>3. QED
    BY <1>1, <1>7, <1>9, <2>1, <2>2
<1>11. QED
  BY <1>8, <1>10 DEF Rank
-----------------------------------------------------------------------------
(* Resolutions.                                                            *)

LEMMA PendingIsNoDecision ==
    /\ Pending \notin {"create", "update", "keep_existing", "reject"}
    /\ Pending \in Resolutions
    /\ ~Targeted(Pending)
<1>1. /\ Pending # "create" /\ Pending # "update"
      /\ Pending # "keep_existing" /\ Pending # "reject"
  BY Zenon DEF Pending
<1>2. QED
  BY <1>1 DEF Resolutions, Targeted

-----------------------------------------------------------------------------
(* Items that are sound against a graph g.                                 *)

\* What an item points to exists, and is of the item's kind; so are its variants.
ItemOK(item, g) ==
    /\ item \in Item
    /\ item.variants # <<>>
    /\ \A c \in Variants(item) : KindOf(c) = item.kind
    /\ item.target \in 0..Len(g)
    /\ item.exact \in 0..Len(g)
    /\ Targeted(item.resolution) => item.target \in DOMAIN g /\ g[item.target].kind = item.kind

ItemsOK(its, g) == its \in Seq(Item) /\ \A i \in DOMAIN its : ItemOK(its[i], g)

\* h has the entities of g, each of its kind, and perhaps more.
Extended(g, h) ==
    Len(g) <= Len(h) /\ \A e \in DOMAIN g : h[e].kind = g[e].kind

LEMMA ItemsStayOK ==
    ASSUME NEW g \in Seq(Entity), NEW h \in Seq(Entity), Extended(g, h),
           NEW its, ItemsOK(its, g)
    PROVE  ItemsOK(its, h)
<1> SUFFICES ASSUME NEW i \in DOMAIN its PROVE ItemOK(its[i], h)
  BY DEF ItemsOK
<1> DEFINE item == its[i]
<1>1. ItemOK(item, g)
  BY DEF ItemsOK
<1>2. item.target \in 0..Len(h) /\ item.exact \in 0..Len(h)
  BY <1>1 DEF ItemOK, Extended
<1>3. ASSUME Targeted(item.resolution)
      PROVE  item.target \in DOMAIN h /\ h[item.target].kind = item.kind
  BY <1>1, <1>3 DEF ItemOK, Extended
<1>4. QED
  BY <1>1, <1>2, <1>3 DEF ItemOK

LEMMA UndecidedOK ==
    ASSUME NEW g \in Seq(Entity), NEW item, ItemOK(item, g)
    PROVE  /\ ItemOK(Undecided(item), g)
           /\ Undecided(item).variants = item.variants
           /\ Undecided(item).kind = item.kind
           /\ Undecided(item).resolution = Pending
<1> DEFINE u == Undecided(item)
           x == [item EXCEPT !.resolution = Pending]
           y == [x EXCEPT !.target = 0]
<1>1. item \in Item
  BY DEF ItemOK
<1>2. /\ x \in Item /\ x.variants = item.variants /\ x.kind = item.kind
      /\ x.resolution = Pending /\ x.exact = item.exact
  BY <1>1 DEF Item, Resolutions
<1>3. u = [y EXCEPT !.version = 0]
  BY DEF Undecided, NoEntity
<1> HIDE DEF x
<1>4. /\ y \in Item /\ y.variants = item.variants /\ y.kind = item.kind
      /\ y.resolution = Pending /\ y.exact = item.exact /\ y.target = 0
  BY <1>2 DEF Item
<1> HIDE DEF y, u
<1>5. /\ u \in Item /\ u.variants = item.variants /\ u.kind = item.kind
      /\ u.resolution = Pending /\ u.exact = item.exact /\ u.target = 0
  BY <1>3, <1>4 DEF Item
<1>6. ~Targeted(u.resolution)
  BY <1>5, PendingIsNoDecision
<1>7. u.target \in 0..Len(g) /\ u.exact \in 0..Len(g)
  <2>1. Len(g) \in Nat /\ 0 \in 0..Len(g)
    OBVIOUS
  <2>2. item.exact \in 0..Len(g)
    BY DEF ItemOK
  <2>3. QED
    BY <1>5, <2>1, <2>2
<1>8. u.variants # <<>> /\ \A c \in Variants(u) : KindOf(c) = u.kind
  BY <1>5 DEF ItemOK, Variants
<1>9. ItemOK(u, g)
  BY <1>5, <1>6, <1>7, <1>8 DEF ItemOK
<1>10. QED
  BY <1>5, <1>9 DEF u

LEMMA NewItemOK ==
    ASSUME NEW g \in Seq(Entity), NEW kind \in Kinds,
           NEW variants \in Seq(Candidates), variants # <<>>,
           \A c \in ToSet(variants) : KindOf(c) = kind
    PROVE  /\ ItemOK(NewItem(kind, variants), g)
           /\ NewItem(kind, variants).variants = variants
           /\ NewItem(kind, variants).kind = kind
           /\ NewItem(kind, variants).resolution = Pending
<1>1. Head(variants) \in Candidates
  OBVIOUS
<1>2. TitleOf[Head(variants)] \in Titles
  BY <1>1, CandidatesAssumption
<1> DEFINE new == NewItem(kind, variants)
<1>3. /\ new.variants = variants /\ new.kind = kind /\ new.resolution = Pending
      /\ new.target = 0 /\ new.exact = 0 /\ new \in Item
  BY <1>2, PendingIsNoDecision DEF NewItem, Item, NoEntity
<1> HIDE DEF new
<1>4. 0 \in 0..Len(g)
  OBVIOUS
<1>5. ItemOK(new, g)
  BY <1>3, <1>4, PendingIsNoDecision DEF ItemOK, Variants
<1>6. QED
  BY <1>3, <1>5 DEF new

LEMMA KindOfType ==
    \A c : KindOf(c) \in Kinds
BY DEF KindOf, Kinds

\* The variants of an item: append one more.
LEMMA VariantsAppend ==
    ASSUME NEW s \in Seq(Candidates), NEW c \in Candidates
    PROVE  ToSet(Append(s, c)) = ToSet(s) \cup {c}
<1> DEFINE a == Append(s, c)
<1>1. /\ DOMAIN a = 1..Len(s) + 1 /\ DOMAIN s = 1..Len(s) /\ Len(s) \in Nat
      /\ a[Len(s) + 1] = c /\ \A i \in DOMAIN s : a[i] = s[i]
  OBVIOUS
<1> HIDE DEF a
<1>2. DOMAIN a = DOMAIN s \cup {Len(s) + 1}
  BY <1>1
<1>3. {a[i] : i \in DOMAIN a} = {s[i] : i \in DOMAIN s} \cup {c}
  BY <1>1, <1>2
<1>4. QED
  BY <1>3 DEF ToSet, a

-----------------------------------------------------------------------------
(* The items of a conspect that share a set C of candidates.               *)

\* Every candidate of C is a variant of one item, and there are no others.
Shared(its, C) ==
    /\ \A i \in DOMAIN its : Variants(its[i]) \subseteq C
    /\ \A c \in C : \E i \in DOMAIN its : c \in Variants(its[i])
    /\ \A i, j \in DOMAIN its : i # j => Variants(its[i]) \cap Variants(its[j]) = {}

Fresh(its) == \A i \in DOMAIN its : its[i].resolution = Pending

LEMMA GroupedOK ==
    ASSUME NEW g \in Seq(Entity), NEW its, ItemsOK(its, g), Fresh(its),
           NEW C, Shared(its, C), NEW c \in Candidates, c \notin C
    PROVE  /\ ItemsOK(Grouped(its, c), g) /\ Fresh(Grouped(its, c))
           /\ Shared(Grouped(its, c), C \cup {c})
           /\ Grouped(its, c) # <<>>
<1> DEFINE near == {i \in DOMAIN its : /\ its[i].kind = KindOf(c)
                                       /\ <<TitleOf[Head(its[i].variants)], TitleOf[c]>> \in Similar}
<1>1. its \in Seq(Item) /\ \A i \in DOMAIN its : ItemOK(its[i], g)
  BY DEF ItemsOK
<1>2. CASE near = {}
  <2> DEFINE new == NewItem(KindOf(c), <<c>>)
             res == Append(its, new)
  <2>1. Grouped(its, c) = res
    BY <1>2 DEF Grouped
  <2>2. ToSet(<<c>>) = {c} /\ <<c>> \in Seq(Candidates) /\ <<c>> # <<>>
    BY DEF ToSet
  <2>3. ItemOK(new, g) /\ new.variants = <<c>> /\ new.resolution = Pending
    BY <2>2, KindOfType, NewItemOK
  <2>4. Variants(new) = {c}
    BY <2>2, <2>3 DEF Variants
  <2>5. new \in Item
    BY <2>3 DEF ItemOK
  <2> HIDE DEF new
  <2>6. /\ res \in Seq(Item) /\ Len(res) = Len(its) + 1 /\ DOMAIN res = 1..Len(its) + 1
        /\ res[Len(its) + 1] = new /\ \A i \in DOMAIN its : res[i] = its[i]
        /\ DOMAIN its = 1..Len(its) /\ Len(its) \in Nat
    BY <1>1, <2>5
  <2> HIDE DEF res
  <2>7. \A i \in DOMAIN res : (i \in DOMAIN its /\ res[i] = its[i]) \/ (i = Len(its) + 1 /\ res[i] = new)
    BY <2>6
  <2>8. ItemsOK(res, g) /\ Fresh(res) /\ res # <<>>
    <3>1. res # <<>>
      BY <2>6
    <3>2. QED
      BY <1>1, <2>3, <2>6, <2>7, <3>1 DEF ItemsOK, Fresh
  <2>9. Shared(res, C \cup {c})
    <3>1. \A i \in DOMAIN res : Variants(res[i]) \subseteq C \cup {c}
      BY <2>4, <2>7 DEF Shared
    <3>2. \A d \in C \cup {c} : \E i \in DOMAIN res : d \in Variants(res[i])
      <4>1. Len(its) + 1 \in DOMAIN res /\ \A i \in DOMAIN its : i \in DOMAIN res
        BY <2>6
      <4>2. QED
        BY <2>4, <2>6, <4>1 DEF Shared
    <3>3. \A i \in DOMAIN its : c \notin Variants(its[i])
      BY DEF Shared
    <3>4. \A i, j \in DOMAIN res : i # j => Variants(res[i]) \cap Variants(res[j]) = {}
      BY <2>4, <2>7, <3>3 DEF Shared
    <3>5. QED
      BY <3>1, <3>2, <3>4 DEF Shared
  <2>10. QED
    BY <2>1, <2>8, <2>9
<1>3. CASE near # {}
  <2> DEFINE m == Min(near)
             old == its[m]
             new == [old EXCEPT !.variants = Append(@, c)]
             res == [its EXCEPT ![m].variants = Append(@, c)]
  <2>1. Grouped(its, c) = res
    BY <1>3 DEF Grouped
  <2>2. m \in near
    <3>1. near \in SUBSET Nat
      BY <1>1
    <3>2. QED
      BY <1>3, <3>1, MinOf
  <2>3. m \in DOMAIN its /\ old.kind = KindOf(c) /\ ItemOK(old, g)
    BY <1>1, <2>2
  <2> HIDE DEF m
  <2>4. res = [its EXCEPT ![m] = new]
    BY <2>3
  <2>5. /\ new.variants = Append(old.variants, c) /\ new.kind = old.kind
        /\ new.resolution = old.resolution /\ new.target = old.target /\ new.exact = old.exact
        /\ new \in Item
    <3>1. old \in Item
      BY <2>3 DEF ItemOK
    <3> HIDE DEF old
    <3>2. Append(old.variants, c) \in Seq(Candidates)
      BY <3>1 DEF Item
    <3>3. QED
      BY <3>1, <3>2 DEF Item
  <2>6. Variants(new) = Variants(old) \cup {c}
    <3>1. old.variants \in Seq(Candidates)
      BY <2>3 DEF ItemOK, Item
    <3>2. QED
      BY <2>5, <3>1, VariantsAppend DEF Variants
  <2>7. new.variants # <<>>
    BY <2>3, <2>5, SMTT(30) DEF ItemOK, Item
  <2> HIDE DEF new
  <2>8. ItemOK(new, g)
    BY <2>3, <2>5, <2>6, <2>7 DEF ItemOK
  <2>9. /\ DOMAIN res = DOMAIN its /\ res[m] = new
        /\ \A i \in DOMAIN its : i # m => res[i] = its[i]
        /\ res \in Seq(Item)
    <3> HIDE DEF old, res
    <3>1. QED
      BY <1>1, <2>3, <2>4, <2>5
  <2> HIDE DEF res
  <2>10. ItemsOK(res, g) /\ Fresh(res) /\ res # <<>>
    <3>1. res # <<>>
      BY <2>3, <2>9
    <3> HIDE DEF old
    <3>2. new.resolution = Pending
      BY <2>3, <2>5 DEF Fresh, old
    <3>3. \A i \in DOMAIN res : ItemOK(res[i], g) /\ res[i].resolution = Pending
      BY <1>1, <2>8, <2>9, <3>2 DEF Fresh
    <3>4. QED
      BY <2>9, <3>1, <3>3 DEF ItemsOK, Fresh
  <2>11. Shared(res, C \cup {c})
    <3>1. \A i \in DOMAIN res : Variants(res[i]) \subseteq C \cup {c}
      BY <2>3, <2>6, <2>9 DEF Shared
    <3>2. \A d \in C \cup {c} : \E i \in DOMAIN res : d \in Variants(res[i])
      BY <2>3, <2>6, <2>9 DEF Shared
    <3>3. \A i \in DOMAIN its : c \notin Variants(its[i])
      BY DEF Shared
    <3>4. \A i, j \in DOMAIN res : i # j => Variants(res[i]) \cap Variants(res[j]) = {}
      BY <2>3, <2>6, <2>9, <3>3 DEF Shared
    <3>5. QED
      BY <3>1, <3>2, <3>4 DEF Shared
  <2>12. QED
    BY <2>1, <2>10, <2>11
<1>4. QED
  BY <1>2, <1>3

LEMMA GroupedType ==
    ASSUME NEW its \in Seq(Item), NEW c \in Candidates
    PROVE  Grouped(its, c) \in Seq(Item)
<1> DEFINE near == {i \in DOMAIN its : /\ its[i].kind = KindOf(c)
                                       /\ <<TitleOf[Head(its[i].variants)], TitleOf[c]>> \in Similar}
<1>1. CASE near = {}
  <2>1. <<c>> \in Seq(Candidates) /\ <<c>> # <<>> /\ ToSet(<<c>>) = {c}
    BY DEF ToSet
  <2>2. ItemOK(NewItem(KindOf(c), <<c>>), <<>>)
    <3>1. <<>> \in Seq(Entity)
      OBVIOUS
    <3>2. QED
      BY <2>1, <3>1, KindOfType, NewItemOK
  <2>3. NewItem(KindOf(c), <<c>>) \in Item
    BY <2>2 DEF ItemOK
  <2>4. QED
    BY <1>1, <2>3 DEF Grouped
<1>2. CASE near # {}
  <2> DEFINE m == Min(near)
             old == its[m]
             new == [old EXCEPT !.variants = Append(@, c)]
  <2>1. m \in DOMAIN its
    <3>1. near \in SUBSET Nat
      OBVIOUS
    <3>2. QED
      BY <1>2, <3>1, MinOf
  <2>2. Grouped(its, c) = [its EXCEPT ![m] = new]
    <3>1. Grouped(its, c) = [its EXCEPT ![m].variants = Append(@, c)]
      BY <1>2 DEF Grouped
    <3> HIDE DEF m
    <3>2. QED
      BY <2>1, <3>1
  <2> HIDE DEF m
  <2>3. old \in Item
    BY <2>1
  <2> HIDE DEF old
  <2>4. new \in Item
    <3>1. Append(old.variants, c) \in Seq(Candidates)
      BY <2>3 DEF Item
    <3>2. QED
      BY <2>3, <3>1 DEF Item
  <2> HIDE DEF new
  <2>5. QED
    BY <2>1, <2>2, <2>4
<1>3. QED
  BY <1>1, <1>2

\* FreshItems groups the candidates of k one after the other.
LEMMA FreshItemsOK ==
    ASSUME NEW g \in Seq(Entity), NEW k \in Conspects
    PROVE  /\ ItemsOK(FreshItems(k), g) /\ Fresh(FreshItems(k))
           /\ Shared(FreshItems(k), ToSet(CandidatesOf[k]))
<1> DEFINE cs == CandidatesOf[k]
           N  == Len(cs)
           prefix(n) == {cs[m] : m \in 1..n}
           GroupedFrom(f) == [n \in 0..N |-> IF n = 0 THEN <<>> ELSE Grouped(f[n - 1], cs[n])]
           grouped == CHOOSE f : f = GroupedFrom(f)
<1>1. cs \in Seq(Candidates) /\ N \in Nat /\ \A i, j \in 1..N : cs[i] = cs[j] => i = j
  BY CandidatesAssumption
<1>2. FreshItems(k) = grouped[N]
  BY DEF FreshItems
<1>3. grouped = GroupedFrom(grouped)
  <2> DEFINE T == Seq(Item)
             step == [x \in (1..N) \X T |-> Grouped(x[2], cs[x[1]])]
  <2>1. step \in [(1..N) \X T -> T]
    <3>1. ASSUME NEW i \in 1..N, NEW its \in T
          PROVE  Grouped(its, cs[i]) \in T
      <4>1. cs[i] \in Candidates
        BY <1>1
      <4> HIDE DEF cs
      <4>2. QED
        BY <4>1, GroupedType
    <3> HIDE DEF cs, T
    <3>2. QED
      BY <3>1
  <2>2. <<>> \in T
    OBVIOUS
  <2>3. \A i \in 1..N, its \in T : step[<<i, its>>] = Grouped(its, cs[i])
    OBVIOUS
  <2> HIDE DEF T, step, cs, N
  <2>4. PICK f \in [0..N -> T] : f[0] = <<>> /\ \A i \in 1..N : f[i] = step[<<i, f[i - 1]>>]
    <3>1. \E f \in [0..N -> T] : IsRecursion(f, <<>>, step, N)
      BY <1>1, <2>1, <2>2, Recursion, Zenon
    <3>2. QED
      BY <3>1 DEF IsRecursion
  <2>5. \A n \in 0..N : f[n] = IF n = 0 THEN <<>> ELSE Grouped(f[n - 1], cs[n])
    <3> SUFFICES ASSUME NEW n \in 0..N, n # 0 PROVE f[n] = Grouped(f[n - 1], cs[n])
      BY <2>4
    <3>1. n \in 1..N /\ n - 1 \in 0..N
      BY <1>1
    <3>2. QED
      BY <2>3, <2>4, <3>1
  <2>6. f = GroupedFrom(f)
    <3>1. f = [n \in 0..N |-> f[n]]
      BY <2>4
    <3>2. [n \in 0..N |-> f[n]] = GroupedFrom(f)
      BY <2>5
    <3>3. QED
      BY <3>1, <3>2
  <2>7. QED
    BY <2>6
<1>4. grouped[0] = <<>> /\ \A n \in 1..N : grouped[n] = Grouped(grouped[n - 1], cs[n])
  <2> HIDE DEF grouped, cs, N
  <2>1. \A n \in 0..N : grouped[n] = IF n = 0 THEN <<>> ELSE Grouped(grouped[n - 1], cs[n])
    BY <1>3
  <2>2. 0 \in 0..N /\ \A n \in 1..N : n \in 0..N /\ n # 0
    BY <1>1
  <2>3. QED
    BY <2>1, <2>2
<1> DEFINE S == {n \in Nat : n <= N =>
                    /\ ItemsOK(grouped[n], g) /\ Fresh(grouped[n])
                    /\ Shared(grouped[n], prefix(n))}
<1> HIDE DEF grouped
<1>5. 0 \in S
  <2>1. ItemsOK(<<>>, g) /\ Fresh(<<>>) /\ Shared(<<>>, {})
    BY DEF ItemsOK, Fresh, Shared
  <2>2. prefix(0) = {}
    OBVIOUS
  <2>3. QED
    BY <1>4, <2>1, <2>2
<1>6. ASSUME NEW n \in Nat, n \in S
      PROVE  n + 1 \in S
  <2> SUFFICES ASSUME n + 1 <= N
               PROVE  /\ ItemsOK(grouped[n + 1], g) /\ Fresh(grouped[n + 1])
                      /\ Shared(grouped[n + 1], prefix(n + 1))
    OBVIOUS
  <2> DEFINE its == grouped[n]
             c == cs[n + 1]
  <2>1. ItemsOK(its, g) /\ Fresh(its) /\ Shared(its, prefix(n))
    BY <1>1, <1>6
  <2>2. c \in Candidates /\ c \notin prefix(n) /\ prefix(n + 1) = prefix(n) \cup {c}
    <3>1. n + 1 \in 1..N /\ \A m \in 1..n : m \in 1..N /\ m # n + 1
      BY <1>1
    <3>2. 1..n + 1 = 1..n \cup {n + 1}
      OBVIOUS
    <3> HIDE DEF cs, N
    <3>3. c \notin prefix(n)
      BY <1>1, <3>1
    <3>4. prefix(n + 1) = prefix(n) \cup {c}
      BY <3>2
    <3>5. c \in Candidates
      <4>1. \A i \in 1..Len(cs) : cs[i] \in Candidates
        BY <1>1
      <4>2. QED
        BY <3>1, <4>1 DEF N
    <3>6. QED
      BY <3>3, <3>4, <3>5
  <2>3. grouped[n + 1] = Grouped(its, c)
    <3>1. n + 1 \in 1..N /\ (n + 1) - 1 = n
      BY <1>1
    <3> HIDE DEF cs, N
    <3>2. QED
      BY <1>4, <3>1
  <2> HIDE DEF its, c, prefix, cs, N
  <2>4. QED
    BY <2>1, <2>2, <2>3, GroupedOK
<1> HIDE DEF S
<1>7. N \in S
  BY <1>1, <1>5, <1>6, Induction
<1>8. prefix(N) = ToSet(cs)
  BY <1>1 DEF ToSet
<1>9. /\ ItemsOK(grouped[N], g) /\ Fresh(grouped[N])
      /\ Shared(grouped[N], prefix(N))
  <2> HIDE DEF N, prefix
  <2>1. N <= N
    BY <1>1
  <2>2. QED
    BY <1>7, <2>1 DEF S
<1> HIDE DEF prefix, N
<1>10. QED
  BY <1>2, <1>8, <1>9

-----------------------------------------------------------------------------
(* What a split takes from an item.                                        *)

LEMMA PickedOK ==
    ASSUME NEW s \in Seq(Candidates), NEW S
    PROVE  Picked(s, S) \in Seq(Candidates) /\ ToSet(Picked(s, S)) = ToSet(s) \cap S
<1> DEFINE N == Len(s)
           prefix(n) == {s[m] : m \in 1..n}
           PickedFrom(f) == [n \in 0..N |-> IF n = 0 THEN <<>>
                                ELSE IF s[n] \in S THEN Append(f[n - 1], s[n]) ELSE f[n - 1]]
           picked == CHOOSE f : f = PickedFrom(f)
           T == Seq(Candidates)
<1>1. N \in Nat /\ \A i \in 1..N : s[i] \in Candidates
  OBVIOUS
<1>2. Picked(s, S) = picked[N]
  BY DEF Picked
<1>3. picked = PickedFrom(picked)
  <2> DEFINE step == [x \in (1..N) \X T |-> IF s[x[1]] \in S THEN Append(x[2], s[x[1]]) ELSE x[2]]
  <2>1. step \in [(1..N) \X T -> T]
    <3>1. ASSUME NEW i \in 1..N, NEW q \in T
          PROVE  Append(q, s[i]) \in T
      BY <1>1
    <3> HIDE DEF T
    <3>2. QED
      BY <3>1
  <2>2. <<>> \in T
    OBVIOUS
  <2> HIDE DEF T
  <2>3. \A i \in 1..N, q \in T : step[<<i, q>>] = IF s[i] \in S THEN Append(q, s[i]) ELSE q
    OBVIOUS
  <2> HIDE DEF step, N
  <2>4. PICK f \in [0..N -> T] : f[0] = <<>> /\ \A i \in 1..N : f[i] = step[<<i, f[i - 1]>>]
    <3>1. \E f \in [0..N -> T] : IsRecursion(f, <<>>, step, N)
      BY <1>1, <2>1, <2>2, Recursion, Zenon
    <3>2. QED
      BY <3>1 DEF IsRecursion
  <2>5. \A n \in 0..N : f[n] = IF n = 0 THEN <<>>
                               ELSE IF s[n] \in S THEN Append(f[n - 1], s[n]) ELSE f[n - 1]
    <3> SUFFICES ASSUME NEW n \in 0..N, n # 0
                 PROVE  f[n] = IF s[n] \in S THEN Append(f[n - 1], s[n]) ELSE f[n - 1]
      BY <2>4
    <3>1. n \in 1..N /\ n - 1 \in 0..N
      BY <1>1
    <3>2. f[n - 1] \in T
      BY <2>4, <3>1
    <3>3. QED
      BY <2>3, <2>4, <3>1, <3>2
  <2>6. f = PickedFrom(f)
    <3>1. f = [n \in 0..N |-> f[n]]
      BY <2>4
    <3>2. [n \in 0..N |-> f[n]] = PickedFrom(f)
      BY <2>5
    <3>3. QED
      BY <3>1, <3>2
  <2>7. QED
    BY <2>6
<1>4. picked[0] = <<>> /\ \A n \in 1..N : picked[n] =
          IF s[n] \in S THEN Append(picked[n - 1], s[n]) ELSE picked[n - 1]
  <2> HIDE DEF picked, N
  <2>1. \A n \in 0..N : picked[n] = IF n = 0 THEN <<>>
                            ELSE IF s[n] \in S THEN Append(picked[n - 1], s[n]) ELSE picked[n - 1]
    BY <1>3
  <2>2. 0 \in 0..N /\ \A n \in 1..N : n \in 0..N /\ n # 0
    BY <1>1
  <2>3. QED
    BY <2>1, <2>2
<1> DEFINE D == {n \in Nat : n <= N => picked[n] \in T /\ ToSet(picked[n]) = prefix(n) \cap S}
<1> HIDE DEF picked
<1>5. 0 \in D
  <2>1. <<>> \in T /\ ToSet(<<>>) = {} /\ prefix(0) = {}
    BY DEF ToSet
  <2>2. QED
    BY <1>4, <2>1
<1>6. ASSUME NEW n \in Nat, n \in D
      PROVE  n + 1 \in D
  <2> SUFFICES ASSUME n + 1 <= N
               PROVE  picked[n + 1] \in T /\ ToSet(picked[n + 1]) = prefix(n + 1) \cap S
    OBVIOUS
  <2> DEFINE c == s[n + 1]
  <2>1. picked[n] \in T /\ ToSet(picked[n]) = prefix(n) \cap S
    BY <1>1, <1>6
  <2>2. c \in Candidates /\ prefix(n + 1) = prefix(n) \cup {c}
    <3>1. n + 1 \in 1..N /\ 1..n + 1 = 1..n \cup {n + 1}
      BY <1>1
    <3>2. QED
      BY <1>1, <3>1
  <2>3. picked[n + 1] = IF c \in S THEN Append(picked[n], c) ELSE picked[n]
    <3>1. n + 1 \in 1..N /\ (n + 1) - 1 = n
      BY <1>1
    <3> HIDE DEF N
    <3>2. QED
      BY <1>4, <3>1
  <2>4. Append(picked[n], c) \in T /\ ToSet(Append(picked[n], c)) = ToSet(picked[n]) \cup {c}
    BY <2>1, <2>2, VariantsAppend
  <2> HIDE DEF c, prefix, T
  <2>5. QED
    BY <2>1, <2>2, <2>3, <2>4
<1> HIDE DEF D
<1>7. N \in D
  BY <1>1, <1>5, <1>6, Induction
<1>8. prefix(N) = ToSet(s)
  BY <1>1 DEF ToSet
<1>9. QED
  BY <1>2, <1>7, <1>8 DEF D
-----------------------------------------------------------------------------
(* What preparation writes.                                                *)

LEMMA SeqIntro ==
    ASSUME NEW T, NEW n \in Nat, NEW s, s = [i \in 1..n |-> s[i]], \A i \in 1..n : s[i] \in T
    PROVE  s \in Seq(T) /\ Len(s) = n /\ DOMAIN s = 1..n
<1>1. s \in [1..n -> T]
  BY Zenon
<1>2. QED
  BY <1>1

LEMMA ExactOK ==
    ASSUME NEW g \in Seq(Entity), NEW item, ItemOK(item, g), NEW x \in 0..Len(g)
    PROVE  /\ ItemOK([item EXCEPT !.exact = x], g)
           /\ [item EXCEPT !.exact = x].variants = item.variants
           /\ [item EXCEPT !.exact = x].resolution = item.resolution
           /\ [item EXCEPT !.exact = x].kind = item.kind
           /\ [item EXCEPT !.exact = x].exact = x
<1> DEFINE u == [item EXCEPT !.exact = x]
<1>1. item \in Item /\ x \in Nat
  BY DEF ItemOK
<1>2. /\ u \in Item /\ u.variants = item.variants /\ u.kind = item.kind
      /\ u.resolution = item.resolution /\ u.exact = x /\ u.target = item.target
  BY <1>1 DEF Item
<1> HIDE DEF u
<1>3. ItemOK(u, g)
  BY <1>2 DEF ItemOK, Variants
<1>4. QED
  BY <1>2, <1>3 DEF u

\* The rows that a call reads: those of its snapshot, or new ones.
ReadBy(call) == IF call.items = <<>> THEN FreshItems(call.conspect) ELSE call.items

LEMMA PreparedOK ==
    ASSUME NEW g \in Seq(Entity), NEW call, call.conspect \in Conspects,
           ItemsOK(call.items, g), call.entities \in Seq(Entity),
           Len(call.entities) <= Len(g),
           NEW rows \in Prepared(call)
    PROVE  /\ ItemsOK(rows, g)
           /\ DOMAIN rows = DOMAIN ReadBy(call)
           /\ \A i \in DOMAIN rows :
                 /\ rows[i] = [ReadBy(call)[i] EXCEPT !.exact = rows[i].exact]
                 /\ rows[i].variants = ReadBy(call)[i].variants
                 /\ rows[i].kind = ReadBy(call)[i].kind
                 /\ rows[i].resolution = ReadBy(call)[i].resolution
<1> DEFINE read == ReadBy(call)
           N == Len(call.entities)
<1>1. ItemsOK(read, g)
  BY FreshItemsOK DEF ReadBy
<1>2. PICK f \in [DOMAIN read -> 0..N] :
          rows = [i \in DOMAIN read |-> [read[i] EXCEPT !.exact = f[i]]]
  BY DEF Prepared, ReadBy
<1>3. N \in Nat /\ N <= Len(g) /\ Len(g) \in Nat
  OBVIOUS
<1> HIDE DEF read, N
<1>4. ASSUME NEW i \in DOMAIN read
      PROVE  /\ rows[i] = [read[i] EXCEPT !.exact = f[i]]
             /\ f[i] \in 0..Len(g)
             /\ ItemOK(read[i], g)
  BY <1>1, <1>2, <1>3 DEF ItemsOK
<1>5. ASSUME NEW i \in DOMAIN read
      PROVE  /\ ItemOK(rows[i], g)
             /\ rows[i] = [read[i] EXCEPT !.exact = rows[i].exact]
             /\ rows[i].variants = read[i].variants
             /\ rows[i].kind = read[i].kind
             /\ rows[i].resolution = read[i].resolution
  <2>1. rows[i] = [read[i] EXCEPT !.exact = f[i]] /\ f[i] \in 0..Len(g) /\ ItemOK(read[i], g)
    BY <1>4
  <2> DEFINE u == [read[i] EXCEPT !.exact = f[i]]
  <2>2. /\ ItemOK(u, g) /\ u.variants = read[i].variants /\ u.kind = read[i].kind
        /\ u.resolution = read[i].resolution /\ u.exact = f[i]
    BY <2>1, ExactOK
  <2> HIDE DEF u
  <2>3. rows[i] = u
    BY <2>1 DEF u
  <2>4. u = [read[i] EXCEPT !.exact = u.exact]
    BY <2>2 DEF u
  <2>5. QED
    BY <2>2, <2>3, <2>4
<1>6. DOMAIN rows = DOMAIN read
  BY <1>2
<1>7. rows \in Seq(Item)
  <2>1. read \in Seq(Item)
    BY <1>1 DEF ItemsOK
  <2>2. DOMAIN read = 1..Len(read) /\ Len(read) \in Nat
    BY <2>1
  <2>3. \A i \in 1..Len(read) : rows[i] \in Item
    BY <1>5, <2>2 DEF ItemOK
  <2>4. rows = [i \in 1..Len(read) |-> rows[i]]
    BY <1>2, <2>2
  <2>5. QED
    BY <2>2, <2>3, <2>4, SeqIntro
<1>8. QED
  BY <1>5, <1>6, <1>7 DEF ItemsOK, read

LEMMA WrittenOK ==
    ASSUME NEW g \in Seq(Entity), NEW its, ItemsOK(its, g), NEW rows, ItemsOK(rows, g), NEW call
    PROVE  /\ ItemsOK(Written(its, call, rows), g)
           /\ (call.items = <<>> /\ its = <<>>) => Written(its, call, rows) = rows
           /\ (call.items # <<>> /\ DOMAIN rows = DOMAIN its) => Written(its, call, rows) = rows
<1> DEFINE w == Written(its, call, rows)
<1>1. /\ its \in Seq(Item) /\ rows \in Seq(Item)
      /\ \A i \in DOMAIN its : ItemOK(its[i], g)
      /\ \A i \in DOMAIN rows : ItemOK(rows[i], g)
  BY DEF ItemsOK
<1>2. DOMAIN its = 1..Len(its) /\ Len(its) \in Nat /\ DOMAIN rows = 1..Len(rows) /\ Len(rows) \in Nat
  BY <1>1
<1>3. CASE call.items = <<>>
  <2>1. w = its \o rows
    BY <1>3 DEF Written
  <2>2. w \in Seq(Item) /\ Len(w) = Len(its) + Len(rows) /\ DOMAIN w = 1..Len(its) + Len(rows)
    BY <1>1, <2>1
  <2>3. ASSUME NEW i \in DOMAIN w PROVE ItemOK(w[i], g)
    <3>1. CASE i \in 1..Len(its)
      BY <1>1, <1>2, <2>1, <3>1
    <3>2. CASE i \notin 1..Len(its)
      <4>1. i - Len(its) \in 1..Len(rows) /\ w[i] = rows[i - Len(its)]
        BY <1>1, <1>2, <2>1, <2>2, <3>2
      <4>2. QED
        BY <1>1, <1>2, <4>1
    <3>3. QED
      BY <3>1, <3>2
  <2>4. its = <<>> => its \o rows = rows
    BY <1>1
  <2> HIDE DEF w
  <2>5. QED
    BY <1>3, <2>1, <2>2, <2>3, <2>4 DEF ItemsOK, w
<1>4. CASE call.items # <<>>
  <2>1. w = [i \in DOMAIN its |-> IF i \in DOMAIN rows THEN rows[i] ELSE its[i]]
    BY <1>4 DEF Written
  <2> HIDE DEF w
  <2>2. \A i \in DOMAIN its : w[i] = IF i \in DOMAIN rows THEN rows[i] ELSE its[i]
    BY <2>1
  <2>3. \A i \in DOMAIN its : ItemOK(w[i], g)
    BY <1>1, <2>2
  <2>4. w \in Seq(Item) /\ DOMAIN w = DOMAIN its
    <3>1. \A i \in 1..Len(its) : w[i] \in Item
      BY <1>2, <2>3 DEF ItemOK
    <3>2. w = [i \in 1..Len(its) |-> w[i]]
      BY <1>2, <2>1
    <3>3. QED
      BY <1>2, <3>1, <3>2, SeqIntro
  <2>5. DOMAIN rows = DOMAIN its => w = rows
    <3> SUFFICES ASSUME DOMAIN rows = DOMAIN its PROVE w = rows
      OBVIOUS
    <3>1. \A i \in DOMAIN rows : w[i] = rows[i]
      BY <2>2
    <3>2. QED
      BY <1>1, <2>4, <3>1
  <2>6. QED
    BY <1>4, <2>3, <2>4, <2>5 DEF ItemsOK, w
<1>5. QED
  BY <1>3, <1>4

-----------------------------------------------------------------------------
(* What decisions, rematches and splits write.                             *)

\* The same items with other decisions.
SameVariants(its, new) ==
    /\ DOMAIN new = DOMAIN its
    /\ \A i \in DOMAIN its : new[i].variants = its[i].variants /\ new[i].kind = its[i].kind

\* Some of the items are reopened.
ReopenedOnly(its, new) ==
    /\ new = [i \in DOMAIN its |-> new[i]]
    /\ \A i \in DOMAIN its : new[i] \in {its[i], Undecided(its[i])}

LEMMA ReopenedOnlyOK ==
    ASSUME NEW g \in Seq(Entity), NEW its, ItemsOK(its, g), NEW new, ReopenedOnly(its, new)
    PROVE  ItemsOK(new, g) /\ SameVariants(its, new)
<1>1. its \in Seq(Item) /\ \A i \in DOMAIN its : ItemOK(its[i], g)
  BY DEF ItemsOK
<1>2. \A i \in DOMAIN its : /\ ItemOK(new[i], g)
                            /\ new[i].variants = its[i].variants
                            /\ new[i].kind = its[i].kind
  <2> SUFFICES ASSUME NEW i \in DOMAIN its
               PROVE  /\ ItemOK(new[i], g)
                      /\ new[i].variants = its[i].variants
                      /\ new[i].kind = its[i].kind
    OBVIOUS
  <2>1. CASE new[i] = its[i]
    BY <1>1, <2>1
  <2>2. CASE new[i] = Undecided(its[i])
    BY <1>1, <2>2, UndecidedOK
  <2>3. QED
    BY <2>1, <2>2 DEF ReopenedOnly
<1>3. new = [i \in DOMAIN its |-> new[i]]
  BY DEF ReopenedOnly
<1>4. DOMAIN new = DOMAIN its
  BY <1>3
<1>5. new \in Seq(Item)
  <2>1. DOMAIN its = 1..Len(its) /\ Len(its) \in Nat
    BY <1>1
  <2>2. \A i \in 1..Len(its) : new[i] \in Item
    BY <1>2, <2>1 DEF ItemOK
  <2>3. QED
    BY <1>3, <2>1, <2>2, SeqIntro
<1>6. QED
  BY <1>2, <1>4, <1>5 DEF ItemsOK, SameVariants

LEMMA ReopenedIsReopenedOnly ==
    ASSUME NEW its, NEW i
    PROVE  ReopenedOnly(its, Reopened(its, i))
BY DEF ReopenedOnly, Reopened

\* The items of k that rematchConflict leaves.
Rematched(its) ==
    [i \in DOMAIN its |-> IF Targeted(its[i].resolution) THEN Undecided(its[i]) ELSE its[i]]

LEMMA RematchedIsReopenedOnly ==
    ASSUME NEW its
    PROVE  ReopenedOnly(its, Rematched(its))
BY DEF ReopenedOnly, Rematched

\* The item with a decision r.
Decided(item, r, t, title, v) ==
    [item EXCEPT !.resolution = r, !.target = t, !.title = title, !.version = v]

LEMMA DecidedOK ==
    ASSUME NEW g \in Seq(Entity), NEW item, ItemOK(item, g), NEW r \in Resolutions,
           NEW t \in Nat, NEW title \in Titles, NEW v \in Nat,
           Targeted(r) => t \in DOMAIN g /\ g[t].kind = item.kind,
           ~Targeted(r) => t = NoEntity
    PROVE  LET d == Decided(item, r, t, title, v)
           IN  /\ ItemOK(d, g)
               /\ d.variants = item.variants /\ d.kind = item.kind /\ d.exact = item.exact
               /\ d.resolution = r /\ d.target = t /\ d.version = v /\ d.title = title
<1> DEFINE d == Decided(item, r, t, title, v)
           x == [item EXCEPT !.resolution = r]
           y == [x EXCEPT !.target = t]
           z == [y EXCEPT !.title = title]
<1>1. item \in Item
  BY DEF ItemOK
<1>2. /\ x \in Item /\ x.variants = item.variants /\ x.kind = item.kind
      /\ x.resolution = r /\ x.exact = item.exact
  BY <1>1 DEF Item
<1>3. d = [z EXCEPT !.version = v]
  BY DEF Decided
<1> HIDE DEF x
<1>4. /\ y \in Item /\ y.variants = item.variants /\ y.kind = item.kind
      /\ y.resolution = r /\ y.exact = item.exact /\ y.target = t
  BY <1>2 DEF Item
<1> HIDE DEF y
<1>5. /\ z \in Item /\ z.variants = item.variants /\ z.kind = item.kind
      /\ z.resolution = r /\ z.exact = item.exact /\ z.target = t /\ z.title = title
  BY <1>4 DEF Item
<1> HIDE DEF z, d
<1>6. /\ d \in Item /\ d.variants = item.variants /\ d.kind = item.kind /\ d.title = title
      /\ d.resolution = r /\ d.exact = item.exact /\ d.target = t /\ d.version = v
  BY <1>3, <1>5 DEF Item
<1>7. d.target \in 0..Len(g) /\ d.exact \in 0..Len(g)
  <2>1. Len(g) \in Nat /\ DOMAIN g = 1..Len(g)
    OBVIOUS
  <2>2. t \in 0..Len(g)
    BY <2>1 DEF NoEntity
  <2>3. item.exact \in 0..Len(g)
    BY DEF ItemOK
  <2>4. QED
    BY <1>6, <2>2, <2>3
<1>8. d.variants # <<>> /\ \A c \in Variants(d) : KindOf(c) = d.kind
  BY <1>6 DEF ItemOK, Variants
<1>9. Targeted(d.resolution) => d.target \in DOMAIN g /\ g[d.target].kind = d.kind
  BY <1>6
<1>10. ItemOK(d, g)
  BY <1>6, <1>7, <1>8, <1>9 DEF ItemOK
<1>11. QED
  BY <1>6, <1>10 DEF d

LEMMA ReplacedOK ==
    ASSUME NEW g \in Seq(Entity), NEW its, ItemsOK(its, g), NEW i \in DOMAIN its,
           NEW d, ItemOK(d, g)
    PROVE  LET new == [its EXCEPT ![i] = d]
           IN  /\ ItemsOK(new, g)
               /\ DOMAIN new = DOMAIN its /\ new[i] = d
               /\ \A j \in DOMAIN its : j # i => new[j] = its[j]
<1> DEFINE new == [its EXCEPT ![i] = d]
<1>1. its \in Seq(Item) /\ d \in Item
  BY DEF ItemsOK, ItemOK
<1>2. /\ DOMAIN new = DOMAIN its /\ new[i] = d
      /\ \A j \in DOMAIN its : j # i => new[j] = its[j]
      /\ new \in Seq(Item)
  BY <1>1
<1> HIDE DEF new
<1>3. \A j \in DOMAIN new : ItemOK(new[j], g)
  BY <1>2 DEF ItemsOK
<1>4. QED
  BY <1>2, <1>3 DEF ItemsOK, new

\* The items after item i gave the variants part to a new one and kept rest.
SplitItems(its, i, rest, part) ==
    Append([its EXCEPT ![i] = [Undecided(its[i]) EXCEPT !.variants = rest,
                                                        !.title = TitleOf[Head(rest)]]],
           NewItem(its[i].kind, part))

\* new is its with the variants of item i split in rest and part.
IsSplit(its, i, rest, part, new) ==
    LET n == Len(its) + 1
    IN  /\ DOMAIN new = DOMAIN its \cup {n} /\ n \notin DOMAIN its
        /\ \A j \in DOMAIN its : j # i => new[j] = its[j]
        /\ new[i].kind = its[i].kind /\ new[i].resolution = Pending
        /\ new[n].kind = its[i].kind /\ new[n].resolution = Pending
        /\ Variants(new[i]) = ToSet(rest) /\ Variants(new[n]) = ToSet(part)

LEMMA SplitOK ==
    ASSUME NEW g \in Seq(Entity), NEW its, ItemsOK(its, g), NEW i \in DOMAIN its,
           NEW rest \in Seq(Candidates), rest # <<>>,
           NEW part \in Seq(Candidates), part # <<>>,
           ToSet(rest) \cap ToSet(part) = {},
           ToSet(rest) \cup ToSet(part) = Variants(its[i])
    PROVE  /\ ItemsOK(SplitItems(its, i, rest, part), g)
           /\ IsSplit(its, i, rest, part, SplitItems(its, i, rest, part))
<1> DEFINE item == its[i]
           u == Undecided(item)
           x == [u EXCEPT !.variants = rest]
           kept == [x EXCEPT !.title = TitleOf[Head(rest)]]
           fresh == NewItem(item.kind, part)
           mid == [its EXCEPT ![i] = kept]
           new == Append(mid, fresh)
           n == Len(its) + 1
<1>1. ItemOK(item, g) /\ its \in Seq(Item) /\ item \in Item /\ item.kind \in Kinds
  BY DEF ItemsOK, ItemOK, Item
<1>2. SplitItems(its, i, rest, part) = new
  BY DEF SplitItems
<1> HIDE DEF item
<1>3. ItemOK(u, g) /\ u.kind = item.kind /\ u.resolution = Pending
  BY <1>1, UndecidedOK
<1>4. /\ \A c \in ToSet(rest) : KindOf(c) = item.kind
      /\ \A c \in ToSet(part) : KindOf(c) = item.kind
  BY <1>1 DEF ItemOK, item
<1>5. ItemOK(fresh, g) /\ fresh.variants = part /\ fresh.kind = item.kind /\ fresh.resolution = Pending
  BY <1>1, <1>4, NewItemOK
<1> HIDE DEF fresh, u
<1>6. ItemOK(kept, g) /\ kept.variants = rest /\ kept.kind = item.kind /\ kept.resolution = Pending
  <2>1. u \in Item
    BY <1>3 DEF ItemOK
  <2>2. /\ x \in Item /\ x.variants = rest /\ x.kind = item.kind /\ x.resolution = Pending
        /\ x.target = u.target /\ x.exact = u.exact
    BY <1>3, <2>1 DEF Item
  <2>3. TitleOf[Head(rest)] \in Titles
    <3>1. Head(rest) \in Candidates
      OBVIOUS
    <3>2. QED
      BY <3>1, CandidatesAssumption
  <2> HIDE DEF x
  <2>4. /\ kept \in Item /\ kept.variants = rest /\ kept.kind = item.kind /\ kept.resolution = Pending
        /\ kept.target = u.target /\ kept.exact = u.exact
    BY <2>2, <2>3 DEF Item
  <2> HIDE DEF kept
  <2>5. ItemOK(kept, g)
    BY <1>3, <1>4, <2>4 DEF ItemOK, Variants
  <2>6. QED
    BY <2>4, <2>5
<1> HIDE DEF kept
<1>7. /\ ItemsOK(mid, g) /\ DOMAIN mid = DOMAIN its /\ mid[i] = kept
      /\ \A j \in DOMAIN its : j # i => mid[j] = its[j]
  BY <1>6, ReplacedOK
<1> HIDE DEF mid
<1>8. mid \in Seq(Item) /\ Len(mid) = Len(its) /\ DOMAIN its = 1..Len(its) /\ Len(its) \in Nat
  <2>1. mid \in Seq(Item)
    BY <1>7 DEF ItemsOK
  <2>2. QED
    BY <1>1, <1>7, <2>1
<1>9. fresh \in Item
  BY <1>5 DEF ItemOK
<1>10. /\ new \in Seq(Item) /\ DOMAIN new = 1..n /\ new[n] = fresh
       /\ \A j \in DOMAIN its : new[j] = mid[j]
  BY <1>7, <1>8, <1>9
<1> HIDE DEF new
<1>11. DOMAIN new = DOMAIN its \cup {n} /\ n \notin DOMAIN its
  BY <1>8, <1>10
<1> HIDE DEF n
<1>12. ItemsOK(new, g)
  BY <1>5, <1>7, <1>10, <1>11 DEF ItemsOK
<1>13. /\ \A j \in DOMAIN its : j # i => new[j] = its[j]
       /\ new[i].kind = item.kind /\ new[i].resolution = Pending
       /\ new[n].kind = item.kind /\ new[n].resolution = Pending
       /\ Variants(new[i]) = ToSet(rest) /\ Variants(new[n]) = ToSet(part)
  BY <1>5, <1>6, <1>7, <1>10 DEF Variants
<1>14. IsSplit(its, i, rest, part, new)
  BY <1>11, <1>13 DEF IsSplit, item, n
<1>15. QED
  BY <1>2, <1>12, <1>14

-----------------------------------------------------------------------------
(* What the application of a conspect writes.                              *)

\* Nothing speaks against the application of these items.
Applicable(its) ==
    /\ entities \in Seq(Entity)
    /\ ItemsOK(its, entities)
    /\ \A i \in DOMAIN its : its[i].resolution # Pending
    /\ Refused(its) = {}

\* Every accepted item has an entity of its own in the new graph, the old ones
\* keep their kinds, and what is not updated stays as it was.
IsUpsert(k, its, after) ==
    /\ after \in Seq(Entity) /\ Extended(entities, after)
    /\ \A i, j \in Updates(its) : its[i].target = its[j].target => i = j
    /\ \A i \in Updates(its) :
          /\ its[i].target \in DOMAIN entities
          /\ its[i].version = entities[its[i].target].version
          /\ after[its[i].target] =
                [kind |-> its[i].kind, title |-> its[i].title, by |-> k,
                 version |-> entities[its[i].target].version + 1]
    /\ \A e \in DOMAIN entities :
          (\E i \in Updates(its) : its[i].target = e) \/ after[e] = entities[e]
    /\ \A e \in DOMAIN after \ DOMAIN entities : \E i \in Creates(its) :
          after[e] = [kind |-> its[i].kind, title |-> its[i].title, by |-> k,
                      version |-> 1]
    /\ \A i \in Accepted(its) : /\ TargetOf(its, i) \in DOMAIN after
                                /\ after[TargetOf(its, i)].kind = its[i].kind
    /\ \A i \in Creates(its) : ~TitleTaken(its[i])

LEMMA UpsertedFacts ==
    ASSUME NEW k \in Conspects, NEW its, Applicable(its)
    PROVE  IsUpsert(k, its, Upserted(k, its))
<1> DEFINE after == Upserted(k, its)
           N == Len(entities)
           C == Creates(its)
           U == Updates(its)
           M == Cardinality(C)
           row(i, v) == [kind |-> its[i].kind, title |-> its[i].title, by |-> k, version |-> v]
<1>1. its \in Seq(Item) /\ \A i \in DOMAIN its : its[i] \in Item /\ ItemOK(its[i], entities)
  BY DEF Applicable, ItemsOK, ItemOK
<1>2. /\ C \in SUBSET (1..Len(its)) /\ Len(its) \in Nat /\ N \in Nat
      /\ DOMAIN entities = 1..N /\ DOMAIN its = 1..Len(its)
  <2>1. entities \in Seq(Entity)
    BY DEF Applicable
  <2>2. \A i \in C : i \in DOMAIN its
    BY DEF Creates
  <2> HIDE DEF C
  <2>3. QED
    BY <1>1, <2>1, <2>2
<1>3. /\ M \in Nat
      /\ \A i \in C : Rank(C, i) \in 1..M
      /\ \A i, j \in C : Rank(C, i) = Rank(C, j) => i = j
  BY <1>2, RankOnce
<1>4. \A i \in C : TargetOf(its, i) = N + Rank(C, i)
  BY DEF TargetOf, Rank
<1>5. \A i \in DOMAIN its \ C : TargetOf(its, i) = its[i].target
  BY DEF TargetOf
<1>6. ASSUME NEW i \in DOMAIN its, Targeted(its[i].resolution)
      PROVE  /\ i \notin C /\ i \in Accepted(its) /\ its[i].target \in DOMAIN entities
             /\ entities[its[i].target].kind = its[i].kind
             /\ its[i].version = entities[its[i].target].version
  <2>1. i \notin C /\ i \in Accepted(its)
    BY <1>6 DEF Creates, Accepted, Targeted
  <2>2. its[i].target \in DOMAIN entities /\ entities[its[i].target].kind = its[i].kind
    BY <1>1, <1>6 DEF ItemOK
  <2>3. ~StaleTarget(its[i])
    BY <2>1 DEF Refused, Applicable
  <2>4. QED
    BY <1>6, <2>1, <2>2, <2>3 DEF StaleTarget
<1>7. \A i \in U : i \in DOMAIN its /\ Targeted(its[i].resolution)
  BY DEF Updates, Targeted
<1>8. ASSUME NEW i \in U, NEW j \in U, its[i].target = its[j].target
      PROVE  i = j
  <2>1. i \in Accepted(its) /\ j \in Accepted(its)
    BY <1>6, <1>7
  <2>2. ~Repeated(its, i) /\ ~Repeated(its, j)
    BY <2>1 DEF Refused, Applicable
  <2>3. ~(i < j) /\ ~(j < i)
    BY <1>8, <2>2 DEF Repeated
  <2>4. i \in Nat /\ j \in Nat
    BY <1>2, <1>7
  <2>5. QED
    BY <2>3, <2>4
<1>9. \A i \in C : i \in DOMAIN its /\ ~TitleTaken(its[i])
  <2> SUFFICES ASSUME NEW i \in C PROVE i \in DOMAIN its /\ ~TitleTaken(its[i])
    OBVIOUS
  <2>1. i \in Accepted(its)
    BY DEF Creates, Accepted
  <2>2. QED
    BY <2>1 DEF Refused, Applicable, Creates
<1>10. ASSUME NEW i \in C \cup U
       PROVE  /\ i \in C => TargetOf(its, i) \in N + 1 .. N + M
              /\ i \in U => TargetOf(its, i) = its[i].target /\ TargetOf(its, i) \in 1..N
  <2>1. ASSUME i \in C PROVE TargetOf(its, i) \in N + 1 .. N + M
    <3>1. TargetOf(its, i) = N + Rank(C, i) /\ Rank(C, i) \in 1..M
      BY <1>3, <1>4, <2>1
    <3> HIDE DEF C, N, M
    <3>2. QED
      BY <1>2, <1>3, <3>1
  <2>2. ASSUME i \in U PROVE TargetOf(its, i) = its[i].target /\ TargetOf(its, i) \in 1..N
    <3>1. i \in DOMAIN its /\ Targeted(its[i].resolution)
      BY <1>7, <2>2
    <3> HIDE DEF C
    <3>2. QED
      BY <1>2, <1>5, <1>6, <3>1
  <2>3. QED
    BY <2>1, <2>2
<1>11. ASSUME NEW i \in C \cup U, NEW j \in C \cup U, TargetOf(its, i) = TargetOf(its, j)
       PROVE  i = j
  <2> HIDE DEF C, U, M, N
  <2>1. \/ i \in C /\ j \in C
        \/ i \in U /\ j \in U
    <3>1. \A x : ~(x \in N + 1 .. N + M /\ x \in 1..N)
      BY <1>2
    <3>2. QED
      BY <1>10, <1>11, <3>1
  <2>2. CASE i \in C /\ j \in C
    <3>1. N + Rank(C, i) = N + Rank(C, j) /\ Rank(C, i) \in Nat /\ Rank(C, j) \in Nat
      BY <1>3, <1>4, <1>11, <2>2
    <3>2. Rank(C, i) = Rank(C, j)
      BY <1>2, <3>1
    <3>3. QED
      BY <1>3, <2>2, <3>2
  <2>3. CASE i \in U /\ j \in U
    BY <1>8, <1>10, <1>11, <2>3
  <2>4. QED
    BY <2>1, <2>2, <2>3
<1>12. ASSUME NEW i \in C \cup U
       PROVE  /\ TargetOf(its, i) \in 1 .. N + M
              /\ after[TargetOf(its, i)] =
                    row(i, IF TargetOf(its, i) \in DOMAIN entities
                           THEN entities[TargetOf(its, i)].version + 1 ELSE 1)
  <2> DEFINE e == TargetOf(its, i)
             c == CHOOSE j \in C \cup U : TargetOf(its, j) = e
  <2>1. e \in 1 .. N + M
    <3> HIDE DEF C, U, e, N, M
    <3>1. e \in N + 1 .. N + M \/ e \in 1..N
      BY <1>10 DEF e
    <3>2. QED
      BY <1>2, <1>3, <3>1
  <2>2. c = i
    <3>1. c \in C \cup U /\ TargetOf(its, c) = e
      OBVIOUS
    <3> HIDE DEF C, U, c
    <3>2. QED
      BY <1>11, <3>1
  <2>3. after[e] = IF \E j \in C \cup U : TargetOf(its, j) = e
                   THEN row(c, IF e \in DOMAIN entities THEN entities[e].version + 1 ELSE 1)
                   ELSE entities[e]
    <3> HIDE DEF C, U, e
    <3>1. QED
      BY <2>1 DEF Upserted, C, U
  <2> HIDE DEF c, after
  <2>4. QED
    BY <2>1, <2>2, <2>3
<1>13. ASSUME NEW e \in 1 .. N + M, ~\E i \in C \cup U : TargetOf(its, i) = e
       PROVE  after[e] = entities[e]
  BY <1>13 DEF Upserted
<1>14. ASSUME NEW e \in N + 1 .. N + M
       PROVE  \E i \in C : TargetOf(its, i) = e
  <2>1. e - N \in 1..M
    <3> HIDE DEF N, M
    <3>1. QED
      BY <1>2, <1>3
  <2>2. PICK i \in C : Rank(C, i) = e - N
    BY <1>2, <2>1, RankOnto
  <2>3. N + (e - N) = e
    <3> HIDE DEF N, M
    <3>1. QED
      BY <1>2, <1>3
  <2>4. QED
    BY <1>4, <2>2, <2>3
<1>15. after = [e \in 1 .. N + M |-> after[e]]
  BY DEF Upserted
<1> HIDE DEF after, M
<1>16. ASSUME NEW i \in U
       PROVE  /\ its[i].target \in DOMAIN entities
              /\ its[i].version = entities[its[i].target].version
              /\ after[its[i].target] = row(i, entities[its[i].target].version + 1)
  <2>1. i \in DOMAIN its /\ Targeted(its[i].resolution)
    BY <1>7
  <2>2. its[i].target \in DOMAIN entities /\ its[i].version = entities[its[i].target].version
    BY <1>6, <2>1
  <2> HIDE DEF C, U
  <2>3. TargetOf(its, i) = its[i].target
    BY <1>10
  <2>4. QED
    BY <1>12, <2>2, <2>3
<1>17. ASSUME NEW e \in DOMAIN entities
       PROVE  (\E i \in U : its[i].target = e) \/ after[e] = entities[e]
  <2> SUFFICES ASSUME ~\E i \in U : its[i].target = e PROVE after[e] = entities[e]
    OBVIOUS
  <2> HIDE DEF C, U, N
  <2>1. e \in 1..N /\ e \in 1 .. N + M /\ ~(e \in N + 1 .. N + M)
    BY <1>2, <1>3
  <2>2. \A i \in C \cup U : TargetOf(its, i) # e
    BY <1>10, <2>1
  <2>3. QED
    BY <1>13, <2>1, <2>2
<1>18. ASSUME NEW e \in (1 .. N + M) \ DOMAIN entities
       PROVE  \E i \in C : TargetOf(its, i) = e /\ after[e] = row(i, 1)
  <2> HIDE DEF C, U, N
  <2>1. e \in N + 1 .. N + M
    BY <1>2, <1>3
  <2>2. PICK i \in C : TargetOf(its, i) = e
    BY <1>14, <2>1
  <2>3. QED
    BY <1>12, <2>2
<1>19. ASSUME NEW i \in DOMAIN its, NEW v \in Nat \ {0}
       PROVE  row(i, v) \in Entity
  BY <1>1 DEF Item, Entity
<1>20. ASSUME NEW e \in 1 .. N + M
       PROVE  after[e] \in Entity /\ (e \in DOMAIN entities => after[e].kind = entities[e].kind)
  <2>1. CASE e \in DOMAIN entities
    <3>1. entities[e] \in Entity
      <4>1. entities \in Seq(Entity)
        BY DEF Applicable
      <4>2. QED
        BY <2>1, <4>1
    <3>2. ASSUME NEW i \in U, its[i].target = e
          PROVE  after[e] \in Entity /\ after[e].kind = entities[e].kind
      <4>1. entities[e].version + 1 \in Nat \ {0}
        BY <3>1 DEF Entity
      <4>2. i \in DOMAIN its /\ entities[e].kind = its[i].kind
        BY <1>6, <1>7, <3>2
      <4>3. after[e] = row(i, entities[e].version + 1)
        BY <1>16, <3>2
      <4> HIDE DEF U
      <4>4. QED
        BY <1>19, <4>1, <4>2, <4>3
    <3>3. QED
      BY <1>17, <2>1, <3>1, <3>2
  <2>2. CASE e \notin DOMAIN entities
    <3>1. PICK i \in C : after[e] = row(i, 1)
      BY <1>18, <2>2
    <3>2. QED
      BY <1>9, <1>19, <2>2, <3>1
  <2>3. QED
    BY <2>1, <2>2
<1>21. /\ after \in Seq(Entity) /\ Len(after) = N + M /\ DOMAIN after = 1 .. N + M
       /\ Extended(entities, after)
  <2> HIDE DEF N
  <2>1. N + M \in Nat /\ N <= N + M /\ \A e \in 1..N : e \in 1 .. N + M
    BY <1>2, <1>3
  <2>2. after \in Seq(Entity) /\ Len(after) = N + M /\ DOMAIN after = 1 .. N + M
    BY <1>15, <1>20, <2>1, SeqIntro
  <2>3. Extended(entities, after)
    BY <1>2, <1>20, <2>1, <2>2 DEF Extended, N
  <2>4. QED
    BY <2>2, <2>3
<1>22. ASSUME NEW i \in Accepted(its)
       PROVE  TargetOf(its, i) \in DOMAIN after /\ after[TargetOf(its, i)].kind = its[i].kind
  <2>1. i \in DOMAIN its /\ its[i].resolution \notin {Pending, "reject"} /\ its[i].resolution \in Resolutions
    BY <1>1 DEF Accepted, Item, Applicable
  <2>2. CASE i \in C
    <3> HIDE DEF C, U, N
    <3>1. i \in C \cup U
      BY <2>2
    <3> DEFINE e == TargetOf(its, i)
               v == IF e \in DOMAIN entities THEN entities[e].version + 1 ELSE 1
    <3>2. e \in 1 .. N + M /\ after[e] = row(i, v)
      BY <1>12, <3>1
    <3> HIDE DEF v, e
    <3>3. after[e].kind = its[i].kind
      BY <3>2
    <3>4. QED
      BY <1>21, <3>2, <3>3 DEF e
  <2>3. CASE i \notin C
    <3>1. Targeted(its[i].resolution)
      BY <2>1, <2>3 DEF Creates, Targeted, Resolutions
    <3>2. TargetOf(its, i) = its[i].target
      BY <1>5, <2>1, <2>3
    <3>3. its[i].target \in DOMAIN entities /\ entities[its[i].target].kind = its[i].kind
      BY <1>6, <2>1, <3>1
    <3>4. its[i].target \in 1 .. N + M
      <4> HIDE DEF N
      <4>1. QED
        BY <1>2, <1>3, <3>3
    <3>5. QED
      BY <1>20, <1>21, <3>2, <3>3, <3>4
  <2>4. QED
    BY <2>2, <2>3
<1>23. \A e \in DOMAIN after \ DOMAIN entities : \E i \in C : after[e] = row(i, 1)
  BY <1>18, <1>21
<1> HIDE DEF C, U
<1>24. QED
  BY <1>8, <1>9, <1>16, <1>17, <1>21, <1>22, <1>23 DEF IsUpsert, after, C, U

-----------------------------------------------------------------------------
(* The types of the rows and calls, with what they say of each other.      *)

\* The rows of the review.  A conspect is ready only when nothing is pending.
ReviewRows ==
    /\ status \in [Conspects -> Statuses]
    /\ items  \in [Conspects -> Seq(Item)]
    /\ links  \subseteq (Candidates \ Terms) \X Terms
    /\ \A k \in Conspects : ItemsOK(items[k], entities)
    /\ \A k \in Conspects : status[k] = "ready_to_apply" =>
          \A i \in DOMAIN items[k] : items[k][i].resolution # Pending

\* The rows of the graph.
GraphRows ==
    /\ entities \in Seq(Entity)
    /\ relations \subseteq (DOMAIN entities) \X (DOMAIN entities)
    /\ \A r \in relations : entities[r[1]].kind = "thought" /\ entities[r[2]].kind = "term"
    /\ revision \in Nat
    /\ exports \in Nat

QueueRows ==
    /\ jobs       \in [Conspects -> Nat]
    /\ failedJobs \in [Conspects -> Nat]
    /\ conflicted \subseteq Conspects
    /\ errors     \in 0..MaxErrors
    /\ restarts   \in 0..MaxRestarts

\* A call is about a conspect unless its worker is free or away; its snapshot is of
\* graph g or older.
CallOK(call, g) ==
    /\ call \in Call
    /\ call.conspect = "none" <=> call.step \in {"idle", "extracting"}
    /\ ItemsOK(call.items, g)
    /\ Len(call.entities) <= Len(g)

Calls ==
    /\ preparing \in [Preparers -> Call]
    /\ \A p \in Preparers : CallOK(preparing[p], entities)

TypeInv == ReviewRows /\ GraphRows /\ QueueRows /\ Calls

LEMMA TypeInvTypeOK ==
    TypeInv => TypeOK
<1> SUFFICES ASSUME TypeInv PROVE TypeOK
  OBVIOUS
<1>1. ASSUME NEW k \in Conspects, NEW i \in DOMAIN items[k]
      PROVE  {items[k][i].target, items[k][i].exact} \subseteq 0..Len(entities)
  <2>1. ItemOK(items[k][i], entities)
    BY DEF TypeInv, ReviewRows, ItemsOK
  <2>2. QED
    BY <2>1 DEF ItemOK
<1>2. QED
  BY <1>1 DEF TypeInv, ReviewRows, GraphRows, QueueRows, Calls, TypeOK

LEMMA ReviewStateOf ==
    ASSUME NEW its
    PROVE  /\ ReviewState(its) \in Editable
           /\ ReviewState(its) = "ready_to_apply" => \A i \in DOMAIN its : its[i].resolution # Pending
BY DEF ReviewState, Editable

LEMMA IdleOK ==
    ASSUME NEW g \in Seq(Entity)
    PROVE  CallOK(Idle, g)
<1>1. Idle \in Call
  <2>1. <<>> \in Seq(Entity) /\ <<>> \in Seq(Item)
    OBVIOUS
  <2>2. QED
    BY <2>1 DEF Idle, Call, Steps
<1>2. ItemsOK(<<>>, g)
  BY DEF ItemsOK
<1>3. QED
  BY <1>1, <1>2 DEF CallOK, Idle

LEMMA StatusesAre ==
    /\ Statuses = {"review_pending", "ready_to_apply", "applied", "rejected",
                   "preparing_review", "failed"}
    /\ Editable = {"review_pending", "ready_to_apply"}
    /\ Settled = {"applied", "rejected"}
BY DEF Statuses, Editable, Settled

LEMMA TypeInvInit ==
    Init => TypeInv
<1> SUFFICES ASSUME Init PROVE TypeInv
  OBVIOUS
<1>1. ItemsOK(<<>>, entities) /\ entities \in Seq(Entity)
  BY GraphAssumption DEF Init, ItemsOK
<1>2. ReviewRows
  <2>1. \A k \in Conspects : items[k] = <<>> /\ status[k] = "preparing_review"
    BY DEF Init
  <2>2. items \in [Conspects -> Seq(Item)]
    BY DEF Init
  <2>3. status \in [Conspects -> Statuses]
    BY DEF Init, Statuses
  <2>4. links \subseteq (Candidates \ Terms) \X Terms
    BY CandidatesAssumption DEF Init
  <2>5. QED
    BY <1>1, <2>1, <2>2, <2>3, <2>4 DEF ReviewRows
<1>3. GraphRows
  BY <1>1 DEF Init, GraphRows
<1>4. QueueRows
  BY FaultsAssumption DEF Init, QueueRows
<1>5. Calls
  <2>1. CallOK(Idle, entities) /\ Idle \in Call
    BY <1>1, IdleOK DEF CallOK
  <2>2. preparing = [p \in Preparers |-> Idle]
    BY DEF Init
  <2>3. QED
    BY <2>1, <2>2 DEF Calls
<1>6. QED
  BY <1>2, <1>3, <1>4, <1>5 DEF TypeInv

\* An extraction takes the worker and nothing else.
AwayWrites(p) ==
    /\ UNCHANGED <<reviewVars, graphVars, jobs, failedJobs, conflicted, faults>>
    /\ preparing[p].conspect = "none"
    /\ \E c \in Call :
          /\ preparing' = [preparing EXCEPT ![p] = c]
          /\ CallOK(c, entities)
          /\ c.conspect = "none"

LEMMA AwayFacts ==
    ASSUME TypeInv, NEW p \in Preparers, Extract(p) \/ Extracted(p)
    PROVE  AwayWrites(p)
<1>1. CallOK(preparing[p], entities) /\ entities \in Seq(Entity)
  BY DEF TypeInv, Calls, GraphRows
<1>2. CASE Extract(p)
  <2> DEFINE c == [preparing[p] EXCEPT !.step = "extracting"]
  <2>1. /\ c \in Call /\ c.step = "extracting" /\ c.entities = preparing[p].entities
        /\ c.items = preparing[p].items /\ c.conspect = preparing[p].conspect
    BY <1>1 DEF CallOK, Call, Steps
  <2>2. preparing[p].conspect = "none"
    BY <1>1, <1>2 DEF Extract, CallOK
  <2> HIDE DEF c
  <2>3. CallOK(c, entities)
    BY <1>1, <2>1, <2>2 DEF CallOK
  <2>4. preparing' = [preparing EXCEPT ![p] = c]
    BY <1>2 DEF Extract, TypeInv, Calls, c
  <2>5. QED
    BY <1>2, <2>1, <2>2, <2>3, <2>4 DEF Extract, AwayWrites
<1>3. CASE Extracted(p)
  <2>1. CallOK(Idle, entities) /\ Idle \in Call /\ Idle.conspect = "none"
    BY <1>1, IdleOK DEF CallOK, Idle
  <2>2. preparing[p].conspect = "none"
    BY <1>1, <1>3 DEF Extracted, CallOK
  <2>3. QED
    BY <1>3, <2>1, <2>2 DEF Extracted, AwayWrites
<1>4. QED
  BY <1>2, <1>3

\* The queue rows after any step.
LEMMA QueueRowsStep ==
    TypeInv /\ [Next]_vars => QueueRows'
<1> SUFFICES ASSUME TypeInv, [Next]_vars PROVE QueueRows'
  OBVIOUS
<1> USE DEF TypeInv, QueueRows
<1>1. CASE UNCHANGED <<jobs, failedJobs, conflicted, errors, restarts>>
  BY <1>1
<1>2. ASSUME NEW p \in Preparers, HandlerStep(p)
      PROVE  QueueRows'
  BY <1>1, <1>2 DEF HandlerStep, Check, Snapshot, PendingReviewItems, SavePreparedReview, Complete, faults
<1>3. ASSUME NEW p \in Preparers, HandlerError(p)
      PROVE  QueueRows'
  <2> DEFINE k == preparing[p].conspect
  <2>1. k \in Conspects
    <3>1. CallOK(preparing[p], entities)
      BY DEF Calls
    <3>2. QED
      BY <1>3, <3>1 DEF CallOK, Call, HandlerError
  <2>2. errors' = errors + 1 /\ errors < MaxErrors /\ restarts' = restarts /\ conflicted' = conflicted
    BY <1>3 DEF HandlerError
  <2>3. \/ jobs' = [jobs EXCEPT ![k] = @ + 1] /\ failedJobs' = failedJobs
        \/ failedJobs' = [failedJobs EXCEPT ![k] = @ + 1] /\ jobs' = jobs
    BY <1>3 DEF HandlerError
  <2> HIDE DEF k
  <2>4. errors' \in 0..MaxErrors
    BY <2>2, FaultsAssumption
  <2>5. jobs' \in [Conspects -> Nat] /\ failedJobs' \in [Conspects -> Nat]
    BY <2>1, <2>3
  <2>6. QED
    BY <2>2, <2>4, <2>5
<1>4. ASSUME NEW k \in Conspects, UserStep(k)
      PROVE  QueueRows'
  <2>1. CASE ApplyConspect(k)
    BY <1>1, <2>1 DEF ApplyConspect, queueVars, faults
  <2>2. CASE ApplyConflict(k)
    BY <2>2 DEF ApplyConflict, queueVars, faults
  <2>3. CASE RetryFailedJob(k)
    BY <2>3 DEF RetryFailedJob, faults
  <2>4. ASSUME NEW i \in DOMAIN items[k], NEW r, NEW t, SaveReviewDecision(k, i, r, t)
        PROVE  QueueRows'
    BY <1>1, <2>4 DEF SaveReviewDecision, queueVars, faults
  <2>5. ASSUME NEW i \in DOMAIN items[k], NEW t, DecisionConflict(k, i, t)
        PROVE  QueueRows'
    BY <2>5 DEF DecisionConflict, queueVars, faults
  <2>6. ASSUME NEW i \in DOMAIN items[k], NEW S, SplitReviewItem(k, i, S)
        PROVE  QueueRows'
    BY <2>6 DEF SplitReviewItem, faults
  <2>7. QED
    BY <1>4, <2>1, <2>2, <2>3, <2>4, <2>5, <2>6 DEF UserStep
<1>5. ASSUME NEW k \in Conspects, Rematch(k)
      PROVE  QueueRows'
  BY <1>5 DEF Rematch, faults
<1>6. ASSUME NEW k \in Conspects, NEW p \in Preparers, Start(p, k)
      PROVE  QueueRows'
  BY <1>6 DEF Start, faults
<1>7. CASE Restart
  <2>1. ASSUME NEW k \in Conspects
        PROVE  Cardinality({p \in Preparers : preparing[p].conspect = k}) \in Nat
    BY PreparersAssumption, FS_Subset, FS_CardinalityType
  <2>2. \A k \in Conspects : jobs[k] + Cardinality({p \in Preparers : preparing[p].conspect = k}) \in Nat
    BY <2>1
  <2>3. jobs' \in [Conspects -> Nat]
    BY <1>7, <2>2 DEF Restart
  <2>4. restarts' \in 0..MaxRestarts
    BY <1>7, FaultsAssumption DEF Restart
  <2>5. QED
    BY <1>7, <2>3, <2>4 DEF Restart
<1>8. CASE UNCHANGED vars
  BY <1>1, <1>8 DEF vars, queueVars, faults
<1>9. ASSUME NEW p \in Preparers, Extract(p) \/ Extracted(p)
     PROVE  QueueRows'
  BY <1>1, <1>9, AwayFacts DEF AwayWrites, faults
<1>10. QED
  BY <1>2, <1>3, <1>4, <1>5, <1>6, <1>7, <1>8, <1>9 DEF Next

\* The items of k after decision d on item i.
AfterDecision(its, i, d, r) ==
    LET mid == [its EXCEPT ![i] = d]
    IN  IF r = "reject" /\ its[i].kind = "term" THEN Reopened(mid, i) ELSE mid

\* What a decision does.
DecisionWrites(k, i, r, d, T) ==
    LET mid == [items[k] EXCEPT ![i] = d]
    IN  /\ status[k] \in Editable
        /\ ItemOK(d, entities) /\ ItemsOK(mid, entities)
        /\ d.variants = items[k][i].variants /\ d.kind = items[k][i].kind /\ d.resolution = r
        /\ DOMAIN mid = DOMAIN items[k] /\ mid[i] = d
        /\ \A j \in DOMAIN items[k] : j # i => mid[j] = items[k][j]
        /\ r # "reject" => \A j \in T : items[k][j].resolution # "reject"
        /\ \/ links' = links /\ T = RelatedTo(items[k], links, i)
           \/ /\ items[k][i].kind = "thought"
              /\ T \subseteq {j \in DOMAIN items[k] : items[k][j].kind = "term"}
              /\ links' = Relinked(items[k], i, T)
        /\ items' = [items EXCEPT ![k] = AfterDecision(items[k], i, d, r)]
        /\ status' = [status EXCEPT ![k] = ReviewState(AfterDecision(items[k], i, d, r))]
        /\ UNCHANGED <<graphVars, queueVars, conflicted, faults>>

LEMMA DecisionFacts ==
    ASSUME TypeInv, NEW k \in Conspects, NEW i \in DOMAIN items[k], NEW r \in Resolutions \ {Pending},
           NEW t \in 0..Len(entities), SaveReviewDecision(k, i, r, t)
    PROVE  \E d, T : DecisionWrites(k, i, r, d, T)
<1> DEFINE item == items[k][i]
           terms == {j \in DOMAIN items[k] : items[k][j].kind = "term"}
           v == IF Targeted(r) THEN entities[t].version ELSE 0
           dec(title) == Decided(item, r, t, title, v)
           its(title) == [items[k] EXCEPT ![i] =
                             [item EXCEPT !.resolution = r, !.target = t, !.title = title,
                                  !.version = IF Targeted(r) THEN entities[t].version ELSE 0]]
           new(title) == IF r = "reject" /\ item.kind = "term" THEN Reopened(its(title), i) ELSE its(title)
<1>1. /\ ItemsOK(items[k], entities) /\ ItemOK(item, entities) /\ entities \in Seq(Entity)
      /\ items \in [Conspects -> Seq(Item)]
  BY DEF TypeInv, ReviewRows, GraphRows, ItemsOK
<1>0. t \in Nat /\ (t \in DOMAIN entities => entities[t] \in Entity)
  <2>1. entities \in Seq(Entity)
    BY <1>1
  <2>2. Len(entities) \in Nat
    BY <2>1
  <2> HIDE DEF item, v, dec, its, new
  <2>3. QED
    BY <2>1, <2>2
<1>2. PICK title, T :
          /\ title \in FinalTitles(item, r, t)
          /\ r # "reject" => \A j \in T : items[k][j].resolution # "reject"
          /\ items' = [items EXCEPT ![k] = new(title)]
          /\ \/ links' = links /\ T = RelatedTo(items[k], links, i)
             \/ item.kind = "thought" /\ T \in SUBSET terms /\ links' = Relinked(items[k], i, T)
  BY DEF SaveReviewDecision
<1>3. /\ status[k] \in Editable
      /\ IF Targeted(r) THEN t \in DOMAIN entities /\ entities[t].kind = item.kind
                        ELSE t = NoEntity
      /\ status' = [status EXCEPT ![k] = ReviewState(items'[k])]
      /\ UNCHANGED <<graphVars, queueVars, conflicted, faults>>
  BY DEF SaveReviewDecision
<1>4. v \in Nat /\ t \in Nat /\ title \in Titles
  <2>1. t \in Nat
    BY <1>0
  <2>2. Targeted(r) => entities[t] \in Entity
    BY <1>0, <1>3
  <2>3. v \in Nat
    BY <2>2 DEF Entity
  <2>4. item.title \in Titles
    BY <1>1 DEF ItemOK, Item
  <2>5. Targeted(r) => entities[t].title \in Titles
    BY <2>2 DEF Entity
  <2>6. r \in {"create", "update", "keep_existing", "reject"}
    BY DEF Resolutions
  <2> HIDE DEF item
  <2>7. title \in Titles
    <3>1. CASE r = "keep_existing"
      BY <1>2, <2>5, <3>1 DEF FinalTitles, Targeted
    <3>2. CASE r = "update"
      BY <1>2, <2>5, <3>2, TitlesAssumption DEF FinalTitles, Targeted
    <3>3. CASE r = "create"
      BY <1>2, <2>4, <3>3, TitlesAssumption DEF FinalTitles
    <3>4. CASE r = "reject"
      BY <1>2, <2>4, <3>4 DEF FinalTitles
    <3>5. QED
      BY <2>6, <3>1, <3>2, <3>3, <3>4
  <2>8. QED
    BY <2>1, <2>3, <2>7
<1> DEFINE d == dec(title)
           mid == [items[k] EXCEPT ![i] = d]
<1>5. its(title) = mid
  BY DEF Decided
<1>6. new(title) = AfterDecision(items[k], i, d, r)
  BY <1>5 DEF AfterDecision
<1> HIDE DEF new, its, v, item, dec
<1>7. /\ ItemOK(d, entities) /\ d.variants = item.variants /\ d.kind = item.kind
      /\ d.resolution = r
  <2>1. r \in Resolutions
    OBVIOUS
  <2> HIDE DEF d
  <2>2. d = Decided(item, r, t, title, v)
    BY DEF d, dec
  <2>3. /\ entities \in Seq(Entity) /\ ItemOK(item, entities)
        /\ t \in Nat /\ title \in Titles /\ v \in Nat
    BY <1>1, <1>4
  <2>4. /\ Targeted(r) => t \in DOMAIN entities /\ entities[t].kind = item.kind
        /\ ~Targeted(r) => t = NoEntity
    BY <1>3
  <2>5. QED
    BY <2>1, <2>2, <2>3, <2>4, DecidedOK
<1> HIDE DEF d
<1>8. /\ ItemsOK(mid, entities) /\ DOMAIN mid = DOMAIN items[k] /\ mid[i] = d
      /\ \A j \in DOMAIN items[k] : j # i => mid[j] = items[k][j]
  BY <1>1, <1>7, ReplacedOK
<1>9. items'[k] = AfterDecision(items[k], i, d, r)
  BY <1>1, <1>2, <1>6
<1>10. DecisionWrites(k, i, r, d, T)
  BY <1>2, <1>3, <1>6, <1>7, <1>8, <1>9 DEF DecisionWrites, item
<1>11. QED
  BY <1>10

LEMMA AfterDecisionOK ==
    ASSUME TypeInv, NEW k \in Conspects, NEW i \in DOMAIN items[k], NEW r, NEW d, NEW T,
           DecisionWrites(k, i, r, d, T)
    PROVE  LET new == AfterDecision(items[k], i, d, r)
           IN  /\ ItemsOK(new, entities)
               /\ SameVariants(items[k], new)
               /\ new[i] = d
               /\ \A j \in DOMAIN items[k] : j # i => new[j] \in {items[k][j], Undecided(items[k][j])}
<1> DEFINE its == items[k]
           mid == [its EXCEPT ![i] = d]
           new == AfterDecision(its, i, d, r)
<1>0. entities \in Seq(Entity)
  BY DEF TypeInv, GraphRows
<1>1. /\ ItemsOK(mid, entities) /\ DOMAIN mid = DOMAIN its /\ mid[i] = d
      /\ \A j \in DOMAIN its : j # i => mid[j] = its[j]
      /\ d.variants = its[i].variants /\ d.kind = its[i].kind
  BY DEF DecisionWrites
<1>2. SameVariants(its, mid)
  BY <1>1 DEF SameVariants
<1>3. CASE r = "reject" /\ its[i].kind = "term"
  <2>1. new = Reopened(mid, i)
    BY <1>3 DEF AfterDecision
  <2>2. ItemsOK(new, entities) /\ SameVariants(mid, new)
    BY <1>0, <1>1, <2>1, ReopenedIsReopenedOnly, ReopenedOnlyOK
  <2>3. new[i] = d
    BY <1>1, <1>3, <2>1 DEF Reopened
  <2>4. \A j \in DOMAIN its : j # i => new[j] \in {its[j], Undecided(its[j])}
    BY <1>1, <2>1, ReopenedIsReopenedOnly DEF ReopenedOnly
  <2>5. QED
    BY <1>2, <2>2, <2>3, <2>4 DEF SameVariants
<1>4. CASE ~(r = "reject" /\ its[i].kind = "term")
  <2>1. new = mid
    BY <1>4 DEF AfterDecision
  <2>2. QED
    BY <1>1, <1>2, <2>1
<1>5. QED
  BY <1>3, <1>4

\* What a split does.
SplitWrites(k, i, rest, part) ==
    /\ status[k] \in Editable
    /\ rest \in Seq(Candidates) /\ rest # <<>> /\ part \in Seq(Candidates) /\ part # <<>>
    /\ ToSet(rest) \cap ToSet(part) = {}
    /\ ToSet(rest) \cup ToSet(part) = Variants(items[k][i])
    /\ items' = [items EXCEPT ![k] = SplitItems(items[k], i, rest, part)]
    /\ status' = [status EXCEPT ![k] = "preparing_review"]
    /\ jobs' = [jobs EXCEPT ![k] = @ + 1]
    /\ UNCHANGED <<links, graphVars, failedJobs, preparing, conflicted, faults>>

LEMMA SplitFacts ==
    ASSUME TypeInv, NEW k \in Conspects, NEW i \in DOMAIN items[k],
           NEW S \in SUBSET Variants(items[k][i]), SplitReviewItem(k, i, S)
    PROVE  \E rest, part : SplitWrites(k, i, rest, part)
<1> DEFINE item == items[k][i]
           rest == Picked(item.variants, Variants(item) \ S)
           part == Picked(item.variants, S)
<1>1. item.variants \in Seq(Candidates)
  <2>1. ItemOK(item, entities)
    BY DEF TypeInv, ReviewRows, ItemsOK
  <2>2. QED
    BY <2>1 DEF ItemOK, Item
<1>2. /\ rest \in Seq(Candidates) /\ ToSet(rest) = Variants(item) \cap (Variants(item) \ S)
      /\ part \in Seq(Candidates) /\ ToSet(part) = Variants(item) \cap S
  BY <1>1, PickedOK DEF Variants
<1>3. items' = [items EXCEPT ![k] = SplitItems(items[k], i, rest, part)]
  BY DEF SplitReviewItem, SplitItems
<1>4. /\ status[k] \in Editable /\ rest # <<>> /\ part # <<>>
      /\ status' = [status EXCEPT ![k] = "preparing_review"]
      /\ jobs' = [jobs EXCEPT ![k] = @ + 1]
      /\ UNCHANGED <<links, graphVars, failedJobs, preparing, conflicted, faults>>
  BY DEF SplitReviewItem
<1> HIDE DEF rest, part
<1>5. SplitWrites(k, i, rest, part)
  BY <1>2, <1>3, <1>4 DEF SplitWrites
<1>6. QED
  BY <1>5

LEMMA SplitItemsOK ==
    ASSUME TypeInv, NEW k \in Conspects, NEW i \in DOMAIN items[k], NEW rest, NEW part,
           SplitWrites(k, i, rest, part)
    PROVE  /\ ItemsOK(SplitItems(items[k], i, rest, part), entities)
           /\ IsSplit(items[k], i, rest, part, SplitItems(items[k], i, rest, part))
<1>1. entities \in Seq(Entity) /\ ItemsOK(items[k], entities)
  BY DEF TypeInv, GraphRows, ReviewRows
<1>2. /\ rest \in Seq(Candidates) /\ rest # <<>> /\ part \in Seq(Candidates) /\ part # <<>>
      /\ ToSet(rest) \cap ToSet(part) = {}
      /\ ToSet(rest) \cup ToSet(part) = Variants(items[k][i])
  BY DEF SplitWrites
<1>3. QED
  BY <1>1, <1>2, SplitOK

\* The step leaves the graph alone, and the conspects that are settled.
Untouched ==
    /\ UNCHANGED graphVars
    /\ \A k \in Conspects : status[k] \in Settled \/ status'[k] \in Settled =>
          status'[k] = status[k] /\ items'[k] = items[k]

\* The conspect a handler works on.
LEMMA CallConspect ==
    ASSUME TypeInv, NEW p \in Preparers, preparing[p].step \notin {"idle", "extracting"}
    PROVE  /\ preparing[p].conspect \in Conspects
           /\ ItemsOK(preparing[p].items, entities)
           /\ preparing[p].entities \in Seq(Entity)
           /\ Len(preparing[p].entities) <= Len(entities)
<1>1. CallOK(preparing[p], entities)
  BY DEF TypeInv, Calls
<1>2. QED
  BY <1>1 DEF CallOK, Call

\* What a handler saves.
SaveWrites(p, k) ==
    LET call == preparing[p]
    IN  /\ call.step = "save" /\ call.conspect = k /\ k \in Conspects
        /\ \/ /\ status[k] = "preparing_review"
              /\ \E rows \in Prepared(call) :
                    LET new == Written(items[k], call, rows)
                    IN  /\ items' = [items EXCEPT ![k] = new]
                        /\ status' = [status EXCEPT ![k] = ReviewState(new)]
                        /\ ItemsOK(rows, entities)
                        /\ ItemsOK(new, entities)
           \/ /\ status[k] # "preparing_review"
              /\ UNCHANGED <<items, status>>
        /\ preparing' = [preparing EXCEPT ![p] = [Idle EXCEPT !.step = "served", !.conspect = k]]
        /\ UNCHANGED <<links, graphVars, jobs, failedJobs, conflicted, faults>>

LEMMA SaveFacts ==
    ASSUME TypeInv, NEW p \in Preparers, SavePreparedReview(p)
    PROVE  SaveWrites(p, preparing[p].conspect)
<1> DEFINE call == preparing[p]
           k == call.conspect
<1>1. call.step = "save"
  BY DEF SavePreparedReview
<1>2. /\ k \in Conspects /\ ItemsOK(call.items, entities) /\ call.entities \in Seq(Entity)
      /\ Len(call.entities) <= Len(entities)
  <2>1. call.step \notin {"idle", "extracting"}
    BY <1>1
  <2>2. QED
    BY <2>1, CallConspect
<1>3. entities \in Seq(Entity) /\ ItemsOK(items[k], entities) /\ items \in [Conspects -> Seq(Item)]
  BY <1>2 DEF TypeInv, GraphRows, ReviewRows
<1>4. CASE status[k] = "preparing_review"
  <2>1. PICK rows \in Prepared(call) : items' = [items EXCEPT ![k] = Written(items[k], call, rows)]
    BY <1>4 DEF SavePreparedReview
  <2>2. status' = [status EXCEPT ![k] = ReviewState(items'[k])]
    BY <1>4 DEF SavePreparedReview
  <2> DEFINE new == Written(items[k], call, rows)
  <2>3. items'[k] = new
    BY <1>2, <1>3, <2>1
  <2>4. ItemsOK(rows, entities)
    <3> HIDE DEF call
    <3>1. QED
      BY <1>2, <1>3, <2>1, PreparedOK
  <2>5. ItemsOK(new, entities)
    BY <1>3, <2>4, WrittenOK
  <2>6. /\ preparing' = [preparing EXCEPT ![p] = [Idle EXCEPT !.step = "served", !.conspect = k]]
        /\ UNCHANGED <<links, graphVars, jobs, failedJobs, conflicted, faults>>
    BY DEF SavePreparedReview
  <2> HIDE DEF new
  <2>7. items' = [items EXCEPT ![k] = new] /\ status' = [status EXCEPT ![k] = ReviewState(new)]
    BY <2>1, <2>2, <2>3 DEF new
  <2>8. QED
    BY <1>1, <1>2, <1>4, <2>4, <2>5, <2>6, <2>7 DEF SaveWrites, new
<1>5. CASE status[k] # "preparing_review"
  <2>1. /\ UNCHANGED <<items, status>>
        /\ preparing' = [preparing EXCEPT ![p] = [Idle EXCEPT !.step = "served", !.conspect = k]]
        /\ UNCHANGED <<links, graphVars, jobs, failedJobs, conflicted, faults>>
    BY <1>5 DEF SavePreparedReview
  <2>2. QED
    BY <1>1, <1>2, <1>5, <2>1 DEF SaveWrites
<1>6. QED
  BY <1>4, <1>5

LEMMA GraphStep ==
    TypeInv /\ [Next]_vars => Untouched \/ \E k \in Conspects : ApplyConspect(k)
<1> SUFFICES ASSUME TypeInv, [Next]_vars
             PROVE  Untouched \/ \E k \in Conspects : ApplyConspect(k)
  OBVIOUS
<1>0. status \in [Conspects -> Statuses] /\ items \in [Conspects -> Seq(Item)]
  BY DEF TypeInv, ReviewRows
<1>1. ASSUME UNCHANGED <<status, items, graphVars>>
      PROVE  Untouched
  BY <1>1 DEF Untouched
<1>2. ASSUME NEW p \in Preparers, HandlerStep(p)
      PROVE  Untouched
  <2>1. CASE SavePreparedReview(p)
    <3> DEFINE k == preparing[p].conspect
    <3>1. SaveWrites(p, k)
      BY <2>1, SaveFacts
    <3> HIDE DEF k
    <3>2. CASE status[k] = "preparing_review"
      <4>1. PICK new : /\ items' = [items EXCEPT ![k] = new]
                       /\ status' = [status EXCEPT ![k] = ReviewState(new)]
        BY <3>1, <3>2 DEF SaveWrites
      <4>2. UNCHANGED graphVars /\ k \in Conspects
        BY <3>1 DEF SaveWrites
      <4>3. ReviewState(new) \notin Settled /\ status[k] \notin Settled
        BY <3>2, StatusesAre, ReviewStateOf
      <4>4. QED
        BY <1>0, <4>1, <4>2, <4>3 DEF Untouched
    <3>3. CASE status[k] # "preparing_review"
      BY <1>1, <3>1, <3>3 DEF SaveWrites
    <3>4. QED
      BY <3>2, <3>3
  <2>2. CASE Check(p) \/ Snapshot(p) \/ PendingReviewItems(p) \/ Complete(p)
    BY <1>1, <2>2 DEF Check, Snapshot, PendingReviewItems, Complete, reviewVars
  <2>3. QED
    BY <1>2, <2>1, <2>2 DEF HandlerStep
<1>3. ASSUME NEW p \in Preparers, HandlerError(p)
      PROVE  Untouched
  <2> DEFINE k == preparing[p].conspect
  <2>1. /\ UNCHANGED <<items, graphVars>>
        /\ \/ status' = status
           \/ status' = [status EXCEPT ![k] = IF @ = "preparing_review" THEN "failed" ELSE @]
    BY <1>3 DEF HandlerError
  <2> HIDE DEF k
  <2>2. QED
    BY <1>0, <2>1, StatusesAre DEF Untouched
<1>4. ASSUME NEW k \in Conspects, UserStep(k), ~ApplyConspect(k)
      PROVE  Untouched
  <2>1. CASE ApplyConflict(k)
    BY <1>1, <2>1 DEF ApplyConflict, reviewVars
  <2>2. CASE RetryFailedJob(k)
    BY <1>0, <2>2, StatusesAre DEF RetryFailedJob, Untouched
  <2>3. ASSUME NEW i \in DOMAIN items[k], NEW r \in Resolutions \ {Pending},
               NEW t \in 0..Len(entities), SaveReviewDecision(k, i, r, t)
        PROVE  Untouched
    <3>1. PICK d, T : DecisionWrites(k, i, r, d, T)
      BY <2>3, DecisionFacts
    <3> DEFINE new == AfterDecision(items[k], i, d, r)
    <3>2. /\ items' = [items EXCEPT ![k] = new]
          /\ status' = [status EXCEPT ![k] = ReviewState(new)]
          /\ status[k] \in Editable /\ UNCHANGED graphVars
      BY <3>1 DEF DecisionWrites
    <3> HIDE DEF new
    <3>3. ReviewState(new) \notin Settled /\ status[k] \notin Settled
      BY <3>2, StatusesAre, ReviewStateOf
    <3>4. QED
      BY <1>0, <3>2, <3>3 DEF Untouched
  <2>4. ASSUME NEW i \in DOMAIN items[k], NEW t \in DOMAIN entities, DecisionConflict(k, i, t)
        PROVE  Untouched
    BY <1>1, <2>4 DEF DecisionConflict, reviewVars
  <2>5. ASSUME NEW i \in DOMAIN items[k], NEW S \in SUBSET Variants(items[k][i]),
               SplitReviewItem(k, i, S)
        PROVE  Untouched
    <3>1. PICK rest, part : SplitWrites(k, i, rest, part)
      BY <2>5, SplitFacts
    <3> DEFINE new == SplitItems(items[k], i, rest, part)
    <3>2. /\ items' = [items EXCEPT ![k] = new]
          /\ status' = [status EXCEPT ![k] = "preparing_review"]
          /\ status[k] \in Editable /\ UNCHANGED graphVars
      BY <3>1 DEF SplitWrites
    <3> HIDE DEF new
    <3>3. QED
      BY <1>0, <3>2, StatusesAre DEF Untouched
  <2>6. QED
    BY <1>4, <2>1, <2>2, <2>3, <2>4, <2>5 DEF UserStep
<1>5. ASSUME NEW k \in Conspects, Rematch(k)
      PROVE  Untouched
  <2>1. CASE status[k] \in Editable
    <3>1. PICK new : /\ items' = [items EXCEPT ![k] = new]
                     /\ status' = [status EXCEPT ![k] = "preparing_review"]
                     /\ UNCHANGED graphVars
      BY <1>5, <2>1 DEF Rematch
    <3>2. QED
      BY <1>0, <2>1, <3>1, StatusesAre DEF Untouched
  <2>2. CASE status[k] \notin Editable
    BY <1>1, <1>5, <2>2 DEF Rematch
  <2>3. QED
    BY <2>1, <2>2
<1>6. ASSUME NEW k \in Conspects, NEW p \in Preparers, Start(p, k)
      PROVE  Untouched
  BY <1>1, <1>6 DEF Start, reviewVars
<1>7. CASE Restart
  BY <1>1, <1>7 DEF Restart, reviewVars
<1>8. CASE UNCHANGED vars
  BY <1>1, <1>8 DEF vars, reviewVars
<1>9. ASSUME NEW p \in Preparers, Extract(p) \/ Extracted(p)
     PROVE  Untouched
  BY <1>1, <1>9, AwayFacts DEF AwayWrites, reviewVars
<1>10. QED
  BY <1>2, <1>3, <1>4, <1>5, <1>6, <1>7, <1>8, <1>9 DEF Next

\* The review rows after any step that is not an application.
LEMMA ReviewRowsStep ==
    TypeInv /\ [Next]_vars /\ Untouched => ReviewRows'
<1> SUFFICES ASSUME TypeInv, [Next]_vars, Untouched PROVE ReviewRows'
  OBVIOUS
<1>0. /\ status \in [Conspects -> Statuses] /\ items \in [Conspects -> Seq(Item)]
      /\ links \subseteq (Candidates \ Terms) \X Terms
      /\ \A k \in Conspects : ItemsOK(items[k], entities)
      /\ \A k \in Conspects : status[k] = "ready_to_apply" =>
            \A i \in DOMAIN items[k] : items[k][i].resolution # Pending
      /\ entities \in Seq(Entity) /\ entities' = entities
  BY DEF TypeInv, ReviewRows, GraphRows, Untouched, graphVars
<1>1. ASSUME UNCHANGED reviewVars
      PROVE  ReviewRows'
  BY <1>0, <1>1 DEF ReviewRows, reviewVars
<1>2. ASSUME NEW k \in Conspects, NEW new, NEW s,
             items' = [items EXCEPT ![k] = new], status' = [status EXCEPT ![k] = s],
             links' \subseteq (Candidates \ Terms) \X Terms,
             ItemsOK(new, entities), s \in Statuses,
             s = "ready_to_apply" => \A i \in DOMAIN new : new[i].resolution # Pending
      PROVE  ReviewRows'
  <2>1. new \in Seq(Item)
    BY <1>2 DEF ItemsOK
  <2>2. items' \in [Conspects -> Seq(Item)] /\ status' \in [Conspects -> Statuses]
    BY <1>0, <1>2, <2>1
  <2>3. ASSUME NEW l \in Conspects
        PROVE  /\ ItemsOK(items'[l], entities')
               /\ status'[l] = "ready_to_apply" =>
                     \A i \in DOMAIN items'[l] : items'[l][i].resolution # Pending
    <3>1. CASE l = k
      BY <1>0, <1>2, <3>1
    <3>2. CASE l # k
      BY <1>0, <1>2, <3>2
    <3>3. QED
      BY <3>1, <3>2
  <2>4. QED
    BY <1>2, <2>2, <2>3 DEF ReviewRows
<1>3. ASSUME NEW k \in Conspects, NEW s \in Statuses \ {"ready_to_apply"},
             \/ status' = [status EXCEPT ![k] = s]
             \/ status' = status,
             UNCHANGED <<items, links>>
      PROVE  ReviewRows'
  <2>1. status' \in [Conspects -> Statuses]
    BY <1>0, <1>3
  <2>2. \A l \in Conspects : status'[l] = "ready_to_apply" => status[l] = "ready_to_apply"
    BY <1>0, <1>3
  <2>3. QED
    BY <1>0, <1>3, <2>1, <2>2 DEF ReviewRows
<1>4. ASSUME NEW p \in Preparers, HandlerStep(p)
      PROVE  ReviewRows'
  <2>1. CASE SavePreparedReview(p)
    <3> DEFINE k == preparing[p].conspect
    <3>1. SaveWrites(p, k)
      BY <2>1, SaveFacts
    <3> HIDE DEF k
    <3>2. k \in Conspects /\ links' = links
      BY <3>1 DEF SaveWrites
    <3>3. CASE status[k] = "preparing_review"
      <4>1. PICK new : /\ items' = [items EXCEPT ![k] = new]
                       /\ status' = [status EXCEPT ![k] = ReviewState(new)]
                       /\ ItemsOK(new, entities)
        BY <3>1, <3>3 DEF SaveWrites
      <4>2. ReviewState(new) \in Statuses
        BY ReviewStateOf, StatusesAre
      <4>3. QED
        BY <1>0, <1>2, <3>2, <4>1, <4>2, ReviewStateOf
    <3>4. CASE status[k] # "preparing_review"
      BY <1>1, <3>1, <3>4 DEF SaveWrites, reviewVars
    <3>5. QED
      BY <3>3, <3>4
  <2>2. CASE Check(p) \/ Snapshot(p) \/ PendingReviewItems(p) \/ Complete(p)
    <3>1. UNCHANGED reviewVars
      BY <2>2 DEF Check, Snapshot, PendingReviewItems, Complete
    <3>2. QED
      BY <1>1, <3>1
  <2>3. QED
    BY <1>4, <2>1, <2>2 DEF HandlerStep
<1>5. ASSUME NEW p \in Preparers, HandlerError(p)
      PROVE  ReviewRows'
  <2> DEFINE k == preparing[p].conspect
  <2>1. preparing[p].step \notin {"idle", "extracting"}
    BY <1>5 DEF HandlerError
  <2>2. k \in Conspects
    BY <2>1, CallConspect
  <2>3. /\ UNCHANGED <<items, links>>
        /\ \/ status' = status
           \/ status' = [status EXCEPT ![k] = IF @ = "preparing_review" THEN "failed" ELSE @]
    BY <1>5 DEF HandlerError
  <2> HIDE DEF k
  <2>4. status' = status \/ status' = [status EXCEPT ![k] = "failed"]
    BY <1>0, <2>2, <2>3
  <2>5. QED
    BY <1>3, <2>2, <2>3, <2>4, StatusesAre
<1>6. ASSUME NEW k \in Conspects, UserStep(k)
      PROVE  ReviewRows'
  <2>1. CASE ApplyConflict(k)
    <3>1. UNCHANGED reviewVars
      BY <2>1 DEF ApplyConflict
    <3>2. QED
      BY <1>1, <3>1
  <2>2. CASE RetryFailedJob(k)
    <3>1. /\ UNCHANGED <<items, links>>
          /\ status' = [status EXCEPT ![k] = IF @ = "failed" THEN "preparing_review" ELSE @]
      BY <2>2 DEF RetryFailedJob
    <3>2. status' = [status EXCEPT ![k] = "preparing_review"] \/ status' = status
      BY <1>0, <3>1
    <3>3. "preparing_review" \in Statuses \ {"ready_to_apply"}
      BY StatusesAre
    <3>4. QED
      BY <1>3, <3>1, <3>2, <3>3
  <2>3. ASSUME NEW i \in DOMAIN items[k], NEW r \in Resolutions \ {Pending},
               NEW t \in 0..Len(entities), SaveReviewDecision(k, i, r, t)
        PROVE  ReviewRows'
    <3>1. PICK d, T : DecisionWrites(k, i, r, d, T)
      BY <2>3, DecisionFacts
    <3> DEFINE new == AfterDecision(items[k], i, d, r)
    <3>2. /\ items' = [items EXCEPT ![k] = new]
          /\ status' = [status EXCEPT ![k] = ReviewState(new)]
          /\ ItemsOK(new, entities)
      BY <3>1, AfterDecisionOK DEF DecisionWrites
    <3>3. links' \subseteq (Candidates \ Terms) \X Terms
      <4>1. CASE links' = links
        BY <1>0, <4>1
      <4>2. CASE links' # links
        <5>1. /\ items[k][i].kind = "thought" /\ T \subseteq DOMAIN items[k]
              /\ links' = Relinked(items[k], i, T)
              /\ \A j \in T : items[k][j].kind = "term"
          <6>1. items[k][i].kind = "thought" /\ T \subseteq DOMAIN items[k] /\ links' = Relinked(items[k], i, T)
            BY <3>1, <4>2 DEF DecisionWrites
          <6>2. QED
            BY <3>1, <4>2, <6>1 DEF DecisionWrites
        <5>2. ASSUME NEW j \in DOMAIN items[k]
              PROVE  \A c \in Variants(items[k][j]) : c \in Candidates /\ KindOf(c) = items[k][j].kind
          <6>1. ItemOK(items[k][j], entities)
            BY <1>0 DEF ItemsOK
          <6>2. items[k][j].variants \in Seq(Candidates)
            BY <6>1 DEF ItemOK, Item
          <6>3. \A c \in Variants(items[k][j]) : c \in Candidates
            BY <6>2 DEF Variants, ToSet
          <6>4. QED
            BY <6>1, <6>3 DEF ItemOK
        <5>3. \A c : /\ KindOf(c) = "thought" => c \notin Terms
                     /\ KindOf(c) = "term" => c \in Terms
          BY DEF KindOf
        <5>4. Variants(items[k][i]) \subseteq Candidates \ Terms
          BY <5>1, <5>2, <5>3
        <5>5. UNION {Variants(items[k][j]) : j \in T} \subseteq Terms
          BY <5>1, <5>2, <5>3
        <5>6. QED
          BY <1>0, <5>1, <5>4, <5>5 DEF Relinked
      <4>3. QED
        BY <4>1, <4>2
    <3> HIDE DEF new
    <3>4. ReviewState(new) \in Statuses
      BY ReviewStateOf, StatusesAre
    <3>5. QED
      BY <1>2, <3>2, <3>3, <3>4, ReviewStateOf
  <2>4. ASSUME NEW i \in DOMAIN items[k], NEW t \in DOMAIN entities, DecisionConflict(k, i, t)
        PROVE  ReviewRows'
    <3>1. UNCHANGED reviewVars
      BY <2>4 DEF DecisionConflict
    <3>2. QED
      BY <1>1, <3>1
  <2>5. ASSUME NEW i \in DOMAIN items[k], NEW S \in SUBSET Variants(items[k][i]),
               SplitReviewItem(k, i, S)
        PROVE  ReviewRows'
    <3>1. PICK rest, part : SplitWrites(k, i, rest, part)
      BY <2>5, SplitFacts
    <3> DEFINE new == SplitItems(items[k], i, rest, part)
    <3>2. /\ items' = [items EXCEPT ![k] = new]
          /\ status' = [status EXCEPT ![k] = "preparing_review"]
          /\ ItemsOK(new, entities) /\ links' = links
      BY <3>1, SplitItemsOK DEF SplitWrites
    <3> HIDE DEF new
    <3>3. QED
      BY <1>0, <1>2, <3>2, StatusesAre
  <2>6. ASSUME ApplyConspect(k)
        PROVE  ReviewRows'
    <3>1. status[k] = "ready_to_apply" /\ status'[k] \in Settled
      BY <1>0, <2>6, StatusesAre DEF ApplyConspect
    <3>2. status'[k] = status[k]
      BY <3>1 DEF Untouched
    <3>3. QED
      BY <3>1, <3>2, StatusesAre
  <2>7. QED
    BY <1>6, <2>1, <2>2, <2>3, <2>4, <2>5, <2>6 DEF UserStep
<1>7. ASSUME NEW k \in Conspects, Rematch(k)
      PROVE  ReviewRows'
  <2>1. CASE status[k] \in Editable
    <3> DEFINE new == Rematched(items[k])
    <3>1. /\ items' = [items EXCEPT ![k] = new]
          /\ status' = [status EXCEPT ![k] = "preparing_review"]
          /\ links' = links
      BY <1>7, <2>1 DEF Rematch, Rematched
    <3>2. ItemsOK(new, entities)
      BY <1>0, RematchedIsReopenedOnly, ReopenedOnlyOK
    <3> HIDE DEF new
    <3>3. QED
      BY <1>0, <1>2, <3>1, <3>2, StatusesAre
  <2>2. CASE status[k] \notin Editable
    <3>1. UNCHANGED reviewVars
      BY <1>7, <2>2 DEF Rematch, reviewVars
    <3>2. QED
      BY <1>1, <3>1
  <2>3. QED
    BY <2>1, <2>2
<1>8. ASSUME NEW k \in Conspects, NEW p \in Preparers, Start(p, k)
      PROVE  ReviewRows'
  <2>1. UNCHANGED reviewVars
    BY <1>8 DEF Start
  <2>2. QED
    BY <1>1, <2>1
<1>9. CASE Restart
  <2>1. UNCHANGED reviewVars
    BY <1>9 DEF Restart
  <2>2. QED
    BY <1>1, <2>1
<1>10. CASE UNCHANGED vars
  <2>1. UNCHANGED reviewVars
    BY <1>10 DEF vars
  <2>2. QED
    BY <1>1, <2>1
<1>11. ASSUME NEW p \in Preparers, Extract(p) \/ Extracted(p)
      PROVE  ReviewRows'
  BY <1>1, <1>11, AwayFacts DEF AwayWrites
<1>12. QED
  BY <1>4, <1>5, <1>6, <1>7, <1>8, <1>9, <1>10, <1>11 DEF Next

\* The items of a conspect once they are applied.
AppliedItems(its) == [i \in DOMAIN its |-> [its[i] EXCEPT !.target = TargetOf(its, i)]]

\* What an application writes.
ApplyWrites(k) ==
    LET its == items[k]
    IN  /\ status[k] = "ready_to_apply"
        /\ Applicable(its)
        /\ \/ /\ Accepted(its) = {}
              /\ status' = [status EXCEPT ![k] = "rejected"]
              /\ UNCHANGED <<items, graphVars>>
           \/ /\ Accepted(its) # {}
              /\ status' = [status EXCEPT ![k] = "applied"]
              /\ items' = [items EXCEPT ![k] = AppliedItems(its)]
              /\ entities' = Upserted(k, its)
              /\ relations' = relations \cup Linked(its)
              /\ revision' = revision + 1
              /\ exports' = exports + 1
        /\ UNCHANGED <<links, queueVars, conflicted, faults>>

LEMMA ApplyFacts ==
    ASSUME TypeInv, NEW k \in Conspects, ApplyConspect(k)
    PROVE  ApplyWrites(k)
<1>1. status[k] = "ready_to_apply" /\ Refused(items[k]) = {}
  BY DEF ApplyConspect
<1>2. Applicable(items[k])
  BY <1>1 DEF Applicable, TypeInv, ReviewRows, GraphRows
<1>3. QED
  BY <1>1, <1>2 DEF ApplyConspect, ApplyWrites, AppliedItems

LEMMA AppliedItemsOK ==
    ASSUME NEW k \in Conspects, NEW its, Applicable(its)
    PROVE  /\ ItemsOK(AppliedItems(its), Upserted(k, its))
           /\ DOMAIN AppliedItems(its) = DOMAIN its
           /\ \A i \in DOMAIN its :
                 /\ AppliedItems(its)[i].resolution = its[i].resolution
                 /\ AppliedItems(its)[i].variants = its[i].variants
                 /\ AppliedItems(its)[i].kind = its[i].kind
                 /\ AppliedItems(its)[i].version = its[i].version
                 /\ i \in Updates(its) => AppliedItems(its)[i].target = its[i].target
<1> DEFINE after == Upserted(k, its)
           new == AppliedItems(its)
<1>1. /\ its \in Seq(Item) /\ \A i \in DOMAIN its : ItemOK(its[i], entities)
      /\ entities \in Seq(Entity)
  BY DEF Applicable, ItemsOK
<1>2. /\ after \in Seq(Entity) /\ Extended(entities, after)
      /\ \A i \in Accepted(its) : /\ TargetOf(its, i) \in DOMAIN after
                                  /\ after[TargetOf(its, i)].kind = its[i].kind
  BY UpsertedFacts DEF IsUpsert
<1> HIDE DEF after
<1>3. Len(entities) \in Nat /\ Len(after) \in Nat /\ Len(entities) <= Len(after) /\ DOMAIN after = 1..Len(after)
  BY <1>1, <1>2 DEF Extended
<1>4. \A i \in DOMAIN its : i \notin Creates(its) => TargetOf(its, i) = its[i].target
  BY DEF TargetOf
<1>5. ASSUME NEW i \in DOMAIN its
      PROVE  TargetOf(its, i) \in 0..Len(after) /\ TargetOf(its, i) \in Nat
  <2>1. CASE i \in Accepted(its)
    BY <1>2, <1>3, <2>1
  <2>2. CASE i \notin Accepted(its)
    <3>1. i \notin Creates(its)
      BY <2>2 DEF Accepted, Creates
    <3>2. TargetOf(its, i) = its[i].target /\ its[i].target \in 0..Len(entities)
      BY <1>1, <1>4, <3>1 DEF ItemOK
    <3>3. QED
      BY <1>3, <3>2
  <2>3. QED
    BY <2>1, <2>2
<1>6. ASSUME NEW i \in DOMAIN its
      PROVE  /\ ItemOK(new[i], after)
             /\ new[i].resolution = its[i].resolution
             /\ new[i].variants = its[i].variants
             /\ new[i].kind = its[i].kind
             /\ new[i].version = its[i].version
             /\ new[i].target = TargetOf(its, i)
  <2> DEFINE t == TargetOf(its, i)
             u == [its[i] EXCEPT !.target = t]
  <2>1. new[i] = u
    BY DEF AppliedItems
  <2>2. its[i] \in Item /\ t \in Nat
    BY <1>1, <1>5 DEF ItemOK
  <2>3. /\ u \in Item /\ u.resolution = its[i].resolution /\ u.variants = its[i].variants
        /\ u.kind = its[i].kind /\ u.version = its[i].version /\ u.target = t
        /\ u.exact = its[i].exact
    <3> HIDE DEF t
    <3>1. QED
      BY <2>2 DEF Item
  <2> HIDE DEF u
  <2>4. u.target \in 0..Len(after)
    BY <1>5, <2>3
  <2>5. u.exact \in 0..Len(after)
    <3>1. its[i].exact \in 0..Len(entities)
      BY <1>1 DEF ItemOK
    <3>2. QED
      BY <1>3, <2>3, <3>1
  <2>6. u.variants # <<>> /\ \A c \in Variants(u) : KindOf(c) = u.kind
    BY <1>1, <2>3 DEF ItemOK, Variants
  <2>7. Targeted(u.resolution) => u.target \in DOMAIN after /\ after[u.target].kind = u.kind
    <3>1. Targeted(its[i].resolution) => i \in Accepted(its)
      BY DEF Targeted, Accepted
    <3>2. QED
      BY <1>2, <2>3, <3>1
  <2>8. ItemOK(u, after)
    BY <2>3, <2>4, <2>5, <2>6, <2>7 DEF ItemOK
  <2>9. QED
    BY <2>1, <2>3, <2>8
<1>7. new \in Seq(Item) /\ DOMAIN new = DOMAIN its
  <2>1. DOMAIN its = 1..Len(its) /\ Len(its) \in Nat
    BY <1>1
  <2>2. \A i \in 1..Len(its) : new[i] \in Item
    BY <1>6, <2>1 DEF ItemOK
  <2>3. new = [i \in 1..Len(its) |-> new[i]]
    BY <2>1 DEF AppliedItems
  <2>4. QED
    BY <2>1, <2>2, <2>3, SeqIntro
<1>8. \A i \in Updates(its) : i \in DOMAIN its /\ i \notin Creates(its)
  BY DEF Updates, Creates
<1>9. QED
  BY <1>4, <1>6, <1>7, <1>8 DEF ItemsOK, after

\* What an application relates are thoughts and terms of the new graph.
LEMMA LinkedKinds ==
    ASSUME NEW k \in Conspects, NEW its, Applicable(its),
           links \subseteq (Candidates \ Terms) \X Terms, NEW r \in Linked(its)
    PROVE  LET after == Upserted(k, its)
           IN  /\ r \in (DOMAIN after) \X (DOMAIN after)
               /\ after[r[1]].kind = "thought" /\ after[r[2]].kind = "term"
<1> DEFINE after == Upserted(k, its)
           at(c) == ItemOf(its, Accepted(its), c)
<1>1. its \in Seq(Item) /\ \A i \in DOMAIN its : ItemOK(its[i], entities)
  BY DEF Applicable, ItemsOK
<1>2. \A i \in Accepted(its) : /\ TargetOf(its, i) \in DOMAIN after
                               /\ after[TargetOf(its, i)].kind = its[i].kind
  BY UpsertedFacts DEF IsUpsert
<1>3. ASSUME NEW c, Holds(its, Accepted(its), c)
      PROVE  at(c) \in Accepted(its) /\ its[at(c)].kind = KindOf(c)
  <2> DEFINE S == {i \in Accepted(its) : c \in Variants(its[i])}
  <2>1. S # {}
    BY <1>3 DEF Holds
  <2>2. S \in SUBSET (1..Len(its)) /\ Len(its) \in Nat
    <3>1. \A i \in S : i \in DOMAIN its
      BY DEF Accepted
    <3>2. DOMAIN its = 1..Len(its) /\ Len(its) \in Nat
      BY <1>1
    <3> HIDE DEF S
    <3>3. QED
      BY <3>1, <3>2
  <2>3. Max(S) \in S
    <3> HIDE DEF S
    <3>1. QED
      BY <2>1, <2>2, MaxOf
  <2>4. at(c) = Max(S)
    BY DEF ItemOf
  <2>5. at(c) \in Accepted(its) /\ c \in Variants(its[at(c)]) /\ at(c) \in DOMAIN its
    BY <2>3, <2>4 DEF Accepted
  <2> HIDE DEF at
  <2>6. QED
    BY <1>1, <2>5 DEF ItemOK
<1>4. PICK q \in links : /\ Holds(its, Accepted(its), q[1]) /\ Holds(its, Accepted(its), q[2])
                         /\ r = <<TargetOf(its, at(q[1])), TargetOf(its, at(q[2]))>>
  BY DEF Linked
<1>5. KindOf(q[1]) = "thought" /\ KindOf(q[2]) = "term"
  BY DEF KindOf
<1>6. /\ at(q[1]) \in Accepted(its) /\ its[at(q[1])].kind = "thought"
      /\ at(q[2]) \in Accepted(its) /\ its[at(q[2])].kind = "term"
  BY <1>3, <1>4, <1>5
<1> HIDE DEF at, after
<1>7. QED
  BY <1>2, <1>4, <1>6 DEF after

LEMMA ApplyRows ==
    ASSUME TypeInv, NEW k \in Conspects, ApplyConspect(k)
    PROVE  ReviewRows' /\ GraphRows' /\ Extended(entities, entities')
<1> DEFINE its == items[k]
           after == Upserted(k, its)
<1>1. ApplyWrites(k)
  BY ApplyFacts
<1>0. /\ status \in [Conspects -> Statuses] /\ items \in [Conspects -> Seq(Item)]
      /\ links \subseteq (Candidates \ Terms) \X Terms /\ links' = links
      /\ \A l \in Conspects : ItemsOK(items[l], entities)
      /\ \A l \in Conspects : status[l] = "ready_to_apply" =>
            \A i \in DOMAIN items[l] : items[l][i].resolution # Pending
      /\ entities \in Seq(Entity) /\ revision \in Nat /\ exports \in Nat
      /\ relations \subseteq (DOMAIN entities) \X (DOMAIN entities)
      /\ \A r \in relations : entities[r[1]].kind = "thought" /\ entities[r[2]].kind = "term"
  BY <1>1 DEF TypeInv, ReviewRows, GraphRows, ApplyWrites
<1>2. CASE Accepted(its) = {}
  <2>1. status' = [status EXCEPT ![k] = "rejected"] /\ UNCHANGED <<items, graphVars>>
    BY <1>1, <1>2 DEF ApplyWrites
  <2>2. status' \in [Conspects -> Statuses]
    BY <1>0, <2>1, StatusesAre
  <2>3. \A l \in Conspects : status'[l] = "ready_to_apply" => status[l] = "ready_to_apply"
    BY <1>0, <2>1
  <2>4. entities' = entities /\ relations' = relations /\ revision' = revision /\ exports' = exports /\ items' = items
    BY <2>1 DEF graphVars
  <2>5. ReviewRows'
    BY <1>0, <2>2, <2>3, <2>4 DEF ReviewRows
  <2>6. GraphRows'
    BY <1>0, <2>4 DEF GraphRows
  <2>7. Extended(entities, entities')
    <3>1. Len(entities) \in Nat
      BY <1>0
    <3>2. QED
      BY <2>4, <3>1 DEF Extended
  <2>8. QED
    BY <2>5, <2>6, <2>7
<1>3. CASE Accepted(its) # {}
  <2>1. /\ status' = [status EXCEPT ![k] = "applied"]
        /\ items' = [items EXCEPT ![k] = AppliedItems(its)]
        /\ entities' = after
        /\ relations' = relations \cup Linked(its)
        /\ revision' = revision + 1
        /\ exports' = exports + 1
        /\ Applicable(its)
    BY <1>1, <1>3 DEF ApplyWrites
  <2>2. after \in Seq(Entity) /\ Extended(entities, after)
    BY <2>1, UpsertedFacts DEF IsUpsert
  <2>3. \A r \in Linked(its) : /\ r \in (DOMAIN after) \X (DOMAIN after)
                               /\ after[r[1]].kind = "thought" /\ after[r[2]].kind = "term"
    BY <1>0, <2>1, LinkedKinds
  <2>4. ItemsOK(AppliedItems(its), after)
    BY <2>1, AppliedItemsOK
  <2> HIDE DEF after, its
  <2>5. status' \in [Conspects -> Statuses]
    BY <1>0, <2>1, StatusesAre
  <2>6. items' \in [Conspects -> Seq(Item)]
    <3>1. AppliedItems(its) \in Seq(Item)
      BY <2>4 DEF ItemsOK
    <3>2. QED
      BY <1>0, <2>1, <3>1
  <2>7. ASSUME NEW l \in Conspects
        PROVE  /\ ItemsOK(items'[l], entities')
               /\ status'[l] = "ready_to_apply" =>
                     \A i \in DOMAIN items'[l] : items'[l][i].resolution # Pending
    <3>1. CASE l = k
      BY <1>0, <2>1, <2>4, <3>1
    <3>2. CASE l # k
      BY <1>0, <2>1, <2>2, <3>2, ItemsStayOK
    <3>3. QED
      BY <3>1, <3>2
  <2>8. ReviewRows'
    BY <1>0, <2>5, <2>6, <2>7 DEF ReviewRows
  <2>9. DOMAIN entities \subseteq DOMAIN after /\ \A e \in DOMAIN entities : after[e].kind = entities[e].kind
    BY <1>0, <2>2 DEF Extended
  <2>10. /\ relations' \subseteq (DOMAIN after) \X (DOMAIN after)
         /\ \A r \in relations' : after[r[1]].kind = "thought" /\ after[r[2]].kind = "term"
    <3>1. ASSUME NEW r \in relations
          PROVE  /\ r \in (DOMAIN after) \X (DOMAIN after)
                 /\ after[r[1]].kind = "thought" /\ after[r[2]].kind = "term"
      <4>1. r \in (DOMAIN entities) \X (DOMAIN entities)
        BY <1>0
      <4>2. r[1] \in DOMAIN entities /\ r[2] \in DOMAIN entities /\ r = <<r[1], r[2]>>
        BY <4>1
      <4>3. QED
        BY <1>0, <2>9, <4>2
    <3>2. QED
      BY <2>1, <2>3, <3>1
  <2>11. GraphRows'
    BY <1>0, <2>1, <2>2, <2>10 DEF GraphRows
  <2>12. QED
    BY <2>1, <2>2, <2>8, <2>11
<1>4. QED
  BY <1>2, <1>3

LEMMA CallsStep ==
    ASSUME TypeInv, [Next]_vars, entities' \in Seq(Entity), Extended(entities, entities')
    PROVE  Calls'
<1> DEFINE h == entities'
<1>0. entities \in Seq(Entity) /\ preparing \in [Preparers -> Call] /\ items \in [Conspects -> Seq(Item)]
  BY DEF TypeInv, GraphRows, Calls, ReviewRows
<1>1. ASSUME NEW call, CallOK(call, entities)
      PROVE  CallOK(call, h)
  <2>1. ItemsOK(call.items, h)
    BY <1>0, <1>1, ItemsStayOK DEF CallOK
  <2>2. Len(call.entities) <= Len(h)
    <3>1. call.entities \in Seq(Entity)
      BY <1>1 DEF CallOK, Call
    <3>2. Len(call.entities) \in Nat /\ Len(entities) \in Nat /\ Len(h) \in Nat
      BY <1>0, <3>1
    <3>3. QED
      BY <1>1, <3>2 DEF CallOK, Extended
  <2>3. QED
    BY <1>1, <2>1, <2>2 DEF CallOK
<1>2. \A p \in Preparers : CallOK(preparing[p], h)
  BY <1>1 DEF TypeInv, Calls
<1> HIDE DEF h
<1>3. CASE preparing' = preparing
  BY <1>0, <1>2, <1>3 DEF Calls, h
<1>4. ASSUME NEW p \in Preparers, NEW c, preparing' = [preparing EXCEPT ![p] = c], CallOK(c, h)
      PROVE  Calls'
  <2>1. c \in Call
    BY <1>4 DEF CallOK
  <2>2. preparing' \in [Preparers -> Call]
    BY <1>0, <1>4, <2>1
  <2>3. \A q \in Preparers : CallOK(preparing'[q], h)
    BY <1>0, <1>2, <1>4
  <2>4. QED
    BY <2>2, <2>3 DEF Calls, h
<1>5. ASSUME NEW p \in Preparers
      PROVE  /\ preparing[p] \in Call /\ CallOK(preparing[p], h) /\ CallOK(preparing[p], entities)
             /\ preparing[p].entities \in Seq(Entity) /\ preparing[p].items \in Seq(Item)
  BY <1>0, <1>2 DEF TypeInv, Calls, Call
<1>6. CallOK(Idle, h)
  BY IdleOK DEF h
<1>7. ASSUME NEW p \in Preparers, NEW k \in Conspects, Start(p, k)
      PROVE  Calls'
  <2> DEFINE x == [preparing[p] EXCEPT !.step = "check"]
             c == [x EXCEPT !.conspect = k]
  <2>1. preparing' = [preparing EXCEPT ![p] = c]
    BY <1>0, <1>7 DEF Start
  <2>2. /\ x \in Call /\ x.step = "check" /\ x.entities = preparing[p].entities
        /\ x.items = preparing[p].items
    BY <1>5 DEF Call, Steps
  <2> HIDE DEF x
  <2>3. /\ c \in Call /\ c.step = "check" /\ c.entities = preparing[p].entities
        /\ c.items = preparing[p].items /\ c.conspect = k
    BY <2>2 DEF Call
  <2>4. k # "none"
    BY ConspectsAssumption
  <2> HIDE DEF c
  <2>5. CallOK(c, h)
    BY <1>5, <2>3, <2>4 DEF CallOK
  <2>6. QED
    BY <1>4, <2>1, <2>5
<1>8. ASSUME NEW p \in Preparers, HandlerStep(p)
      PROVE  Calls'
  <2> DEFINE call == preparing[p]
  <2>1. CASE Check(p)
    <3>1. PICK s \in {"snapshot", "served"} : preparing' = [preparing EXCEPT ![p] = [call EXCEPT !.step = s]]
      BY <2>1 DEF Check
    <3> DEFINE c == [call EXCEPT !.step = s]
    <3>2. /\ c \in Call /\ c.step \notin {"idle", "extracting"} /\ c.entities = call.entities
          /\ c.items = call.items /\ c.conspect = call.conspect
      BY <1>5 DEF Call, Steps
    <3>3. call.step \notin {"idle", "extracting"}
      BY <2>1 DEF Check
    <3> HIDE DEF c
    <3>4. CallOK(c, h)
      BY <1>5, <3>2, <3>3 DEF CallOK
    <3>5. QED
      BY <1>4, <3>1, <3>4 DEF c
  <2>2. CASE Snapshot(p)
    <3> DEFINE x == [call EXCEPT !.step = "items"]
               c == [x EXCEPT !.entities = entities]
    <3>1. preparing' = [preparing EXCEPT ![p] = c]
      BY <1>0, <2>2 DEF Snapshot
    <3>2. x \in Call /\ x.step = "items" /\ x.items = call.items /\ x.conspect = call.conspect
      BY <1>5 DEF Call, Steps
    <3> HIDE DEF x
    <3>3. /\ c \in Call /\ c.step = "items" /\ c.entities = entities
          /\ c.items = call.items /\ c.conspect = call.conspect
      BY <1>0, <3>2 DEF Call
    <3>4. call.step \notin {"idle", "extracting"}
      BY <2>2 DEF Snapshot
    <3>5. Len(entities) <= Len(h)
      BY DEF Extended, h
    <3> HIDE DEF c
    <3>6. CallOK(c, h)
      BY <1>5, <3>3, <3>4, <3>5 DEF CallOK
    <3>7. QED
      BY <1>4, <3>1, <3>6
  <2>3. CASE PendingReviewItems(p)
    <3> DEFINE k == call.conspect
               read == IF status[k] \in Settled THEN <<>> ELSE items[k]
               x == [call EXCEPT !.step = "save"]
               c == [x EXCEPT !.items = read]
    <3>1. preparing' = [preparing EXCEPT ![p] = c]
      BY <1>0, <2>3 DEF PendingReviewItems
    <3>2. call.step \notin {"idle", "extracting"}
      BY <2>3 DEF PendingReviewItems
    <3>3. k \in Conspects
      BY <3>2, CallConspect
    <3>4. ItemsOK(read, h)
      <4>1. ItemsOK(items[k], entities)
        BY <3>3 DEF TypeInv, ReviewRows
      <4>2. ItemsOK(items[k], h)
        BY <1>0, <4>1, ItemsStayOK DEF h
      <4>3. ItemsOK(<<>>, h)
        BY DEF ItemsOK
      <4>4. QED
        BY <4>2, <4>3
    <3> HIDE DEF read
    <3>5. x \in Call /\ x.step = "save" /\ x.entities = call.entities /\ x.conspect = call.conspect
      BY <1>5 DEF Call, Steps
    <3> HIDE DEF x
    <3>6. read \in Seq(Item)
      BY <3>4 DEF ItemsOK
    <3>7. /\ c \in Call /\ c.step = "save" /\ c.entities = call.entities
          /\ c.items = read /\ c.conspect = call.conspect
      BY <3>5, <3>6 DEF Call
    <3> HIDE DEF c
    <3>8. CallOK(c, h)
      BY <1>5, <3>2, <3>4, <3>7 DEF CallOK
    <3>9. QED
      BY <1>4, <3>1, <3>8
  <2>4. CASE SavePreparedReview(p)
    <3> DEFINE k == call.conspect
               x == [Idle EXCEPT !.step = "served"]
               c == [x EXCEPT !.conspect = k]
    <3>1. SaveWrites(p, k)
      BY <2>4, SaveFacts
    <3>2. preparing' = [preparing EXCEPT ![p] = c] /\ k \in Conspects
      BY <3>1 DEF SaveWrites
    <3>3. Idle \in Call /\ ItemsOK(Idle.items, h) /\ Len(Idle.entities) <= Len(h)
      BY <1>6 DEF CallOK
    <3>4. x \in Call /\ x.step = "served" /\ x.items = Idle.items /\ x.entities = Idle.entities
      BY <3>3 DEF Call, Steps
    <3> HIDE DEF x, k
    <3>5. /\ c \in Call /\ c.step = "served" /\ c.items = Idle.items /\ c.entities = Idle.entities
          /\ c.conspect = k
      BY <3>2, <3>4 DEF Call
    <3>6. k # "none"
      BY <3>2, ConspectsAssumption
    <3> HIDE DEF c
    <3>7. CallOK(c, h)
      BY <3>3, <3>5, <3>6 DEF CallOK
    <3>8. QED
      BY <1>4, <3>2, <3>7
  <2>5. CASE Complete(p)
    BY <1>4, <1>6, <2>5 DEF Complete
  <2>6. QED
    BY <1>8, <2>1, <2>2, <2>3, <2>4, <2>5 DEF HandlerStep
<1>9. ASSUME NEW p \in Preparers, HandlerError(p)
      PROVE  Calls'
  BY <1>4, <1>6, <1>9 DEF HandlerError
<1>10. ASSUME NEW k \in Conspects, UserStep(k)
       PROVE  preparing' = preparing
  <2>1. CASE ApplyConspect(k) \/ ApplyConflict(k) \/ RetryFailedJob(k)
    BY <2>1 DEF ApplyConspect, ApplyConflict, RetryFailedJob, queueVars
  <2>2. ASSUME NEW i \in DOMAIN items[k], NEW r, NEW t, SaveReviewDecision(k, i, r, t)
        PROVE  preparing' = preparing
    BY <2>2 DEF SaveReviewDecision, queueVars
  <2>3. ASSUME NEW i \in DOMAIN items[k], NEW t, DecisionConflict(k, i, t)
        PROVE  preparing' = preparing
    BY <2>3 DEF DecisionConflict, queueVars
  <2>4. ASSUME NEW i \in DOMAIN items[k], NEW S, SplitReviewItem(k, i, S)
        PROVE  preparing' = preparing
    BY <2>4 DEF SplitReviewItem
  <2>5. QED
    BY <1>10, <2>1, <2>2, <2>3, <2>4 DEF UserStep
<1>11. ASSUME NEW k \in Conspects, Rematch(k)
       PROVE  preparing' = preparing
  BY <1>11 DEF Rematch
<1>12. CASE Restart
  <2>1. preparing' = [p \in Preparers |-> Idle]
    BY <1>12 DEF Restart
  <2>2. Idle \in Call
    BY <1>6 DEF CallOK
  <2>3. QED
    BY <1>6, <2>1, <2>2 DEF Calls, h
<1>13. CASE UNCHANGED vars
  BY <1>3, <1>13 DEF vars, queueVars
<1>14. ASSUME NEW p \in Preparers, Extract(p) \/ Extracted(p)
      PROVE  Calls'
  <2>1. AwayWrites(p)
    BY <1>14, AwayFacts
  <2>2. PICK c \in Call : preparing' = [preparing EXCEPT ![p] = c] /\ CallOK(c, entities)
    BY <2>1 DEF AwayWrites
  <2>3. entities' = entities
    BY <2>1 DEF AwayWrites, graphVars
  <2>4. CallOK(c, h)
    BY <2>2, <2>3 DEF h
  <2>5. QED
    BY <1>4, <2>2, <2>4
<1>15. QED
  BY <1>3, <1>7, <1>8, <1>9, <1>10, <1>11, <1>12, <1>13, <1>14 DEF Next

LEMMA TypeInvStep ==
    TypeInv /\ [Next]_vars => TypeInv'
<1> SUFFICES ASSUME TypeInv, [Next]_vars PROVE TypeInv'
  OBVIOUS
<1>1. QueueRows'
  BY QueueRowsStep
<1>2. ReviewRows' /\ GraphRows' /\ Extended(entities, entities')
  <2>1. CASE Untouched
    <3>1. ReviewRows'
      BY <2>1, ReviewRowsStep
    <3>2. GraphRows'
      BY <2>1 DEF TypeInv, GraphRows, Untouched, graphVars
    <3>3. entities \in Seq(Entity) /\ entities' = entities
      BY <2>1 DEF TypeInv, GraphRows, Untouched, graphVars
    <3>4. Extended(entities, entities')
      <4>1. Len(entities) \in Nat
        BY <3>3
      <4>2. QED
        BY <3>3, <4>1 DEF Extended
    <3>5. QED
      BY <3>1, <3>2, <3>4
  <2>2. ASSUME NEW k \in Conspects, ApplyConspect(k)
        PROVE  ReviewRows' /\ GraphRows' /\ Extended(entities, entities')
    BY <2>2, ApplyRows
  <2>3. QED
    BY <2>1, <2>2, GraphStep
<1>3. Calls'
  BY <1>2, CallsStep DEF GraphRows
<1>4. QED
  BY <1>1, <1>2, <1>3 DEF TypeInv

\* Every row and every call is in a state of its type, and what an item points
\* to exists, through preparations, decisions, splits, applications and restarts.
THEOREM ReviewTypeCorrect ==
    Spec => []TypeOK
<1>1. Init => TypeInv
  BY TypeInvInit
<1>2. TypeInv /\ [Next]_vars => TypeInv'
  BY TypeInvStep
<1>3. TypeInv => TypeOK
  BY TypeInvTypeOK
<1>4. QED
  BY <1>1, <1>2, <1>3, PTL DEF Spec

-----------------------------------------------------------------------------
(* A conspect in preparation has a job.                                    *)

LEMMA QueuedStep ==
    TypeInv /\ PreparationIsQueued /\ [Next]_vars => PreparationIsQueued'
<1> SUFFICES ASSUME TypeInv, PreparationIsQueued, [Next]_vars,
                    NEW l \in Conspects, status'[l] = "preparing_review"
             PROVE  \/ jobs'[l] > 0
                    \/ \E p \in Preparers : preparing'[p].conspect = l /\ preparing'[p].step # "served"
  BY DEF PreparationIsQueued
<1> DEFINE Goal == \/ jobs'[l] > 0
                   \/ \E p \in Preparers : preparing'[p].conspect = l /\ preparing'[p].step # "served"
<1>0. /\ status \in [Conspects -> Statuses]
      /\ jobs \in [Conspects -> Nat] /\ failedJobs \in [Conspects -> Nat]
      /\ preparing \in [Preparers -> Call]
      /\ jobs[l] \in Nat
  BY DEF TypeInv, ReviewRows, QueueRows, Calls
<1>c. ASSUME NEW p \in Preparers
      PROVE  preparing[p] \in Call /\ (preparing[p].conspect = "none" <=> preparing[p].step \in {"idle", "extracting"})
  BY DEF TypeInv, Calls, CallOK
<1>d. l # "none"
  BY ConspectsAssumption
<1>1. ASSUME status[l] = "preparing_review"
      PROVE  \/ jobs[l] > 0
             \/ \E p \in Preparers : preparing[p].conspect = l /\ preparing[p].step # "served"
  BY <1>1 DEF PreparationIsQueued
<1>2. ASSUME status[l] = "preparing_review", UNCHANGED <<jobs, preparing>>
      PROVE  Goal
  BY <1>1, <1>2
<1>3. ASSUME NEW k \in Conspects, jobs' = [jobs EXCEPT ![k] = @ + 1], preparing' = preparing,
             l = k \/ status[l] = "preparing_review"
      PROVE  Goal
  <2>1. CASE l = k
    <3>1. jobs'[l] = jobs[l] + 1
      BY <1>0, <1>3, <2>1
    <3>2. QED
      BY <1>0, <3>1
  <2>2. CASE l # k
    <3>1. jobs'[l] = jobs[l]
      BY <1>0, <1>3, <2>2
    <3>2. QED
      BY <1>1, <1>3, <2>2, <3>1
  <2>3. QED
    BY <2>1, <2>2
\* One worker's call changes: it is not the call of l that is to save, or it goes on.
<1>4. ASSUME NEW p \in Preparers, NEW c, preparing' = [preparing EXCEPT ![p] = c], jobs' = jobs,
             status[l] = "preparing_review",
             (preparing[p].conspect = l /\ preparing[p].step # "served") =>
                 c.conspect = l /\ c.step # "served"
      PROVE  Goal
  <2>1. \A q \in Preparers : q # p => preparing'[q] = preparing[q]
    BY <1>0, <1>4
  <2>2. preparing'[p] = c
    BY <1>0, <1>4
  <2>3. QED
    BY <1>1, <1>4, <2>1, <2>2
<1>5. ASSUME NEW p \in Preparers, HandlerStep(p)
      PROVE  Goal
  <2> DEFINE call == preparing[p]
             k == call.conspect
  <2>1. CASE Check(p)
    <3> DEFINE s == IF status[k] = "preparing_review" THEN "snapshot" ELSE "served"
               c == [call EXCEPT !.step = s]
    <3>1. preparing' = [preparing EXCEPT ![p] = c] /\ jobs' = jobs /\ status' = status
      BY <2>1 DEF Check, reviewVars
    <3>2. c.step = s /\ c.conspect = k
      BY <1>c DEF Call
    <3>3. k = l => s = "snapshot"
      BY <3>1
    <3> HIDE DEF s, c
    <3>4. QED
      BY <1>4, <3>1, <3>2, <3>3
  <2>2. CASE Snapshot(p)
    <3> DEFINE x == [call EXCEPT !.step = "items"]
               c == [x EXCEPT !.entities = entities]
    <3>1. preparing' = [preparing EXCEPT ![p] = c] /\ jobs' = jobs /\ status' = status
      BY <1>0, <2>2 DEF Snapshot, reviewVars
    <3>2. x \in [step : Steps, conspect : Conspects \cup {"none"}, entities : Seq(Entity), items : Seq(Item)]
          /\ x.step = "items" /\ x.conspect = k
      BY <1>c DEF Call, Steps
    <3> HIDE DEF x
    <3>3. c.step = "items" /\ c.conspect = k
      BY <3>2
    <3> HIDE DEF c
    <3>4. QED
      BY <1>4, <3>1, <3>3
  <2>3. CASE PendingReviewItems(p)
    <3> DEFINE x == [call EXCEPT !.step = "save"]
               c == [x EXCEPT !.items = IF status[k] \in Settled THEN <<>> ELSE items[k]]
    <3>1. preparing' = [preparing EXCEPT ![p] = c] /\ jobs' = jobs /\ status' = status
      BY <1>0, <2>3 DEF PendingReviewItems, reviewVars
    <3>2. x \in [step : Steps, conspect : Conspects \cup {"none"}, entities : Seq(Entity), items : Seq(Item)]
          /\ x.step = "save" /\ x.conspect = k
      BY <1>c DEF Call, Steps
    <3> HIDE DEF x
    <3>3. c.step = "save" /\ c.conspect = k
      BY <3>2
    <3> HIDE DEF c
    <3>4. QED
      BY <1>4, <3>1, <3>3
  <2>4. CASE SavePreparedReview(p)
    <3> DEFINE c == [Idle EXCEPT !.step = "served", !.conspect = k]
    <3>1. SaveWrites(p, k)
      BY <2>4, SaveFacts
    <3>2. preparing' = [preparing EXCEPT ![p] = c] /\ jobs' = jobs /\ k \in Conspects
      BY <3>1 DEF SaveWrites
    <3> HIDE DEF c
    <3>3. k # l
      <4> SUFFICES ASSUME k = l PROVE FALSE
        OBVIOUS
      <4>1. CASE status[k] = "preparing_review"
        <5>1. PICK new : status' = [status EXCEPT ![k] = ReviewState(new)]
          BY <3>1, <4>1 DEF SaveWrites
        <5>2. QED
          BY <1>0, <5>1, ReviewStateOf, StatusesAre
      <4>2. CASE status[k] # "preparing_review"
        BY <3>1, <4>2 DEF SaveWrites
      <4>3. QED
        BY <4>1, <4>2
    <3>4. status[l] = status'[l]
      <4>1. CASE status[k] = "preparing_review"
        <5>1. PICK new : status' = [status EXCEPT ![k] = ReviewState(new)]
          BY <3>1, <4>1 DEF SaveWrites
        <5>2. QED
          BY <1>0, <3>3, <5>1
      <4>2. CASE status[k] # "preparing_review"
        BY <3>1, <4>2 DEF SaveWrites
      <4>3. QED
        BY <4>1, <4>2
    <3>5. QED
      BY <1>4, <3>2, <3>3, <3>4
  <2>5. CASE Complete(p)
    <3>1. preparing' = [preparing EXCEPT ![p] = Idle] /\ jobs' = jobs /\ status' = status
          /\ call.step = "served"
      BY <2>5 DEF Complete, reviewVars
    <3>2. QED
      BY <1>4, <3>1
  <2>6. QED
    BY <1>5, <2>1, <2>2, <2>3, <2>4, <2>5 DEF HandlerStep
<1>6. ASSUME NEW p \in Preparers, HandlerError(p)
      PROVE  Goal
  <2> DEFINE k == preparing[p].conspect
  <2>1. preparing' = [preparing EXCEPT ![p] = Idle] /\ k \in Conspects
    <3>1. preparing[p].step \notin {"idle", "extracting"}
      BY <1>6 DEF HandlerError
    <3>2. QED
      BY <1>6, <3>1, CallConspect DEF HandlerError
  <2>2. \/ jobs' = [jobs EXCEPT ![k] = @ + 1] /\ status' = status
        \/ jobs' = jobs /\ status' = [status EXCEPT ![k] = IF @ = "preparing_review" THEN "failed" ELSE @]
    BY <1>6 DEF HandlerError
  <2>3. CASE k = l
    <3> HIDE DEF k
    <3>1. jobs' = [jobs EXCEPT ![k] = @ + 1]
      BY <1>0, <2>1, <2>2, <2>3
    <3>2. jobs'[l] = jobs[l] + 1
      BY <1>0, <2>3, <3>1
    <3>3. QED
      BY <1>0, <3>2
  <2>4. CASE k # l
    <3>1. jobs'[l] = jobs[l] /\ status[l] = "preparing_review"
      <4> HIDE DEF k
      <4>1. QED
        BY <1>0, <2>1, <2>2, <2>4
    <3>2. \A q \in Preparers : q # p => preparing'[q] = preparing[q]
      BY <1>0, <2>1
    <3>3. QED
      BY <1>1, <2>4, <3>1, <3>2
  <2>5. QED
    BY <2>3, <2>4
<1>7. ASSUME NEW k \in Conspects, UserStep(k)
      PROVE  Goal
  <2>1. CASE ApplyConspect(k)
    <3>1. UNCHANGED <<jobs, preparing>>
      BY <2>1 DEF ApplyConspect, queueVars
    <3>2. status[l] = "preparing_review"
      BY <1>0, <2>1, StatusesAre DEF ApplyConspect
    <3>3. QED
      BY <1>2, <3>1, <3>2
  <2>2. CASE ApplyConflict(k)
    <3>1. UNCHANGED <<jobs, preparing, status>>
      BY <2>2 DEF ApplyConflict, queueVars, reviewVars
    <3>2. QED
      BY <1>2, <3>1
  <2>3. CASE RetryFailedJob(k)
    <3>1. /\ jobs' = [jobs EXCEPT ![k] = @ + 1] /\ preparing' = preparing
          /\ status' = [status EXCEPT ![k] = IF @ = "failed" THEN "preparing_review" ELSE @]
      BY <2>3 DEF RetryFailedJob
    <3>2. l = k \/ status[l] = "preparing_review"
      BY <1>0, <3>1
    <3>3. QED
      BY <1>3, <3>1, <3>2
  <2>4. ASSUME NEW i \in DOMAIN items[k], NEW r \in Resolutions \ {Pending},
               NEW t \in 0..Len(entities), SaveReviewDecision(k, i, r, t)
        PROVE  Goal
    <3>1. PICK d, T : DecisionWrites(k, i, r, d, T)
      BY <2>4, DecisionFacts
    <3> DEFINE new == AfterDecision(items[k], i, d, r)
    <3>2. status' = [status EXCEPT ![k] = ReviewState(new)] /\ UNCHANGED <<jobs, preparing>>
      BY <3>1 DEF DecisionWrites, queueVars
    <3> HIDE DEF new
    <3>3. status[l] = "preparing_review"
      BY <1>0, <3>2, ReviewStateOf, StatusesAre
    <3>4. QED
      BY <1>2, <3>2, <3>3
  <2>5. ASSUME NEW i \in DOMAIN items[k], NEW t \in DOMAIN entities, DecisionConflict(k, i, t)
        PROVE  Goal
    <3>1. UNCHANGED <<jobs, preparing, status>>
      BY <2>5 DEF DecisionConflict, queueVars, reviewVars
    <3>2. QED
      BY <1>2, <3>1
  <2>6. ASSUME NEW i \in DOMAIN items[k], NEW S \in SUBSET Variants(items[k][i]),
               SplitReviewItem(k, i, S)
        PROVE  Goal
    <3>1. /\ jobs' = [jobs EXCEPT ![k] = @ + 1] /\ preparing' = preparing
          /\ status' = [status EXCEPT ![k] = "preparing_review"]
      BY <2>6 DEF SplitReviewItem
    <3>2. l = k \/ status[l] = "preparing_review"
      BY <1>0, <3>1
    <3>3. QED
      BY <1>3, <3>1, <3>2
  <2>7. QED
    BY <1>7, <2>1, <2>2, <2>3, <2>4, <2>5, <2>6 DEF UserStep
<1>8. ASSUME NEW k \in Conspects, Rematch(k)
      PROVE  Goal
  <2>1. CASE status[k] \in Editable
    <3>1. /\ jobs' = [jobs EXCEPT ![k] = @ + 1] /\ preparing' = preparing
          /\ status' = [status EXCEPT ![k] = "preparing_review"]
      BY <1>8, <2>1 DEF Rematch
    <3>2. l = k \/ status[l] = "preparing_review"
      BY <1>0, <3>1
    <3>3. QED
      BY <1>3, <3>1, <3>2
  <2>2. CASE status[k] \notin Editable
    BY <1>2, <1>8, <2>2 DEF Rematch
  <2>3. QED
    BY <2>1, <2>2
<1>9. ASSUME NEW k \in Conspects, NEW p \in Preparers, Start(p, k)
      PROVE  Goal
  <2> DEFINE x == [preparing[p] EXCEPT !.step = "check"]
             c == [x EXCEPT !.conspect = k]
  <2>1. /\ preparing' = [preparing EXCEPT ![p] = c] /\ status' = status
        /\ jobs' = [jobs EXCEPT ![k] = @ - 1] /\ preparing[p].step = "idle"
    BY <1>0, <1>9 DEF Start, reviewVars
  <2>2. x \in [step : Steps, conspect : Conspects \cup {"none"}, entities : Seq(Entity), items : Seq(Item)]
        /\ x.step = "check"
    BY <1>c DEF Call, Steps
  <2> HIDE DEF x
  <2>3. c.step = "check" /\ c.conspect = k
    BY <2>2
  <2> HIDE DEF c
  <2>4. preparing'[p].step = "check" /\ preparing'[p].conspect = k
    BY <1>0, <2>1, <2>3
  <2>5. CASE l = k
    BY <2>4, <2>5
  <2>6. CASE l # k
    <3>1. jobs'[l] = jobs[l]
      BY <1>0, <2>1, <2>6
    <3>2. \A q \in Preparers : q # p => preparing'[q] = preparing[q]
      BY <1>0, <2>1
    <3>3. preparing[p].conspect # l
      BY <1>c, <1>d, <2>1
    <3>4. QED
      BY <1>1, <2>1, <3>1, <3>2, <3>3
  <2>7. QED
    BY <2>5, <2>6
<1>10. CASE Restart
  <2> DEFINE Q == {p \in Preparers : preparing[p].conspect = l}
  <2>1. status[l] = "preparing_review" /\ jobs'[l] = jobs[l] + Cardinality(Q)
    BY <1>10 DEF Restart, reviewVars
  <2>2. IsFiniteSet(Q) /\ Cardinality(Q) \in Nat
    BY PreparersAssumption, FS_Subset, FS_CardinalityType
  <2>3. CASE Q = {}
    <3>1. Cardinality(Q) = 0
      BY <2>3, FS_EmptySet
    <3>2. jobs[l] > 0
      BY <1>1, <2>1, <2>3
    <3> HIDE DEF Q
    <3>3. QED
      BY <1>0, <2>1, <3>1, <3>2
  <2>4. CASE Q # {}
    <3> HIDE DEF Q
    <3>1. Cardinality(Q) # 0
      BY <2>2, <2>4, FS_EmptySet
    <3>2. QED
      BY <1>0, <2>1, <2>2, <3>1
  <2>5. QED
    BY <2>3, <2>4
<1>11. CASE UNCHANGED vars
  BY <1>2, <1>11 DEF vars, queueVars, reviewVars
<1>12. ASSUME NEW p \in Preparers, Extract(p) \/ Extracted(p)
      PROVE  Goal
  <2>1. AwayWrites(p)
    BY <1>12, AwayFacts
  <2>2. PICK c \in Call : preparing' = [preparing EXCEPT ![p] = c]
    BY <2>1 DEF AwayWrites
  <2>3. preparing[p].conspect # l /\ jobs' = jobs /\ status' = status
    BY <1>d, <2>1 DEF AwayWrites, reviewVars
  <2>4. QED
    BY <1>4, <2>2, <2>3
<1>13. QED
  BY <1>5, <1>6, <1>7, <1>8, <1>9, <1>10, <1>11, <1>12 DEF Next

\* A conspect in preparation always has a job that is still to be done, however
\* splits, rematches, failures, manual retries and restarts follow each other.
THEOREM PreparationHasAJob ==
    Spec => []PreparationIsQueued
<1>1. Init => TypeInv /\ PreparationIsQueued
  BY TypeInvInit DEF Init, PreparationIsQueued
<1>2. TypeInv /\ PreparationIsQueued /\ [Next]_vars => TypeInv' /\ PreparationIsQueued'
  BY TypeInvStep, QueuedStep
<1>3. QED
  BY <1>1, <1>2, PTL DEF Spec

-----------------------------------------------------------------------------
(* The graph: titles, versions and the abstract specification.             *)

\* An entity of version 1 after an application was there before, or is created.
LEMMA FirstVersions ==
    ASSUME NEW k \in Conspects, NEW its, Applicable(its),
           NEW e \in DOMAIN Upserted(k, its), Upserted(k, its)[e].version = 1
    PROVE  \/ e \in DOMAIN entities /\ Upserted(k, its)[e] = entities[e]
           \/ /\ Upserted(k, its)[e].by = k
              /\ \A f \in DOMAIN entities :
                    ~(/\ entities[f].kind = Upserted(k, its)[e].kind
                      /\ entities[f].title = Upserted(k, its)[e].title)
<1> DEFINE after == Upserted(k, its)
<1>1. /\ \A i \in Updates(its) :
            /\ its[i].target \in DOMAIN entities
            /\ after[its[i].target] =
                  [kind |-> its[i].kind, title |-> its[i].title, by |-> k,
                   version |-> entities[its[i].target].version + 1]
      /\ \A f \in DOMAIN entities : (\E i \in Updates(its) : its[i].target = f) \/ after[f] = entities[f]
      /\ \A f \in DOMAIN after \ DOMAIN entities : \E i \in Creates(its) :
            after[f] = [kind |-> its[i].kind, title |-> its[i].title, by |-> k, version |-> 1]
      /\ \A i \in Creates(its) : ~TitleTaken(its[i])
  <2>1. IsUpsert(k, its, after)
    BY UpsertedFacts
  <2> HIDE DEF after
  <2>2. QED
    BY <2>1 DEF IsUpsert
<1>2. entities \in Seq(Entity) /\ after[e].version = 1
  BY DEF Applicable
<1> HIDE DEF after
<1>3. CASE e \in DOMAIN entities
  <2>1. ASSUME NEW i \in Updates(its), its[i].target = e
        PROVE  FALSE
    <3>1. after[e] = [kind |-> its[i].kind, title |-> its[i].title, by |-> k,
                      version |-> entities[e].version + 1]
      BY <1>1, <2>1
    <3>2. after[e].version = entities[e].version + 1
      BY <3>1
    <3>3. entities[e] \in Entity
      BY <1>2, <1>3
    <3>4. entities[e].version \in Nat /\ entities[e].version # 0
      BY <3>3 DEF Entity
    <3>5. QED
      BY <1>2, <3>2, <3>4
  <2>2. after[e] = entities[e]
    BY <1>1, <1>3, <2>1
  <2>3. QED
    BY <1>3, <2>2 DEF after
<1>4. CASE e \notin DOMAIN entities
  <2>1. PICK i \in Creates(its) :
            after[e] = [kind |-> its[i].kind, title |-> its[i].title, by |-> k, version |-> 1]
    <3>1. e \in DOMAIN after \ DOMAIN entities
      BY <1>4 DEF after
    <3>2. QED
      BY <1>1, <3>1
  <2>2. after[e].kind = its[i].kind /\ after[e].title = its[i].title /\ after[e].by = k
    BY <2>1
  <2>3. its[i].resolution = "create" /\ ~TitleTaken(its[i])
    BY <1>1 DEF Creates
  <2>4. \A f \in DOMAIN entities : ~(entities[f].kind = its[i].kind /\ entities[f].title = its[i].title)
    BY <2>3 DEF TitleTaken
  <2>5. QED
    BY <2>2, <2>4 DEF after
<1>5. QED
  BY <1>3, <1>4

LEMMA TitlesStep ==
    TypeInv /\ CreatedTitlesDiffer /\ [Next]_vars => CreatedTitlesDiffer'
<1> SUFFICES ASSUME TypeInv, CreatedTitlesDiffer, [Next]_vars PROVE CreatedTitlesDiffer'
  OBVIOUS
<1>1. ASSUME entities' = entities
      PROVE  CreatedTitlesDiffer'
  BY <1>1 DEF CreatedTitlesDiffer
<1>2. CASE Untouched
  BY <1>1, <1>2 DEF Untouched, graphVars
<1>3. ASSUME NEW k \in Conspects, ApplyConspect(k)
      PROVE  CreatedTitlesDiffer'
  <2> DEFINE its == items[k]
             after == Upserted(k, its)
  <2>1. ApplyWrites(k)
    BY <1>3, ApplyFacts
  <2>2. CASE Accepted(its) = {}
    BY <1>1, <2>1, <2>2 DEF ApplyWrites, graphVars
  <2>3. CASE Accepted(its) # {}
    <3>1. entities' = after /\ Applicable(its)
      BY <2>1, <2>3 DEF ApplyWrites
    <3> HIDE DEF after
    <3> SUFFICES ASSUME NEW e \in DOMAIN after, NEW f \in DOMAIN after,
                        after[e].kind = after[f].kind, after[e].title = after[f].title,
                        after[e].version = 1, after[f].version = 1
                 PROVE  after[e].by = after[f].by
      BY <3>1 DEF CreatedTitlesDiffer
    <3>2. ASSUME NEW x \in {e, f}
          PROVE  \/ x \in DOMAIN entities /\ after[x] = entities[x]
                 \/ /\ after[x].by = k
                    /\ \A y \in DOMAIN entities :
                          ~(entities[y].kind = after[x].kind /\ entities[y].title = after[x].title)
      <4>1. x \in DOMAIN after /\ after[x].version = 1
        OBVIOUS
      <4>2. QED
        BY <3>1, <4>1, FirstVersions DEF after
    <3>3. CASE e \in DOMAIN entities /\ after[e] = entities[e] /\ f \in DOMAIN entities /\ after[f] = entities[f]
      BY <3>3 DEF CreatedTitlesDiffer
    <3>4. QED
      BY <3>2, <3>3
  <2>4. QED
    BY <2>2, <2>3
<1>4. QED
  BY <1>2, <1>3, GraphStep

\* Two conspects never create entities of one kind and title, in whatever order
\* they were prepared, decided and applied: the application looks at the graph
\* it writes to, not at what its preparation saw.
THEOREM CreatedTitlesAreNew ==
    Spec => []CreatedTitlesDiffer
<1>1. Init => TypeInv /\ CreatedTitlesDiffer
  <2>1. Init => CreatedTitlesDiffer
    BY GraphAssumption DEF Init, CreatedTitlesDiffer
  <2>2. QED
    BY <2>1, TypeInvInit
<1>2. TypeInv /\ CreatedTitlesDiffer /\ [Next]_vars => TypeInv' /\ CreatedTitlesDiffer'
  BY TypeInvStep, TitlesStep
<1>3. QED
  BY <1>1, <1>2, PTL DEF Spec

\* Item i of k has been applied as an update of version v of entity e.
UpdateOf(k, i, e, v) ==
    /\ status[k] = "applied"
    /\ i \in DOMAIN items[k]
    /\ items[k][i].resolution = "update"
    /\ items[k][i].target = e
    /\ items[k][i].version = v

\* The updates that were applied are of versions that are past, and each past
\* version of an entity has one.
VersionsInv ==
    /\ \A k \in Conspects : \A i, e, v : UpdateOf(k, i, e, v) =>
          e \in DOMAIN entities /\ v \in 1 .. entities[e].version - 1
    /\ \A e \in DOMAIN entities : \A v \in 1 .. entities[e].version - 1 :
          \E k \in Conspects : \E i : UpdateOf(k, i, e, v)
    /\ \A k, l \in Conspects : \A i, j, e, v :
          UpdateOf(k, i, e, v) /\ UpdateOf(l, j, e, v) => k = l /\ i = j

LEMMA VersionsInvIsSafe ==
    VersionsInv => NoLostUpdate
<1> SUFFICES ASSUME VersionsInv, NEW e \in DOMAIN entities, NEW v \in 1 .. entities[e].version - 1
             PROVE  Cardinality({u \in UNION {{k} \X (DOMAIN items[k]) : k \in Conspects} :
                        /\ status[u[1]] = "applied"
                        /\ LET item == items[u[1]][u[2]]
                           IN  /\ item.resolution = "update"
                               /\ item.target  = e
                               /\ item.version = v}) = 1
  BY DEF NoLostUpdate
<1> DEFINE All == UNION {{k} \X (DOMAIN items[k]) : k \in Conspects}
           U == {u \in All : /\ status[u[1]] = "applied"
                             /\ LET item == items[u[1]][u[2]]
                                IN  /\ item.resolution = "update"
                                    /\ item.target  = e
                                    /\ item.version = v}
<1>1. PICK k, i : k \in Conspects /\ UpdateOf(k, i, e, v)
  BY DEF VersionsInv
<1>2. <<k, i>> \in U
  <2>1. <<k, i>> \in All /\ <<k, i>>[1] = k /\ <<k, i>>[2] = i
    BY <1>1 DEF UpdateOf
  <2>2. QED
    BY <1>1, <2>1 DEF UpdateOf
<1>3. ASSUME NEW u \in U
      PROVE  u = <<k, i>>
  <2>1. PICK l \in Conspects : u \in {l} \X (DOMAIN items[l])
    OBVIOUS
  <2>2. u[1] = l /\ u[2] \in DOMAIN items[l] /\ u = <<l, u[2]>>
    BY <2>1
  <2>3. UpdateOf(l, u[2], e, v)
    BY <2>2 DEF UpdateOf
  <2>4. l = k /\ u[2] = i
    BY <1>1, <2>3 DEF VersionsInv
  <2>5. QED
    BY <2>2, <2>4
<1> HIDE DEF U
<1>4. U = {<<k, i>>}
  BY <1>2, <1>3
<1>5. Cardinality(U) = 1
  BY <1>4, FS_Singleton
<1>6. QED
  BY <1>5 DEF U

\* Once k is applied, its updates are those of its items.
LEMMA UpdatesOfApplied ==
    ASSUME TypeInv, NEW k \in Conspects, ApplyWrites(k), Accepted(items[k]) # {},
           NEW l \in Conspects, NEW i, NEW e, NEW v
    PROVE  UpdateOf(l, i, e, v)' <=>
              IF l = k THEN i \in Updates(items[k]) /\ items[k][i].target = e /\ items[k][i].version = v
                       ELSE UpdateOf(l, i, e, v)
<1> DEFINE its == items[k]
           new == AppliedItems(its)
<1>0. status \in [Conspects -> Statuses] /\ items \in [Conspects -> Seq(Item)]
  BY DEF TypeInv, ReviewRows
<1>1. /\ status' = [status EXCEPT ![k] = "applied"]
      /\ items' = [items EXCEPT ![k] = new]
      /\ Applicable(its)
  BY DEF ApplyWrites
<1>2. /\ DOMAIN new = DOMAIN its
      /\ \A j \in DOMAIN its : /\ new[j].resolution = its[j].resolution
                               /\ new[j].version = its[j].version
                               /\ j \in Updates(its) => new[j].target = its[j].target
  BY <1>1, AppliedItemsOK
<1> HIDE DEF new
<1>3. CASE l = k
  <2>1. status'[k] = "applied" /\ items'[k] = new
    BY <1>0, <1>1
  <2>2. i \in Updates(its) <=> i \in DOMAIN its /\ its[i].resolution = "update"
    BY DEF Updates
  <2> HIDE DEF its
  <2>3. UpdateOf(k, i, e, v)' <=> i \in Updates(its) /\ its[i].target = e /\ its[i].version = v
    BY <1>2, <2>1, <2>2 DEF UpdateOf
  <2>4. QED
    BY <1>3, <2>3 DEF its
<1>4. CASE l # k
  <2>1. status'[l] = status[l] /\ items'[l] = items[l]
    BY <1>0, <1>1, <1>4
  <2>2. QED
    BY <1>4, <2>1 DEF UpdateOf
<1>5. QED
  BY <1>3, <1>4

LEMMA VersionsStep ==
    TypeInv /\ VersionsInv /\ [Next]_vars => VersionsInv'
<1> SUFFICES ASSUME TypeInv, VersionsInv, [Next]_vars PROVE VersionsInv'
  OBVIOUS
<1>0. entities \in Seq(Entity)
  BY DEF TypeInv, GraphRows
<1>1. ASSUME entities' = entities,
             \A k \in Conspects : \A i, e, v : UpdateOf(k, i, e, v)' <=> UpdateOf(k, i, e, v)
      PROVE  VersionsInv'
  BY <1>1 DEF VersionsInv
<1>2. CASE Untouched
  <2>1. ASSUME NEW k \in Conspects, NEW i, NEW e, NEW v
        PROVE  UpdateOf(k, i, e, v)' <=> UpdateOf(k, i, e, v)
    <3>1. status[k] = "applied" \/ status'[k] = "applied" => status'[k] = status[k] /\ items'[k] = items[k]
      BY <1>2, StatusesAre DEF Untouched
    <3>2. QED
      BY <3>1 DEF UpdateOf
  <2>2. QED
    BY <1>1, <1>2, <2>1 DEF Untouched, graphVars
<1>3. ASSUME NEW k \in Conspects, ApplyConspect(k)
      PROVE  VersionsInv'
  <2> DEFINE its == items[k]
             after == Upserted(k, its)
             Up(i, e, v) == i \in Updates(its) /\ its[i].target = e /\ its[i].version = v
  <2>1. ApplyWrites(k)
    BY <1>3, ApplyFacts
  <2>2. CASE Accepted(its) = {}
    <3>1. entities' = entities /\ items' = items /\ status[k] = "ready_to_apply"
          /\ status' = [status EXCEPT ![k] = "rejected"] /\ status \in [Conspects -> Statuses]
      BY <2>1, <2>2 DEF ApplyWrites, graphVars, TypeInv, ReviewRows
    <3>2. ASSUME NEW l \in Conspects
          PROVE  status'[l] = "applied" <=> status[l] = "applied"
      BY <3>1
    <3>3. ASSUME NEW l \in Conspects, NEW i, NEW e, NEW v
          PROVE  UpdateOf(l, i, e, v)' <=> UpdateOf(l, i, e, v)
      BY <3>1, <3>2 DEF UpdateOf
    <3>4. QED
      BY <1>1, <3>1, <3>3
  <2>3. CASE Accepted(its) # {}
    <3>1. entities' = after /\ Applicable(its) /\ status[k] = "ready_to_apply"
      BY <2>1, <2>3 DEF ApplyWrites
    <3>2. \A l \in Conspects : \A i, e, v :
              UpdateOf(l, i, e, v)' <=> IF l = k THEN Up(i, e, v) ELSE UpdateOf(l, i, e, v)
      BY <2>1, <2>3, UpdatesOfApplied
    <3>3. IsUpsert(k, its, after)
      BY <3>1, UpsertedFacts
    <3>4. \A i, e, v : ~UpdateOf(k, i, e, v)
      BY <3>1 DEF UpdateOf
    <3> HIDE DEF after, its
    <3>5. /\ after \in Seq(Entity) /\ Extended(entities, after)
          /\ \A i, j \in Updates(its) : its[i].target = its[j].target => i = j
          /\ \A i \in Updates(its) :
                /\ its[i].target \in DOMAIN entities
                /\ its[i].version = entities[its[i].target].version
                /\ after[its[i].target].version = entities[its[i].target].version + 1
          /\ \A e \in DOMAIN entities : (\E i \in Updates(its) : its[i].target = e) \/ after[e] = entities[e]
          /\ \A e \in DOMAIN after \ DOMAIN entities : after[e].version = 1
      <4>1. \A e \in DOMAIN after \ DOMAIN entities : after[e].version = 1
        <5>1. \A e \in DOMAIN after \ DOMAIN entities : \E i \in Creates(its) :
                  after[e] = [kind |-> its[i].kind, title |-> its[i].title, by |-> k, version |-> 1]
          BY <3>3 DEF IsUpsert
        <5>2. QED
          BY <5>1
      <4>2. ASSUME NEW i \in Updates(its)
            PROVE  /\ its[i].target \in DOMAIN entities
                   /\ its[i].version = entities[its[i].target].version
                   /\ after[its[i].target].version = entities[its[i].target].version + 1
        <5>1. /\ its[i].target \in DOMAIN entities
              /\ its[i].version = entities[its[i].target].version
              /\ after[its[i].target] =
                    [kind |-> its[i].kind, title |-> its[i].title, by |-> k,
                     version |-> entities[its[i].target].version + 1]
          BY <3>3 DEF IsUpsert
        <5>2. QED
          BY <5>1
      <4>3. /\ after \in Seq(Entity) /\ Extended(entities, after)
            /\ \A i, j \in Updates(its) : its[i].target = its[j].target => i = j
            /\ \A e \in DOMAIN entities : (\E i \in Updates(its) : its[i].target = e) \/ after[e] = entities[e]
        BY <3>3 DEF IsUpsert
      <4>4. QED
        BY <4>1, <4>2, <4>3
    <3>6. DOMAIN entities \subseteq DOMAIN after
      BY <1>0, <3>5 DEF Extended
    <3>7. ASSUME NEW e \in DOMAIN entities
          PROVE  /\ entities[e].version \in Nat \ {0}
                 /\ \/ after[e].version = entities[e].version
                    \/ after[e].version = entities[e].version + 1
      <4>1. entities[e] \in Entity
        BY <1>0
      <4>2. QED
        BY <3>5, <4>1 DEF Entity
    <3>8. ASSUME NEW i, NEW e, NEW v, Up(i, e, v)
          PROVE  e \in DOMAIN entities /\ v = entities[e].version /\ after[e].version = v + 1 /\ v \in Nat \ {0}
      BY <3>5, <3>7, <3>8
    <3>9. ASSUME NEW l \in Conspects, NEW i, NEW e, NEW v, UpdateOf(l, i, e, v)
          PROVE  /\ l # k /\ e \in DOMAIN entities /\ v \in 1 .. entities[e].version - 1
                 /\ v # entities[e].version
      <4>1. l # k /\ e \in DOMAIN entities /\ v \in 1 .. entities[e].version - 1
        BY <3>4, <3>9 DEF VersionsInv
      <4>2. QED
        BY <3>7, <4>1
    <3>10. ASSUME NEW l \in Conspects, NEW i, NEW e, NEW v, UpdateOf(l, i, e, v)'
           PROVE  e \in DOMAIN after /\ v \in 1 .. after[e].version - 1
      <4>1. CASE l = k
        <5>1. Up(i, e, v)
          BY <3>2, <3>10, <4>1
        <5>2. e \in DOMAIN entities /\ after[e].version = v + 1 /\ v \in Nat \ {0}
          BY <3>8, <5>1
        <5>3. QED
          BY <3>6, <5>2
      <4>2. CASE l # k
        <5>1. e \in DOMAIN entities /\ v \in 1 .. entities[e].version - 1
          BY <3>2, <3>9, <3>10, <4>2
        <5>2. QED
          BY <3>6, <3>7, <5>1
      <4>3. QED
        BY <4>1, <4>2
    <3>11. ASSUME NEW e \in DOMAIN after, NEW v \in 1 .. after[e].version - 1
           PROVE  \E l \in Conspects : \E i : UpdateOf(l, i, e, v)'
      <4>1. e \in DOMAIN entities
        <5>1. after[e].version # 1
          OBVIOUS
        <5>2. QED
          BY <3>5, <5>1
      <4>2. CASE v \in 1 .. entities[e].version - 1
        <5>1. PICK l, i : l \in Conspects /\ UpdateOf(l, i, e, v)
          BY <4>1, <4>2 DEF VersionsInv
        <5>2. UpdateOf(l, i, e, v)'
          BY <3>2, <3>9, <5>1
        <5>3. QED
          BY <5>1, <5>2
      <4>3. CASE v \notin 1 .. entities[e].version - 1
        <5>1. v = entities[e].version /\ after[e].version # entities[e].version
          BY <3>7, <4>1, <4>3
        <5>2. PICK i \in Updates(its) : its[i].target = e
          BY <3>5, <4>1, <5>1
        <5>3. Up(i, e, v)
          BY <3>5, <5>1, <5>2
        <5>4. UpdateOf(k, i, e, v)'
          BY <3>2, <5>3
        <5>5. QED
          BY <5>4
      <4>4. QED
        BY <4>2, <4>3
    <3>12. ASSUME NEW l \in Conspects, NEW m \in Conspects, NEW i, NEW j, NEW e, NEW v,
                  UpdateOf(l, i, e, v)', UpdateOf(m, j, e, v)'
           PROVE  l = m /\ i = j
      <4>1. CASE l = k /\ m = k
        <5>1. Up(i, e, v) /\ Up(j, e, v)
          BY <3>2, <3>12, <4>1
        <5>2. QED
          BY <3>5, <4>1, <5>1
      <4>2. CASE l # k /\ m # k
        <5>1. UpdateOf(l, i, e, v) /\ UpdateOf(m, j, e, v)
          BY <3>2, <3>12, <4>2
        <5>2. QED
          BY <5>1 DEF VersionsInv
      <4>3. CASE l = k /\ m # k
        <5>1. Up(i, e, v) /\ UpdateOf(m, j, e, v)
          BY <3>2, <3>12, <4>3
        <5>2. QED
          BY <3>8, <3>9, <5>1
      <4>4. CASE l # k /\ m = k
        <5>1. Up(j, e, v) /\ UpdateOf(l, i, e, v)
          BY <3>2, <3>12, <4>4
        <5>2. QED
          BY <3>8, <3>9, <5>1
      <4>5. QED
        BY <4>1, <4>2, <4>3, <4>4
    <3>13. QED
      BY <3>1, <3>10, <3>11, <3>12 DEF VersionsInv
  <2>4. QED
    BY <2>2, <2>3
<1>4. QED
  BY <1>2, <1>3, GraphStep

\* No applied decision overwrites a change its user did not see: each past
\* version of an entity was the target of exactly one applied update.
THEOREM NoUpdateIsLost ==
    Spec => []NoLostUpdate
<1>1. Init => TypeInv /\ VersionsInv
  <2> SUFFICES ASSUME Init PROVE VersionsInv
    BY TypeInvInit
  <2>1. \A k \in Conspects : status[k] = "preparing_review"
    BY DEF Init
  <2>2. \A k \in Conspects : \A i, e, v : ~UpdateOf(k, i, e, v)
    BY <2>1 DEF UpdateOf
  <2>3. \A e \in DOMAIN entities : 1 .. entities[e].version - 1 = {}
    <3>1. \A e \in DOMAIN entities : entities[e].version = 1
      BY GraphAssumption DEF Init
    <3>2. QED
      BY <3>1
  <2>4. QED
    BY <2>2, <2>3 DEF VersionsInv
<1>2. TypeInv /\ VersionsInv /\ [Next]_vars => TypeInv' /\ VersionsInv'
  BY TypeInvStep, VersionsStep
<1>3. VersionsInv => NoLostUpdate
  BY VersionsInvIsSafe
<1>4. QED
  BY <1>1, <1>2, <1>3, PTL DEF Spec

\* An application is a commit of the abstract graph, or a discard.
LEMMA ApplicationIsACommit ==
    ASSUME TypeInv, NEW k \in Conspects, ApplyConspect(k)
    PROVE  Canonical!Next
<1> DEFINE its == items[k]
           after == Upserted(k, its)
<1>0. /\ status \in [Conspects -> Statuses] /\ entities \in Seq(Entity)
      /\ relations \subseteq (DOMAIN entities) \X (DOMAIN entities)
  BY DEF TypeInv, ReviewRows, GraphRows
<1>1. ApplyWrites(k)
  BY ApplyFacts
<1>2. status[k] = "ready_to_apply" /\ Outcome[k] = "open"
  BY <1>1, StatusesAre DEF ApplyWrites, Outcome
<1>3. ASSUME NEW s \in Settled, status' = [status EXCEPT ![k] = s]
      PROVE  Outcome' = [Outcome EXCEPT ![k] = s]
  <2>1. \A l \in Conspects : Outcome'[l] = IF l = k THEN s ELSE Outcome[l]
    BY <1>0, <1>3 DEF Outcome
  <2>2. Outcome' = [l \in Conspects |-> Outcome'[l]] /\ Outcome = [l \in Conspects |-> Outcome[l]]
    BY DEF Outcome
  <2> HIDE DEF Outcome
  <2>3. QED
    BY <2>1, <2>2
<1>4. CASE Accepted(its) = {}
  <2>1. status' = [status EXCEPT ![k] = "rejected"] /\ UNCHANGED <<entities, relations, revision, exports>>
    BY <1>1, <1>4 DEF ApplyWrites, graphVars
  <2>2. Outcome' = [Outcome EXCEPT ![k] = "rejected"]
    BY <1>3, <2>1, StatusesAre
  <2> HIDE DEF Outcome
  <2>3. Canonical!Discard(k)
    BY <1>2, <2>1, <2>2 DEF Canonical!Discard
  <2>4. QED
    BY <2>3 DEF Canonical!Next
<1>5. CASE Accepted(its) # {}
  <2>1. /\ status' = [status EXCEPT ![k] = "applied"]
        /\ entities' = after /\ relations' = relations \cup Linked(its)
        /\ revision' = revision + 1 /\ exports' = exports + 1
        /\ Applicable(its)
    BY <1>1, <1>5 DEF ApplyWrites
  <2>2. Outcome' = [Outcome EXCEPT ![k] = "applied"]
    BY <1>3, <2>1, StatusesAre
  <2>3. IsUpsert(k, its, after)
    BY <2>1, UpsertedFacts
  <2>4. GraphRows'
    BY ApplyRows
  <2> HIDE DEF Outcome, after, its
  <2>5. Len(after) >= Len(entities)
    <3>1. Len(entities) \in Nat /\ after \in Seq(Entity) /\ Len(entities) <= Len(after)
      BY <1>0, <2>3 DEF IsUpsert, Extended
    <3>2. Len(after) \in Nat
      BY <3>1
    <3>3. QED
      BY <3>1, <3>2
  <2>6. ASSUME NEW e \in DOMAIN entities
        PROVE  Canonical!Advanced(k, entities[e], after[e])
    <3>1. ASSUME NEW i \in Updates(its), its[i].target = e
          PROVE  Canonical!Advanced(k, entities[e], after[e])
      <4>1. after[e] = [kind |-> its[i].kind, title |-> its[i].title, by |-> k,
                        version |-> entities[e].version + 1]
        BY <2>3, <3>1 DEF IsUpsert
      <4>2. after[e].kind = entities[e].kind
        BY <2>3 DEF IsUpsert, Extended
      <4>3. after[e].version = entities[e].version + 1 /\ after[e].by = k
        BY <4>1
      <4>4. QED
        BY <4>2, <4>3 DEF Canonical!Advanced
    <3>2. (\E i \in Updates(its) : its[i].target = e) \/ after[e] = entities[e]
      BY <2>3 DEF IsUpsert
    <3>3. QED
      BY <3>1, <3>2 DEF Canonical!Advanced
  <2>7. ASSUME NEW e \in DOMAIN after \ DOMAIN entities
        PROVE  after[e].version = 1 /\ after[e].by = k
    <3>1. PICK i \in Creates(its) :
             after[e] = [kind |-> its[i].kind, title |-> its[i].title, by |-> k, version |-> 1]
      BY <2>3 DEF IsUpsert
    <3>2. QED
      BY <3>1
  <2>8. \A r \in relations' : entities'[r[1]].kind = "thought" /\ entities'[r[2]].kind = "term"
    BY <2>4 DEF GraphRows
  <2>9. Canonical!Commit(k)
    BY <1>2, <2>1, <2>2, <2>5, <2>6, <2>7, <2>8 DEF Canonical!Commit
  <2>10. QED
    BY <2>9 DEF Canonical!Next
<1>6. QED
  BY <1>4, <1>5

LEMMA CanonicalStep ==
    TypeInv /\ [Next]_vars => [Canonical!Next]_Canonical!graph
<1> SUFFICES ASSUME TypeInv, [Next]_vars PROVE [Canonical!Next]_Canonical!graph
  OBVIOUS
<1>1. CASE Untouched
  <2>1. \A k \in Conspects : Outcome'[k] = Outcome[k]
    BY <1>1 DEF Untouched, Outcome
  <2>2. Outcome' = [l \in Conspects |-> Outcome'[l]] /\ Outcome = [l \in Conspects |-> Outcome[l]]
    BY DEF Outcome
  <2>3. UNCHANGED <<entities, relations, revision, exports>>
    BY <1>1 DEF Untouched, graphVars
  <2> HIDE DEF Outcome
  <2>4. Outcome' = Outcome
    BY <2>1, <2>2
  <2>5. QED
    BY <2>3, <2>4 DEF Canonical!graph
<1>2. ASSUME NEW k \in Conspects, ApplyConspect(k)
      PROVE  Canonical!Next
  BY <1>2, ApplicationIsACommit
<1>3. QED
  BY <1>1, <1>2, GraphStep

\* Review implements CanonicalGraph: whatever is prepared, decided, split or
\* rematched, only the application of a conspect changes the graph, once, whole,
\* and over current versions.
THEOREM ReviewImplementsCanonicalGraph ==
    Spec => ImplementsCanonicalGraph
<1>1. Init => Canonical!Init
  <2> SUFFICES ASSUME Init PROVE Canonical!Init
    OBVIOUS
  <2>1. Outcome = [k \in Conspects |-> "open"]
    <3>1. \A k \in Conspects : status[k] \notin Settled
      BY StatusesAre DEF Init
    <3>2. QED
      BY <3>1 DEF Outcome
  <2>2. QED
    BY <2>1 DEF Init, Canonical!Init
<1>2. TypeInv /\ [Next]_vars => [Canonical!Next]_Canonical!graph
  BY CanonicalStep
<1>3. Init => TypeInv
  BY TypeInvInit
<1>4. TypeInv /\ [Next]_vars => TypeInv'
  BY TypeInvStep
<1>5. QED
  BY <1>1, <1>2, <1>3, <1>4, PTL DEF Spec, ImplementsCanonicalGraph, Canonical!Spec

-----------------------------------------------------------------------------
(* One preparation at a time, as long as the process is not restarted.     *)

\* The call of p prepares k and has not saved yet.
Busy(p, k) == preparing[p].conspect = k /\ preparing[p].step \notin {"idle", "served"}

\* A conspect in preparation has one job, or one call, or its job has failed,
\* and the call that is to save has read what is there.
SerialAt(k) ==
    /\ jobs[k] > 0 =>
          status[k] = "preparing_review" /\ jobs[k] = 1 /\ \A p \in Preparers : ~Busy(p, k)
    /\ failedJobs[k] > 0 => status[k] = "failed" /\ failedJobs[k] = 1
    /\ \A p \in Preparers : Busy(p, k) =>
          /\ status[k] = "preparing_review"
          /\ preparing[p].step = "save" => preparing[p].items = items[k]
          /\ \A q \in Preparers : Busy(q, k) => q = p

Serial == \A k \in Conspects : SerialAt(k)

LEMMA SerialInit ==
    Init => Serial
<1> SUFFICES ASSUME Init, NEW k \in Conspects PROVE SerialAt(k)
  BY DEF Serial
<1>1. \A p \in Preparers : preparing[p].step = "idle"
  BY DEF Init, Idle
<1>2. \A p \in Preparers : ~Busy(p, k)
  BY <1>1 DEF Busy
<1>3. status[k] = "preparing_review" /\ jobs[k] = 1 /\ failedJobs[k] = 0
  BY DEF Init
<1>4. QED
  BY <1>2, <1>3 DEF SerialAt

LEMMA SerialStep ==
    ASSUME MaxRestarts = 0
    PROVE  TypeInv /\ Serial /\ [Next]_vars => Serial'
<1> SUFFICES ASSUME TypeInv, Serial, [Next]_vars, NEW l \in Conspects PROVE SerialAt(l)'
  BY DEF Serial
<1>0. /\ status \in [Conspects -> Statuses] /\ items \in [Conspects -> Seq(Item)]
      /\ jobs \in [Conspects -> Nat] /\ failedJobs \in [Conspects -> Nat]
      /\ preparing \in [Preparers -> Call]
  BY DEF TypeInv, ReviewRows, QueueRows, Calls
<1>c. ASSUME NEW p \in Preparers
      PROVE  preparing[p] \in Call /\ (preparing[p].conspect = "none" <=> preparing[p].step \in {"idle", "extracting"})
  BY DEF TypeInv, Calls, CallOK
<1>a. ASSUME NEW k \in Conspects
      PROVE  /\ jobs[k] \in Nat /\ failedJobs[k] \in Nat
             /\ jobs[k] > 0 =>
                   status[k] = "preparing_review" /\ jobs[k] = 1 /\ \A p \in Preparers : ~Busy(p, k)
             /\ failedJobs[k] > 0 => status[k] = "failed" /\ failedJobs[k] = 1
             /\ \A p \in Preparers : Busy(p, k) =>
                   /\ status[k] = "preparing_review"
                   /\ preparing[p].step = "save" => preparing[p].items = items[k]
                   /\ \A q \in Preparers : Busy(q, k) => q = p
  BY <1>0 DEF Serial, SerialAt
\* A step that is not about the queue and leaves l in preparation or out of it.
<1>1. ASSUME jobs'[l] = jobs[l], failedJobs'[l] = failedJobs[l], preparing' = preparing,
             \/ status'[l] = status[l] /\ items'[l] = items[l]
             \/ status[l] \notin {"preparing_review", "failed"}
      PROVE  SerialAt(l)'
  <2>1. \A p \in Preparers : Busy(p, l)' <=> Busy(p, l)
    BY <1>1 DEF Busy
  <2>2. QED
    BY <1>1, <1>a, <2>1 DEF SerialAt
\* The preparation of l begins.
<1>2. ASSUME jobs'[l] = jobs[l] + 1, preparing' = preparing, status[l] # "preparing_review",
             status'[l] = "preparing_review", failedJobs'[l] = 0
      PROVE  SerialAt(l)'
  <2>1. \A p \in Preparers : ~Busy(p, l)'
    <3>1. \A p \in Preparers : ~Busy(p, l)
      BY <1>2, <1>a
    <3>2. QED
      BY <1>2, <3>1 DEF Busy
  <2>2. jobs'[l] = 1
    BY <1>2, <1>a
  <2>3. QED
    BY <1>2, <2>1, <2>2 DEF SerialAt
\* The call of p becomes c and the rest stays.
<1>3. ASSUME NEW p \in Preparers, NEW c, preparing' = [preparing EXCEPT ![p] = c],
             jobs'[l] = jobs[l], failedJobs'[l] = failedJobs[l],
             status'[l] = status[l], items'[l] = items[l],
             c.conspect = l /\ c.step \notin {"idle", "served"} =>
                Busy(p, l) /\ (c.step = "save" => c.items = items[l])
      PROVE  SerialAt(l)'
  <2>1. preparing'[p] = c /\ \A q \in Preparers : q # p => preparing'[q] = preparing[q]
    BY <1>0, <1>3
  <2>2. \A q \in Preparers : q # p => (Busy(q, l)' <=> Busy(q, l))
    BY <2>1 DEF Busy
  <2>3. Busy(p, l)' => Busy(p, l) /\ (preparing'[p].step = "save" => preparing'[p].items = items[l])
    BY <1>3, <2>1 DEF Busy
  <2>4. \A q \in Preparers : Busy(q, l)' => Busy(q, l)
    BY <2>2, <2>3
  <2>5. ASSUME NEW q \in Preparers, Busy(q, l)'
        PROVE  /\ status'[l] = "preparing_review"
               /\ preparing'[q].step = "save" => preparing'[q].items = items'[l]
               /\ \A s \in Preparers : Busy(s, l)' => s = q
    BY <1>3, <1>a, <2>1, <2>3, <2>4, <2>5
  <2>6. /\ jobs'[l] > 0 =>
              status'[l] = "preparing_review" /\ jobs'[l] = 1 /\ \A q \in Preparers : ~Busy(q, l)'
        /\ failedJobs'[l] > 0 => status'[l] = "failed" /\ failedJobs'[l] = 1
    BY <1>3, <1>a, <2>4
  <2>7. QED
    BY <2>5, <2>6 DEF SerialAt
<1>4. ASSUME NEW p \in Preparers, HandlerStep(p)
      PROVE  SerialAt(l)'
  <2> DEFINE call == preparing[p]
             k == call.conspect
  <2>1. CASE Check(p)
    <3> DEFINE s == IF status[k] = "preparing_review" THEN "snapshot" ELSE "served"
               c == [call EXCEPT !.step = s]
    <3>1. /\ preparing' = [preparing EXCEPT ![p] = c] /\ jobs' = jobs /\ failedJobs' = failedJobs
          /\ status' = status /\ items' = items /\ call.step = "check"
      BY <2>1 DEF Check, reviewVars
    <3>2. c.step = s /\ c.conspect = k /\ s # "save"
      BY <1>c DEF Call
    <3> HIDE DEF s, c
    <3>3. k = l => Busy(p, l)
      BY <3>1 DEF Busy
    <3>4. QED
      BY <1>3, <3>1, <3>2, <3>3
  <2>2. CASE Snapshot(p)
    <3> DEFINE x == [call EXCEPT !.step = "items"]
               c == [x EXCEPT !.entities = entities]
    <3>1. /\ preparing' = [preparing EXCEPT ![p] = c] /\ jobs' = jobs /\ failedJobs' = failedJobs
          /\ status' = status /\ items' = items /\ call.step = "snapshot"
      BY <1>0, <2>2 DEF Snapshot, reviewVars
    <3>2. x \in [step : Steps, conspect : Conspects \cup {"none"}, entities : Seq(Entity), items : Seq(Item)]
          /\ x.step = "items" /\ x.conspect = k
      BY <1>c DEF Call, Steps
    <3> HIDE DEF x
    <3>3. c.step = "items" /\ c.conspect = k
      BY <3>2
    <3> HIDE DEF c
    <3>4. k = l => Busy(p, l)
      BY <3>1 DEF Busy
    <3>5. QED
      BY <1>3, <3>1, <3>3, <3>4
  <2>3. CASE PendingReviewItems(p)
    <3> DEFINE x == [call EXCEPT !.step = "save"]
               its == IF status[k] \in Settled THEN <<>> ELSE items[k]
               c == [x EXCEPT !.items = its]
    <3>1. /\ preparing' = [preparing EXCEPT ![p] = c] /\ jobs' = jobs /\ failedJobs' = failedJobs
          /\ status' = status /\ items' = items /\ call.step = "items"
      BY <1>0, <2>3 DEF PendingReviewItems, reviewVars
    <3>2. x \in [step : Steps, conspect : Conspects \cup {"none"}, entities : Seq(Entity), items : Seq(Item)]
          /\ x.step = "save" /\ x.conspect = k
      BY <1>c DEF Call, Steps
    <3>3. k = l => Busy(p, l)
      BY <3>1 DEF Busy
    <3>4. k = l => its = items[l]
      BY <1>a, <3>3, StatusesAre
    <3> HIDE DEF x, its
    <3>5. c.step = "save" /\ c.conspect = k /\ c.items = its
      BY <3>2
    <3> HIDE DEF c
    <3>6. QED
      BY <1>3, <3>1, <3>3, <3>4, <3>5
  <2>4. CASE SavePreparedReview(p)
    <3> DEFINE c == [Idle EXCEPT !.step = "served", !.conspect = k]
    <3>1. SaveWrites(p, k) /\ call.step = "save"
      BY <2>4, SaveFacts DEF SavePreparedReview
    <3>2. /\ preparing' = [preparing EXCEPT ![p] = c] /\ jobs' = jobs /\ failedJobs' = failedJobs
          /\ k \in Conspects
      BY <3>1 DEF SaveWrites
    <3>3. c.step = "served"
      BY DEF Idle
    <3> HIDE DEF c
    <3>4. CASE k = l
      <4>1. Busy(p, l)
        BY <3>1, <3>4 DEF Busy
      <4>2. ASSUME NEW q \in Preparers
            PROVE  ~Busy(q, l)'
        <5>1. CASE q = p
          <6>1. preparing'[q] = c
            BY <1>0, <3>2, <5>1
          <6>2. QED
            BY <3>3, <6>1 DEF Busy
        <5>2. CASE q # p
          <6>1. preparing'[q] = preparing[q]
            BY <1>0, <3>2, <5>2
          <6>2. ~Busy(q, l)
            BY <1>a, <4>1, <5>2
          <6>3. QED
            BY <6>1, <6>2 DEF Busy
        <5>3. QED
          BY <5>1, <5>2
      <4>3. jobs'[l] = 0 /\ failedJobs'[l] = 0
        BY <1>a, <3>2, <4>1
      <4>4. QED
        BY <4>2, <4>3 DEF SerialAt
    <3>5. CASE k # l
      <4>1. status'[l] = status[l] /\ items'[l] = items[l]
        <5>1. CASE status[k] = "preparing_review"
          <6>1. PICK new : /\ items' = [items EXCEPT ![k] = new]
                           /\ status' = [status EXCEPT ![k] = ReviewState(new)]
            BY <3>1, <5>1 DEF SaveWrites
          <6>2. QED
            BY <1>0, <3>5, <6>1
        <5>2. CASE status[k] # "preparing_review"
          BY <3>1, <5>2 DEF SaveWrites
        <5>3. QED
          BY <5>1, <5>2
      <4>2. QED
        BY <1>3, <3>2, <3>3, <4>1
    <3>6. QED
      BY <3>4, <3>5
  <2>5. CASE Complete(p)
    <3>1. /\ preparing' = [preparing EXCEPT ![p] = Idle] /\ jobs' = jobs /\ failedJobs' = failedJobs
          /\ status' = status /\ items' = items
      BY <2>5 DEF Complete, reviewVars
    <3>2. Idle.step = "idle"
      BY DEF Idle
    <3>3. QED
      BY <1>3, <3>1, <3>2
  <2>6. QED
    BY <1>4, <2>1, <2>2, <2>3, <2>4, <2>5 DEF HandlerStep
<1>5. ASSUME NEW p \in Preparers, HandlerError(p)
      PROVE  SerialAt(l)'
  <2> DEFINE k == preparing[p].conspect
  <2>1. /\ preparing' = [preparing EXCEPT ![p] = Idle] /\ k \in Conspects /\ items' = items
        /\ preparing[p].step \notin {"idle", "served"}
    <3>1. preparing[p].step \notin {"idle", "extracting"}
      BY <1>5 DEF HandlerError
    <3>2. QED
      BY <1>5, <3>1, CallConspect DEF HandlerError
  <2>2. \/ /\ jobs' = [jobs EXCEPT ![k] = @ + 1]
           /\ UNCHANGED <<status, failedJobs>>
        \/ /\ failedJobs' = [failedJobs EXCEPT ![k] = @ + 1]
           /\ status' = [status EXCEPT ![k] = IF @ = "preparing_review" THEN "failed" ELSE @]
           /\ UNCHANGED jobs
    BY <1>5 DEF HandlerError
  <2>3. Idle.step = "idle"
    BY DEF Idle
  <2>4. Busy(p, k)
    BY <2>1 DEF Busy
  <2> HIDE DEF k
  <2>5. CASE k = l
    <3>1. ASSUME NEW q \in Preparers
          PROVE  ~Busy(q, l)'
      <4>1. CASE q = p
        <5>1. preparing'[q] = Idle
          BY <1>0, <2>1, <4>1
        <5>2. QED
          BY <2>3, <5>1 DEF Busy
      <4>2. CASE q # p
        <5>1. preparing'[q] = preparing[q]
          BY <1>0, <2>1, <4>2
        <5>2. ~Busy(q, l)
          BY <1>a, <2>4, <2>5, <4>2
        <5>3. QED
          BY <5>1, <5>2 DEF Busy
      <4>3. QED
        BY <4>1, <4>2
    <3>2. jobs[l] = 0 /\ failedJobs[l] = 0 /\ status[l] = "preparing_review"
      BY <1>a, <2>4, <2>5
    <3>3. \/ jobs'[l] = 1 /\ failedJobs'[l] = 0 /\ status'[l] = "preparing_review"
          \/ jobs'[l] = 0 /\ failedJobs'[l] = 1 /\ status'[l] = "failed"
      BY <1>0, <2>2, <2>5, <3>2
    <3>4. QED
      BY <3>1, <3>3 DEF SerialAt
  <2>6. CASE k # l
    <3>1. jobs'[l] = jobs[l] /\ failedJobs'[l] = failedJobs[l] /\ status'[l] = status[l]
      BY <1>0, <2>1, <2>2, <2>6
    <3>2. QED
      BY <1>3, <2>1, <2>3, <3>1
  <2>7. QED
    BY <2>5, <2>6
<1>6. ASSUME NEW k \in Conspects, UserStep(k)
      PROVE  SerialAt(l)'
  <2>1. CASE ApplyConspect(k)
    <3>1. UNCHANGED <<jobs, failedJobs, preparing>>
      BY <2>1 DEF ApplyConspect, queueVars
    <3>2. CASE l = k
      BY <1>1, <2>1, <3>1, <3>2 DEF ApplyConspect
    <3>3. CASE l # k
      <4>1. ApplyWrites(k)
        BY <2>1, ApplyFacts
      <4>2. PICK s, new : /\ status' = [status EXCEPT ![k] = s]
                          /\ items' = items \/ items' = [items EXCEPT ![k] = new]
        BY <4>1 DEF ApplyWrites
      <4>3. status'[l] = status[l] /\ items'[l] = items[l]
        BY <1>0, <3>3, <4>2
      <4>4. QED
        BY <1>1, <3>1, <4>3
    <3>4. QED
      BY <3>2, <3>3
  <2>2. CASE ApplyConflict(k)
    BY <1>1, <2>2 DEF ApplyConflict, queueVars, reviewVars
  <2>3. CASE RetryFailedJob(k)
    <3>1. /\ failedJobs[k] > 0 /\ failedJobs' = [failedJobs EXCEPT ![k] = @ - 1]
          /\ jobs' = [jobs EXCEPT ![k] = @ + 1] /\ preparing' = preparing /\ items' = items
          /\ status' = [status EXCEPT ![k] = IF @ = "failed" THEN "preparing_review" ELSE @]
      BY <2>3 DEF RetryFailedJob
    <3>2. CASE l = k
      <4>1. status[l] = "failed" /\ failedJobs[l] = 1
        BY <1>a, <3>1, <3>2
      <4>2. jobs'[l] = jobs[l] + 1 /\ failedJobs'[l] = 0 /\ status'[l] = "preparing_review"
        BY <1>0, <3>1, <3>2, <4>1
      <4>3. QED
        BY <1>2, <3>1, <4>1, <4>2
    <3>3. CASE l # k
      BY <1>0, <1>1, <3>1, <3>3
    <3>4. QED
      BY <3>2, <3>3
  <2>4. ASSUME NEW i \in DOMAIN items[k], NEW r \in Resolutions \ {Pending},
               NEW t \in 0..Len(entities), SaveReviewDecision(k, i, r, t)
        PROVE  SerialAt(l)'
    <3>1. PICK d, T : DecisionWrites(k, i, r, d, T)
      BY <2>4, DecisionFacts
    <3> DEFINE new == AfterDecision(items[k], i, d, r)
    <3>2. /\ status' = [status EXCEPT ![k] = ReviewState(new)] /\ items' = [items EXCEPT ![k] = new]
          /\ status[k] \in Editable /\ UNCHANGED <<jobs, failedJobs, preparing>>
      BY <3>1 DEF DecisionWrites, queueVars
    <3> HIDE DEF new
    <3>3. CASE l = k
      BY <1>1, <3>2, <3>3, StatusesAre
    <3>4. CASE l # k
      BY <1>0, <1>1, <3>2, <3>4
    <3>5. QED
      BY <3>3, <3>4
  <2>5. ASSUME NEW i \in DOMAIN items[k], NEW t \in DOMAIN entities, DecisionConflict(k, i, t)
        PROVE  SerialAt(l)'
    BY <1>1, <2>5 DEF DecisionConflict, queueVars, reviewVars
  <2>6. ASSUME NEW i \in DOMAIN items[k], NEW S \in SUBSET Variants(items[k][i]),
               SplitReviewItem(k, i, S)
        PROVE  SerialAt(l)'
    <3>1. PICK rest, part : SplitWrites(k, i, rest, part)
      BY <2>6, SplitFacts
    <3> DEFINE new == SplitItems(items[k], i, rest, part)
    <3>2. /\ status' = [status EXCEPT ![k] = "preparing_review"] /\ items' = [items EXCEPT ![k] = new]
          /\ jobs' = [jobs EXCEPT ![k] = @ + 1] /\ UNCHANGED <<failedJobs, preparing>>
          /\ status[k] \in Editable
      BY <3>1 DEF SplitWrites
    <3> HIDE DEF new
    <3>3. CASE l = k
      <4>1. /\ jobs'[l] = jobs[l] + 1 /\ status'[l] = "preparing_review"
            /\ status[l] # "preparing_review" /\ status[l] # "failed"
        BY <1>0, <3>2, <3>3, StatusesAre
      <4>2. failedJobs'[l] = 0
        BY <1>a, <3>2, <4>1
      <4>3. QED
        BY <1>2, <3>2, <4>1, <4>2
    <3>4. CASE l # k
      BY <1>0, <1>1, <3>2, <3>4
    <3>5. QED
      BY <3>3, <3>4
  <2>7. QED
    BY <1>6, <2>1, <2>2, <2>3, <2>4, <2>5, <2>6 DEF UserStep
<1>7. ASSUME NEW k \in Conspects, Rematch(k)
      PROVE  SerialAt(l)'
  <2>1. CASE status[k] \in Editable
    <3>1. PICK new : /\ status' = [status EXCEPT ![k] = "preparing_review"]
                     /\ items' = [items EXCEPT ![k] = new]
                     /\ jobs' = [jobs EXCEPT ![k] = @ + 1] /\ UNCHANGED <<failedJobs, preparing>>
      BY <1>7, <2>1 DEF Rematch
    <3>2. CASE l = k
      <4>1. /\ jobs'[l] = jobs[l] + 1 /\ status'[l] = "preparing_review"
            /\ status[l] # "preparing_review" /\ status[l] # "failed"
        BY <1>0, <2>1, <3>1, <3>2, StatusesAre
      <4>2. failedJobs'[l] = 0
        BY <1>a, <3>1, <4>1
      <4>3. QED
        BY <1>2, <3>1, <4>1, <4>2
    <3>3. CASE l # k
      BY <1>0, <1>1, <3>1, <3>3
    <3>4. QED
      BY <3>2, <3>3
  <2>2. CASE status[k] \notin Editable
    BY <1>1, <1>7, <2>2 DEF Rematch
  <2>3. QED
    BY <2>1, <2>2
<1>8. ASSUME NEW k \in Conspects, NEW p \in Preparers, Start(p, k)
      PROVE  SerialAt(l)'
  <2> DEFINE x == [preparing[p] EXCEPT !.step = "check"]
             c == [x EXCEPT !.conspect = k]
  <2>1. /\ preparing' = [preparing EXCEPT ![p] = c] /\ status' = status /\ items' = items
        /\ jobs' = [jobs EXCEPT ![k] = @ - 1] /\ jobs[k] > 0 /\ failedJobs' = failedJobs
    BY <1>0, <1>8 DEF Start, reviewVars
  <2>2. x \in [step : Steps, conspect : Conspects \cup {"none"}, entities : Seq(Entity), items : Seq(Item)]
        /\ x.step = "check"
    BY <1>c DEF Call, Steps
  <2> HIDE DEF x
  <2>3. c.step = "check" /\ c.conspect = k
    BY <2>2
  <2> HIDE DEF c
  <2>4. CASE l = k
    <3>1. jobs[l] = 1 /\ status[l] = "preparing_review" /\ \A q \in Preparers : ~Busy(q, l)
      BY <1>a, <2>1, <2>4
    <3>2. jobs'[l] = 0 /\ failedJobs'[l] = 0
      <4>1. jobs'[l] = jobs[l] - 1 /\ failedJobs'[l] = failedJobs[l]
        BY <1>0, <2>1, <2>4
      <4>2. failedJobs[l] \in Nat /\ ~(failedJobs[l] > 0)
        BY <1>a, <3>1
      <4>3. QED
        BY <3>1, <4>1, <4>2
    <3>3. preparing'[p] = c /\ \A q \in Preparers : q # p => preparing'[q] = preparing[q]
      BY <1>0, <2>1
    <3>4. \A q \in Preparers : q # p => ~Busy(q, l)'
      BY <3>1, <3>3 DEF Busy
    <3>5. \A q \in Preparers : Busy(q, l)' => q = p /\ preparing'[q].step # "save"
      BY <2>3, <3>3, <3>4
    <3>6. QED
      BY <2>1, <3>1, <3>2, <3>5 DEF SerialAt
  <2>5. CASE l # k
    BY <1>0, <1>3, <2>1, <2>3, <2>5
  <2>6. QED
    BY <2>4, <2>5
<1>9. CASE Restart
  <2>1. restarts < 0 /\ restarts \in 0..0
    BY <1>9 DEF Restart, TypeInv, QueueRows
  <2>2. QED
    BY <2>1
<1>10. CASE UNCHANGED vars
  BY <1>1, <1>10 DEF vars, queueVars, reviewVars
<1>11. ASSUME NEW p \in Preparers, Extract(p) \/ Extracted(p)
      PROVE  SerialAt(l)'
  <2>1. AwayWrites(p)
    BY <1>11, AwayFacts
  <2>2. PICK c \in Call : preparing' = [preparing EXCEPT ![p] = c] /\ c.conspect = "none"
    BY <2>1 DEF AwayWrites
  <2>3. UNCHANGED <<status, items, jobs, failedJobs>> /\ l # "none"
    BY <2>1, ConspectsAssumption DEF AwayWrites, reviewVars
  <2>4. QED
    BY <1>3, <2>2, <2>3
<1>12. QED
  BY <1>4, <1>5, <1>6, <1>7, <1>8, <1>9, <1>10, <1>11 DEF Next

-----------------------------------------------------------------------------
(* What a step does to the items, while one preparation runs at a time.    *)

\* The items stay, perhaps with decisions taken back.
ItemsKept(its, new) ==
    /\ SameVariants(its, new)
    /\ \A j \in DOMAIN its : new[j].resolution \in {its[j].resolution, Pending}

\* Items that were made of the candidates of k.
Made(k, new) == Fresh(new) /\ Shared(new, ToSet(CandidatesOf[k]))

\* Items that were prepared again.
Reprepared(its, new) ==
    /\ DOMAIN new = DOMAIN its
    /\ \A i \in DOMAIN its : new[i] = [its[i] EXCEPT !.exact = new[i].exact]
    /\ ItemsKept(its, new)

LEMMA SavedItems ==
    ASSUME TypeInv, Serial, NEW p \in Preparers, SavePreparedReview(p), NEW k,
           k = preparing[p].conspect
    PROVE  /\ k \in Conspects /\ status[k] = "preparing_review" /\ links' = links
           /\ \E new : /\ items' = [items EXCEPT ![k] = new]
                       /\ status' = [status EXCEPT ![k] = ReviewState(new)]
                       /\ IF items[k] = <<>> THEN Made(k, new) ELSE Reprepared(items[k], new)
<1> DEFINE call == preparing[p]
<1>1. SaveWrites(p, k) /\ call.step = "save"
  BY SaveFacts DEF SavePreparedReview
<1>2. k \in Conspects /\ links' = links
  BY <1>1 DEF SaveWrites
<1>3. Busy(p, k)
  BY <1>1 DEF Busy
<1>4. status[k] = "preparing_review" /\ call.items = items[k]
  BY <1>1, <1>2, <1>3 DEF Serial, SerialAt
<1>5. PICK rows \in Prepared(call) :
          /\ items' = [items EXCEPT ![k] = Written(items[k], call, rows)]
          /\ status' = [status EXCEPT ![k] = ReviewState(Written(items[k], call, rows))]
          /\ ItemsOK(rows, entities)
  BY <1>1, <1>4 DEF SaveWrites
<1>6. /\ ItemsOK(call.items, entities) /\ call.entities \in Seq(Entity)
      /\ Len(call.entities) <= Len(entities) /\ call.conspect \in Conspects
  <2>1. call.step \notin {"idle", "extracting"}
    BY <1>1
  <2>2. QED
    BY <2>1, CallConspect
<1>7. entities \in Seq(Entity) /\ ItemsOK(items[k], entities)
  BY <1>2 DEF TypeInv, GraphRows, ReviewRows
<1> DEFINE read == ReadBy(call)
<1>8. /\ DOMAIN rows = DOMAIN read
      /\ \A i \in DOMAIN rows : /\ rows[i] = [read[i] EXCEPT !.exact = rows[i].exact]
                                /\ rows[i].variants = read[i].variants
                                /\ rows[i].kind = read[i].kind
                                /\ rows[i].resolution = read[i].resolution
  <2> HIDE DEF call
  <2>1. QED
    BY <1>5, <1>6, <1>7, PreparedOK
<1> HIDE DEF read
<1>w. /\ ItemsOK(Written(items[k], call, rows), entities)
      /\ call.items = <<>> /\ items[k] = <<>> => Written(items[k], call, rows) = rows
      /\ call.items # <<>> /\ DOMAIN rows = DOMAIN items[k] => Written(items[k], call, rows) = rows
  <2> HIDE DEF call
  <2>1. QED
    BY <1>5, <1>7, WrittenOK, Zenon
<1>9. CASE items[k] = <<>>
  <2>1. Written(items[k], call, rows) = rows
    BY <1>4, <1>9, <1>w
  <2>2. read = FreshItems(k)
    BY <1>4, <1>9 DEF read, ReadBy
  <2>3. Fresh(read) /\ Shared(read, ToSet(CandidatesOf[k]))
    BY <1>2, <1>7, <2>2, FreshItemsOK
  <2>4. \A i \in DOMAIN rows : Variants(rows[i]) = Variants(read[i])
    BY <1>8 DEF Variants
  <2>5. Made(k, rows)
    BY <1>8, <2>3, <2>4 DEF Made, Fresh, Shared
  <2>6. QED
    BY <1>2, <1>4, <1>5, <1>9, <2>1, <2>5
<1>10. CASE items[k] # <<>>
  <2>1. read = items[k]
    BY <1>4, <1>10 DEF read, ReadBy
  <2>2. Written(items[k], call, rows) = rows
    BY <1>4, <1>8, <1>10, <1>w, <2>1
  <2>3. Reprepared(items[k], rows)
    BY <1>8, <2>1 DEF Reprepared, ItemsKept, SameVariants
  <2>4. QED
    BY <1>2, <1>4, <1>5, <1>10, <2>2, <2>3
<1>11. QED
  BY <1>9, <1>10

LEMMA ReopenedIsKept ==
    ASSUME NEW g \in Seq(Entity), NEW its, ItemsOK(its, g), NEW new, ReopenedOnly(its, new)
    PROVE  ItemsKept(its, new)
<1>1. SameVariants(its, new)
  BY ReopenedOnlyOK
<1>2. ASSUME NEW j \in DOMAIN its
      PROVE  new[j].resolution \in {its[j].resolution, Pending}
  <2>1. CASE new[j] = its[j]
    BY <2>1
  <2>2. CASE new[j] = Undecided(its[j])
    <3>1. ItemOK(its[j], g)
      BY DEF ItemsOK
    <3>2. QED
      BY <2>2, <3>1, UndecidedOK
  <2>3. QED
    BY <2>1, <2>2 DEF ReopenedOnly
<1>3. QED
  BY <1>1, <1>2 DEF ItemsKept

\* What becomes of the items of every conspect.
ItemsStay == links' = links /\ \A l \in Conspects : ItemsKept(items[l], items'[l])

ItemsMade ==
    /\ links' = links
    /\ \E k \in Conspects : /\ items[k] = <<>> /\ Made(k, items'[k])
                            /\ \A l \in Conspects : l # k => items'[l] = items[l]

ItemDecided ==
    \E k \in Conspects : \E i \in DOMAIN items[k] : \E r \in Resolutions \ {Pending} :
        \E d, T : DecisionWrites(k, i, r, d, T)

ItemSplit ==
    \E k \in Conspects : \E i \in DOMAIN items[k] :
        \E rest, part : SplitWrites(k, i, rest, part)

LEMMA ItemsStep ==
    TypeInv /\ Serial /\ [Next]_vars => ItemsStay \/ ItemsMade \/ ItemDecided \/ ItemSplit
<1> SUFFICES ASSUME TypeInv, Serial, [Next]_vars, ~ItemsMade, ~ItemDecided, ~ItemSplit
             PROVE  ItemsStay
  OBVIOUS
<1>0. items \in [Conspects -> Seq(Item)] /\ entities \in Seq(Entity)
      /\ \A k \in Conspects : ItemsOK(items[k], entities)
  BY DEF TypeInv, ReviewRows, GraphRows
<1>1. ASSUME NEW its
      PROVE  ItemsKept(its, its)
  BY DEF ItemsKept, SameVariants
<1>2. ASSUME links' = links, items' = items
      PROVE  ItemsStay
  BY <1>1, <1>2 DEF ItemsStay
<1>3. ASSUME links' = links, NEW k \in Conspects, NEW new, items' = [items EXCEPT ![k] = new],
             ItemsKept(items[k], new)
      PROVE  ItemsStay
  <2>1. \A l \in Conspects : items'[l] = IF l = k THEN new ELSE items[l]
    BY <1>0, <1>3
  <2>2. QED
    BY <1>1, <1>3, <2>1 DEF ItemsStay
<1>4. ASSUME NEW p \in Preparers, HandlerStep(p)
      PROVE  ItemsStay
  <2>1. CASE SavePreparedReview(p)
    <3> DEFINE k == preparing[p].conspect
    <3>1. /\ k \in Conspects /\ links' = links
          /\ \E new : /\ items' = [items EXCEPT ![k] = new]
                      /\ IF items[k] = <<>> THEN Made(k, new) ELSE Reprepared(items[k], new)
      BY <2>1, SavedItems
    <3> HIDE DEF k
    <3>2. PICK new : /\ items' = [items EXCEPT ![k] = new]
                     /\ IF items[k] = <<>> THEN Made(k, new) ELSE Reprepared(items[k], new)
      BY <3>1
    <3>3. items[k] # <<>>
      <4> SUFFICES ASSUME items[k] = <<>> PROVE FALSE
        OBVIOUS
      <4>1. \A l \in Conspects : items'[l] = IF l = k THEN new ELSE items[l]
        BY <1>0, <3>1, <3>2
      <4>2. ItemsMade
        BY <3>1, <3>2, <4>1 DEF ItemsMade
      <4>3. QED
        BY <4>2
    <3>4. QED
      BY <1>3, <3>1, <3>2, <3>3 DEF Reprepared
  <2>2. CASE Check(p) \/ Snapshot(p) \/ PendingReviewItems(p) \/ Complete(p)
    BY <1>2, <2>2 DEF Check, Snapshot, PendingReviewItems, Complete, reviewVars
  <2>3. QED
    BY <1>4, <2>1, <2>2 DEF HandlerStep
<1>5. ASSUME NEW p \in Preparers, HandlerError(p)
      PROVE  ItemsStay
  BY <1>2, <1>5 DEF HandlerError
<1>6. ASSUME NEW k \in Conspects, UserStep(k)
      PROVE  ItemsStay
  <2>1. CASE ApplyConspect(k)
    <3>1. ApplyWrites(k)
      BY <2>1, ApplyFacts
    <3>2. CASE Accepted(items[k]) = {}
      BY <1>2, <3>1, <3>2 DEF ApplyWrites
    <3>3. CASE Accepted(items[k]) # {}
      <4>1. items' = [items EXCEPT ![k] = AppliedItems(items[k])] /\ links' = links /\ Applicable(items[k])
        BY <3>1, <3>3 DEF ApplyWrites
      <4>2. ItemsKept(items[k], AppliedItems(items[k]))
        <5> DEFINE its == items[k]
        <5>1. /\ DOMAIN AppliedItems(its) = DOMAIN its
              /\ \A i \in DOMAIN its :
                    /\ AppliedItems(its)[i].resolution = its[i].resolution
                    /\ AppliedItems(its)[i].variants = its[i].variants
                    /\ AppliedItems(its)[i].kind = its[i].kind
          <6> HIDE DEF its
          <6>1. Applicable(its)
            BY <4>1 DEF its
          <6>2. QED
            BY <6>1, AppliedItemsOK
        <5>2. QED
          BY <5>1 DEF ItemsKept, SameVariants
      <4>3. QED
        BY <1>3, <4>1, <4>2
    <3>4. QED
      BY <3>2, <3>3
  <2>2. CASE ApplyConflict(k)
    BY <1>2, <2>2 DEF ApplyConflict, reviewVars
  <2>3. CASE RetryFailedJob(k)
    BY <1>2, <2>3 DEF RetryFailedJob
  <2>4. ASSUME NEW i \in DOMAIN items[k], NEW r \in Resolutions \ {Pending},
               NEW t \in 0..Len(entities), SaveReviewDecision(k, i, r, t)
        PROVE  FALSE
    BY <2>4, DecisionFacts DEF ItemDecided
  <2>5. ASSUME NEW i \in DOMAIN items[k], NEW t \in DOMAIN entities, DecisionConflict(k, i, t)
        PROVE  ItemsStay
    BY <1>2, <2>5 DEF DecisionConflict, reviewVars
  <2>6. ASSUME NEW i \in DOMAIN items[k], NEW S \in SUBSET Variants(items[k][i]),
               SplitReviewItem(k, i, S)
        PROVE  FALSE
    BY <2>6, SplitFacts DEF ItemSplit
  <2>7. QED
    BY <1>6, <2>1, <2>2, <2>3, <2>4, <2>5, <2>6 DEF UserStep
<1>7. ASSUME NEW k \in Conspects, Rematch(k)
      PROVE  ItemsStay
  <2>1. CASE status[k] \in Editable
    <3>1. items' = [items EXCEPT ![k] = Rematched(items[k])] /\ links' = links
      BY <1>0, <1>7, <2>1 DEF Rematch, Rematched
    <3>2. ItemsKept(items[k], Rematched(items[k]))
      BY <1>0, RematchedIsReopenedOnly, ReopenedIsKept
    <3>3. QED
      BY <1>3, <3>1, <3>2
  <2>2. CASE status[k] \notin Editable
    BY <1>2, <1>7, <2>2 DEF Rematch
  <2>3. QED
    BY <2>1, <2>2
<1>8. ASSUME NEW k \in Conspects, NEW p \in Preparers, Start(p, k)
      PROVE  ItemsStay
  BY <1>2, <1>8 DEF Start, reviewVars
<1>9. CASE Restart
  BY <1>2, <1>9 DEF Restart, reviewVars
<1>10. CASE UNCHANGED vars
  BY <1>2, <1>10 DEF vars, reviewVars
<1>11. ASSUME NEW p \in Preparers, Extract(p) \/ Extracted(p)
      PROVE  ItemsStay
  BY <1>2, <1>11, AwayFacts DEF AwayWrites, reviewVars
<1>12. QED
  BY <1>4, <1>5, <1>6, <1>7, <1>8, <1>9, <1>10, <1>11 DEF Next

-----------------------------------------------------------------------------
(* Preparing again keeps what was decided.                                 *)

\* Only the call that prepares a conspect hands it to its user.
LEMMA OnlySavingPrepares ==
    ASSUME TypeInv, [Next]_vars, NEW k \in Conspects,
           status[k] = "preparing_review", status'[k] \in Editable
    PROVE  \E p \in Preparers : SavePreparedReview(p) /\ preparing[p].conspect = k
<1>0. status \in [Conspects -> Statuses] /\ "preparing_review" \notin Editable /\ "failed" \notin Editable
  BY StatusesAre DEF TypeInv, ReviewRows
<1>1. ASSUME status' = status
      PROVE  FALSE
  BY <1>0, <1>1
<1>2. ASSUME NEW l \in Conspects, NEW s, status' = [status EXCEPT ![l] = s],
             status[l] # "preparing_review" \/ s \notin Editable
      PROVE  FALSE
  BY <1>0, <1>2
<1>3. ASSUME NEW p \in Preparers, HandlerStep(p), ~(SavePreparedReview(p) /\ preparing[p].conspect = k)
      PROVE  FALSE
  <2>1. CASE SavePreparedReview(p)
    <3> DEFINE l == preparing[p].conspect
    <3>1. SaveWrites(p, l) /\ l # k
      BY <1>3, <2>1, SaveFacts
    <3> HIDE DEF l
    <3>2. CASE status[l] = "preparing_review"
      <4>1. PICK new : status' = [status EXCEPT ![l] = ReviewState(new)]
        BY <3>1, <3>2 DEF SaveWrites
      <4>2. QED
        BY <1>0, <3>1, <4>1
    <3>3. CASE status[l] # "preparing_review"
      BY <1>1, <3>1, <3>3 DEF SaveWrites
    <3>4. QED
      BY <3>2, <3>3
  <2>2. CASE Check(p) \/ Snapshot(p) \/ PendingReviewItems(p) \/ Complete(p)
    BY <1>1, <2>2 DEF Check, Snapshot, PendingReviewItems, Complete, reviewVars
  <2>3. QED
    BY <1>3, <2>1, <2>2 DEF HandlerStep
<1>4. ASSUME NEW p \in Preparers, HandlerError(p)
      PROVE  FALSE
  <2> DEFINE l == preparing[p].conspect
  <2>1. \/ status' = status
        \/ status' = [status EXCEPT ![l] = IF @ = "preparing_review" THEN "failed" ELSE @]
    BY <1>4 DEF HandlerError
  <2> HIDE DEF l
  <2>2. QED
    BY <1>0, <1>1, <2>1
<1>5. ASSUME NEW l \in Conspects, UserStep(l)
      PROVE  FALSE
  <2>1. CASE ApplyConspect(l)
    <3>1. status[l] # "preparing_review" /\ \E s : status' = [status EXCEPT ![l] = s]
      BY <2>1 DEF ApplyConspect
    <3>2. QED
      BY <1>2, <3>1
  <2>2. CASE ApplyConflict(l)
    BY <1>1, <2>2 DEF ApplyConflict, reviewVars
  <2>3. CASE RetryFailedJob(l)
    BY <1>0, <2>3 DEF RetryFailedJob
  <2>4. ASSUME NEW i \in DOMAIN items[l], NEW r \in Resolutions \ {Pending},
               NEW t \in 0..Len(entities), SaveReviewDecision(l, i, r, t)
        PROVE  FALSE
    <3>1. status[l] \in Editable /\ \E s : status' = [status EXCEPT ![l] = s]
      BY <2>4 DEF SaveReviewDecision
    <3>2. QED
      BY <1>0, <1>2, <3>1
  <2>5. ASSUME NEW i \in DOMAIN items[l], NEW t \in DOMAIN entities, DecisionConflict(l, i, t)
        PROVE  FALSE
    BY <1>1, <2>5 DEF DecisionConflict, reviewVars
  <2>6. ASSUME NEW i \in DOMAIN items[l], NEW S \in SUBSET Variants(items[l][i]),
               SplitReviewItem(l, i, S)
        PROVE  FALSE
    BY <1>0, <1>2, <2>6 DEF SplitReviewItem
  <2>7. QED
    BY <1>5, <2>1, <2>2, <2>3, <2>4, <2>5, <2>6 DEF UserStep
<1>6. ASSUME NEW l \in Conspects, Rematch(l)
      PROVE  FALSE
  BY <1>0, <1>1, <1>2, <1>6 DEF Rematch
<1>7. ASSUME NEW l \in Conspects, NEW p \in Preparers, Start(p, l)
      PROVE  FALSE
  BY <1>1, <1>7 DEF Start, reviewVars
<1>8. CASE Restart
  BY <1>1, <1>8 DEF Restart, reviewVars
<1>9. CASE UNCHANGED vars
  BY <1>1, <1>9 DEF vars, reviewVars
<1>10. ASSUME NEW p \in Preparers, Extract(p) \/ Extracted(p)
      PROVE  FALSE
  BY <1>1, <1>10, AwayFacts DEF AwayWrites, reviewVars
<1>11. QED
  BY <1>3, <1>4, <1>5, <1>6, <1>7, <1>8, <1>9, <1>10 DEF Next

LEMMA KeepsStep ==
    TypeInv /\ Serial /\ [Next]_vars =>
        [\A k \in Conspects :
            (status[k] = "preparing_review" /\ status'[k] \in Editable /\ items[k] # <<>>) =>
                /\ DOMAIN items'[k] = DOMAIN items[k]
                /\ \A i \in DOMAIN items[k] :
                      items'[k][i] = [items[k][i] EXCEPT !.exact = items'[k][i].exact]]_vars
<1> SUFFICES ASSUME TypeInv, Serial, [Next]_vars, NEW k \in Conspects,
                    status[k] = "preparing_review", status'[k] \in Editable, items[k] # <<>>
             PROVE  /\ DOMAIN items'[k] = DOMAIN items[k]
                    /\ \A i \in DOMAIN items[k] :
                          items'[k][i] = [items[k][i] EXCEPT !.exact = items'[k][i].exact]
  OBVIOUS
<1>1. PICK p \in Preparers : SavePreparedReview(p) /\ preparing[p].conspect = k
  BY OnlySavingPrepares
<1>2. PICK new : /\ items' = [items EXCEPT ![k] = new]
                 /\ IF items[k] = <<>> THEN Made(k, new) ELSE Reprepared(items[k], new)
  BY <1>1, SavedItems
<1>3. items'[k] = new
  BY <1>2 DEF TypeInv, ReviewRows
<1>4. QED
  BY <1>2, <1>3 DEF Reprepared

\* As long as the process is not restarted, preparing a conspect again keeps
\* its items, their splits and the decisions on them, and their ids.
THEOREM DecisionsSurvivePreparation ==
    MaxRestarts = 0 => (Spec => PreparationKeepsDecisions)
<1> SUFFICES ASSUME MaxRestarts = 0 PROVE Spec => PreparationKeepsDecisions
  OBVIOUS
<1>1. Init => TypeInv /\ Serial
  BY TypeInvInit, SerialInit
<1>2. TypeInv /\ Serial /\ [Next]_vars => TypeInv' /\ Serial'
  BY TypeInvStep, SerialStep
<1>3. QED
  BY <1>1, <1>2, KeepsStep, PTL DEF Spec, PreparationKeepsDecisions

-----------------------------------------------------------------------------
(* Each candidate belongs to one item.                                     *)

\* The items of k, if there are any, share the candidates of k.
SharedAt(k) == items[k] # <<>> => Shared(items[k], ToSet(CandidatesOf[k]))

AllShared == \A k \in Conspects : SharedAt(k)

LEMMA NoPositions ==
    ASSUME NEW S, NEW s \in Seq(S), DOMAIN s = {}
    PROVE  s = <<>>
<1>1. DOMAIN s = 1..Len(s) /\ Len(s) \in Nat
  OBVIOUS
<1>2. Len(s) = 0
  <2>1. 1 \notin 1..Len(s)
    BY <1>1
  <2>2. QED
    BY <1>1, <2>1
<1>3. QED
  BY <1>2

\* Variants that move nowhere keep the items sharing them.
LEMMA SameVariantsShare ==
    ASSUME NEW its, NEW new, SameVariants(its, new), NEW C
    PROVE  /\ \A i \in DOMAIN its : Variants(new[i]) = Variants(its[i])
           /\ Shared(its, C) => Shared(new, C)
<1>1. \A i \in DOMAIN its : Variants(new[i]) = Variants(its[i])
  BY DEF SameVariants, Variants
<1>2. QED
  BY <1>1 DEF SameVariants, Shared

LEMMA SplitShares ==
    ASSUME NEW its, NEW i \in DOMAIN its, NEW rest, NEW part, NEW new,
           IsSplit(its, i, rest, part, new), NEW C, Shared(its, C),
           ToSet(rest) \cap ToSet(part) = {},
           ToSet(rest) \cup ToSet(part) = Variants(its[i])
    PROVE  Shared(new, C)
<1> DEFINE n == Len(its) + 1
           of(j) == IF j = n THEN i ELSE j
<1>1. /\ DOMAIN new = DOMAIN its \cup {n} /\ n \notin DOMAIN its
      /\ \A j \in DOMAIN its : j # i => new[j] = its[j]
      /\ Variants(new[i]) = ToSet(rest) /\ Variants(new[n]) = ToSet(part)
  BY DEF IsSplit
<1> HIDE DEF n
<1>2. \A j \in DOMAIN new : of(j) \in DOMAIN its /\ Variants(new[j]) \subseteq Variants(its[of(j)])
  BY <1>1
<1>3. \A c \in C : \E j \in DOMAIN new : c \in Variants(new[j])
  <2> SUFFICES ASSUME NEW c \in C PROVE \E j \in DOMAIN new : c \in Variants(new[j])
    OBVIOUS
  <2>1. PICK j \in DOMAIN its : c \in Variants(its[j])
    BY DEF Shared
  <2>2. CASE j = i
    BY <1>1, <2>1, <2>2
  <2>3. CASE j # i
    BY <1>1, <2>1, <2>3
  <2>4. QED
    BY <2>2, <2>3
<1>4. ASSUME NEW j \in DOMAIN new, NEW m \in DOMAIN new, j # m
      PROVE  Variants(new[j]) \cap Variants(new[m]) = {}
  <2>1. CASE of(j) = of(m)
    <3>1. (j = i /\ m = n) \/ (j = n /\ m = i)
      BY <1>1, <1>4, <2>1
    <3>2. QED
      BY <1>1, <3>1
  <2>2. CASE of(j) # of(m)
    <3>1. Variants(its[of(j)]) \cap Variants(its[of(m)]) = {}
      BY <1>2, <2>2 DEF Shared
    <3>2. QED
      BY <1>2, <3>1
  <2>3. QED
    BY <2>1, <2>2
<1>5. \A j \in DOMAIN new : Variants(new[j]) \subseteq C
  BY <1>2 DEF Shared
<1>6. QED
  BY <1>3, <1>4, <1>5 DEF Shared

LEMMA SharedStep ==
    TypeInv /\ Serial /\ AllShared /\ [Next]_vars => AllShared'
<1> SUFFICES ASSUME TypeInv, Serial, AllShared, [Next]_vars, NEW l \in Conspects, items'[l] # <<>>
             PROVE  Shared(items'[l], ToSet(CandidatesOf[l]))
  BY DEF AllShared, SharedAt
<1> DEFINE C == ToSet(CandidatesOf[l])
<1>0. items \in [Conspects -> Seq(Item)] /\ items[l] \in Seq(Item)
  BY DEF TypeInv, ReviewRows
<1>1. items[l] # <<>> => Shared(items[l], C)
  BY DEF AllShared, SharedAt
<1>2. ASSUME items'[l] = items[l]
      PROVE  Shared(items'[l], C)
  BY <1>1, <1>2
<1>3. ASSUME SameVariants(items[l], items'[l]), items[l] # <<>>
      PROVE  Shared(items'[l], C)
  BY <1>1, <1>3, SameVariantsShare
<1>4. CASE ItemsStay
  <2>1. SameVariants(items[l], items'[l])
    BY <1>4 DEF ItemsStay, ItemsKept
  <2>2. CASE items[l] # <<>>
    BY <1>3, <2>1, <2>2
  <2>3. CASE items[l] = <<>>
    <3>1. DOMAIN items'[l] = {}
      BY <2>1, <2>3 DEF SameVariants
    <3>2. items'[l] \in Seq(Item)
      <4>1. items' \in [Conspects -> Seq(Item)]
        BY TypeInvStep DEF TypeInv, ReviewRows
      <4>2. QED
        BY <4>1
    <3>3. items'[l] = <<>>
      BY <3>1, <3>2, NoPositions
    <3>4. QED
      BY <3>3
  <2>4. QED
    BY <2>2, <2>3
<1>5. CASE ItemsMade
  BY <1>2, <1>5 DEF ItemsMade, Made
<1>6. CASE ItemDecided
  <2>0. PICK k \in Conspects : \E i \in DOMAIN items[k] : \E r \in Resolutions \ {Pending} :
            \E d, T : DecisionWrites(k, i, r, d, T)
    BY <1>6 DEF ItemDecided
  <2>1. PICK i, r, d, T :
           i \in DOMAIN items[k] /\ r \in Resolutions \ {Pending} /\ DecisionWrites(k, i, r, d, T)
    BY <2>0
  <2> i \in DOMAIN items[k] /\ r \in Resolutions \ {Pending}
    BY <2>1
  <2> DEFINE new == AfterDecision(items[k], i, d, r)
  <2>2. SameVariants(items[k], new)
    BY <2>1, AfterDecisionOK
  <2>3. items' = [items EXCEPT ![k] = new]
    BY <2>1 DEF DecisionWrites
  <2> HIDE DEF new
  <2>4. CASE l = k
    <3>1. items[l] # <<>> /\ items'[l] = new
      BY <1>0, <2>3, <2>4
    <3>2. QED
      BY <1>3, <2>2, <2>4, <3>1
  <2>5. CASE l # k
    BY <1>0, <1>2, <2>3, <2>5
  <2>6. QED
    BY <2>4, <2>5
<1>7. CASE ItemSplit
  <2>0. PICK k \in Conspects : \E i \in DOMAIN items[k] : \E rest, part : SplitWrites(k, i, rest, part)
    BY <1>7 DEF ItemSplit
  <2>1. PICK i, rest, part :
           i \in DOMAIN items[k] /\ SplitWrites(k, i, rest, part)
    BY <2>0
  <2> i \in DOMAIN items[k]
    BY <2>1
  <2> DEFINE new == SplitItems(items[k], i, rest, part)
  <2>2. IsSplit(items[k], i, rest, part, new)
    BY <2>1, SplitItemsOK
  <2>3. items' = [items EXCEPT ![k] = new] /\ ToSet(rest) \cap ToSet(part) = {}
        /\ ToSet(rest) \cup ToSet(part) = Variants(items[k][i])
    BY <2>1 DEF SplitWrites
  <2> HIDE DEF new
  <2>4. CASE l = k
    <3>1. items[l] # <<>> /\ items'[l] = new
      BY <1>0, <2>3, <2>4
    <3>2. Shared(items[k], C)
      BY <1>1, <2>4, <3>1
    <3>3. Shared(new, C)
      BY <2>2, <2>3, <3>2, SplitShares
    <3>4. QED
      BY <3>1, <3>3
  <2>5. CASE l # k
    BY <1>0, <1>2, <2>3, <2>5
  <2>6. QED
    BY <2>4, <2>5
<1>8. QED
  BY <1>4, <1>5, <1>6, <1>7, ItemsStep

LEMMA SharedIsOnce ==
    AllShared => EachCandidateOnce
<1> SUFFICES ASSUME AllShared, NEW k \in Conspects, items[k] # <<>>,
                    NEW c \in ToSet(CandidatesOf[k])
             PROVE  Cardinality({i \in DOMAIN items[k] : c \in Variants(items[k][i])}) = 1
  BY DEF EachCandidateOnce
<1> DEFINE S == {i \in DOMAIN items[k] : c \in Variants(items[k][i])}
<1>1. Shared(items[k], ToSet(CandidatesOf[k]))
  BY DEF AllShared, SharedAt
<1>2. PICK i \in DOMAIN items[k] : c \in Variants(items[k][i])
  BY <1>1 DEF Shared
<1>3. S = {i}
  BY <1>1, <1>2 DEF Shared
<1> HIDE DEF S
<1>4. Cardinality(S) = 1
  BY <1>3, FS_Singleton
<1>5. QED
  BY <1>4 DEF S

\* As long as the process is not restarted, every candidate of a prepared
\* conspect belongs to one item, whatever is split, rematched and prepared again.
THEOREM CandidatesAreShared ==
    MaxRestarts = 0 => (Spec => []EachCandidateOnce)
<1> SUFFICES ASSUME MaxRestarts = 0 PROVE Spec => []EachCandidateOnce
  OBVIOUS
<1>1. Init => TypeInv /\ Serial /\ AllShared
  <2>1. Init => AllShared
    BY DEF Init, AllShared, SharedAt
  <2>2. QED
    BY <2>1, TypeInvInit, SerialInit
<1>2. TypeInv /\ Serial /\ AllShared /\ [Next]_vars => TypeInv' /\ Serial' /\ AllShared'
  BY TypeInvStep, SerialStep, SharedStep
<1>3. AllShared => EachCandidateOnce
  BY SharedIsOnce
<1>4. QED
  BY <1>1, <1>2, <1>3, PTL DEF Spec

-----------------------------------------------------------------------------
(* An accepted thought depends on no rejected term.                        *)

\* A pair in L relates a variant of item i to one of item j.
Related(its, L, i, j) == \E q \in L : q[1] \in Variants(its[i]) /\ q[2] \in Variants(its[j])

Firm(item) == item.kind = "thought" /\ item.resolution \notin {Pending, "reject"}

Depends(its, L) ==
    \A i, j \in DOMAIN its : Firm(its[i]) /\ Related(its, L, i, j) => its[j].resolution # "reject"

AllDepend == \A k \in Conspects : Depends(items[k], links)

\* While items share their candidates, the pairs say which items are related.
LEMMA RelatedItems ==
    ASSUME NEW its \in Seq(Item), NEW C, Shared(its, C), NEW L, NEW i \in DOMAIN its, NEW j
    PROVE  j \in RelatedTo(its, L, i) <=> j \in DOMAIN its /\ Related(its, L, i, j)
<1> DEFINE at(c) == ItemOf(its, DOMAIN its, c)
<1>1. ASSUME NEW c, NEW m \in DOMAIN its, c \in Variants(its[m])
      PROVE  at(c) = m
  <2> DEFINE S == {n \in DOMAIN its : c \in Variants(its[n])}
  <2>1. S = {m}
    BY <1>1 DEF Shared
  <2>2. S \in SUBSET (1..Len(its)) /\ Len(its) \in Nat
    OBVIOUS
  <2>3. at(c) = Max(S)
    BY DEF ItemOf
  <2> HIDE DEF S, at
  <2>4. Max(S) \in S
    BY <2>1, <2>2, MaxOf
  <2>5. QED
    BY <2>1, <2>3, <2>4
<1>2. \A c : Holds(its, DOMAIN its, c) <=> \E m \in DOMAIN its : c \in Variants(its[m])
  BY DEF Holds
<1>3. ASSUME NEW q
      PROVE  (/\ Holds(its, DOMAIN its, q[1]) /\ Holds(its, DOMAIN its, q[2])
              /\ at(q[1]) = i /\ at(q[2]) = j)
             <=> j \in DOMAIN its /\ q[1] \in Variants(its[i]) /\ q[2] \in Variants(its[j])
  <2> HIDE DEF at
  <2>1. QED
    BY <1>1, <1>2
<1>4. j \in RelatedTo(its, L, i) <=>
         \E q \in L : /\ Holds(its, DOMAIN its, q[1]) /\ Holds(its, DOMAIN its, q[2])
                      /\ at(q[1]) = i /\ at(q[2]) = j
  BY DEF RelatedTo
<1> HIDE DEF at
<1>5. QED
  BY <1>3, <1>4 DEF Related

LEMMA KeptDepends ==
    ASSUME NEW its, NEW new, ItemsKept(its, new), NEW L, Depends(its, L)
    PROVE  Depends(new, L)
<1> SUFFICES ASSUME NEW i \in DOMAIN new, NEW j \in DOMAIN new, Firm(new[i]), Related(new, L, i, j)
             PROVE  new[j].resolution # "reject"
  BY DEF Depends
<1>1. SameVariants(its, new) /\ i \in DOMAIN its /\ j \in DOMAIN its
  BY DEF ItemsKept, SameVariants
<1>2. Related(its, L, i, j)
  BY <1>1, SameVariantsShare DEF Related
<1>3. Firm(its[i])
  BY <1>1 DEF Firm, ItemsKept, SameVariants
<1>4. its[j].resolution # "reject"
  BY <1>1, <1>2, <1>3 DEF Depends
<1>5. QED
  BY <1>1, <1>4, PendingIsNoDecision DEF ItemsKept

LEMMA SplitDepends ==
    ASSUME NEW its, NEW i \in DOMAIN its, NEW rest, NEW part, NEW new,
           IsSplit(its, i, rest, part, new), NEW L, Depends(its, L)
    PROVE  Depends(new, L)
<1> SUFFICES ASSUME NEW a \in DOMAIN new, NEW b \in DOMAIN new, Firm(new[a]), Related(new, L, a, b)
             PROVE  new[b].resolution # "reject"
  BY DEF Depends
<1> DEFINE n == Len(its) + 1
<1>1. /\ DOMAIN new = DOMAIN its \cup {n} /\ n \notin DOMAIN its
      /\ \A j \in DOMAIN its : j # i => new[j] = its[j]
      /\ new[i].resolution = Pending /\ new[n].resolution = Pending
  BY DEF IsSplit
<1> HIDE DEF n
<1>2. a \in DOMAIN its /\ new[a] = its[a]
  BY <1>1 DEF Firm
<1>3. CASE b \in {i, n}
  BY <1>1, <1>3, PendingIsNoDecision
<1>4. CASE b \notin {i, n}
  <2>1. b \in DOMAIN its /\ new[b] = its[b]
    BY <1>1, <1>4
  <2>2. Related(its, L, a, b)
    BY <1>2, <2>1 DEF Related
  <2>3. QED
    BY <1>2, <2>1, <2>2 DEF Depends
<1>5. QED
  BY <1>3, <1>4

\* What a decision on item i of k does to the links.
LEMMA DecisionLinks ==
    ASSUME TypeInv, AllShared, NEW k \in Conspects, NEW i \in DOMAIN items[k], NEW r, NEW d, NEW T,
           DecisionWrites(k, i, r, d, T)
    PROVE  /\ \A q \in links' : q \in links \/ q[1] \in Variants(items[k][i])
           /\ \A b \in DOMAIN items[k] : Related(items[k], links', i, b) => b \in T
<1> DEFINE its == items[k]
<1>1. its \in Seq(Item) /\ its # <<>>
  <2>1. its \in Seq(Item)
    BY DEF TypeInv, ReviewRows
  <2>2. QED
    BY <2>1
<1>2. Shared(its, ToSet(CandidatesOf[k]))
  BY <1>1 DEF AllShared, SharedAt
<1>3. CASE links' = links /\ T = RelatedTo(its, links, i)
  <2> HIDE DEF its
  <2>1. i \in DOMAIN its
    BY DEF its
  <2>2. QED
    BY <1>1, <1>2, <1>3, <2>1, RelatedItems DEF its
<1>4. CASE T \subseteq {j \in DOMAIN its : its[j].kind = "term"} /\ links' = Relinked(its, i, T)
  <2>1. links' = {q \in links : q[1] \notin Variants(its[i])} \cup
                 (Variants(its[i]) \X (UNION {Variants(its[j]) : j \in T}))
    BY <1>4 DEF Relinked
  <2>2. \A q \in links' :
            \/ q \in links /\ q[1] \notin Variants(its[i])
            \/ q[1] \in Variants(its[i]) /\ \E j \in T : q[2] \in Variants(its[j])
    BY <2>1
  <2>3. ASSUME NEW b \in DOMAIN its, Related(its, links', i, b)
        PROVE  b \in T
    <3>1. PICK q \in links' : q[1] \in Variants(its[i]) /\ q[2] \in Variants(its[b])
      BY <2>3 DEF Related
    <3>2. PICK j \in T : q[2] \in Variants(its[j])
      BY <2>2, <3>1
    <3>3. j \in DOMAIN its
      BY <1>4
    <3>4. b = j
      BY <1>2, <3>1, <3>2, <3>3 DEF Shared
    <3>5. QED
      BY <3>4
  <2>4. QED
    BY <2>2, <2>3
<1>5. QED
  BY <1>3, <1>4 DEF DecisionWrites

\* A rejected term has reopened the thoughts that relate to it.
LEMMA RejectedTermReopens ==
    ASSUME TypeInv, AllShared, NEW k \in Conspects, NEW i \in DOMAIN items[k], NEW r, NEW d, NEW T,
           DecisionWrites(k, i, r, d, T), r = "reject", items[k][i].kind = "term",
           NEW a \in DOMAIN items[k], a # i, Firm(items[k][a]), Related(items[k], links, a, i)
    PROVE  AfterDecision(items[k], i, d, r)[a].resolution = Pending
<1> DEFINE its == items[k]
           mid == [its EXCEPT ![i] = d]
<1>0. its \in Seq(Item) /\ its # <<>> /\ ItemsOK(its, entities) /\ entities \in Seq(Entity)
  <2>1. its \in Seq(Item) /\ ItemsOK(its, entities) /\ entities \in Seq(Entity)
    BY DEF TypeInv, ReviewRows, GraphRows
  <2>2. QED
    BY <2>1
<1>1. /\ ItemsOK(mid, entities) /\ DOMAIN mid = DOMAIN its /\ mid[i] = d
      /\ \A j \in DOMAIN its : j # i => mid[j] = its[j]
      /\ d.variants = its[i].variants /\ d.kind = its[i].kind
  BY DEF DecisionWrites
<1>2. SameVariants(its, mid)
  BY <1>1 DEF SameVariants
<1>3. Shared(mid, ToSet(CandidatesOf[k])) /\ \A j \in DOMAIN its : Variants(mid[j]) = Variants(its[j])
  <2>1. Shared(its, ToSet(CandidatesOf[k]))
    BY <1>0 DEF AllShared, SharedAt
  <2> HIDE DEF mid, its
  <2>2. QED
    BY <1>2, <2>1, SameVariantsShare
<1>4. AfterDecision(its, i, d, r) = Reopened(mid, i)
  BY DEF AfterDecision
<1> HIDE DEF mid
<1>5. Related(mid, links, a, i)
  BY <1>3 DEF Related
<1>6. i \in RelatedTo(mid, links, a)
  <2>1. mid \in Seq(Item) /\ a \in DOMAIN mid /\ i \in DOMAIN mid
    BY <1>1 DEF ItemsOK
  <2>2. QED
    BY <1>3, <1>5, <2>1, RelatedItems
<1>7. Firm(mid[a]) /\ mid[a] = its[a] /\ a \in DOMAIN mid
  BY <1>1
<1>8. Reopened(mid, i)[a] = Undecided(its[a])
  BY <1>6, <1>7 DEF Reopened, Firm
<1>9. Undecided(its[a]).resolution = Pending
  <2>1. ItemOK(its[a], entities)
    BY <1>0 DEF ItemsOK
  <2>2. QED
    BY <1>0, <2>1, UndecidedOK
<1>10. QED
  BY <1>4, <1>8, <1>9

LEMMA DecisionDepends ==
    ASSUME TypeInv, AllShared, [Next]_vars, NEW k \in Conspects, NEW i \in DOMAIN items[k],
           NEW r, NEW d, NEW T, DecisionWrites(k, i, r, d, T), Depends(items[k], links)
    PROVE  Depends(AfterDecision(items[k], i, d, r), links')
<1> DEFINE its == items[k]
           new == AfterDecision(its, i, d, r)
<1>0. ItemsOK(its, entities) /\ its \in Seq(Item) /\ its # <<>> /\ entities \in Seq(Entity)
  <2>1. its \in Seq(Item) /\ ItemsOK(its, entities) /\ entities \in Seq(Entity)
    BY DEF TypeInv, ReviewRows, GraphRows
  <2>2. QED
    BY <2>1
<1>1. /\ SameVariants(its, new) /\ new[i] = d
      /\ \A j \in DOMAIN its : j # i => new[j] \in {its[j], Undecided(its[j])}
  BY AfterDecisionOK
<1>2. \A q \in links' : q \in links \/ q[1] \in Variants(its[i])
  BY DecisionLinks
<1>3. \A b \in DOMAIN its : Related(its, links', i, b) => b \in T
  BY DecisionLinks
<1>4. /\ d.resolution = r /\ d.kind = its[i].kind
      /\ r # "reject" => \A j \in T : its[j].resolution # "reject"
      /\ links' = links \/ its[i].kind = "thought"
  BY DEF DecisionWrites
<1>5. Shared(its, ToSet(CandidatesOf[k]))
  BY <1>0 DEF AllShared, SharedAt
<1>6. links' \subseteq (Candidates \ Terms) \X Terms
  BY TypeInvStep DEF TypeInv, ReviewRows
<1>7. ASSUME NEW a \in DOMAIN its, a # i, Firm(its[a]), Related(its, links, a, i),
             r = "reject", its[i].kind = "term"
      PROVE  new[a].resolution = Pending
  BY <1>7, RejectedTermReopens
<1>8. ASSUME NEW j \in DOMAIN its, j # i
      PROVE  new[j].resolution \in {its[j].resolution, Pending}
  <2>1. ItemOK(its[j], entities)
    BY <1>0 DEF ItemsOK
  <2>2. Undecided(its[j]).resolution = Pending
    BY <1>0, <2>1, UndecidedOK
  <2>3. QED
    BY <1>1, <1>8, <2>2
<1> HIDE DEF new
<1>9. DOMAIN new = DOMAIN its /\ \A j \in DOMAIN its : Variants(new[j]) = Variants(its[j]) /\ new[j].kind = its[j].kind
  BY <1>1, SameVariantsShare DEF SameVariants
<1> SUFFICES ASSUME NEW a \in DOMAIN its, NEW b \in DOMAIN its, Firm(new[a]), Related(its, links', a, b)
             PROVE  new[b].resolution # "reject"
  <2>1. \A a, b \in DOMAIN its : Related(new, links', a, b) => Related(its, links', a, b)
    BY <1>9 DEF Related
  <2>2. QED
    BY <1>9, <2>1 DEF Depends, new
<1>10. CASE a = i
  <2>1. r # "reject" /\ b \in T
    BY <1>1, <1>3, <1>4, <1>10 DEF Firm
  <2>2. its[b].resolution # "reject"
    BY <1>4, <2>1
  <2>3. QED
    BY <1>1, <1>4, <1>8, <2>1, <2>2, PendingIsNoDecision
<1>11. CASE a # i
  <2>1. Firm(its[a])
    BY <1>8, <1>9, <1>11 DEF Firm
  <2>2. Related(its, links, a, b)
    <3>1. PICK q \in links' : q[1] \in Variants(its[a]) /\ q[2] \in Variants(its[b])
      BY DEF Related
    <3>2. q[1] \notin Variants(its[i])
      BY <1>5, <1>11, <3>1 DEF Shared
    <3>3. QED
      BY <1>2, <3>1, <3>2 DEF Related
  <2>3. its[b].resolution # "reject"
    BY <2>1, <2>2 DEF Depends
  <2>4. CASE b # i
    BY <1>8, <2>3, <2>4, PendingIsNoDecision
  <2>5. CASE b = i
    <3> SUFFICES ASSUME r = "reject" PROVE FALSE
      BY <1>1, <1>4, <2>5
    <3>1. its[i].kind = "term"
      <4>1. PICK q \in links' : q[2] \in Variants(its[i])
        BY <2>5 DEF Related
      <4>2. KindOf(q[2]) = "term"
        BY <1>6, <4>1 DEF KindOf
      <4>3. KindOf(q[2]) = its[i].kind
        BY <1>0, <4>1 DEF ItemsOK, ItemOK
      <4>4. QED
        BY <4>2, <4>3
    <3>2. new[a].resolution = Pending
      BY <1>7, <1>11, <2>1, <2>2, <2>5, <3>1
    <3>3. QED
      BY <3>2 DEF Firm
  <2>6. QED
    BY <2>4, <2>5
<1>12. QED
  BY <1>10, <1>11

LEMMA DependsStep ==
    TypeInv /\ Serial /\ AllShared /\ AllDepend /\ [Next]_vars => AllDepend'
<1> SUFFICES ASSUME TypeInv, Serial, AllShared, AllDepend, [Next]_vars, NEW l \in Conspects
             PROVE  Depends(items'[l], links')
  BY DEF AllDepend
<1>0. items \in [Conspects -> Seq(Item)]
  BY DEF TypeInv, ReviewRows
<1>1. Depends(items[l], links)
  BY DEF AllDepend
<1>2. CASE ItemsStay
  <2>1. ItemsKept(items[l], items'[l]) /\ links' = links
    BY <1>2 DEF ItemsStay
  <2>2. QED
    BY <1>1, <2>1, KeptDepends
<1>3. CASE ItemsMade
  <2>1. links' = links /\ (items'[l] = items[l] \/ Fresh(items'[l]))
    BY <1>3 DEF ItemsMade, Made
  <2>2. Fresh(items'[l]) => Depends(items'[l], links')
    BY DEF Depends, Fresh, Firm
  <2>3. QED
    BY <1>1, <2>1, <2>2
<1>4. CASE ItemDecided
  <2>0. PICK k \in Conspects : \E i \in DOMAIN items[k] : \E r \in Resolutions \ {Pending} :
            \E d, T : DecisionWrites(k, i, r, d, T)
    BY <1>4 DEF ItemDecided
  <2>1. PICK i, r, d, T :
           i \in DOMAIN items[k] /\ r \in Resolutions \ {Pending} /\ DecisionWrites(k, i, r, d, T)
    BY <2>0
  <2> i \in DOMAIN items[k] /\ r \in Resolutions \ {Pending}
    BY <2>1
  <2> DEFINE new == AfterDecision(items[k], i, d, r)
  <2>2. items' = [items EXCEPT ![k] = new]
    BY <2>1 DEF DecisionWrites
  <2>3. CASE l = k
    <3>1. Depends(new, links')
      BY <1>1, <2>1, <2>3, DecisionDepends
    <3>2. items'[l] = new
      BY <1>0, <2>2, <2>3
    <3>3. QED
      BY <3>1, <3>2
  <2>4. CASE l # k
    <3>1. items'[l] = items[l]
      BY <1>0, <2>2, <2>4
    <3>2. \A q \in links' : q \in links \/ q[1] \in Variants(items[k][i])
      BY <2>1, DecisionLinks
    <3>3. ASSUME NEW a \in DOMAIN items[l]
          PROVE  Variants(items[l][a]) \cap Variants(items[k][i]) = {}
      <4>1. items[l] # <<>> /\ items[k] # <<>>
        BY <1>0
      <4>2. Shared(items[l], ToSet(CandidatesOf[l])) /\ Shared(items[k], ToSet(CandidatesOf[k]))
        BY <4>1 DEF AllShared, SharedAt
      <4>3. ToSet(CandidatesOf[l]) \cap ToSet(CandidatesOf[k]) = {}
        BY <2>4, CandidatesAssumption DEF ToSet
      <4>4. QED
        BY <4>2, <4>3 DEF Shared
    <3>4. \A a, b \in DOMAIN items[l] : Related(items[l], links', a, b) => Related(items[l], links, a, b)
      BY <3>2, <3>3 DEF Related
    <3>5. QED
      BY <1>1, <3>1, <3>4 DEF Depends
  <2>5. QED
    BY <2>3, <2>4
<1>5. CASE ItemSplit
  <2>0. PICK k \in Conspects : \E i \in DOMAIN items[k] : \E rest, part : SplitWrites(k, i, rest, part)
    BY <1>5 DEF ItemSplit
  <2>1. PICK i, rest, part :
           i \in DOMAIN items[k] /\ SplitWrites(k, i, rest, part)
    BY <2>0
  <2> i \in DOMAIN items[k]
    BY <2>1
  <2> DEFINE new == SplitItems(items[k], i, rest, part)
  <2>2. IsSplit(items[k], i, rest, part, new)
    BY <2>1, SplitItemsOK
  <2>3. items' = [items EXCEPT ![k] = new] /\ links' = links
    BY <2>1 DEF SplitWrites
  <2> HIDE DEF new
  <2>4. CASE l = k
    <3>1. Depends(new, links)
      BY <1>1, <2>2, <2>4, SplitDepends
    <3>2. QED
      BY <1>0, <2>3, <2>4, <3>1
  <2>5. CASE l # k
    BY <1>0, <1>1, <2>3, <2>5
  <2>6. QED
    BY <2>4, <2>5
<1>6. QED
  BY <1>2, <1>3, <1>4, <1>5, ItemsStep

LEMMA DependsIsSafe ==
    TypeInv /\ AllShared /\ AllDepend => DependenciesHold
<1> SUFFICES ASSUME TypeInv, AllShared, AllDepend, NEW k \in Conspects,
                    NEW i \in Accepted(items[k]), items[k][i].resolution # Pending,
                    Dangling(items[k], i)
             PROVE  FALSE
  BY DEF DependenciesHold
<1> DEFINE its == items[k]
<1>1. i \in DOMAIN its /\ Firm(its[i])
  BY DEF Accepted, Dangling, Firm
<1>2. its \in Seq(Item) /\ its # <<>>
  <2>1. its \in Seq(Item)
    BY DEF TypeInv, ReviewRows
  <2>2. QED
    BY <1>1, <2>1
<1>3. Shared(its, ToSet(CandidatesOf[k]))
  BY <1>2 DEF AllShared, SharedAt
<1>4. PICK j \in RelatedTo(its, links, i) : j \notin Accepted(its)
  BY DEF Dangling
<1>5. j \in DOMAIN its /\ Related(its, links, i, j)
  <2> HIDE DEF its
  <2>1. QED
    BY <1>1, <1>2, <1>3, <1>4, RelatedItems
<1>6. its[j].resolution # "reject"
  BY <1>1, <1>5 DEF AllDepend, Depends
<1>7. QED
  BY <1>4, <1>5, <1>6 DEF Accepted

\* As long as the process is not restarted, an accepted thought never relates
\* to a rejected term while the user decides, edits relations and splits items.
THEOREM AcceptedThoughtsHaveTheirTerms ==
    MaxRestarts = 0 => (Spec => []DependenciesHold)
<1> SUFFICES ASSUME MaxRestarts = 0 PROVE Spec => []DependenciesHold
  OBVIOUS
<1>1. Init => TypeInv /\ Serial /\ AllShared /\ AllDepend
  <2>1. Init => AllShared /\ AllDepend
    BY DEF Init, AllShared, SharedAt, AllDepend, Depends
  <2>2. QED
    BY <2>1, TypeInvInit, SerialInit
<1>2. TypeInv /\ Serial /\ AllShared /\ AllDepend /\ [Next]_vars
         => TypeInv' /\ Serial' /\ AllShared' /\ AllDepend'
  BY TypeInvStep, SerialStep, SharedStep, DependsStep
<1>3. TypeInv /\ AllShared /\ AllDepend => DependenciesHold
  BY DependsIsSafe
<1>4. QED
  BY <1>1, <1>2, <1>3, PTL DEF Spec
=============================================================================
