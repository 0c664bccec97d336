---------------------------- MODULE ClientsProofs ----------------------------
(***************************************************************************)
(* Theorems about the desktop client's settings form, widget and graph,    *)
(* and about the parts of both clients side by side.                       *)
(***************************************************************************)
EXTENDS Clients, ConsoleProofs, NumberLemmas, FiniteSetTheorems

-----------------------------------------------------------------------------
(* The settings form, for any number of failures: what a save that fails   *)
(* has changed in the native shell is put back.                            *)

\* The native setting k is the one of f.
Shows(k, f) == native[k] = f[k]

\* While mutationFn runs, the native settings in `changed` are those of the
\* draft and the others those that are stored; each step of it comes after the
\* ones before.
Midway ==
    save # "idle" =>
        /\ changed \subseteq patch
        /\ patch = {k \in Keys : base[k] # draft[k]}
        /\ \A k \in Native : Shows(k, IF k \in changed THEN draft ELSE base)
        /\ save \in {"start", "patch"} /\ "top" \in patch => "top" \in changed
        /\ save = "patch" /\ "start" \in patch => "start" \in changed
        /\ save = "top" => "top" \in patch
        /\ save = "start" => "start" \in patch
        /\ save = "undo top" => "top" \in changed
        /\ save = "undo start" => changed = {"start"}

Between == save = "idle" => \A k \in Native : Shows(k, base)

FormInv ==
    /\ SettingsTypeOK
    /\ ~torn => base = server /\ Midway /\ Between

USE FailuresAssumption DEF Keys, Native

LEMMA FailureCounted == failures \in 0..MaxFailures /\ Fails => failures' \in 0..MaxFailures
  BY DEF Fails

\* Every step keeps the types.
LEMMA FormTypes == SettingsTypeOK /\ [SettingsNext]_settingsVars => SettingsTypeOK'
  <1> SUFFICES ASSUME SettingsTypeOK, [SettingsNext]_settingsVars PROVE SettingsTypeOK'
    OBVIOUS
  <1> USE DEF SettingsTypeOK, Settings, SaveSteps
  <1>1. ASSUME NEW k \in Keys, Change(k) PROVE SettingsTypeOK'
    BY <1>1 DEF Change, Idle, saveVars
  <1>2. CASE Cancel
    BY <1>2 DEF Cancel, Idle, saveVars
  <1>3. CASE Submit
    BY <1>3 DEF Submit, Idle, formVars, After
  <1>4. ASSUME NEW k \in Native, NativeSet(k) PROVE SettingsTypeOK'
    BY <1>4 DEF NativeSet, formVars, After
  <1>a. Fails => failures' \in 0..MaxFailures
    BY FailureCounted DEF SettingsTypeOK
  <1>b. Undo(changed) \in SaveSteps /\ Undo(changed') \in SaveSteps
    BY DEF Undo
  <1>5. CASE CallFails
    BY <1>5, <1>a, <1>b DEF CallFails, formVars
  <1>6. CASE PutBack
    <2>1. failures' \in 0..MaxFailures /\ torn' \in BOOLEAN
      BY <1>6, <1>a DEF PutBack
    <2>2. UndoKey \in Native /\ base[UndoKey] \in BOOLEAN
      BY DEF UndoKey
    <2>3. native' \in [Native -> BOOLEAN]
      BY <1>6, <2>2 DEF PutBack
    <2> QED BY <1>6, <1>b, <2>1, <2>3 DEF PutBack, formVars
  <1>7. CASE Patched
    BY <1>7 DEF Patched, Stores
  <1>8. CASE AnswerLost
    <2>1. server' \in Settings
      BY <1>8 DEF AnswerLost, Stores
    <2> QED BY <1>8, <1>a, <1>b, <2>1 DEF AnswerLost, formVars
  <1>9. CASE UNCHANGED settingsVars
    BY <1>9 DEF settingsVars, formVars, saveVars
  <1> QED BY <1>1, <1>2, <1>3, <1>4, <1>5, <1>6, <1>7, <1>8, <1>9 DEF SettingsNext

LEMMA FormInit == SettingsInit => FormInv
  <1> SUFFICES ASSUME SettingsInit PROVE FormInv
    OBVIOUS
  <1> USE DEF SettingsInit
  <1>1. server \in Settings /\ native \in [Native -> BOOLEAN]
    BY DEF Settings
  <1>2. failures \in 0..MaxFailures
    BY DEF SettingsInit
  <1>4. SettingsTypeOK
    BY <1>1, <1>2 DEF SettingsTypeOK, SaveSteps
  <1>3. Midway /\ Between
    BY DEF Midway, Between, Shows
  <1> QED BY <1>3, <1>4 DEF FormInv

LEMMA FormStep == FormInv /\ [SettingsNext]_settingsVars => FormInv'
  <1> SUFFICES ASSUME FormInv, [SettingsNext]_settingsVars, ~torn'
               PROVE  base' = server' /\ Midway' /\ Between'
    BY FormTypes DEF FormInv
  <1> USE DEF Midway, Between, Shows
  <1>a. ~torn
    BY DEF SettingsNext, Change, Cancel, Submit, NativeSet, CallFails, PutBack, Patched,
           AnswerLost, settingsVars
  <1>b. base = server /\ Midway /\ Between /\ SettingsTypeOK
    BY <1>a DEF FormInv
  <1>1. ASSUME NEW k \in Keys, Change(k) PROVE base' = server' /\ Midway' /\ Between'
    BY <1>1, <1>b DEF Change, Idle, saveVars
  <1>2. CASE Cancel
    BY <1>2, <1>b DEF Cancel, Idle, saveVars
  <1>3. CASE Submit
    BY <1>3, <1>b DEF Submit, Idle, formVars, After
  <1>4. ASSUME NEW k \in Native, NativeSet(k) PROVE base' = server' /\ Midway' /\ Between'
    BY <1>4, <1>b DEF NativeSet, formVars, After, SettingsTypeOK
  <1>5. CASE CallFails
    BY <1>5, <1>b DEF CallFails, formVars, Undo, SettingsTypeOK
  <1>6. CASE PutBack
    BY <1>6, <1>b, ZenonT(30) DEF PutBack, formVars, Undo, UndoKey, SettingsTypeOK
  <1>7. CASE Patched
    BY <1>7, <1>b DEF Patched, Stores, SettingsTypeOK, Settings
  <1>8. CASE AnswerLost
    BY <1>8 DEF AnswerLost
  <1>9. CASE UNCHANGED settingsVars
    BY <1>9, <1>b DEF settingsVars, formVars, saveVars
  <1> QED BY <1>1, <1>2, <1>3, <1>4, <1>5, <1>6, <1>7, <1>8, <1>9 DEF SettingsNext

\* A save that fails at any step leaves the native shell as the stored settings
\* say, unless putting something back fails too or the answer is lost.
THEOREM FailedSaveIsUndone == SettingsSpec => []NativeMatchesStored
  <1>1. FormInv => NativeMatchesStored
    BY DEF FormInv, NativeMatchesStored, Between, Shows, Idle
  <1> QED BY <1>1, FormInit, FormStep, PTL DEF SettingsSpec

HIDE FailuresAssumption DEF Keys, Native

-----------------------------------------------------------------------------
(* The widget.                                                             *)

\* The window waits for no other width than that of its content.
WidgetInv ==
    /\ sources \in [Devices -> SourceStates \cup {"loading"}]
    /\ unfolded \in Devices \cup {NoSource}
    /\ width \in widgetClosedWidth..widgetMaxWidth
    /\ refused \in BOOLEAN /\ restored \in BOOLEAN /\ acting \in BOOLEAN
    /\ shrinks \subseteq {ContentWidth}
    /\ WidgetFits

LEMMA ContentWidths == ContentWidth \in {409, 445, 521}
  BY DEF ContentWidth, CLOSED_WIDTH

LEMMA ContentWidthsNext == (ContentWidth \in {409, 445, 521})'
  BY ContentWidths, PTL

LEMMA WidgetStarts == WidgetInit => WidgetInv
  <1> SUFFICES ASSUME WidgetInit PROVE WidgetInv
    OBVIOUS
  <1>1. ContentWidth = 409
    BY DEF WidgetInit, ContentWidth, CLOSED_WIDTH
  <1>2. sources \in [Devices -> SourceStates \cup {"loading"}]
    BY DEF WidgetInit
  <1>3. width = 409 /\ width \in widgetClosedWidth..widgetMaxWidth
    BY DEF WidgetInit, CLOSED_WIDTH, widgetClosedWidth, widgetMaxWidth
  <1>4. WidgetFits
    BY <1>1, <1>3 DEF WidgetFits
  <1> QED BY <1>2, <1>3, <1>4, Zenon DEF WidgetInit, WidgetInv

\* A width that is asked for is taken or refused.
LEMMA ResizeTaken ==
    ASSUME width \in widgetClosedWidth..widgetMaxWidth, NEW w \in Nat, ResizeWidget(w)
    PROVE  /\ width' \in widgetClosedWidth..widgetMaxWidth
           /\ refused' \in BOOLEAN /\ restored' \in BOOLEAN
           /\ ~refused' => width' = w
  BY DEF ResizeWidget

\* The window follows its content.
LEMMA FollowsFits ==
    ASSUME WidgetInv, Follows
    PROVE  /\ width' \in widgetClosedWidth..widgetMaxWidth
           /\ refused' \in BOOLEAN /\ restored' \in BOOLEAN
           /\ shrinks' \subseteq {ContentWidth'} /\ WidgetFits'
  <1> DEFINE before == ContentWidth
             after  == ContentWidth'
  <1>1. before \in Nat /\ after \in Nat
    BY ContentWidths, ContentWidthsNext
  <1>2. /\ width \in widgetClosedWidth..widgetMaxWidth
        /\ refused \in BOOLEAN /\ restored \in BOOLEAN
        /\ shrinks \subseteq {before}
        /\ ~refused /\ ~restored => width >= before /\ (shrinks = {} => width = before)
    BY DEF WidgetInv, WidgetFits
  <1>3. /\ after = before => UNCHANGED resizeVars
        /\ after # before => Resizes(before, after)
    BY DEF Follows
  <1>4. WidgetFits' <=> (~refused' /\ ~restored' => width' >= after /\ (shrinks' = {} => width' = after))
    BY DEF WidgetFits
  <1>5. width \in Nat
    BY <1>2 DEF widgetClosedWidth, widgetMaxWidth
  <1> HIDE DEF before, after
  <1> SUFFICES /\ width' \in widgetClosedWidth..widgetMaxWidth
               /\ refused' \in BOOLEAN /\ restored' \in BOOLEAN
               /\ shrinks' \subseteq {after}
               /\ ~refused' /\ ~restored' => width' >= after /\ (shrinks' = {} => width' = after)
    BY <1>4 DEF after
  <1>6. CASE after = before
    BY <1>2, <1>3, <1>6 DEF resizeVars
  <1>7. CASE after < before
    BY <1>1, <1>2, <1>3, <1>5, <1>7 DEF Resizes
  <1>8. CASE after > before
    <2>1. shrinks' = {} /\ ResizeWidget(after)
      BY <1>1, <1>3, <1>8 DEF Resizes
    <2> QED BY <1>1, <1>2, <2>1, ResizeTaken
  <1> QED BY <1>1, <1>6, <1>7, <1>8

LEMMA WidgetStep == WidgetInv /\ [WidgetNext]_widgetVars => WidgetInv'
  <1> SUFFICES ASSUME WidgetInv, [WidgetNext]_widgetVars PROVE WidgetInv'
    OBVIOUS
  <1>1. ASSUME NEW d \in Devices, Enter(d) PROVE WidgetInv'
    BY <1>1, FollowsFits DEF Enter, WidgetInv
  <1>2. CASE Leave
    BY <1>2, FollowsFits DEF Leave, WidgetInv
  <1>3. CASE StateAnswered
    BY <1>3, FollowsFits DEF StateAnswered, WidgetInv
  <1>4. CASE Act \/ ActAnswered \/ UNCHANGED widgetVars
    <2>1. UNCHANGED <<sources, unfolded, resizeVars>> /\ acting' \in BOOLEAN
      BY <1>4 DEF Act, ActAnswered, widgetVars, WidgetInv
    <2> QED BY <2>1 DEF WidgetInv, WidgetFits, resizeVars, ContentWidth, HasActions
  <1>5. ASSUME NEW w \in shrinks, Shrinks(w) PROVE WidgetInv'
    <2>1. w = ContentWidth /\ shrinks' = {} /\ ResizeWidget(w)
      BY <1>5 DEF Shrinks, WidgetInv
    <2>2. UNCHANGED <<sources, unfolded, acting>> /\ ContentWidth' = ContentWidth
      BY <1>5 DEF Shrinks, ContentWidth, HasActions
    <2>3. w \in Nat
      BY <2>1, ContentWidths
    <2>4. /\ width' \in widgetClosedWidth..widgetMaxWidth
          /\ refused' \in BOOLEAN /\ restored' \in BOOLEAN
          /\ ~refused' => width' = w
      BY <2>1, <2>3, ResizeTaken DEF WidgetInv
    <2> QED BY <2>1, <2>2, <2>3, <2>4 DEF WidgetInv, WidgetFits
  <1>6. CASE RestoreWindow
    <2>1. UNCHANGED <<sources, unfolded>> /\ ContentWidth' = ContentWidth
      BY <1>6 DEF RestoreWindow, ContentWidth, HasActions
    <2>2. width' \in widgetClosedWidth..widgetMaxWidth
      BY <1>6 DEF RestoreWindow, widgetClosedWidth, widgetMaxWidth
    <2> QED BY <1>6, <2>1, <2>2 DEF RestoreWindow, WidgetInv, WidgetFits
  <1> QED BY <1>1, <1>2, <1>3, <1>4, <1>5, <1>6 DEF WidgetNext

LEMMA WidgetTyped == WidgetInv => WidgetTypeOK
  <1> SUFFICES ASSUME WidgetInv PROVE WidgetTypeOK
    OBVIOUS
  <1>1. shrinks = {} \/ shrinks = {ContentWidth}
    BY DEF WidgetInv
  <1>2. Cardinality(shrinks) = 0 \/ Cardinality(shrinks) = 1
    BY <1>1, FS_EmptySet, FS_Singleton, Zenon
  <1>3. Cardinality(shrinks) <= 1
    BY <1>2
  <1> QED BY <1>3 DEF WidgetInv, WidgetTypeOK

-----------------------------------------------------------------------------
(* The graph.                                                              *)

USE GraphAssumption

Increases(s) == \A i, j \in DOMAIN s : i < j => s[i] < s[j]

\* A finite set of numbers can be counted from the least to the greatest: the
\* least comes before the others.
LEMMA IncreasingExists ==
    ASSUME NEW S \in SUBSET Nat, IsFiniteSet(S)
    PROVE  \E s \in [1..Cardinality(S) -> S] : Increases(s)
  <1> DEFINE Countable(n) == \A T \in SUBSET Nat : IsFiniteSet(T) /\ Cardinality(T) = n =>
                                \E s \in [1..n -> T] : Increases(s)
             N == {n \in Nat : Countable(n)}
  <1>1. Countable(0)
    <2> SUFFICES ASSUME NEW T \in SUBSET Nat PROVE \E s \in [1..0 -> T] : Increases(s)
      OBVIOUS
    <2> DEFINE e == [i \in 1..0 |-> 0]
    <2>1. e \in [1..0 -> T] /\ Increases(e)
      BY DEF Increases
    <2> HIDE DEF e
    <2> QED BY <2>1
  <1>2. ASSUME NEW n \in Nat, Countable(n) PROVE Countable(n + 1)
    <2> SUFFICES ASSUME NEW T \in SUBSET Nat, IsFiniteSet(T), Cardinality(T) = n + 1
                 PROVE  \E s \in [1..n + 1 -> T] : Increases(s)
      OBVIOUS
    <2>1. T # {}
      BY FS_EmptySet
    <2>2. PICK m \in T : \A k \in T : m <= k
      BY <2>1, LeastNumber
    <2>3. IsFiniteSet(T \ {m}) /\ Cardinality(T \ {m}) = n
      <3>1. /\ IsFiniteSet(T \ {m})
            /\ Cardinality(T \ {m}) = IF m \in T THEN Cardinality(T) - 1 ELSE Cardinality(T)
        BY FS_RemoveElement
      <3> QED BY <3>1
    <2>4. PICK s \in [1..n -> T \ {m}] : Increases(s)
      BY <1>2, <2>3
    <2> DEFINE r == [i \in 1..n + 1 |-> IF i = 1 THEN m ELSE s[i - 1]]
    <2>5. \A i \in 2..n + 1 : i - 1 \in 1..n /\ r[i] = s[i - 1] /\ r[i] \in T \ {m}
      BY <2>4
    <2>6. r[1] = m /\ DOMAIN r = 1..n + 1 /\ r = [i \in 1..n + 1 |-> r[i]]
      OBVIOUS
    <2> HIDE DEF r
    <2>7. r \in [1..n + 1 -> T]
      <3>1. \A i \in 1..n + 1 : r[i] \in T
        <4> SUFFICES ASSUME NEW i \in 1..n + 1 PROVE r[i] \in T
          OBVIOUS
        <4>1. CASE i = 1
          BY <2>6, <4>1
        <4>2. CASE i # 1
          <5>1. i \in 2..n + 1
            BY <4>2
          <5> QED BY <2>5, <5>1
        <4> QED BY <4>1, <4>2
      <3> QED BY <2>6, <3>1
    <2>8. Increases(r)
      <3> SUFFICES ASSUME NEW i \in 1..n + 1, NEW j \in 1..n + 1, i < j PROVE r[i] < r[j]
        BY <2>6 DEF Increases
      <3>1. j \in 2..n + 1 /\ r[j] \in T \ {m} /\ r[j] = s[j - 1]
        BY <2>5
      <3>2. CASE i = 1
        BY <2>2, <2>6, <3>1, <3>2
      <3>3. CASE i # 1
        <4>1. i \in 2..n + 1 /\ r[i] = s[i - 1] /\ i - 1 \in 1..n /\ j - 1 \in 1..n /\ i - 1 < j - 1
          BY <2>5, <3>1, <3>3
        <4> QED BY <2>4, <3>1, <4>1 DEF Increases
      <3> QED BY <3>2, <3>3
    <2> QED BY <2>7, <2>8
  <1>3. 0 \in N /\ \A n \in Nat : n \in N => n + 1 \in N
    BY <1>1, <1>2
  <1> HIDE DEF N
  <1>4. \A n \in Nat : n \in N
    BY <1>3, Induction
  <1>5. Cardinality(S) \in Nat
    BY FS_CardinalityType
  <1> QED BY <1>4, <1>5 DEF N

\* What increases tells its places apart.
LEMMA IncreasingInjects ==
    ASSUME NEW n, NEW s \in [1..n -> Nat], Increases(s)
    PROVE  \A i, j \in 1..n : (s[i] = s[j] => i = j) /\ (s[i] < s[j] => i < j)
  <1> SUFFICES ASSUME NEW i \in 1..n, NEW j \in 1..n
               PROVE  (s[i] = s[j] => i = j) /\ (s[i] < s[j] => i < j)
    OBVIOUS
  <1>1. s[i] \in Nat /\ s[j] \in Nat /\ i \in Int /\ j \in Int
    OBVIOUS
  <1>2. (i < j => s[i] < s[j]) /\ (j < i => s[j] < s[i])
    BY DEF Increases
  <1> QED BY <1>1, <1>2

\* What Ordered returns: all of the set, once each and in order.
LEMMA OrderedIs ==
    ASSUME NEW S \in SUBSET Nat, IsFiniteSet(S)
    PROVE  /\ Ordered(S) \in [1..Cardinality(S) -> S] /\ Cardinality(S) \in Nat
           /\ Increases(Ordered(S))
           /\ \A x \in S : \E i \in DOMAIN Ordered(S) : Ordered(S)[i] = x
  <1> DEFINE n == Cardinality(S)
             s == Ordered(S)
  <1>1. n \in Nat /\ IsFiniteSet(1..n) /\ Cardinality(1..n) = n
    BY FS_CardinalityType, FS_Interval
  <1>2. s \in [1..n -> S] /\ Increases(s)
    BY IncreasingExists DEF Ordered, Increases
  <1> HIDE DEF s
  <1>3. \A i, j \in 1..n : s[i] = s[j] => i = j
    <2>1. Increases(s) /\ s \in [1..n -> Nat]
      BY <1>2
    <2> QED BY <1>1, <2>1, IncreasingInjects, ZenonT(30)
  <1>4. s \in Injection(1..n, S)
    BY <1>2, <1>3 DEF Injection, IsInjective
  <1>5. s \in Surjection(1..n, S)
    BY <1>1, <1>4, FS_Injection
  <1>6. \A x \in S : \E i \in 1..n : s[i] = x
    BY <1>5 DEF Surjection
  <1> QED BY <1>1, <1>2, <1>6 DEF s

-----------------------------------------------------------------------------
(* What is drawn.                                                          *)

\* The types, with the links as a sequence, which repeats none.
GraphInv ==
    /\ snapshot = [links |-> snapshot.links, tags |-> snapshot.tags]
    /\ snapshot.links \in Seq(Link)
    /\ IsInjective(snapshot.links)
    /\ snapshot.tags \in [GraphTerms -> SUBSET Topics]
    /\ activeTag \in Topics \cup {NoTag}
    /\ selected \in Entries \cup {NoEntry}

\* The visible terms of a thought.
Visible(t) == Linked(t) \cap Shown

LEMMA TermsAreVisible ==
    ASSUME GraphInv, NEW t
    PROVE  /\ ToSet(TermsOf(t)) = Visible(t)
           /\ IsFiniteSet(Visible(t)) /\ Visible(t) \subseteq GraphTerms
  <1> DEFINE links == snapshot.links
             K == {k \in DOMAIN links : links[k].thought = t /\ links[k].term \in Shown}
             s == Ordered(K)
             n == Cardinality(K)
  <1>1. links \in Seq(Link) /\ DOMAIN links = 1..Len(links) /\ Len(links) \in Nat
    BY DEF GraphInv
  <1>2. K \in SUBSET Nat /\ IsFiniteSet(K)
    <2>1. IsFiniteSet(1..Len(links))
      BY <1>1, FS_Interval
    <2>2. K \in SUBSET (1..Len(links))
      BY <1>1
    <2> HIDE DEF K
    <2>3. IsFiniteSet(K)
      BY <2>1, <2>2, FS_Subset
    <2> QED BY <1>1, <2>2, <2>3
  <1>3. /\ s \in [1..n -> K] /\ n \in Nat
        /\ \A x \in K : \E i \in DOMAIN s : s[i] = x
    BY <1>2, OrderedIs
  <1>4. TermsOf(t) = [k \in DOMAIN s |-> links[s[k]].term]
    BY DEF TermsOf
  <1>5. Visible(t) = {links[k].term : k \in K}
    <2>1. ToSet(links) = {links[k] : k \in DOMAIN links}
      BY DEF ToSet
    <2> QED BY <2>1 DEF Visible, Linked
  <1> HIDE DEF K, s, n
  <1>6. ToSet(TermsOf(t)) = {links[s[k]].term : k \in DOMAIN s}
    BY <1>4 DEF ToSet
  <1>7. ToSet(TermsOf(t)) = Visible(t)
    BY <1>3, <1>5, <1>6
  <1>8. IsFiniteSet(Visible(t))
    <2> DEFINE f == [k \in K |-> links[k].term]
    <2>1. f \in Surjection(K, Visible(t))
      BY <1>5 DEF Surjection
    <2> QED BY <1>2, <2>1, FS_Surjection
  <1>9. Visible(t) \subseteq GraphTerms
    BY DEF Visible, Shown
  <1> QED BY <1>7, <1>8, <1>9

\* A thought makes an edge between any two of its visible terms, from the
\* lesser to the greater.
LEMMA PairsAre ==
    ASSUME GraphInv, NEW t
    PROVE  PairsOf(t) = {p \in GraphTerms \X GraphTerms :
                            p[1] \in Visible(t) /\ p[2] \in Visible(t) /\ p[1] < p[2]}
  <1> DEFINE V == Visible(t)
             u == Unique(TermsOf(t))
             n == Cardinality(V)
  <1>1. V \in SUBSET Nat /\ IsFiniteSet(V) /\ u = Ordered(V) /\ V \subseteq GraphTerms
    BY TermsAreVisible DEF Unique
  <1>2. /\ u \in [1..n -> V] /\ n \in Nat /\ Increases(u)
        /\ \A x \in V : \E i \in 1..n : u[i] = x
    BY <1>1, OrderedIs
  <1>3. Len(u) = n
    BY <1>2
  <1>4. PairsOf(t) = UNION {{<<u[k], u[m]>> : m \in k + 1 .. n} : k \in 1..n}
    BY <1>2, <1>3 DEF PairsOf
  <1> HIDE DEF V, u, n
  <1>5. ASSUME NEW p \in PairsOf(t)
        PROVE  p \in V \X V /\ p[1] < p[2]
    <2>1. PICK k \in 1..n : p \in {<<u[k], u[m]>> : m \in k + 1 .. n}
      BY <1>4
    <2>2. PICK m \in k + 1 .. n : p = <<u[k], u[m]>>
      BY <2>1
    <2>3. m \in 1..n /\ k < m
      BY <1>2, <2>2
    <2> QED BY <1>2, <2>2, <2>3 DEF Increases
  <1>6. ASSUME NEW a \in V, NEW b \in V, a < b
        PROVE  <<a, b>> \in PairsOf(t)
    <2>1. PICK k \in 1..n : u[k] = a
      BY <1>2
    <2>2. PICK m \in 1..n : u[m] = b
      BY <1>2
    <2>3. k < m
      <3>1. u \in [1..n -> Nat]
        BY <1>1, <1>2
      <3>2. u[k] < u[m] => k < m
        BY <1>2, <3>1, IncreasingInjects
      <3> QED BY <1>6, <2>1, <2>2, <3>2
    <2>4. m \in k + 1 .. n
      BY <1>2, <2>3
    <2>5. <<a, b>> \in {<<u[k], u[i]>> : i \in k + 1 .. n}
      BY <2>1, <2>2, <2>4
    <2> QED BY <1>4, <2>5
  <1> QED BY <1>1, <1>5, <1>6 DEF V

\* The edge between i and k stands for the thoughts that make it.
EdgeOf(i, k) == [ends |-> <<i, k>>, thoughtIds |-> {t \in Thoughts : <<i, k>> \in PairsOf(t)}]

LEMMA EdgesAre ==
    ASSUME GraphInv, NEW e \in Edges
    PROVE  \E i, k \in GraphTerms : /\ i < k /\ {i, k} \subseteq Shown /\ e = EdgeOf(i, k)
                                    /\ e.ends = <<i, k>> /\ ToSet(e.ends) = {i, k}
  <1>1. PICK p \in UNION {PairsOf(t) : t \in Thoughts} :
            e = [ends |-> p, thoughtIds |-> {t \in Thoughts : p \in PairsOf(t)}]
    BY DEF Edges
  <1>2. PICK t \in Thoughts : p \in PairsOf(t)
    BY <1>1
  <1>3. /\ p \in GraphTerms \X GraphTerms /\ p[1] < p[2]
        /\ p[1] \in Visible(t) /\ p[2] \in Visible(t)
    BY <1>2, PairsAre
  <1>4. p = <<p[1], p[2]>> /\ p[1] \in GraphTerms /\ p[2] \in GraphTerms
    BY <1>3
  <1>5. {p[1], p[2]} \subseteq Shown
    BY <1>3 DEF Visible
  <1>6. e = EdgeOf(p[1], p[2]) /\ e.ends = <<p[1], p[2]>>
    BY <1>1, <1>4 DEF EdgeOf
  <1>7. ToSet(e.ends) = {p[1], p[2]}
    BY <1>6 DEF ToSet
  <1> QED BY <1>3, <1>4, <1>5, <1>6, <1>7

\* The thoughts that make the edge between two terms that are shown are those
\* that both are linked to.
LEMMA MadeBy ==
    ASSUME GraphInv, NEW i \in GraphTerms, NEW k \in GraphTerms, i < k, {i, k} \subseteq Shown
    PROVE  \A t : <<i, k>> \in PairsOf(t) <=> {i, k} \subseteq Linked(t)
  <1> SUFFICES ASSUME NEW t PROVE <<i, k>> \in PairsOf(t) <=> {i, k} \subseteq Linked(t)
    OBVIOUS
  <1>1. <<i, k>> \in PairsOf(t) <=> i \in Visible(t) /\ k \in Visible(t)
    BY PairsAre
  <1> QED BY <1>1 DEF Visible

LEMMA EdgeIsDrawn ==
    ASSUME GraphInv, NEW i \in GraphTerms, NEW k \in GraphTerms, i < k, {i, k} \subseteq Shown,
           NEW t \in Thoughts, {i, k} \subseteq Linked(t)
    PROVE  EdgeOf(i, k) \in Edges
  <1>1. <<i, k>> \in PairsOf(t)
    BY MadeBy
  <1> QED BY <1>1 DEF Edges, EdgeOf

\* Two ends say which edge it is.
LEMMA JoiningOne ==
    ASSUME GraphInv, NEW i \in GraphTerms, NEW k \in GraphTerms, i < k,
           NEW e \in Edges, ToSet(e.ends) = {i, k}
    PROVE  e = EdgeOf(i, k) /\ {i, k} \subseteq Shown
  <1>1. PICK a \in GraphTerms :
            \E b \in GraphTerms : /\ a < b /\ {a, b} \subseteq Shown /\ e = EdgeOf(a, b)
                                  /\ ToSet(e.ends) = {a, b}
    BY EdgesAre
  <1>2. PICK b \in GraphTerms : /\ a < b /\ {a, b} \subseteq Shown /\ e = EdgeOf(a, b)
                                /\ ToSet(e.ends) = {a, b}
    BY <1>1
  <1>3. {a, b} = {i, k}
    BY <1>2
  <1>4. a \in Nat /\ b \in Nat /\ i \in Nat /\ k \in Nat
    OBVIOUS
  <1>5. a = i /\ b = k
    <2>1. a = i \/ a = k
      BY <1>3
    <2>2. b = i \/ b = k
      BY <1>3
    <2> QED BY <1>2, <1>4, <2>1, <2>2
  <1> QED BY <1>2, <1>5

LEMMA EdgesShared == GraphInv => EdgesAreShared
  <1> SUFFICES ASSUME GraphInv PROVE EdgesAreShared
    OBVIOUS
  <1> DEFINE joining(S) == {e \in Edges : ToSet(e.ends) = S}
             shared(S)  == {t \in Thoughts : S \subseteq Linked(t)}
  <1>1. ASSUME NEW i \in GraphTerms, NEW k \in GraphTerms, i < k,
               {i, k} \subseteq Shown, shared({i, k}) # {}
        PROVE  /\ Cardinality(joining({i, k})) = 1
               /\ \A e \in joining({i, k}) : e.thoughtIds = shared({i, k})
    <2>1. EdgeOf(i, k) \in Edges
      BY <1>1, EdgeIsDrawn
    <2>2. EdgeOf(i, k).ends = <<i, k>>
      BY DEF EdgeOf
    <2>3. ToSet(EdgeOf(i, k).ends) = {i, k}
      BY <2>2 DEF ToSet
    <2>4. joining({i, k}) = {EdgeOf(i, k)}
      BY <1>1, <2>1, <2>3, JoiningOne
    <2>5. EdgeOf(i, k).thoughtIds = shared({i, k})
      BY <1>1, MadeBy DEF EdgeOf
    <2> QED BY <2>4, <2>5, FS_Singleton
  <1>2. ASSUME NEW i \in GraphTerms, NEW k \in GraphTerms, i < k,
               ~({i, k} \subseteq Shown) \/ shared({i, k}) = {}
        PROVE  joining({i, k}) = {}
    <2> SUFFICES ASSUME NEW e \in joining({i, k}) PROVE FALSE
      OBVIOUS
    <2>1. e = EdgeOf(i, k) /\ {i, k} \subseteq Shown /\ e \in Edges
      BY <1>2, JoiningOne
    <2>2. PICK p \in UNION {PairsOf(t) : t \in Thoughts} : e.ends = p
      BY <2>1 DEF Edges
    <2>3. PICK t \in Thoughts : <<i, k>> \in PairsOf(t)
      BY <2>1, <2>2 DEF EdgeOf
    <2> QED BY <1>2, <2>1, <2>3, MadeBy
  <1>3. ASSUME selected # NoEntry, selected.kind = "thought"
        PROVE  ActiveEdges = {e \in Edges : ToSet(e.ends) \subseteq HighlightedTerms}
    <2> DEFINE t == selected.id
    <2>1. t \in Thoughts
      BY <1>3 DEF GraphInv, Entries, TermEntry, ThoughtEntry
    <2>2. HighlightedTerms = Linked(t)
      BY <1>3 DEF HighlightedTerms
    <2>3. ActiveEdges = {e \in Edges : t \in e.thoughtIds}
      BY <1>3 DEF ActiveEdges
    <2> HIDE DEF t
    <2>4. ASSUME NEW e \in Edges
          PROVE  t \in e.thoughtIds <=> ToSet(e.ends) \subseteq Linked(t)
      <3>1. PICK i \in GraphTerms :
                \E k \in GraphTerms : /\ i < k /\ {i, k} \subseteq Shown /\ e = EdgeOf(i, k)
                                      /\ ToSet(e.ends) = {i, k}
        BY EdgesAre
      <3>2. PICK k \in GraphTerms : /\ i < k /\ {i, k} \subseteq Shown /\ e = EdgeOf(i, k)
                                    /\ ToSet(e.ends) = {i, k}
        BY <3>1
      <3>3. t \in e.thoughtIds <=> <<i, k>> \in PairsOf(t)
        BY <2>1, <3>2 DEF EdgeOf
      <3>4. <<i, k>> \in PairsOf(t) <=> {i, k} \subseteq Linked(t)
        BY <3>2, MadeBy
      <3> QED BY <3>2, <3>3, <3>4
    <2> QED BY <2>2, <2>3, <2>4
  <1> QED BY <1>1, <1>2, <1>3 DEF EdgesAreShared

-----------------------------------------------------------------------------
\* A link put in at some place.
LEMMA Inserted ==
    ASSUME NEW T, NEW s \in Seq(T), NEW x \in T, NEW k \in 1..Len(s) + 1
    PROVE  /\ InsertAt(s, k, x) \in Seq(T) /\ DOMAIN InsertAt(s, k, x) = 1..Len(s) + 1
           /\ \A i \in 1..Len(s) + 1 :
                  InsertAt(s, k, x)[i] = IF i < k THEN s[i] ELSE IF i = k THEN x ELSE s[i - 1]
  <1> DEFINE n == Len(s)
             p == SubSeq(s, 1, k - 1)
             q == SubSeq(s, k, n)
             r == p \o <<x>>
  <1>1. n \in Nat /\ k \in 1..n + 1
    OBVIOUS
  <1>2. p \in Seq(T) /\ Len(p) = k - 1 /\ \A i \in 1..k - 1 : p[i] = s[i]
    BY <1>1
  <1>3. q \in Seq(T) /\ Len(q) = n - k + 1 /\ \A i \in 1..n - k + 1 : q[i] = s[k + i - 1]
    BY <1>1
  <1>4. InsertAt(s, k, x) = r \o q
    BY DEF InsertAt
  <1> HIDE DEF p, q
  <1>5. r \in Seq(T) /\ Len(r) = k /\ r[k] = x /\ \A i \in 1..k - 1 : r[i] = s[i]
    BY <1>1, <1>2
  <1> HIDE DEF r, n
  <1>6. r \o q \in Seq(T) /\ DOMAIN (r \o q) = 1..n + 1
    <2>1. r \o q \in Seq(T) /\ Len(r \o q) = Len(r) + Len(q)
      <3>1. r \in Seq(T) /\ q \in Seq(T)
        BY <1>3, <1>5
      <3> QED BY <3>1
    <2>2. Len(r) + Len(q) = n + 1
      BY <1>1, <1>3, <1>5
    <2> QED BY <2>1, <2>2
  <1>7. ASSUME NEW i \in 1..n + 1
        PROVE  (r \o q)[i] = IF i < k THEN s[i] ELSE IF i = k THEN x ELSE s[i - 1]
    <2>1. CASE i <= k
      BY <1>1, <1>3, <1>5, <2>1
    <2>2. CASE i > k
      <3>1. i - k \in 1..n - k + 1 /\ (r \o q)[i] = q[i - k]
        BY <1>1, <1>3, <1>5, <2>2
      <3>2. k + (i - k) - 1 = i - 1
        BY <1>1
      <3> QED BY <1>1, <1>3, <2>2, <3>1, <3>2
    <2>3. i <= k \/ i > k
      BY <1>1
    <2> QED BY <2>1, <2>2, <2>3
  <1> QED BY <1>4, <1>6, <1>7 DEF n

LEMMA InsertedInjects ==
    ASSUME NEW T, NEW s \in Seq(T), IsInjective(s), NEW x \in T \ ToSet(s),
           NEW k \in 1..Len(s) + 1
    PROVE  IsInjective(InsertAt(s, k, x))
  <1> DEFINE r == InsertAt(s, k, x)
             n == Len(s)
  <1>1. /\ DOMAIN r = 1..n + 1 /\ n \in Nat
        /\ \A i \in 1..n + 1 : r[i] = IF i < k THEN s[i] ELSE IF i = k THEN x ELSE s[i - 1]
    <2>1. x \in T /\ n \in Nat
      OBVIOUS
    <2>2. DOMAIN r = 1..Len(s) + 1
      BY <2>1, Inserted, Zenon
    <2>3. \A i \in 1..Len(s) + 1 : r[i] = IF i < k THEN s[i] ELSE IF i = k THEN x ELSE s[i - 1]
      <3> SUFFICES ASSUME NEW i \in 1..Len(s) + 1
                   PROVE  r[i] = IF i < k THEN s[i] ELSE IF i = k THEN x ELSE s[i - 1]
        OBVIOUS
      <3> HIDE DEF r
      <3>1. r = InsertAt(s, k, x)
        BY DEF r
      <3>2. InsertAt(s, k, x)[i] = IF i < k THEN s[i] ELSE IF i = k THEN x ELSE s[i - 1]
        BY <2>1, Inserted
      <3> QED BY <3>1, <3>2
    <2> QED BY <2>1, <2>2, <2>3
  <1>2. \A i \in 1..n : s[i] # x
    BY DEF ToSet
  <1>3. \A i, j \in 1..n : s[i] = s[j] => i = j
    BY DEF IsInjective
  <1> HIDE DEF r, n
  <1> SUFFICES ASSUME NEW i \in 1..n + 1, NEW j \in 1..n + 1, r[i] = r[j] PROVE i = j
    BY <1>1 DEF IsInjective, r
  <1>4. (i < k => i \in 1..n /\ r[i] = s[i]) /\ (i > k => i - 1 \in 1..n /\ r[i] = s[i - 1])
        /\ (i = k => r[i] = x)
    BY <1>1 DEF n
  <1>5. (j < k => j \in 1..n /\ r[j] = s[j]) /\ (j > k => j - 1 \in 1..n /\ r[j] = s[j - 1])
        /\ (j = k => r[j] = x)
    BY <1>1 DEF n
  <1> QED BY <1>1, <1>2, <1>3, <1>4, <1>5 DEF n

LEMMA GraphStarts == GraphInit => GraphInv
  BY DEF GraphInit, GraphInv, IsInjective

LEMMA GraphStep == GraphInv /\ [GraphNext]_graphVars => GraphInv'
  <1> SUFFICES ASSUME GraphInv, [GraphNext]_graphVars PROVE GraphInv'
    OBVIOUS
  <1>1. CASE Refetched
    <2>1. ASSUME NEW l \in Link \ ToSet(snapshot.links), NEW k \in 1..Len(snapshot.links) + 1,
                 snapshot' = [snapshot EXCEPT !.links = InsertAt(@, k, l)]
          PROVE  GraphInv'
      <3>1. InsertAt(snapshot.links, k, l) \in Seq(Link)
        BY Inserted DEF GraphInv
      <3>2. IsInjective(InsertAt(snapshot.links, k, l))
        BY InsertedInjects DEF GraphInv
      <3> QED BY <1>1, <2>1, <3>1, <3>2 DEF GraphInv, Refetched
    <2>2. ASSUME NEW i \in GraphTerms, NEW g \in Topics,
                 snapshot' = [snapshot EXCEPT !.tags[i] = SymDiff(@, {g})]
          PROVE  GraphInv'
      <3>1. SymDiff(snapshot.tags[i], {g}) \in SUBSET Topics
        BY DEF SymDiff, GraphInv
      <3> QED BY <1>1, <2>2, <3>1 DEF GraphInv, Refetched
    <2> QED BY <1>1, <2>1, <2>2 DEF Refetched
  <1>2. ASSUME NEW g \in Topics \cup {NoTag}, ChooseTopic(g) PROVE GraphInv'
    BY <1>2 DEF ChooseTopic, GraphInv
  <1>3. ASSUME NEW entry \in Entries \cup {NoEntry}, Pick(entry) PROVE GraphInv'
    BY <1>3 DEF Pick, GraphInv
  <1>4. CASE UNCHANGED graphVars
    BY <1>4 DEF graphVars, GraphInv
  <1> QED BY <1>1, <1>2, <1>3, <1>4 DEF GraphNext

LEMMA GraphTyped == GraphInv => GraphTypeOK
  BY DEF GraphInv, GraphTypeOK, ToSet

-----------------------------------------------------------------------------
(* The types of the session and of the window.                             *)

USE FeedAssumption

LEMMA FeedLog == FeedTypeOK => log \in Seq(Kinds) /\ Len(log) \in 0..MaxEvents
  <1> SUFFICES ASSUME FeedTypeOK PROVE log \in Seq(Kinds) /\ Len(log) \in 0..MaxEvents
    OBVIOUS
  <1>1. PICK n \in 0..MaxEvents : log \in [1..n -> Kinds]
    BY DEF FeedTypeOK
  <1> QED BY <1>1

LEMMA FeedStarts == FeedInit => FeedTypeOK
  <1>1. <<>> \in [1..0 -> Kinds]
    OBVIOUS
  <1> QED BY <1>1 DEF FeedInit, FeedTypeOK

LEMMA SequenceIsFunction == ASSUME NEW T, NEW s \in Seq(T) PROVE s \in [1..Len(s) -> T]
  OBVIOUS

LEMMA RecordTyped == ASSUME FeedTypeOK, NEW K \in SUBSET Kinds, Record(K) PROVE FeedTypeOK'
  <1>1. PICK k \in K : log' = Append(log, k)
    BY DEF Record
  <1>2. log \in Seq(Kinds) /\ Len(log) \in Nat /\ Len(log) < MaxEvents
    BY FeedLog DEF Record
  <1>3. log' \in [1..Len(log) + 1 -> Kinds]
    <2>1. k \in Kinds
      OBVIOUS
    <2>2. Append(log, k) \in Seq(Kinds) /\ Len(Append(log, k)) = Len(log) + 1
      BY <1>2, <2>1
    <2>3. Append(log, k) \in [1..Len(Append(log, k)) -> Kinds]
      BY <2>2, SequenceIsFunction
    <2> QED BY <1>1, <2>2, <2>3
  <1>4. Len(log) + 1 \in 0..MaxEvents
    BY <1>2
  <1> QED BY <1>3, <1>4 DEF Record, FeedTypeOK

LEMMA FaultTyped == ASSUME FeedTypeOK, Fault PROVE FeedTypeOK'
  BY DEF FeedTypeOK, Fault

LEMMA FeedUntouched == ASSUME FeedTypeOK, UNCHANGED feedVars PROVE FeedTypeOK'
  BY DEF FeedTypeOK, feedVars

\* A stream after a frame, or after the server has written.
LEMMA StreamTypes ==
    /\ \A n \in 0..MaxEvents : StreamAfter(n) \in Streams
    /\ FeedTypeOK => \A s \in Streams :
          /\ Wrote(s) \in Streams
          /\ HasFrame(s) => /\ NextFrame(s) \in 0..MaxEvents
                            /\ [s EXCEPT !.read = NextFrame(s)] \in Streams
  BY FeedLog DEF StreamAfter, Streams, Wrote, HasFrame, NextFrame

\* The types of what the session has of its own.
SessionTypes ==
    /\ token \in Tokens \cup {NoToken}
    /\ dialog \in BOOLEAN
    /\ connecting \subseteq Connect
    /\ polls \subseteq Tokens
    /\ generation \in Nat
    /\ loops \subseteq Loop
    /\ lastEventID \in 0..MaxEvents
    /\ calls \in 0..MaxConnects

LEMMA SessionStarts == SignedOut \/ Restored => SessionTypes
  <1>1. CASE SignedOut
    BY <1>1, ConnectsAssumption DEF SignedOut, SessionTypes, StreamUnopened
  <1>2. CASE Restored
    <2>1. token \in Tokens => [origin |-> "init", step |-> "status", sent |-> token] \in Connect
      BY DEF Connect
    <2>2. connecting \subseteq Connect /\ calls \in 0..MaxConnects /\ lastEventID \in 0..MaxEvents
      BY <1>2, <2>1, ConnectsAssumption DEF Restored, StreamUnopened
    <2> QED BY <1>2, <2>2 DEF Restored, SessionTypes, StreamUnopened
  <1> QED BY <1>1, <1>2

\* A loop takes the place of another, or of none.
LEMMA ReplaceTyped ==
    ASSUME SessionTypes, NEW l, NEW k \in Loop, loops' = (loops \ {l}) \cup {k}
    PROVE  loops' \subseteq Loop
  BY DEF SessionTypes

LEMMA FetchingTyped == SessionTypes => \A g \in Nat : Fetching(g) \in Loop
  BY StreamTypes DEF SessionTypes, Fetching, Loop

LEMMA UnauthorizedTyped ==
    ASSUME SessionTypes, Unauthorized
    PROVE  token' \in Tokens \cup {NoToken} /\ dialog' \in BOOLEAN /\ generation' \in Nat
           /\ loops' \subseteq Loop
  BY DEF Unauthorized, Disconnect, Aborted, SessionTypes

LEMMA SessionTyped ==
    ASSUME SessionTypes,
           \/ \E t \in Tokens : SubmitToken(t)
           \/ ChangeToken \/ Poll
           \/ \E c \in connecting : StatusAnswered(c) \/ ListsAnswered(c) \/ ConnectFails(c)
           \/ \E t \in polls : PollAnswered(t)
    PROVE  SessionTypes'
  <1>1. ASSUME NEW t \in Tokens, SubmitToken(t) PROVE SessionTypes'
    <2>1. [origin |-> "form", step |-> "status", sent |-> t] \in Connect
      BY DEF Connect
    <2>2. calls' \in 0..MaxConnects
      BY <1>1, ConnectsAssumption DEF SubmitToken, SessionTypes
    <2> QED BY <1>1, <2>1, <2>2 DEF SubmitToken, loopVars, SessionTypes
  <1>2. CASE ChangeToken
    BY <1>2 DEF ChangeToken, Disconnect, Aborted, SessionTypes
  <1>3. CASE Poll
    BY <1>3 DEF Poll, loopVars, SessionTypes
  <1>4. ASSUME NEW c \in connecting, StatusAnswered(c) PROVE SessionTypes'
    <2>1. CASE Refused(c.sent)
      BY <1>4, <2>1, UnauthorizedTyped DEF StatusAnswered, SessionTypes
    <2>2. CASE ~Refused(c.sent)
      <3>1. [c EXCEPT !.step = "lists", !.sent = token] \in Connect
        BY DEF SessionTypes, Connect
      <3> QED BY <1>4, <2>2, <3>1 DEF StatusAnswered, SessionTypes
    <2> QED BY <2>1, <2>2
  <1>5. ASSUME NEW c \in connecting, ListsAnswered(c) PROVE SessionTypes'
    <2>1. CASE Refused(c.sent)
      BY <1>5, <2>1 DEF ListsAnswered, Aborted, SessionTypes
    <2>2. CASE ~Refused(c.sent)
      <3>1. /\ StartEventStream /\ UNCHANGED <<token, dialog, polls, lastEventID, calls>>
            /\ connecting' = connecting \ {c}
        BY <1>5, <2>2 DEF ListsAnswered
      <3>2. generation' = generation + 1 /\ loops' \subseteq loops \cup {Fetching(generation')}
        BY <3>1 DEF StartEventStream, Aborted
      <3>3. generation + 1 \in Nat /\ Fetching(generation + 1) \in Loop
        BY FetchingTyped DEF SessionTypes
      <3> QED BY <3>1, <3>2, <3>3 DEF SessionTypes
    <2> QED BY <2>1, <2>2
  <1>6. ASSUME NEW c \in connecting, ConnectFails(c) PROVE SessionTypes'
    BY <1>6 DEF ConnectFails, loopVars, SessionTypes
  <1>7. ASSUME NEW t \in polls, PollAnswered(t) PROVE SessionTypes'
    <2>1. CASE Refused(t)
      BY <1>7, <2>1, UnauthorizedTyped DEF PollAnswered, SessionTypes
    <2>2. CASE ~Refused(t)
      BY <1>7, <2>2 DEF PollAnswered, SessionTypes
    <2> QED BY <2>1, <2>2
  <1> QED BY <1>1, <1>2, <1>3, <1>4, <1>5, <1>6, <1>7

LEMMA RoundTyped ==
    ASSUME SessionTypes, NEW l \in loops, GoesRound(l)
    PROVE  loops' \subseteq Loop
  <1>1. Fetching(l.of) \in Loop
    BY FetchingTyped DEF SessionTypes, Loop
  <1> QED BY <1>1 DEF GoesRound, SessionTypes

LEMMA LoopTyped ==
    ASSUME FeedTypeOK, SessionTypes, NEW l \in loops,
           \/ StreamAnswered(l) \/ FramesWritten(l) \/ ConsumeFrame(l)
           \/ StreamEnds(l) \/ StreamFails(l) \/ Wakes(l)
    PROVE  SessionTypes'
  <1>1. l \in Loop /\ l.stream \in Streams /\ Wrote(l.stream) \in Streams
    BY StreamTypes DEF SessionTypes, Loop
  <1>2. CASE StreamAnswered(l)
    <2>1. [l EXCEPT !.at = "read"] \in Loop
      BY <1>1 DEF Loop
    <2>2. CASE Refused(l.sent)
      BY <1>2, <2>2 DEF StreamAnswered, Aborted, SessionTypes
    <2>3. CASE ~Refused(l.sent)
      BY <1>2, <2>1, <2>3 DEF StreamAnswered, SessionTypes
    <2> QED BY <2>2, <2>3
  <1>3. CASE FramesWritten(l)
    <2>1. [l EXCEPT !.stream = Wrote(@)] \in Loop
      BY <1>1 DEF Loop
    <2> QED BY <1>3, <2>1 DEF FramesWritten, sessionVars, SessionTypes
  <1>4. CASE ConsumeFrame(l)
    <2> DEFINE s == [l.stream EXCEPT !.read = NextFrame(l.stream)]
    <2>1. s \in Streams /\ NextFrame(l.stream) \in 0..MaxEvents
      BY <1>1, <1>4, StreamTypes DEF ConsumeFrame
    <2>2. [l EXCEPT !.stream.read = NextFrame(l.stream)] = [l EXCEPT !.stream = s]
      BY <1>1 DEF Loop, Streams
    <2> HIDE DEF s
    <2>3. [l EXCEPT !.stream = s] \in Loop
      BY <1>1, <2>1 DEF Loop
    <2> QED BY <1>4, <2>1, <2>2, <2>3 DEF ConsumeFrame, sessionVars, SessionTypes
  <1>5. CASE StreamEnds(l) \/ Wakes(l)
    BY <1>5, RoundTyped DEF StreamEnds, Wakes, sessionVars, SessionTypes
  <1>6. CASE StreamFails(l)
    <2>1. [l EXCEPT !.at = "delay"] \in Loop
      BY <1>1 DEF Loop
    <2> QED BY <1>6, <2>1 DEF StreamFails, Catches, sessionVars, SessionTypes
  <1> QED BY <1>2, <1>3, <1>4, <1>5, <1>6

LEMMA ConsoleTyped == ConsoleTypeOK /\ ConsoleNext => ConsoleTypeOK'
  <1> SUFFICES ASSUME FeedTypeOK, SessionTypes, ConsoleNext PROVE FeedTypeOK' /\ SessionTypes'
    BY DEF ConsoleTypeOK, SessionTypes
  <1>1. CASE Record({"user"}) /\ UNCHANGED <<sessionVars, loopVars, calls>>
    <2>1. {"user"} \in SUBSET Kinds
      BY DEF Kinds
    <2> QED BY <1>1, <2>1, RecordTyped DEF sessionVars, loopVars, SessionTypes
  <1>2. SessionTypes'
    BY <1>1, SessionTyped, LoopTyped DEF ConsoleNext, Answers, Delivers
  <1>3. UNCHANGED feedVars \/ Fault => FeedTypeOK'
    BY FeedUntouched, FaultTyped
  <1>4. ConsoleNext => Record({"user"}) \/ UNCHANGED feedVars \/ Fault
    BY DEF ConsoleNext, Answers, Delivers, SubmitToken, ChangeToken, Poll, StatusAnswered,
           ListsAnswered, PollAnswered, StreamAnswered, FramesWritten, ConsumeFrame, Wakes,
           ConnectFails, StreamEnds, StreamFails
  <1>5. FeedTypeOK'
    <2>1. {"user"} \in SUBSET Kinds
      BY DEF Kinds
    <2> QED BY <1>3, <1>4, <2>1, RecordTyped
  <1> QED BY <1>2, <1>5

\* The types of what the window has of its own.
RequestTypes == {NoRequest} \cup [asked : {TRUE}, answer : 0..MaxEvents]

WindowTypes ==
    /\ appStatus \in {"loading", "ready", "failed"}
    /\ booting \in {"bootstrap", "probe", "nothing"}
    /\ live \in [at : {"off", "fetch", "read", "delay"}, stream : Streams]
    /\ lastID \in 0..MaxEvents
    /\ timer \in {"armed", "off"}
    /\ data \in 0..MaxEvents
    /\ asked \in RequestTypes
    /\ queryFails \in 0..MaxRetries + 1

LEMMA WindowTyped ==
    ASSUME FeedTypeOK, WindowTypes, DesktopNext
    PROVE  FeedTypeOK' /\ WindowTypes'
  <1>1. Request \in RequestTypes /\ NoRequest \in RequestTypes
    BY FeedLog DEF Request, RequestTypes
  <1>2. CASE Record(Kinds) /\ UNCHANGED <<bootVars, liveVars, queryVars>>
    BY <1>2, RecordTyped DEF bootVars, liveVars, queryVars, WindowTypes
  <1>3. CASE Bootstrapped \/ BootFails \/ Retry
    BY <1>3, FeedUntouched, FaultTyped DEF Bootstrapped, BootFails, Retry, bootVars, liveVars,
                                         queryVars, WindowTypes
  <1>4. CASE Probed \/ Reconnects
    <2>1. live' \in [at : {"off", "fetch", "read", "delay"}, stream : Streams]
      BY <1>4, StreamTypes DEF Probed, Reconnects, WindowTypes
    <2> QED BY <1>1, <1>4, <2>1, FeedUntouched DEF Probed, Reconnects, bootVars, queryVars, WindowTypes
  <1>5. CASE QueryAnswered
    <2>1. asked \in [asked : {TRUE}, answer : 0..MaxEvents]
      BY <1>5 DEF QueryAnswered, WindowTypes, RequestTypes
    <2> QED BY <1>1, <1>5, <2>1, FeedUntouched DEF QueryAnswered, bootVars, liveVars, WindowTypes,
                                                 MaxRetries
  <1>6. CASE QueryFails
    <2>1. queryFails' \in 0..MaxRetries + 1 /\ asked' \in RequestTypes
      BY <1>1, <1>6 DEF QueryFails, MaxRetries, WindowTypes
    <2> QED BY <1>6, <2>1, FaultTyped DEF QueryFails, bootVars, liveVars, WindowTypes
  <1>7. CASE Connected \/ TimerFires
    <2>1. live' \in [at : {"off", "fetch", "read", "delay"}, stream : Streams]
      BY <1>7 DEF Connected, TimerFires, WindowTypes
    <2> QED BY <1>1, <1>7, <2>1, FeedUntouched DEF Connected, TimerFires, Refreshes, bootVars,
                                                 WindowTypes, MaxRetries
  <1>8. CASE FrameWritten \/ Disconnected
    <2>1. Wrote(live.stream) \in Streams
      BY StreamTypes DEF WindowTypes
    <2>2. live' \in [at : {"off", "fetch", "read", "delay"}, stream : Streams]
      BY <1>8, <2>1 DEF FrameWritten, Disconnected, WindowTypes
    <2> QED BY <1>8, <2>2, FeedUntouched, FaultTyped DEF FrameWritten, Disconnected, bootVars,
                                                       queryVars, WindowTypes
  <1>9. CASE ReadFrame
    <2> DEFINE s == [live.stream EXCEPT !.read = NextFrame(live.stream)]
    <2>1. s \in Streams /\ NextFrame(live.stream) \in 0..MaxEvents
      BY <1>9, StreamTypes DEF ReadFrame, WindowTypes
    <2>2. live' = [live EXCEPT !.stream = s]
      BY <1>9 DEF ReadFrame, WindowTypes, Streams
    <2> HIDE DEF s
    <2>3. live' \in [at : {"off", "fetch", "read", "delay"}, stream : Streams]
      BY <2>1, <2>2 DEF WindowTypes
    <2> QED BY <1>9, <2>1, <2>3, FeedUntouched DEF ReadFrame, bootVars, queryVars, WindowTypes
  <1> QED BY <1>2, <1>3, <1>4, <1>5, <1>6, <1>7, <1>8, <1>9 DEF DesktopNext, Progress

-----------------------------------------------------------------------------
(* The parts side by side.  One of them runs, and the others stand still;  *)
(* the event log is common to the session and the window.                  *)

\* What each part keeps, whichever of them runs.
ClientsInv ==
    /\ part \in Parts
    /\ FeedTypeOK /\ SessionTypes /\ WindowTypes
    /\ StreamInv
    /\ CardsInv
    /\ FormInv
    /\ WidgetInv
    /\ GraphInv

LEMMA ClientsStart == ClientsInit => ClientsInv
  <1> SUFFICES ASSUME ClientsInit PROVE ClientsInv
    OBVIOUS
  <1>1. FeedInit /\ (SignedOut \/ Restored)
    BY DEF ClientsInit, ConsoleInit
  <1>2. ConsoleInit
    BY <1>1 DEF ConsoleInit
  <1>3. WindowUnopened /\ booting \in {"bootstrap", "nothing"}
    BY DEF ClientsInit, DesktopInit
  <1>4. StreamAfter(0) \in Streams
    BY StreamTypes
  <1>5. WindowTypes
    BY <1>3, <1>4 DEF WindowUnopened, WindowTypes, RequestTypes, MaxRetries
  <1>6. FeedTypeOK /\ SessionTypes /\ StreamInv
    BY <1>1, <1>2, FeedStarts, SessionStarts, ConsoleInitInv
  <1>7. CardsInit /\ SettingsInit /\ WidgetInit /\ GraphInit /\ part \in Parts
    BY DEF ClientsInit
  <1> QED
    BY <1>5, <1>6, <1>7, CardsInitInv, FormInit, WidgetStarts, GraphStarts DEF ClientsInv

\* The steps of the clients are steps of their parts.
LEMMA PartsStep ==
    ASSUME [ClientsNext]_clientsVars
    PROVE  /\ \/ ConsoleNext /\ UNCHANGED <<bootVars, liveVars, queryVars>>
              \/ DesktopNext /\ UNCHANGED <<sessionVars, loopVars, calls>>
              \/ UNCHANGED <<consoleVars, desktopVars>>
           /\ [CardsNext]_cardVars /\ [SettingsNext]_settingsVars
           /\ [WidgetNext]_widgetVars /\ [GraphNext]_graphVars
           /\ UNCHANGED part
  BY DEF ClientsNext, clientsVars, formsVars

\* The log, of which others may write the rest, is all that the stream and the
\* window have in common.
LEMMA StreamStays ==
    ASSUME StreamInv, FeedTypeOK', UNCHANGED <<sessionVars, loopVars>>
    PROVE  StreamInv'
  <1>1. log' \in Seq(Kinds)
    <2>1. (FeedTypeOK => log \in Seq(Kinds) /\ Len(log) \in 0..MaxEvents)'
      BY FeedLog, PTL
    <2> QED BY <2>1
  <1> QED BY <1>1 DEF StreamInv, Shapes, OneReads, sessionVars, loopVars

LEMMA ClientsStep == ClientsInv /\ [ClientsNext]_clientsVars => ClientsInv'
  <1> SUFFICES ASSUME ClientsInv, [ClientsNext]_clientsVars PROVE ClientsInv'
    OBVIOUS
  <1>1. CardsInv' /\ FormInv' /\ WidgetInv' /\ GraphInv' /\ part' \in Parts
    BY PartsStep, CardsStep, FormStep, WidgetStep, GraphStep DEF ClientsInv
  <1>2. FeedTypeOK' /\ SessionTypes' /\ WindowTypes' /\ StreamInv'
    <2>1. FeedTypeOK /\ SessionTypes /\ WindowTypes /\ StreamInv
      BY DEF ClientsInv
    <2>2. CASE ConsoleNext /\ UNCHANGED <<bootVars, liveVars, queryVars>>
      <3>1. FeedTypeOK' /\ SessionTypes'
        <4>1. ConsoleTypeOK => FeedTypeOK /\ SessionTypes
          BY DEF ConsoleTypeOK, SessionTypes
        <4>2. (ConsoleTypeOK => FeedTypeOK /\ SessionTypes)'
          BY DEF ConsoleTypeOK, SessionTypes
        <4>3. ConsoleTypeOK
          BY <2>1 DEF ConsoleTypeOK, SessionTypes
        <4> QED BY <2>2, <4>2, <4>3, ConsoleTyped
      <3>2. StreamInv'
        BY <2>1, <2>2, ConsoleStep
      <3>3. WindowTypes'
        BY <2>1, <2>2 DEF bootVars, liveVars, queryVars, WindowTypes, RequestTypes
      <3> QED BY <3>1, <3>2, <3>3
    <2>3. CASE DesktopNext /\ UNCHANGED <<sessionVars, loopVars, calls>>
      <3>1. FeedTypeOK' /\ WindowTypes'
        BY <2>1, <2>3, WindowTyped
      <3>2. StreamInv'
        BY <2>1, <2>3, <3>1, StreamStays
      <3>3. SessionTypes'
        BY <2>1, <2>3 DEF sessionVars, loopVars, SessionTypes
      <3> QED BY <3>1, <3>2, <3>3
    <2>4. CASE UNCHANGED <<consoleVars, desktopVars>>
      <3>1. /\ UNCHANGED feedVars /\ UNCHANGED <<sessionVars, loopVars, calls>>
            /\ UNCHANGED <<bootVars, liveVars, queryVars>>
        BY <2>4 DEF consoleVars, desktopVars
      <3>2. FeedTypeOK'
        BY <2>1, <3>1, FeedUntouched
      <3>3. StreamInv'
        BY <2>1, <3>1, <3>2, StreamStays
      <3>4. SessionTypes'
        BY <2>1, <3>1 DEF sessionVars, loopVars, SessionTypes
      <3>5. WindowTypes'
        BY <2>1, <3>1 DEF bootVars, liveVars, queryVars, WindowTypes, RequestTypes
      <3> QED BY <3>2, <3>3, <3>4, <3>5
    <2> QED BY <2>2, <2>3, <2>4, PartsStep
  <1> QED BY <1>1, <1>2 DEF ClientsInv

LEMMA ClientsInvariant == ClientsSpec => []ClientsInv
  BY ClientsStart, ClientsStep, PTL DEF ClientsSpec

\* The types of both clients, whichever part runs.
THEOREM ClientsTypeCorrect == ClientsSpec => []ClientsTypeOK
  <1>1. ClientsInv => ConsoleTypeOK /\ DesktopTypeOK
    BY DEF ClientsInv, ConsoleTypeOK, SessionTypes, DesktopTypeOK, WindowTypes, RequestTypes
  <1>2. ClientsInv => CardsTypeOK /\ SettingsTypeOK
    BY DEF ClientsInv, CardsInv, FormInv
  <1>3. ClientsInv => WidgetTypeOK /\ GraphTypeOK
    BY WidgetTyped, GraphTyped DEF ClientsInv
  <1>4. ClientsInv => ClientsTypeOK
    BY <1>1, <1>2, <1>3 DEF ClientsInv, ClientsTypeOK
  <1> QED BY <1>4, ClientsInvariant, PTL

\* The native window of the widget is never narrower than the controls that are
\* unfolded and ends as wide as they are, however sources change while a timer
\* is set (Widget.tsx), unless the shell has refused a width or, since it took
\* one, has put the window at its closed width because the displays changed
\* (shell_windows.go's restoreWindow).
THEOREM WidgetFollowsItsContent == ClientsSpec => []WidgetFits
  <1>1. ClientsInv => WidgetFits
    BY DEF ClientsInv, WidgetInv
  <1> QED BY <1>1, ClientsInvariant, PTL

\* For any snapshot: two terms that are shown are joined by one edge if thoughts
\* link both, it stands for all of these, and a thought that is chosen lights
\* the edges between its terms and no others (Graph.tsx's buildEdges).
THEOREM EdgesAreOfSharedThoughts == ClientsSpec => []EdgesAreShared
  <1>1. ClientsInv => EdgesAreShared
    BY EdgesShared DEF ClientsInv
  <1> QED BY <1>1, ClientsInvariant, PTL

\* What the parts promise holds of them side by side: what a failed save has
\* changed in the shell is put back, and typed text is what the cards show.
THEOREM PartsKeepTheirPromises == ClientsSpec => [](NativeMatchesStored /\ DraftsAreShown)
  <1>1. FormInv => NativeMatchesStored
    BY DEF FormInv, NativeMatchesStored, Between, Shows, Idle
  <1>2. ClientsInv => NativeMatchesStored /\ DraftsAreShown
    BY <1>1 DEF ClientsInv, CardsInv
  <1> QED BY <1>2, ClientsInvariant, PTL

\* The session consumes frames in order though the log is the window's, too.
THEOREM SessionReadsInOrder == ClientsSpec => EventsInOrder
  <1>1. ClientsInv /\ [ClientsNext]_clientsVars
            => [lastEventID' \in {lastEventID, lastEventID + 1}]_consoleVars
    <2> SUFFICES ASSUME ClientsInv, [ClientsNext]_clientsVars
                 PROVE  lastEventID' \in {lastEventID, lastEventID + 1}
      OBVIOUS
    <2>1. ConsoleNext => lastEventID' \in {lastEventID, lastEventID + 1}
      BY ConsumesNext DEF ClientsInv
    <2>2. UNCHANGED loopVars \/ UNCHANGED consoleVars => lastEventID' = lastEventID
      BY DEF loopVars, consoleVars
    <2> QED BY <2>1, <2>2, PartsStep
  <1> QED BY <1>1, ClientsInvariant, PTL DEF ClientsSpec, EventsInOrder
=============================================================================
