---------------------------- MODULE GraphWindow ----------------------------
(***************************************************************************)
(* The graph window of the desktop client (features/graph/Graph.tsx): the  *)
(* snapshot it shows, the topic and the entry that are chosen, and what is *)
(* drawn: terms as nodes, joined by an edge where thoughts link them.      *)
(*                                                                         *)
(* A term's id is its rank.  The links of a snapshot come in the order of  *)
(* their random ids, each pair once.  Entities and links are never         *)
(* deleted.  Search, which dims nodes, and the layout are left out.        *)
(***************************************************************************)
EXTENDS Naturals, Sequences, FiniteSets, SequencesExt, FiniteSetsExt

CONSTANTS
    GraphTerms,  \* ids of terms, as numbers
    Thoughts,    \* ids of thoughts, which are no numbers
    Topics,      \* the tags
    MaxLinks     \* bound on the links of a snapshot

ASSUME GraphAssumption ==
    /\ GraphTerms \subseteq Nat
    /\ MaxLinks \in Nat

VARIABLES
    snapshot,   \* query.data
    activeTag,
    selected

graphVars == <<snapshot, activeTag, selected>>

NoTag == "all"
NoEntry == <<>>
TermEntry(i)    == [kind |-> "term", id |-> i]
ThoughtEntry(i) == [kind |-> "thought", id |-> i]
Entries == {TermEntry(i) : i \in GraphTerms} \cup {ThoughtEntry(i) : i \in Thoughts}
Link == [thought : Thoughts, term : GraphTerms]

GraphTypeOK ==
    /\ \A l \in ToSet(snapshot.links) : l \in Link
    /\ IsInjective(snapshot.links)
    /\ snapshot.tags \in [GraphTerms -> SUBSET Topics]
    /\ activeTag \in Topics \cup {NoTag}
    /\ selected \in Entries \cup {NoEntry}

GraphInit ==
    /\ snapshot = [links |-> <<>>, tags |-> [i \in GraphTerms |-> {}]]
    /\ activeTag = NoTag
    /\ selected = NoEntry

-----------------------------------------------------------------------------
(* What is drawn.                                                          *)

\* visibleIDs, the nodes.
Shown == {i \in GraphTerms : activeTag = NoTag \/ activeTag \in snapshot.tags[i]}

\* The members of a finite set of numbers, from the least to the greatest.
Ordered(S) ==
    CHOOSE s \in [1..Cardinality(S) -> S] : \A i, j \in DOMAIN s : i < j => s[i] < s[j]

\* The visible terms of a thought, in the order of their links.
TermsOf(thought) ==
    LET places == Ordered({k \in DOMAIN snapshot.links : /\ snapshot.links[k].thought = thought
                                                         /\ snapshot.links[k].term \in Shown})
    IN  [k \in DOMAIN places |-> snapshot.links[places[k]].term]

\* Mutant of Unique: the terms are not sorted.
AsLinked(terms) == terms

Unique(terms) == Ordered(ToSet(terms))

\* The ends of the edges that a thought makes.
PairsOf(thought) ==
    LET unique == Unique(TermsOf(thought))
    IN  UNION {{<<unique[k], unique[n]>> : n \in k + 1 .. Len(unique)} : k \in DOMAIN unique}

\* buildEdges
Edges == {[ends |-> p, thoughtIds |-> {t \in Thoughts : p \in PairsOf(t)}] :
             p \in UNION {PairsOf(t) : t \in Thoughts}}

Linked(thought) == {l.term : l \in {k \in ToSet(snapshot.links) : k.thought = thought}}

HighlightedTerms ==
    CASE selected = NoEntry        -> {}
      [] selected.kind = "thought" -> Linked(selected.id)
      [] selected.kind = "term"    -> {selected.id}

\* The edges with data-active.
ActiveEdges ==
    {e \in Edges : IF selected # NoEntry /\ selected.kind = "thought"
                   THEN selected.id \in e.thoughtIds
                   ELSE e.ends[1] \in HighlightedTerms \/ e.ends[2] \in HighlightedTerms}

-----------------------------------------------------------------------------
\* The query is answered anew after a conspect was applied: there is a link
\* more, at a random place, or a term has a tag more or less.
Refetched ==
    /\ \/ /\ Len(snapshot.links) < MaxLinks
          /\ \E l \in Link \ ToSet(snapshot.links), k \in 1..Len(snapshot.links) + 1 :
                snapshot' = [snapshot EXCEPT !.links = InsertAt(@, k, l)]
       \/ \E i \in GraphTerms, g \in Topics :
             snapshot' = [snapshot EXCEPT !.tags[i] = SymDiff(@, {g})]
    /\ UNCHANGED <<activeTag, selected>>

ChooseTopic(g) ==
    /\ activeTag' = g
    /\ UNCHANGED <<snapshot, selected>>

\* A node or an entry of the list; there is one more way to close the detail.
Pick(entry) ==
    /\ selected' = entry
    /\ UNCHANGED <<snapshot, activeTag>>

GraphNext ==
    \/ Refetched
    \/ \E g \in Topics \cup {NoTag} : ChooseTopic(g)
    \/ \E entry \in Entries \cup {NoEntry} : Pick(entry)

-----------------------------------------------------------------------------
\* Two terms that are shown are joined by one edge if thoughts link them both,
\* it stands for all of these, and no other edge is drawn; the active edges of
\* a thought are those between its terms.
EdgesAreShared ==
    LET joining(S) == {e \in Edges : ToSet(e.ends) = S}
        shared(S)  == {t \in Thoughts : S \subseteq Linked(t)}
    IN  snapshot.links # <<>> =>
        /\ \A i, k \in GraphTerms : i < k =>
              IF {i, k} \subseteq Shown /\ shared({i, k}) # {}
              THEN /\ Cardinality(joining({i, k})) = 1
                   /\ \A e \in joining({i, k}) : e.thoughtIds = shared({i, k})
              ELSE joining({i, k}) = {}
        /\ selected # NoEntry /\ selected.kind = "thought" =>
              ActiveEdges = {e \in Edges : ToSet(e.ends) \subseteq HighlightedTerms}
=============================================================================
