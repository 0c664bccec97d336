--------------------------- MODULE CanonicalGraph ---------------------------
(***************************************************************************)
(* What the review promises of the knowledge graph (docs/pipeline.md       *)
(* sections 7 and 8, ADR 0005), without items, decisions or preparation:   *)
(* an open conspect is settled once, by one commit of all it brings or by  *)
(* being discarded whole, and nothing else touches the graph.              *)
(***************************************************************************)
EXTENDS Integers, Sequences

CONSTANTS
    Conspects,
    InitialGraph    \* the entities before the first conspect

VARIABLES
    outcome,    \* what became of each conspect
    entities,   \* the terms and thoughts: kind, title, version, last writer
    relations,  \* the pairs of a thought and a term that are linked
    revision,   \* the graph revision
    exports     \* the exports queued

graph == <<outcome, entities, relations, revision, exports>>

Init ==
    /\ outcome   = [k \in Conspects |-> "open"]
    /\ entities  = InitialGraph
    /\ relations = {}
    /\ revision  = 0
    /\ exports   = 0

\* An entity keeps its identity and kind.  What k writes has the next version.
Advanced(k, before, after) ==
    \/ after = before
    \/ /\ after.kind    = before.kind
       /\ after.version = before.version + 1
       /\ after.by      = k

\* The accepted items of k enter the graph together, as one revision.
Commit(k) ==
    /\ outcome[k] = "open"
    /\ outcome' = [outcome EXCEPT ![k] = "applied"]
    /\ Len(entities') >= Len(entities)
    /\ \A e \in DOMAIN entities : Advanced(k, entities[e], entities'[e])
    /\ \A e \in DOMAIN entities' \ DOMAIN entities :
          entities'[e].version = 1 /\ entities'[e].by = k
    /\ relations \subseteq relations'
    /\ \A r \in relations' :
          /\ entities'[r[1]].kind = "thought"
          /\ entities'[r[2]].kind = "term"
    /\ revision' = revision + 1
    /\ exports'  = exports + 1

\* Every item of k was rejected.
Discard(k) ==
    /\ outcome[k] = "open"
    /\ outcome' = [outcome EXCEPT ![k] = "rejected"]
    /\ UNCHANGED <<entities, relations, revision, exports>>

Next == \E k \in Conspects : Commit(k) \/ Discard(k)

Spec == Init /\ [][Next]_graph
=============================================================================
