------------------------------- MODULE Review -------------------------------
(***************************************************************************)
(* The review of extracted conspects: preparation by queue workers         *)
(* (internal/review/matcher.go), the user's decisions and splits           *)
(* (internal/storage/sqlite/review_items.go) and the application of a      *)
(* conspect to the knowledge graph (internal/storage/sqlite/apply.go).     *)
(*                                                                         *)
(* Preparation reads the conspect, the graph and the items in separate     *)
(* transactions and saves in another, while users go on deciding; a call   *)
(* that meets a conflict rolls back and rematches in a transaction of its  *)
(* own.  Each of these is one action.  Calls that are refused change       *)
(* nothing and are no actions.  Titles stand for classes of equal          *)
(* normalised titles, the rest of a value is left out; tags are taken to   *)
(* be known, so no conspect waits for a taxonomy decision.  Matches are    *)
(* kept only as far as they bind the user: the exact canonical one.        *)
(***************************************************************************)
EXTENDS Integers, Sequences, FiniteSets, FiniteSetsExt, SequencesExt

CONSTANTS
    Conspects,      \* the conspects of the extracted batches
    Candidates,     \* extracted terms and thoughts
    Terms,          \* those that are terms
    CandidatesOf,   \* the candidates of each conspect, terms first
    TitleOf,        \* the name or thesis of each candidate
    Relates,        \* the extracted pairs of a thought and a related term
    Titles,
    EditTitles,     \* the titles a user may type
    Similar,        \* the pairs of titles of similarity 0.75 or more
    InitialGraph,   \* the entities of the graph at the start
    Preparers,      \* queue workers
    MaxErrors,      \* bound on Prepare calls that return an error
    MaxRestarts     \* bound on restarts of the process

ASSUME ConspectsAssumption == Conspects \cap {"none", "start"} = {}

\* A candidate is a row of one conspect.
ASSUME CandidatesAssumption ==
    /\ Terms \subseteq Candidates
    /\ CandidatesOf \in [Conspects -> Seq(Candidates)]
    /\ \A k, l \in Conspects : \A i \in DOMAIN CandidatesOf[k], j \in DOMAIN CandidatesOf[l] :
          CandidatesOf[k][i] = CandidatesOf[l][j] => k = l /\ i = j
    /\ TitleOf \in [Candidates -> Titles]
    /\ Relates \subseteq (Candidates \ Terms) \X Terms

ASSUME TitlesAssumption ==
    /\ EditTitles \subseteq Titles
    /\ Similar \subseteq Titles \X Titles

\* The workers are started once, a fixed number of them.
ASSUME PreparersAssumption == IsFiniteSet(Preparers)

ASSUME FaultsAssumption == MaxErrors \in Nat /\ MaxRestarts \in Nat

VARIABLES
    status,     \* conspects.status
    items,      \* the review_items of each conspect; the index is the id
    links,      \* conspect_links
    entities,   \* the rows of terms and thoughts; the index is the id
    relations,  \* thought_terms
    revision,   \* graph_meta.revision
    exports,    \* export jobs queued by applications
    jobs,       \* open prepare_conspect_review jobs of each conspect
    failedJobs, \* failed prepare_conspect_review jobs of each conspect
    preparing,  \* the Prepare call each worker is in
    conflicted, \* conspects a call of which saw a conflict and rolled back
    errors,     \* calls that returned an error so far
    restarts    \* restarts so far

reviewVars == <<status, items, links>>
graphVars  == <<entities, relations, revision, exports>>
queueVars  == <<jobs, failedJobs, preparing>>
faults == <<errors, restarts>>
vars == <<reviewVars, graphVars, queueVars, conflicted, faults>>

NoEntity == 0
Editable == {"review_pending", "ready_to_apply"}
Settled  == {"applied", "rejected"}
Statuses == Editable \cup Settled \cup {"preparing_review", "failed"}
Kinds    == {"term", "thought"}

\* The resolution of an item that is pending.
Pending == ""

Resolutions == {Pending, "create", "update", "keep_existing", "reject"}

Entity == [kind : Kinds, title : Titles, version : Nat \ {0},
           by : Conspects \cup {"start"}]

Item == [kind : Kinds, variants : Seq(Candidates), resolution : Resolutions,
         target : Nat, version : Nat, title : Titles, exact : Nat]

\* The graph starts with entities that nothing has updated yet.
ASSUME GraphAssumption ==
    /\ InitialGraph \in Seq(Entity)
    /\ \A e \in DOMAIN InitialGraph :
          InitialGraph[e].version = 1 /\ InitialGraph[e].by = "start"

\* Where a worker is: in a Prepare call, between two jobs, or away on an extraction.
Steps == {"idle", "extracting", "check", "snapshot", "items", "save", "served"}
Call  == [step : Steps, conspect : Conspects \cup {"none"},
          entities : Seq(Entity), items : Seq(Item)]
Idle  == [step |-> "idle", conspect |-> "none", entities |-> <<>>, items |-> <<>>]

\* Every row and every call is in a state of its type, and what an item
\* points to exists.
TypeOK ==
    /\ status     \in [Conspects -> Statuses]
    /\ items      \in [Conspects -> Seq(Item)]
    /\ links      \subseteq (Candidates \ Terms) \X Terms
    /\ entities   \in Seq(Entity)
    /\ relations  \subseteq (DOMAIN entities) \X (DOMAIN entities)
    /\ revision   \in Nat
    /\ exports    \in Nat
    /\ jobs       \in [Conspects -> Nat]
    /\ failedJobs \in [Conspects -> Nat]
    /\ preparing  \in [Preparers -> Call]
    /\ conflicted \subseteq Conspects
    /\ errors     \in 0..MaxErrors
    /\ restarts   \in 0..MaxRestarts
    /\ \A k \in Conspects : \A i \in DOMAIN items[k] :
          {items[k][i].target, items[k][i].exact} \subseteq 0..Len(entities)

\* Every conspect was extracted, with its first preparation job.
Init ==
    /\ status     = [k \in Conspects |-> "preparing_review"]
    /\ items      = [k \in Conspects |-> <<>>]
    /\ links      = Relates
    /\ entities   = InitialGraph
    /\ relations  = {}
    /\ revision   = 0
    /\ exports    = 0
    /\ jobs       = [k \in Conspects |-> 1]
    /\ failedJobs = [k \in Conspects |-> 0]
    /\ preparing  = [p \in Preparers |-> Idle]
    /\ conflicted = {}
    /\ errors     = 0
    /\ restarts   = 0

-----------------------------------------------------------------------------
(* Items and what relates them.                                            *)

KindOf(c) == IF c \in Terms THEN "term" ELSE "thought"

Variants(item) == ToSet(item.variants)

NewItem(kind, variants) ==
    [kind |-> kind, variants |-> variants, resolution |-> Pending, target |-> NoEntity,
     version |-> 0, title |-> TitleOf[Head(variants)], exact |-> NoEntity]

\* A candidate joins the first item of its kind whose first variant is similar.
Grouped(its, c) ==
    LET near == {i \in DOMAIN its : /\ its[i].kind = KindOf(c)
                                    /\ <<TitleOf[Head(its[i].variants)], TitleOf[c]>> \in Similar}
    IN  IF near = {} THEN Append(its, NewItem(KindOf(c), <<c>>))
        ELSE [its EXCEPT ![Min(near)].variants = Append(@, c)]

FreshItems(k) ==
    LET grouped[n \in 0..Len(CandidatesOf[k])] ==
            IF n = 0 THEN <<>> ELSE Grouped(grouped[n - 1], CandidatesOf[k][n])
    IN  grouped[Len(CandidatesOf[k])]

\* The variants in S, in the order they have in the item.
Picked(variants, S) ==
    LET picked[n \in 0..Len(variants)] ==
            IF n = 0 THEN <<>>
            ELSE IF variants[n] \in S THEN Append(picked[n - 1], variants[n])
                                      ELSE picked[n - 1]
    IN  picked[Len(variants)]

\* Of the rows that hold a candidate the one read last counts.
ItemOf(its, I, c) == Max({i \in I : c \in Variants(its[i])})
Holds(its, I, c)  == \E i \in I : c \in Variants(its[i])

\* readReviewRelationships: the term items that a thought item is related to.
RelatedTo(its, pairs, i) ==
    {ItemOf(its, DOMAIN its, r[2]) :
        r \in {q \in pairs : /\ Holds(its, DOMAIN its, q[1])
                             /\ Holds(its, DOMAIN its, q[2])
                             /\ ItemOf(its, DOMAIN its, q[1]) = i}}

\* The entities that Shortlist marks as exact matches of an item.
ExactMatches(graph, item) ==
    {e \in DOMAIN graph : /\ graph[e].kind = item.kind
                          /\ graph[e].title \in {TitleOf[c] : c \in Variants(item)}}

Undecided(item) == [item EXCEPT !.resolution = Pending, !.target = NoEntity, !.version = 0]

\* refreshReviewState
ReviewState(its) ==
    IF \E i \in DOMAIN its : its[i].resolution = Pending THEN "review_pending"
                                                    ELSE "ready_to_apply"

-----------------------------------------------------------------------------
(* Preparation.                                                            *)

Start(p, k) ==
    /\ preparing[p].step = "idle"
    /\ jobs[k] > 0
    /\ jobs' = [jobs EXCEPT ![k] = @ - 1]
    /\ preparing' = [preparing EXCEPT ![p].step = "check", ![p].conspect = k]
    /\ UNCHANGED <<reviewVars, graphVars, failedJobs, conflicted, faults>>

\* The workers serve extractions too, and one may wait for the model as long as
\* the model is away (WaitReady has no deadline).
Extract(p) ==
    /\ preparing[p].step = "idle"
    /\ preparing' = [preparing EXCEPT ![p].step = "extracting"]
    /\ UNCHANGED <<reviewVars, graphVars, jobs, failedJobs, conflicted, faults>>

Extracted(p) ==
    /\ preparing[p].step = "extracting"
    /\ preparing' = [preparing EXCEPT ![p] = Idle]
    /\ UNCHANGED <<reviewVars, graphVars, jobs, failedJobs, conflicted, faults>>

\* GetConspect, and the early return for a conspect that is not in preparation.
Check(p) ==
    /\ preparing[p].step = "check"
    /\ preparing' = [preparing EXCEPT ![p].step =
          IF status[preparing[p].conspect] = "preparing_review" THEN "snapshot" ELSE "served"]
    /\ UNCHANGED <<reviewVars, graphVars, jobs, failedJobs, conflicted, faults>>

Snapshot(p) ==
    /\ preparing[p].step = "snapshot"
    /\ preparing' = [preparing EXCEPT ![p].step = "items", ![p].entities = entities]
    /\ UNCHANGED <<reviewVars, graphVars, jobs, failedJobs, conflicted, faults>>

\* PendingReviewItems: the items of settled conspects are not read.
PendingReviewItems(p) ==
    LET k == preparing[p].conspect
    IN  /\ preparing[p].step = "items"
        /\ preparing' = [preparing EXCEPT ![p].step = "save",
                ![p].items = IF status[k] \in Settled THEN <<>> ELSE items[k]]
        /\ UNCHANGED <<reviewVars, graphVars, jobs, failedJobs, conflicted, faults>>

\* Mutant of Prepared: the items that were read lose their decisions.
PreparedUndecided(call) ==
    LET read == IF call.items = <<>> THEN FreshItems(call.conspect) ELSE call.items
        matches(i) == ExactMatches(call.entities, read[i])
    IN  {[i \in DOMAIN read |-> [Undecided(read[i]) EXCEPT !.exact = exact[i]]] :
            exact \in {f \in [DOMAIN read -> 0..Len(call.entities)] :
                        \A i \in DOMAIN read :
                            f[i] \in IF matches(i) = {} THEN {NoEntity} ELSE matches(i)}}

\* The rows a call may save: those it read, with their ids, or new ones; each
\* with an exact match of the graph it read, if there is one.
Prepared(call) ==
    LET read == IF call.items = <<>> THEN FreshItems(call.conspect) ELSE call.items
        matches(i) == ExactMatches(call.entities, read[i])
    IN  {[i \in DOMAIN read |-> [read[i] EXCEPT !.exact = exact[i]]] :
            exact \in {f \in [DOMAIN read -> 0..Len(call.entities)] :
                        \A i \in DOMAIN read :
                            f[i] \in IF matches(i) = {} THEN {NoEntity} ELSE matches(i)}}

\* Rows that were read are overwritten, new ones are inserted.
Written(its, call, rows) ==
    IF call.items = <<>> THEN its \o rows
    ELSE [i \in DOMAIN its |-> IF i \in DOMAIN rows THEN rows[i] ELSE its[i]]

SavePreparedReview(p) ==
    LET call == preparing[p]
        k    == call.conspect
    IN  /\ call.step = "save"
        /\ \/ /\ status[k] = "preparing_review"
              /\ \E rows \in Prepared(call) :
                    items' = [items EXCEPT ![k] = Written(@, call, rows)]
              /\ status' = [status EXCEPT ![k] = ReviewState(items'[k])]
           \/ /\ status[k] # "preparing_review"
              /\ UNCHANGED <<items, status>>
        /\ preparing' = [preparing EXCEPT ![p] = [Idle EXCEPT !.step = "served", !.conspect = k]]
        /\ UNCHANGED <<links, graphVars, jobs, failedJobs, conflicted, faults>>

\* Worker.Run completes the job of a call that returned.
Complete(p) ==
    /\ preparing[p].step = "served"
    /\ preparing' = [preparing EXCEPT ![p] = Idle]
    /\ UNCHANGED <<reviewVars, graphVars, jobs, failedJobs, conflicted, faults>>

\* Mutant of HandlerError: a job that used its attempts up fails alone.
HandlerErrorJobOnly(p) ==
    LET k == preparing[p].conspect
    IN  /\ preparing[p].step \notin {"idle", "extracting", "served"}
        /\ errors < MaxErrors
        /\ errors' = errors + 1
        /\ preparing' = [preparing EXCEPT ![p] = Idle]
        /\ \/ /\ jobs' = [jobs EXCEPT ![k] = @ + 1]
              /\ UNCHANGED failedJobs
           \/ /\ failedJobs' = [failedJobs EXCEPT ![k] = @ + 1]
              /\ UNCHANGED jobs
        /\ UNCHANGED <<reviewVars, graphVars, conflicted, restarts>>

\* A call that returns an error is retried later, or has used its attempts up:
\* Store.Fail marks the job, and the conspect if it is still in preparation.
HandlerError(p) ==
    LET k == preparing[p].conspect
    IN  /\ preparing[p].step \notin {"idle", "extracting", "served"}
        /\ errors < MaxErrors
        /\ errors' = errors + 1
        /\ preparing' = [preparing EXCEPT ![p] = Idle]
        /\ \/ /\ jobs' = [jobs EXCEPT ![k] = @ + 1]
              /\ UNCHANGED <<status, failedJobs>>
           \/ /\ failedJobs' = [failedJobs EXCEPT ![k] = @ + 1]
              /\ status' = [status EXCEPT ![k] =
                               IF @ = "preparing_review" THEN "failed" ELSE @]
              /\ UNCHANGED jobs
        /\ UNCHANGED <<items, links, graphVars, conflicted, restarts>>

\* Mutant of RetryFailedJob: the job need not have failed.
RetryAnyJob(k) ==
    /\ failedJobs' = [failedJobs EXCEPT ![k] = @ - 1]
    /\ jobs' = [jobs EXCEPT ![k] = @ + 1]
    /\ status' = [status EXCEPT ![k] = IF @ = "failed" THEN "preparing_review" ELSE @]
    /\ UNCHANGED <<items, links, graphVars, preparing, conflicted, faults>>

RetryFailedJob(k) ==
    /\ failedJobs[k] > 0
    /\ failedJobs' = [failedJobs EXCEPT ![k] = @ - 1]
    /\ jobs' = [jobs EXCEPT ![k] = @ + 1]
    /\ status' = [status EXCEPT ![k] = IF @ = "failed" THEN "preparing_review" ELSE @]
    /\ UNCHANGED <<items, links, graphVars, preparing, conflicted, faults>>

\* The process ends and starts again: the jobs of the calls it was in are open
\* again, even of those that had saved, and a rematch that was due is lost.
Restart ==
    /\ restarts < MaxRestarts
    /\ restarts' = restarts + 1
    /\ preparing' = [p \in Preparers |-> Idle]
    /\ jobs' = [k \in Conspects |->
                   jobs[k] + Cardinality({p \in Preparers : preparing[p].conspect = k})]
    /\ conflicted' = {}
    /\ UNCHANGED <<reviewVars, graphVars, failedJobs, errors>>

-----------------------------------------------------------------------------
(* Decisions.                                                              *)

\* An exact match must be kept or overwritten: nothing else may be decided.
ExactIsRespected(item, r, t) ==
    item.exact # NoEntity => r \in {"update", "keep_existing"} /\ t = item.exact

Targeted(r) == r \in {"update", "keep_existing"}

\* The titles the final value may have: the target's, the item's or an edited one.
FinalTitles(item, r, t) ==
    CASE r = "keep_existing" -> {entities[t].title}
      [] r = "update"        -> {entities[t].title} \cup EditTitles
      [] r = "create"        -> {item.title} \cup EditTitles
      [] r = "reject"        -> {item.title}

\* updateReviewRelationships: the thought relates to the items T and no others.
Relinked(its, i, T) ==
    {r \in links : r[1] \notin Variants(its[i])} \cup
    (Variants(its[i]) \X (UNION {Variants(its[j]) : j \in T}))

\* Mutant of Reopened: the extracted relations are looked at, not the edited ones.
ReopenedAsExtracted(its, i) ==
    [j \in DOMAIN its |->
        IF /\ its[j].kind = "thought"
           /\ its[j].resolution \notin {Pending, "reject"}
           /\ i \in RelatedTo(its, Relates, j)
        THEN Undecided(its[j]) ELSE its[j]]

\* A rejected term reopens the accepted thoughts that relate to it.
Reopened(its, i) ==
    [j \in DOMAIN its |->
        IF /\ its[j].kind = "thought"
           /\ its[j].resolution \notin {Pending, "reject"}
           /\ i \in RelatedTo(its, links, j)
        THEN Undecided(its[j]) ELSE its[j]]

\* The decision r, with target t, on item i of k; T are the related terms.
SaveReviewDecision(k, i, r, t) ==
    LET item == items[k][i]
        terms == {j \in DOMAIN items[k] : items[k][j].kind = "term"}
        Decide(title, T) ==
            /\ r # "reject" => \A j \in T : items[k][j].resolution # "reject"
            /\ items' = [items EXCEPT ![k] =
                    LET its == [items[k] EXCEPT ![i] =
                                   [item EXCEPT !.resolution = r, !.target = t, !.title = title,
                                        !.version = IF Targeted(r) THEN entities[t].version ELSE 0]]
                    IN  IF r = "reject" /\ item.kind = "term" THEN Reopened(its, i) ELSE its]
    IN  /\ status[k] \in Editable
        /\ ExactIsRespected(item, r, t)
        /\ IF Targeted(r) THEN t \in DOMAIN entities /\ entities[t].kind = item.kind
                          ELSE t = NoEntity
        /\ \E title \in FinalTitles(item, r, t) :
              \/ /\ Decide(title, RelatedTo(items[k], links, i))
                 /\ UNCHANGED links
              \/ /\ item.kind = "thought"
                 /\ \E T \in SUBSET terms :
                       /\ Decide(title, T)
                       /\ links' = Relinked(items[k], i, T)
        /\ status' = [status EXCEPT ![k] = ReviewState(items'[k])]
        /\ UNCHANGED <<graphVars, queueVars, conflicted, faults>>

\* The user saw an older version of the target: the call rolls back.
DecisionConflict(k, i, t) ==
    /\ status[k] \in Editable
    /\ t \in DOMAIN entities
    /\ entities[t].kind = items[k][i].kind
    /\ entities[t].version > 1
    /\ items[k][i].exact \in {NoEntity, t}
    /\ conflicted' = conflicted \cup {k}
    /\ UNCHANGED <<reviewVars, graphVars, queueVars, faults>>

\* rematchConflict, in the call that saw the conflict; a settled conspect, or
\* one in preparation, is left alone.
Rematch(k) ==
    /\ k \in conflicted
    /\ conflicted' = conflicted \ {k}
    /\ IF status[k] \in Editable
       THEN /\ status' = [status EXCEPT ![k] = "preparing_review"]
            /\ items' = [items EXCEPT ![k] =
                   [i \in DOMAIN @ |-> IF Targeted(@[i].resolution) THEN Undecided(@[i]) ELSE @[i]]]
            /\ jobs' = [jobs EXCEPT ![k] = @ + 1]
       ELSE UNCHANGED <<status, items, jobs>>
    /\ UNCHANGED <<links, graphVars, failedJobs, preparing, faults>>

\* Mutant of SplitReviewItem: no job is queued.
SplitWithoutJob(k, i, S) ==
    LET item == items[k][i]
        rest == Picked(item.variants, Variants(item) \ S)
        part == Picked(item.variants, S)
    IN  /\ status[k] \in Editable
        /\ rest # <<>> /\ part # <<>>
        /\ items' = [items EXCEPT ![k] =
               Append([@ EXCEPT ![i] = [Undecided(item) EXCEPT !.variants = rest,
                                                               !.title = TitleOf[Head(rest)]]],
                      NewItem(item.kind, part))]
        /\ status' = [status EXCEPT ![k] = "preparing_review"]
        /\ UNCHANGED <<links, graphVars, queueVars, conflicted, faults>>

\* Mutant of SplitReviewItem: the variants stay in the item they leave.
SplitCopies(k, i, S) ==
    LET item == items[k][i]
        part == Picked(item.variants, S)
    IN  /\ status[k] \in Editable
        /\ part # <<>> /\ part # item.variants
        /\ items' = [items EXCEPT ![k] =
               Append([@ EXCEPT ![i] = Undecided(item)], NewItem(item.kind, part))]
        /\ status' = [status EXCEPT ![k] = "preparing_review"]
        /\ jobs' = [jobs EXCEPT ![k] = @ + 1]
        /\ UNCHANGED <<links, graphVars, failedJobs, preparing, conflicted, faults>>

\* The variants in S leave item i for a new one; both are pending.
SplitReviewItem(k, i, S) ==
    LET item == items[k][i]
        rest == Picked(item.variants, Variants(item) \ S)
        part == Picked(item.variants, S)
    IN  /\ status[k] \in Editable
        /\ rest # <<>> /\ part # <<>>
        /\ items' = [items EXCEPT ![k] =
               Append([@ EXCEPT ![i] = [Undecided(item) EXCEPT !.variants = rest,
                                                               !.title = TitleOf[Head(rest)]]],
                      NewItem(item.kind, part))]
        /\ status' = [status EXCEPT ![k] = "preparing_review"]
        /\ jobs' = [jobs EXCEPT ![k] = @ + 1]
        /\ UNCHANGED <<links, graphVars, failedJobs, preparing, conflicted, faults>>

-----------------------------------------------------------------------------
(* Application.                                                            *)

Accepted(its) == {i \in DOMAIN its : its[i].resolution # "reject"}
Creates(its)  == {i \in DOMAIN its : its[i].resolution = "create"}
Updates(its)  == {i \in DOMAIN its : its[i].resolution = "update"}

\* An accepted thought relates to a rejected term.
Dangling(its, i) ==
    /\ its[i].kind = "thought"
    /\ \E j \in RelatedTo(its, links, i) : j \notin Accepted(its)

\* Mutant of StaleTarget: only targets that are kept are compared.
StaleKeptTarget(item) ==
    item.resolution = "keep_existing" /\ entities[item.target].version # item.version

\* The target was written since the decision.
StaleTarget(item) ==
    Targeted(item.resolution) /\ entities[item.target].version # item.version

\* Mutant of TitleTaken: the match found by the preparation is trusted.
TitleMatched(item) == item.resolution = "create" /\ item.exact # NoEntity

\* exactCanonicalTitle: the graph has an entity of the title to be created.
TitleTaken(item) ==
    /\ item.resolution = "create"
    /\ \E e \in DOMAIN entities : /\ entities[e].kind  = item.kind
                                  /\ entities[e].title = item.title

\* An item before this one updates the same target.
Repeated(its, i) ==
    i \in Updates(its) /\ \E j \in Updates(its) : j < i /\ its[j].target = its[i].target

Refused(its) ==
    {i \in Accepted(its) : Dangling(its, i) \/ StaleTarget(its[i])
                              \/ TitleTaken(its[i]) \/ Repeated(its, i)}

\* The check ends at the first item that is refused; if it is refused for what
\* the graph has become, the conspect is to be rematched.
ApplyConflict(k) ==
    LET its == items[k]
    IN  /\ status[k] = "ready_to_apply"
        /\ Refused(its) # {}
        /\ LET i == Min(Refused(its))
           IN  ~Dangling(its, i) /\ (StaleTarget(its[i]) \/ TitleTaken(its[i]))
        /\ conflicted' = conflicted \cup {k}
        /\ UNCHANGED <<reviewVars, graphVars, queueVars, faults>>

\* The entity of an accepted item; those created get the next ids.
TargetOf(its, i) ==
    IF i \in Creates(its) THEN Len(entities) + Cardinality({j \in Creates(its) : j <= i})
                          ELSE its[i].target

\* Mutant of Upserted: an update keeps the version.
UpsertedInPlace(k, its) ==
    [e \in 1 .. Len(entities) + Cardinality(Creates(its)) |->
        IF \E i \in Creates(its) \cup Updates(its) : TargetOf(its, i) = e
        THEN LET i == CHOOSE j \in Creates(its) \cup Updates(its) : TargetOf(its, j) = e
             IN  [kind |-> its[i].kind, title |-> its[i].title, by |-> k,
                  version |-> IF e \in DOMAIN entities THEN entities[e].version ELSE 1]
        ELSE entities[e]]

\* upsertTerm and upsertThought of every create and update of k.
Upserted(k, its) ==
    [e \in 1 .. Len(entities) + Cardinality(Creates(its)) |->
        IF \E i \in Creates(its) \cup Updates(its) : TargetOf(its, i) = e
        THEN LET i == CHOOSE j \in Creates(its) \cup Updates(its) : TargetOf(its, j) = e
             IN  [kind |-> its[i].kind, title |-> its[i].title, by |-> k,
                  version |-> IF e \in DOMAIN entities THEN entities[e].version + 1 ELSE 1]
        ELSE entities[e]]

\* The links whose candidates both belong to accepted items.
Linked(its) ==
    {<<TargetOf(its, ItemOf(its, Accepted(its), r[1])),
       TargetOf(its, ItemOf(its, Accepted(its), r[2]))>> :
        r \in {q \in links : /\ Holds(its, Accepted(its), q[1])
                             /\ Holds(its, Accepted(its), q[2])}}

\* applyConspect of a ready conspect that nothing in the graph contradicts.  If
\* every item was rejected the graph is not touched.
ApplyConspect(k) ==
    LET its == items[k]
    IN  /\ status[k] = "ready_to_apply"
        /\ Refused(its) = {}
        /\ IF Accepted(its) = {}
           THEN /\ status' = [status EXCEPT ![k] = "rejected"]
                /\ UNCHANGED <<items, graphVars>>
           ELSE /\ status' = [status EXCEPT ![k] = "applied"]
                /\ items' = [items EXCEPT ![k] =
                       [i \in DOMAIN its |-> [its[i] EXCEPT !.target = TargetOf(its, i)]]]
                /\ entities'  = Upserted(k, its)
                /\ relations' = relations \cup Linked(its)
                /\ revision'  = revision + 1
                /\ exports'   = exports + 1
        /\ UNCHANGED <<links, queueVars, conflicted, faults>>

-----------------------------------------------------------------------------
HandlerStep(p) ==
    Check(p) \/ Snapshot(p) \/ PendingReviewItems(p) \/ SavePreparedReview(p) \/ Complete(p)

UserStep(k) ==
    \/ ApplyConspect(k) \/ ApplyConflict(k) \/ RetryFailedJob(k)
    \/ \E i \in DOMAIN items[k] :
          \/ \E r \in Resolutions \ {Pending}, t \in 0..Len(entities) : SaveReviewDecision(k, i, r, t)
          \/ \E t \in DOMAIN entities : DecisionConflict(k, i, t)
          \/ \E S \in SUBSET Variants(items[k][i]) : SplitReviewItem(k, i, S)

Next ==
    \/ \E p \in Preparers : \/ HandlerStep(p) \/ HandlerError(p)
                           \/ Extract(p) \/ Extracted(p)
    \/ \E k \in Conspects : UserStep(k) \/ Rematch(k) \/ \E p \in Preparers : Start(p, k)
    \/ Restart

Spec == Init /\ [][Next]_vars

\* A worker goes on with the Prepare call it is in, none of which waits for the
\* model.  Jobs are claimed in the order in which they fall due, so that an open
\* one is claimed if workers keep getting free.  That an extraction ends is not
\* assumed: it may be waiting for a model that is never ready.
Fairness ==
    /\ \A p \in Preparers : WF_vars(HandlerStep(p))
    /\ \A k \in Conspects : SF_vars(\E p \in Preparers : Start(p, k))

FairSpec == Spec /\ Fairness

-----------------------------------------------------------------------------
(* Properties.                                                             *)

\* A conspect in preparation has a job that is still to be done: it is queued,
\* or a worker is in a call that has not saved yet.  Splits, rematches,
\* failures, manual retries and restarts never leave it without one.
PreparationIsQueued ==
    \A k \in Conspects : status[k] = "preparing_review" =>
        \/ jobs[k] > 0
        \/ \E p \in Preparers : preparing[p].conspect = k /\ preparing[p].step # "served"

\* No decision is applied over a change its user did not see: each version of an
\* entity but the newest was the target of exactly one applied update.
NoLostUpdate ==
    \A e \in DOMAIN entities :
        \A v \in 1 .. entities[e].version - 1 :
            Cardinality({u \in UNION {{k} \X (DOMAIN items[k]) : k \in Conspects} :
                /\ status[u[1]] = "applied"
                /\ LET item == items[u[1]][u[2]]
                   IN  /\ item.resolution = "update"
                       /\ item.target  = e
                       /\ item.version = v}) = 1

\* What two conspects create has different titles, in whatever order they were
\* prepared, decided and applied.
CreatedTitlesDiffer ==
    \A e, f \in DOMAIN entities :
        (/\ entities[e].kind = entities[f].kind
         /\ entities[e].title = entities[f].title
         /\ entities[e].version = 1 /\ entities[f].version = 1)
        => entities[e].by = entities[f].by

\* An accepted thought never relates to a rejected term while the user decides
\* (rejecting a term reopens the thoughts that depend on it).
DependenciesHold ==
    \A k \in Conspects : status[k] \in Editable =>
        \A i \in Accepted(items[k]) : items[k][i].resolution # Pending => ~Dangling(items[k], i)

\* Each candidate of a prepared conspect belongs to one item.
EachCandidateOnce ==
    \A k \in Conspects : items[k] # <<>> =>
        \A c \in ToSet(CandidatesOf[k]) :
            Cardinality({i \in DOMAIN items[k] : c \in Variants(items[k][i])}) = 1

\* Preparing a conspect again keeps its items, splits and decisions.
PreparationKeepsDecisions == [][
    \A k \in Conspects :
        (status[k] = "preparing_review" /\ status'[k] \in Editable /\ items[k] # <<>>) =>
            /\ DOMAIN items'[k] = DOMAIN items[k]
            /\ \A i \in DOMAIN items[k] :
                  items'[k][i] = [items[k][i] EXCEPT !.exact = items'[k][i].exact]]_vars

\* A conspect that waits for its user can be decided: none of its items is to
\* create what an exact match forbids.
ExactMatchIsNotCreated ==
    \A k \in Conspects : status[k] = "ready_to_apply" =>
        \A i \in Creates(items[k]) : items[k][i].exact = NoEntity

\* No worker stays for ever in an extraction, as it does when the model stays away
\* (JobQueue's Stable).
ExtractionsEnd == \A p \in Preparers : []<>(preparing[p].step # "extracting")

\* As long as extractions end, so does preparation, though extractions take the
\* workers again and again: every conspect gets to its user, or to a failed job.
PreparationEnds ==
    ExtractionsEnd =>
        \A k \in Conspects :
            (status[k] = "preparing_review") ~> (status[k] # "preparing_review")

Outcome == [k \in Conspects |-> IF status[k] \in Settled THEN status[k] ELSE "open"]

Canonical == INSTANCE CanonicalGraph WITH outcome <- Outcome

\* Review keeps the promise of CanonicalGraph: only the application of a
\* conspect changes the graph, once, whole, and over current versions.
ImplementsCanonicalGraph == Canonical!Spec
=============================================================================
