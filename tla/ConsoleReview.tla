--------------------------- MODULE ConsoleReview ---------------------------
(***************************************************************************)
(* The review cards of the browser console (internal/ui/assets/review.js)  *)
(* for one conspect: the drafts that outlive a render, the cards and the   *)
(* Apply button as they are rendered, the refreshes and mutations in       *)
(* flight, over the conspect in the server.                                *)
(*                                                                         *)
(* The content of a card is the number of the edit that made it, 0 that of *)
(* the extraction; which resolution and which match it chooses is left     *)
(* out.  One tag of the conspect is unknown.  A refresh is answered with   *)
(* what the server had when it was asked, in any order, and does not fail. *)
(* Requests fail, and matches change, at any time.                         *)
(***************************************************************************)
EXTENDS Naturals, FiniteSets

CONSTANTS
    Cards,         \* the review items of the conspect
    MaxCardEdits,  \* bound on the edits of all cards
    MaxInFlight    \* bound on refreshes and mutations in flight together

ASSUME CardsAssumption ==
    /\ IsFiniteSet(Cards)
    /\ MaxCardEdits \in Nat /\ MaxInFlight \in Nat

VARIABLES
    conspect,   \* conspects.status
    decisions,  \* the content stored for each item
    resolved,   \* the items that are resolved
    tagged,     \* whether the unknown tag has a decision
    drafts,     \* reviewDrafts, 0 for no draft
    cards,      \* the rendered conspect
    apply,      \* its Apply button: "enabled" or "disabled"
    busy,       \* the cards whose Save or split button is busy
    refreshes,  \* the refreshReview calls in flight, with what they will render
    mutations,  \* the reviewMutation calls in flight
    edits

conspectVars == <<conspect, decisions, resolved, tagged>>
screenVars   == <<cards, apply, busy>>
cardVars     == <<conspectVars, drafts, screenVars, refreshes, mutations, edits>>

ConspectStatuses == {"preparing_review", "review_pending", "ready_to_apply", "applied"}
EditableStatuses == {"review_pending", "ready_to_apply"}

Contents == [Cards -> 0..MaxCardEdits]
\* A conspect that is applied is not listed.
NotListed == [status |-> "applied"]
View(s, d, t) == IF s = "applied" THEN NotListed ELSE [status |-> s, content |-> d, tagged |-> t]
Views == {NotListed} \cup
         [status : ConspectStatuses \ {"applied"}, content : Contents, tagged : BOOLEAN]

\* shown: the button that was clicked is still on the screen.
MutationsOf(K, C) == [kind : K, card : C, content : 0..MaxCardEdits, shown : BOOLEAN,
                      answer : {"none", "ok", "conflict", "failed"}]
Mutation == MutationsOf({"save", "split"}, Cards) \cup MutationsOf({"taxonomy", "apply"}, {"all"})

CardsTypeOK ==
    /\ conspect \in ConspectStatuses
    /\ decisions \in Contents
    /\ resolved \subseteq Cards
    /\ tagged \in BOOLEAN
    /\ drafts \in Contents
    /\ cards \in Views
    /\ apply \in {"enabled", "disabled"}
    /\ busy \subseteq Cards
    /\ refreshes \subseteq Views
    /\ mutations \subseteq Mutation
    /\ edits \in 0..MaxCardEdits

CardsInit ==
    /\ conspect = "review_pending"
    /\ decisions = [i \in Cards |-> 0]
    /\ resolved = {}
    /\ tagged = FALSE
    /\ drafts = [i \in Cards |-> 0]
    /\ cards = View(conspect, decisions, tagged)
    /\ apply = "disabled"
    /\ busy = {}
    /\ refreshes = {}
    /\ mutations = {}
    /\ edits = 0

NoDrafts == \A i \in Cards : drafts[i] = 0
CanEdit  == cards.status \in EditableStatuses

-----------------------------------------------------------------------------
(* Rendering.                                                              *)

\* Mutant of CardContent: the card shows what the server has.
ServerContent(view, i) == view.content[i]

\* A card shows its draft, if it has one.
CardContent(view, i) == IF drafts[i] # 0 THEN drafts[i] ELSE view.content[i]

\* renderReview: all buttons are new ones.
Renders(view) ==
    /\ cards' = IF view = NotListed THEN NotListed
                ELSE [view EXCEPT !.content = [i \in Cards |-> CardContent(view, i)]]
    /\ apply' = IF view.status = "ready_to_apply" /\ NoDrafts THEN "enabled" ELSE "disabled"
    /\ busy' = {}
    /\ mutations' = {[m EXCEPT !.shown = FALSE] : m \in mutations}

HasRoom == Cardinality(refreshes) + Cardinality(mutations) < MaxInFlight

\* refreshReview of what the server has after this step.
Asks == refreshes' = refreshes \cup {View(conspect', decisions', tagged')}

RefreshClicked ==
    /\ HasRoom
    /\ UNCHANGED <<conspectVars, drafts, screenVars, mutations, edits>>
    /\ Asks

\* An event of the stream refreshes the list only while there is no draft.
EventArrives == NoDrafts /\ RefreshClicked

Refreshed(view) ==
    /\ refreshes' = refreshes \ {view}
    /\ Renders(view)
    /\ UNCHANGED <<conspectVars, drafts, edits>>

-----------------------------------------------------------------------------
(* The user.                                                               *)

EditCard(i) ==
    /\ CanEdit
    /\ edits < MaxCardEdits
    /\ edits' = edits + 1
    /\ drafts' = [drafts EXCEPT ![i] = edits']
    /\ cards' = [cards EXCEPT !.content[i] = edits']
    /\ apply' = "disabled"
    /\ UNCHANGED <<conspectVars, busy, refreshes, mutations>>

\* reviewMutation: the button is busy, the request is sent.
Mutates(kind, i, content) ==
    /\ HasRoom
    /\ mutations' = mutations \cup {[kind |-> kind, card |-> i, content |-> content,
                                     shown |-> TRUE, answer |-> "none"]}
    /\ UNCHANGED <<conspectVars, drafts, cards, refreshes, edits>>

SaveCard(i) ==
    /\ CanEdit /\ i \notin busy
    /\ Mutates("save", i, cards.content[i])
    /\ busy' = busy \cup {i}
    /\ UNCHANGED apply

SplitCard(i) ==
    /\ CanEdit /\ i \notin busy
    /\ Mutates("split", i, 0)
    /\ busy' = busy \cup {i}
    /\ UNCHANGED apply

SaveTag ==
    /\ CanEdit /\ ~cards.tagged
    /\ \A m \in mutations : m.kind = "taxonomy" => ~m.shown
    /\ Mutates("taxonomy", "all", 0)
    /\ UNCHANGED <<apply, busy>>

ClickApply ==
    /\ apply = "enabled"
    /\ Mutates("apply", "all", 0)
    /\ apply' = "disabled"
    /\ UNCHANGED busy

-----------------------------------------------------------------------------
(* The server.                                                             *)

Prepares ==
    /\ conspect' = "preparing_review"
    /\ UNCHANGED <<decisions, tagged>>

\* refreshReviewState
StatusOf(R, t) == IF R = Cards /\ t THEN "ready_to_apply" ELSE "review_pending"

\* 200: the request is carried out.
Succeeds(m) ==
    /\ \/ /\ m.kind = "save" /\ conspect \in EditableStatuses
          /\ decisions' = [decisions EXCEPT ![m.card] = m.content]
          /\ resolved'  = resolved \cup {m.card}
          /\ conspect'  = StatusOf(resolved', tagged)
          /\ UNCHANGED tagged
       \/ /\ m.kind = "split" /\ conspect \in EditableStatuses
          /\ Prepares /\ resolved' = resolved \ {m.card}
       \/ /\ m.kind = "taxonomy" /\ conspect \in EditableStatuses
          /\ tagged' = TRUE
          /\ conspect' = StatusOf(resolved, TRUE)
          /\ UNCHANGED <<decisions, resolved>>
       \/ /\ m.kind = "apply" /\ conspect \in {"ready_to_apply", "applied"}
          /\ conspect' = "applied"
          /\ UNCHANGED <<decisions, resolved, tagged>>

\* 409: the decision meets an exact match or a rejected term (nothing changes),
\* the conspect is not ready, or a match has changed and it is rematched.
ConflictAnswered(m) ==
    \/ /\ m.kind = "save" /\ conspect \in EditableStatuses
       /\ UNCHANGED conspectVars
    \/ /\ m.kind = "apply" /\ conspect \in {"preparing_review", "review_pending"}
       /\ UNCHANGED conspectVars
    \/ /\ \/ m.kind = "save"  /\ conspect \in EditableStatuses
          \/ m.kind = "apply" /\ conspect = "ready_to_apply"
       /\ Prepares
       /\ \E R \in SUBSET resolved : R # resolved /\ resolved' = R

Serve(m) ==
    /\ m.answer = "none"
    /\ \E a \in {"ok", "conflict", "failed"} :
          /\ \/ a = "ok"       /\ Succeeds(m)
             \/ a = "conflict" /\ ConflictAnswered(m)
             \/ a = "failed"   /\ UNCHANGED conspectVars   \* 400, or the request is lost
          /\ mutations' = (mutations \ {m}) \cup {[m EXCEPT !.answer = a]}
    /\ UNCHANGED <<drafts, screenVars, refreshes, edits>>

\* The preparation of the conspect ends.
PreparationEnds ==
    /\ conspect = "preparing_review"
    /\ conspect' = StatusOf(resolved, tagged)
    /\ UNCHANGED <<decisions, resolved, tagged, drafts, screenVars, refreshes, mutations,
                   edits>>

-----------------------------------------------------------------------------
(* reviewMutation goes on.                                                 *)

\* The drafts that saved() deletes, with what was typed since the request.
Deletes(m) ==
    CASE m.kind \in {"save", "split"} -> {m.card}
      [] m.kind = "apply"             -> Cards
      [] OTHER                        -> {}

Without(C) == [i \in Cards |-> IF i \in C THEN 0 ELSE drafts[i]]

Over(m) == mutations' = mutations \ {m}

MutationSaved(m) ==
    /\ m.answer = "ok"
    /\ Over(m)
    /\ drafts' = Without(Deletes(m))
    /\ UNCHANGED <<conspectVars, screenVars, edits>>
    /\ Asks

\* A 409 of any card clears all drafts.
MutationConflicts(m) ==
    /\ m.answer = "conflict"
    /\ Over(m)
    /\ drafts' = Without(Cards)
    /\ UNCHANGED <<conspectVars, screenVars, edits>>
    /\ Asks

\* The button is enabled again, the Apply button whatever was typed meanwhile.
MutationFails(m) ==
    /\ m.answer = "failed"
    /\ Over(m)
    /\ busy'  = IF m.shown THEN busy \ {m.card} ELSE busy
    /\ apply' = IF m.shown /\ m.kind = "apply" THEN "enabled" ELSE apply
    /\ UNCHANGED <<conspectVars, drafts, cards, refreshes, edits>>

-----------------------------------------------------------------------------
CardsNext ==
    \/ \E i \in Cards : EditCard(i) \/ SaveCard(i) \/ SplitCard(i)
    \/ SaveTag \/ ClickApply
    \/ RefreshClicked \/ EventArrives
    \/ \E view \in refreshes : Refreshed(view)
    \/ \E m \in mutations :
          Serve(m) \/ MutationSaved(m) \/ MutationConflicts(m) \/ MutationFails(m)
    \/ PreparationEnds

CardsSpec == CardsInit /\ [][CardsNext]_cardVars

-----------------------------------------------------------------------------
\* What has been typed is what is on the screen, and what the next save will
\* send, whatever was refreshed, saved or split meanwhile.
DraftsAreShown ==
    cards # NotListed => \A i \in Cards : drafts[i] # 0 => cards.content[i] = drafts[i]
=============================================================================
