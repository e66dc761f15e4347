------------------------- MODULE IdentityDecisions -------------------------
(***************************************************************************)
(* What happens to the LLM's answer between the provider and the database: *)
(* entity_resolution and event_resolution answers are normalized (module   *)
(* worker_ml.llm.normalization), validated (llm.contracts.identities),     *)
(* and the decisions that survive are grounded in the article's card       *)
(* (worker_ml.identities.decisions).                                       *)
(*                                                                         *)
(* A partial date is the sequence of its known parts: <<>>, <<year>>,      *)
(* <<year, month>> or <<year, month, day>>; its length is the precision.   *)
(* Texts, names, diagnoses and confidences are left out.  An answer is the *)
(* sequence of its decisions, in the provider's order.                     *)
(***************************************************************************)
EXTENDS Integers, Sequences, FiniteSets

\* No identity, and a place that is not known.
NoId == 0
Nowhere == "nowhere"

\* rename_existing and retype_existing are links that also write a name or a type.
\* `item' is the position of the provisional item the decision refers to, 0 a reference
\* to none.
Decision(item, action, id, cases, date, place, description) ==
    [item |-> item, action |-> action, id |-> id, cases |-> cases, date |-> date,
     place |-> place, description |-> description]

-----------------------------------------------------------------------------
(* normalize_llm_output.                                                   *)

\* An answer with one decision per item but references that are not theirs is read by
\* position; in any other answer the references stay.
Aligned(refs, n) ==
    IF Len(refs) = n /\ {refs[k] : k \in 1..n} # 1..n THEN [k \in 1..n |-> k] ELSE refs

\* validate_unique_refs and the coverage checks of the runner and the handler.
Covers(refs, n) == Len(refs) = n /\ {refs[k] : k \in 1..n} = 1..n

Rejected(d) == [d EXCEPT !.action = "reject", !.id = NoId, !.cases = {}]

\* Links to an identity that was not retrieved for the item, and accepted decisions
\* without a case, become rejections; a creation names no identity.
Normalized(d, candidates) ==
    IF \/ d.action = "reject"
       \/ d.action = "link" /\ d.id \notin candidates
       \/ d.cases = {}
    THEN Rejected(d)
    ELSE IF d.action = "create" THEN [d EXCEPT !.id = NoId] ELSE d

\* validate_coverage: only cases the article is linked to.
Assignable(d, cases) == d.cases \subseteq cases

-----------------------------------------------------------------------------
(* Anchors of an event: its date and its place.                            *)

\* Known parts that differ.
DatesConflict(s, t) == \E k \in DOMAIN s \cap DOMAIN t : s[k] # t[k]

PlacesConflict(p, q) == p # Nowhere /\ q # Nowhere /\ p # q

Conflict(anchors, date, place) ==
    DatesConflict(anchors.date, date) \/ PlacesConflict(anchors.place, place)

\* Mutant: the parts already known are added once more.
FilledTwice(s, t) == IF Len(t) > Len(s) THEN s \o t ELSE s

\* The known parts are kept, missing ones are filled.
Filled(s, t) == IF Len(t) > Len(s) THEN s \o SubSeq(t, Len(s) + 1, Len(t)) ELSE s

FilledPlace(p, q) == IF p = Nowhere THEN q ELSE p

\* Mutant: an incoming date replaces the one that is stored.
MergedLatest(anchors, date, place) ==
    [date |-> IF date = <<>> THEN anchors.date ELSE date,
     place |-> FilledPlace(anchors.place, place)]

Merged(anchors, date, place) ==
    [date |-> Filled(anchors.date, date), place |-> FilledPlace(anchors.place, place)]

\* The date of the card, if the decision repeats it with its evidence.
GroundedDate(d, item) == IF d.date = item.date THEN item.date ELSE <<>>

\* An unsafe link becomes the creation of an event described by the card alone.
SourceGroundedCreate(d, item) ==
    [d EXCEPT !.action = "create", !.id = NoId, !.date = GroundedDate(d, item),
              !.place = item.place]

\* Mutant: every link is compared with the candidate as it was loaded, not with what
\* the links before it add to it.
GroundAlone(state, d, items) ==
    LET item == items[d.item] IN
    IF d.action # "link" THEN [state EXCEPT !.out = Append(@, d)]
    ELSE IF Conflict(state.anchors[d.id], item.date, item.place)
    THEN [state EXCEPT !.out = Append(@, SourceGroundedCreate(d, item))]
    ELSE [state EXCEPT
             !.out = Append(@, [d EXCEPT !.date = GroundedDate(d, item), !.place = item.place])]

\* One decision of normalize_event_link_anchors, in the order of the answer.
Ground(state, d, items) ==
    LET item == items[d.item] IN
    IF d.action # "link" THEN [state EXCEPT !.out = Append(@, d)]
    ELSE IF Conflict(state.anchors[d.id], item.date, item.place)
    THEN [state EXCEPT !.out = Append(@, SourceGroundedCreate(d, item))]
    ELSE [state EXCEPT
             !.anchors[d.id] = Merged(@, item.date, item.place),
             !.out = Append(@, [d EXCEPT !.date = GroundedDate(d, item), !.place = item.place])]

\* normalize_event_link_anchors, decision by decision: `anchors' gives those of every
\* candidate as loaded.
Grounding(decisions, items, anchors) ==
    LET after[n \in 0..Len(decisions)] ==
            IF n = 0 THEN [anchors |-> anchors, out |-> <<>>]
            ELSE Ground(after[n - 1], decisions[n], items)
    IN after

Grounded(decisions, items, anchors) == Grounding(decisions, items, anchors)[Len(decisions)].out
=============================================================================
