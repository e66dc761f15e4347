------------------------ MODULE IdentityResolution ------------------------
(***************************************************************************)
(* Entities and events of the articles: the two identity handlers, the     *)
(* article-level rows they write, the links of the public pages            *)
(* materialized from these, and the mutations of cases that move the rows  *)
(* (links of a resolution, splits, merges, hidden cases, refreshes).       *)
(*                                                                         *)
(* A handler takes the advisory lock of its kind without waiting, reads    *)
(* the article's cases, retrieves candidates and asks the LLM, all in the  *)
(* transaction that holds the lock; between Start and Commit the mutations *)
(* that need only the case lock go on.  Splits and merges take both locks. *)
(* Nothing a transaction wrote is seen before its commit, but the vector   *)
(* index is written before it, and keeps what a rolled-back handler wrote. *)
(*                                                                         *)
(* The two kinds run the same code but for the anchors of an event, the    *)
(* event count of a case, and the date and place an entity does not have.  *)
(* Summaries, audits and revisions of cases are in module CaseCuration.    *)
(***************************************************************************)
EXTENDS IdentityDecisions

CONSTANTS
    Article,         \* articles with a card
    Case,            \* ids of cases, in the order of created_at
    MaxIdentities,   \* bound on the identities of each kind ever created
    Cards,           \* what the cards may hold: the items of each article, per kind
    Descriptions,    \* the descriptions an answer may give, per kind
    CandidateLimit,  \* identities retrieved per item
    References,      \* the patterns of references an answer may have
    CommitMayFail    \* kinds whose commit may fail after the vectors are written

Kind == {"entity", "event"}

\* The description of an identity: missing, the empty string, or a text.
Text == {"none", "blank", "text"}

ASSUME CaseAssumption == Case \subseteq Nat \ {0} /\ IsFiniteSet(Article)
ASSUME IdentityAssumption == MaxIdentities \in [Kind -> Nat]
ASSUME LimitAssumption == CandidateLimit \in Nat
ASSUME CommitAssumption == CommitMayFail \subseteq Kind
ASSUME DescriptionAssumption == Descriptions \in [Kind -> SUBSET Text]
\* An item has its anchors, and claims: the dates an answer may give it.  Those of an
\* entity are empty.
ASSUME CardAssumption ==
    \A items \in Cards : \A k \in Kind, a \in Article :
        /\ items[k][a] \in Seq([date : Seq(Nat), place : STRING, claims : SUBSET Seq(Nat)])
        /\ k = "entity" => \A n \in DOMAIN items[k][a] :
              LET item == items[k][a][n] IN
              item.date = <<>> /\ item.place = Nowhere /\ item.claims = {<<>>}

VARIABLES
    items,     \* the items of the cards; they never change
    cas,       \* cases, with the articles of case_articles as `links'
    identity,  \* the entities and events tables
    mention,   \* article_entities and article_events: who is in which article
    assigned,  \* article_entity_cases and article_event_cases
    material,  \* case_entities and case_events: their article counts, 0 is no row
    index,     \* identities with a point in the vector index
    asked,     \* the handler of each kind that holds the lock and waits for the LLM
    refused    \* history: an answer that passed validation could not be written

vars == <<items, cas, identity, mention, assigned, material, index, asked, refused>>

Id(k) == 1..MaxIdentities[k]

NoCase == [status |-> "absent", links |-> {}, events |-> 0]
Unknown == [present |-> FALSE, date |-> <<>>, place |-> Nowhere, description |-> "none"]

Init ==
    /\ items \in Cards
    /\ cas = [c \in Case |-> NoCase]
    /\ identity = [k \in Kind |-> [i \in Id(k) |-> Unknown]]
    /\ mention = [k \in Kind |-> {}]
    /\ assigned = [k \in Kind |-> {}]
    /\ material = [k \in Kind |-> [p \in Case \X Id(k) |-> 0]]
    /\ index = [k \in Kind |-> {}]
    /\ asked = [k \in Kind |-> {}]
    /\ refused = FALSE

Present(k) == {i \in Id(k) : identity[k][i].present}
CasesOf(a) == {c \in Case : a \in cas[c].links}
Active(c) == cas[c].status = "active"

\* The next uuid4 of a case; the ids of a kind no row and no point ever had.
FreshCase(c) ==
    cas[c].status = "absent" /\ \A d \in Case : d < c => cas[d].status # "absent"
FreshIds(k) == Id(k) \ (Present(k) \cup index[k])

NewCase(links) == [status |-> "active", links |-> links, events |-> 0]

-----------------------------------------------------------------------------
(* Materialized links.                                                     *)

\* rebuild_case_entities and rebuild_case_events, for the given pairs.
Rebuilt(k, rows, pairs) ==
    [p \in Case \X Id(k) |->
        IF p \in pairs THEN Cardinality({a \in Article : <<a, p[2], p[1]>> \in rows})
        ELSE material[k][p]]

\* The event counts of the cases in the pairs, recounted from the rebuilt links.
Recounted(table, cases, links) ==
    [c \in Case |->
        IF c \in cases
        THEN [table[c] EXCEPT !.events = Cardinality({i \in Id("event") : links[<<c, i>>] > 0})]
        ELSE table[c]]

\* Pairs of the rows of one article.
PairsOf(rows, a) == {<<r[3], r[2]>> : r \in {s \in rows : s[1] = a}}

-----------------------------------------------------------------------------
(* The identity handlers.                                                  *)

\* Any CandidateLimit points of the index, then only those that are rows.
Retrieved(k) ==
    LET size == IF CandidateLimit < Cardinality(index[k]) THEN CandidateLimit
                ELSE Cardinality(index[k]) IN
    {points \cap Present(k) : points \in {s \in SUBSET index[k] : Cardinality(s) = size}}

\* handle up to the question.  A busy lock defers the job; an article without cases
\* fails it, and one without items is done at once.
Start(k, a) ==
    /\ asked[k] = {}
    /\ CasesOf(a) # {} /\ items[k][a] # <<>>
    /\ \E candidates \in [DOMAIN items[k][a] -> Retrieved(k)] :
          asked' = [asked EXCEPT ![k] =
              {[article |-> a, cases |-> CasesOf(a), candidates |-> candidates]}]
    /\ UNCHANGED <<cas, identity, mention, assigned, material, index, refused>>

\* What the LLM may say of one item: any identity, any cases, one of the item's claims for
\* its date.
Proposals(k, a, n) ==
    LET item == items[k][a][n] IN
    {Decision(n, action, id, cases, date, item.place, description) :
        action \in {"create", "link", "reject"}, id \in Id(k), cases \in SUBSET Case,
        date \in item.claims, description \in Descriptions[k]}

\* What is left of it after normalization.  Answers that stay invalid end in Fail.
Readings(k, q, n) ==
    {Normalized(d, q.candidates[n]) :
        d \in {e \in Proposals(k, q.article, n) : Assignable(e, q.cases)}}

\* The answers that pass normalization and validation: one decision per item, in the
\* order of the references.
Answers(k, q) ==
    LET n == Len(items[k][q.article])
        orders == {r \in {Aligned(refs, n) : refs \in References} : Covers(r, n)} IN
    {answer \in [1..n -> UNION {Readings(k, q, m) : m \in 1..n}] :
        \E order \in orders : \A m \in 1..n : answer[m].item = order[m]}

\* Link decisions of events are grounded in the card before they are written.
Final(k, q, answer) ==
    IF k = "event"
    THEN Grounded(answer, items[k][q.article],
                  [i \in Id(k) |-> [date |-> identity[k][i].date, place |-> identity[k][i].place]])
    ELSE answer

\* _resolve_entity and _resolve_event for one decision, and its article-level rows.
\* The rows of an identity that two decisions name are merged.  `ok' is FALSE from the
\* first exception on, `short' when the bound on identities is met.
Persist(s, d, k, q) ==
    LET fresh == FreshIds(k) \ {i \in Id(k) : s.rows[i].present}
        new == CHOOSE i \in fresh : \A j \in fresh : i <= j
        id == IF d.action = "create" THEN new ELSE d.id
        old == s.rows[id]
        merged == Merged(old, d.date, d.place)
        description == IF old.description = "none" THEN d.description ELSE old.description IN
    IF d.action = "reject" \/ ~s.ok \/ s.short THEN s
    ELSE IF d.action = "create" /\ fresh = {} THEN [s EXCEPT !.short = TRUE]
    ELSE IF d.action = "link" /\ (\/ id \notin q.candidates[d.item] \/ ~old.present
                                  \/ Conflict(old, d.date, d.place))
    THEN [s EXCEPT !.ok = FALSE]
    ELSE [s EXCEPT
             !.rows[id] = [present |-> TRUE, date |-> merged.date, place |-> merged.place,
                           description |-> description],
             !.mention = @ \cup {<<q.article, id>>},
             !.assigned = @ \cup {<<q.article, id, c>> : c \in d.cases}]

\* _persist_entities and _persist_events: the article's old rows are deleted first.
Deleted(k, q) ==
    [rows |-> identity[k], ok |-> TRUE, short |-> FALSE,
     mention |-> {r \in mention[k] : r[1] # q.article},
     assigned |-> {r \in assigned[k] : r[1] # q.article}]

\* Then the decisions are written one by one.
Persisting(k, q, decisions) ==
    LET after[n \in 0..Len(decisions)] ==
            IF n = 0 THEN Deleted(k, q) ELSE Persist(after[n - 1], decisions[n], k, q)
    IN after

Persisted(k, q, answer) ==
    LET final == Final(k, q, answer) IN Persisting(k, q, final)[Len(final)]

\* Mutant: only the pairs the answer names are rebuilt.
AffectedNow(k, a, rows) == PairsOf(rows, a)

\* The pairs of the article's old rows and of its new ones.
Affected(k, a, rows) == PairsOf(assigned[k], a) \cup PairsOf(rows, a)

Commit(k, q, r) ==
    LET pairs == Affected(k, q.article, r.assigned)
        links == Rebuilt(k, r.assigned, pairs) IN
    /\ identity' = [identity EXCEPT ![k] = r.rows]
    /\ mention' = [mention EXCEPT ![k] = r.mention]
    /\ assigned' = [assigned EXCEPT ![k] = r.assigned]
    /\ material' = [material EXCEPT ![k] = links]
    /\ cas' = IF k = "event" THEN Recounted(cas, {p[1] : p \in pairs}, links) ELSE cas
    /\ index' = [index EXCEPT ![k] = @ \cup {p[2] : p \in pairs}]

\* The end of handle: the rows, the materialized links and the vectors, then the commit.
\* An exception of _resolve_entity or _resolve_event rolls everything back.
Write(k, q, r) ==
    /\ ~r.short
    /\ asked' = [asked EXCEPT ![k] = {}]
    /\ refused' = (refused \/ ~r.ok)
    /\ IF r.ok THEN Commit(k, q, r)
       ELSE UNCHANGED <<cas, identity, mention, assigned, material, index>>

\* The answer stays invalid, or the LLM, the index or the database fails.  After the
\* vectors were written the index keeps the point of an identity that has no row (one
\* such point at a time in the model).
Fail(k) ==
    /\ asked[k] # {}
    /\ asked' = [asked EXCEPT ![k] = {}]
    /\ \/ UNCHANGED index
       \/ /\ k \in CommitMayFail /\ index[k] \subseteq Present(k) /\ FreshIds(k) # {}
          /\ index' = [index EXCEPT
                 ![k] = @ \cup {CHOOSE i \in FreshIds(k) : \A j \in FreshIds(k) : i <= j}]
    /\ UNCHANGED <<cas, identity, mention, assigned, material, refused>>

-----------------------------------------------------------------------------
(* The mutations of cases.                                                 *)

\* Case resolution links an article that has no case, to active cases and new ones.
Link(a, existing, new) ==
    /\ CasesOf(a) = {}
    /\ existing \cup new # {}
    /\ existing \subseteq {c \in Case : Active(c)}
    /\ new \subseteq {c \in Case : FreshCase(c)}
    /\ cas' = [c \in Case |->
           IF c \in existing THEN [cas[c] EXCEPT !.links = @ \cup {a}]
           ELSE IF c \in new THEN NewCase({a})
           ELSE cas[c]]
    /\ UNCHANGED <<identity, mention, assigned, material, index, asked, refused>>

Hide(c) ==
    /\ Active(c)
    /\ cas' = [cas EXCEPT ![c].status = "hidden"]
    /\ UNCHANGED <<identity, mention, assigned, material, index, asked, refused>>

\* Mutant: the mutation asks for the case lock only.
CaseLock == TRUE

\* Splits and merges hold the entity and the event lock as well.
AllLocks == \A k \in Kind : asked[k] = {}

\* Every identity of the articles is assigned to the case.
Assigned(k, articles, c) ==
    {<<r[1], r[2], c>> : r \in {s \in mention[k] : s[1] \in articles}}

\* The pairs of these rows.
Pairs(rows) == {<<r[3], r[2]>> : r \in rows}

\* A decisive coherence audit: the case keeps the articles of the original story, those
\* of another story become a new case, and the rest are detached.  All links of the
\* case are deleted, then the articles' identities assigned to their story's case.
Split(c, original, story, new) ==
    LET rows(k) == Assigned(k, original, c) \cup UNION {Assigned(k, story, d) : d \in new}
        kept(k) == {r \in assigned[k] : r[3] # c} \cup rows(k)
        cleared(k) == {c} \X Id(k)
        links(k) == Rebuilt(k, kept(k), cleared(k) \cup Pairs(rows(k))) IN
    /\ AllLocks
    /\ Active(c)
    /\ original # {} /\ original \subseteq cas[c].links /\ story \subseteq cas[c].links
    /\ new \subseteq {d \in Case : FreshCase(d)}
    /\ (new = {}) <=> (story = {})
    /\ assigned' = [k \in Kind |-> kept(k)]
    /\ material' = [k \in Kind |-> links(k)]
    /\ cas' = Recounted([d \in Case |->
                  IF d = c THEN [cas[c] EXCEPT !.links = original]
                  ELSE IF d \in new THEN NewCase(story)
                  ELSE cas[d]], {c} \cup new, links("event"))
    /\ UNCHANGED <<identity, mention, index, asked, refused>>

\* A candidate pair shares at least 30 % of the smaller case.
Duplicates(c, d) ==
    LET shared == Cardinality(cas[c].links \cap cas[d].links)
        size(e) == Cardinality(cas[e].links) IN
    shared >= 1 /\ (shared * 10 >= size(c) * 3 \/ shared * 10 >= size(d) * 3)

\* A duplicate audit that merges, into the case with more articles or the older: the
\* survivor takes the articles and all their identities, the absorbed case keeps its
\* own rows.
Merge(survivor, absorbed) ==
    LET rows(k) == Assigned(k, cas[absorbed].links, survivor)
        links(k) == Rebuilt(k, assigned[k] \cup rows(k), Pairs(rows(k))) IN
    /\ AllLocks
    /\ survivor # absorbed /\ Active(survivor) /\ Active(absorbed)
    /\ Duplicates(survivor, absorbed)
    /\ \/ Cardinality(cas[survivor].links) > Cardinality(cas[absorbed].links)
       \/ Cardinality(cas[survivor].links) = Cardinality(cas[absorbed].links) /\ survivor < absorbed
    /\ assigned' = [k \in Kind |-> assigned[k] \cup rows(k)]
    /\ material' = [k \in Kind |-> links(k)]
    /\ cas' = Recounted([cas EXCEPT ![survivor].links = @ \cup cas[absorbed].links,
                                    ![absorbed].status = "merged"],
                        {survivor}, links("event"))
    /\ UNCHANGED <<identity, mention, index, asked, refused>>

Step ==
    \/ \E k \in Kind :
        \/ \E a \in Article : Start(k, a)
        \/ \E q \in asked[k] :
              \E r \in {Persisted(k, q, answer) : answer \in Answers(k, q)} :
                 Write(k, q, r)
        \/ Fail(k)
    \/ \E a \in Article, existing, new \in SUBSET Case : Link(a, existing, new)
    \/ \E c \in Case :
        \/ Hide(c)
        \/ \E original, story \in SUBSET Article, new \in SUBSET Case :
              Split(c, original, story, new)
        \/ \E d \in Case : Merge(c, d)

Next == Step /\ UNCHANGED items

Spec == Init /\ [][Next]_vars

-----------------------------------------------------------------------------
(* Properties.                                                             *)

\* The dates the cards and the answers give to items.
Stated(k) ==
    {<<>>} \cup UNION {UNION {{items[k][a][n].date} \cup items[k][a][n].claims :
                                 n \in DOMAIN items[k][a]} : a \in Article}

\* Rows, counts and points have their types; the date of an event is one that some
\* card or answer states, never a mixture of two.
TypeOK ==
    /\ cas \in [Case -> [status : {"absent", "active", "hidden", "merged"},
                         links : SUBSET Article, events : Nat]]
    /\ items \in Cards
    /\ \A k \in Kind :
        /\ \A i \in Id(k) :
            /\ identity[k][i].present \in BOOLEAN
            /\ identity[k][i].description \in Descriptions[k] \cup {"none"}
            /\ identity[k][i].date \in Stated(k)
        /\ mention[k] \subseteq Article \X Id(k)
        /\ assigned[k] \subseteq Article \X Id(k) \X Case
        /\ material[k] \in [Case \X Id(k) -> Nat]
        /\ Present(k) \subseteq index[k] /\ index[k] \subseteq Id(k)
        /\ Cardinality(asked[k]) <= 1

\* case_entities, case_events and event_count are derived tables rebuilt pair by pair:
\* whichever of a resolution, a repeated resolution, a split or a merge touched an article
\* last, every link counts exactly the articles assigned, and every case its events.
LinksMatchAssignments ==
    /\ \A k \in Kind, c \in Case : \A i \in Id(k) :
          material[k][<<c, i>>] = Cardinality({a \in Article : <<a, i, c>> \in assigned[k]})
    /\ \A c \in Case :
          cas[c].events = Cardinality({i \in Id("event") : material["event"][<<c, i>>] > 0})

\* An identity is assigned to a case for an article only while the article is linked to
\* the case, although the cases were read before the LLM was asked and written after.
AssignmentsFollowLinks ==
    \A k \in Kind : \A r \in assigned[k] : r[1] \in cas[r[3]].links

\* An answer that passed normalization and validation can be written: no decision
\* names an identity that is gone, and none contradicts the anchors of the event it
\* links, those the decisions before it in the same answer have added included.
AnswersApply == ~refused

\* What is known of an event is never rewritten: later articles add to its date and
\* its place, and an identity never disappears.
AnchorsAreKept ==
    [][\A k \in Kind : \A i \in Present(k) :
          LET old == identity[k][i]
              new == identity'[k][i] IN
          /\ new.present
          /\ Len(old.date) <= Len(new.date)
          /\ SubSeq(new.date, 1, Len(old.date)) = old.date
          /\ old.place # Nowhere => new.place = old.place]_vars
=============================================================================
