---------------------------- MODULE PublicReader ----------------------------
(***************************************************************************)
(* What the backend serves from the tables of IdentityResolution: the feed *)
(* and the pages of public cases, the pages of entities, the latest events *)
(* and the sitemap.  Each is a reading of one committed state.  Summaries  *)
(* (module CaseCuration), sorting, paging, search, images and view         *)
(* counters are left out: every case here has its summary.                 *)
(***************************************************************************)
EXTENDS IdentityResolution

\* _public_case_predicate.
Public(c) == Active(c) /\ cas[c].links # {}

Shown(k, c) == {i \in Id(k) : material[k][<<c, i>>] > 0}

Feed == {c \in Case : Public(c)}

\* The articles a case page lists under an identity.
Supporting(k, c, i) == {a \in Article : <<a, i, c>> \in assigned[k]}

\* _other_cases asks for an active case with something shared; unlike the public predicate
\* it does not ask for an article.
OtherCases(c) ==
    {d \in Case \ {c} :
        /\ Active(d)
        /\ \/ cas[c].links \cap cas[d].links # {}
           \/ \E k \in Kind : Shown(k, c) \cap Shown(k, d) # {}}

LatestEvents ==
    {i \in Id("event") : identity["event"][i].date # <<>> /\ \E c \in Feed : i \in Shown("event", c)}

\* entity_page: a description, a public case that shows the entity, and an article.
EntityServed(i) ==
    /\ identity["entity"][i].description = "text"
    /\ \E c \in Feed : i \in Shown("entity", c)
    /\ \E c \in Feed, a \in Article : <<a, i, c>> \in assigned["entity"]

\* Mutant: the entities of the sitemap are not asked for a public case.
AnySitemapEntities ==
    {i \in Id("entity") :
        /\ identity["entity"][i].description # "none"
        /\ \E c \in Case : i \in Shown("entity", c)}

SitemapEntities ==
    {i \in Id("entity") :
        /\ identity["entity"][i].description # "none"
        /\ \E c \in Feed : i \in Shown("entity", c)}

\* Readers never meet a dead end: whatever mutations have been committed, an identity
\* shown on a public page has an article of that page behind it, other cases are public
\* although _other_cases does not ask for it, every dated event that is listed belongs to
\* a public page, and an entity in the sitemap has a page (unless its description
\* is the empty string, which the sitemap takes for one and entity_page does not).
PagesAreSupported ==
    /\ \A c \in Feed :
        /\ \A k \in Kind : \A i \in Shown(k, c) :
              Supporting(k, c, i) # {} /\ Supporting(k, c, i) \subseteq cas[c].links
        /\ OtherCases(c) \subseteq Feed
    /\ \A i \in LatestEvents : \E c \in Feed : Supporting("event", c, i) # {}
    /\ \A i \in SitemapEntities : EntityServed(i) \/ identity["entity"][i].description = "blank"
=============================================================================
