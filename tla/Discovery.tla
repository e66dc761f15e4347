------------------------------ MODULE Discovery ------------------------------
(***************************************************************************)
(* Discovery of article URLs by worker_ingestion: what one pass over a     *)
(* source collects from its feeds, its (nested) sitemaps and its section   *)
(* pages.  There is no state: the operators are functions of the source's  *)
(* configuration, of the site (the answers its servers give) and of the    *)
(* date window the pass was asked for.                                     *)
(*                                                                         *)
(* A URL is a page of a host, spelled in one of several ways.  A document  *)
(* is the answer to a request: whether it came, what it parses as, the     *)
(* sitemaps and the articles it lists.  Dates are positive integers.       *)
(***************************************************************************)
EXTENDS Integers, SequencesExt, FiniteSetsExt

CONSTANTS
    MaxSitemapUrls,   \* max_sitemap_urls_per_source
    MaxBackfillUrls,  \* max_backfill_urls_per_source
    MonthLength       \* days of a month, in the unit of dates

ASSUME LimitsAssumption ==
    /\ MaxSitemapUrls \in Nat \ {0}
    /\ MaxBackfillUrls \in Nat
    /\ MonthLength \in Nat \ {0}

NoDate == 0
NoMonth == 0

-----------------------------------------------------------------------------
(* Lists.                                                                  *)

\* The elements of s at the positions P, in the order R of the positions.
Arranged(s, P, R) ==
    [k \in 1..Cardinality(P) |->
        s[CHOOSE i \in P : Cardinality({j \in P : <<j, i>> \in R}) = k - 1]]

\* The elements of s that are in S.
Select(s, S) ==
    LET P == {i \in DOMAIN s : s[i] \in S}
    IN  Arranged(s, P, {x \in P \X P : x[1] < x[2]})

\* Mutant: a URL two channels list is taken twice.
AppendAll(articles, candidates, limit) ==
    SubSeq(articles \o candidates, 1, Min({limit, Len(articles \o candidates)}))

Added(out, u, limit) == IF Len(out) >= limit \/ u \in ToSet(out) THEN out ELSE Append(out, u)

\* _append_unique, called only while there is room.
AppendUnique(articles, candidates, limit) ==
    LET after[n \in 0..Len(candidates)] ==
            IF n = 0 THEN articles ELSE Added(after[n - 1], candidates[n], limit)
    IN  after[Len(candidates)]

-----------------------------------------------------------------------------
(* URLs.                                                                   *)

Spelling == {"plain", "tracking", "www", "fragment"}

Address == [host : STRING, page : STRING, spelling : Spelling]

\* What the normalizer discards (scheme, www., default port, tracking parameters,
\* fragment, repeated and trailing slashes) is the spelling.
Normalize(u) == [host |-> u.host, page |-> u.page, spelling |-> "plain"]

NoUrl == [host |-> "", page |-> "", spelling |-> "plain"]

\* The canonical link of the page wins over the address it was fetched from.
IdentityUrl(u, html) ==
    IF html.canonical # NoUrl THEN Normalize(html.canonical) ELSE Normalize(u)

\* Include patterns, if there are any, and then exclude patterns.
Allowed(u, source) ==
    /\ source.include = {} \/ u.page \in source.include
    /\ u.page \notin source.exclude

-----------------------------------------------------------------------------
(* Dates.                                                                  *)

Bounded(w) == w.since # NoDate \/ w.until # NoDate

\* An undated entry is in every window.
InWindow(at, w) ==
    \/ at = NoDate
    \/ /\ w.since = NoDate \/ w.since <= at
       /\ w.until = NoDate \/ at <= w.until

\* An archive sitemap whose URL names month m lists that month only.
MayOverlap(m, w) ==
    \/ ~Bounded(w)
    \/ m = NoMonth
    \/ /\ w.until = NoDate \/ m * MonthLength <= w.until
       /\ w.since = NoDate \/ w.since < (m + 1) * MonthLength

DiscoveryLimit(w) ==
    IF Bounded(w) THEN Max({MaxSitemapUrls, MaxBackfillUrls}) ELSE MaxSitemapUrls

-----------------------------------------------------------------------------
(* Sources and documents.                                                  *)

Link == [url : Address, at : Nat]

Root == {"rss", "feed", "sitemapindex", "urlset", "html", "malformed"}

Document == [ok : BOOLEAN, root : Root, locs : Seq(STRING), entries : Seq(Link)]

\* month and place give the sort key of a nested sitemap: the month in its URL, and
\* where the URL comes in the order of strings.
IsSource(source) ==
    /\ {source.feeds, source.sitemaps, source.sections} \subseteq Seq(STRING)
    /\ {source.month, source.place} \subseteq [source.nested -> Nat]

IsSite(site) == IsFiniteSet(DOMAIN site) /\ \A name \in DOMAIN site : site[name] \in Document

NoDocument == [ok |-> FALSE, root |-> "malformed", locs |-> <<>>, entries |-> <<>>]

Fetched(site, name) == IF name \in DOMAIN site THEN site[name] ELSE NoDocument

\* An entry without a link is skipped.
Linked(entries) == Select(entries, {e \in ToSet(entries) : e.url # NoUrl})

Urls(entries) == [i \in DOMAIN entries |-> entries[i].url]

ParseSitemap(d) ==
    [nested |-> IF d.root = "sitemapindex" THEN d.locs ELSE <<>>,
     urls   |-> IF d.root = "urlset" THEN Linked(d.entries) ELSE <<>>]

ParseFeed(d) == IF d.root \in {"rss", "feed"} THEN Linked(d.entries) ELSE <<>>

Bare(u) == IF u.spelling = "fragment" THEN Normalize(u) ELSE u

\* Links of the section's own host, without fragment, each once; they carry no date.
ParseSection(d, host) ==
    LET links == Urls(Linked(d.entries))
        own == Select(links, {u \in ToSet(links) : u.host = host})
    IN  AppendUnique(<<>>, [i \in DOMAIN own |-> Bare(own[i])], Len(own))

-----------------------------------------------------------------------------
(* The three kinds of discovery, and their union.                          *)

Kept(entries, source, w) ==
    Select(entries, {e \in ToSet(entries) : InWindow(e.at, w) /\ Allowed(e.url, source)})

FeedUrls(source, site, w) ==
    FlattenSeq([i \in DOMAIN source.feeds |->
        LET d == Fetched(site, source.feeds[i])
        IN  IF d.ok THEN Urls(Kept(ParseFeed(d), source, w)) ELSE <<>>])

SectionUrls(source, site) ==
    FlattenSeq([i \in DOMAIN source.sections |->
        LET d == Fetched(site, source.sections[i])
            links == ParseSection(d, source.host)
        IN  IF d.ok THEN Select(links, {u \in ToSet(links) : Allowed(u, source)}) ELSE <<>>])

\* The sort of the nested sitemaps, newest first; it is stable.
ComesFirst(locs, source, j, i) ==
    LET month(k) == source.month[locs[k]]
        place(k) == source.place[locs[k]]
    IN  \/ month(j) > month(i)
        \/ month(j) = month(i) /\ place(j) > place(i)
        \/ month(j) = month(i) /\ place(j) = place(i) /\ j < i

\* Nested sitemaps that match the source's pattern and may overlap.
Nested(locs, source, w) ==
    LET P == {i \in DOMAIN locs :
                locs[i] \in source.nested /\ MayOverlap(source.month[locs[i]], w)}
    IN  Arranged(locs, P, {x \in P \X P : ComesFirst(locs, source, x[1], x[2])})

\* The sitemaps and the articles that document d makes the traversal take.
Nests(d, source, w) == Nested(ParseSitemap(d).nested, source, w)
Lists(d, source, w) == Urls(Kept(ParseSitemap(d).urls, source, w))

Finished(st, limit) == st.queue = <<>> \/ Len(st.out) >= limit

\* Takes the first sitemap of the queue.
Visit(st, source, site, w, limit) ==
    LET name == Head(st.queue)
        d == Fetched(site, name)
        found == st.out \o Lists(d, source, w)
        left == [st EXCEPT !.queue = Tail(@), !.seen = @ \cup {name}]
    IN  IF name \in st.seen \/ ~d.ok THEN left
        ELSE [left EXCEPT !.queue = @ \o Nests(d, source, w),
                          !.out = SubSeq(found, 1, Min({limit, Len(found)}))]

Turn(st, source, site, w, limit) ==
    IF Finished(st, limit) THEN st ELSE Visit(st, source, site, w, limit)

\* A document is expanded once, so there are at most this many turns.
MaxVisits(source, site) ==
    Len(source.sitemaps)
        + Cardinality(DOMAIN site) * Max({0} \cup {Len(site[name].locs) : name \in DOMAIN site})

Traversal(source, site, w, limit) ==
    LET after[turn \in 0..MaxVisits(source, site)] ==
            IF turn = 0 THEN [queue |-> source.sitemaps, seen |-> {}, out |-> <<>>]
            ELSE Turn(after[turn - 1], source, site, w, limit)
    IN  after

\* The limit counts what the sitemaps list, repetitions included.
SitemapUrls(source, site, w, limit) ==
    Traversal(source, site, w, limit)[MaxVisits(source, site)].out

\* Feeds first, then sitemaps, then sections, up to the limit.
Discover(source, site, w) ==
    LET limit == DiscoveryLimit(w)
        fed == AppendUnique(<<>>, FeedUrls(source, site, w), limit)
        mapped == IF Len(fed) < limit
                  THEN AppendUnique(fed, SitemapUrls(source, site, w, limit), limit) ELSE fed
    IN  IF Len(mapped) < limit
        THEN AppendUnique(mapped, SectionUrls(source, site), limit) ELSE mapped

-----------------------------------------------------------------------------
(* What discovery promises.                                                *)

Qualifies(e, source, w) == e.url # NoUrl /\ InWindow(e.at, w) /\ Allowed(e.url, source)

\* The documents of a source's list that came.
Came(site, names) == {site[name] : name \in {n \in ToSet(names) \cap DOMAIN site : site[n].ok}}

\* The articles its feeds, and the links its sections, offer.
FeedOffers(source, site, w) ==
    UNION {{e.url : e \in {x \in ToSet(d.entries) : Qualifies(x, source, w)}} :
              d \in {c \in Came(site, source.feeds) : c.root \in {"rss", "feed"}}}

SectionOffers(source, site) ==
    UNION {{Bare(e.url) : e \in {x \in ToSet(d.entries) : /\ x.url # NoUrl
                                                         /\ x.url.host = source.host
                                                         /\ Allowed(Bare(x.url), source)}} :
              d \in Came(site, source.sections)}

\* Does sitemap s lead the traversal to sitemap t?
LeadsTo(source, site, w, s, t) ==
    /\ site[s].ok
    /\ site[s].root = "sitemapindex"
    /\ t \in ToSet(site[s].locs) \cap source.nested
    /\ MayOverlap(source.month[t], w)

\* Sets of documents that contain the source's own sitemaps, and every one that a
\* sitemap in them leads to.
Closed(source, site, w) ==
    {S \in SUBSET DOMAIN site :
        /\ ToSet(source.sitemaps) \cap DOMAIN site \subseteq S
        /\ \A s \in S, t \in DOMAIN site : LeadsTo(source, site, w, s, t) => t \in S}

\* The sitemaps a traversal can come to, whatever the limit.
Reachable(source, site, w) ==
    LET closed == Closed(source, site, w)
    IN  {s \in DOMAIN site : \A S \in closed : s \in S}

\* The places at which the sitemaps offer an article.
Offers(source, site, w) ==
    UNION {{<<s, k>> : k \in {i \in DOMAIN site[s].entries : Qualifies(site[s].entries[i], source, w)}} :
              s \in {t \in Reachable(source, site, w) : site[t].ok /\ site[t].root = "urlset"}}

\* No URL twice, none that was not offered, and no more than the limit; and below
\* the limit none is missing, in whichever channel or nested sitemap it was listed
\* (provided the sitemaps repeat no URL: the limit of the traversal counts repetitions).
IsComplete(found, source, site, w) ==
    LET offers == Offers(source, site, w)
        mapped == {site[o[1]].entries[o[2]].url : o \in offers}
        offered == mapped \cup FeedOffers(source, site, w) \cup SectionOffers(source, site)
    IN  /\ Cardinality(ToSet(found)) = Len(found)
        /\ ToSet(found) \subseteq offered
        /\ Len(found) <= DiscoveryLimit(w)
        /\ \/ Len(found) = DiscoveryLimit(w)
           \/ offered \subseteq ToSet(found)
           \/ Cardinality(offers) # Cardinality(mapped)
=============================================================================
