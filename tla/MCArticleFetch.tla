--------------------------- MODULE MCArticleFetch ---------------------------
(* Pages, one of which names another as canonical, and small sites.         *)
EXTENDS ArticleFetch

At(page, spelling) == [host |-> "h", page |-> page, spelling |-> spelling]
Entry(page, spelling, at) == [url |-> At(page, spelling), at |-> at]
Answer(root, locs, entries) == [ok |-> TRUE, root |-> root, locs |-> locs, entries |-> entries]

MCHtml == [p1 |-> [canonical |-> NoUrl, at |-> 3],
           p2 |-> [canonical |-> At("p1", "www"), at |-> 4],
           p3 |-> [canonical |-> NoUrl, at |-> 2]]

MCLegacy == {<<>>, <<At("p3", "plain"), At("p1", "plain")>>}

MCSource == <<[host |-> "h", feeds |-> <<"feed">>, sitemaps |-> <<"index">>,
               sections |-> <<"section">>, nested |-> {"index", "old", "new"},
               month |-> [index |-> NoMonth, old |-> 1, new |-> 2],
               place |-> [index |-> 1, old |-> 3, new |-> 2],
               include |-> {}, exclude |-> {"tag"}]>>

\* An index that lists itself, an archive month, and one page in three spellings.
FullSite ==
    [feed    |-> Answer("rss", <<>>, <<Entry("p1", "tracking", 3), [url |-> NoUrl, at |-> NoDate]>>),
     index   |-> Answer("sitemapindex", <<"old", "index", "new", "other">>, <<>>),
     old     |-> Answer("urlset", <<>>, <<Entry("p2", "plain", 2)>>),
     new     |-> Answer("urlset", <<>>, <<Entry("p1", "plain", 4), Entry("tag", "plain", 4)>>),
     section |-> Answer("html", <<>>, <<Entry("p2", "fragment", NoDate), Entry("p1", "plain", NoDate)>>)]

\* Nothing is listed any more.
EmptySite == [index |-> NoDocument]

MCSite == {FullSite, EmptySite}
MCWindow == {[since |-> 4, until |-> NoDate]}
=============================================================================
