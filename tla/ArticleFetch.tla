---------------------------- MODULE ArticleFetch ----------------------------
(***************************************************************************)
(* worker-ingestion: passes that discover, fetch and store articles, the   *)
(* durable retry of failed fetches, the repair of missing publication      *)
(* dates, and the script that resets exhausted failures.                   *)
(*                                                                         *)
(* The timer runs one pass at a time; an operator's pass may overlap with  *)
(* it.  Within a pass the sources are taken in turn, and for each source   *)
(* three reads (the site, the due failures, the identities to skip) come   *)
(* before the fetches, which run concurrently and are stored one by one,   *)
(* each in a transaction of its own.                                       *)
(*                                                                         *)
(* A failure is stored under the normalized URL, a success under the       *)
(* identity the page declares, so the two need not meet in one row.        *)
(*                                                                         *)
(* Time is kept in each row as `wait', next_fetch_at minus now: positive   *)
(* when the fetch is not due, Null when the column is null.                *)
(***************************************************************************)
EXTENDS Discovery

CONSTANTS
    Source,       \* the curated sources, a sequence
    Site,         \* possible sites: functions from document names to documents
    Html,         \* what each page contains: its canonical link and its date
    Legacy,       \* rows an earlier release stored without their dates: sequences of URLs
    Window,       \* date windows an operator's pass may ask for
    Limit,        \* values of --limit, 0 for none
    MaxAttempts,  \* fetch_max_attempts
    FirstDelay, SecondDelay, DailyDelay,  \* 1 hour, 6 hours, 1 day
    MaxOverdue,   \* bound: a fetch is not distinguished from one due even longer
    RepairBatch,  \* batch_size of the repair
    MaxFaults     \* bound on exceptions, deaths and operator commands

ASSUME FetchAssumption ==
    /\ MaxAttempts \in Nat \ {0, 1}
    /\ FirstDelay \in Nat \ {0} /\ SecondDelay \in Nat \ {0} /\ DailyDelay \in Nat \ {0}
    /\ MaxOverdue \in Nat \ {0}
    /\ RepairBatch \in Nat \ {0}
    /\ MaxFaults \in Nat /\ Limit \subseteq Nat

\* The catalog is not empty, and whatever a server answers is a document.
ASSUME WorldAssumption ==
    /\ Source \in Seq(ToSet(Source)) \ {<<>>}
    /\ \A k \in DOMAIN Source : IsSource(Source[k])
    /\ \A site \in Site : IsSite(site)

VARIABLES
    article,  \* the articles table, by identity_url
    pass,     \* the two passes
    repair,   \* the repair of missing publication dates
    doubled,  \* history: rows with two fetches admitted at once
    faults

vars == <<article, pass, repair, doubled, faults>>

Pass == {"timer", "manual"}
\* No document comes.
NoSite == [none |-> NoDocument]

Unbounded == [since |-> NoDate, until |-> NoDate]

\* next_fetch_at is null, or so long past that it makes no difference.
Null == -MaxOverdue

Listed(s) == UNION {{e.url : e \in ToSet(s[name].entries)} : name \in DOMAIN s}
Canonical == {Html[p].canonical : p \in DOMAIN Html}
Seen == (UNION {Listed(s) : s \in Site}) \cup Canonical \cup (UNION {ToSet(q) : q \in Legacy})
Url == {u \in Seen \cup {Normalize(v) : v \in Seen} : u.page \in DOMAIN Html}
Id == {Normalize(u) : u \in Url}

\* The world has finitely many pages; what is stored are URLs of it, one row to an identity.
ASSUME UrlAssumption ==
    /\ IsFiniteSet(Id)
    /\ \A q \in Legacy :
        /\ q \in Seq(Url)
        /\ \A j, k \in DOMAIN q : Normalize(q[j]) = Normalize(q[k]) => j = k

\* Html has every page a canonical link or a link that a source allows leads to.
ASSUME PageAssumption ==
    /\ \A p \in DOMAIN Html :
        /\ Html[p].at \in Nat
        /\ Html[p].canonical = NoUrl \/ Html[p].canonical.page \in DOMAIN Html
    /\ \A k \in DOMAIN Source, site \in Site : \A u \in Listed(site) :
        u # NoUrl /\ Allowed(u, Source[k]) => u.page \in DOMAIN Html

Absent == [status |-> "absent", source |-> 0, url |-> NoUrl, attempt |-> 0, wait |-> Null,
           html |-> "", at |-> NoDate, born |-> 0]

Idle == [pc |-> "idle", source |-> 0, last |-> 0, window |-> Unbounded, limit |-> 0,
         site |-> NoSite, found |-> <<>>, retried |-> <<>>, todo |-> {}]

NoRepair == [pc |-> "idle", after |-> 0, rows |-> <<>>, missing |-> {}]

LegacyRow(q, k) == [status |-> "succeeded", source |-> 1, url |-> q[k], attempt |-> 1,
                    wait |-> Null, html |-> q[k].page, at |-> NoDate, born |-> k]

Init ==
    /\ \E q \in Legacy :
        article = [i \in Id |-> IF \E k \in DOMAIN q : Normalize(q[k]) = i
                                THEN LegacyRow(q, CHOOSE k \in DOMAIN q : Normalize(q[k]) = i)
                                ELSE Absent]
    /\ pass = [p \in Pass |-> Idle]
    /\ repair = NoRepair
    /\ doubled = {}
    /\ faults = 0

Fault ==
    /\ faults < MaxFaults
    /\ faults' = faults + 1

Stored == {i \in Id : article[i].status # "absent"}

\* The identity a fetch of u is stored under when it succeeds.
Target(u) == IdentityUrl(u, Html[u.page])

-----------------------------------------------------------------------------
(* Storing: upsert_article.                                                *)

\* Mutants: what the last fetch brought replaces the content; a failure is not
\* counted.
OverwrittenBy(row, new) ==
    [row EXCEPT !.html = new.html, !.at = new.at, !.status = new.status,
                !.attempt = Min({@ + 1, MaxAttempts}),
                !.wait = IF new.status = "succeeded" THEN Null
                         ELSE IF row.attempt <= 1 THEN SecondDelay ELSE DailyDelay]

MergedUncounted(row, new) ==
    [row EXCEPT !.html = IF new.html # "" THEN new.html ELSE @,
                !.at = IF new.at # NoDate THEN new.at ELSE @,
                !.status = new.status,
                !.attempt = IF new.status = "failed" THEN @ ELSE Min({@ + 1, MaxAttempts}),
                !.wait = IF new.status = "succeeded" THEN Null
                         ELSE IF row.attempt <= 1 THEN SecondDelay ELSE DailyDelay]

\* ON CONFLICT: non-empty new values win, the attempt count grows whatever the
\* outcome (it is not distinguished beyond MaxAttempts), the delay depends on the
\* count before.
Merged(row, new) ==
    [row EXCEPT !.html = IF new.html # "" THEN new.html ELSE @,
                !.at = IF new.at # NoDate THEN new.at ELSE @,
                !.status = new.status,
                !.attempt = Min({@ + 1, MaxAttempts}),
                !.wait = IF new.status = "succeeded" THEN Null
                         ELSE IF row.attempt <= 1 THEN SecondDelay ELSE DailyDelay]

Upsert(i, s, u, new) ==
    article' = [article EXCEPT ![i] =
        IF @.status = "absent"
        THEN [status |-> new.status, source |-> s, url |-> u, attempt |-> 1, wait |-> new.wait,
              html |-> new.html, at |-> new.at, born |-> Cardinality(Stored) + 1]
        ELSE Merged(@, new)]

-----------------------------------------------------------------------------
(* Passes.                                                                 *)

Moves(p, change) == pass' = [pass EXCEPT ![p] = change]

\* ops/run-scheduled-worker refuses a second timer pass; it asks for everything.
StartTimer ==
    /\ pass["timer"].pc = "idle"
    /\ Moves("timer", [Idle EXCEPT !.pc = "discover", !.source = 1, !.last = Len(Source)])
    /\ UNCHANGED <<article, repair, doubled, faults>>

\* An operator's pass: perhaps one source, a date window, a limit.
StartManual(first, last, window, limit) ==
    /\ pass["manual"].pc = "idle"
    /\ <<first, last>> = <<1, Len(Source)>> \/ first = last
    /\ Fault
    /\ Moves("manual", [Idle EXCEPT !.pc = "discover", !.source = first, !.last = last,
                                    !.window = window, !.limit = limit])
    /\ UNCHANGED <<article, repair, doubled>>

Due(row, s) ==
    /\ row.source = s
    /\ row.status = "failed"
    /\ row.attempt < MaxAttempts
    /\ row.wait <= 0

\* The due failures of the source, most overdue first, cut at the discovery limit.
DueFailed(s, limit) ==
    LET due == {i \in Id : Due(article[i], s)}
        ordered == {q \in SetToSeqs(due) : \A j, k \in DOMAIN q :
                       j < k => article[q[j]].wait <= article[q[k]].wait}
    IN  {SubSeq(q, 1, Min({limit, Len(q)})) : q \in ordered}

\* What the channels of a source yield; nothing that others write matters.
Discovered ==
    [k \in DOMAIN Source |-> [site \in Site |->
        [w \in Window \cup {Unbounded} |-> Discover(Source[k], site, w)]]]

\* discover_article_urls and then due_failed_article_urls: the stored URLs of failures
\* no channel listed this time are retried after what was found.  The discovery reads
\* no rows, so the two are one step.
DiscoverSource(p) ==
    /\ pass[p].pc = "discover"
    /\ \E site \in Site, due \in DueFailed(pass[p].source, DiscoveryLimit(pass[p].window)) :
        LET found == Discovered[pass[p].source][site][pass[p].window]
            listed == {Normalize(u) : u \in ToSet(found)}
            stored == [k \in DOMAIN due |-> article[due[k]].url]
        IN  Moves(p, [pass[p] EXCEPT !.pc = "admit", !.site = site, !.found = found,
                        !.retried = Select(stored, {u \in ToSet(stored) : Normalize(u) \notin listed})])
    /\ UNCHANGED <<article, repair, doubled, faults>>

\* Mutant: an exhausted failure is fetched again.
SkippableUnlessExhausted(row) ==
    /\ row.status # "absent"
    /\ row.status = "succeeded" \/ row.wait > 0

\* skippable_identity_urls: complete, exhausted, or not due.  A row's wait is read
\* even when the row has succeeded, where it is null.
Skippable(row) ==
    /\ row.status # "absent"
    /\ row.status = "succeeded" \/ row.attempt >= MaxAttempts \/ row.wait > 0

\* The rows a fetch of u may write, and the fetches some pass has admitted.
Touches(u) == {Normalize(u), Target(u)}
Pending(ps) == UNION {{p} \X ps[p].todo : p \in Pass}

Doubles(ps) == {i \in Id : \E x, y \in Pending(ps) :
                   x # y /\ i \in Touches(x[2]) /\ i \in Touches(y[2])}

\* The history forgets an identity when its last admitted fetch has ended.
Remembered(ps) == Doubles(ps) \cup {i \in doubled : \E x \in Pending(ps) : i \in Touches(x[2])}

\* The last read before the fetches, after the cut at --limit.
Admit(p) ==
    LET all == pass[p].found \o pass[p].retried
        cut == IF pass[p].limit = 0 THEN all ELSE SubSeq(all, 1, Min({pass[p].limit, Len(all)}))
        todo == {u \in ToSet(cut) : ~Skippable(article[Normalize(u)])}
        ps == [pass EXCEPT ![p] = [@ EXCEPT !.pc = "ingest", !.todo = todo, !.site = NoSite,
                                            !.found = <<>>, !.retried = <<>>]]
    IN  /\ pass[p].pc = "admit"
        /\ pass' = ps
        /\ doubled' = Remembered(ps)
        /\ UNCHANGED <<article, repair, faults>>

Done(p, u) ==
    LET ps == [pass EXCEPT ![p].todo = @ \ {u}]
    IN  pass' = ps /\ doubled' = Remembered(ps)

\* No 2xx answer: the failure is stored under the normalized URL.
FetchFails(p, u) ==
    /\ Upsert(Normalize(u), pass[p].source, u,
              [status |-> "failed", html |-> "", at |-> NoDate, wait |-> FirstDelay])
    /\ UNCHANGED faults

\* The page came; its text may be empty.
FetchSucceeds(p, u) ==
    \E html \in {"", u.page} :
        LET at == IF html = "" THEN NoDate ELSE Html[html].at
        IN  /\ IF InWindow(at, pass[p].window)
               THEN Upsert(IF html = "" THEN Normalize(u) ELSE Target(u), pass[p].source, u,
                           [status |-> "succeeded", html |-> html, at |-> at, wait |-> Null])
               ELSE UNCHANGED article
            /\ UNCHANGED faults

\* Extraction or the database raises: gather collects the exception.
FetchRaises(p, u) == Fault /\ UNCHANGED article

Ingest(p, u) ==
    /\ pass[p].pc = "ingest"
    /\ u \in pass[p].todo
    /\ FetchFails(p, u) \/ FetchSucceeds(p, u) \/ FetchRaises(p, u)
    /\ Done(p, u)
    /\ UNCHANGED repair

NextSource(p) ==
    IF pass[p].source = pass[p].last THEN Idle
    ELSE [pass[p] EXCEPT !.pc = "discover", !.source = @ + 1, !.site = NoSite,
                            !.found = <<>>, !.retried = <<>>]

FinishSource(p) ==
    /\ pass[p].pc = "ingest"
    /\ pass[p].todo = {}
    /\ Moves(p, NextSource(p))
    /\ UNCHANGED <<article, repair, doubled, faults>>

\* A source that raises before its fetches does not stop the later ones.
SourceFails(p) ==
    /\ pass[p].pc \in {"discover", "admit"}
    /\ Fault
    /\ Moves(p, NextSource(p))
    /\ UNCHANGED <<article, repair, doubled>>

\* The process of the pass dies.
Die(p) ==
    LET ps == [pass EXCEPT ![p] = Idle]
    IN  /\ pass[p].pc # "idle"
        /\ Fault
        /\ pass' = ps
        /\ doubled' = Remembered(ps)
        /\ UNCHANGED <<article, repair>>

-----------------------------------------------------------------------------
(* Repair of missing publication dates, with --apply.                      *)

Repairable(i) ==
    /\ article[i].status # "absent"
    /\ article[i].at = NoDate
    /\ article[i].html # ""

StartRepair ==
    /\ repair.pc = "idle"
    /\ Fault
    /\ repair' = [NoRepair EXCEPT !.pc = "page", !.missing = {i \in Id : Repairable(i)}]
    /\ UNCHANGED <<article, pass, doubled>>

\* The n oldest rows of S, in the order of their creation; all of S if it has fewer.
Oldest(S, n) ==
    {q \in UNION {[1..k -> S] : k \in 0..n} :
        /\ \A j, k \in DOMAIN q : j < k => article[q[j]].born < article[q[k]].born
        /\ \A i \in S \ ToSet(q), k \in DOMAIN q : article[q[k]].born < article[i].born
        /\ Len(q) = n \/ ToSet(q) = S}

\* Reads a page, or finds none and ends.
ReadsPage(rows, after) ==
    repair' = IF rows = <<>> THEN [repair EXCEPT !.pc = "done"]
              ELSE [repair EXCEPT !.pc = "rows", !.after = after,
                        !.rows = [k \in DOMAIN rows |->
                                    [id |-> rows[k], html |-> article[rows[k]].html]]]

\* Mutant: pages by offset, over a selection that shrinks as rows are repaired.
RepairPageByOffset ==
    /\ repair.pc = "page"
    /\ \E all \in Oldest({i \in Id : Repairable(i)}, repair.after + RepairBatch) :
        ReadsPage(SubSeq(all, repair.after + 1, Len(all)), Len(all))
    /\ UNCHANGED <<article, pass, doubled, faults>>

\* fetch_articles_missing_published_at_batch: the rows after the last one seen.
RepairPage ==
    /\ repair.pc = "page"
    /\ \E rows \in Oldest({i \in Id : Repairable(i) /\ article[i].born > repair.after},
                           RepairBatch) :
        ReadsPage(rows, article[Last(rows)].born)
    /\ UNCHANGED <<article, pass, doubled, faults>>

\* update_article_published_at, guarded by published_at IS NULL.
RepairRow ==
    LET row == Head(repair.rows)
    IN  /\ repair.pc = "rows"
        /\ article' = [article EXCEPT ![row.id].at = IF @ = NoDate THEN Html[row.html].at ELSE @]
        /\ repair' = [repair EXCEPT !.rows = Tail(@),
                                    !.pc = IF Len(repair.rows) = 1 THEN "page" ELSE "rows"]
        /\ UNCHANGED <<pass, doubled, faults>>

EndRepair ==
    /\ repair.pc = "done"
    /\ repair' = NoRepair
    /\ UNCHANGED <<article, pass, doubled, faults>>

-----------------------------------------------------------------------------
(* Operators and the clock.                                                *)

\* scripts/reset_failed_fetches --apply
ResetFailed(i) ==
    /\ article[i].status = "failed"
    /\ article[i].attempt >= MaxAttempts
    /\ Fault
    /\ article' = [article EXCEPT ![i].attempt = 0, ![i].wait = Null]
    /\ UNCHANGED <<pass, repair, doubled>>

Tick ==
    /\ article' = [i \in Id |-> [article[i] EXCEPT !.wait = Max({@ - 1, Null})]]
    /\ article' # article
    /\ UNCHANGED <<pass, repair, doubled, faults>>

-----------------------------------------------------------------------------
StepPass(p) ==
    \/ DiscoverSource(p) \/ Admit(p) \/ FinishSource(p)
    \/ \E u \in pass[p].todo : Ingest(p, u)

Next ==
    \/ StartTimer
    \/ \E first, last \in DOMAIN Source, w \in Window, n \in Limit : StartManual(first, last, w, n)
    \/ \E p \in Pass : StepPass(p) \/ SourceFails(p) \/ Die(p)
    \/ StartRepair \/ RepairPage \/ RepairRow \/ EndRepair
    \/ \E i \in Id : ResetFailed(i)
    \/ Tick

Spec == Init /\ [][Next]_vars

\* The timer starts a pass every two hours, requests have timeouts, time passes.
\* Exceptions and deaths are finitely many (MaxFaults); a page may fail for ever.
Fairness ==
    /\ WF_vars(StartTimer)
    /\ \A p \in Pass : WF_vars(StepPass(p))
    /\ WF_vars(Tick)

FairSpec == Spec /\ Fairness

-----------------------------------------------------------------------------
(* Properties.                                                             *)

Row == [status : {"absent", "succeeded", "failed"}, source : 0..Len(Source),
        url : Url \cup {NoUrl}, attempt : 0..MaxAttempts,
        wait : Null..Max({FirstDelay, SecondDelay, DailyDelay}),
        html : DOMAIN Html \cup {""}, at : Nat, born : 0..Cardinality(Id)]

\* Rows, passes and the repair have their types; a row has content, a source and
\* a place in the order of creation only when it exists.
TypeOK ==
    /\ article \in [Id -> Row]
    /\ \A i \in Id : article[i].status = "absent" <=> article[i] = [Absent EXCEPT !.wait = article[i].wait]
    /\ \A p \in Pass :
        /\ pass[p].pc \in {"idle", "discover", "admit", "ingest"}
        /\ pass[p].source \in 0..Len(Source)
        /\ ToSet(pass[p].found \o pass[p].retried) \subseteq Url
        /\ pass[p].todo \subseteq Url
    /\ repair.pc \in {"idle", "page", "rows", "done"}
    /\ repair.after \in 0..Cardinality(Id)
    /\ doubled \subseteq Id
    /\ faults \in 0..MaxFaults

\* One pass takes no URL twice, none that its source did not offer, and no more than
\* the limit; and when it stays below the limit it has missed none.
DiscoveryIsComplete ==
    \A p \in {q \in Pass : pass[q].pc = "admit"} :
        IsComplete(pass[p].found, Source[pass[p].source], pass[p].site, pass[p].window)

\* No fetch, retry, late failure or repair takes content or a date away, and the
\* repair, which works from a page it read earlier, never changes a date that a
\* fetch has stored meanwhile.
ContentIsKept ==
    [][\A i \in Id :
        /\ article[i].html # "" => article'[i].html # ""
        /\ article[i].at # NoDate =>
               article'[i].at # NoDate /\ (repair' # repair => article'[i].at = article[i].at)]_vars

Exhausted(row) == row.status = "failed" /\ row.attempt >= MaxAttempts

\* A fetch that was admitted before another one settled the row could undo that.
\* It can only be one of two admitted at once for the same identity: otherwise a
\* success stays a success (worker-ml plans succeeded rows only), and an exhausted
\* failure is left alone until it is reset or its content arrives.
SettledIsFinal ==
    [][\A i \in Id \ doubled :
        /\ article[i].status = "succeeded" => article'[i].status = "succeeded"
        /\ Exhausted(article[i]) =>
               \/ article'[i].status = "succeeded"
               \/ article'[i].attempt = 0
               \/ article'[i].wait <= article[i].wait]_vars

\* The repair visits every row whose date was missing when it started, although
\* its pages shrink under it and passes store rows meanwhile.
RepairReachesAll ==
    repair.pc = "done" =>
        \A i \in repair.missing : article[i].at # NoDate \/ Html[article[i].html].at = NoDate

\* A failed fetch is retried until the row succeeds, is exhausted, or the content
\* has arrived under the identity the page declares.
EventuallyDecided ==
    \A i \in Id :
        article[i].status = "failed"
            ~> \/ article[i].status # "failed"
               \/ Exhausted(article[i])
               \/ article[Target(article[i].url)].html # ""
=============================================================================
