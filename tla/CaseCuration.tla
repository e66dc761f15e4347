---------------------------- MODULE CaseCuration ----------------------------
(***************************************************************************)
(* Cases and their evidence: resolution of articles into cases, coherence  *)
(* audits that split a case or detach articles, public-interest audits     *)
(* that hide it, duplicate audits that merge two, refreshes, the planner,  *)
(* and the vector index the resolution retrieves its candidates from.      *)
(*                                                                         *)
(* Every writer of cases and case_articles holds the case mutation lock    *)
(* from before its first read to its commit, so each such section is one   *)
(* action; a busy lock only ends the handler (Abandon).  Audits are not    *)
(* like that: they read a case and its cards without a lock, ask the LLM,  *)
(* and take the lock only to publish, when the case may have changed.      *)
(*                                                                         *)
(* The job store is reduced to what it guarantees (module JobStore): a     *)
(* requested job is run again until a handler completes it, and a request  *)
(* made while the job runs is not lost.                                    *)
(***************************************************************************)
EXTENDS Integers, FiniteSets, Sequences

CONSTANTS
    Article,        \* articles with an accepted card
    MaxCases,       \* bound on the cases ever created
    MaxRevision,    \* bound on evidence_revision
    MaxQueued,      \* bound on the queued jobs, met by the planner and the scripts
    MaxHandlers,    \* audit handlers running at a time: the executor's worker count
    CommitMayFail   \* may PostgreSQL refuse a commit after the vectors are written?

ASSUME BoundAssumption == MaxCases \in Nat /\ MaxRevision \in Nat
ASSUME LimitAssumption == MaxQueued \in Nat /\ MaxHandlers \in Nat
ASSUME CommitAssumption == CommitMayFail \in BOOLEAN

\* Case ids in the order of created_at; 0 is no case.
Case == 1..MaxCases
Kind == {"coherence", "interest", "duplicates", "refresh"}

VARIABLES
    cas,     \* the cases table, with the case_articles of each case as `links'
    vector,  \* cases with a point in the vector index
    todo,    \* jobs requested and not running
    audit,   \* coherence and interest handlers between their read and their publication
    pair,    \* duplicate handlers, each with the candidates it has still to look at
    owed     \* handlers that have published and still have jobs to enqueue

vars == <<cas, vector, todo, audit, pair, owed>>

\* `refreshed' is the square bucket of last_refreshed_article_count, all that is read
\* of it.  `seen' is a history variable: the links as the last coherence audit left them.
Row == [status : {"absent", "active", "hidden", "merged"}, links : SUBSET Article,
        count : Nat, rev : Nat, audited : Nat, summary : BOOLEAN, refreshed : Nat,
        into : Nat, seen : SUBSET Article]

Job == Kind \X Case
Snapshot == [job : Job, rev : Nat, phase : {"case", "cards"}, articles : SUBSET Article]
Pair == [case : Case, rest : SUBSET Case, other : Case \cup {0}, rev : Nat, otherRev : Nat]
Owed == [job : Job, jobs : Seq(Job)]

\* floor(sqrt(n))
Bucket(n) == CHOOSE k \in 0..n : k * k <= n /\ n < (k + 1) * (k + 1)

\* A case as case resolution (audited = 0) or a split (audited = 1) inserts it.
NewCase(links, audited, summary) ==
    [status |-> "active", links |-> links, count |-> Cardinality(links), rev |-> 1,
     audited |-> audited, summary |-> summary, refreshed |-> 0, into |-> 0,
     seen |-> IF audited = 0 THEN {} ELSE links]

Absent == [NewCase({}, 0, FALSE) EXCEPT !.status = "absent"]

Init ==
    /\ cas = [c \in Case |-> Absent]
    /\ vector = {}
    /\ todo = {} /\ audit = {} /\ pair = {} /\ owed = {}

Active(c) == cas[c].status = "active"

\* The next uuid4.
Fresh(c) == cas[c].status = "absent" /\ \A d \in Case : d < c => cas[d].status # "absent"

Running(j) ==
    \/ \E s \in audit : s.job = j
    \/ \E p \in pair : <<"duplicates", p.case>> = j
    \/ \E o \in owed : o.job = j

\* What the queue is after a handler failed: its job is run again, or has used its last
\* attempt and stays failed.  A request made while it ran is kept.
Retried(j) == {todo \cup {j}, todo}

\* A worker is free.
Idle == Cardinality(audit) + Cardinality(pair) + Cardinality(owed) < MaxHandlers

-----------------------------------------------------------------------------
(* Case resolution.                                                        *)

\* Mutants: the evidence revision is not incremented; the count is not.
LinkedSilently(r, a) == [r EXCEPT !.links = @ \cup {a}, !.count = @ + 1]
LinkedUncounted(r, a) == [r EXCEPT !.links = @ \cup {a}, !.rev = @ + 1]

\* A new link of an existing case.
Linked(r, a) == [r EXCEPT !.links = @ \cup {a}, !.count = @ + 1, !.rev = @ + 1]

\* Candidates come from the vector index and are hydrated from active cases only.
\* The LLM links the article to some of them, to a new case, or both; a rejected article
\* changes nothing.  Vectors are upserted before the commit.
Resolve(a, existing, new) ==
    /\ \A c \in Case : a \notin cas[c].links
    /\ existing \subseteq {c \in vector : Active(c) /\ cas[c].rev < MaxRevision}
    /\ new \subseteq {c \in Case : Fresh(c)}
    /\ existing \cup new # {}
    /\ cas' = [c \in Case |-> IF c \in existing THEN Linked(cas[c], a)
                              ELSE IF c \in new THEN NewCase({a}, 0, FALSE)
                              ELSE cas[c]]
    /\ vector' = vector \cup existing \cup new
    /\ UNCHANGED <<todo, audit, pair, owed>>

\* Event resolution rewrites the vectors of the cases whose events it touched, among
\* those its article is linked to, without the case lock and whatever their status.
\* The event lock, which audits and merges also need, keeps those links in place.
ResolveEvents(a, touched) ==
    /\ touched \subseteq {c \in Case : a \in cas[c].links}
    /\ vector' = vector \cup touched
    /\ UNCHANGED <<cas, todo, audit, pair, owed>>

-----------------------------------------------------------------------------
(* Coherence audits.                                                       *)

\* A claimed audit job reads the case and its revision; a case that is gone ends it.
StartAudit(j) ==
    /\ j \in todo
    /\ j[1] \in {"coherence", "interest"}
    /\ ~Running(j) /\ Idle
    /\ todo' = todo \ {j}
    /\ audit' = IF Active(j[2])
                THEN audit \cup {[job |-> j, rev |-> cas[j[2]].rev, phase |-> "case",
                                  articles |-> {}]}
                ELSE audit
    /\ UNCHANGED <<cas, vector, pair, owed>>

\* load_case_article_cards, a second statement: the links may be newer than the
\* revision.  Without cards there is nothing to check for coherence.
ReadCards(s) ==
    LET c == s.job[2] IN
    /\ s.phase = "case"
    /\ audit' = (audit \ {s}) \cup
           (IF s.job[1] = "coherence" /\ cas[c].links = {} THEN {}
            ELSE {[s EXCEPT !.phase = "cards", !.articles = cas[c].links]})
    /\ UNCHANGED <<cas, vector, todo, pair, owed>>

\* The publication finds the case as the audit read it.
Unchanged(s) == s.phase = "cards" /\ Active(s.job[2]) /\ cas[s.job[2]].rev = s.rev

\* The case was hidden or merged meanwhile: nothing is recorded, the job is done.
AuditOfInactive(s) ==
    /\ s.phase = "cards"
    /\ ~Active(s.job[2])
    /\ audit' = audit \ {s}
    /\ UNCHANGED <<cas, vector, todo, pair, owed>>

\* A superseded coherence audit is deferred, a superseded interest audit is done.
AuditSuperseded(s) ==
    /\ s.phase = "cards"
    /\ Active(s.job[2])
    /\ cas[s.job[2]].rev # s.rev
    /\ audit' = audit \ {s}
    /\ todo' = IF s.job[1] = "coherence" THEN todo \cup {s.job} ELSE todo
    /\ UNCHANGED <<cas, vector, pair, owed>>

\* Mutant: only the time of the audit is recorded.
RecordedNowhere(r, s) == [r EXCEPT !.seen = s.articles]

\* _record_audit
Recorded(r, s) == [r EXCEPT !.audited = s.rev, !.seen = s.articles]

CoherenceInconclusive(s) ==
    /\ s.job[1] = "coherence"
    /\ Unchanged(s)
    /\ cas' = [cas EXCEPT ![s.job[2]] = Recorded(@, s)]
    /\ audit' = audit \ {s}
    /\ UNCHANGED <<vector, todo, pair, owed>>

\* The audited case keeps the articles of the original story.
Decided(r, s, original, changed) ==
    [r EXCEPT !.links = original, !.count = Cardinality(original),
              !.rev = IF changed THEN s.rev + 1 ELSE s.rev,
              !.audited = IF changed THEN s.rev + 1 ELSE s.rev,
              !.summary = TRUE, !.seen = original]

\* The jobs requested for each affected case, the audited one first.
Requests(c) == <<<<"refresh", c>>, <<"interest", c>>>>

\* A decisive answer to the batched, merged and validated audit of the cards: the
\* articles of the original story, those of another story, if there is one (stories
\* may overlap), and the rest, detached.
Answer(s, original, story, new) ==
    /\ original # {} /\ original \subseteq s.articles
    /\ story \subseteq s.articles
    /\ (new = {}) <=> (story = {})

\* A decisive audit; the other story becomes a new case.
CoherenceDecided(s, original, story, new) ==
    LET c == s.job[2]
        changed == new # {} \/ original # s.articles IN
    /\ s.job[1] = "coherence"
    /\ Unchanged(s)
    /\ Answer(s, original, story, new)
    /\ new \subseteq {d \in Case : Fresh(d)}
    /\ changed => s.rev < MaxRevision
    /\ cas' = [d \in Case |-> IF d = c THEN Decided(cas[c], s, original, changed)
                              ELSE IF d \in new THEN NewCase(story, 1, TRUE)
                              ELSE cas[d]]
    /\ vector' = vector \cup {c} \cup new
    /\ audit' = audit \ {s}
    /\ owed' = owed \cup {[job |-> s.job, jobs |->
           Requests(c) \o (IF new = {} THEN <<>> ELSE Requests(CHOOSE d \in new : TRUE))]}
    /\ UNCHANGED <<todo, pair>>

-----------------------------------------------------------------------------
(* Public-interest audits.                                                 *)

Hide(s) ==
    /\ s.job[1] = "interest"
    /\ Unchanged(s)
    /\ cas' = [cas EXCEPT ![s.job[2]].status = "hidden"]
    /\ vector' = vector \ {s.job[2]}
    /\ audit' = audit \ {s}
    /\ UNCHANGED <<todo, pair, owed>>

\* The vector is gone, the row is not hidden, the job has failed.
HideRolledBack(s) ==
    /\ CommitMayFail
    /\ s.job[1] = "interest"
    /\ Unchanged(s)
    /\ vector' = vector \ {s.job[2]}
    /\ audit' = audit \ {s}
    /\ todo' \in Retried(s.job)
    /\ UNCHANGED <<cas, pair, owed>>

\* Inconclusive answers end here; after a keep the duplicate audit is requested.
Keep(s) ==
    /\ s.job[1] = "interest"
    /\ Unchanged(s)
    /\ audit' = audit \ {s}
    /\ \/ UNCHANGED owed
       \/ owed' = owed \cup {[job |-> s.job, jobs |-> <<<<"duplicates", s.job[2]>>>>]}
    /\ UNCHANGED <<cas, vector, todo, pair>>

-----------------------------------------------------------------------------
(* Duplicate audits.                                                       *)

\* _duplicate_candidate_ids: at least 30 % of the smaller case is shared.
Candidates(c) ==
    {d \in Case \ {c} :
        LET shared == Cardinality(cas[c].links \cap cas[d].links)
            smaller == IF cas[c].count <= cas[d].count THEN cas[c].count ELSE cas[d].count
        IN Active(d) /\ shared >= 1 /\ shared * 10 >= smaller * 3}

StartDuplicates(c) ==
    /\ <<"duplicates", c>> \in todo
    /\ ~Running(<<"duplicates", c>>) /\ Idle
    /\ todo' = todo \ {<<"duplicates", c>>}
    /\ pair' = IF Active(c)
               THEN pair \cup {[case |-> c, rest |-> Candidates(c), other |-> 0,
                                rev |-> 0, otherRev |-> 0]}
               ELSE pair
    /\ UNCHANGED <<cas, vector, audit, owed>>

\* _audit_pair reads both cases; if one is gone the pair is skipped.
ReadPair(p, d) ==
    LET waiting == [p EXCEPT !.rest = @ \ {d}] IN
    /\ p.other = 0
    /\ d \in p.rest
    /\ pair' = (pair \ {p}) \cup
           {IF Active(p.case) /\ Active(d)
            THEN [waiting EXCEPT !.other = d, !.rev = cas[p.case].rev,
                                 !.otherRev = cas[d].rev]
            ELSE waiting}
    /\ UNCHANGED <<cas, vector, todo, audit, owed>>

NextPair(p) == pair' = (pair \ {p}) \cup {[p EXCEPT !.other = 0, !.rev = 0, !.otherRev = 0]}

\* _merge_order: more articles, then older.
Survivor(c, d) ==
    IF cas[c].count > cas[d].count \/ (cas[c].count = cas[d].count /\ c < d) THEN c ELSE d

\* Mutant: the pair's statuses and revisions are not read again under the locks.
PairNotRechecked(p) == p.other # 0

PairUnchanged(p) ==
    /\ p.other # 0
    /\ Active(p.case) /\ Active(p.other)
    /\ cas[p.case].rev = p.rev /\ cas[p.other].rev = p.otherRev

\* Mutants: the survivor takes no links; it takes them at the revision it had.
MergedEmpty(r, absorbed) == [r EXCEPT !.rev = @ + 1]

MergedSilently(r, absorbed) ==
    [r EXCEPT !.links = @ \cup absorbed.links,
              !.count = Cardinality(r.links \cup absorbed.links)]

\* _merge_cases: the survivor takes the links, the absorbed case keeps its own.
Merged(r, absorbed) ==
    [r EXCEPT !.links = @ \cup absorbed.links, !.rev = @ + 1,
              !.count = Cardinality(r.links \cup absorbed.links)]

\* Mutant: the point of the survivor is deleted.
MergedVectorsSwapped(s, b) == (vector \cup {b}) \ {s}

\* upsert_case of the survivor, delete_case of the absorbed, before the commit.
MergedVectors(s, b) == (vector \cup {s}) \ {b}

Merge(p) ==
    LET s == Survivor(p.case, p.other)
        b == IF s = p.case THEN p.other ELSE p.case IN
    /\ PairUnchanged(p)
    /\ cas[s].rev < MaxRevision
    /\ cas' = [cas EXCEPT ![s] = Merged(@, cas[b]),
                          ![b].status = "merged", ![b].into = s]
    /\ vector' = MergedVectors(s, b)
    /\ todo' = todo \cup {<<"refresh", s>>}
    /\ NextPair(p)
    /\ UNCHANGED <<audit, owed>>

\* The refresh job is enqueued in a transaction of its own and stays.
MergeRolledBack(p) ==
    LET s == Survivor(p.case, p.other)
        b == IF s = p.case THEN p.other ELSE p.case IN
    /\ CommitMayFail
    /\ PairUnchanged(p)
    /\ vector' = MergedVectors(s, b)
    /\ \E t \in Retried(<<"duplicates", p.case>>) : todo' = t \cup {<<"refresh", s>>}
    /\ pair' = pair \ {p}
    /\ UNCHANGED <<cas, audit, owed>>

\* Another verdict, a changed revision, or an inactive case.
NoMerge(p) ==
    /\ p.other # 0
    /\ NextPair(p)
    /\ UNCHANGED <<cas, vector, todo, audit, owed>>

DuplicatesDone(p) ==
    /\ p.other = 0
    /\ p.rest = {}
    /\ pair' = pair \ {p}
    /\ UNCHANGED <<cas, vector, todo, audit, owed>>

-----------------------------------------------------------------------------
(* Follow-up jobs, refreshes, failures, the planner.                       *)

\* enqueue_case_job, one transaction each; a duplicate audit only if it has a
\* candidate by now.
Follow(o) ==
    LET j == Head(o.jobs) IN
    /\ todo' = IF j[1] = "duplicates" /\ (~Active(j[2]) \/ Candidates(j[2]) = {})
               THEN todo ELSE todo \cup {j}
    /\ owed' = (owed \ {o}) \cup
           (IF Len(o.jobs) = 1 THEN {} ELSE {[o EXCEPT !.jobs = Tail(@)]})
    /\ UNCHANGED <<cas, vector, audit, pair>>

\* Mutant: the summary and the vector are not written.
RefreshWithoutCopy(c) ==
    /\ <<"refresh", c>> \in todo
    /\ todo' = todo \ {<<"refresh", c>>}
    /\ cas' = [cas EXCEPT ![c].refreshed = Bucket(cas[c].count)]
    /\ UNCHANGED <<vector, audit, pair, owed>>

\* The whole handler is under the case lock, and asks only that the case exists.
Refresh(c) ==
    /\ <<"refresh", c>> \in todo
    /\ todo' = todo \ {<<"refresh", c>>}
    /\ cas' = [cas EXCEPT ![c].summary = TRUE, ![c].refreshed = Bucket(cas[c].count)]
    /\ vector' = vector \cup {c}
    /\ UNCHANGED <<audit, pair, owed>>

\* A busy lock, an error or a crash ends a handler; a refresh that fails for the last
\* time leaves the queue.
Abandon ==
    /\ \/ \E s \in audit : /\ audit' = audit \ {s}
                           /\ todo' \in Retried(s.job)
                           /\ UNCHANGED <<pair, owed>>
       \/ \E p \in pair : /\ pair' = pair \ {p}
                          /\ todo' \in Retried(<<"duplicates", p.case>>)
                          /\ UNCHANGED <<audit, owed>>
       \/ \E o \in owed : /\ owed' = owed \ {o}
                          /\ todo' \in Retried(o.job)
                          /\ UNCHANGED <<audit, pair>>
       \/ \E c \in Case : /\ <<"refresh", c>> \in todo
                          /\ todo' = todo \ {<<"refresh", c>>}
                          /\ UNCHANGED <<audit, pair, owed>>
    /\ UNCHANGED <<cas, vector>>

DueRefresh(c) ==
    /\ Active(c)
    /\ \/ ~cas[c].summary
       \/ Bucket(cas[c].count) > cas[c].refreshed

DueAudit(c) == Active(c) /\ cas[c].audited < cas[c].rev

\* ensure_case_job leaves a queued or running job alone.
Ensure(j) ==
    /\ j \notin todo
    /\ ~Running(j)
    /\ Cardinality(todo) < MaxQueued
    /\ todo' = todo \cup {j}
    /\ UNCHANGED <<cas, vector, audit, pair, owed>>

PlanRefresh(c) == DueRefresh(c) /\ Ensure(<<"refresh", c>>)
PlanAudit(c) == DueAudit(c) /\ Ensure(<<"coherence", c>>)

\* The 30-day fallback and the coherence reruns of scripts/enqueue_case_audits.
PlanAgain(c) == Active(c) /\ Ensure(<<"coherence", c>>)

\* The public-interest reruns of the same script: enqueue_case_job, which a running
\* job keeps for later.
RerunInterest(c) ==
    /\ Active(c)
    /\ Cardinality(todo) < MaxQueued
    /\ todo' = todo \cup {<<"interest", c>>}
    /\ UNCHANGED <<cas, vector, audit, pair, owed>>

-----------------------------------------------------------------------------
Publish(s) ==
    \/ AuditOfInactive(s) \/ AuditSuperseded(s) \/ CoherenceInconclusive(s)
    \/ \E original, story \in SUBSET s.articles, new \in SUBSET Case :
            CoherenceDecided(s, original, story, new)
    \/ Hide(s) \/ Keep(s)

Next ==
    \/ \E a \in Article :
        \/ \E existing, new \in SUBSET Case : Resolve(a, existing, new)
        \/ \E touched \in SUBSET Case : ResolveEvents(a, touched)
    \/ \E j \in Job : StartAudit(j)
    \/ \E s \in audit : ReadCards(s) \/ Publish(s) \/ HideRolledBack(s)
    \/ \E c \in Case :
        \/ StartDuplicates(c) \/ Refresh(c) \/ PlanRefresh(c) \/ PlanAudit(c)
        \/ PlanAgain(c) \/ RerunInterest(c)
    \/ \E p \in pair :
        \/ \E d \in p.rest : ReadPair(p, d)
        \/ Merge(p) \/ MergeRolledBack(p) \/ NoMerge(p) \/ DuplicatesDone(p)
    \/ \E o \in owed : Follow(o)
    \/ Abandon

Spec == Init /\ [][Next]_vars

\* The planner runs in every cycle, and every handler ends.  A coherence audit or a
\* refresh that is run again and again does not fail or find its locks busy each time.
Handles ==
    \/ \E s \in audit : ReadCards(s) \/ Publish(s)
    \/ \E p \in pair : (\E d \in p.rest : ReadPair(p, d)) \/ NoMerge(p) \/ DuplicatesDone(p)
    \/ \E o \in owed : Follow(o)

Reads(c) == \E s \in audit : s.job = <<"coherence", c>> /\ ReadCards(s)
Audits(c) == \E s \in audit : s.job = <<"coherence", c>> /\ Publish(s)

Fairness ==
    /\ WF_vars(Handles)
    /\ \A c \in Case :
        /\ WF_vars(PlanAudit(c)) /\ WF_vars(PlanRefresh(c))
        /\ SF_vars(StartAudit(<<"coherence", c>>)) /\ SF_vars(Reads(c)) /\ SF_vars(Audits(c))
        /\ SF_vars(Refresh(c))

FairSpec == Spec /\ Fairness

-----------------------------------------------------------------------------
(* The public reader.                                                      *)

Public(c) == Active(c) /\ cas[c].summary /\ cas[c].links # {}

-----------------------------------------------------------------------------
(* Properties.                                                             *)

\* Rows, vectors, jobs and handlers have their types.
TypeOK ==
    /\ cas \in [Case -> Row]
    /\ vector \subseteq Case
    /\ todo \subseteq Job
    /\ audit \subseteq Snapshot
    /\ pair \subseteq Pair
    /\ owed \subseteq Owed

\* The evidence revision identifies the evidence: as long as it is what an audit
\* read, the links are the ones whose cards the audit judged, so a decisive audit
\* never moves or drops an article it has not seen.
SnapshotIsCurrent ==
    \A s \in audit : Unchanged(s) => cas[s.job[2]].links = s.articles

\* article_count, kept by increments in one place and by recounts in others, is the
\* number of links of the case, active or not.
CountsMatch == \A c \in Case : cas[c].count = Cardinality(cas[c].links)

\* A case the planner takes for audited has exactly the links its last coherence
\* audit left: no later link, split or merge goes unaudited.
AuditedEvidence ==
    \A c \in Case : (Active(c) /\ ~DueAudit(c)) => cas[c].seen = cas[c].links

\* Hidden and merged cases are terminal and keep their complete dossier, although
\* audits, merges and refreshes that began before are still in flight.
TerminalDossier ==
    [][\A c \in Case :
          cas[c].status \in {"hidden", "merged"} =>
              /\ cas'[c].status = cas[c].status
              /\ cas'[c].links = cas[c].links
              /\ cas'[c].into = cas[c].into]_vars

\* A merge loses no evidence: when a case becomes merged, all its articles are
\* links of the survivor, which is active.
MergeKeepsEvidence ==
    [][\A c \in Case :
          (Active(c) /\ cas'[c].status = "merged") =>
              LET s == cas'[c].into IN
              cas'[s].status = "active" /\ cas[c].links \cup cas[s].links \subseteq cas'[s].links]_vars

\* ADR 0002: retrieval sees each committed mutation before the next resolver runs.
\* Whoever changes the evidence or the summary of an active case (a resolution, a
\* split, a merge, a refresh) leaves its point in the index, also when an earlier
\* commit failed after the point had been deleted.
RetrievalSeesMutations ==
    [][\A c \in Case :
          /\ cas'[c].status = "active"
          /\ cas'[c].links # cas[c].links \/ cas'[c].summary # cas[c].summary
          => c \in vector']_vars

\* Evidence that has not been audited is audited in the end, unless the case
\* stops being active.
EventuallyAudited == \A c \in Case : DueAudit(c) ~> ~DueAudit(c)

\* A new case gets its summary and becomes visible to readers, unless it stops being
\* active, although its resolution requests no refresh and a refresh may fail.
EventuallyPublic == \A c \in Case : Active(c) ~> (~Active(c) \/ Public(c))
=============================================================================
