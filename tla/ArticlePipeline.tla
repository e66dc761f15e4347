--------------------------- MODULE ArticlePipeline ---------------------------
(***************************************************************************)
(* The chain of article jobs: classify, gate, card, resolve, and the jobs  *)
(* that resolution leaves for entities and events.  It composes the job    *)
(* store with the handlers of worker_ml/articles and the control of the    *)
(* case resolution handler, the planner that looks for missing work, and   *)
(* the operator scripts.                                                   *)
(*                                                                         *)
(* A handler is not atomic.  It reads its article, perhaps asks the LLM    *)
(* (whose verdict is free), stores its output in one transaction, enqueues *)
(* the follow-up in the next, and only then is complete_job called.  A     *)
(* crash or an error may come between any two of these.                    *)
(***************************************************************************)
EXTENDS Integers

CONSTANTS
    Article,          \* successfully fetched articles
    RelevantArticle,  \* those the (deterministic) classifier accepts
    Worker,           \* worker coroutines
    MaxAttempts,      \* job_max_attempts
    MayOverrun,       \* may a handler outlive its lease?
    MaxFaults         \* bound on crashes, errors, deferrals, overruns and scripts

ASSUME RelevantAssumption == RelevantArticle \subseteq Article
ASSUME AttemptsAssumption == MaxAttempts \in Nat \ {0}
ASSUME MaxFaultsAssumption == MaxFaults \in Nat

Stage == {"classify", "gate", "card", "resolve", "entities", "events"}

\* The entity and event handlers are not part of this module: their jobs stay
\* queued once they are enqueued.
Handled == {"classify", "gate", "card", "resolve"}

VARIABLES
    job, inflight, ran,  \* the job store
    relevance,           \* article_relevance: "none", "relevant", "irrelevant"
    gate,                \* article_gate_decisions: "none", "candidate", "rejected"
    card,                \* articles with a row in article_cards
    linked,              \* articles with a row in case_articles
    at,                  \* what each worker does next, and its verdict
    planned,             \* jobs the planner has found missing, not yet enqueued
    faults               \* faults and operator commands so far

J == INSTANCE JobStore WITH
        ArticleJob <- Stage \X Article, CaseJob <- {}, MaxRevision <- 1, overrun <- {}

store == <<job, inflight, ran>>
outputs == <<relevance, gate, card, linked>>
vars == <<job, inflight, ran, relevance, gate, card, linked, at, planned, faults>>

Pc == {"idle", "read", "store", "follow", "events", "done"}

Init ==
    /\ J!Init
    /\ relevance = [a \in Article |-> "none"]
    /\ gate = [a \in Article |-> "none"]
    /\ card = {}
    /\ linked = {}
    /\ at = [w \in Worker |-> [pc |-> "idle", yes |-> FALSE]]
    /\ planned = {}
    /\ faults = 0

\* A crash, an error, a deferral, an overrun lease or an operator command.
Fault ==
    /\ faults < MaxFaults
    /\ faults' = faults + 1

-----------------------------------------------------------------------------
(* Workers.                                                                *)

Goes(c, pc, yes) == at' = [at EXCEPT ![c.worker] = [pc |-> pc, yes |-> yes]]

Claim(w, j) ==
    /\ j[1] \in Handled
    /\ J!Claim(w, j)
    /\ at' = [at EXCEPT ![w] = [pc |-> "read", yes |-> FALSE]]
    /\ UNCHANGED <<outputs, planned, faults>>

\* get_case_candidate_card
CandidateCard(a) == a \in card /\ gate[a] = "candidate"

\* The case mutation lock, as far as resolution itself holds it: from the read
\* to the commit of the links.
Resolving(c) == c.job[1] = "resolve" /\ at[c.worker].pc = "store"

ReadClassify(c) ==
    /\ c.job[1] = "classify"
    /\ Goes(c, "store", c.job[2] \in RelevantArticle)

\* The follow-up also needs the card to be absent, which it is: a card presupposes
\* a gate decision, and migration 202606280001 gave one to every older card.
ReadGate(c) ==
    LET a == c.job[2] IN
    /\ c.job[1] = "gate"
    /\ IF relevance[a] # "relevant" \/ gate[a] # "none"
       THEN Goes(c, "done", FALSE)
       ELSE \E candidate \in BOOLEAN : Goes(c, "store", candidate)

ReadCard(c) ==
    LET a == c.job[2] IN
    /\ c.job[1] = "card"
    /\ IF gate[a] # "candidate" \/ a \in card
       THEN Goes(c, "done", FALSE)
       ELSE Goes(c, "store", TRUE)

\* Mutant: links of an earlier attempt end the job without its follow-ups.
ReadResolveForgetsFollowUps(c) ==
    LET a == c.job[2] IN
    /\ c.job[1] = "resolve"
    /\ \A d \in inflight : ~Resolving(d)
    /\ IF ~CandidateCard(a) \/ a \in linked THEN Goes(c, "done", FALSE)
       ELSE Goes(c, "store", TRUE) \/ Goes(c, "done", FALSE)

\* Links of an earlier attempt: only the follow-ups are left.  Otherwise the LLM
\* (with the recheck of existing-case links and the new-case fallback) resolves
\* the article, or rejects it.
ReadResolve(c) ==
    LET a == c.job[2] IN
    /\ c.job[1] = "resolve"
    /\ \A d \in inflight : ~Resolving(d)
    /\ IF ~CandidateCard(a) THEN Goes(c, "done", FALSE)
       ELSE IF a \in linked THEN Goes(c, "follow", TRUE)
       ELSE Goes(c, "store", TRUE) \/ Goes(c, "done", FALSE)

Read(c) ==
    /\ at[c.worker].pc = "read"
    /\ ReadClassify(c) \/ ReadGate(c) \/ ReadCard(c) \/ ReadResolve(c)
    /\ UNCHANGED <<store, outputs, planned, faults>>

StoreClassify(c) ==
    /\ c.job[1] = "classify"
    /\ relevance' = [relevance EXCEPT ![c.job[2]] =
                        IF at[c.worker].yes THEN "relevant" ELSE "irrelevant"]
    /\ UNCHANGED <<gate, card, linked>>

\* Insert on conflict do nothing: the first decision stays.
StoreGate(c) ==
    /\ c.job[1] = "gate"
    /\ gate' = [gate EXCEPT ![c.job[2]] =
                   IF @ # "none" THEN @
                   ELSE IF at[c.worker].yes THEN "candidate" ELSE "rejected"]
    /\ UNCHANGED <<relevance, card, linked>>

StoreCard(c) ==
    /\ c.job[1] = "card"
    /\ card' = card \cup {c.job[2]}
    /\ UNCHANGED <<relevance, gate, linked>>

StoreResolve(c) ==
    /\ c.job[1] = "resolve"
    /\ linked' = linked \cup {c.job[2]}
    /\ UNCHANGED <<relevance, gate, card>>

\* The worker's own verdict decides on the follow-up, not the stored row.
Store(c) ==
    /\ at[c.worker].pc = "store"
    /\ StoreClassify(c) \/ StoreGate(c) \/ StoreCard(c) \/ StoreResolve(c)
    /\ Goes(c, IF at[c.worker].yes THEN "follow" ELSE "done", at[c.worker].yes)
    /\ UNCHANGED <<store, planned, faults>>

\* enqueue_article_job: insert, requeue a failed row, or leave the row alone.
Enqueue(j) ==
    /\ job' = [job EXCEPT ![j] = IF @.status \in {"absent", "failed"}
                                 THEN J!Requeued(@) ELSE @]
    /\ UNCHANGED <<inflight, ran>>

NextStage == [classify |-> "gate", gate |-> "card", card |-> "resolve",
              resolve |-> "entities"]

Follow(c) ==
    /\ at[c.worker].pc = "follow"
    /\ Enqueue(<<NextStage[c.job[1]], c.job[2]>>)
    /\ Goes(c, IF c.job[1] = "resolve" THEN "events" ELSE "done", FALSE)
    /\ UNCHANGED <<outputs, planned, faults>>

\* The second follow-up of resolution is a transaction of its own.
FollowEvents(c) ==
    /\ at[c.worker].pc = "events"
    /\ Enqueue(<<"events", c.job[2]>>)
    /\ Goes(c, "done", FALSE)
    /\ UNCHANGED <<outputs, planned, faults>>

Leaves(c) == Goes(c, "idle", FALSE) /\ UNCHANGED <<outputs, planned>>

\* The handler returned.
Complete(c) ==
    /\ at[c.worker].pc = "done"
    /\ J!Complete(c)
    /\ Leaves(c)
    /\ UNCHANGED faults

\* Any other exception of the handler.
Fail(c) == at[c.worker].pc # "done" /\ J!Fail(c) /\ Leaves(c) /\ Fault

\* A rate limit, an unreachable LLM or vector store, or the busy case lock; the
\* classifier needs none of them, and the vectors are written in the resolution
\* transaction, before its commit.
Defer(c) ==
    /\ \/ at[c.worker].pc = "read" /\ c.job[1] # "classify"
       \/ Resolving(c)
    /\ J!Defer(c)
    /\ Leaves(c)
    /\ Fault

Crash(c) == J!Crash(c) /\ Leaves(c) /\ Fault

-----------------------------------------------------------------------------
(* The planner and the operators.                                          *)

\* Mutants: an article is planned as long as it has no card, gated or not; missing
\* cards are not looked for.
MissingAnyCard(j) ==
    LET a == j[2] IN
    \/ j[1] = "classify" /\ relevance[a] = "none"
    \/ j[1] = "gate" /\ relevance[a] = "relevant" /\ gate[a] = "none"
    \/ j[1] = "card" /\ a \notin card

MissingNoCards(j) ==
    LET a == j[2] IN
    \/ j[1] = "classify" /\ relevance[a] = "none"
    \/ j[1] = "gate" /\ relevance[a] = "relevant" /\ gate[a] = "none"

\* The _articles_missing_..._query selections.
Missing(j) ==
    LET a == j[2] IN
    \/ j[1] = "classify" /\ relevance[a] = "none"
    \/ j[1] = "gate" /\ relevance[a] = "relevant" /\ gate[a] = "none"
    \/ j[1] = "card" /\ gate[a] = "candidate" /\ a \notin card

\* One batch per job type at a time.
PlanRead(j) ==
    /\ Missing(j)
    /\ \A i \in planned : i[1] = j[1]
    /\ planned' = planned \cup {j}
    /\ UNCHANGED <<store, outputs, at, faults>>

\* Another transaction, with the ids selected earlier.
PlanEnqueue(j) ==
    /\ j \in planned
    /\ planned' = planned \ {j}
    /\ Enqueue(j)
    /\ UNCHANGED <<outputs, at, faults>>

\* scripts/enqueue_case_resolution_jobs --apply
EnqueueCaseResolution(a) ==
    /\ CandidateCard(a)
    /\ Enqueue(<<"resolve", a>>)
    /\ Fault
    /\ UNCHANGED <<outputs, at, planned>>

\* scripts/reset_unconnected_case_resolution_jobs --apply (that the LLM audited
\* a link of the article is left open)
ResetUnconnected(a) ==
    /\ CandidateCard(a)
    /\ a \notin linked
    /\ J!ResetUnconnectedJob(<<"resolve", a>>)
    /\ Fault
    /\ UNCHANGED <<outputs, at, planned>>

RecoverFailed(j) ==
    /\ J!RecoverFailedJob(j)
    /\ Fault
    /\ UNCHANGED <<outputs, at, planned>>

-----------------------------------------------------------------------------
(* The clock.                                                              *)

RunAfterArrives(j) ==
    /\ J!RunAfterArrives(j)
    /\ UNCHANGED <<outputs, at, planned, faults>>

\* The lease of a worker that is gone expires in time; that of a live one is an
\* overrun.
LeaseExpires(j) ==
    /\ job[j].status = "running"
    /\ ~job[j].stale
    /\ IF \E c \in inflight : c.job = j THEN MayOverrun /\ Fault ELSE UNCHANGED faults
    /\ job' = [job EXCEPT ![j].stale = TRUE]
    /\ UNCHANGED <<inflight, ran, outputs, at, planned>>

-----------------------------------------------------------------------------
Step(c) == Read(c) \/ Store(c) \/ Follow(c) \/ FollowEvents(c) \/ Complete(c)

Next ==
    \/ \E w \in Worker, j \in J!Job : Claim(w, j)
    \/ \E c \in inflight : Step(c) \/ Fail(c) \/ Defer(c) \/ Crash(c)
    \/ \E j \in J!Job : PlanRead(j) \/ PlanEnqueue(j) \/ RecoverFailed(j)
    \/ \E j \in J!Job : RunAfterArrives(j) \/ LeaseExpires(j)
    \/ \E a \in Article : EnqueueCaseResolution(a) \/ ResetUnconnected(a)

Spec == Init /\ [][Next]_vars

\* The executor takes the job types in turn, so no eligible job is passed over
\* for ever; a handler goes on (its calls have timeouts); time passes; the planner
\* runs in every worker cycle.  Faults are finitely many (MaxFaults) and, like the
\* operators, never forced.
Fairness ==
    /\ \A w \in Worker : WF_vars(\E c \in inflight : c.worker = w /\ Step(c))
    /\ \A j \in J!Job :
        /\ SF_vars(\E w \in Worker : Claim(w, j))
        /\ WF_vars(PlanRead(j)) /\ WF_vars(PlanEnqueue(j))
        /\ WF_vars(RunAfterArrives(j)) /\ WF_vars(LeaseExpires(j))

FairSpec == Spec /\ Fairness

-----------------------------------------------------------------------------
(* Properties.                                                             *)

\* The store, the stored outputs, the handlers and the planner's batch have their
\* types; a gate decision is one of the two the code stores, or none.
TypeOK ==
    /\ J!TypeOK
    /\ relevance \in [Article -> {"none", "relevant", "irrelevant"}]
    /\ gate \in [Article -> {"none", "candidate", "rejected"}]
    /\ card \subseteq Article
    /\ linked \subseteq Article
    /\ at \in [Worker -> [pc : Pc, yes : BOOLEAN]]
    /\ planned \subseteq J!Job
    /\ faults \in 0..MaxFaults

Status(s, a) == job[<<s, a>>].status

\* runtime.md: each job enqueues the next only after its own durable output
\* exists.  A job of the chain exists only when the output of the stage before it
\* is stored, whatever overrun workers and stale plans do.
OutputBeforeFollowUp ==
    \A a \in Article :
        /\ Status("gate", a) # "absent" => relevance[a] = "relevant"
        /\ Status("card", a) # "absent" => gate[a] # "none"
        /\ Status("resolve", a) # "absent" => a \in card
        /\ Status("entities", a) # "absent" \/ Status("events", a) # "absent"
               => a \in linked

\* summarize_jobs counts the job as blocked: a crash on its last attempt.
Stuck(s, a) == J!Blocked(job[<<s, a>>])

\* A relevant article gets its gate decision, and an accepted one its card,
\* whatever was lost on the way: the planner makes up for every lost follow-up.
\* Only a blocked job is given up.
CardFollows ==
    \A a \in Article :
        /\ relevance[a] = "relevant" ~> (gate[a] # "none" \/ Stuck("gate", a))
        /\ gate[a] = "candidate" ~> (a \in card \/ Stuck("card", a))

\* An article that was linked gets its entity and event jobs, or its resolution
\* job ends failed or blocked.
LinkedFollows ==
    \A a \in Article :
        a \in linked ~> \/ Status("entities", a) # "absent" /\ Status("events", a) # "absent"
                        \/ Status("resolve", a) = "failed"
                        \/ Stuck("resolve", a)

\* What docs/system/foundation/runtime.md says of cards: create_article_card
\* succeeds by writing the card and then enqueues resolve_article_cases.
ResolveFollows ==
    \A a \in Article :
        (a \in card /\ Status("card", a) = "succeeded") ~> Status("resolve", a) # "absent"
=============================================================================
