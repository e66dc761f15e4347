------------------------------ MODULE JobStore ------------------------------
(***************************************************************************)
(* The PostgreSQL job queue behind worker-ml: ArticleJobStore of           *)
(* packages/database, the operator scripts that write to the jobs table,   *)
(* and the worker coroutines that claim, run and release jobs.             *)
(*                                                                         *)
(* Every operation of the store is one transaction, hence one action.  A   *)
(* claim hands the worker a snapshot (ClaimedJob); from then on the worker *)
(* reports with that snapshot only.  complete_job and fail_job find the    *)
(* row by its id alone: they look at neither the status nor the lease, so  *)
(* a worker that outlived its lease still writes.                          *)
(*                                                                         *)
(* Time is abstracted to the two comparisons the code makes with it: `due' *)
(* is "run_after is null or past", `stale' is "locked_at is older than     *)
(* stale_job_timeout".  Both become true by an action of the clock.  The   *)
(* order in which eligible jobs are claimed is left open (SKIP LOCKED and  *)
(* the per-type round robin of the executor allow any).                    *)
(***************************************************************************)
EXTENDS Integers

CONSTANTS
    ArticleJob,   \* jobs whose subject is an article (never revisioned)
    CaseJob,      \* jobs whose subject is a case (revisioned)
    Worker,       \* worker coroutines, over all worker processes
    MaxAttempts,  \* job_max_attempts
    MaxRevision   \* bound on the revisions requested of one case job

ASSUME JobAssumption == ArticleJob \cap CaseJob = {}
ASSUME MaxAttemptsAssumption == MaxAttempts \in Nat \ {0}
ASSUME MaxRevisionAssumption == MaxRevision \in Nat \ {0}

Job == ArticleJob \cup CaseJob

VARIABLES
    job,       \* the jobs table; a row that does not exist yet is "absent"
    inflight,  \* the ClaimedJob snapshots live workers hold
    ran,       \* history: highest revision of each job any handler started on
    overrun    \* history: jobs a handler of which has outlived its lease

vars == <<job, inflight, ran, overrun>>

Row == [status : {"absent", "queued", "running", "succeeded", "failed"},
        attempt : Int, due : BOOLEAN, stale : BOOLEAN,
        requested : Nat, completed : Nat]

ClaimedJob == [worker : Worker, job : Job, attempt : Nat, revision : Nat]

Init ==
    /\ job = [j \in Job |-> [status |-> "absent", attempt |-> 0, due |-> TRUE,
                             stale |-> FALSE, requested |-> 1, completed |-> 0]]
    /\ inflight = {}
    /\ ran = [j \in Job |-> 0]
    /\ overrun = {}

-----------------------------------------------------------------------------
(* Row transformers: the column values each statement writes.             *)

\* Every statement that ends a claim, or queues a row, clears the lease.
Released(r, status, attempt, due) ==
    [status |-> status, attempt |-> attempt, due |-> due, stale |-> FALSE,
     requested |-> r.requested, completed |-> r.completed]

\* Insert, or requeue with a fresh budget.
Requeued(r) == Released(r, "queued", 0, TRUE)

\* A further revision of an existing case job: a running row keeps its lease
\* and its attempt count, any other is queued with a fresh budget.
Requested(r) ==
    IF r.status = "running"
    THEN [[r EXCEPT !.requested = @ + 1] EXCEPT !.due = TRUE]
    ELSE [Requeued(r) EXCEPT !.requested = @ + 1]

\* Is there a newer revision than the one the report is about?  Article jobs
\* pass None as their revision, and nothing is ever newer than that.
Newer(r, c) == c.job \in CaseJob /\ r.requested > c.revision

\* Mutant: success whatever has been requested meanwhile.
CompletedDropsNewer(r, c) ==
    [Released(r, "succeeded", r.attempt, r.due) EXCEPT !.completed = c.revision]

Completed(r, c) ==
    IF Newer(r, c)
    THEN [Requeued(r) EXCEPT !.completed = c.revision]
    ELSE [Released(r, "succeeded", r.attempt, r.due) EXCEPT
             !.completed = IF c.job \in CaseJob THEN c.revision ELSE r.requested]

\* Mutants: the newer revision is queued without its fresh budget; the last
\* attempt is never made.
FailedKeepsBudget(r, c) ==
    IF Newer(r, c) THEN Released(r, "queued", r.attempt, TRUE)
    ELSE IF c.attempt >= MaxAttempts THEN Released(r, "failed", r.attempt, r.due)
    ELSE Released(r, "queued", r.attempt, FALSE)
FailedTooEarly(r, c) ==
    IF Newer(r, c) THEN Requeued(r)
    ELSE IF c.attempt + 1 >= MaxAttempts THEN Released(r, "failed", r.attempt, r.due)
    ELSE Released(r, "queued", r.attempt, FALSE)

\* Exhaustion is judged on the worker's snapshot; the stored count stays.
Failed(r, c) ==
    IF Newer(r, c) THEN Requeued(r)
    ELSE IF c.attempt >= MaxAttempts THEN Released(r, "failed", r.attempt, r.due)
    ELSE Released(r, "queued", r.attempt, FALSE)

\* Mutant: no status guard.
DeferredUnguarded(r) == Released(r, "queued", r.attempt - 1, FALSE)

\* The only report guarded by the row: WHERE status = 'running'.
Deferred(r) ==
    IF r.status = "running" THEN Released(r, "queued", r.attempt - 1, FALSE) ELSE r

-----------------------------------------------------------------------------
(* Producers.                                                              *)

\* enqueue_article_job(s): insert, or requeue a failed row; any other row is
\* left as it is.  Backfill passes requeue_failed = False and changes nothing.
EnqueueArticleJob(j) ==
    /\ job[j].status \in {"absent", "failed"}
    /\ job' = [job EXCEPT ![j] = Requeued(@)]
    /\ UNCHANGED <<inflight, ran, overrun>>

\* enqueue_case_job
RequestCaseJob(j) ==
    /\ job[j].requested < MaxRevision
    /\ job' = [job EXCEPT ![j] = IF @.status = "absent" THEN Requeued(@) ELSE Requested(@)]
    /\ UNCHANGED <<inflight, ran, overrun>>

\* ensure_case_job: recurring work, no new revision.
EnsureCaseJob(j) ==
    /\ job[j].status \in {"absent", "succeeded", "failed"}
    /\ job' = [job EXCEPT ![j] = Requeued(@)]
    /\ UNCHANGED <<inflight, ran, overrun>>

\* scripts/recover_failed_jobs --apply
RecoverFailedJob(j) ==
    /\ job[j].status = "failed"
    /\ job[j].attempt >= MaxAttempts
    /\ job' = [job EXCEPT ![j] = Requeued(@)]
    /\ UNCHANGED <<inflight, ran, overrun>>

\* scripts/reset_unconnected_case_resolution_jobs --apply
ResetUnconnectedJob(j) ==
    /\ job[j].status = "succeeded"
    /\ job' = [job EXCEPT ![j] = Requeued(@)]
    /\ UNCHANGED <<inflight, ran, overrun>>

-----------------------------------------------------------------------------
(* Workers.                                                                *)

\* Mutant: the lease timeout is not looked at.
EligibleWhileRunning(r) ==
    r.attempt < MaxAttempts /\ (r.status = "running" \/ (r.status = "queued" /\ r.due))

Eligible(r) ==
    \/ r.status = "queued" /\ r.attempt < MaxAttempts /\ r.due
    \/ r.status = "running" /\ r.stale /\ r.attempt < MaxAttempts

\* Mutant: the snapshot is of the row before the claim, without a job.
ClaimForgetsRow(w, j) ==
    /\ \A c \in inflight : c.worker # w
    /\ Eligible(job[j])
    /\ job' = [job EXCEPT ![j] = Released(@, "running", @.attempt + 1, @.due)]
    /\ inflight' = inflight \cup {job[j]}
    /\ ran' = [ran EXCEPT ![j] = job[j].requested]
    /\ UNCHANGED overrun

\* claim_next_job: take the lease, consume an attempt, return the snapshot.
Claim(w, j) ==
    /\ \A c \in inflight : c.worker # w
    /\ Eligible(job[j])
    /\ job' = [job EXCEPT ![j] = Released(@, "running", @.attempt + 1, @.due)]
    /\ inflight' = inflight \cup {[worker |-> w, job |-> j,
                                   attempt |-> job[j].attempt + 1,
                                   revision |-> job[j].requested]}
    /\ ran' = [ran EXCEPT ![j] = job[j].requested]
    /\ UNCHANGED overrun

\* The handler returned: complete_job.
Complete(c) ==
    /\ job' = [job EXCEPT ![c.job] = Completed(@, c)]
    /\ inflight' = inflight \ {c}
    /\ UNCHANGED <<ran, overrun>>

\* The handler raised: fail_job.
Fail(c) ==
    /\ job' = [job EXCEPT ![c.job] = Failed(@, c)]
    /\ inflight' = inflight \ {c}
    /\ UNCHANGED <<ran, overrun>>

\* A rate limit, a busy lock or an unavailable dependency: defer_job.
Defer(c) ==
    /\ job' = [job EXCEPT ![c.job] = Deferred(@)]
    /\ inflight' = inflight \ {c}
    /\ UNCHANGED <<ran, overrun>>

\* The worker process dies, or its report raises: the row keeps its lease.
Crash(c) ==
    /\ inflight' = inflight \ {c}
    /\ UNCHANGED <<job, ran, overrun>>

-----------------------------------------------------------------------------
(* The clock.                                                              *)

RunAfterArrives(j) ==
    /\ ~job[j].due
    /\ job' = [job EXCEPT ![j].due = TRUE]
    /\ UNCHANGED <<inflight, ran, overrun>>

\* The lease is a timestamp: it expires under a live handler as under a dead one.
LeaseExpires(j) ==
    /\ job[j].status = "running"
    /\ ~job[j].stale
    /\ job' = [job EXCEPT ![j].stale = TRUE]
    /\ overrun' = IF \E c \in inflight : c.job = j THEN overrun \cup {j} ELSE overrun
    /\ UNCHANGED <<inflight, ran>>

-----------------------------------------------------------------------------
Produce ==
    \/ \E j \in ArticleJob : EnqueueArticleJob(j) \/ ResetUnconnectedJob(j)
    \/ \E j \in CaseJob : RequestCaseJob(j) \/ EnsureCaseJob(j)
    \/ \E j \in Job : RecoverFailedJob(j)

Report(c) == Complete(c) \/ Fail(c) \/ Defer(c) \/ Crash(c)

Clock == \E j \in Job : RunAfterArrives(j) \/ LeaseExpires(j)

Next ==
    \/ Produce
    \/ \E w \in Worker, j \in Job : Claim(w, j)
    \/ \E c \in inflight : Report(c)
    \/ Clock

Spec == Init /\ [][Next]_vars

\* The executor takes the job types in turn, so an eligible job is not passed
\* over for ever; a handler ends (its LLM and database calls have timeouts);
\* time passes; and the causes of deferral (cooldown, busy lock, unreachable
\* dependency) do not recur for ever for one job.  Producers and crashes are
\* not fair.
Claimed(j) == \E w \in Worker : Claim(w, j)
Reports(w) == \E c \in inflight : c.worker = w /\ Report(c)
Decided(j) == \E c \in inflight : c.job = j /\ (Complete(c) \/ Fail(c))

Fairness ==
    /\ \A w \in Worker : WF_vars(Reports(w))
    /\ \A j \in Job : /\ SF_vars(Claimed(j)) /\ SF_vars(Decided(j))
                      /\ WF_vars(RunAfterArrives(j)) /\ WF_vars(LeaseExpires(j))

FairSpec == Spec /\ Fairness

-----------------------------------------------------------------------------
(* summarize_jobs: what the backfill drain treats as stuck.                *)

\* Mutant: expired leases on the last attempt are not reported.
BlockedIgnoresLeases(r) == r.status = "queued" /\ r.attempt >= MaxAttempts

Blocked(r) ==
    /\ r.attempt >= MaxAttempts
    /\ r.status = "queued" \/ (r.status = "running" /\ r.stale)

-----------------------------------------------------------------------------
(* Properties.                                                             *)

\* Rows, snapshots and the history have their types.
TypeOK ==
    /\ job \in [Job -> Row]
    /\ inflight \subseteq ClaimedJob
    /\ ran \in [Job -> Nat]
    /\ overrun \subseteq Job

\* attempt_count never leaves 0..max_attempts, and a running row has consumed
\* at least one attempt, whatever late reports of overrun workers do to it: the
\* decrement of defer_job cannot underflow, and claim_next_job cannot overspend.
AttemptBudget ==
    \A j \in Job :
        /\ job[j].attempt \in 0..MaxAttempts
        /\ job[j].status = "running" => job[j].attempt > 0

\* A revision requested while an older one was running is never lost: a job
\* that says succeeded has processed the newest revision asked for, even when
\* the success was reported by a worker whose lease had long been taken over.
NoLostRevision ==
    \A j \in Job : job[j].status = "succeeded" => job[j].completed = job[j].requested

\* A queued revision that no handler has started on yet always has attempts
\* left: the failures of older revisions never use up its budget.
NewRevisionHasBudget ==
    \A j \in Job :
        (job[j].status = "queued" /\ job[j].requested > ran[j])
            => job[j].attempt < MaxAttempts

\* As long as the handlers of a job have reported within their leases, a live
\* snapshot is the only one of that job, and the row is exactly as its claim left it:
\* running, not stale, with the snapshot's attempt count.
ExclusiveLease ==
    \A c \in inflight :
        c.job \notin overrun =>
            /\ job[c.job].status = "running"
            /\ ~job[c.job].stale
            /\ job[c.job].attempt = c.attempt
            /\ \A d \in inflight : d.job = c.job => d = c

\* As long as the handlers of a job have reported within their leases, a failed row
\* has spent its whole budget, so scripts/recover_failed_jobs, which selects
\* exhausted failed rows only, can reach it.
FailedIsRecoverable ==
    \A j \in Job \ overrun : job[j].status = "failed" => job[j].attempt >= MaxAttempts

\* As long as the handlers of a job have reported within their leases, a success is
\* final until a producer asks again: the row leaves "succeeded" only for a fresh
\* queued row, and the completed revision never goes back.
SuccessIsKept ==
    [][\A j \in Job \ overrun :
          /\ job'[j].completed >= job[j].completed
          /\ (job[j].status = "succeeded" /\ job'[j].status # "succeeded")
                 => (job'[j].status = "queued" /\ job'[j].attempt = 0)]_vars

\* Every queued or running job is eventually succeeded, failed, or one that
\* summarize_jobs reports as blocked, so a backfill drain never waits for ever.
EventuallySettled ==
    \A j \in Job :
        job[j].status \in {"queued", "running"}
            ~> (job[j].status \in {"succeeded", "failed"} \/ Blocked(job[j]))
=============================================================================
