----------------------------- MODULE WorkerCycle -----------------------------
(***************************************************************************)
(* One worker-ml process: the modes of main.py, the cycle executor of      *)
(* runtime/execution.py with its coroutines, locks and semaphores, the job *)
(* table it claims from (JobStore) and the llm_runs rows its handlers open *)
(* (LlmRuns).  The process runs one cycle (`once'), cycles for ever        *)
(* (`loop'), cycles until nothing is left to do (`drain', run_backfill),   *)
(* or handles one job outside any executor (`single', process_next_job).   *)
(*                                                                         *)
(* What a handler decides is left open: it makes LLM requests, then        *)
(* returns or raises.  The coroutines share an event loop, so code between *)
(* two awaits is one step.  A coroutine whose handler ends reports in the  *)
(* same step, and the claim calls of a scan that find nothing are one step *)
(* with the call that ends the scan.                                       *)
(*                                                                         *)
(* An outage, a wave of 429s and the death of the process are faults, and  *)
(* there are at most MaxFaults of them.                                    *)
(***************************************************************************)
EXTENDS LlmRuns, Sequences

CONSTANTS
    ArticleJob, CaseJob,  \* as in JobStore
    Worker,               \* the coroutines of the process: worker_concurrency
    MaxAttempts,          \* job_max_attempts
    TypeOf,               \* the job type of each job
    Schedule,             \* JOB_TYPE_SCHEDULE, the --job-type choice applied
    ClaimLimit,           \* claim_batch_size
    Mode,                 \* the modes the process is started in
    MaxFaults             \* bound on faults

ASSUME JobAssumption ==
    /\ ArticleJob \cap CaseJob = {}
    /\ MaxAttempts \in Nat \ {0} /\ MaxFaults \in Nat
ASSUME ScheduleAssumption ==
    /\ Schedule \in Seq(STRING) /\ Len(Schedule) > 0
    /\ \A m, n \in 1..Len(Schedule) : Schedule[m] = Schedule[n] => m = n
    /\ \A j \in ArticleJob \cup CaseJob : \E n \in 1..Len(Schedule) : TypeOf[j] = Schedule[n]
\* Every cycle takes the schedule from its start, so a smaller batch never gets to
\* the types at its end.
ASSUME ModeAssumption == Mode \subseteq {"once", "loop", "drain", "single"}
ASSUME ClaimLimitAssumption == ClaimLimit \in Nat /\ ClaimLimit >= Len(Schedule)

VARIABLES
    job,       \* the jobs table
    inflight,  \* the claimed jobs of the process
    cooldown,  \* an LLM cooldown is active
    proc,      \* the process: mode, and pc "off", "plan" or "cycle"
    exec,      \* the _CycleExecutor of the cycle
    co,        \* its coroutines: pc, and the llm_runs row of the handler
    faults     \* faults so far

vars == <<job, inflight, run, cooldown, proc, exec, co, faults>>

J == INSTANCE JobStore WITH MaxRevision <- 1,
                            ran <- [j \in ArticleJob \cup CaseJob |-> 1], overrun <- {}

Type == {Schedule[n] : n \in 1..Len(Schedule)}
\* Where a coroutine can be: it has returned, is before the claim lock or holds it, has
\* a job and waits for its namespace, runs the handler, has a request or a repair out,
\* was told of a rate limit, or has recorded it.
Executes == {"handling", "request", "repair", "limited", "recording"}
Pc == {"out", "top", "claim", "wait"} \cup Executes

NewExecutor == [index |-> 1, claimed |-> 0, stop |-> FALSE, late |-> 0,
                resume |-> FALSE, records |-> 0]

Idle(pc) == [w \in Worker |-> [pc |-> pc, rows |-> {}]]

Init ==
    /\ job = [j \in J!Job |-> [status |-> "failed", attempt |-> MaxAttempts, due |-> TRUE,
                               stale |-> FALSE, requested |-> 1, completed |-> 0]]
    /\ inflight = {}
    /\ InitRuns
    /\ cooldown = FALSE
    /\ proc \in [mode : Mode, pc : {"off"}]
    /\ exec = NewExecutor
    /\ co = Idle("out")
    /\ faults = 0

Fault == faults < MaxFaults /\ faults' = faults + 1

\* Claiming stops; the requests that are still out may meet the same fault.
StopClaiming ==
    /\ exec' = [exec EXCEPT !.stop = TRUE]
    /\ IF exec.stop /\ proc.mode # "single" THEN UNCHANGED faults ELSE Fault

\* The job a coroutine has claimed, and the rows that may be given to a new request.
JobOf(w) == (CHOOSE c \in inflight : c.worker = w).job
Unused == {s \in Slot : run[s] = "none"}

-----------------------------------------------------------------------------
(* The process.                                                            *)

\* run_once and run_worker do not start under a cooldown; run_backfill does, and waits.
\* Every start fails the pending rows that are old.
StartProcess(mode, old) ==
    /\ proc.pc = "off"
    /\ mode # "drain" => ~cooldown
    /\ proc' = [mode |-> mode, pc |-> "plan"]
    /\ run' = Cleaned(old)
    /\ UNCHANGED <<job, inflight, cooldown, exec, co, faults>>

\* process_next_job claims first, any type, and has no executor.
StartSingle(w, j, old) ==
    /\ proc.pc = "off"
    /\ ~cooldown
    /\ J!Claim(w, j)
    /\ proc' = [mode |-> "single", pc |-> "cycle"]
    /\ run' = Cleaned(old)
    /\ exec' = [NewExecutor EXCEPT !.stop = TRUE]
    /\ co' = [Idle("out") EXCEPT ![w].pc = "handling"]
    /\ UNCHANGED <<cooldown, faults>>

\* run_cycle, once it has planned: a new executor and its task group.
BeginCycle ==
    /\ proc.pc = "plan"
    /\ ~cooldown
    /\ proc' = [proc EXCEPT !.pc = "cycle"]
    /\ exec' = NewExecutor
    /\ co' = Idle("top")
    /\ UNCHANGED <<job, inflight, run, cooldown, faults>>

\* drain_backfill: nothing is queued with attempts left, and whatever runs is blocked.
Drained ==
    \A j \in J!Job :
        /\ job[j].status = "queued" => job[j].attempt >= MaxAttempts
        /\ job[j].status = "running" => J!Blocked(job[j])

Done == proc.mode \in {"once", "single"} \/ (proc.mode = "drain" /\ Drained)

\* A cooldown that was recorded after the start makes run_cycle return empty: the
\* end of run_once, perhaps that of a backfill, another turn of the loop otherwise.
SkipCycle ==
    /\ proc.pc = "plan"
    /\ cooldown
    /\ Done
    /\ proc' = [proc EXCEPT !.pc = "off"]
    /\ UNCHANGED <<job, inflight, run, cooldown, exec, co, faults>>

\* The task group ends with its last coroutine.
EndCycle ==
    /\ proc.pc = "cycle"
    /\ \A w \in Worker : co[w].pc = "out"
    /\ proc' = [proc EXCEPT !.pc = IF Done THEN "off" ELSE "plan"]
    /\ exec' = NewExecutor
    /\ UNCHANGED <<job, inflight, run, cooldown, co, faults>>

\* The process dies, or a report raises: the task group cancels every coroutine and no
\* mode survives the exception.  Rows stay running, and pending.
Die ==
    /\ proc.pc = "cycle"
    /\ Fault
    /\ inflight' = {}
    /\ proc' = [proc EXCEPT !.pc = "off"]
    /\ exec' = NewExecutor
    /\ co' = Idle("out")
    /\ UNCHANGED <<job, run, cooldown>>

-----------------------------------------------------------------------------
(* Claiming.                                                               *)

Goto(w, pc) == co' = [co EXCEPT ![w].pc = pc]

\* Mutant: the claim lock is not taken.
EnterClaimUnlocked(w) ==
    /\ co[w].pc = "top"
    /\ Goto(w, IF exec.stop \/ exec.claimed >= ClaimLimit THEN "out" ELSE "claim")
    /\ UNCHANGED <<job, inflight, run, cooldown, proc, exec, faults>>

\* _worker asks for a job under the claim lock.  Both the stop event and the batch
\* size are looked at here, and not again until the next job.
EnterClaim(w) ==
    /\ co[w].pc = "top"
    /\ \A v \in Worker : co[v].pc # "claim"
    /\ Goto(w, IF exec.stop \/ exec.claimed >= ClaimLimit THEN "out" ELSE "claim")
    /\ UNCHANGED <<job, inflight, run, cooldown, proc, exec, faults>>

Claimable(t) == \E j \in J!Job : TypeOf[j] = t /\ J!Eligible(job[j])

\* The place of the schedule k turns on.
Turn(k) == ((exec.index + k - 1) % Len(Schedule)) + 1

\* Mutant: each scan starts at the head of the schedule.
ScanFromTheHead == {n \in 1..Len(Schedule) :
    Claimable(Schedule[n]) /\ \A m \in 1..(n - 1) : ~Claimable(Schedule[m])}

\* The scan takes the types in turn, from where the last one left off, until one has a
\* job; {} if none has.
Scan == {Turn(k) : k \in {k \in 0..(Len(Schedule) - 1) :
    Claimable(Schedule[Turn(k)]) /\ \A i \in 0..(k - 1) : ~Claimable(Schedule[Turn(i)])}}

\* Mutant: the claim is not counted.
ClaimNextUncounted(w, j) ==
    \E n \in Scan :
        /\ co[w].pc = "claim"
        /\ TypeOf[j] = Schedule[n]
        /\ J!Claim(w, j)
        /\ exec' = [exec EXCEPT !.index = (n % Len(Schedule)) + 1]
        /\ Goto(w, "wait")
        /\ UNCHANGED <<run, cooldown, proc, faults>>

\* A claim counts, and moves the turn on.
ClaimNext(w, j) ==
    \E n \in Scan :
        /\ co[w].pc = "claim"
        /\ TypeOf[j] = Schedule[n]
        /\ J!Claim(w, j)
        /\ exec' = [exec EXCEPT !.index = (n % Len(Schedule)) + 1,
                                !.claimed = exec.claimed + 1,
                                !.late = exec.late + (IF exec.stop THEN 1 ELSE 0)]
        /\ Goto(w, "wait")
        /\ UNCHANGED <<run, cooldown, proc, faults>>

\* After a whole turn the index is where it was, and the coroutine returns.
ClaimNone(w) ==
    /\ co[w].pc = "claim"
    /\ Scan = {}
    /\ Goto(w, "out")
    /\ UNCHANGED <<job, inflight, run, cooldown, proc, exec, faults>>

-----------------------------------------------------------------------------
(* Executing.                                                              *)

Namespace(t) ==
    IF t \in {"resolve_article_cases", "refresh_case", "audit_case_coherence"} THEN "case"
    ELSE IF t \in {"resolve_article_entities", "resolve_article_events"} THEN t
    ELSE "none"

\* The semaphore is held from the start of _execute to its end.
Executing(n) ==
    {w \in Worker : co[w].pc \in Executes /\ Namespace(TypeOf[JobOf(w)]) = n}

\* Mutant: the stop event is looked at once more.
StartHandlerUnlessStopped(w) ==
    /\ co[w].pc = "wait"
    /\ LET n == Namespace(TypeOf[JobOf(w)]) IN n = "none" \/ Executing(n) = {}
    /\ Goto(w, IF exec.stop THEN "out" ELSE "handling")
    /\ UNCHANGED <<job, inflight, run, cooldown, proc, exec, faults>>

\* A claimed job is executed even if claiming has been stopped meanwhile; its lease
\* runs while it waits for its namespace.
StartHandler(w) ==
    /\ co[w].pc = "wait"
    /\ LET n == Namespace(TypeOf[JobOf(w)]) IN n = "none" \/ Executing(n) = {}
    /\ Goto(w, "handling")
    /\ UNCHANGED <<job, inflight, run, cooldown, proc, exec, faults>>

\* The handler is over: the rows it used may be forgotten, unless they are pending, and
\* the coroutine goes on; a process without an executor is done.
Forget(rows, table) ==
    [s \in Slot |-> IF s \in rows /\ table[s] # "pending" THEN "none" ELSE table[s]]

Back(w) == co' = [co EXCEPT ![w] = [pc |-> IF proc.mode = "single" THEN "out" ELSE "top",
                                    rows |-> {}]]

\* The handler makes an LLM request, its first or a further one.
Ask(w) ==
    /\ co[w].pc = "handling"
    /\ TypeOf[JobOf(w)] # "classify_article"
    /\ Unused # {}
    /\ LET s == CHOOSE s \in Unused : TRUE
       IN  /\ run' = [Forget(co[w].rows, run) EXCEPT ![s] = "pending"]
           /\ co' = [co EXCEPT ![w] = [pc |-> "request", rows |-> {s}]]
    /\ UNCHANGED <<job, inflight, cooldown, proc, exec, faults>>

\* Does an answer that stays invalid end in an inconclusive verdict?  Case resolution
\* makes requests of both kinds.
AuditTask(t) ==
    IF t = "resolve_article_cases" THEN {TRUE, FALSE}
    ELSE {t \in {"audit_case_coherence", "audit_case_public_interest", "audit_case_duplicates"}}

\* An answer arrives: out is what the handler is told, row what becomes of the row.
Answered(w, out, row) ==
    \E s \in co[w].rows :
        \/ co[w].pc = "request" /\ <<out, row>> \in FirstAnswer(run[s])
        \/ /\ co[w].pc = "repair"
           /\ \E audit \in AuditTask(TypeOf[JobOf(w)]) : <<out, row>> \in RepairAnswer(run[s], audit)

Rewritten(w, row) == [s \in Slot |-> IF s \in co[w].rows THEN row ELSE run[s]]

\* Output lets the handler go on, invalid output is repaired, and a 429 stops claiming
\* at once.
Receive(w) ==
    \E out \in {"output", "repair", "limited"}, row \in Row :
        /\ Answered(w, out, row)
        /\ run' = Rewritten(w, row)
        /\ Goto(w, IF out = "output" THEN "handling" ELSE out)
        /\ IF out = "limited" THEN StopClaiming ELSE UNCHANGED <<exec, faults>>
        /\ UNCHANGED <<job, inflight, cooldown, proc>>

-----------------------------------------------------------------------------
(* Reporting.                                                              *)

Claim(w) == {c \in inflight : c.worker = w}

\* The handler returns, or raises something of its own, or one of its locks is busy or
\* its audit superseded.
HandlerEnds(w) ==
    /\ co[w].pc = "handling"
    /\ \E c \in Claim(w) : J!Complete(c) \/ J!Fail(c) \/ J!Defer(c)
    /\ Back(w)
    /\ run' = Forget(co[w].rows, run)
    /\ UNCHANGED <<cooldown, proc, exec, faults>>

\* An LLM request ends in an error.
RequestFails(w) ==
    \E row \in Row :
        /\ Answered(w, "error", row)
        /\ \E c \in Claim(w) : J!Fail(c)
        /\ Back(w)
        /\ run' = Forget(co[w].rows, Rewritten(w, row))
        /\ UNCHANGED <<cooldown, proc, exec, faults>>

\* The LLM proxy or Qdrant is unreachable: claiming stops.
DependencyFails(w) ==
    /\ \/ co[w].pc = "handling" /\ run' = Forget(co[w].rows, run)
       \/ \E row \in Row : /\ Answered(w, "unreachable", row)
                            /\ run' = Forget(co[w].rows, Rewritten(w, row))
    /\ StopClaiming
    /\ \E c \in Claim(w) : J!Defer(c)
    /\ Back(w)
    /\ UNCHANGED <<cooldown, proc>>

\* Mutant: resume_at is looked at before the lock is held.
RecordLimitUnlocked(w) ==
    /\ co[w].pc = "limited"
    /\ ~exec.resume
    /\ cooldown' = TRUE
    /\ exec' = [exec EXCEPT !.records = exec.records + 1]
    /\ Goto(w, "recording")
    /\ UNCHANGED <<job, inflight, run, proc, faults>>

\* The first job a 429 hits records the cooldown, under the rate-limit lock ...
RecordLimit(w) ==
    /\ co[w].pc = "limited"
    /\ \A v \in Worker : co[v].pc # "recording"
    /\ ~exec.resume
    /\ cooldown' = TRUE
    /\ exec' = [exec EXCEPT !.records = exec.records + 1]
    /\ Goto(w, "recording")
    /\ UNCHANGED <<job, inflight, run, proc, faults>>

\* ... defers itself in a second transaction, and then the lock is free; any other
\* job is deferred to the same time.
DeferLimited(w) ==
    /\ \/ co[w].pc = "recording"
       \/ co[w].pc = "limited" /\ exec.resume
    /\ \E c \in Claim(w) : J!Defer(c)
    /\ exec' = [exec EXCEPT !.resume = TRUE]
    /\ Back(w)
    /\ run' = Forget(co[w].rows, run)
    /\ UNCHANGED <<cooldown, proc, faults>>

-----------------------------------------------------------------------------
(* The environment.                                                        *)

\* The planner, follow-up jobs of other handlers, and operators.
Produce(j) ==
    /\ IF j \in ArticleJob THEN J!EnqueueArticleJob(j) ELSE J!EnsureCaseJob(j)
    /\ UNCHANGED <<run, cooldown, proc, exec, co, faults>>

RunAfterArrives(j) ==
    /\ J!RunAfterArrives(j)
    /\ UNCHANGED <<run, cooldown, proc, exec, co, faults>>

\* The lease of a job nobody handles any more; handlers that outlive their lease are
\* in JobStore.
LeaseExpires(j) ==
    /\ \A c \in inflight : c.job # j
    /\ J!LeaseExpires(j)
    /\ UNCHANGED <<run, cooldown, proc, exec, co, faults>>

\* A second process starts beside this one and cleans up under it.
OtherProcessCleans(old) ==
    /\ old # {}
    /\ run' = Cleaned(old)
    /\ UNCHANGED <<job, inflight, cooldown, proc, exec, co, faults>>

\* ... or is told of a rate limit; nothing within a cycle reads the cooldown, so one
\* that comes then is taken to come at its end.
OtherProcessIsLimited ==
    /\ proc.pc # "cycle"
    /\ Fault
    /\ ~cooldown
    /\ cooldown' = TRUE
    /\ UNCHANGED <<job, inflight, run, proc, exec, co>>

CooldownEnds ==
    /\ cooldown
    /\ cooldown' = FALSE
    /\ UNCHANGED <<job, inflight, run, proc, exec, co, faults>>

-----------------------------------------------------------------------------
Start(old) ==
    \/ \E mode \in Mode \ {"single"} : StartProcess(mode, old)
    \/ \E w \in Worker, j \in J!Job : "single" \in Mode /\ StartSingle(w, j, old)

Claiming(w) == EnterClaim(w) \/ ClaimNone(w) \/ \E j \in J!Job : ClaimNext(w, j)
Waits(w) == StartHandler(w) \/ Receive(w) \/ RequestFails(w) \/ RecordLimit(w) \/ DeferLimited(w)

Clock == CooldownEnds \/ (\E j \in J!Job : RunAfterArrives(j) \/ LeaseExpires(j))

Next ==
    \/ \E old \in SUBSET PendingRows : Start(old) \/ OtherProcessCleans(old)
    \/ OtherProcessIsLimited
    \/ BeginCycle \/ SkipCycle \/ EndCycle \/ Die
    \/ \E w \in Worker : Claiming(w) \/ Ask(w) \/ Waits(w) \/ HandlerEnds(w) \/ DependencyFails(w)
    \/ \E j \in J!Job : Produce(j)
    \/ Clock

Spec == Init /\ [][Next]_vars

\* The timer starts the process again and again; coroutines take their steps; requests
\* and transactions have timeouts, and a handler makes finitely many; time passes.
\* Nothing makes a second process run, a producer produce, or the process fail.
Fairness ==
    /\ SF_vars(\E old \in SUBSET PendingRows : StartProcess("once", old))
    /\ WF_vars(BeginCycle \/ SkipCycle \/ EndCycle)
    /\ \A w \in Worker : WF_vars(Claiming(w)) /\ WF_vars(Waits(w)) /\ SF_vars(HandlerEnds(w))
    /\ WF_vars(CooldownEnds)
    /\ \A j \in J!Job : WF_vars(RunAfterArrives(j) \/ LeaseExpires(j))

FairSpec == Spec /\ Fairness

-----------------------------------------------------------------------------
(* Properties.                                                             *)

TypeOK ==
    /\ job \in [J!Job -> J!Row]
    /\ inflight \subseteq J!ClaimedJob
    /\ run \in [Slot -> Row]
    /\ cooldown \in BOOLEAN
    /\ proc \in [mode : Mode, pc : {"off", "plan", "cycle"}]
    /\ co \in [Worker -> [pc : Pc, rows : SUBSET Slot]]
    /\ exec.index \in 1..Len(Schedule)
    /\ faults \in 0..MaxFaults

\* claim_batch_size bounds a cycle, and once a 429 or an outage has stopped claiming
\* only the one claim that was under way may still complete.
ClaimsStop == exec.claimed <= ClaimLimit /\ exec.late <= 1

\* No coroutine leaves a cycle with a claimed job: whatever stopped the cycle, a job
\* stays running only if the process died.
ClaimedIsExecuted ==
    \A c \in inflight : proc.pc = "cycle" /\ co[c.worker].pc \notin {"out", "top", "claim"}

\* However many coroutines a 429 hits in one cycle, they are one rate limit: record
\* _rate_limit, which escalates the cooldown each time, is called once.
OneLimitPerCycle == exec.records <= 1

\* A handler that goes on with output, or reports a rate limit, has its llm_runs row closed
\* accordingly, though another process may have failed the row as abandoned while the
\* request was out.
AnswerIsRecorded ==
    \A w \in Worker : \A s \in co[w].rows :
        /\ co[w].pc = "handling" => run[s] = "succeeded"
        /\ co[w].pc \in {"limited", "recording"} => run[s] = "failed"

\* A cycle ends, even while producers keep adding work: no coroutine waits for ever for
\* the claim lock, its namespace or the rate-limit lock, and the batch is bounded.
CycleEnds == proc.pc = "cycle" ~> proc.pc # "cycle"

\* The rotation is fair (docs/system/services/worker-ml.md): a job that can be claimed is
\* claimed in the end, in every namespace and at every place of the schedule, though
\* producers keep the types before it busy, once outages and deaths have stopped.
EligibleIsClaimed == \A j \in J!Job : J!Eligible(job[j]) ~> ~J!Eligible(job[j])
=============================================================================
