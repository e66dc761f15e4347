--------------------------- MODULE JobStoreProofs ---------------------------
(***************************************************************************)
(* Proofs about the job store, for any sets of jobs and workers, any       *)
(* attempt limit and any number of revisions.  Inv is inductive whether or *)
(* not handlers outlive their leases; LeaseInv adds what holds of the jobs *)
(* whose handlers have not.  From both follows that the store implements   *)
(* RevisionedWork.                                                         *)
(***************************************************************************)
EXTENDS JobStoreRefinement, TLAPS

(***************************************************************************)
(* A snapshot records a claim that really happened and is never ahead of   *)
(* the history, which is never ahead of the row; article jobs stay at      *)
(* their first revision.                                                   *)
(***************************************************************************)
SnapshotsBehind ==
    /\ \A c \in inflight : /\ c.attempt \in 1..MaxAttempts
                           /\ 1 <= c.revision
                           /\ c.revision <= ran[c.job]
    /\ \A j \in Job : 1 <= job[j].requested /\ ran[j] <= job[j].requested
    /\ \A j \in ArticleJob : job[j].requested = 1

Inv ==
    /\ TypeOK
    /\ AttemptBudget
    /\ NoLostRevision
    /\ NewRevisionHasBudget
    /\ SnapshotsBehind

(* What Inv says of one row, given the revisions handlers have started on. *)
RowInv(j, r, n) ==
    /\ r \in Row
    /\ r.attempt \in 0..MaxAttempts
    /\ r.status = "running" => r.attempt > 0
    /\ r.status = "succeeded" => r.completed = r.requested
    /\ (r.status = "queued" /\ r.requested > n) => r.attempt < MaxAttempts
    /\ 1 <= r.requested /\ n <= r.requested
    /\ j \in ArticleJob => r.requested = 1

USE JobAssumption, MaxAttemptsAssumption, MaxRevisionAssumption

-----------------------------------------------------------------------------
(* Rows.                                                                   *)

(* The columns of a row whose lease has been cleared.                      *)
LEMMA ReleasedRow ==
  ASSUME NEW r \in Row, NEW s \in {"absent", "queued", "running", "succeeded", "failed"},
         NEW a \in Int, NEW d \in BOOLEAN
  PROVE  /\ Released(r, s, a, d) \in Row
         /\ Released(r, s, a, d).status = s
         /\ Released(r, s, a, d).attempt = a
         /\ Released(r, s, a, d).requested = r.requested
         /\ Released(r, s, a, d).completed = r.completed
  BY DEF Released, Row

(* The types of the columns.                                               *)
LEMMA RowFields ==
  ASSUME NEW r \in Row
  PROVE  /\ r.attempt \in Int /\ r.requested \in Nat /\ r.completed \in Nat
         /\ r.due \in BOOLEAN /\ r.stale \in BOOLEAN
  BY DEF Row

(* Inv is the row invariant of every row together with the snapshots'.     *)
LEMMA InvByRows ==
  Inv <=> /\ job \in [Job -> Row]
          /\ inflight \subseteq ClaimedJob
          /\ ran \in [Job -> Nat]
          /\ overrun \subseteq Job
          /\ \A j \in Job : RowInv(j, job[j], ran[j])
          /\ \A c \in inflight : /\ c.attempt \in 1..MaxAttempts
                                 /\ 1 <= c.revision
                                 /\ c.revision <= ran[c.job]
  BY DEF Inv, TypeOK, AttemptBudget, NoLostRevision, NewRevisionHasBudget,
         SnapshotsBehind, RowInv, Job

(* A step that writes one row, ends at most some claims and leaves the     *)
(* history alone preserves Inv when the row it writes is a good one.       *)
LEMMA OneRowStep ==
  ASSUME Inv, NEW j \in Job, NEW q, RowInv(j, q, ran[j]),
         job' = [job EXCEPT ![j] = q], inflight' \subseteq inflight, ran' = ran,
         overrun' \subseteq Job
  PROVE  Inv'
  <1>1. /\ job' \in [Job -> Row]
        /\ \A k \in Job : RowInv(k, job'[k], ran'[k])
    BY InvByRows DEF RowInv
  <1> QED BY <1>1, InvByRows DEF Inv, TypeOK, AttemptBudget, NoLostRevision,
             NewRevisionHasBudget, SnapshotsBehind, RowInv, Job

(* Requeueing with a fresh budget is always good.                          *)
LEMMA RequeuedGood ==
  ASSUME NEW j \in Job, NEW r, NEW n \in Nat, RowInv(j, r, n)
  PROVE  RowInv(j, Requeued(r), n)
  BY DEF RowInv, Requeued, Released, Row

(* So is asking for a further revision of a case job.                      *)
LEMMA RequestedGood ==
  ASSUME Inv, NEW j \in CaseJob
  PROVE  RowInv(j, Requested(job[j]), ran[j])
  <1> DEFINE r == job[j]
  <1>1. j \in Job /\ RowInv(j, r, ran[j]) /\ r \in Row /\ j \notin ArticleJob /\ ran[j] \in Nat
    BY InvByRows DEF Job, RowInv
  <1>2. CASE r.status = "running"
    <2>1. [r EXCEPT !.requested = r.requested + 1] \in Row
      BY <1>1 DEF Row
    <2>2. /\ Requested(r) \in Row
          /\ Requested(r).status = "running"
          /\ Requested(r).attempt = r.attempt
          /\ Requested(r).requested = r.requested + 1
      BY <1>1, <1>2, <2>1 DEF Row, Requested
    <2> QED BY <1>1, <1>2, <2>2, RowFields DEF RowInv
  <1>3. CASE r.status # "running"
    <2>1. RowInv(j, Requeued(r), ran[j])
      BY <1>1, RequeuedGood
    <2>2. /\ Requeued(r).status = "queued" /\ Requeued(r).attempt = 0
          /\ Requeued(r).requested = r.requested /\ Requeued(r) \in Row
      BY <1>1 DEF Requeued, Released, Row
    <2>3. /\ Requested(r) \in Row
          /\ Requested(r).status = "queued"
          /\ Requested(r).attempt = 0
          /\ Requested(r).requested = r.requested + 1
      BY <1>1, <1>3, <2>2 DEF Row, Requested
    <2> QED BY <1>1, <2>3, RowFields DEF RowInv
  <1> QED BY <1>2, <1>3

-----------------------------------------------------------------------------
(* Reports.  Each lemma is about the row a report of snapshot c writes.    *)

LEMMA SnapshotFacts ==
  ASSUME Inv, NEW c \in inflight
  PROVE  /\ c.job \in Job /\ c.attempt \in 1..MaxAttempts /\ c.revision \in Nat
         /\ c.revision <= ran[c.job] /\ 1 <= c.revision
         /\ ran[c.job] \in Nat /\ job[c.job] \in Row /\ RowInv(c.job, job[c.job], ran[c.job])
         /\ c.job \in CaseJob \/ c.job \in ArticleJob
  BY InvByRows DEF ClaimedJob, Job

LEMMA CompletedGood ==
  ASSUME Inv, NEW c \in inflight
  PROVE  RowInv(c.job, Completed(job[c.job], c), ran[c.job])
  <1> DEFINE j == c.job
             r == job[j]
  <1>1. CASE Newer(r, c)
    <2>1. /\ RowInv(j, Requeued(r), ran[j]) /\ Requeued(r) \in Row
          /\ Requeued(r).status = "queued" /\ Requeued(r).attempt = 0
          /\ Requeued(r).requested = r.requested
      BY SnapshotFacts, RequeuedGood DEF Requeued, Released, Row
    <2>2. /\ Completed(r, c) \in Row
          /\ Completed(r, c).status = "queued"
          /\ Completed(r, c).attempt = 0
          /\ Completed(r, c).requested = r.requested
      BY <1>1, <2>1, SnapshotFacts DEF Completed, Row
    <2> QED BY <2>2, SnapshotFacts DEF RowInv
  <1>2. CASE ~Newer(r, c)
    <2> DEFINE p == Released(r, "succeeded", r.attempt, r.due)
               v == IF j \in CaseJob THEN c.revision ELSE r.requested
    <2>1. /\ p \in Row /\ p.status = "succeeded" /\ p.attempt = r.attempt
          /\ p.requested = r.requested
      BY SnapshotFacts DEF Released, Row
    <2>2. v = r.requested /\ v \in Nat
      BY <1>2, SnapshotFacts, RowFields DEF Newer, RowInv
    <2>3. Completed(r, c) = [p EXCEPT !.completed = v]
      BY <1>2 DEF Completed
    <2> HIDE DEF p, v
    <2>4. /\ Completed(r, c) \in Row
          /\ Completed(r, c).status = "succeeded"
          /\ Completed(r, c).attempt = r.attempt
          /\ Completed(r, c).requested = r.requested
          /\ Completed(r, c).completed = r.requested
      BY <2>1, <2>2, <2>3 DEF Row
    <2> QED BY <2>4, SnapshotFacts DEF RowInv
  <1> QED BY <1>1, <1>2

LEMMA FailedGood ==
  ASSUME Inv, NEW c \in inflight
  PROVE  RowInv(c.job, Failed(job[c.job], c), ran[c.job])
  <1> DEFINE j == c.job
             r == job[j]
  <1>1. CASE Newer(r, c)
    BY <1>1, SnapshotFacts, RequeuedGood DEF Failed
  <1>2. CASE ~Newer(r, c)
    <2>1. r.requested <= ran[j]
      BY <1>2, SnapshotFacts, RowFields DEF Newer, RowInv
    <2>2. PICK s \in {"queued", "failed"}, d \in BOOLEAN :
             Failed(r, c) = Released(r, s, r.attempt, d)
      BY <1>2, SnapshotFacts, RowFields DEF Failed
    <2> QED BY <2>1, <2>2, SnapshotFacts, RowFields, ReleasedRow DEF RowInv
  <1> QED BY <1>1, <1>2

LEMMA DeferredGood ==
  ASSUME Inv, NEW c \in inflight
  PROVE  RowInv(c.job, Deferred(job[c.job]), ran[c.job])
  <1> DEFINE j == c.job
             r == job[j]
  <1>1. CASE r.status = "running"
    <2>1. r.attempt - 1 \in 0..(MaxAttempts - 1)
      BY <1>1, SnapshotFacts DEF RowInv
    <2> QED BY <1>1, <2>1, SnapshotFacts DEF RowInv, Deferred, Released, Row
  <1>2. CASE r.status # "running"
    BY <1>2, SnapshotFacts DEF Deferred
  <1> QED BY <1>1, <1>2

LEMMA ReportStep ==
  ASSUME Inv, NEW c \in inflight, Report(c)
  PROVE  Inv'
  <1>1. CASE Complete(c)
    BY <1>1, SnapshotFacts, CompletedGood, OneRowStep, InvByRows DEF Complete
  <1>2. CASE Fail(c)
    BY <1>2, SnapshotFacts, FailedGood, OneRowStep, InvByRows DEF Fail
  <1>3. CASE Defer(c)
    BY <1>3, SnapshotFacts, DeferredGood, OneRowStep, InvByRows DEF Defer
  <1>4. CASE Crash(c)
    BY <1>4, InvByRows DEF Crash, Inv, TypeOK, AttemptBudget, NoLostRevision,
       NewRevisionHasBudget, SnapshotsBehind
  <1> QED BY <1>1, <1>2, <1>3, <1>4 DEF Report

-----------------------------------------------------------------------------
(* The other actions.                                                      *)

LEMMA ProduceStep ==
  ASSUME Inv, Produce
  PROVE  Inv'
  <1>1. ASSUME NEW j \in Job, UNCHANGED <<inflight, ran, overrun>>,
               job' = [job EXCEPT ![j] = Requeued(job[j])]
        PROVE  Inv'
    BY <1>1, InvByRows, RequeuedGood, OneRowStep
  <1>2. ASSUME NEW j \in CaseJob, RequestCaseJob(j)
        PROVE  Inv'
    <2>1. CASE job[j].status = "absent"
      BY <1>1, <1>2, <2>1 DEF RequestCaseJob, Job
    <2>2. CASE job[j].status # "absent"
      BY <1>2, <2>2, RequestedGood, OneRowStep, InvByRows DEF RequestCaseJob, Job
    <2> QED BY <2>1, <2>2
  <1>3. ASSUME NEW j \in Job,
               \/ EnqueueArticleJob(j) \/ ResetUnconnectedJob(j)
               \/ EnsureCaseJob(j) \/ RecoverFailedJob(j)
        PROVE  Inv'
    BY <1>1, <1>3 DEF EnqueueArticleJob, ResetUnconnectedJob, EnsureCaseJob, RecoverFailedJob
  <1> QED BY <1>2, <1>3 DEF Produce, Job

LEMMA ClaimStep ==
  ASSUME Inv, NEW w \in Worker, NEW j \in Job, Claim(w, j)
  PROVE  Inv'
  <1> DEFINE r == job[j]
             c == [worker |-> w, job |-> j, attempt |-> r.attempt + 1, revision |-> r.requested]
             q == Released(r, "running", r.attempt + 1, r.due)
  <1>1. /\ r \in Row /\ RowInv(j, r, ran[j]) /\ ran[j] \in Nat
        /\ r.attempt \in 0..(MaxAttempts - 1)
    BY InvByRows DEF Claim, Eligible, RowInv
  <1>2. /\ q \in Row /\ q.status = "running" /\ q.attempt = r.attempt + 1
        /\ q.requested = r.requested
    BY <1>1, RowFields, ReleasedRow
  <1>3. /\ c \in ClaimedJob /\ c.job = j
        /\ c.attempt \in 1..MaxAttempts /\ c.revision = r.requested
    BY <1>1, RowFields DEF ClaimedJob
  <1>4. /\ job' = [job EXCEPT ![j] = q]
        /\ inflight' = inflight \cup {c}
        /\ ran' = [ran EXCEPT ![j] = r.requested]
        /\ overrun' = overrun
    BY DEF Claim
  <1>5. r.requested \in Nat /\ 1 <= r.requested /\ ran[j] <= r.requested
    BY <1>1, RowFields DEF RowInv
  <1> HIDE DEF c, q
  <1>6. /\ job' \in [Job -> Row] /\ inflight' \subseteq ClaimedJob /\ ran' \in [Job -> Nat]
        /\ overrun' \subseteq Job
    BY <1>2, <1>3, <1>4, <1>5, InvByRows
  <1>7. \A k \in Job : RowInv(k, job'[k], ran'[k])
    BY <1>1, <1>2, <1>4, <1>5, InvByRows DEF RowInv
  <1>8. \A d \in inflight' : /\ d.attempt \in 1..MaxAttempts
                             /\ 1 <= d.revision
                             /\ d.revision <= ran'[d.job]
    <2>1. \A d \in inflight : d.job \in Job /\ d.revision \in Nat
      BY InvByRows DEF ClaimedJob
    <2> QED BY <1>3, <1>4, <1>5, <2>1, InvByRows
  <1> QED BY <1>6, <1>7, <1>8 DEF Inv, TypeOK, AttemptBudget, NoLostRevision,
             NewRevisionHasBudget, SnapshotsBehind, RowInv, Job

LEMMA ClockStep ==
  ASSUME Inv, Clock
  PROVE  Inv'
  <1>1. PICK j \in Job : RunAfterArrives(j) \/ LeaseExpires(j)
    BY DEF Clock
  <1>2. RowInv(j, job[j], ran[j]) /\ job[j] \in Row
    BY InvByRows
  <1>3. RowInv(j, [job[j] EXCEPT !.due = TRUE], ran[j])
    BY <1>2 DEF RowInv, Row
  <1>4. RowInv(j, [job[j] EXCEPT !.stale = TRUE], ran[j])
    BY <1>2 DEF RowInv, Row
  <1>5. /\ inflight' = inflight /\ ran' = ran /\ overrun' \subseteq Job
        /\ \/ job' = [job EXCEPT ![j] = [job[j] EXCEPT !.due = TRUE]]
           \/ job' = [job EXCEPT ![j] = [job[j] EXCEPT !.stale = TRUE]]
    BY <1>1, InvByRows DEF RunAfterArrives, LeaseExpires
  <1> QED BY <1>3, <1>4, <1>5, OneRowStep

LEMMA InitInv == Init => Inv
  BY DEF Init, Inv, TypeOK, Row, ClaimedJob, Job, AttemptBudget, NoLostRevision,
         NewRevisionHasBudget, SnapshotsBehind

LEMMA NextInv == Inv /\ [Next]_vars => Inv'
  <1> SUFFICES ASSUME Inv, [Next]_vars PROVE Inv'
    OBVIOUS
  <1>1. CASE Produce
    BY <1>1, ProduceStep
  <1>2. ASSUME NEW w \in Worker, NEW j \in Job, Claim(w, j) PROVE Inv'
    BY <1>2, ClaimStep
  <1>3. ASSUME NEW c \in inflight, Report(c) PROVE Inv'
    BY <1>3, ReportStep
  <1>4. CASE Clock
    BY <1>4, ClockStep
  <1>5. CASE UNCHANGED vars
    BY <1>5 DEF vars, Inv, TypeOK, AttemptBudget, NoLostRevision, NewRevisionHasBudget,
       SnapshotsBehind
  <1> QED BY <1>1, <1>2, <1>3, <1>4, <1>5 DEF Next

(* Every row, snapshot and history entry keeps its type.                   *)
THEOREM TypeCorrect == Spec => []TypeOK
  BY InitInv, NextInv, PTL DEF Spec, Inv

(* The attempt counter stays within its budget under every interleaving of *)
(* claims, late reports, crashes and new requests.                         *)
THEOREM AttemptBudgetHolds == Spec => []AttemptBudget
  BY InitInv, NextInv, PTL DEF Spec, Inv

(* A succeeded row has processed the newest revision requested of it.      *)
THEOREM NoLostRevisionHolds == Spec => []NoLostRevision
  BY InitInv, NextInv, PTL DEF Spec, Inv

(* A queued revision no handler has started on has attempts left.          *)
THEOREM NewRevisionHasBudgetHolds == Spec => []NewRevisionHasBudget
  BY InitInv, NextInv, PTL DEF Spec, Inv

-----------------------------------------------------------------------------
(***************************************************************************)
(* Jobs whose handlers have reported within their leases.  A live snapshot *)
(* then owns its row, it is the latest claim of its job, and the completed *)
(* revision never passes the latest one started on.                        *)
(***************************************************************************)
Owned(c) ==
    /\ job[c.job].status = "running"
    /\ ~job[c.job].stale
    /\ job[c.job].attempt = c.attempt
    /\ c.revision = ran[c.job]
    /\ \A d \in inflight : d.job = c.job => d = c

LeaseInv ==
    /\ Inv
    /\ \A c \in inflight : c.job \notin overrun => Owned(c)
    /\ \A j \in Job \ overrun :
           /\ job[j].status = "failed" => job[j].attempt >= MaxAttempts
           /\ job[j].completed <= ran[j]

(* What SuccessIsKept says of one step.                                    *)
KeepsSuccess ==
    \A j \in Job \ overrun :
        /\ job'[j].completed >= job[j].completed
        /\ (job[j].status = "succeeded" /\ job'[j].status # "succeeded")
               => (job'[j].status = "queued" /\ job'[j].attempt = 0)

LEMMA LeaseReport ==
  ASSUME LeaseInv, NEW c \in inflight, Report(c)
  PROVE  LeaseInv' /\ KeepsSuccess
  <1> DEFINE j == c.job
             r == job[j]
  <1>1. Inv /\ Inv'
    BY ReportStep DEF LeaseInv
  <1>2. /\ j \in Job /\ r \in Row /\ job \in [Job -> Row]
        /\ r.completed \in Nat /\ c.revision \in Nat
    BY <1>1, SnapshotFacts, InvByRows, RowFields
  <1>3. /\ job' = [job EXCEPT ![j] = job'[j]]
        /\ inflight' = inflight \ {c} /\ ran' = ran /\ overrun' = overrun
    BY <1>2 DEF Report, Complete, Fail, Defer, Crash
  <1>4. ASSUME j \notin overrun
        PROVE  /\ r.status = "running"
               /\ job'[j].status = "failed" => job'[j].attempt >= MaxAttempts
               /\ job'[j].completed <= ran[j] /\ job'[j].completed >= r.completed
    <2>0. /\ r.status = "running" /\ r.attempt = c.attempt
          /\ c.revision = ran[j] /\ r.completed <= ran[j]
      BY <1>2, <1>4 DEF LeaseInv, Owned
    <2>1. CASE Complete(c)
      <3>1. job'[j] = Completed(r, c)
        BY <1>2, <2>1 DEF Complete
      <3>2. /\ Completed(r, c).status # "failed"
            /\ Completed(r, c).completed = c.revision
        <4>1. CASE Newer(r, c)
          BY <1>2, <4>1 DEF Completed, Requeued, Released, Row
        <4>2. CASE ~Newer(r, c)
          BY <1>1, <1>2, <2>0, <4>2, SnapshotFacts DEF Completed, Released, Row, RowInv
        <4> QED BY <4>1, <4>2
      <3> QED BY <1>2, <2>0, <3>1, <3>2
    <2>2. CASE Fail(c)
      <3>1. job'[j] = Failed(r, c)
        BY <1>2, <2>2 DEF Fail
      <3>2. /\ Failed(r, c).status = "failed" => Failed(r, c).attempt >= MaxAttempts
            /\ Failed(r, c).completed = r.completed
        BY <1>2, <2>0 DEF Failed, Requeued, Released, Row
      <3> QED BY <1>2, <2>0, <3>1, <3>2
    <2>3. CASE Defer(c)
      <3>1. job'[j] = Deferred(r)
        BY <1>2, <2>3 DEF Defer
      <3>2. Deferred(r).status # "failed" /\ Deferred(r).completed = r.completed
        BY <1>2, <2>0 DEF Deferred, Released, Row
      <3> QED BY <1>2, <2>0, <3>1, <3>2
    <2>4. CASE Crash(c)
      BY <1>2, <2>0, <2>4, RowFields DEF Crash
    <2> QED BY <2>1, <2>2, <2>3, <2>4 DEF Report
  <1>5. ASSUME NEW d \in inflight', d.job \notin overrun'
        PROVE  Owned(d)'
    <2>1. d \in inflight /\ d # c /\ d.job \in Job /\ Owned(d)
      BY <1>1, <1>3, <1>5, SnapshotFacts DEF LeaseInv
    <2>2. d.job # j
      BY <2>1, <1>3, <1>5 DEF LeaseInv, Owned
    <2> QED BY <1>2, <1>3, <2>1, <2>2 DEF Owned
  <1>6. \A k \in Job \ overrun' :
           /\ job'[k].status = "failed" => job'[k].attempt >= MaxAttempts
           /\ job'[k].completed <= ran'[k]
    BY <1>2, <1>3, <1>4 DEF LeaseInv
  <1>7. KeepsSuccess
    BY <1>2, <1>3, <1>4, RowFields DEF KeepsSuccess
  <1> QED BY <1>1, <1>5, <1>6, <1>7 DEF LeaseInv

LEMMA LeaseProduce ==
  ASSUME LeaseInv, Produce
  PROVE  LeaseInv' /\ KeepsSuccess
  <1>1. Inv /\ Inv'
    BY ProduceStep DEF LeaseInv
  <1>2. PICK j \in Job :
          /\ job' = [job EXCEPT ![j] = job'[j]]
          /\ UNCHANGED <<inflight, ran, overrun>>
          /\ job'[j].completed = job[j].completed
          /\ \/ job[j].status # "running" /\ job'[j].status = "queued" /\ job'[j].attempt = 0
             \/ /\ job[j].status = "running" /\ job'[j].status = "running"
                /\ job'[j].stale = job[j].stale /\ job'[j].attempt = job[j].attempt
    <2>1. job \in [Job -> Row]
      BY <1>1, InvByRows
    <2>2. ASSUME NEW j \in Job, job[j].status # "running", UNCHANGED <<inflight, ran, overrun>>,
                 job' = [job EXCEPT ![j] = Requeued(job[j])]
          PROVE  /\ job' = [job EXCEPT ![j] = job'[j]]
                 /\ job'[j].completed = job[j].completed
                 /\ job'[j].status = "queued" /\ job'[j].attempt = 0
      BY <2>1, <2>2 DEF Requeued, Released
    <2>3. ASSUME NEW j \in Job, job[j].status = "running", UNCHANGED <<inflight, ran, overrun>>,
                 job' = [job EXCEPT ![j] = Requested(job[j])]
          PROVE  /\ job' = [job EXCEPT ![j] = job'[j]]
                 /\ job'[j].completed = job[j].completed /\ job'[j].status = "running"
                 /\ job'[j].stale = job[j].stale /\ job'[j].attempt = job[j].attempt
      BY <2>1, <2>3 DEF Requested, Row
    <2>4. ASSUME NEW j \in Job, job[j].status # "running", UNCHANGED <<inflight, ran, overrun>>,
                 job' = [job EXCEPT ![j] = Requested(job[j])]
          PROVE  /\ job' = [job EXCEPT ![j] = job'[j]]
                 /\ job'[j].completed = job[j].completed
                 /\ job'[j].status = "queued" /\ job'[j].attempt = 0
      BY <2>1, <2>4 DEF Requested, Requeued, Released, Row
    <2>5. CASE \E j \in CaseJob : RequestCaseJob(j)
      <3>1. PICK j \in CaseJob : RequestCaseJob(j)
        BY <2>5
      <3>2. CASE job[j].status = "absent"
        BY <2>2, <3>1, <3>2 DEF RequestCaseJob, Job
      <3>3. CASE job[j].status # "absent"
        BY <2>3, <2>4, <3>1, <3>3 DEF RequestCaseJob, Job
      <3> QED BY <3>2, <3>3
    <2>6. CASE \E j \in Job : \/ EnqueueArticleJob(j) \/ ResetUnconnectedJob(j)
                              \/ EnsureCaseJob(j) \/ RecoverFailedJob(j)
      BY <2>2, <2>6 DEF EnqueueArticleJob, ResetUnconnectedJob, EnsureCaseJob, RecoverFailedJob
    <2> QED BY <2>5, <2>6 DEF Produce, Job
  <1>3. job \in [Job -> Row] /\ \A c \in inflight : c.job \in Job
    BY <1>1, InvByRows, SnapshotFacts
  <1>4. \A c \in inflight' : c.job \notin overrun' => Owned(c)'
    BY <1>2, <1>3 DEF LeaseInv, Owned
  <1>5. \A k \in Job \ overrun' :
           /\ job'[k].status = "failed" => job'[k].attempt >= MaxAttempts
           /\ job'[k].completed <= ran'[k]
    BY <1>2, <1>3 DEF LeaseInv
  <1>6. KeepsSuccess
    BY <1>2, <1>3, RowFields DEF KeepsSuccess
  <1> QED BY <1>1, <1>4, <1>5, <1>6 DEF LeaseInv

LEMMA LeaseClaim ==
  ASSUME LeaseInv, NEW w \in Worker, NEW j \in Job, Claim(w, j)
  PROVE  LeaseInv' /\ KeepsSuccess
  <1> DEFINE r == job[j]
             c == [worker |-> w, job |-> j, attempt |-> r.attempt + 1, revision |-> r.requested]
             q == Released(r, "running", r.attempt + 1, r.due)
  <1>1. Inv /\ Inv'
    BY ClaimStep DEF LeaseInv
  <1>2. /\ job \in [Job -> Row] /\ r \in Row /\ ran \in [Job -> Nat]
        /\ ran[j] <= r.requested /\ (j \notin overrun => r.completed <= ran[j])
        /\ \A d \in inflight : d.job \in Job
    BY <1>1, InvByRows, SnapshotFacts DEF LeaseInv, RowInv
  <1>3. /\ job' = [job EXCEPT ![j] = q]
        /\ inflight' = inflight \cup {c}
        /\ ran' = [ran EXCEPT ![j] = r.requested]
        /\ overrun' = overrun
    BY DEF Claim
  <1>4. /\ q.status = "running" /\ q.stale = FALSE /\ q.attempt = r.attempt + 1
        /\ q.completed = r.completed
        /\ c.job = j /\ c.attempt = r.attempt + 1 /\ c.revision = r.requested
    BY DEF Released
  <1>5. /\ r.status # "succeeded"
        /\ j \notin overrun => \A d \in inflight : d.job # j
    BY DEF Claim, Eligible, LeaseInv, Owned
  <1> HIDE DEF c, q
  <1>6. \A d \in inflight' : d.job \notin overrun' => Owned(d)'
    BY <1>2, <1>3, <1>4, <1>5 DEF LeaseInv, Owned
  <1>7. \A k \in Job \ overrun' :
           /\ job'[k].status = "failed" => job'[k].attempt >= MaxAttempts
           /\ job'[k].completed <= ran'[k]
    BY <1>2, <1>3, <1>4, RowFields DEF LeaseInv
  <1>8. KeepsSuccess
    BY <1>2, <1>3, <1>4, <1>5, RowFields DEF KeepsSuccess
  <1> QED BY <1>1, <1>6, <1>7, <1>8 DEF LeaseInv

LEMMA LeaseClock ==
  ASSUME LeaseInv, Clock
  PROVE  LeaseInv' /\ KeepsSuccess
  <1>1. Inv /\ Inv'
    BY ClockStep DEF LeaseInv
  <1>2. /\ job \in [Job -> Row] /\ \A d \in inflight : d.job \in Job
    BY <1>1, InvByRows, SnapshotFacts
  <1>3. PICK j \in Job : RunAfterArrives(j) \/ LeaseExpires(j)
    BY DEF Clock
  <1>4. /\ job' = [job EXCEPT ![j] = job'[j]] /\ UNCHANGED <<inflight, ran>>
        /\ overrun \subseteq overrun'
        /\ job'[j].status = job[j].status /\ job'[j].attempt = job[j].attempt
        /\ job'[j].completed = job[j].completed
        /\ job'[j].stale = job[j].stale \/ j \in overrun' \/ \A d \in inflight : d.job # j
    BY <1>2, <1>3 DEF RunAfterArrives, LeaseExpires, Row
  <1>5. \A d \in inflight' : d.job \notin overrun' => Owned(d)'
    BY <1>2, <1>4 DEF LeaseInv, Owned
  <1>6. \A k \in Job \ overrun' :
           /\ job'[k].status = "failed" => job'[k].attempt >= MaxAttempts
           /\ job'[k].completed <= ran'[k]
    BY <1>2, <1>4 DEF LeaseInv
  <1>7. KeepsSuccess
    BY <1>2, <1>4, RowFields DEF KeepsSuccess
  <1> QED BY <1>1, <1>5, <1>6, <1>7 DEF LeaseInv

LEMMA InitLease == Init => LeaseInv
  BY InitInv DEF Init, LeaseInv, Job

LEMMA NextLease == LeaseInv /\ [Next]_vars => LeaseInv' /\ [KeepsSuccess]_vars
  <1> SUFFICES ASSUME LeaseInv, [Next]_vars
               PROVE  LeaseInv' /\ [KeepsSuccess]_vars
    OBVIOUS
  <1>1. CASE Produce
    BY <1>1, LeaseProduce
  <1>2. ASSUME NEW w \in Worker, NEW j \in Job, Claim(w, j)
        PROVE  LeaseInv' /\ KeepsSuccess
    BY <1>2, LeaseClaim
  <1>3. ASSUME NEW c \in inflight, Report(c)
        PROVE  LeaseInv' /\ KeepsSuccess
    BY <1>3, LeaseReport
  <1>4. CASE Clock
    BY <1>4, LeaseClock
  <1>5. CASE UNCHANGED vars
    <2>1. Inv'
      BY <1>5, NextInv DEF LeaseInv
    <2> QED BY <1>5, <2>1 DEF vars, LeaseInv, Owned
  <1> QED BY <1>1, <1>2, <1>3, <1>4, <1>5 DEF Next

LEMMA LeaseInvHolds == Spec => []LeaseInv
  BY InitLease, NextLease, PTL DEF Spec

(* While its handlers report within their leases, no two live workers hold *)
(* a job, and its row is as its holder's claim left it.                    *)
THEOREM ExclusiveLeaseHolds == Spec => []ExclusiveLease
  <1>1. LeaseInv => ExclusiveLease
    BY DEF LeaseInv, Owned, ExclusiveLease
  <1> QED BY <1>1, LeaseInvHolds, PTL

(* While its handlers report within their leases, a job that has failed is *)
(* one the recovery script selects.                                        *)
THEOREM FailedIsRecoverableHolds == Spec => []FailedIsRecoverable
  <1>1. LeaseInv => FailedIsRecoverable
    BY DEF LeaseInv, FailedIsRecoverable
  <1> QED BY <1>1, LeaseInvHolds, PTL

(* While its handlers report within their leases, the success of a job is  *)
(* undone only by a producer, with a fresh budget, and completed_revision  *)
(* never goes back.                                                        *)
THEOREM SuccessIsKeptHolds == Spec => SuccessIsKept
  <1>1. LeaseInv /\ [Next]_vars => [KeepsSuccess]_vars
    BY NextLease
  <1> QED BY <1>1, LeaseInvHolds, PTL DEF Spec, SuccessIsKept, KeepsSuccess

-----------------------------------------------------------------------------
(***************************************************************************)
(* The job store implements RevisionedWork.  The reports of a handler      *)
(* within its lease need LeaseInv: its snapshot is the row's latest claim. *)
(* Those of a late handler need only that a row, once claimed, exists.     *)
(***************************************************************************)

(* A row that a handler holds a snapshot of exists.                        *)
Present == \A c \in inflight : job[c.job].status # "absent"

RefInv == LeaseInv /\ Present

(* The abstract state of one row.                                          *)
WorkRow(phase, asked, answered, tries) ==
    [phase |-> phase, asked |-> asked, answered |-> answered, tries |-> tries]

Image(r) == WorkRow(Phase(r.status), r.requested, r.completed, r.attempt)

-----------------------------------------------------------------------------
(* The abstraction of rows.                                                *)

LEMMA Phases ==
  /\ Phase("absent") = "none" /\ Phase("queued") = "waiting" /\ Phase("running") = "started"
  /\ Phase("succeeded") = "done" /\ Phase("failed") = "dropped"
  BY DEF Phase

LEMMA ImageFields ==
  ASSUME NEW r
  PROVE  /\ Image(r).phase = Phase(r.status) /\ Image(r).asked = r.requested
         /\ Image(r).answered = r.completed /\ Image(r).tries = r.attempt
  BY DEF Image, WorkRow

LEMMA WorkOf == ASSUME NEW j \in Job PROVE Work[j] = Image(job[j])
  BY DEF Work, Image, WorkRow

(* Abstract states that differ in one field.                               *)
InPhase(w, phase) == [w EXCEPT !.phase = phase]
WithAnswer(w, revision) == [w EXCEPT !.answered = revision]
WithTries(w, n) == [w EXCEPT !.tries = n]
Unspent(w) == R!Fresh(w)
Renewed(w) == R!Renewed(w)

LEMMA WorkRowExcept ==
  ASSUME NEW p, NEW a, NEW b, NEW n
  PROVE  /\ \A x : /\ InPhase(WorkRow(p, a, b, n), x) = WorkRow(x, a, b, n)
                   /\ WithAnswer(WorkRow(p, a, b, n), x) = WorkRow(p, a, x, n)
                   /\ WithTries(WorkRow(p, a, b, n), x) = WorkRow(p, a, b, x)
         /\ Unspent(WorkRow(p, a, b, n)) = WorkRow(p, a, b, 0)
         /\ Renewed(WorkRow(p, a, b, n)) = WorkRow(p, a + 1, b, n)
  BY DEF WorkRow, R!Fresh, R!Renewed, Unspent, Renewed, InPhase, WithAnswer, WithTries

(* Writing one row writes the work of one job.                             *)
LEMMA OneWork ==
  ASSUME job \in [Job -> Row], NEW j \in Job, NEW q, job' = [job EXCEPT ![j] = q]
  PROVE  Work' = [Work EXCEPT ![j] = Image(q)]
  BY DEF Work, Image, WorkRow

(* A row that differs in its status and a few columns is what Becomes says.*)
LEMMA BecomesRow ==
  ASSUME job \in [Job -> Row], NEW j \in Job, NEW q, job' = [job EXCEPT ![j] = q],
         UNCHANGED <<ran, overrun>>,
         NEW w, NEW phase, Image(q) = InPhase(w, phase)
  PROVE  R!Becomes(j, w, phase)
  BY OneWork DEF R!Becomes, InPhase

(* What each row transformer does to the abstract state.                   *)
LEMMA RequeuedImage ==
  ASSUME NEW r \in Row
  PROVE  Image(Requeued(r)) = InPhase(Unspent(Image(r)), "waiting")
  BY Phases, WorkRowExcept DEF Image, Requeued, Released

LEMMA RequestedImage ==
  ASSUME NEW r \in Row
  PROVE  /\ r.status = "running" =>
               Image(Requested(r)) = InPhase(Renewed(Image(r)), "started")
         /\ r.status # "running" =>
               Image(Requested(r)) = InPhase(Unspent(Renewed(Image(r))), "waiting")
  <1>1. CASE r.status = "running"
    <2>1. /\ Requested(r).status = "running" /\ Requested(r).requested = r.requested + 1
          /\ Requested(r).completed = r.completed /\ Requested(r).attempt = r.attempt
      BY <1>1 DEF Requested, Row
    <2> QED BY <1>1, <2>1, Phases, WorkRowExcept DEF Image
  <1>2. CASE r.status # "running"
    <2>1. /\ Requested(r).status = "queued" /\ Requested(r).requested = r.requested + 1
          /\ Requested(r).completed = r.completed /\ Requested(r).attempt = 0
      BY <1>2 DEF Requested, Requeued, Released, Row
    <2> QED BY <1>2, <2>1, Phases, WorkRowExcept DEF Image
  <1> QED BY <1>1, <1>2

LEMMA CompletedImage ==
  ASSUME Inv, NEW c \in inflight
  PROVE  LET r == job[c.job]
             w == WithAnswer(Image(r), c.revision)
         IN  /\ c.revision \in 1..r.requested
             /\ Image(Completed(r, c)) =
                    IF c.revision = r.requested THEN InPhase(w, "done")
                    ELSE InPhase(Unspent(w), "waiting")
             /\ Completed(r, c).status # "absent"
  <1> DEFINE r == job[c.job]
             w == WithAnswer(Image(r), c.revision)
  <1>1. /\ r \in Row /\ c.revision \in 1..r.requested
        /\ Newer(r, c) <=> c.revision # r.requested
        /\ (IF c.job \in CaseJob THEN c.revision ELSE r.requested) =
               (IF Newer(r, c) THEN (IF c.job \in CaseJob THEN c.revision ELSE r.requested)
                ELSE c.revision)
    BY SnapshotFacts, RowFields DEF Newer, RowInv
  <1>2. CASE Newer(r, c)
    <2>1. /\ Completed(r, c).status = "queued" /\ Completed(r, c).requested = r.requested
          /\ Completed(r, c).completed = c.revision /\ Completed(r, c).attempt = 0
      BY <1>2 DEF Completed, Requeued, Released
    <2>2. Image(Completed(r, c)) = InPhase(Unspent(w), "waiting")
      BY <2>1, Phases, WorkRowExcept DEF Image
    <2> QED BY <1>1, <1>2, <2>1, <2>2
  <1>3. CASE ~Newer(r, c)
    <2>1. /\ Completed(r, c).status = "succeeded" /\ Completed(r, c).requested = r.requested
          /\ Completed(r, c).completed = c.revision /\ Completed(r, c).attempt = r.attempt
      BY <1>1, <1>3 DEF Completed, Released
    <2>2. Image(Completed(r, c)) = InPhase(w, "done")
      BY <2>1, Phases, WorkRowExcept DEF Image
    <2> QED BY <1>1, <1>3, <2>1, <2>2
  <1> QED BY <1>2, <1>3

LEMMA FailedImage ==
  ASSUME NEW r \in Row, NEW c
  PROVE  /\ Image(Failed(r, c)) =
                IF Newer(r, c) THEN InPhase(Unspent(Image(r)), "waiting")
                ELSE InPhase(Image(r), IF c.attempt >= MaxAttempts THEN "dropped" ELSE "waiting")
         /\ Failed(r, c).status # "absent"
  <1>1. CASE Newer(r, c)
    BY <1>1, RequeuedImage DEF Failed, Requeued, Released
  <1>2. CASE ~Newer(r, c)
    BY <1>2, Phases, WorkRowExcept DEF Image, Failed, Released
  <1> QED BY <1>1, <1>2

-----------------------------------------------------------------------------
(* Steps.                                                                  *)

LEMMA ProduceRefines ==
  ASSUME Inv, Produce
  PROVE  R!Next
  <1>0. job \in [Job -> Row]
    BY InvByRows
  <1>1. ASSUME NEW j \in Job, job[j].status \in {"absent", "succeeded", "failed"},
               UNCHANGED <<ran, overrun>>, job' = [job EXCEPT ![j] = Requeued(job[j])]
        PROVE  R!Ask(j)
    <2>1. Work[j] = Image(job[j]) /\ Work[j].phase \in {"none", "done", "dropped"}
      BY <1>1, WorkOf, ImageFields, Phases
    <2>2. R!Becomes(j, Unspent(Work[j]), "waiting")
      BY <1>0, <1>1, <2>1, RequeuedImage, BecomesRow
    <2> QED BY <2>1, <2>2 DEF R!Ask, Unspent
  <1>2. ASSUME NEW j \in Job, job[j].status # "absent", UNCHANGED <<ran, overrun>>,
               job' = [job EXCEPT ![j] = Requested(job[j])]
        PROVE  R!Ask(j) \/ R!Renew(j)
    <2>1. Work[j] = Image(job[j]) /\ Work[j].phase = Phase(job[j].status) /\ job[j] \in Row
      BY <1>0, WorkOf, ImageFields
    <2>2. CASE job[j].status = "running"
      <3>1. R!Becomes(j, Renewed(Work[j]), "started")
        BY <1>0, <1>2, <2>1, <2>2, RequestedImage, BecomesRow
      <3> QED BY <2>1, <2>2, <3>1, Phases DEF R!Renew, Unspent, Renewed
    <2>3. CASE job[j].status # "running"
      <3>1. R!Becomes(j, Unspent(Renewed(Work[j])), "waiting")
        BY <1>0, <1>2, <2>1, <2>3, RequestedImage, BecomesRow
      <3>2. job[j].status \in {"queued", "succeeded", "failed"}
        BY <1>2, <2>1, <2>3 DEF Row
      <3> QED BY <2>1, <3>1, <3>2, Phases DEF R!Renew, R!Ask, Unspent, Renewed
    <2> QED BY <2>2, <2>3
  <1>3. PICK j \in Job :
          \/ EnqueueArticleJob(j) \/ ResetUnconnectedJob(j)
          \/ (j \in CaseJob /\ RequestCaseJob(j))
          \/ EnsureCaseJob(j) \/ RecoverFailedJob(j)
    BY DEF Produce, Job
  <1>4. CASE RequestCaseJob(j)
    BY <1>1, <1>2, <1>4 DEF RequestCaseJob, R!Next
  <1>5. CASE ~RequestCaseJob(j)
    BY <1>1, <1>3, <1>5 DEF EnqueueArticleJob, ResetUnconnectedJob, EnsureCaseJob,
       RecoverFailedJob, R!Next
  <1> QED BY <1>4, <1>5

LEMMA ClaimRefines ==
  ASSUME Inv, NEW w \in Worker, NEW j \in Job, Claim(w, j)
  PROVE  R!Next
  <1> DEFINE r == job[j]
             q == Released(r, "running", r.attempt + 1, r.due)
  <1>1. job \in [Job -> Row] /\ r \in Row /\ Work[j] = Image(r)
    BY InvByRows, WorkOf
  <1>2. /\ Work[j].phase \in {"waiting", "started"} /\ Work[j].tries < MaxAttempts
        /\ Work[j].asked = r.requested
    BY <1>1, ImageFields, Phases DEF Claim, Eligible
  <1>3. Image(q) = WithTries(InPhase(Image(r), "started"), r.attempt + 1)
    BY Phases, WorkRowExcept DEF Image, Released
  <1>4. job' = [job EXCEPT ![j] = q] /\ ran' = [ran EXCEPT ![j] = r.requested] /\ overrun' = overrun
    BY DEF Claim
  <1> HIDE DEF q
  <1>5. Work' = [Work EXCEPT ![j] = Image(q)]
    BY <1>1, <1>4, OneWork
  <1>6. Work' = [Work EXCEPT ![j].phase = "started", ![j].tries = Work[j].tries + 1]
    <2>1. Work[j].tries = r.attempt /\ j \in DOMAIN Work
      BY <1>1, ImageFields DEF Work
    <2> QED BY <1>1, <1>3, <1>5, <2>1 DEF InPhase, WithTries
  <1>7. R!Start(j)
    BY <1>2, <1>4, <1>6 DEF R!Start
  <1> QED BY <1>7 DEF R!Next

(* The report of a handler within its lease finds the row as its claim     *)
(* left it.                                                                *)
LEMMA OwnedFacts ==
  ASSUME LeaseInv, NEW c \in inflight, c.job \notin overrun
  PROVE  LET j == c.job IN
         /\ Work[j].phase = "started" /\ Work[j].tries = c.attempt
         /\ ran[j] = c.revision /\ Work[j].asked = job[j].requested
         /\ Newer(job[j], c) <=> ran[j] < Work[j].asked
  <1> DEFINE j == c.job
  <1>1. /\ j \in Job /\ job[j] \in Row /\ c.revision \in 1..job[j].requested
        /\ j \in CaseJob \/ job[j].requested = 1
    BY SnapshotFacts, RowFields DEF LeaseInv, RowInv
  <1>2. job[j].status = "running" /\ job[j].attempt = c.attempt /\ c.revision = ran[j]
    BY DEF LeaseInv, Owned
  <1>3. /\ Work[j].phase = "started" /\ Work[j].tries = c.attempt
        /\ Work[j].asked = job[j].requested
    BY <1>1, <1>2, WorkOf, ImageFields, Phases
  <1> QED BY <1>1, <1>2, <1>3, RowFields DEF Newer

LEMMA PhaseIsNone ==
  ASSUME NEW r \in Row, r.status # "absent"
  PROVE  Phase(r.status) # "none"
  BY Phases DEF Row

LEMMA CompleteRefines ==
  ASSUME RefInv, NEW c \in inflight, Complete(c)
  PROVE  R!Next
  <1> DEFINE j == c.job
             r == job[j]
             q == Completed(r, c)
             w == WithAnswer(Work[j], c.revision)
  <1>1. /\ Inv /\ LeaseInv /\ j \in Job /\ r \in Row /\ job \in [Job -> Row]
        /\ Work[j] = Image(r) /\ w.asked = r.requested
    <2>1. /\ Inv /\ LeaseInv /\ j \in Job /\ r \in Row /\ job \in [Job -> Row]
          /\ Work[j] = Image(r)
      BY SnapshotFacts, InvByRows, WorkOf DEF RefInv, LeaseInv
    <2>2. w = WorkRow(Phase(r.status), r.requested, c.revision, r.attempt)
      BY <2>1, WorkRowExcept DEF Image
    <2> QED BY <2>1, <2>2 DEF WorkRow
  <1>2. job' = [job EXCEPT ![j] = q] /\ UNCHANGED <<ran, overrun>>
    BY DEF Complete
  <1>3. /\ c.revision \in 1..r.requested
        /\ Image(q) = IF c.revision = r.requested THEN InPhase(w, "done")
                      ELSE InPhase(Unspent(w), "waiting")
    BY <1>1, CompletedImage
  <1> HIDE DEF q, w
  <1>4. IF c.revision = w.asked THEN R!Becomes(j, w, "done") ELSE R!Becomes(j, Unspent(w), "waiting")
    BY <1>1, <1>2, <1>3, BecomesRow
  <1>5. R!Answered(j, c.revision)
    BY <1>4 DEF R!Answered, w, WithAnswer, Unspent
  <1>6. CASE j \notin overrun
    <2>1. R!Succeed(j)
      BY <1>1, <1>5, <1>6, OwnedFacts DEF R!Succeed
    <2> QED BY <1>1, <2>1 DEF R!Next
  <1>7. CASE j \in overrun
    <2>1. Work[j].phase # "none" /\ Work[j].asked = r.requested
      BY <1>1, PhaseIsNone, ImageFields DEF RefInv, Present
    <2>2. R!LateReport(j)
      BY <1>3, <1>5, <1>7, <2>1 DEF R!LateReport
    <2> QED BY <1>1, <2>2 DEF R!Next
  <1> QED BY <1>6, <1>7

LEMMA FailRefines ==
  ASSUME RefInv, NEW c \in inflight, Fail(c)
  PROVE  R!Next
  <1> DEFINE j == c.job
             r == job[j]
             q == Failed(r, c)
             phase == IF c.attempt >= MaxAttempts THEN "dropped" ELSE "waiting"
  <1>1. /\ Inv /\ LeaseInv /\ j \in Job /\ r \in Row /\ job \in [Job -> Row]
        /\ Work[j] = Image(r) /\ c.attempt \in 1..MaxAttempts
    BY SnapshotFacts, InvByRows, WorkOf DEF RefInv, LeaseInv
  <1>2. job' = [job EXCEPT ![j] = q] /\ UNCHANGED <<ran, overrun>>
    BY DEF Fail
  <1>3. Image(q) = IF Newer(r, c) THEN InPhase(Unspent(Work[j]), "waiting")
                   ELSE InPhase(Work[j], phase)
    BY <1>1, FailedImage
  <1> HIDE DEF q
  <1>4. IF Newer(r, c) THEN R!Becomes(j, Unspent(Work[j]), "waiting")
        ELSE R!Becomes(j, Work[j], phase)
    BY <1>1, <1>2, <1>3, BecomesRow
  <1>5. CASE j \notin overrun
    <2>1. /\ Work[j].phase = "started" /\ Work[j].tries = c.attempt
          /\ Newer(r, c) <=> ran[j] < Work[j].asked
      BY <1>1, <1>5, OwnedFacts
    <2>2. phase = IF Work[j].tries < MaxAttempts THEN "waiting" ELSE "dropped"
      <3>1. \A n \in 1..MaxAttempts : n >= MaxAttempts <=> ~(n < MaxAttempts)
        BY MaxAttemptsAssumption
      <3>2. c.attempt >= MaxAttempts <=> ~(Work[j].tries < MaxAttempts)
        BY <1>1, <2>1, <3>1
      <3> QED BY <3>2
    <2>3. R!Fail(j)
      BY <1>4, <2>1, <2>2 DEF R!Fail, Unspent
    <2> QED BY <1>1, <2>3 DEF R!Next
  <1>6. CASE j \in overrun
    <2>1. Work[j].phase # "none"
      BY <1>1, PhaseIsNone, ImageFields DEF RefInv, Present
    <2>2. R!LateReport(j)
      BY <1>4, <1>6, <2>1 DEF R!LateReport, Unspent
    <2> QED BY <1>1, <2>2 DEF R!Next
  <1> QED BY <1>5, <1>6

LEMMA DeferRefines ==
  ASSUME RefInv, NEW c \in inflight, Defer(c)
  PROVE  R!Next \/ UNCHANGED R!vars
  <1> DEFINE j == c.job
             r == job[j]
             q == Released(r, "queued", r.attempt - 1, FALSE)
  <1>1. /\ j \in Job /\ r \in Row /\ job \in [Job -> Row] /\ Work[j] = Image(r)
    BY SnapshotFacts, InvByRows, WorkOf DEF RefInv, LeaseInv
  <1>2. job' = [job EXCEPT ![j] = Deferred(r)] /\ UNCHANGED <<ran, overrun>>
    BY DEF Defer
  <1>3. CASE r.status = "running"
    <2>1. job' = [job EXCEPT ![j] = q]
      BY <1>2, <1>3 DEF Deferred
    <2>2. Image(q) = InPhase(WithTries(Work[j], r.attempt - 1), "waiting")
      BY <1>1, Phases, WorkRowExcept DEF Image, Released
    <2>3. Work[j].phase = "started" /\ Work[j].tries = r.attempt
      BY <1>1, <1>3, ImageFields, Phases
    <2> HIDE DEF q
    <2>4. R!Becomes(j, WithTries(Work[j], r.attempt - 1), "waiting")
      BY <1>1, <1>2, <2>1, <2>2, BecomesRow
    <2>5. R!PutBack(j)
      BY <2>3, <2>4 DEF R!PutBack, WithTries
    <2> QED BY <1>1, <2>5 DEF R!Next
  <1>4. CASE r.status # "running"
    <2>1. job' = job
      BY <1>1, <1>2, <1>4 DEF Deferred
    <2> QED BY <1>2, <2>1 DEF R!vars, Work
  <1> QED BY <1>3, <1>4

LEMMA CrashRefines ==
  ASSUME NEW c, Crash(c)
  PROVE  UNCHANGED R!vars
  BY DEF Crash, R!vars, Work

LEMMA ClockRefines ==
  ASSUME Inv, Clock
  PROVE  R!Next \/ UNCHANGED R!vars
  <1>1. PICK j \in Job : RunAfterArrives(j) \/ LeaseExpires(j)
    BY DEF Clock
  <1>2. job \in [Job -> Row]
    BY InvByRows
  <1>3. Work' = Work
    <2>1. \A k \in Job : /\ job'[k].status = job[k].status /\ job'[k].attempt = job[k].attempt
                          /\ job'[k].requested = job[k].requested
                          /\ job'[k].completed = job[k].completed
      BY <1>1, <1>2 DEF RunAfterArrives, LeaseExpires, Row
    <2> QED BY <2>1 DEF Work
  <1>4. ran' = ran /\ (overrun' = overrun \/ overrun' = overrun \cup {j})
    BY <1>1 DEF RunAfterArrives, LeaseExpires
  <1>5. CASE overrun' = overrun
    BY <1>3, <1>4, <1>5 DEF R!vars
  <1>6. CASE overrun' = overrun \cup {j}
    <2>1. R!Lapse(j)
      BY <1>3, <1>4, <1>6 DEF R!Lapse
    <2> QED BY <2>1 DEF R!Next
  <1> QED BY <1>4, <1>5, <1>6

LEMMA StepRefines == RefInv /\ [Next]_vars => [R!Next]_(R!vars)
  <1> SUFFICES ASSUME RefInv, [Next]_vars
               PROVE  R!Next \/ UNCHANGED R!vars
    OBVIOUS
  <1>1. Inv
    BY DEF RefInv, LeaseInv
  <1>2. CASE Produce
    BY <1>1, <1>2, ProduceRefines
  <1>3. ASSUME NEW w \in Worker, NEW j \in Job, Claim(w, j)
        PROVE  R!Next
    BY <1>1, <1>3, ClaimRefines
  <1>4. ASSUME NEW c \in inflight, Report(c)
        PROVE  R!Next \/ UNCHANGED R!vars
    BY <1>4, CompleteRefines, FailRefines, DeferRefines, CrashRefines DEF Report
  <1>5. CASE Clock
    BY <1>1, <1>5, ClockRefines
  <1>6. CASE UNCHANGED vars
    BY <1>6 DEF vars, R!vars, Work
  <1> QED BY <1>2, <1>3, <1>4, <1>5, <1>6 DEF Next

-----------------------------------------------------------------------------
(* Once claimed, a row never ceases to exist.                              *)

LEMMA PresentStep ==
  ASSUME Inv, Present, [Next]_vars
  PROVE  Present'
  <1>1. /\ job \in [Job -> Row]
        /\ \A c \in inflight : c.job \in Job
    BY InvByRows, SnapshotFacts
  <1>2. \A k \in Job : job[k].status # "absent" => job'[k].status # "absent"
    <2>1. \A j \in Job : /\ Requeued(job[j]).status = "queued"
                          /\ Requested(job[j]).status \in {"queued", "running"}
      BY <1>1 DEF Requested, Requeued, Released, Row
    <2>2. CASE Produce
      BY <1>1, <2>1, <2>2 DEF Produce, EnqueueArticleJob, ResetUnconnectedJob, RequestCaseJob,
         EnsureCaseJob, RecoverFailedJob, Job
    <2>3. ASSUME NEW w \in Worker, NEW j \in Job, Claim(w, j), NEW k \in Job,
                 job[k].status # "absent"
          PROVE  job'[k].status # "absent"
      BY <1>1, <2>3 DEF Claim, Released
    <2>4. ASSUME NEW c \in inflight, Report(c), NEW k \in Job, job[k].status # "absent"
          PROVE  job'[k].status # "absent"
      <3>1. /\ Completed(job[c.job], c).status # "absent"
            /\ Failed(job[c.job], c).status # "absent"
        BY <1>1, CompletedImage, FailedImage
      <3>2. job[c.job].status # "absent" => Deferred(job[c.job]).status # "absent"
        BY DEF Deferred, Released
      <3> QED BY <1>1, <2>4, <3>1, <3>2 DEF Report, Complete, Fail, Defer, Crash
    <2>5. CASE Clock
      BY <1>1, <2>5 DEF Clock, RunAfterArrives, LeaseExpires, Row
    <2>6. CASE UNCHANGED vars
      BY <2>6 DEF vars
    <2> QED BY <2>2, <2>3, <2>4, <2>5, <2>6 DEF Next
  <1>3. ASSUME NEW c \in inflight', c \notin inflight
        PROVE  c.job \in Job /\ job'[c.job].status = "running"
    <2>1. PICK w \in Worker, j \in Job : Claim(w, j)
      BY <1>3 DEF Next, vars, Produce, EnqueueArticleJob, ResetUnconnectedJob, RequestCaseJob,
         EnsureCaseJob, RecoverFailedJob, Report, Complete, Fail, Defer, Crash, Clock,
         RunAfterArrives, LeaseExpires
    <2> QED BY <1>1, <1>3, <2>1 DEF Claim, Released
  <1> QED BY <1>1, <1>2, <1>3 DEF Present

LEMMA InitRefines == Init => R!Init
  <1> SUFFICES ASSUME Init PROVE R!Init
    OBVIOUS
  <1>1. Work = [j \in Job |-> [phase |-> "none", asked |-> 1, answered |-> 0, tries |-> 0]]
    BY Phases DEF Init, Work
  <1> QED BY <1>1 DEF Init, R!Init

(* Every step of the job store is a step of RevisionedWork or leaves its   *)
(* state alone, for every number of jobs, workers, attempts and revisions. *)
THEOREM Refinement == Spec => ImplementsRevisionedWork
  <1>1. Init => RefInv
    BY InitLease DEF RefInv, Present, Init
  <1>2. RefInv /\ [Next]_vars => RefInv'
    BY NextLease, PresentStep DEF RefInv, LeaseInv
  <1> QED BY <1>1, <1>2, InitRefines, StepRefines, PTL
          DEF Spec, ImplementsRevisionedWork, R!Spec
=============================================================================
