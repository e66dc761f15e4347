------------------------ MODULE ArticlePipelineProofs ------------------------
(***************************************************************************)
(* Proofs about the chain of article jobs, for any articles, workers,      *)
(* attempts and faults, whether or not handlers outlive their leases.      *)
(*                                                                         *)
(* What is proved of the job store is used here for the jobs of the chain  *)
(* (JP).  On top of it, Needs says what must be stored before a job of the *)
(* chain may exist; outputs only grow, so whoever has found them stored (a *)
(* row, a handler about to enqueue the next job, the planner's batch) is   *)
(* right about them for ever.                                              *)
(***************************************************************************)
EXTENDS ArticlePipeline, TLAPS

JP == INSTANCE JobStoreProofs WITH
        ArticleJob <- Stage \X Article, CaseJob <- {}, MaxRevision <- 1, overrun <- {}

(* The output of the stage before job j.                                   *)
Needs(j) ==
    /\ j[1] = "gate" => relevance[j[2]] = "relevant"
    /\ j[1] = "card" => gate[j[2]] # "none"
    /\ j[1] = "resolve" => j[2] \in card
    /\ j[1] \in {"entities", "events"} => j[2] \in linked

(* What the handler of snapshot c has seen to when its state is h.         *)
Knows(c, h) ==
    /\ c.job[1] \in Handled
    /\ Needs(c.job)
    /\ (h.pc = "store" /\ c.job[1] = "classify") => (h.yes <=> c.job[2] \in RelevantArticle)
    /\ h.pc = "follow" => Needs(<<NextStage[c.job[1]], c.job[2]>>)
    /\ h.pc = "events" => c.job[1] = "resolve" /\ c.job[2] \in linked

(* Only the classifier's verdict, which is always the same, is stored.     *)
Deterministic == \A a \in Article : relevance[a] = "relevant" => a \in RelevantArticle

OneJobPerWorker == \A c, d \in inflight : c.worker = d.worker => c = d

Inv ==
    /\ TypeOK
    /\ JP!Inv
    /\ Deterministic
    /\ OneJobPerWorker
    /\ \A j \in J!Job : job[j].status # "absent" => Needs(j)
    /\ \A c \in inflight : Knows(c, at[c.worker])
    /\ \A j \in planned : Needs(j)

USE AttemptsAssumption

-----------------------------------------------------------------------------
(* The job store under its two names.                                      *)

LEMMA StoreOps ==
  /\ JP!Job = J!Job /\ J!Job = Stage \X Article
  /\ J!TypeOK <=> JP!TypeOK
  /\ J!Init => JP!Init
  /\ \A r : J!Requeued(r) = JP!Requeued(r)
  /\ \A w, j : J!Claim(w, j) => JP!Claim(w, j)
  /\ \A c : (J!Complete(c) \/ J!Fail(c) \/ J!Defer(c) \/ J!Crash(c)) => JP!Report(c)
  /\ \A j : J!RunAfterArrives(j) => JP!RunAfterArrives(j)
  /\ \A j : J!ResetUnconnectedJob(j) => JP!ResetUnconnectedJob(j)
  /\ \A j : J!RecoverFailedJob(j) => JP!RecoverFailedJob(j)
  <1>1. JP!Job = J!Job /\ J!Job = Stage \X Article
    BY DEF JP!Job, J!Job
  <1>2. J!TypeOK <=> JP!TypeOK
    BY <1>1 DEF J!TypeOK, JP!TypeOK, J!Row, JP!Row, J!ClaimedJob, JP!ClaimedJob
  <1>3. J!Init => JP!Init
    BY <1>1 DEF J!Init, JP!Init
  <1>4. \A r : J!Requeued(r) = JP!Requeued(r)
    BY DEF J!Requeued, JP!Requeued, J!Released, JP!Released
  <1>5. \A w, j : J!Claim(w, j) => JP!Claim(w, j)
    BY DEF J!Claim, JP!Claim, J!Eligible, JP!Eligible, J!Released, JP!Released
  <1>6. \A c : J!Complete(c) => JP!Complete(c)
    BY <1>4 DEF J!Complete, JP!Complete, J!Completed, JP!Completed, J!Newer, JP!Newer,
       J!Released, JP!Released
  <1>7. \A c : J!Fail(c) => JP!Fail(c)
    BY <1>4 DEF J!Fail, JP!Fail, J!Failed, JP!Failed, J!Newer, JP!Newer, J!Released, JP!Released
  <1>8. \A c : J!Defer(c) => JP!Defer(c)
    BY DEF J!Defer, JP!Defer, J!Deferred, JP!Deferred, J!Released, JP!Released
  <1>9. \A c : J!Crash(c) => JP!Crash(c)
    BY DEF J!Crash, JP!Crash
  <1>10. \A j : J!RunAfterArrives(j) => JP!RunAfterArrives(j)
    BY DEF J!RunAfterArrives, JP!RunAfterArrives
  <1>11. \A j : /\ J!ResetUnconnectedJob(j) => JP!ResetUnconnectedJob(j)
                /\ J!RecoverFailedJob(j) => JP!RecoverFailedJob(j)
    BY <1>4 DEF J!ResetUnconnectedJob, JP!ResetUnconnectedJob, J!RecoverFailedJob, JP!RecoverFailedJob
  <1> QED BY <1>1, <1>2, <1>3, <1>4, <1>5, <1>6, <1>7, <1>8, <1>9, <1>10, <1>11 DEF JP!Report

-----------------------------------------------------------------------------
(* What is stored stays stored.                                            *)

OutputsGrow ==
    /\ \A a \in Article :
           /\ relevance[a] = "relevant" => relevance'[a] = "relevant"
           /\ gate[a] # "none" => gate'[a] # "none"
    /\ card \subseteq card'
    /\ linked \subseteq linked'

LEMMA NeedsKept ==
  ASSUME OutputsGrow, NEW j, j[2] \in Article, Needs(j)
  PROVE  Needs(j)'
  BY DEF OutputsGrow, Needs

LEMMA SnapshotOf ==
  ASSUME Inv, NEW c \in inflight
  PROVE  /\ c.worker \in Worker /\ c.job \in J!Job /\ c.job[2] \in Article
         /\ c.job = <<c.job[1], c.job[2]>>
         /\ Knows(c, at[c.worker])
         /\ c.job[1] \in Handled /\ NextStage[c.job[1]] \in Stage
         /\ at[c.worker] \in [pc : Pc, yes : BOOLEAN] /\ at \in [Worker -> [pc : Pc, yes : BOOLEAN]]
  <1>1. c.worker \in Worker /\ c.job \in J!Job
    BY DEF Inv, TypeOK, J!TypeOK, J!ClaimedJob
  <1>2. c.job[2] \in Article /\ c.job = <<c.job[1], c.job[2]>>
    BY <1>1, StoreOps
  <1>3. Knows(c, at[c.worker]) /\ c.job[1] \in Handled
    BY DEF Inv, Knows
  <1>4. NextStage[c.job[1]] \in Stage
    BY <1>3 DEF Handled, Stage, NextStage
  <1> QED BY <1>1, <1>2, <1>3, <1>4 DEF Inv, TypeOK

(* What a handler knows stays true.                                        *)
LEMMA KnowsKept ==
  ASSUME Inv, OutputsGrow, NEW c \in inflight, at'[c.worker] = at[c.worker]
  PROVE  Knows(c, at[c.worker])'
  <1>1. /\ c.job[2] \in Article /\ Knows(c, at[c.worker])
        /\ linked \subseteq linked'
    BY SnapshotOf DEF OutputsGrow
  <1>2. Needs(c.job)'
    BY <1>1, NeedsKept DEF Knows
  <1>3. at[c.worker].pc = "follow" => Needs(<<NextStage[c.job[1]], c.job[2]>>)'
    <2> DEFINE n == <<NextStage[c.job[1]], c.job[2]>>
    <2>1. n[2] \in Article
      BY <1>1
    <2> QED BY <1>1, <2>1, NeedsKept DEF Knows
  <1> QED BY <1>1, <1>2, <1>3 DEF Knows

(* A step preserves Inv when the outputs grow and everything it adds has   *)
(* what it needs.                                                          *)
LEMMA GoodStep ==
  ASSUME Inv, TypeOK', JP!Inv', OutputsGrow, Deterministic', OneJobPerWorker',
         \A j \in J!Job : job'[j].status # "absent" => job[j].status # "absent" \/ Needs(j),
         \A c \in inflight' : (c \in inflight /\ at'[c.worker] = at[c.worker])
                                 \/ Knows(c, at[c.worker])',
         \A j \in planned' : j \in planned \/ (j \in J!Job /\ Needs(j))
  PROVE  Inv'
  <1>1. \A j \in J!Job : j[2] \in Article
    BY StoreOps
  <1>2. \A j \in J!Job : Needs(j) => Needs(j)'
    BY <1>1, NeedsKept
  <1>3. \A j \in J!Job : job'[j].status # "absent" => Needs(j)'
    BY <1>2 DEF Inv
  <1>4. \A c \in inflight' : Knows(c, at[c.worker])'
    BY KnowsKept
  <1>5. \A j \in planned' : Needs(j)'
    BY <1>2 DEF Inv, TypeOK
  <1>6. J!Job' = J!Job
    BY StoreOps DEF J!Job
  <1> QED BY <1>3, <1>4, <1>5, <1>6 DEF Inv

LEMMA OutputsKept == ASSUME UNCHANGED outputs PROVE OutputsGrow
  BY DEF OutputsGrow, outputs

(* The worker of c moves on, the others stay where they are.               *)
LEMMA Moves ==
  ASSUME Inv, NEW c \in inflight, NEW pc \in Pc, NEW yes \in BOOLEAN, Goes(c, pc, yes)
  PROVE  /\ at' \in [Worker -> [pc : Pc, yes : BOOLEAN]]
         /\ at'[c.worker] = [pc |-> pc, yes |-> yes]
         /\ \A d \in inflight \ {c} : at'[d.worker] = at[d.worker]
  <1>1. \A d \in inflight \ {c} : d.worker # c.worker /\ d.worker \in Worker
    BY SnapshotOf DEF Inv, OneJobPerWorker
  <1> QED BY <1>1, SnapshotOf DEF Goes

-----------------------------------------------------------------------------
(* Steps of handlers.                                                      *)

(* A handler step that leaves the snapshots alone.                         *)
LEMMA HandlerStep ==
  ASSUME Inv, NEW c \in inflight, NEW pc \in Pc, NEW yes \in BOOLEAN, Goes(c, pc, yes),
         UNCHANGED <<inflight, planned, faults>>, J!TypeOK', JP!Inv',
         OutputsGrow, Deterministic',
         relevance' \in [Article -> {"none", "relevant", "irrelevant"}],
         gate' \in [Article -> {"none", "candidate", "rejected"}],
         card' \subseteq Article, linked' \subseteq Article,
         \A j \in J!Job : job'[j].status # "absent" => job[j].status # "absent" \/ Needs(j),
         (pc = "store" /\ c.job[1] = "classify") => (yes <=> c.job[2] \in RelevantArticle),
         pc = "follow" => Needs(<<NextStage[c.job[1]], c.job[2]>>)',
         pc = "events" => c.job[1] = "resolve" /\ c.job[2] \in linked'
  PROVE  Inv'
  <1>1. /\ at' \in [Worker -> [pc : Pc, yes : BOOLEAN]]
        /\ at'[c.worker] = [pc |-> pc, yes |-> yes]
        /\ \A d \in inflight \ {c} : at'[d.worker] = at[d.worker]
    BY Moves
  <1>2. TypeOK' /\ OneJobPerWorker'
    BY <1>1 DEF Inv, TypeOK, OneJobPerWorker, J!Job
  <1>3. Knows(c, at[c.worker])'
    <2>1. c.job[1] \in Handled /\ Needs(c.job)'
      BY SnapshotOf, NeedsKept DEF Knows
    <2> QED BY <1>1, <2>1 DEF Knows
  <1> QED BY <1>1, <1>2, <1>3, GoodStep

(* The store did not move.                                                 *)
LEMMA StoreKept ==
  ASSUME Inv, UNCHANGED store
  PROVE  J!TypeOK' /\ JP!Inv' /\ job' = job /\ inflight' = inflight
  BY DEF Inv, TypeOK, store, J!TypeOK, JP!Inv, JP!TypeOK, JP!AttemptBudget, JP!NoLostRevision,
         JP!NewRevisionHasBudget, JP!SnapshotsBehind

LEMMA ReadStep ==
  ASSUME Inv, NEW c \in inflight, Read(c)
  PROVE  Inv'
  <1>1. /\ UNCHANGED outputs /\ UNCHANGED <<planned, faults>> /\ UNCHANGED store
        /\ c.job[2] \in Article
    BY SnapshotOf DEF Read
  <1>2. PICK pc \in {"store", "follow", "done"}, yes \in BOOLEAN :
          /\ Goes(c, pc, yes)
          /\ (pc = "store" /\ c.job[1] = "classify") => (yes <=> c.job[2] \in RelevantArticle)
          /\ pc = "follow" => c.job[1] = "resolve" /\ c.job[2] \in linked
    <2>1. (c.job[2] \in RelevantArticle) \in BOOLEAN
      OBVIOUS
    <2>2. CASE ReadClassify(c)
      BY <2>1, <2>2 DEF ReadClassify
    <2>3. CASE ReadGate(c)
      BY <2>3 DEF ReadGate
    <2>4. CASE ReadCard(c)
      BY <2>4 DEF ReadCard
    <2>5. CASE ReadResolve(c)
      BY <2>5 DEF ReadResolve
    <2> QED BY <2>2, <2>3, <2>4, <2>5 DEF Read
  <1>3. /\ J!TypeOK' /\ JP!Inv' /\ job' = job /\ inflight' = inflight
        /\ OutputsGrow /\ linked' = linked
    BY <1>1, StoreKept, OutputsKept DEF outputs
  <1>4. pc = "follow" => Needs(<<NextStage[c.job[1]], c.job[2]>>)'
    BY <1>2, <1>3 DEF Needs, NextStage
  <1>5. pc \in Pc /\ pc # "events"
    BY DEF Pc
  <1>6. Deterministic'
    BY <1>1 DEF Inv, Deterministic, outputs
  <1> QED BY <1>1, <1>2, <1>3, <1>4, <1>5, <1>6, HandlerStep DEF outputs, Inv, TypeOK

LEMMA StoreStep ==
  ASSUME Inv, NEW c \in inflight, Store(c)
  PROVE  Inv'
  <1> DEFINE a == c.job[2]
             yes == at[c.worker].yes
             pc == IF yes THEN "follow" ELSE "done"
  <1>1. /\ UNCHANGED <<planned, faults>> /\ UNCHANGED store /\ a \in Article
        /\ yes \in BOOLEAN /\ pc \in Pc /\ Goes(c, pc, yes)
        /\ pc \notin {"store", "events"} /\ (pc = "follow" <=> yes)
        /\ Knows(c, at[c.worker]) /\ at[c.worker].pc = "store"
    BY SnapshotOf DEF Store, Pc
  <1>2. J!TypeOK' /\ JP!Inv' /\ job' = job /\ inflight' = inflight
    BY <1>1, StoreKept
  <1>3. /\ relevance \in [Article -> {"none", "relevant", "irrelevant"}]
        /\ gate \in [Article -> {"none", "candidate", "rejected"}]
        /\ card \subseteq Article /\ linked \subseteq Article
        /\ \A b \in Article : relevance[b] = "relevant" => b \in RelevantArticle
    BY DEF Inv, TypeOK, Deterministic
  <1> HIDE DEF pc
  <1>4. CASE StoreClassify(c)
    <2>1. /\ c.job[1] = "classify" /\ UNCHANGED <<gate, card, linked>>
          /\ relevance' = [relevance EXCEPT ![a] = IF yes THEN "relevant" ELSE "irrelevant"]
          /\ yes <=> a \in RelevantArticle
      BY <1>1, <1>4 DEF StoreClassify, Knows
    <2>2. OutputsGrow /\ Deterministic' /\ relevance' \in [Article -> {"none", "relevant", "irrelevant"}]
      BY <1>1, <1>3, <2>1 DEF OutputsGrow, Deterministic
    <2>3. yes => Needs(<<NextStage[c.job[1]], a>>)'
      BY <1>1, <1>3, <2>1 DEF Needs, NextStage
    <2> QED BY <1>1, <1>2, <1>3, <2>1, <2>2, <2>3, HandlerStep
  <1>5. CASE StoreGate(c)
    <2>1. /\ c.job[1] = "gate" /\ UNCHANGED <<relevance, card, linked>>
          /\ gate' = [gate EXCEPT ![a] = IF gate[a] # "none" THEN gate[a]
                                         ELSE IF yes THEN "candidate" ELSE "rejected"]
      BY <1>5 DEF StoreGate
    <2>2. OutputsGrow /\ Deterministic' /\ gate' \in [Article -> {"none", "candidate", "rejected"}]
      BY <1>1, <1>3, <2>1 DEF OutputsGrow, Deterministic
    <2>3. yes => Needs(<<NextStage[c.job[1]], a>>)'
      BY <1>1, <1>3, <2>1 DEF Needs, NextStage
    <2> QED BY <1>1, <1>2, <1>3, <2>1, <2>2, <2>3, HandlerStep
  <1>6. CASE StoreCard(c)
    <2>1. /\ c.job[1] = "card" /\ UNCHANGED <<relevance, gate, linked>>
          /\ card' = card \cup {a}
      BY <1>6 DEF StoreCard
    <2>2. OutputsGrow /\ Deterministic' /\ card' \subseteq Article
      BY <1>1, <1>3, <2>1 DEF OutputsGrow, Deterministic
    <2>3. yes => Needs(<<NextStage[c.job[1]], a>>)'
      BY <1>1, <1>3, <2>1 DEF Needs, NextStage
    <2> QED BY <1>1, <1>2, <1>3, <2>1, <2>2, <2>3, HandlerStep
  <1>7. CASE StoreResolve(c)
    <2>1. /\ c.job[1] = "resolve" /\ UNCHANGED <<relevance, gate, card>>
          /\ linked' = linked \cup {a}
      BY <1>7 DEF StoreResolve
    <2>2. OutputsGrow /\ Deterministic' /\ linked' \subseteq Article
      BY <1>1, <1>3, <2>1 DEF OutputsGrow, Deterministic
    <2>3. yes => Needs(<<NextStage[c.job[1]], a>>)'
      BY <1>1, <1>3, <2>1 DEF Needs, NextStage
    <2> QED BY <1>1, <1>2, <1>3, <2>1, <2>2, <2>3, HandlerStep
  <1> QED BY <1>4, <1>5, <1>6, <1>7 DEF Store

(* Enqueueing is good for the store, and adds at most the row of its job.  *)
LEMMA EnqueueGood ==
  ASSUME Inv, NEW j \in J!Job, Needs(j), Enqueue(j)
  PROVE  /\ J!TypeOK' /\ JP!Inv' /\ inflight' = inflight
         /\ \A k \in J!Job : job'[k].status # "absent" => job[k].status # "absent" \/ Needs(k)
  <1> DEFINE q == IF job[j].status \in {"absent", "failed"} THEN J!Requeued(job[j]) ELSE job[j]
  <1>1. /\ JP!Inv /\ j \in JP!Job /\ JP!RowInv(j, job[j], ran[j]) /\ ran[j] \in Nat
        /\ J!Requeued(job[j]) = JP!Requeued(job[j])
    BY StoreOps, JP!InvByRows DEF Inv
  <1>2. JP!RowInv(j, q, ran[j])
    BY <1>1, JP!RequeuedGood
  <1>3. job' = [job EXCEPT ![j] = q] /\ inflight' = inflight /\ ran' = ran
    BY DEF Enqueue
  <1> HIDE DEF q
  <1>4. JP!Inv'
    <2>1. /\ inflight' \subseteq inflight /\ {} \subseteq JP!Job
          /\ (Stage \X Article) \cap {} = {} /\ 1 \in Nat \ {0}
      BY <1>3
    <2> QED BY ONLY <1>1, <1>2, <1>3, <2>1, AttemptsAssumption, JP!OneRowStep
  <1>5. J!TypeOK'
    BY <1>4, StoreOps DEF JP!Inv, JP!TypeOK, J!TypeOK, J!Row, JP!Row, J!ClaimedJob, JP!ClaimedJob
  <1>6. \A k \in J!Job : k # j => job'[k] = job[k]
    BY <1>3 DEF Inv, TypeOK, J!TypeOK
  <1> QED BY <1>3, <1>4, <1>5, <1>6

LEMMA FollowStep ==
  ASSUME Inv, NEW c \in inflight, Follow(c) \/ FollowEvents(c)
  PROVE  Inv'
  <1>1. /\ UNCHANGED outputs /\ UNCHANGED <<planned, faults>> /\ c.job[2] \in Article
        /\ Knows(c, at[c.worker]) /\ NextStage[c.job[1]] \in Stage
    BY SnapshotOf DEF Follow, FollowEvents
  <1>2. PICK j \in J!Job : Needs(j) /\ Enqueue(j)
    <2>1. CASE Follow(c)
      <3>1. <<NextStage[c.job[1]], c.job[2]>> \in J!Job
        BY <1>1, StoreOps
      <3> QED BY <1>1, <2>1, <3>1 DEF Follow, Knows
    <2>2. CASE FollowEvents(c)
      <3>1. <<"events", c.job[2]>> \in J!Job
        BY <1>1, StoreOps DEF Stage
      <3>2. Needs(<<"events", c.job[2]>>)
        BY <1>1, <2>2 DEF FollowEvents, Knows, Needs
      <3> QED BY <2>2, <3>1, <3>2 DEF FollowEvents
    <2> QED BY <2>1, <2>2
  <1>3. /\ J!TypeOK' /\ JP!Inv' /\ inflight' = inflight
        /\ \A k \in J!Job : job'[k].status # "absent" => job[k].status # "absent" \/ Needs(k)
    BY <1>2, EnqueueGood
  <1>4. PICK pc \in {"events", "done"} :
          Goes(c, pc, FALSE) /\ (pc = "events" => c.job[1] = "resolve" /\ c.job[2] \in linked)
    <2>1. CASE Follow(c)
      <3>1. c.job[1] = "resolve" => c.job[2] \in linked
        BY <1>1, <2>1 DEF Follow, Knows, Needs, NextStage
      <3> QED BY <2>1, <3>1 DEF Follow
    <2>2. CASE FollowEvents(c)
      BY <2>2 DEF FollowEvents
    <2> QED BY <2>1, <2>2
  <1>5. OutputsGrow /\ Deterministic' /\ pc \in Pc /\ linked' = linked
    BY <1>1, OutputsKept DEF Inv, Deterministic, outputs, Pc
  <1> QED BY <1>1, <1>3, <1>4, <1>5, HandlerStep DEF outputs, Inv, TypeOK

-----------------------------------------------------------------------------
(* Steps of the job store.                                                 *)

LEMMA StoreTypes == ASSUME JP!Inv' PROVE J!TypeOK'
  BY StoreOps DEF JP!Inv, JP!TypeOK, J!TypeOK, J!Row, JP!Row, J!ClaimedJob, JP!ClaimedJob

LEMMA FaultTypes == ASSUME Inv, Fault \/ UNCHANGED faults PROVE faults' \in 0..MaxFaults
  BY MaxFaultsAssumption DEF Fault, Inv, TypeOK

(* The end of a claim: the worker is idle, the snapshot is gone.           *)
LEMMA LeavingStep ==
  ASSUME Inv, NEW c \in inflight, Leaves(c), Fault \/ UNCHANGED faults,
         J!Complete(c) \/ J!Fail(c) \/ J!Defer(c) \/ J!Crash(c)
  PROVE  Inv'
  <1>1. Goes(c, "idle", FALSE) /\ UNCHANGED outputs /\ planned' = planned /\ "idle" \in Pc
    BY DEF Leaves, Pc
  <1>2. inflight' = inflight \ {c}
    BY DEF J!Complete, J!Fail, J!Defer, J!Crash
  <1>3. JP!Inv'
    BY StoreOps, JP!ReportStep DEF Inv
  <1>4. \A k \in J!Job : k # c.job => job'[k] = job[k]
    BY DEF J!Complete, J!Fail, J!Defer, J!Crash, Inv, TypeOK, J!TypeOK
  <1>5. Needs(c.job)
    BY SnapshotOf DEF Knows
  <1>6. /\ at' \in [Worker -> [pc : Pc, yes : BOOLEAN]]
        /\ \A d \in inflight \ {c} : at'[d.worker] = at[d.worker]
    BY <1>1, Moves
  <1>7. TypeOK'
    BY <1>1, <1>3, <1>6, StoreTypes, FaultTypes, StoreOps DEF Inv, TypeOK, outputs
  <1>8. OutputsGrow /\ Deterministic' /\ OneJobPerWorker'
    BY <1>1, <1>2, OutputsKept DEF Inv, Deterministic, OneJobPerWorker, outputs
  <1> QED BY <1>1, <1>2, <1>3, <1>4, <1>5, <1>6, <1>7, <1>8, GoodStep

LEMMA ReportStep ==
  ASSUME Inv, NEW c \in inflight, Complete(c) \/ Fail(c) \/ Defer(c) \/ Crash(c)
  PROVE  Inv'
  BY LeavingStep DEF Complete, Fail, Defer, Crash

LEMMA ClaimStep ==
  ASSUME Inv, NEW w \in Worker, NEW j \in J!Job, Claim(w, j)
  PROVE  Inv'
  <1>1. /\ j[1] \in Handled /\ J!Claim(w, j) /\ UNCHANGED <<outputs, planned, faults>>
        /\ at' = [at EXCEPT ![w] = [pc |-> "read", yes |-> FALSE]]
    BY DEF Claim
  <1>2. PICK c : /\ inflight' = inflight \cup {c} /\ \A d \in inflight : d.worker # w
                 /\ c.worker = w /\ c.job = j
    <2> DEFINE s == [worker |-> w, job |-> j, attempt |-> job[j].attempt + 1,
                     revision |-> job[j].requested]
    <2>1. /\ inflight' = inflight \cup {s} /\ \A d \in inflight : d.worker # w
          /\ s.worker = w /\ s.job = j
      BY <1>1 DEF J!Claim
    <2> HIDE DEF s
    <2> QED BY <2>1
  <1>3. JP!Inv'
    BY <1>1, StoreOps, JP!ClaimStep DEF Inv
  <1>4. Needs(j)
    BY <1>1 DEF J!Claim, J!Eligible, Inv
  <1>5. \A k \in J!Job : k # j => job'[k] = job[k]
    BY <1>1 DEF J!Claim, Inv, TypeOK, J!TypeOK
  <1>6. /\ at' \in [Worker -> [pc : Pc, yes : BOOLEAN]]
        /\ at'[w] = [pc |-> "read", yes |-> FALSE]
        /\ \A d \in inflight : at'[d.worker] = at[d.worker]
    BY <1>1, <1>2, SnapshotOf DEF Inv, TypeOK, Pc
  <1>7. OutputsGrow /\ Deterministic' /\ OneJobPerWorker'
    BY <1>1, <1>2, OutputsKept DEF Inv, Deterministic, OneJobPerWorker, outputs
  <1>8. TypeOK'
    BY <1>1, <1>3, <1>6, StoreTypes, StoreOps DEF Inv, TypeOK, outputs
  <1>9. Knows(c, at[c.worker])'
    <2>1. Needs(j)'
      BY <1>4, <1>7, NeedsKept, StoreOps
    <2> QED BY <1>1, <1>2, <1>6, <2>1 DEF Knows
  <1> QED BY <1>1, <1>2, <1>3, <1>4, <1>5, <1>6, <1>7, <1>8, <1>9, GoodStep

(* A step of the planner, an operator or the clock.                        *)
LEMMA OtherStep ==
  ASSUME Inv, JP!Inv', inflight' = inflight, UNCHANGED outputs, at' = at,
         Fault \/ UNCHANGED faults,
         \A j \in J!Job : job'[j].status # "absent" => job[j].status # "absent" \/ Needs(j),
         \A j \in planned' : j \in planned \/ (j \in J!Job /\ Needs(j))
  PROVE  Inv'
  <1>1. OutputsGrow /\ Deterministic' /\ OneJobPerWorker'
    BY OutputsKept DEF Inv, Deterministic, OneJobPerWorker, outputs
  <1>2. TypeOK'
    BY StoreTypes, FaultTypes, StoreOps DEF Inv, TypeOK, outputs
  <1> QED BY <1>1, <1>2, GoodStep

LEMMA PlannerStep ==
  ASSUME Inv, NEW j \in J!Job, PlanRead(j) \/ PlanEnqueue(j)
  PROVE  Inv'
  <1>1. CASE PlanRead(j)
    <2>1. Needs(j)
      BY <1>1 DEF PlanRead, Missing, Needs
    <2> QED BY <1>1, <2>1, StoreKept, OtherStep DEF PlanRead
  <1>2. CASE PlanEnqueue(j)
    <2>1. Needs(j) /\ Enqueue(j)
      BY <1>2 DEF PlanEnqueue, Inv
    <2> QED BY <1>2, <2>1, EnqueueGood, OtherStep DEF PlanEnqueue
  <1> QED BY <1>1, <1>2

LEMMA OperatorStep ==
  ASSUME Inv, NEW a \in Article, EnqueueCaseResolution(a) \/ ResetUnconnected(a)
  PROVE  Inv'
  <1> DEFINE j == <<"resolve", a>>
  <1>1. j \in J!Job /\ j \in JP!Job
    BY StoreOps DEF Stage
  <1>2. Needs(j)
    BY DEF EnqueueCaseResolution, ResetUnconnected, CandidateCard, Needs
  <1>3. CASE EnqueueCaseResolution(a)
    BY <1>1, <1>2, <1>3, EnqueueGood, OtherStep DEF EnqueueCaseResolution
  <1>4. CASE ResetUnconnected(a)
    <2>1. J!ResetUnconnectedJob(j) /\ UNCHANGED <<outputs, at, planned>> /\ Fault
      BY <1>4 DEF ResetUnconnected
    <2>2. JP!Produce
      BY <1>1, <2>1, StoreOps DEF JP!Produce
    <2>3. JP!Inv'
      BY <2>2, JP!ProduceStep DEF Inv
    <2>4. inflight' = inflight /\ \A k \in J!Job : k # j => job'[k] = job[k]
      BY <2>1 DEF J!ResetUnconnectedJob, Inv, TypeOK, J!TypeOK
    <2> QED BY <1>2, <2>1, <2>3, <2>4, OtherStep
  <1> QED BY <1>3, <1>4

LEMMA RecoverStep ==
  ASSUME Inv, NEW j \in J!Job, RecoverFailed(j)
  PROVE  Inv'
  <1>1. J!RecoverFailedJob(j) /\ UNCHANGED <<outputs, at, planned>> /\ Fault
    BY DEF RecoverFailed
  <1>2. JP!Produce
    BY <1>1, StoreOps DEF JP!Produce
  <1>3. JP!Inv'
    BY <1>2, JP!ProduceStep DEF Inv
  <1>4. /\ inflight' = inflight /\ \A k \in J!Job : k # j => job'[k] = job[k]
        /\ job[j].status = "failed"
    BY <1>1 DEF J!RecoverFailedJob, Inv, TypeOK, J!TypeOK
  <1> QED BY <1>1, <1>3, <1>4, OtherStep

LEMMA ClockStep ==
  ASSUME Inv, NEW j \in J!Job, RunAfterArrives(j) \/ LeaseExpires(j)
  PROVE  Inv'
  <1>1. CASE RunAfterArrives(j)
    <2>1. JP!Clock
      BY <1>1, StoreOps DEF RunAfterArrives, JP!Clock
    <2>2. JP!Inv'
      BY <2>1, JP!ClockStep DEF Inv
    <2>3. inflight' = inflight /\ \A k \in J!Job : job'[k].status = job[k].status
      BY <1>1 DEF RunAfterArrives, J!RunAfterArrives, Inv, TypeOK, J!TypeOK, J!Row
    <2> QED BY <1>1, <2>2, <2>3, OtherStep DEF RunAfterArrives
  <1>2. CASE LeaseExpires(j)
    <2> DEFINE q == [job[j] EXCEPT !.stale = TRUE]
    <2>1. /\ JP!Inv /\ j \in JP!Job /\ JP!RowInv(j, job[j], ran[j]) /\ job[j] \in JP!Row
      BY StoreOps, JP!InvByRows DEF Inv, JP!RowInv
    <2>2. JP!RowInv(j, q, ran[j]) /\ q.status = job[j].status
      BY <2>1 DEF JP!RowInv, JP!Row
    <2>3. job' = [job EXCEPT ![j] = q] /\ inflight' = inflight /\ ran' = ran
      BY <1>2 DEF LeaseExpires
    <2> HIDE DEF q
    <2>4. JP!Inv'
      <3>1. /\ inflight' \subseteq inflight /\ {} \subseteq JP!Job
            /\ (Stage \X Article) \cap {} = {} /\ 1 \in Nat \ {0}
        BY <2>3
      <3> QED BY ONLY <2>1, <2>2, <2>3, <3>1, AttemptsAssumption, JP!OneRowStep
    <2>5. \A k \in J!Job : job'[k].status = job[k].status
      BY <2>2, <2>3 DEF Inv, TypeOK, J!TypeOK
    <2>6. UNCHANGED outputs /\ at' = at /\ planned' = planned /\ (Fault \/ UNCHANGED faults)
      BY <1>2 DEF LeaseExpires
    <2> QED BY <2>3, <2>4, <2>5, <2>6, OtherStep
  <1> QED BY <1>1, <1>2

-----------------------------------------------------------------------------
(* The invariant, and what the theorems say.                               *)

LEMMA InitInv == Init => Inv
  <1> SUFFICES ASSUME Init PROVE Inv
    OBVIOUS
  <1>1. JP!Inv
    BY StoreOps, JP!InitInv DEF Init
  <1>2. inflight = {} /\ \A j \in J!Job : job[j].status = "absent"
    BY DEF Init, J!Init
  <1>3. J!TypeOK
    BY <1>1, StoreOps DEF JP!Inv
  <1>4. TypeOK
    BY <1>3, MaxFaultsAssumption DEF Init, TypeOK, Pc
  <1>5. Deterministic /\ planned = {}
    BY DEF Init, Deterministic
  <1> QED BY <1>1, <1>2, <1>4, <1>5 DEF Inv, OneJobPerWorker

LEMMA NextInv == Inv /\ [Next]_vars => Inv'
  <1> SUFFICES ASSUME Inv, [Next]_vars PROVE Inv'
    OBVIOUS
  <1>1. ASSUME NEW w \in Worker, NEW j \in J!Job, Claim(w, j)
        PROVE  Inv'
    BY <1>1, ClaimStep
  <1>2. ASSUME NEW c \in inflight, Step(c) \/ Fail(c) \/ Defer(c) \/ Crash(c)
        PROVE  Inv'
    BY <1>2, ReadStep, StoreStep, FollowStep, ReportStep DEF Step
  <1>3. ASSUME NEW j \in J!Job,
               \/ PlanRead(j) \/ PlanEnqueue(j) \/ RecoverFailed(j)
               \/ RunAfterArrives(j) \/ LeaseExpires(j)
        PROVE  Inv'
    BY <1>3, PlannerStep, RecoverStep, ClockStep
  <1>4. ASSUME NEW a \in Article, EnqueueCaseResolution(a) \/ ResetUnconnected(a)
        PROVE  Inv'
    BY <1>4, OperatorStep
  <1>5. CASE UNCHANGED vars
    <2>1. UNCHANGED store /\ UNCHANGED outputs /\ at' = at /\ planned' = planned /\ faults' = faults
      BY <1>5 DEF vars, store, outputs
    <2> QED BY <2>1, StoreKept, OtherStep
  <1> QED BY <1>1, <1>2, <1>3, <1>4, <1>5 DEF Next

LEMMA InvHolds == Spec => []Inv
  BY InitInv, NextInv, PTL DEF Spec

(* The jobs, the outputs, the handlers and the planner's batch keep their  *)
(* types.                                                                  *)
THEOREM TypeCorrect == Spec => []TypeOK
  BY InvHolds, PTL DEF Inv

(* The attempt counts of the chain's jobs stay within their budget, and a  *)
(* success is of the newest revision, whatever overrun workers report.     *)
THEOREM StoreInvHolds == Spec => [](JP!AttemptBudget /\ JP!NoLostRevision)
  BY InvHolds, PTL DEF Inv, JP!Inv

(* No job of the chain exists before the output it works on, for any       *)
(* interleaving of workers, planners and operators, and any faults.        *)
THEOREM OutputBeforeFollowUpHolds == Spec => []OutputBeforeFollowUp
  <1>1. ASSUME Inv, NEW a \in Article
        PROVE  /\ Status("gate", a) # "absent" => relevance[a] = "relevant"
               /\ Status("card", a) # "absent" => gate[a] # "none"
               /\ Status("resolve", a) # "absent" => a \in card
               /\ Status("entities", a) # "absent" \/ Status("events", a) # "absent"
                      => a \in linked
    <2>1. \A s \in Stage : <<s, a>> \in J!Job
      BY StoreOps
    <2>2. \A s \in Stage : Status(s, a) # "absent" => Needs(<<s, a>>)
      BY <1>1, <2>1 DEF Inv, Status
    <2> QED BY <2>2 DEF Stage, Needs
  <1>2. Inv => OutputBeforeFollowUp
    BY <1>1 DEF OutputBeforeFollowUp
  <1> QED BY <1>2, InvHolds, PTL

-----------------------------------------------------------------------------
(* The chain as a user of the store.  Follow-ups, the planner and the      *)
(* scripts reach the jobs table through the operations of JobStore only,   *)
(* so, as long as no handler outlives its lease, what is proved of the     *)
(* store holds of the chain.                                               *)

LEMMA EnqueueUses ==
  ASSUME Inv, NEW j \in J!Job, Enqueue(j)
  PROVE  JP!EnqueueArticleJob(j) \/ UNCHANGED JP!vars
  <1>1. job \in [J!Job -> J!Row]
    BY DEF Inv, TypeOK, J!TypeOK
  <1>2. CASE job[j].status \in {"absent", "failed"}
    BY <1>2, StoreOps DEF Enqueue, JP!EnqueueArticleJob
  <1>3. CASE job[j].status \notin {"absent", "failed"}
    <2>1. job' = [job EXCEPT ![j] = job[j]]
      BY <1>3 DEF Enqueue
    <2>2. job' = job
      BY <1>1, <2>1
    <2> QED BY <2>2 DEF Enqueue, JP!vars
  <1> QED BY <1>2, <1>3

LEMMA UsesStore ==
  ASSUME ~MayOverrun, Inv, [Next]_vars
  PROVE  [JP!Next]_(JP!vars)
  <1>1. ASSUME NEW w \in Worker, NEW j \in J!Job, Claim(w, j) PROVE JP!Next
    BY <1>1, StoreOps DEF Claim, JP!Next
  <1>2. ASSUME NEW c \in inflight, Complete(c) \/ Fail(c) \/ Defer(c) \/ Crash(c) PROVE JP!Next
    BY <1>2, StoreOps DEF Complete, Fail, Defer, Crash, JP!Next
  <1>3. ASSUME NEW j \in J!Job, Enqueue(j) PROVE [JP!Next]_(JP!vars)
    BY <1>3, EnqueueUses, StoreOps DEF JP!Next, JP!Produce
  <1>4. ASSUME NEW c \in inflight, Follow(c) \/ FollowEvents(c) PROVE [JP!Next]_(JP!vars)
    <2>1. c.job[1] \in Handled /\ c.job[2] \in Article
      BY SnapshotOf DEF Inv, Knows
    <2>2. /\ Follow(c) => <<NextStage[c.job[1]], c.job[2]>> \in J!Job
          /\ <<"events", c.job[2]>> \in J!Job
      BY <2>1, StoreOps DEF Handled, NextStage, Stage
    <2> QED BY <1>3, <1>4, <2>2 DEF Follow, FollowEvents
  <1>5. ASSUME NEW j \in J!Job, PlanEnqueue(j) PROVE [JP!Next]_(JP!vars)
    BY <1>3, <1>5 DEF PlanEnqueue
  <1>6. ASSUME NEW a \in Article, EnqueueCaseResolution(a) \/ ResetUnconnected(a)
        PROVE  [JP!Next]_(JP!vars)
    <2>1. <<"resolve", a>> \in J!Job
      BY StoreOps DEF Stage
    <2>2. CASE EnqueueCaseResolution(a)
      BY <1>3, <2>1, <2>2 DEF EnqueueCaseResolution
    <2>3. CASE ResetUnconnected(a)
      BY <2>1, <2>3, StoreOps DEF ResetUnconnected, JP!Next, JP!Produce
    <2> QED BY <1>6, <2>2, <2>3
  <1>7. ASSUME NEW j \in J!Job, RecoverFailed(j) PROVE JP!Next
    BY <1>7, StoreOps DEF RecoverFailed, JP!Next, JP!Produce
  <1>8. ASSUME NEW j \in J!Job, RunAfterArrives(j) PROVE JP!Next
    BY <1>8, StoreOps DEF RunAfterArrives, JP!Next, JP!Clock
  <1>9. ASSUME NEW j \in J!Job, LeaseExpires(j) PROVE JP!Next
    <2>1. ~ \E c \in inflight : c.job = j
      BY <1>9 DEF LeaseExpires
    <2>2. JP!LeaseExpires(j)
      BY <1>9, <2>1 DEF LeaseExpires, JP!LeaseExpires
    <2> QED BY <2>2, StoreOps DEF JP!Next, JP!Clock
  <1>10. CASE UNCHANGED store
    BY <1>10 DEF store, JP!vars
  <1>11. ASSUME NEW c \in inflight, Step(c) PROVE [JP!Next]_(JP!vars)
    BY <1>2, <1>4, <1>10, <1>11 DEF Step, Read, Store
  <1>12. \A j : PlanRead(j) => UNCHANGED store
    BY DEF PlanRead
  <1>13. UNCHANGED vars => UNCHANGED store
    BY DEF vars, store
  <1> QED BY <1>1, <1>2, <1>5, <1>6, <1>7, <1>8, <1>9, <1>10, <1>11, <1>12, <1>13 DEF Next

(* The chain implements the job store: whatever the handlers, the planner  *)
(* and the scripts do to the jobs table is an operation of JobStore, as    *)
(* long as no handler outlives its lease (stale_job_timeout).              *)
THEOREM ImplementsJobStore ==
  ASSUME ~MayOverrun
  PROVE  Spec => JP!Spec
  <1>1. Init => JP!Init
    BY StoreOps DEF Init
  <1>2. Inv /\ [Next]_vars => [JP!Next]_(JP!vars)
    BY UsesStore
  <1> QED BY <1>1, <1>2, InvHolds, PTL DEF Spec, JP!Spec

(* So one handler at a time works on a job of the chain, no success is     *)
(* taken back by a late report, and each job is revisioned work (articles  *)
(* and cases/resolution.py over repositories/jobs.py).                     *)
THEOREM WithinLeases ==
  ASSUME ~MayOverrun
  PROVE  Spec => []JP!ExclusiveLease /\ JP!SuccessIsKept /\ JP!ImplementsRevisionedWork
  <1>1. JP!Spec => []JP!ExclusiveLease
    BY JP!ExclusiveLeaseHolds
  <1>2. JP!Spec => JP!SuccessIsKept
    BY JP!SuccessIsKeptHolds
  <1>3. JP!Spec => JP!ImplementsRevisionedWork
    BY JP!Refinement
  <1>4. Spec => JP!Spec
    BY ImplementsJobStore
  <1> QED BY <1>1, <1>2, <1>3, <1>4, PTL
=============================================================================
