-------------------------- MODULE WorkerCycleProofs --------------------------
(***************************************************************************)
(* Proofs about one worker process, for any number of coroutines, any      *)
(* schedule and batch size, any modes and any number of faults.  What a    *)
(* handler decides, and what other processes do, is left open.  What is    *)
(* proved of the job store is used for the jobs of the process (JP).       *)
(***************************************************************************)
EXTENDS WorkerCycle, TLAPS

JP == INSTANCE JobStoreProofs WITH
        MaxRevision <- 1, ran <- [j \in ArticleJob \cup CaseJob |-> 1], overrun <- {}

(* The coroutines that have a claimed job.                                 *)
Held == {"wait"} \cup Executes

ExecType == [index : 1..Len(Schedule), claimed : Nat, stop : BOOLEAN, late : Nat,
             resume : BOOLEAN, records : Nat]

TypeInv ==
    /\ \A c \in inflight : c.worker \in Worker
    /\ run \in [Slot -> Row]
    /\ co \in [Worker -> [pc : Pc, rows : SUBSET Slot]]
    /\ exec \in ExecType

(* The claim lock has one holder, who saw room in the batch and no stop;   *)
(* only its own claim can come late.                                       *)
ClaimInv ==
    /\ exec.claimed <= ClaimLimit
    /\ exec.late <= 1
    /\ exec.late # 0 => exec.stop
    /\ \A w \in Worker : co[w].pc = "claim" =>
          /\ exec.claimed < ClaimLimit
          /\ exec.late = 0
          /\ \A v \in Worker : co[v].pc = "claim" => v = w

(* A job is held by one coroutine, and coroutines live within a cycle.     *)
HeldInv ==
    /\ \A w \in Worker : co[w].pc # "out" => proc.pc = "cycle"
    /\ \A c \in inflight : co[c.worker].pc \in Held
    /\ \A c, d \in inflight : c.worker = d.worker => c = d

(* Whoever has recorded the rate limit holds its lock until resume is set. *)
LimitInv ==
    /\ exec.records \in {0, 1}
    /\ exec.records = 1 => exec.resume \/ \E w \in Worker : co[w].pc = "recording"

(* A row is used by one handler, and it is not given to another while it   *)
(* is in use.                                                              *)
RowsInv ==
    /\ \A w \in Worker : co[w].pc \notin Executes => co[w].rows = {}
    /\ \A v, w \in Worker : v # w => co[v].rows \cap co[w].rows = {}
    /\ \A w \in Worker : \A s \in co[w].rows : run[s] # "none"
    /\ AnswerIsRecorded

Inv == TypeInv /\ ClaimInv /\ HeldInv /\ LimitInv /\ RowsInv

-----------------------------------------------------------------------------
(* Coroutines.                                                             *)

LEMMA Places ==
  /\ Executes \subseteq Held /\ Held \subseteq Pc /\ Executes \subseteq Pc
  /\ {"out", "top", "claim"} \cap Held = {}
  /\ \A p \in Pc : p \in Held \/ p \in {"out", "top", "claim"}
  BY DEF Executes, Held, Pc

LEMMA ScheduleLength == Len(Schedule) \in Nat \ {0}
  BY ScheduleAssumption

LEMMA TurnPlace == ASSUME NEW n \in Scan, TypeInv PROVE n \in 1..Len(Schedule)
  BY ScheduleLength DEF Scan, Turn, TypeInv, ExecType

(* A coroutine moves on, with the same rows.                               *)
LEMMA Moves ==
  ASSUME TypeInv, NEW w \in Worker, NEW p \in Pc, Goto(w, p)
  PROVE  /\ co' \in [Worker -> [pc : Pc, rows : SUBSET Slot]]
         /\ co'[w].pc = p /\ co'[w].rows = co[w].rows
         /\ \A v \in Worker : v # w => co'[v] = co[v]
  BY DEF TypeInv, Goto

(* A coroutine whose handler is over goes back, without rows.              *)
LEMMA GoesBack ==
  ASSUME TypeInv, NEW w \in Worker, Back(w)
  PROVE  /\ co' \in [Worker -> [pc : Pc, rows : SUBSET Slot]]
         /\ co'[w].pc \in {"out", "top"} /\ co'[w].rows = {}
         /\ \A v \in Worker : v # w => co'[v] = co[v]
  <1>1. (IF proc.mode = "single" THEN "out" ELSE "top") \in {"out", "top"}
    OBVIOUS
  <1> QED BY <1>1 DEF TypeInv, Back, Pc

LEMMA FreshCoroutines ==
  ASSUME NEW p \in Pc
  PROVE  /\ Idle(p) \in [Worker -> [pc : Pc, rows : SUBSET Slot]]
         /\ \A w \in Worker : Idle(p)[w].pc = p /\ Idle(p)[w].rows = {}
  BY DEF Idle

LEMMA FreshExecutor ==
  /\ NewExecutor \in ExecType
  /\ NewExecutor.claimed = 0 /\ NewExecutor.late = 0 /\ NewExecutor.records = 0
  BY ScheduleLength DEF NewExecutor, ExecType

(* The fields the steps assign.                                            *)
LEMMA SetStop ==
  ASSUME NEW e \in ExecType
  PROVE  LET x == [e EXCEPT !.stop = TRUE]
         IN  /\ x \in ExecType /\ x.stop /\ x.resume = e.resume
             /\ x.claimed = e.claimed /\ x.late = e.late /\ x.records = e.records
  BY DEF ExecType

LEMMA SetResume ==
  ASSUME NEW e \in ExecType
  PROVE  LET x == [e EXCEPT !.resume = TRUE]
         IN  /\ x \in ExecType /\ x.stop = e.stop /\ x.resume
             /\ x.claimed = e.claimed /\ x.late = e.late /\ x.records = e.records
  BY DEF ExecType

LEMMA SetRecords ==
  ASSUME NEW e \in ExecType, NEW n \in Nat
  PROVE  LET x == [e EXCEPT !.records = n]
         IN  /\ x \in ExecType /\ x.stop = e.stop /\ x.resume = e.resume
             /\ x.claimed = e.claimed /\ x.late = e.late /\ x.records = n
  BY DEF ExecType

-----------------------------------------------------------------------------
(* The rows of the handlers.                                               *)

LEMMA CleanedRows ==
  ASSUME run \in [Slot -> Row], NEW old \in SUBSET PendingRows
  PROVE  /\ Cleaned(old) \in [Slot -> Row]
         /\ \A s \in Slot : /\ run[s] # "none" => Cleaned(old)[s] # "none"
                            /\ run[s] \in {"succeeded", "failed"} => Cleaned(old)[s] = run[s]
  BY DEF Cleaned, PendingRows, Pending, Row

LEMMA ForgottenRows ==
  ASSUME NEW table \in [Slot -> Row], NEW rows
  PROVE  /\ Forget(rows, table) \in [Slot -> Row]
         /\ \A s \in Slot \ rows : Forget(rows, table)[s] = table[s]
  BY DEF Forget, Row

LEMMA RewrittenRows ==
  ASSUME TypeInv, NEW w \in Worker, NEW row \in Row
  PROVE  /\ Rewritten(w, row) \in [Slot -> Row]
         /\ \A s \in Slot \ co[w].rows : Rewritten(w, row)[s] = run[s]
         /\ \A s \in co[w].rows : Rewritten(w, row)[s] = row
  BY DEF TypeInv, Rewritten, Row

(* What an answer makes of the row goes with what the handler is told.     *)
LEMMA AnswerRow ==
  ASSUME Inv, NEW w \in Worker, NEW out, NEW row \in Row, Answered(w, out, row)
  PROVE  /\ co[w].pc \in {"request", "repair"}
         /\ row # "none"
         /\ out = "output" => row = "succeeded"
         /\ out = "limited" => row = "failed"
  <1>1. PICK s \in co[w].rows :
          \/ co[w].pc = "request" /\ <<out, row>> \in FirstAnswer(run[s])
          \/ /\ co[w].pc = "repair"
             /\ \E audit \in AuditTask(TypeOf[JobOf(w)]) : <<out, row>> \in RepairAnswer(run[s], audit)
    BY DEF Answered
  <1>2. run[s] # "none"
    BY DEF Inv, RowsInv
  <1>3. CASE co[w].pc = "request" /\ <<out, row>> \in FirstAnswer(run[s])
    BY <1>2, <1>3 DEF FirstAnswer, Finish
  <1>4. ASSUME co[w].pc = "repair", NEW audit, <<out, row>> \in RepairAnswer(run[s], audit)
        PROVE  /\ row # "none"
               /\ out = "output" => row = "succeeded"
               /\ out = "limited" => row = "failed"
    BY <1>2, <1>4 DEF RepairAnswer, StillInvalid, Finish
  <1> QED BY <1>1, <1>3, <1>4

-----------------------------------------------------------------------------
(* Claims.                                                                 *)

LEMMA ClaimAdds ==
  ASSUME Inv, NEW w \in Worker, NEW j, J!Claim(w, j)
  PROVE  /\ \A c \in inflight : c.worker # w
         /\ \E c : c.worker = w /\ inflight' = inflight \cup {c}
  <1> DEFINE c == [worker |-> w, job |-> j, attempt |-> job[j].attempt + 1,
                   revision |-> 1]
  <1>1. \A d \in inflight : d.worker # w
    BY DEF J!Claim
  <1> QED BY <1>1 DEF J!Claim

-----------------------------------------------------------------------------
(* Steps of the process and of the environment.                            *)

LEMMA OutsideCycle ==
  ASSUME Inv, proc.pc # "cycle"
  PROVE  inflight = {} /\ \A w \in Worker : co[w].pc = "out"
  BY Places DEF Inv, TypeInv, HeldInv

(* Nothing but the cleanup of old rows concerns the cycle.                 *)
LEMMA Quiet ==
  ASSUME Inv, NEW old \in SUBSET PendingRows,
         run' = Cleaned(old) \/ UNCHANGED run,
         UNCHANGED <<inflight, exec, co>>,
         UNCHANGED proc \/ proc.pc # "cycle"
  PROVE  Inv'
  <1>1. /\ run' \in [Slot -> Row]
        /\ \A s \in Slot : /\ run[s] # "none" => run'[s] # "none"
                           /\ run[s] \in {"succeeded", "failed"} => run'[s] = run[s]
    BY CleanedRows DEF Inv, TypeInv
  <1>2. TypeInv'
    BY <1>1 DEF Inv, TypeInv
  <1>3. ClaimInv' /\ HeldInv' /\ LimitInv'
    BY OutsideCycle DEF Inv, ClaimInv, HeldInv, LimitInv
  <1>4. RowsInv'
    <2>1. \A w \in Worker : co[w].rows \subseteq Slot
      BY DEF Inv, TypeInv
    <2> QED BY <1>1, <2>1 DEF Inv, RowsInv, AnswerIsRecorded
  <1> QED BY <1>2, <1>3, <1>4 DEF Inv

(* A cycle begins, or has ended.                                           *)
LEMMA NoJobs ==
  ASSUME Inv, proc'.pc = "cycle" \/ \A w \in Worker : co'[w].pc = "out",
 inflight' = {}, exec' = NewExecutor, UNCHANGED run,
         co' \in [Worker -> [pc : Pc, rows : SUBSET Slot]],
         \A w \in Worker : co'[w].pc \in {"out", "top"} /\ co'[w].rows = {}
  PROVE  Inv'
  <1>1. TypeInv'
    BY FreshExecutor DEF Inv, TypeInv
  <1>2. ClaimInv' /\ HeldInv' /\ LimitInv'
    BY FreshExecutor, ClaimLimitAssumption DEF ClaimInv, HeldInv, LimitInv
  <1>3. RowsInv'
    BY DEF RowsInv, AnswerIsRecorded
  <1> QED BY <1>1, <1>2, <1>3 DEF Inv

LEMMA StartStep ==
  ASSUME Inv, NEW old \in SUBSET PendingRows, Start(old)
  PROVE  Inv'
  <1>1. CASE \E mode \in Mode \ {"single"} : StartProcess(mode, old)
    <2>1. proc.pc # "cycle" /\ run' = Cleaned(old) /\ UNCHANGED <<inflight, exec, co>>
      BY <1>1 DEF StartProcess
    <2> QED BY <2>1, OutsideCycle, Quiet
  <1>2. ASSUME NEW w \in Worker, NEW j \in J!Job, StartSingle(w, j, old) PROVE Inv'
    <2> USE <1>2
    <2> DEFINE e == [NewExecutor EXCEPT !.stop = TRUE]
    <2>1. inflight = {}
      BY OutsideCycle DEF StartSingle
    <2>2. PICK c : c.worker = w /\ inflight' = {c}
      BY <2>1, ClaimAdds DEF StartSingle
    <2>3. /\ co' \in [Worker -> [pc : Pc, rows : SUBSET Slot]]
          /\ co'[w].pc = "handling"
          /\ \A v \in Worker : co'[v].rows = {} /\ co'[v].pc \in {"out", "handling"}
      BY DEF StartSingle, Idle, Pc, Executes
    <2>9. exec' = e
      BY DEF StartSingle
    <2>4. /\ e \in ExecType
          /\ e.claimed = 0 /\ e.late = 0 /\ e.records = 0
      BY FreshExecutor, SetStop
    <2> HIDE DEF e
    <2>5. TypeInv'
      BY <2>2, <2>3, <2>4, <2>9, CleanedRows DEF Inv, TypeInv, StartSingle
    <2>6. ClaimInv' /\ LimitInv'
      BY <2>3, <2>4, <2>9, ClaimLimitAssumption DEF ClaimInv, LimitInv
    <2>7. HeldInv'
      BY <2>2, <2>3 DEF HeldInv, StartSingle, Held, Executes
    <2>8. RowsInv'
      BY <2>3 DEF RowsInv, AnswerIsRecorded
    <2> QED BY <2>5, <2>6, <2>7, <2>8 DEF Inv
  <1> QED BY <1>1, <1>2 DEF Start

LEMMA CycleStep ==
  ASSUME Inv, BeginCycle \/ SkipCycle \/ EndCycle \/ Die
  PROVE  Inv'
  <1>1. CASE BeginCycle
    <2>1. inflight' = {}
      BY <1>1, OutsideCycle DEF BeginCycle
    <2> QED BY <1>1, <2>1, NoJobs, FreshCoroutines DEF BeginCycle, Pc
  <1>2. CASE SkipCycle
    BY <1>2, OutsideCycle, Quiet DEF SkipCycle
  <1>3. CASE EndCycle
    <2>1. inflight' = {}
      BY <1>3, Places DEF EndCycle, Inv, HeldInv, TypeInv
    <2>2. \A w \in Worker : co'[w].pc = "out" /\ co'[w].rows = {}
      BY <1>3, Places DEF EndCycle, Inv, RowsInv
    <2> QED BY <1>3, <2>1, <2>2, NoJobs DEF EndCycle, Inv, TypeInv
  <1>4. CASE Die
    BY <1>4, NoJobs, FreshCoroutines DEF Die, Pc
  <1> QED BY <1>1, <1>2, <1>3, <1>4

LEMMA EnvironmentStep ==
  ASSUME Inv,
         \/ \E old \in SUBSET PendingRows : OtherProcessCleans(old)
         \/ OtherProcessIsLimited
         \/ \E j \in J!Job : Produce(j)
         \/ Clock
  PROVE  Inv'
  <1>1. ASSUME NEW old \in SUBSET PendingRows, OtherProcessCleans(old) PROVE Inv'
    BY <1>1, Quiet DEF OtherProcessCleans
  <1>2. CASE OtherProcessIsLimited
    BY <1>2, Quiet DEF OtherProcessIsLimited
  <1>3. ASSUME NEW j \in J!Job, Produce(j) PROVE Inv'
    BY <1>3, Quiet DEF Produce, J!EnqueueArticleJob, J!EnsureCaseJob
  <1>4. CASE Clock
    BY <1>4, Quiet DEF Clock, CooldownEnds, RunAfterArrives, LeaseExpires,
       J!RunAfterArrives, J!LeaseExpires
  <1> QED BY <1>1, <1>2, <1>3, <1>4

-----------------------------------------------------------------------------
(* Steps of the coroutines.                                                *)

(* Only coroutine w moves; the rows it has afterwards are its own, or were *)
(* unused, and suit the place it has come to.                              *)
OnlyMoves(w) ==
    /\ co' \in [Worker -> [pc : Pc, rows : SUBSET Slot]]
    /\ \A v \in Worker : v # w => co'[v] = co[v]

LEMMA RowsKept ==
  ASSUME Inv, NEW w \in Worker, OnlyMoves(w),
         \A s \in Slot \ (co[w].rows \cup Unused) : run'[s] = run[s],
         co'[w].rows \subseteq co[w].rows \cup Unused,
         co'[w].pc \notin Executes => co'[w].rows = {},
         \A s \in co'[w].rows :
             /\ run'[s] # "none"
             /\ co'[w].pc = "handling" => run'[s] = "succeeded"
             /\ co'[w].pc \in {"limited", "recording"} => run'[s] = "failed"
  PROVE  RowsInv'
  <1>1. \A v \in Worker : co[v].rows \subseteq Slot /\ co[v].rows \cap Unused = {}
    BY DEF Inv, TypeInv, RowsInv, Unused
  <1>2. ASSUME NEW v \in Worker, v # w
        PROVE  /\ co'[v] = co[v]
               /\ co[v].rows \cap co[w].rows = {}
               /\ co'[v].rows \cap co'[w].rows = {}
               /\ \A s \in co[v].rows : run'[s] = run[s]
    BY <1>1, <1>2 DEF OnlyMoves, Inv, RowsInv
  <1>3. \A v \in Worker : co'[v].pc \notin Executes => co'[v].rows = {}
    BY <1>2 DEF Inv, RowsInv
  <1>4. \A u, v \in Worker : u # v => co'[u].rows \cap co'[v].rows = {}
    BY <1>2 DEF Inv, RowsInv
  <1>5. \A v \in Worker : \A s \in co'[v].rows : run'[s] # "none"
    BY <1>2 DEF Inv, RowsInv
  <1>6. AnswerIsRecorded'
    BY <1>2 DEF Inv, RowsInv, AnswerIsRecorded
  <1> QED BY <1>3, <1>4, <1>5, <1>6 DEF RowsInv

(* The same for the other parts, one lemma for each thing that may change. *)
LEMMA ExecutorKept ==
  ASSUME Inv, NEW w \in Worker, OnlyMoves(w), co'[w].pc # "claim",
         co[w].pc # "recording" \/ exec'.resume,
         exec' \in ExecType,
         exec'.claimed = exec.claimed, exec'.late = exec.late, exec'.records = exec.records,
         exec.stop => exec'.stop, exec.resume => exec'.resume
  PROVE  ClaimInv' /\ LimitInv'
  <1>1. ClaimInv'
    BY DEF Inv, ClaimInv, OnlyMoves, TypeInv
  <1>2. ASSUME exec'.records = 1, ~exec'.resume PROVE \E v \in Worker : co'[v].pc = "recording"
    <2>1. PICK v \in Worker : co[v].pc = "recording"
      BY <1>2 DEF Inv, LimitInv, TypeInv
    <2> QED BY <1>2, <2>1 DEF OnlyMoves
  <1> QED BY <1>1, <1>2 DEF Inv, LimitInv

LEMMA StillHeld ==
  ASSUME Inv, NEW w \in Worker, OnlyMoves(w), co[w].pc \in Held => co'[w].pc \in Held,
         co[w].pc # "out",
         UNCHANGED <<inflight, proc>>
  PROVE  HeldInv'
  BY DEF Inv, TypeInv, HeldInv, OnlyMoves

LEMMA Released ==
  ASSUME Inv, NEW w \in Worker, OnlyMoves(w), UNCHANGED proc, co[w].pc # "out",
         NEW c \in Claim(w), inflight' = inflight \ {c}
  PROVE  HeldInv' /\ \A d \in inflight' : d.worker \in Worker
  BY DEF Inv, TypeInv, HeldInv, OnlyMoves, Claim

LEMMA ReportReleases ==
  ASSUME NEW w, \E c \in Claim(w) : J!Complete(c) \/ J!Fail(c) \/ J!Defer(c)
  PROVE  \E c \in Claim(w) : inflight' = inflight \ {c}
  BY DEF J!Complete, J!Fail, J!Defer

LEMMA MovesOnly ==
  ASSUME TypeInv, NEW w \in Worker,
         Back(w) \/ \E p \in Pc : Goto(w, p)
  PROVE  OnlyMoves(w)
  BY Moves, GoesBack DEF OnlyMoves

(* The handler is over, its job reported.                                  *)
LEMMA EndStep ==
  ASSUME Inv, NEW w \in Worker, Back(w), UNCHANGED proc, co[w].pc # "out",
         \E c \in Claim(w) : J!Complete(c) \/ J!Fail(c) \/ J!Defer(c),
         NEW table \in [Slot -> Row], run' = Forget(co[w].rows, table),
         \A s \in Slot \ co[w].rows : table[s] = run[s],
         ClaimInv' /\ LimitInv',
         exec' \in ExecType
  PROVE  Inv'
  <1>1. /\ OnlyMoves(w)
        /\ co'[w].pc \in {"out", "top"} /\ co'[w].rows = {}
    BY MovesOnly, GoesBack DEF Inv
  <1>2. PICK c \in Claim(w) : inflight' = inflight \ {c}
    BY ReportReleases
  <1>3. HeldInv' /\ \A d \in inflight' : d.worker \in Worker
    BY <1>1, <1>2, Released
  <1>4. /\ run' \in [Slot -> Row]
        /\ \A s \in Slot \ co[w].rows : run'[s] = run[s]
    BY ForgottenRows
  <1>5. RowsInv'
    BY <1>1, <1>4, RowsKept
  <1>6. TypeInv'
    BY <1>1, <1>3, <1>4 DEF TypeInv, OnlyMoves
  <1> QED BY <1>3, <1>5, <1>6 DEF Inv

-----------------------------------------------------------------------------
LEMMA ClaimingStep ==
  ASSUME Inv, NEW w \in Worker, Claiming(w)
  PROVE  Inv'
  <1>1. CASE EnterClaim(w)
    <2> DEFINE p == IF exec.stop \/ exec.claimed >= ClaimLimit THEN "out" ELSE "claim"
    <2>1. p \in {"out", "claim"} /\ (p = "claim" => ~exec.stop /\ ~(exec.claimed >= ClaimLimit))
      OBVIOUS
    <2>2. /\ Goto(w, p) /\ co[w].pc = "top" /\ UNCHANGED <<inflight, run, proc, exec>>
          /\ \A v \in Worker : co[v].pc # "claim"
      BY <1>1 DEF EnterClaim
    <2> HIDE DEF p
    <2>3. /\ OnlyMoves(w) /\ co'[w].pc = p /\ co'[w].rows = co[w].rows
          /\ \A v \in Worker : v # w => co'[v] = co[v]
      BY <2>1, <2>2, Moves DEF Inv, Pc, OnlyMoves
    <2>4. TypeInv'
      BY <2>2, <2>3 DEF Inv, TypeInv, OnlyMoves
    <2>5. ClaimInv'
      <3>1. exec.claimed \in Nat
        BY DEF Inv, TypeInv, ExecType
      <3> QED BY <2>1, <2>2, <2>3, <3>1, ClaimLimitAssumption DEF Inv, ClaimInv
    <2>6. LimitInv'
      BY <2>2, <2>3 DEF Inv, LimitInv
    <2>7. HeldInv'
      BY <2>2, <2>3, Places, StillHeld
    <2>8. RowsInv'
      BY <2>1, <2>2, <2>3, RowsKept, Places DEF Inv, RowsInv
    <2> QED BY <2>4, <2>5, <2>6, <2>7, <2>8 DEF Inv
  <1>2. CASE ClaimNone(w)
    <2>2. Goto(w, "out") /\ co[w].pc = "claim" /\ UNCHANGED <<inflight, run, proc, exec>>
      BY <1>2 DEF ClaimNone
    <2>3. OnlyMoves(w) /\ co'[w].pc = "out" /\ co'[w].rows = co[w].rows
      BY <2>2, Moves DEF Inv, Pc, OnlyMoves
    <2>4. TypeInv'
      BY <2>2, <2>3 DEF Inv, TypeInv, OnlyMoves
    <2>5. ClaimInv' /\ LimitInv'
      BY <2>2, <2>3, ExecutorKept DEF Inv, TypeInv
    <2>7. HeldInv'
      BY <2>2, <2>3, Places, StillHeld
    <2>8. RowsInv'
      BY <2>2, <2>3, RowsKept, Places DEF Inv, RowsInv
    <2> QED BY <2>4, <2>5, <2>7, <2>8 DEF Inv
  <1>3. ASSUME NEW j \in J!Job, ClaimNext(w, j) PROVE Inv'
    <2>1. PICK n \in Scan :
            /\ co[w].pc = "claim" /\ J!Claim(w, j) /\ Goto(w, "wait") /\ UNCHANGED <<run, proc>>
            /\ exec' = [exec EXCEPT !.index = (n % Len(Schedule)) + 1,
                                    !.claimed = exec.claimed + 1,
                                    !.late = exec.late + (IF exec.stop THEN 1 ELSE 0)]
      BY <1>3 DEF ClaimNext
    <2>2. (n % Len(Schedule)) + 1 \in 1..Len(Schedule)
      BY ScheduleLength, TurnPlace DEF Inv
    <2>3. /\ exec.claimed \in Nat /\ exec.claimed < ClaimLimit /\ exec.late = 0
          /\ \A v \in Worker : co[v].pc = "claim" => v = w
      BY <2>1 DEF Inv, TypeInv, ClaimInv, ExecType
    <2> DEFINE late == exec.late + (IF exec.stop THEN 1 ELSE 0)
    <2>4. late \in {0, 1} /\ (late = 1 => exec.stop)
      BY <2>3
    <2>5. exec' = [exec EXCEPT !.index = (n % Len(Schedule)) + 1, !.claimed = exec.claimed + 1,
                               !.late = late]
      BY <2>1
    <2> HIDE DEF late
    <2>6. /\ exec' \in ExecType
          /\ exec'.claimed = exec.claimed + 1 /\ exec'.late = late
          /\ exec'.stop = exec.stop /\ exec'.resume = exec.resume /\ exec'.records = exec.records
      <3> DEFINE i == (n % Len(Schedule)) + 1
                 k == exec.claimed + 1
      <3>1. i \in 1..Len(Schedule) /\ k \in Nat /\ late \in Nat /\ exec \in ExecType
        BY <2>2, <2>3, <2>4 DEF Inv, TypeInv
      <3>2. exec' = [exec EXCEPT !.index = i, !.claimed = k, !.late = late]
        BY <2>5
      <3> HIDE DEF i
      <3>3. k = exec.claimed + 1
        OBVIOUS
      <3> HIDE DEF k
      <3> QED BY ONLY <3>1, <3>2, <3>3 DEF ExecType
    <2>7. /\ OnlyMoves(w) /\ co'[w].pc = "wait" /\ co'[w].rows = co[w].rows
          /\ \A v \in Worker : v # w => co'[v] = co[v]
      BY <2>1, Moves DEF Inv, Pc, OnlyMoves
    <2>8. PICK c : c.worker = w /\ inflight' = inflight \cup {c}
      BY <2>1, ClaimAdds
    <2>9. TypeInv'
      BY <2>1, <2>6, <2>7, <2>8 DEF Inv, TypeInv, OnlyMoves
    <2>10. ClaimInv'
      BY <2>3, <2>4, <2>6, <2>7, ClaimLimitAssumption DEF ClaimInv
    <2>11. LimitInv'
      BY <2>1, <2>6, <2>7 DEF Inv, LimitInv
    <2>12. HeldInv'
      <3>1. \A d \in inflight : d.worker # w
        BY <2>1, ClaimAdds
      <3>2. proc.pc = "cycle" /\ proc' = proc
        BY <2>1 DEF Inv, HeldInv
      <3> QED BY <2>7, <2>8, <3>1, <3>2, Places DEF Inv, TypeInv, HeldInv, Held
    <2>13. RowsInv'
      BY <2>1, <2>7, RowsKept, Places DEF Inv, RowsInv
    <2> QED BY <2>9, <2>10, <2>11, <2>12, <2>13 DEF Inv
  <1> QED BY <1>1, <1>2, <1>3 DEF Claiming

(* Claiming is stopped, or the executor is left alone.                     *)
LEMMA ExecutorAfter ==
  ASSUME Inv, StopClaiming \/ UNCHANGED exec
  PROVE  /\ exec' \in ExecType
         /\ exec'.claimed = exec.claimed /\ exec'.late = exec.late /\ exec'.records = exec.records
         /\ exec.stop => exec'.stop
         /\ exec.resume => exec'.resume
  <1>1. exec \in ExecType
    BY DEF Inv, TypeInv
  <1>2. CASE StopClaiming
    BY <1>1, <1>2, SetStop DEF StopClaiming
  <1> QED BY <1>1, <1>2

(* A handler starts, asks, or is answered.                                 *)
LEMMA HandlerMoves ==
  ASSUME Inv, NEW w \in Worker, co[w].pc \in Held, co[w].pc # "recording",
         OnlyMoves(w), co'[w].pc \in Executes \ {"recording"},
         StopClaiming \/ UNCHANGED exec, UNCHANGED <<inflight, proc>>,
         run' \in [Slot -> Row], RowsInv'
  PROVE  Inv'
  <1>1. co'[w].pc # "claim" /\ co[w].pc # "out" /\ co'[w].pc \in Held
    BY Places
  <1>2. ClaimInv' /\ LimitInv' /\ exec' \in ExecType
    BY <1>1, ExecutorAfter, ExecutorKept
  <1>3. HeldInv'
    BY <1>1, StillHeld
  <1>4. TypeInv'
    BY <1>2 DEF Inv, TypeInv, OnlyMoves
  <1> QED BY <1>2, <1>3, <1>4 DEF Inv

LEMMA StartHandlerStep ==
  ASSUME Inv, NEW w \in Worker, StartHandler(w)
  PROVE  Inv'
  <1>1. /\ Goto(w, "handling") /\ co[w].pc = "wait" /\ UNCHANGED <<inflight, run, proc, exec>>
    BY DEF StartHandler
  <1>2. OnlyMoves(w) /\ co'[w].pc = "handling" /\ co'[w].rows = co[w].rows
    BY <1>1, Moves, Places DEF Inv, OnlyMoves, Executes
  <1>3. co[w].rows = {}
    BY <1>1 DEF Inv, RowsInv, Executes
  <1>4. RowsInv'
    BY <1>1, <1>2, <1>3, RowsKept
  <1> QED BY <1>1, <1>2, <1>4, HandlerMoves DEF Held, Executes, Inv, TypeInv

LEMMA AskStep ==
  ASSUME Inv, NEW w \in Worker, Ask(w)
  PROVE  Inv'
  <1> DEFINE s == CHOOSE s \in Unused : TRUE
  <1>1. s \in Unused /\ Unused \subseteq Slot
    BY DEF Ask, Unused
  <1>2. /\ run' = [Forget(co[w].rows, run) EXCEPT ![s] = "pending"]
        /\ co' = [co EXCEPT ![w] = [pc |-> "request", rows |-> {s}]]
        /\ co[w].pc = "handling" /\ UNCHANGED <<inflight, proc, exec>>
    BY DEF Ask
  <1> HIDE DEF s
  <1>3. /\ OnlyMoves(w) /\ co'[w].pc = "request" /\ co'[w].rows = {s}
    BY <1>1, <1>2 DEF OnlyMoves, Inv, TypeInv, Pc, Executes
  <1>4. /\ Forget(co[w].rows, run) \in [Slot -> Row]
        /\ \A t \in Slot \ co[w].rows : Forget(co[w].rows, run)[t] = run[t]
    BY ForgottenRows DEF Inv, TypeInv
  <1>5. /\ run' \in [Slot -> Row] /\ run'[s] = "pending"
        /\ \A t \in Slot \ (co[w].rows \cup Unused) : run'[t] = run[t]
    BY <1>1, <1>2, <1>4 DEF Row
  <1>6. RowsInv'
    BY <1>1, <1>3, <1>5, RowsKept DEF Executes
  <1> QED BY <1>2, <1>3, <1>5, <1>6, HandlerMoves DEF Held, Executes

LEMMA ReceiveStep ==
  ASSUME Inv, NEW w \in Worker, Receive(w)
  PROVE  Inv'
  <1>1. PICK out \in {"output", "repair", "limited"}, row \in Row :
          /\ Answered(w, out, row)
          /\ run' = Rewritten(w, row)
          /\ Goto(w, IF out = "output" THEN "handling" ELSE out)
          /\ StopClaiming \/ UNCHANGED exec
          /\ UNCHANGED <<inflight, proc>>
    BY DEF Receive
  <1>2. /\ co[w].pc \in {"request", "repair"}
        /\ row # "none"
        /\ out = "output" => row = "succeeded"
        /\ out = "limited" => row = "failed"
    BY <1>1, AnswerRow
  <1> DEFINE p == IF out = "output" THEN "handling" ELSE out
  <1>3. /\ p \in {"handling", "repair", "limited"} /\ Goto(w, p)
        /\ p = "handling" => row = "succeeded"
        /\ p = "limited" => row = "failed"
    BY <1>1, <1>2
  <1> HIDE DEF p
  <1>4. p \in Pc /\ p \in Executes \ {"recording"}
    BY <1>3, Places DEF Executes
  <1>5. OnlyMoves(w) /\ co'[w].pc = p /\ co'[w].rows = co[w].rows
    BY <1>3, <1>4, Moves DEF Inv, OnlyMoves
  <1>6. /\ run' \in [Slot -> Row]
        /\ \A s \in Slot \ co[w].rows : run'[s] = run[s]
        /\ \A s \in co[w].rows : run'[s] = row
    BY <1>1, RewrittenRows DEF Inv
  <1>7. RowsInv'
    BY <1>2, <1>3, <1>4, <1>5, <1>6, RowsKept
  <1> QED BY <1>1, <1>2, <1>4, <1>5, <1>6, <1>7, HandlerMoves DEF Held, Executes

LEMMA RecordLimitStep ==
  ASSUME Inv, NEW w \in Worker, RecordLimit(w)
  PROVE  Inv'
  <1>1. /\ co[w].pc = "limited" /\ ~exec.resume /\ \A v \in Worker : co[v].pc # "recording"
        /\ exec' = [exec EXCEPT !.records = exec.records + 1]
        /\ Goto(w, "recording") /\ UNCHANGED <<inflight, run, proc>>
    BY DEF RecordLimit
  <1>2. exec.records = 0 /\ exec \in ExecType
    BY <1>1 DEF Inv, LimitInv, TypeInv
  <1>3. /\ exec' \in ExecType /\ exec'.records = 1
        /\ exec'.claimed = exec.claimed /\ exec'.late = exec.late /\ exec'.stop = exec.stop
    BY <1>1, <1>2, SetRecords
  <1>4. /\ OnlyMoves(w) /\ co'[w].pc = "recording" /\ co'[w].rows = co[w].rows
    BY <1>1, Moves, Places DEF Inv, OnlyMoves, Executes
  <1>5. TypeInv'
    BY <1>1, <1>3, <1>4 DEF Inv, TypeInv, OnlyMoves
  <1>6. ClaimInv'
    BY <1>3, <1>4 DEF Inv, ClaimInv, OnlyMoves
  <1>7. LimitInv'
    BY <1>3, <1>4 DEF LimitInv
  <1>8. HeldInv'
    BY <1>1, <1>4, StillHeld DEF Held, Executes
  <1>9. RowsInv'
    <2>1. \A s \in co[w].rows : run[s] = "failed"
      BY <1>1 DEF Inv, RowsInv, AnswerIsRecorded
    <2> QED BY <1>1, <1>4, <2>1, RowsKept DEF Executes
  <1> QED BY <1>5, <1>6, <1>7, <1>8, <1>9 DEF Inv

(* The steps in which a job is reported.                                   *)
LEMMA ReportStep ==
  ASSUME Inv, NEW w \in Worker,
         HandlerEnds(w) \/ RequestFails(w) \/ DependencyFails(w) \/ DeferLimited(w)
  PROVE  Inv'
  <1>1. /\ Back(w) /\ UNCHANGED proc
        /\ \E c \in Claim(w) : J!Complete(c) \/ J!Fail(c) \/ J!Defer(c)
    BY DEF HandlerEnds, RequestFails, DependencyFails, DeferLimited
  <1>2. OnlyMoves(w) /\ co'[w].pc # "claim"
    BY <1>1, MovesOnly, GoesBack DEF Inv
  <1>3. \/ run' = Forget(co[w].rows, run)
        \/ \E row \in Row : run' = Forget(co[w].rows, Rewritten(w, row))
    BY DEF HandlerEnds, RequestFails, DependencyFails, DeferLimited
  <1>4. PICK table \in [Slot -> Row] :
          /\ run' = Forget(co[w].rows, table)
          /\ \A s \in Slot \ co[w].rows : table[s] = run[s]
    <2>1. CASE run' = Forget(co[w].rows, run)
      BY <2>1 DEF Inv, TypeInv
    <2>2. ASSUME NEW row \in Row, run' = Forget(co[w].rows, Rewritten(w, row))
          PROVE  \E table \in [Slot -> Row] :
                     /\ run' = Forget(co[w].rows, table)
                     /\ \A s \in Slot \ co[w].rows : table[s] = run[s]
      BY <2>2, RewrittenRows DEF Inv
    <2> QED BY <1>3, <2>1, <2>2
  <1>5. CASE HandlerEnds(w) \/ RequestFails(w) \/ DependencyFails(w)
    <2>1. co[w].pc \in {"handling", "request", "repair"}
      BY <1>5, AnswerRow DEF HandlerEnds, RequestFails, DependencyFails
    <2>2. StopClaiming \/ UNCHANGED exec
      BY <1>5 DEF HandlerEnds, RequestFails, DependencyFails
    <2>3. ClaimInv' /\ LimitInv' /\ exec' \in ExecType
      BY <1>2, <2>1, <2>2, ExecutorAfter, ExecutorKept
    <2> QED BY <1>1, <1>4, <2>1, <2>3, EndStep
  <1>6. CASE DeferLimited(w)
    <2>1. co[w].pc \in {"limited", "recording"} /\ exec' = [exec EXCEPT !.resume = TRUE]
      BY <1>6 DEF DeferLimited
    <2>2. exec \in ExecType
      BY DEF Inv, TypeInv
    <2>3. /\ exec' \in ExecType /\ exec'.stop = exec.stop /\ exec'.resume
          /\ exec'.claimed = exec.claimed /\ exec'.late = exec.late /\ exec'.records = exec.records
      BY <2>1, <2>2, SetResume
    <2>4. ClaimInv' /\ LimitInv'
      BY <1>2, <2>3, ExecutorKept
    <2> QED BY <1>1, <1>4, <2>1, <2>3, <2>4, EndStep
  <1> QED BY <1>5, <1>6

-----------------------------------------------------------------------------
LEMMA InitInv == Init => Inv
  <1> SUFFICES ASSUME Init PROVE Inv
    OBVIOUS
  <1>1. /\ co \in [Worker -> [pc : Pc, rows : SUBSET Slot]]
        /\ \A w \in Worker : co[w].pc = "out" /\ co[w].rows = {}
    BY FreshCoroutines DEF Init, Pc
  <1>2. run \in [Slot -> Row]
    BY DEF Init, InitRuns, Row
  <1>3. exec = NewExecutor /\ inflight = {}
    BY DEF Init
  <1>4. TypeInv
    BY <1>1, <1>2, <1>3, FreshExecutor DEF TypeInv
  <1>5. ClaimInv /\ HeldInv /\ LimitInv /\ RowsInv
    BY <1>1, <1>3, FreshExecutor, ClaimLimitAssumption
       DEF ClaimInv, HeldInv, LimitInv, RowsInv, AnswerIsRecorded
  <1> QED BY <1>4, <1>5 DEF Inv

LEMMA NextInv == Inv /\ [Next]_vars => Inv'
  <1> SUFFICES ASSUME Inv, [Next]_vars PROVE Inv'
    OBVIOUS
  <1>1. ASSUME NEW old \in SUBSET PendingRows, Start(old) PROVE Inv'
    BY <1>1, StartStep
  <1>2. CASE BeginCycle \/ SkipCycle \/ EndCycle \/ Die
    BY <1>2, CycleStep
  <1>3. CASE \/ \E old \in SUBSET PendingRows : OtherProcessCleans(old)
             \/ OtherProcessIsLimited
             \/ \E j \in J!Job : Produce(j)
             \/ Clock
    BY <1>3, EnvironmentStep
  <1>4. ASSUME NEW w \in Worker,
               Claiming(w) \/ Ask(w) \/ Waits(w) \/ HandlerEnds(w) \/ DependencyFails(w)
        PROVE  Inv'
    BY <1>4, ClaimingStep, AskStep, StartHandlerStep, ReceiveStep, RecordLimitStep, ReportStep
       DEF Waits
  <1>5. CASE UNCHANGED vars
    <2>1. {} \in SUBSET PendingRows /\ UNCHANGED <<run, inflight, exec, co, proc>>
      BY <1>5 DEF vars
    <2> QED BY <2>1, Quiet
  <1> QED BY <1>1, <1>2, <1>3, <1>4, <1>5 DEF Next

LEMMA InvHolds == Spec => []Inv
  BY InitInv, NextInv, PTL DEF Spec

-----------------------------------------------------------------------------
(* The batch is bounded, and at most one claim completes after a 429 or an *)
(* outage has stopped claiming, whatever the number of coroutines: the     *)
(* claim lock of _worker.                                                  *)
THEOREM ClaimsStopHolds == Spec => []ClaimsStop
  <1>1. Inv => ClaimsStop
    BY DEF Inv, ClaimInv, ClaimsStop
  <1> QED BY <1>1, InvHolds, PTL

(* No coroutine leaves a cycle with a claimed job, and no cycle ends while *)
(* one is held: what _worker claims it executes.                           *)
THEOREM ClaimedIsExecutedHolds == Spec => []ClaimedIsExecuted
  <1>1. Inv => ClaimedIsExecuted
    BY Places DEF Inv, TypeInv, HeldInv, ClaimedIsExecuted
  <1> QED BY <1>1, InvHolds, PTL

(* One cycle escalates the cooldown once, however many of its coroutines   *)
(* are told of a 429 (_defer_rate_limited_job).                            *)
THEOREM OneLimitPerCycleHolds == Spec => []OneLimitPerCycle
  <1>1. Inv => OneLimitPerCycle
    BY DEF Inv, LimitInv, OneLimitPerCycle
  <1> QED BY <1>1, InvHolds, PTL

(* The llm_runs row of a handler that has its answer says what the answer  *)
(* was, though any process may have failed the row before (finish_run).    *)
THEOREM AnswerIsRecordedHolds == Spec => []AnswerIsRecorded
  <1>1. Inv => AnswerIsRecorded
    BY DEF Inv, RowsInv
  <1> QED BY <1>1, InvHolds, PTL

-----------------------------------------------------------------------------
(***************************************************************************)
(* The job store within the process.  No lease expires under a coroutine   *)
(* of this model, so everything that is proved of handlers that report     *)
(* within their leases (JP!LeaseInv) holds of all of them, however a cycle *)
(* is stopped: by its batch, a 429, an outage or the death of the process. *)
(***************************************************************************)

LEMMA StoreOps ==
  /\ JP!Job = J!Job /\ J!Job = ArticleJob \cup CaseJob
  /\ \A w, j : J!Claim(w, j) => JP!Claim(w, j)
  /\ \A c : (J!Complete(c) \/ J!Fail(c) \/ J!Defer(c)) => JP!Report(c)
  /\ \A j : J!EnqueueArticleJob(j) => JP!EnqueueArticleJob(j)
  /\ \A j : J!EnsureCaseJob(j) => JP!EnsureCaseJob(j)
  /\ \A j : J!RunAfterArrives(j) => JP!RunAfterArrives(j)
  /\ \A j : J!LeaseExpires(j) => JP!LeaseExpires(j)
  <1>1. JP!Job = J!Job /\ J!Job = ArticleJob \cup CaseJob
    BY DEF JP!Job, J!Job
  <1>2. \A r : J!Requeued(r) = JP!Requeued(r)
    BY DEF J!Requeued, JP!Requeued, J!Released, JP!Released
  <1>3. \A w, j : J!Claim(w, j) => JP!Claim(w, j)
    BY DEF J!Claim, JP!Claim, J!Eligible, JP!Eligible, J!Released, JP!Released
  <1>4. \A c : J!Complete(c) => JP!Complete(c)
    BY <1>2 DEF J!Complete, JP!Complete, J!Completed, JP!Completed, J!Newer, JP!Newer,
       J!Released, JP!Released
  <1>5. \A c : J!Fail(c) => JP!Fail(c)
    BY <1>2 DEF J!Fail, JP!Fail, J!Failed, JP!Failed, J!Newer, JP!Newer, J!Released, JP!Released
  <1>6. \A c : J!Defer(c) => JP!Defer(c)
    BY DEF J!Defer, JP!Defer, J!Deferred, JP!Deferred, J!Released, JP!Released
  <1>7. \A j : /\ J!EnqueueArticleJob(j) => JP!EnqueueArticleJob(j)
               /\ J!EnsureCaseJob(j) => JP!EnsureCaseJob(j)
    BY <1>2 DEF J!EnqueueArticleJob, JP!EnqueueArticleJob, J!EnsureCaseJob, JP!EnsureCaseJob
  <1>8. \A j : /\ J!RunAfterArrives(j) => JP!RunAfterArrives(j)
               /\ J!LeaseExpires(j) => JP!LeaseExpires(j)
    BY DEF J!RunAfterArrives, JP!RunAfterArrives, J!LeaseExpires, JP!LeaseExpires
  <1> QED BY <1>1, <1>3, <1>4, <1>5, <1>6, <1>7, <1>8 DEF JP!Report

(* What a step of the process is for the store: nothing, one of the        *)
(* store's own steps, or the loss of every snapshot at once.               *)
LEMMA StoreSteps ==
  ASSUME [Next]_vars
  PROVE  \/ UNCHANGED <<job, inflight>>
         \/ job' = job /\ inflight' = {}
         \/ \E w \in Worker, j \in JP!Job : JP!Claim(w, j)
         \/ \E c \in inflight : JP!Report(c)
         \/ JP!Produce
         \/ JP!Clock
  <1>1. ASSUME NEW old, Start(old)
        PROVE  \/ UNCHANGED <<job, inflight>>
               \/ \E w \in Worker, j \in JP!Job : JP!Claim(w, j)
    BY <1>1, StoreOps DEF Start, StartProcess, StartSingle
  <1>2. ASSUME NEW w \in Worker, Claiming(w)
        PROVE  \/ UNCHANGED <<job, inflight>>
               \/ \E v \in Worker, j \in JP!Job : JP!Claim(v, j)
    BY <1>2, StoreOps DEF Claiming, EnterClaim, ClaimNone, ClaimNext
  <1>3. ASSUME NEW w \in Worker, Ask(w) \/ Waits(w) \/ HandlerEnds(w) \/ DependencyFails(w)
        PROVE  UNCHANGED <<job, inflight>> \/ \E c \in inflight : JP!Report(c)
    <2>1. \A c \in Claim(w) : c \in inflight
      BY DEF Claim
    <2> QED BY <1>3, <2>1, StoreOps DEF Ask, Waits, StartHandler, Receive, RequestFails,
            RecordLimit, DeferLimited, HandlerEnds, DependencyFails
  <1>4. ASSUME NEW j \in J!Job, Produce(j) PROVE JP!Produce
    BY <1>4, StoreOps DEF Produce, JP!Produce
  <1>5. CASE Clock
    BY <1>5, StoreOps DEF Clock, CooldownEnds, RunAfterArrives, LeaseExpires, JP!Clock
  <1>6. CASE Die
    BY <1>6 DEF Die
  <1>7. CASE \/ \E old \in SUBSET PendingRows : OtherProcessCleans(old)
             \/ OtherProcessIsLimited \/ BeginCycle \/ SkipCycle \/ EndCycle
             \/ UNCHANGED vars
    BY <1>7 DEF OtherProcessCleans, OtherProcessIsLimited, BeginCycle, SkipCycle, EndCycle, vars
  <1> QED BY <1>1, <1>2, <1>3, <1>4, <1>5, <1>6, <1>7 DEF Next

(* A process that dies leaves the rows as they are.                        *)
LEMMA SnapshotsLost ==
  ASSUME JP!LeaseInv, job' = job, inflight' = {}
  PROVE  JP!LeaseInv'
  <1>1. JP!Inv'
    BY JobAssumption DEF JP!LeaseInv, JP!Inv, JP!TypeOK, JP!AttemptBudget, JP!NoLostRevision,
       JP!NewRevisionHasBudget, JP!SnapshotsBehind
  <1> QED BY <1>1 DEF JP!LeaseInv

LEMMA InitStore == Init => JP!LeaseInv
  <1> SUFFICES ASSUME Init PROVE JP!LeaseInv
    OBVIOUS
  <1>1. /\ job = [j \in JP!Job |-> [status |-> "failed", attempt |-> MaxAttempts, due |-> TRUE,
                                    stale |-> FALSE, requested |-> 1, completed |-> 0]]
        /\ inflight = {} /\ JP!Job = ArticleJob \cup CaseJob
    BY StoreOps DEF Init
  <1>2. JP!Inv
    BY <1>1, JobAssumption DEF JP!Inv, JP!TypeOK, JP!Row, JP!ClaimedJob, JP!AttemptBudget,
       JP!NoLostRevision, JP!NewRevisionHasBudget, JP!SnapshotsBehind
  <1> QED BY <1>1, <1>2, JobAssumption DEF JP!LeaseInv

LEMMA StoreStep ==
  ASSUME JP!LeaseInv, [Next]_vars
  PROVE  JP!LeaseInv'
  <1> USE JobAssumption
  <1>1. CASE UNCHANGED <<job, inflight>>
    BY <1>1, JP!NextLease DEF JP!vars
  <1>2. CASE job' = job /\ inflight' = {}
    BY <1>2, SnapshotsLost
  <1>3. ASSUME NEW w \in Worker, NEW j \in JP!Job, JP!Claim(w, j) PROVE JP!LeaseInv'
    BY <1>3, JP!LeaseClaim
  <1>4. ASSUME NEW c \in inflight, JP!Report(c) PROVE JP!LeaseInv'
    BY <1>4, JP!LeaseReport
  <1>5. CASE JP!Produce \/ JP!Clock
    BY <1>5, JP!LeaseProduce, JP!LeaseClock
  <1> QED BY <1>1, <1>2, <1>3, <1>4, <1>5, StoreSteps

(* However a cycle is stopped, the job table keeps what the store          *)
(* promises: the attempt budget, the newest revision, and exclusive leases *)
(* (the executor of runtime/execution.py over repositories/jobs.py).       *)
THEOREM StoreInvHolds == Spec => []JP!LeaseInv
  BY InitStore, StoreStep, PTL DEF Spec

-----------------------------------------------------------------------------
(* The process itself.                                                     *)
ProcessInv ==
    /\ cooldown \in BOOLEAN
    /\ proc \in [mode : Mode, pc : {"off", "plan", "cycle"}]
    /\ faults \in 0..MaxFaults

LEMMA ProcessStep ==
  ASSUME ProcessInv, [Next]_vars
  PROVE  ProcessInv'
  <1>1. Fault => faults' \in 0..MaxFaults
    BY JobAssumption DEF Fault, ProcessInv
  <1>2. faults' = faults \/ Fault
    BY DEF Next, vars, Start, StartProcess, StartSingle, OtherProcessCleans, OtherProcessIsLimited,
       BeginCycle, SkipCycle, EndCycle, Die, Claiming, EnterClaim, ClaimNone, ClaimNext, Ask,
       Waits, StartHandler, Receive, RequestFails, RecordLimit, DeferLimited, HandlerEnds,
       DependencyFails, StopClaiming, Produce, Clock, CooldownEnds, RunAfterArrives, LeaseExpires
  <1>3. cooldown' \in {cooldown, TRUE, FALSE}
    BY DEF Next, vars, Start, StartProcess, StartSingle, OtherProcessCleans, OtherProcessIsLimited,
       BeginCycle, SkipCycle, EndCycle, Die, Claiming, EnterClaim, ClaimNone, ClaimNext, Ask,
       Waits, StartHandler, Receive, RequestFails, RecordLimit, DeferLimited, HandlerEnds,
       DependencyFails, Produce, Clock, CooldownEnds, RunAfterArrives, LeaseExpires
  <1>4. \/ proc' = proc
        \/ \E mode \in Mode : proc' = [mode |-> mode, pc |-> "plan"]
        \/ "single" \in Mode /\ proc' = [mode |-> "single", pc |-> "cycle"]
        \/ \E pc \in {"off", "plan", "cycle"} : proc' = [proc EXCEPT !.pc = pc]
    BY DEF Next, vars, Start, StartProcess, StartSingle, OtherProcessCleans, OtherProcessIsLimited,
       BeginCycle, SkipCycle, EndCycle, Die, Claiming, EnterClaim, ClaimNone, ClaimNext, Ask,
       Waits, StartHandler, Receive, RequestFails, RecordLimit, DeferLimited, HandlerEnds,
       DependencyFails, Produce, Clock, CooldownEnds, RunAfterArrives, LeaseExpires
  <1>5. proc' \in [mode : Mode, pc : {"off", "plan", "cycle"}]
    BY <1>4 DEF ProcessInv
  <1> QED BY <1>1, <1>2, <1>3, <1>5 DEF ProcessInv

LEMMA ProcessInvHolds == Spec => []ProcessInv
  <1>1. Init => ProcessInv
    <2> SUFFICES ASSUME Init PROVE ProcessInv
      OBVIOUS
    <2>1. cooldown = FALSE /\ faults = 0 /\ proc \in [mode : Mode, pc : {"off"}]
      BY DEF Init
    <2>2. proc \in [mode : Mode, pc : {"off", "plan", "cycle"}]
      BY <2>1
    <2>3. cooldown \in BOOLEAN
      BY <2>1
    <2>4. faults \in 0..MaxFaults
      BY <2>1, JobAssumption
    <2> QED BY <2>2, <2>3, <2>4 DEF ProcessInv
  <1> QED BY <1>1, ProcessStep, PTL DEF Spec

(* Jobs, snapshots, llm_runs rows, the executor and its coroutines keep    *)
(* their types.                                                            *)
THEOREM TypeCorrect == Spec => []TypeOK
  <1>1. Inv /\ JP!LeaseInv /\ ProcessInv => TypeOK
    <2> SUFFICES ASSUME Inv, JP!LeaseInv, ProcessInv PROVE TypeOK
      OBVIOUS
    <2>1. job \in [J!Job -> J!Row] /\ inflight \subseteq J!ClaimedJob
      BY StoreOps DEF JP!LeaseInv, JP!Inv, JP!TypeOK, JP!Row, J!Row, JP!ClaimedJob, J!ClaimedJob
    <2>2. /\ run \in [Slot -> Row] /\ co \in [Worker -> [pc : Pc, rows : SUBSET Slot]]
          /\ exec.index \in 1..Len(Schedule)
      BY DEF Inv, TypeInv, ExecType
    <2> QED BY <2>1, <2>2 DEF ProcessInv, TypeOK
  <1> QED BY <1>1, InvHolds, StoreInvHolds, ProcessInvHolds, PTL
=============================================================================
