----------------------------- MODULE LlmCooldown -----------------------------
(***************************************************************************)
(* The shared pause of all ML processing after HTTP 429 responses:         *)
(* LlmCooldownStore, the check every worker pass makes before it starts,   *)
(* and the passes of several worker processes.                             *)
(*                                                                         *)
(* In a pass the requests of several jobs are in flight at once.  The      *)
(* first 429 stops the claiming, and is the one that is recorded; the jobs *)
(* of later ones are deferred to the time it was given.  record_rate_limit *)
(* takes its observation time before it waits for the advisory lock, so    *)
(* records of two processes may be written out of order.                   *)
(*                                                                         *)
(* One unit of time is AMBIGUOUS_COOLDOWN, five minutes.                   *)
(***************************************************************************)
EXTENDS Integers, Sequences

CONSTANTS
    Process,      \* worker processes (the scheduled one, --loop, --backfill, ...)
    RetryAfter,   \* usable Retry-After values
    Ambiguous,    \* AMBIGUOUS_COOLDOWN
    Window,       \* AMBIGUOUS_OBSERVATION_WINDOW
    Hourly,       \* INFERRED_HOURLY_COOLDOWN
    MayCrash,     \* may a process die in the middle of a pass?
    MaxTime,      \* bound on the clock
    MaxRecords    \* bound on the history

ASSUME DurationAssumption == Ambiguous \in Nat /\ Window \in Nat /\ Hourly \in Nat
ASSUME RetryAfterAssumption == RetryAfter \subseteq Nat
ASSUME MayCrashAssumption == MayCrash \in BOOLEAN
ASSUME BoundAssumption == MaxTime \in Nat /\ MaxRecords \in Nat

None == -1
Pass == {"idle", "open", "recording", "limited"}

VARIABLES
    now,      \* the clock
    resume,   \* resume_at (0 before there is a row)
    count,    \* ambiguous_observation_count
    last,     \* last_ambiguous_observed_at
    pass,     \* what each process does
    seen,     \* the 429 a recording process has observed: its time, its Retry-After
    demanded, \* history: latest time any Retry-After has asked to wait for
    hist      \* history: records and clearings, in the order of their commits

row == <<resume, count, last>>
vars == <<now, resume, count, last, pass, seen, demanded, hist>>

Response == RetryAfter \cup {None}
Seen == [at : Nat, after : Response]
Nothing == [at |-> 0, after |-> None]
Event == [type : {"ambiguous", "escalated", "explicit", "cleared"}, at : Nat, until : Nat]

Init ==
    /\ now = 0
    /\ resume = 0 /\ count = 0 /\ last = None
    /\ pass = [p \in Process |-> "idle"]
    /\ seen = [p \in Process |-> Nothing]
    /\ demanded = 0
    /\ hist = <<>>

-----------------------------------------------------------------------------
Later(s, t) == IF s >= t THEN s ELSE t

\* The provider's own words, whether or not the worker records them.
Demand(after) == demanded' = IF after = None THEN demanded ELSE Later(demanded, now + after)

\* log_active_cooldown: the pass goes on only if no pause is active.
StartPass(p) ==
    /\ pass[p] = "idle"
    /\ resume <= now
    /\ pass' = [pass EXCEPT ![p] = "open"]
    /\ UNCHANGED <<now, row, seen, demanded, hist>>

\* The first 429 of the pass enters record_rate_limit.
Observe(p, after) ==
    /\ pass[p] = "open"
    /\ pass' = [pass EXCEPT ![p] = "recording"]
    /\ seen' = [seen EXCEPT ![p] = [at |-> now, after |-> after]]
    /\ Demand(after)
    /\ UNCHANGED <<now, row, hist>>

\* Mutant: any earlier ambiguous 429 counts, however old.
EscalatesAlways(o) == last # None

\* A second ambiguous 429 within the window.
Escalates(o) == last # None /\ last >= o.at - Window /\ count >= 1

Duration(o) ==
    IF o.after # None THEN o.after ELSE IF Escalates(o) THEN Hourly ELSE Ambiguous

Kind(o) ==
    IF o.after # None THEN "explicit" ELSE IF Escalates(o) THEN "escalated" ELSE "ambiguous"

\* Mutant: the pause asked for last wins.
RecordShortens(p) ==
    LET o == seen[p] IN
    /\ pass[p] = "recording"
    /\ Len(hist) < MaxRecords
    /\ resume' = o.at + Duration(o)
    /\ count' = IF o.after # None THEN 0 ELSE IF Escalates(o) THEN count + 1 ELSE 1
    /\ last' = IF o.after # None THEN None ELSE o.at
    /\ pass' = [pass EXCEPT ![p] = "limited"]
    /\ hist' = Append(hist, [type |-> Kind(o), at |-> o.at, until |-> o.at + Duration(o)])
    /\ seen' = [seen EXCEPT ![p] = Nothing]
    /\ UNCHANGED <<now, demanded>>

\* record_rate_limit, under the advisory lock, with the time taken before it.
Record(p) ==
    LET o == seen[p] IN
    /\ pass[p] = "recording"
    /\ Len(hist) < MaxRecords
    /\ resume' = Later(o.at + Duration(o), resume)
    /\ count' = IF o.after # None THEN 0 ELSE IF Escalates(o) THEN count + 1 ELSE 1
    /\ last' = IF o.after # None THEN None ELSE o.at
    /\ pass' = [pass EXCEPT ![p] = "limited"]
    /\ hist' = Append(hist, [type |-> Kind(o), at |-> o.at, until |-> o.at + Duration(o)])
    /\ seen' = [seen EXCEPT ![p] = Nothing]
    /\ UNCHANGED <<now, demanded>>

\* Another 429 of the same pass: its job is deferred to the time the first one
\* was given; the store is not told.
DeferOnly(p, after) ==
    /\ pass[p] \in {"recording", "limited"}
    /\ Demand(after)
    /\ UNCHANGED <<now, row, pass, seen, hist>>

\* Mutant: the count is decremented instead of reset.
SucceedDecrements(p) ==
    /\ pass[p] # "idle"
    /\ resume <= now
    /\ count' = count - 1
    /\ last' = None
    /\ UNCHANGED <<now, resume, pass, seen, demanded, hist>>

\* clear_expired_ambiguous_observation, after a successful LLM request.
Succeed(p) ==
    /\ pass[p] # "idle"
    /\ resume <= now
    /\ last # None
    /\ Len(hist) < MaxRecords
    /\ count' = 0
    /\ last' = None
    /\ hist' = Append(hist, [type |-> "cleared", at |-> now, until |-> 0])
    /\ UNCHANGED <<now, resume, pass, seen, demanded>>

\* The coroutines of the pass are done.
EndPass(p) ==
    /\ pass[p] \in {"open", "limited"}
    /\ pass' = [pass EXCEPT ![p] = "idle"]
    /\ UNCHANGED <<now, row, seen, demanded, hist>>

\* A process that dies loses a 429 it has observed and not yet committed.
Crash(p) ==
    /\ MayCrash
    /\ pass[p] # "idle"
    /\ pass' = [pass EXCEPT ![p] = "idle"]
    /\ seen' = [seen EXCEPT ![p] = Nothing]
    /\ UNCHANGED <<now, row, demanded, hist>>

Tick ==
    /\ now < MaxTime
    /\ now' = now + 1
    /\ UNCHANGED <<row, pass, seen, demanded, hist>>

Next ==
    \/ Tick
    \/ \E p \in Process : StartPass(p) \/ Record(p) \/ Succeed(p) \/ EndPass(p) \/ Crash(p)
    \/ \E p \in Process, after \in Response : Observe(p, after) \/ DeferOnly(p, after)

Spec == Init /\ [][Next]_vars

-----------------------------------------------------------------------------
(* Properties.                                                             *)

\* The stored row, the passes and the histories have their types.
TypeOK ==
    /\ now \in Nat /\ resume \in Nat /\ count \in Nat /\ last \in Nat \cup {None}
    /\ pass \in [Process -> Pass]
    /\ seen \in [Process -> Seen]
    /\ demanded \in Nat
    /\ hist \in Seq(Event)

\* No pass starts before the end of every pause any process has ever recorded,
\* in whatever order the records were committed: a short pause recorded late
\* never cuts a long one.
PausesAreHonoured ==
    [][\A p \in Process :
          (pass[p] = "idle" /\ pass'[p] = "open")
              => \A i \in 1..Len(hist) : hist[i].until <= now]_vars

\* The hour-long pause is inferred only from two ambiguous 429s at most Window
\* apart, with no explicit Retry-After and no clearing success between them.
EscalationIsJustified ==
    \A i \in 1..Len(hist) :
        hist[i].type = "escalated" =>
            \E k \in 1..(i - 1) :
                /\ hist[k].at >= hist[i].at - Window
                /\ \A n \in k..i : hist[n].type \in {"ambiguous", "escalated"}

\* What README.md and docs/system/services/worker-ml.md say: usable Retry-After
\* values are honoured, so no pass starts before the latest of them.
RetryAfterIsHonoured ==
    [][\A p \in Process :
          (pass[p] = "idle" /\ pass'[p] = "open") => demanded <= now]_vars
=============================================================================
