--------------------------- MODULE RevisionedWork ---------------------------
(***************************************************************************)
(* What the job store promises of each job, without leases, snapshots and  *)
(* times: a producer asks for the newest revision; handlers start on it,   *)
(* at most MaxTries times; and either it is answered, or the job is        *)
(* dropped after the last try.  Asking again while a handler is at work is *)
(* never lost: its report makes the job wait for another with a fresh      *)
(* budget.                                                                 *)
(*                                                                         *)
(* When a handler has outlived its claim the job is `late': from then on a *)
(* report may belong to any earlier start and come at any time.  It still  *)
(* calls a job done for the newest revision only, and leaves the count of  *)
(* tries within its bounds.                                                *)
(***************************************************************************)
EXTENDS Integers

CONSTANTS
    Job,
    MaxTries

VARIABLES
    work,   \* the phase, the revisions asked for and answered, the tries
    begun,  \* the newest revision a handler has started on
    late    \* jobs a handler of which has outlived its claim

vars == <<work, begun, late>>

Init ==
    /\ work = [j \in Job |-> [phase |-> "none", asked |-> 1, answered |-> 0, tries |-> 0]]
    /\ begun = [j \in Job |-> 0]
    /\ late = {}

\* The job gets a new phase; what else changes is in w.
Becomes(j, w, phase) ==
    /\ work' = [work EXCEPT ![j] = [w EXCEPT !.phase = phase]]
    /\ UNCHANGED <<begun, late>>

Fresh(w) == [w EXCEPT !.tries = 0]
Renewed(w) == [w EXCEPT !.asked = @ + 1]

\* A producer wants the job done, or done again, perhaps for a new revision.
Ask(j) ==
    /\ work[j].phase \in {"none", "done", "dropped"}
    /\ \E w \in {work[j], Renewed(work[j])} : Becomes(j, Fresh(w), "waiting")

\* A new revision of a job that is not finished with the last one.
Renew(j) ==
    \/ work[j].phase = "waiting" /\ Becomes(j, Fresh(Renewed(work[j])), "waiting")
    \/ work[j].phase = "started" /\ Becomes(j, Renewed(work[j]), "started")

\* A handler starts; if the job was started before, that handler is gone or late.
Start(j) ==
    /\ work[j].phase \in {"waiting", "started"}
    /\ work[j].tries < MaxTries
    /\ work' = [work EXCEPT ![j].phase = "started", ![j].tries = @ + 1]
    /\ begun' = [begun EXCEPT ![j] = work[j].asked]
    /\ UNCHANGED late

Answered(j, revision) ==
    LET w == [work[j] EXCEPT !.answered = revision] IN
    IF revision = w.asked THEN Becomes(j, w, "done") ELSE Becomes(j, Fresh(w), "waiting")

Succeed(j) == work[j].phase = "started" /\ Answered(j, begun[j])

Fail(j) ==
    /\ work[j].phase = "started"
    /\ IF begun[j] < work[j].asked THEN Becomes(j, Fresh(work[j]), "waiting")
       ELSE Becomes(j, work[j], IF work[j].tries < MaxTries THEN "waiting" ELSE "dropped")

\* The try did not count.
PutBack(j) ==
    /\ work[j].phase = "started"
    /\ Becomes(j, [work[j] EXCEPT !.tries = @ - 1], "waiting")

Lapse(j) ==
    /\ late' = late \cup {j}
    /\ UNCHANGED <<work, begun>>

\* A report of some earlier start, whatever has become of the job meanwhile.
LateReport(j) ==
    /\ j \in late
    /\ work[j].phase # "none"
    /\ \/ \E revision \in 1..work[j].asked : Answered(j, revision)
       \/ Becomes(j, Fresh(work[j]), "waiting")
       \/ \E phase \in {"waiting", "dropped"} : Becomes(j, work[j], phase)

Next ==
    \E j \in Job :
        \/ Ask(j) \/ Renew(j)
        \/ Start(j) \/ Succeed(j) \/ Fail(j) \/ PutBack(j)
        \/ Lapse(j) \/ LateReport(j)

Spec == Init /\ [][Next]_vars
=============================================================================
