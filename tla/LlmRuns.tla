------------------------------- MODULE LlmRuns -------------------------------
(***************************************************************************)
(* The life of an llm_runs row: LlmTaskRunner.run_with_provenance, with    *)
(* one repair of invalid output, LlmRunStore, and the cleanup of pending   *)
(* rows every worker process performs when it starts.                      *)
(*                                                                         *)
(* The module holds the rows and says what each answer of the provider     *)
(* does to the row and to the caller; WorkerCycle says who calls.  The     *)
(* arrival of an answer and the finish_run that follows it are one step: a *)
(* cleanup or a death between the two does what it does before the first.  *)
(***************************************************************************)
EXTENDS Integers

CONSTANT Slot  \* bound: llm_runs rows that are pending or have a live caller

VARIABLE run   \* the status of each row; "none": no row, or one nobody refers to any more

Row == {"none", "pending", "succeeded", "failed"}

InitRuns == run = [s \in Slot |-> "none"]

Pending(s) == run[s] = "pending"

PendingRows == {s \in Slot : Pending(s)}

\* Mutant: only a pending row is finished, as the docstring says.
FinishPending(r, status) == IF r = "pending" THEN status ELSE r

\* finish_run finds the row by its id alone.
Finish(r, status) == status

\* fail_stale_pending_runs; old are the pending rows whose started_at is older than
\* stale_job_timeout, which may be any: a caller waits two requests at most, but the
\* rows of a dead process stay.
Cleaned(old) == [s \in Slot |-> IF s \in old THEN "failed" ELSE run[s]]

\* The first request, as pairs of what the caller is told and what becomes of the row:
\* contract-valid output, possibly after normalization; invalid output, which is
\* repaired; a 429; no connection to the proxy; a timeout or any other error.
FirstAnswer(r) ==
    {<<"output", Finish(r, "succeeded")>>, <<"repair", r>>}
        \cup {<<out, Finish(r, "failed")>> : out \in {"limited", "unreachable", "error"}}

\* Output that is still invalid becomes an inconclusive verdict for an audit, and an
\* error for any other task.
StillInvalid(r, audit) ==
    IF audit THEN <<"output", Finish(r, "succeeded")>> ELSE <<"error", Finish(r, "failed")>>

\* The repair request is made while the validation error is being handled, where only
\* a 429 is caught: any other failure of the request leaves the row as it is.
RepairAnswer(r, audit) ==
    {<<"output", Finish(r, "succeeded")>>, StillInvalid(r, audit),
     <<"limited", Finish(r, "failed")>>, <<"unreachable", r>>, <<"error", r>>}
=============================================================================
