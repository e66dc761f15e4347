------------------------- MODULE JobStoreRefinement -------------------------
(***************************************************************************)
(* The jobs table as revisioned work.  CaseCuration takes from the job     *)
(* store exactly what RevisionedWork says of a job that is not late: a     *)
(* requested job is run until it is answered or has used its attempts, and *)
(* a request made while it runs is not lost.                               *)
(***************************************************************************)
EXTENDS JobStore

Phase(status) ==
    CASE status = "absent" -> "none"
      [] status = "queued" -> "waiting"
      [] status = "running" -> "started"
      [] status = "succeeded" -> "done"
      [] status = "failed" -> "dropped"

Work == [j \in Job |-> [phase |-> Phase(job[j].status), asked |-> job[j].requested,
                        answered |-> job[j].completed, tries |-> job[j].attempt]]

R == INSTANCE RevisionedWork WITH
        MaxTries <- MaxAttempts, work <- Work, begun <- ran, late <- overrun

\* The job store keeps its promise, job by job, although it identifies a claim by
\* nothing but the row's id and knows of a dead worker only by a timestamp: every
\* statement it executes is a step of RevisionedWork or none.
ImplementsRevisionedWork == R!Spec
=============================================================================
