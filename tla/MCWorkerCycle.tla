---------------------------- MODULE MCWorkerCycle ----------------------------
(* Two job types, in different namespaces so that their handlers overlap.   *)
EXTENDS WorkerCycle, TLC

CONSTANTS gate, audit
MCSchedule == <<"gate_article", "audit_case_coherence">>
MCTypeOf == (gate :> "gate_article") @@ (audit :> "audit_case_coherence")
=============================================================================
