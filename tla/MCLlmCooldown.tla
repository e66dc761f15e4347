---------------------------- MODULE MCLlmCooldown ----------------------------
(* Model values for the shared cooldown; processes are interchangeable.    *)
EXTENDS LlmCooldown, TLC

Symmetry == Permutations(Process)
=============================================================================
