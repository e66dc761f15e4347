--------------------------- MODULE MCCaseCuration ---------------------------
(* Model values for the cases; articles are interchangeable.               *)
EXTENDS CaseCuration, TLC

Symmetry == Permutations(Article)
=============================================================================
