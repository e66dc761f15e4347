-------------------------- MODULE MCArticlePipeline --------------------------
(* Model values for the article chain; workers are interchangeable.        *)
EXTENDS ArticlePipeline, TLC

Symmetry == Permutations(Worker)
=============================================================================
