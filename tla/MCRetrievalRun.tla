--------------------------- MODULE MCRetrievalRun ---------------------------
(* Instances of RetrievalRun: two runs with different cutoffs that can     *)
(* retrieve the same news item, workers that race for either.              *)
EXTENDS RetrievalRun, TLC

CONSTANTS r1, r2

EarlyAndLate == r1 :> 1 @@ r2 :> 2

Symmetry == Permutations(Tokens) \cup Permutations(Workers)
=============================================================================
