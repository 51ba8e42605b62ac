----------------------------- MODULE MCRateLimit -----------------------------
(* Small instances of the request budget.  Processes of one kind are        *)
(* interchangeable, so the invariants are checked up to their permutation.  *)
EXTENDS RateLimit, TLC

Symmetry == Permutations(Process \ Fresh)
=============================================================================
