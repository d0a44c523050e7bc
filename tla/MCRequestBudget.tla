--------------------------- MODULE MCRequestBudget ---------------------------
(* Model-checking instance of RequestBudget: callers are interchangeable.  *)
EXTENDS RequestBudget, TLC

CallerSymmetry == Permutations(Callers)

=============================================================================
