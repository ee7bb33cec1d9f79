----------------------------- MODULE MCTriageJobs -----------------------------
(* Requests are interchangeable: none is named in a property or an action.  *)
EXTENDS TriageJobs, TLC

Symmetry == Permutations(Jobs)
=============================================================================
