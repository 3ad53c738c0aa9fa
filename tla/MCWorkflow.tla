----------------------------- MODULE MCWorkflow -----------------------------
(* Workflow on small instances. *)
EXTENDS Workflow, TLC

\* Callers are interchangeable.
Symmetry == Permutations(Callers)
=============================================================================
