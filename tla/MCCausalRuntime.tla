---------------------------- MODULE MCCausalRuntime ----------------------------
(* CausalRuntime on small instances.  Delegates, and inputs, differ only by     *)
(* name, so the run that checks no liveness takes them up to permutation.       *)
EXTENDS CausalRuntime, TLC

Symmetry == Permutations(Delegate) \cup Permutations(Input)
=============================================================================
