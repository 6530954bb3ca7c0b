---------------------------- MODULE MCReconcile ----------------------------
(* Reconcile on a few fingerprints and goroutines, for TLC. *)
EXTENDS Reconcile, TLC

\* Neither fingerprints nor goroutines are told apart by the code.
Interchangeable == Permutations(Fingerprints) \cup Permutations(Scanners)
=============================================================================
