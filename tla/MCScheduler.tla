---------------------------- MODULE MCScheduler ----------------------------
(* Scheduler on a few targets and goroutines, for TLC. *)
EXTENDS Scheduler, TLC

\* Neither targets nor goroutines are told apart by the code.
Interchangeable == Permutations(Targets) \cup Permutations(Goroutines)
=============================================================================
