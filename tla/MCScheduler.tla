----------------------------- MODULE MCScheduler -----------------------------
(* Instances of Scheduler for TLC, and the refinement it is checked for.   *)
EXTENDS Scheduler, TLC

\* Slots and sinks are interchangeable.
Symmetry == Permutations(Tasks) \cup Permutations(Sinks)
=============================================================================
