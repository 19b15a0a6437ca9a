-------------------------- MODULE MCExecutionQueue --------------------------
(* TLC instances of ExecutionQueue: see the README for the bounds.         *)
EXTENDS ExecutionQueue, TLC

Symmetry == Permutations(Runners) \cup Permutations(Sessions)

=============================================================================
