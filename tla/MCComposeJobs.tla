--------------------------- MODULE MCComposeJobs ----------------------------
(* TLC instances of ComposeJobs: see the README for the bounds.            *)
EXTENDS ComposeJobs, TLC

Symmetry == Permutations(Workers) \cup Permutations(Deliveries)

=============================================================================
