--------------------------- MODULE MCRunnerWakeup ---------------------------
(* TLC instances of RunnerWakeup: see the README for the bounds.           *)
EXTENDS RunnerWakeup, TLC

=============================================================================
