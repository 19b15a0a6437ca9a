-------------------------- MODULE MCMissionLifecycle --------------------------
(***************************************************************************)
(* MissionLifecycle for TLC: sessions and callers are interchangeable.     *)
(***************************************************************************)
EXTENDS MissionLifecycle, TLC

Symmetry == Permutations(Sessions) \cup Permutations(Callers)

===============================================================================
