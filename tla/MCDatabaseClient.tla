-------------------------- MODULE MCDatabaseClient --------------------------
(***************************************************************************)
(* DatabaseClient for TLC: see the README for the bounds.                  *)
(***************************************************************************)
EXTENDS DatabaseClient, TLC

=============================================================================
