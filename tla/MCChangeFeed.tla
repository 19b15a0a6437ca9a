---------------------------- MODULE MCChangeFeed ----------------------------
(* TLC instances of ChangeFeed: see the README for the bounds.             *)
EXTENDS ChangeFeed, TLC

\* The larger instance, change_feed_polls.cfg, explores SQLite alone.
OnSQLite == adapter = "sqlite"

\* Pages are interchangeable, where no liveness property is checked.
Symmetry == Permutations(Pages)

=============================================================================
