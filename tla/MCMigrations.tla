--------------------------- MODULE MCMigrations ---------------------------
(* A small instance of Migrations for TLC: ids, logs and senders are        *)
(* interchangeable.                                                         *)
EXTENDS Migrations
Symmetric == Permutations(Ids) \cup Permutations(Logs) \cup Permutations(Senders)
===========================================================================
