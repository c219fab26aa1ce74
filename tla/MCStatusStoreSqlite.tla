------------------------- MODULE MCStatusStoreSqlite -------------------------
(* Instances of the SQLite store for TLC. *)
EXTENDS StatusStoreSqlite
=============================================================================
