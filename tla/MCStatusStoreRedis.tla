-------------------------- MODULE MCStatusStoreRedis --------------------------
(* Instances of the Redis store for TLC. *)
EXTENDS StatusStoreRedis, TLC

Symmetric == Permutations(Clients) \cup Permutations(Keys)
=============================================================================
