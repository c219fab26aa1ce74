------------------------- MODULE MCStatusStoreMemory -------------------------
(* Instances of the in-memory store for TLC. *)
EXTENDS StatusStoreMemory, TLC

Symmetric ==
    Permutations(Ids) \cup Permutations(Clients) \cup Permutations(Counters)
=============================================================================
