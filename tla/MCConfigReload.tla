---------------------------- MODULE MCConfigReload ----------------------------
(* Instances of the configuration for TLC. *)
EXTENDS ConfigReload, TLC

\* The file most instances start with.
Plain == [fixed |-> "a", open |-> "a", network |-> "a",
          keys |-> [k \in ApiKeys |-> "enabled"],
          status |-> [enabled |-> TRUE, store |-> "memory", dbPath |-> FALSE,
                      redisUrl |-> FALSE, limits |-> "a"]]

SomeKey == CHOOSE k \in ApiKeys : TRUE

\* Reloadable changes: other limits, other mail rules, a key disabled.
Reloadable == [Plain EXCEPT !.open = "b", !.status.limits = "b", !.keys[SomeKey] = "disabled"]

\* A key removed, and a store that needs a path and is switched off without one.
Switched == [Plain EXCEPT !.fixed = "b", !.keys[SomeKey] = "absent",
                          !.status.enabled = FALSE, !.status.store = "sqlite"]

\* A persistent store, and another network.
Durable == [Plain EXCEPT !.network = "b", !.status.store = "sqlite", !.status.dbPath = TRUE]

\* Files that do not load: a bad field; no path; no key enabled.
Garbled == [Plain EXCEPT !.open = Malformed]
Pathless == [Plain EXCEPT !.status.store = "redis"]
Keyless == [Plain EXCEPT !.keys = [k \in ApiKeys |-> "disabled"]]

AllFiles == {Plain, Reloadable, Switched, Durable, Garbled, Pathless, Keyless}

Symmetric == Permutations(Requests)
=============================================================================
