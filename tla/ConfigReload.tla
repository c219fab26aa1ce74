----------------------------- MODULE ConfigReload -----------------------------
(***************************************************************************)
(* Configuration while the process runs: the file, SIGHUP, the task that   *)
(* reloads (main.rs), the merge of what may change with what may not       *)
(* (config.rs), its two-step replacement (lib.rs), and requests that look  *)
(* at the configuration twice.  What was built at start-up, router,        *)
(* transport, limiter and store, is never built again.                     *)
(***************************************************************************)
EXTENDS Naturals

CONSTANTS
    ApiKeys,    \* ids of API keys
    Requests,   \* requests to GET /v1/keys/self
    Values,     \* contents a section of the file may have
    Malformed,  \* a section with a field that is refused on its own
    Features,   \* the optional stores this build has
    Files       \* the configurations an operator may leave in the file

Stores == {"memory", "sqlite", "redis"}

KeyStates == {"absent", "disabled", "enabled"}

\* StatusConfig; "limits" are ttl_seconds, max_records, cleanup_interval_seconds.
StatusConfig == [enabled : BOOLEAN, store : Stores, dbPath : BOOLEAN,
                 redisUrl : BOOLEAN, limits : Values]

\* AppConfig.  "fixed" is [server], [smtp] and [rate_limit], "open" is [mail] and
\* [logging]; [security] is its API keys and, as "network", proxies and CIDRs.
AppConfig == [fixed : Values \cup {Malformed}, open : Values \cup {Malformed},
              network : Values \cup {Malformed},
              keys : [ApiKeys -> KeyStates], status : StatusConfig]

\* load_from_str, validate_config: the rules for one field, and those for several.
Valid(c) ==
    /\ Malformed \notin {c.fixed, c.open, c.network}
    /\ c.status.enabled =>
          \/ c.status.store = "memory"
          \/ c.status.store = "sqlite" /\ c.status.dbPath /\ "sqlite" \in Features
          \/ c.status.store = "redis" /\ c.status.redisUrl /\ "redis" \in Features
    /\ \E k \in ApiKeys : c.keys[k] = "enabled"

ASSUME ReloadAssumption ==
    /\ Malformed \notin Values
    /\ Files \subseteq AppConfig

VARIABLES
    file,       \* the configuration file, as the operator has left it
    signal,     \* a SIGHUP not received yet; any number of them are one
    task,       \* where the reload task is, and the configuration it works with
    config,     \* config_store
    storeConf,  \* the StatusConfig the store was last given
    built,      \* auxiliary: the configuration of start-up
    request,    \* request[r]: where it is and its key
    removed     \* auxiliary: requests whose key a reload has removed under way

serving == <<request, removed>>
vars == <<file, signal, task, config, storeConf, built, request, removed>>

Waiting == [at |-> "wait"]
Loading == [at |-> "load"]
Storing(merged) == [at |-> "store", merged |-> merged]
Swapping(merged) == [at |-> "swap", merged |-> merged]

Arriving == [at |-> "arriving"]
Authenticated(k) == [at |-> "authenticated", key |-> k]
Ended(how) == [at |-> how]

RequestStates ==
    [at : {"arriving", "refused", "ok", "internal_error"}]
        \cup [at : {"authenticated"}, key : ApiKeys]

TypeOK ==
    /\ file \in Files
    /\ signal \in BOOLEAN
    /\ \/ task \in {Waiting, Loading}
       \/ task \in [at : {"store", "swap"}, merged : AppConfig]
    /\ config \in AppConfig
    /\ storeConf \in StatusConfig
    /\ built \in AppConfig
    /\ request \in [Requests -> RequestStates]
    /\ removed \subseteq Requests

\* main: the file is loaded, and the process does not start unless it is valid.
Init ==
    /\ file \in {c \in Files : Valid(c)}
    /\ signal = FALSE
    /\ task = Waiting
    /\ config = file
    /\ storeConf = file.status
    /\ built = file
    /\ request = [r \in Requests |-> Arriving]
    /\ removed = {}

-----------------------------------------------------------------------------
(* The operator. *)

Edit(c) ==
    /\ file' = c
    /\ UNCHANGED <<signal, task, config, storeConf, built, serving>>

Hangup ==
    /\ signal' = TRUE
    /\ UNCHANGED <<file, task, config, storeConf, built, serving>>

-----------------------------------------------------------------------------
(* The reload task. *)

Receive ==
    /\ task = Waiting /\ signal
    /\ signal' = FALSE
    /\ task' = Loading
    /\ UNCHANGED <<file, config, storeConf, built, serving>>

\* Mutant of merge_reloadable: the store of the new file, in the old status section.
MergeStore(current, new) ==
    [new EXCEPT !.fixed = current.fixed, !.status.enabled = current.status.enabled]

\* Mutant of merge_reloadable: keys are merged one by one, and a key the new file does
\* not have stays.
MergeKeys(current, new) ==
    [new EXCEPT !.fixed = current.fixed,
                !.status = [current.status EXCEPT !.limits = new.status.limits],
                !.keys = [k \in ApiKeys |->
                             IF new.keys[k] = "absent" THEN current.keys[k] ELSE new.keys[k]]]

merge_reloadable(current, new) ==
    [new EXCEPT !.fixed = current.fixed,
                !.status = [current.status EXCEPT !.limits = new.status.limits]]

\* A file that cannot be loaded leaves everything as it is.
Load ==
    /\ task = Loading
    /\ task' = IF Valid(file) THEN Storing(merge_reloadable(config, file)) ELSE Waiting
    /\ UNCHANGED <<file, signal, config, storeConf, built, serving>>

\* reload_config: first the store,
Store ==
    /\ task.at = "store"
    /\ storeConf' = task.merged.status
    /\ task' = Swapping(task.merged)
    /\ UNCHANGED <<file, signal, config, built, serving>>

\* Mutant of Swap: signals are forgotten at the end of a reload.
SwapForgetting ==
    /\ task.at = "swap"
    /\ config' = task.merged
    /\ task' = Waiting
    /\ removed' = removed \cup {r \in Requests :
          request[r].at = "authenticated" /\ config'.keys[request[r].key] = "absent"}
    /\ signal' = FALSE
    /\ UNCHANGED <<file, storeConf, built, request>>

\* then the application.
Swap ==
    /\ task.at = "swap"
    /\ config' = task.merged
    /\ task' = Waiting
    /\ removed' = removed \cup {r \in Requests :
          request[r].at = "authenticated" /\ config'.keys[request[r].key] = "absent"}
    /\ UNCHANGED <<file, signal, storeConf, built, request>>

-----------------------------------------------------------------------------
(* Requests: the extractor reads one configuration, the handler another. *)

Authenticate(r, k) ==
    /\ request[r] = Arriving
    /\ request' = [request EXCEPT ![r] =
          IF config.keys[k] = "enabled" THEN Authenticated(k) ELSE Ended("refused")]
    /\ UNCHANGED <<file, signal, task, config, storeConf, built, removed>>

\* Mutant of Known: a key must be enabled to be found.
KnownEnabled(k) == config.keys[k] = "enabled"

\* policy::find_key, and the search in get_key_self.
Known(k) == config.keys[k] # "absent"

GetKeySelf(r) ==
    /\ request[r].at = "authenticated"
    /\ request' = [request EXCEPT ![r] =
          Ended(IF Known(request[r].key) THEN "ok" ELSE "internal_error")]
    /\ UNCHANGED <<file, signal, task, config, storeConf, built, removed>>

-----------------------------------------------------------------------------
Next ==
    \/ \E c \in Files : Edit(c)
    \/ Hangup
    \/ Receive
    \/ Load
    \/ Store
    \/ Swap
    \/ \E r \in Requests :
          \/ \E k \in ApiKeys : Authenticate(r, k)
          \/ GetKeySelf(r)

\* The reload task is a loop the runtime polls whenever a signal has come.
Spec ==
    /\ Init /\ [][Next]_vars
    /\ WF_vars(Receive) /\ WF_vars(Load) /\ WF_vars(Store) /\ WF_vars(Swap)

-----------------------------------------------------------------------------
(* Invariants. *)

\* The configuration in force, and the one about to be, would pass validate_config,
\* although nobody validates what merge_reloadable has put together from two files.
MergedIsValid ==
    /\ Valid(config)
    /\ task.at \in {"store", "swap"} => Valid(task.merged)

SameBuild(c, d) ==
    /\ c.fixed = d.fixed
    /\ \A field \in {"enabled", "store", "dbPath", "redisUrl"} :
          c.status[field] = d.status[field]

\* What may change has the file's value in c.
Reflects(c, f) ==
    /\ \A section \in {"open", "network", "keys"} : c[section] = f[section]
    /\ c.status.limits = f.status.limits

FromOneFile(c) ==
    /\ SameBuild(c, built)
    /\ \E f \in Files : Valid(f) /\ Reflects(c, f)

\* However many files have been read, each merged into the result of the last, the
\* configuration in force is that of start-up with the reloadable part of one valid
\* file: nothing is left of earlier files, no restart-required setting of any file has
\* come in, and no half of a file is taken over.  The store has the [status] section
\* of that configuration, or between the two steps of reload_config of the next one.
OneFileInForce ==
    /\ FromOneFile(config)
    /\ task.at \in {"store", "swap"} => FromOneFile(task.merged)
    /\ storeConf = IF task.at = "swap" THEN task.merged.status ELSE config.status

\* A handler misses the key its request was authenticated with only if a reload has
\* removed that key in between; disabling it is not enough.
MissingOnlyIfRemoved ==
    \A r \in Requests : request[r].at = "internal_error" => r \in removed

(* Liveness. *)

\* A SIGHUP is never lost, whenever it comes: the file as it is then, or a later one,
\* is taken over, unless it is invalid.  SIGHUPs during a reload cause another one.
SignalsNotLost ==
    \A f \in Files : (signal /\ file = f) ~> (file # f \/ ~Valid(f) \/ Reflects(config, f))

(* A claim made elsewhere about reloads. *)

\* restart_required_changes.
restart_required_changes(old, new) ==
    {field \in {"fixed", "network"} : old[field] # new[field]} \cup
    {field \in {"enabled", "store", "dbPath", "redisUrl"} : old.status[field] # new.status[field]}

\* lib.rs: restart-required fields that changed are ignored.
RestartFieldsIgnored == [][restart_required_changes(config, config') = {}]_vars
=============================================================================
