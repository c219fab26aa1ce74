--------------------------- MODULE StatusStoreRedis ---------------------------
(***************************************************************************)
(* The Redis status store (status_redis.rs): records are values under a    *)
(* key with a time to live.  Nothing is locked: put_received,              *)
(* set_recipient_metadata, update_status and the deletion in get are each  *)
(* two commands, with anything in between.  Redis drops keys when their    *)
(* time is up, and any key at any time when it needs memory or restarts.   *)
(* A record is written by one handler, whose calls come one after the      *)
(* other; it is read by anyone.                                            *)
(***************************************************************************)
EXTENDS SubmissionStatus, Integers, FiniteSets

CONSTANTS
    Clients,    \* callers of get, each with one lookup at a time
    Ttls,       \* ttl_seconds of the configurations handlers or the store may hold
    Second,     \* ticks in a second, the unit of SETEX
    MaxTime,    \* bound: the clock stops here
    MaxFaults   \* bound: commands that fail

\* A key with its value, and the instant until which it is there.
Cell == [value : Record, dies : Nat]

ASSUME RedisAssumption ==
    /\ IsFiniteSet(Ids)
    /\ Ttls \subseteq Nat /\ Ttls # {}
    /\ Second \in Nat \ {0}
    /\ MaxTime \in Nat
    /\ MaxFaults \in Nat
    /\ Absent \notin Record /\ Absent \notin Cell

VARIABLES
    db,             \* db[id]: the value under the key and when the key dies
    used,           \* auxiliary: ids put_received was called with
    writing,        \* writing[id]: what the handler of id is about to SETEX, or Idle
    deleting,       \* deleting[c]: the id whose record a get of c found expired
    answer,         \* answer[c]: the last lookup of c and what it returned
    ttlSeconds,     \* config.ttl_seconds of the store
    clock,          \* Utc::now(), and the time of the Redis server
    faults          \* commands that have failed

vars == <<db, used, writing, deleting, answer, ttlSeconds, clock, faults>>

Idle == [call |-> "none"]

\* What a handler has decided to SETEX: the value and, of a new record, the ttl; of
\* a record it rewrites, when it has read it.
Pending == {Idle} \cup [call : {"put"}, value : Record, ttl : Nat]
                  \cup [call : {"rewrite"}, value : Record, read : Nat]

Answers == [id : Ids, found : Entry \cup {Absent}]

TypeOK ==
    /\ db \in [Ids -> Cell \cup {Absent}]
    /\ used \subseteq Ids
    /\ writing \in [Ids -> Pending]
    /\ deleting \in [Clients -> Ids \cup {Absent}]
    /\ answer \in [Clients -> Answers \cup {Absent}]
    /\ ttlSeconds \in Ttls
    /\ clock \in 0 .. MaxTime
    /\ faults \in 0 .. MaxFaults

Init ==
    /\ db = [id \in Ids |-> Absent]
    /\ used = {}
    /\ writing = [id \in Ids |-> Idle]
    /\ deleting = [c \in Clients |-> Absent]
    /\ answer = [c \in Clients |-> Absent]
    /\ ttlSeconds \in Ttls
    /\ clock = 0
    /\ faults = 0

-----------------------------------------------------------------------------
(* Commands.  A key is there up to and including the instant it dies. *)

Present(id) == db[id] # Absent /\ clock <= db[id].dies

SetEx(id, value, seconds) ==
    db' = [db EXCEPT ![id] = [value |-> value, dies |-> clock + seconds * Second]]

\* is_expired: strictly after expires_at.
Expired(r) == clock > r.expires

Works == UNCHANGED faults

Fails ==
    /\ faults < MaxFaults
    /\ faults' = faults + 1

\* The record under the key, for its owner, while it has not expired.
Readable(id, k) ==
    /\ Present(id)
    /\ db[id].value.key = k
    /\ ~Expired(db[id].value)

-----------------------------------------------------------------------------
(* put_received: EXISTS, then SETEX with the ttl of the store's configuration. *)

\* The ids of handlers are new, so EXISTS finds nothing; without a connection the
\* call succeeds and there is no record.
Put(id, k) ==
    /\ id \notin used
    /\ used' = used \cup {id}
    /\ \/ \E ttl \in Ttls :
             writing' = [writing EXCEPT ![id] =
                 [call |-> "put", ttl |-> ttlSeconds,
                  value |-> NewReceived(k, clock, ttl * Second)]]
          /\ Works
       \/ UNCHANGED writing /\ Fails
    /\ UNCHANGED <<db, deleting, answer, ttlSeconds, clock>>

\* Mutant of PutSet: a SETEX whose reply is lost is sent again.
PutRetried(id) ==
    /\ writing[id].call = "put"
    /\ \/ /\ writing[id].ttl > 0
          /\ SetEx(id, writing[id].value, writing[id].ttl)
          /\ \/ writing' = [writing EXCEPT ![id] = Idle] /\ Works
             \/ UNCHANGED writing /\ Fails
       \/ /\ UNCHANGED db /\ (Fails \/ (writing[id].ttl = 0 /\ Works))
          /\ writing' = [writing EXCEPT ![id] = Idle]
    /\ UNCHANGED <<used, deleting, answer, ttlSeconds, clock>>

\* A command that fails may have been executed: the reply is lost.  SETEX refuses
\* a time of zero.
PutSet(id) ==
    /\ writing[id].call = "put"
    /\ \/ /\ writing[id].ttl > 0
          /\ SetEx(id, writing[id].value, writing[id].ttl)
          /\ Works \/ Fails
       \/ writing[id].ttl = 0 /\ UNCHANGED db /\ Works
       \/ UNCHANGED db /\ Fails
    /\ writing' = [writing EXCEPT ![id] = Idle]
    /\ UNCHANGED <<used, deleting, answer, ttlSeconds, clock>>

-----------------------------------------------------------------------------
(* set_recipient_metadata and update_status: GET and decide, then SETEX. *)

\* Mutant of Rewrite: the lifetime starts again ("refreshed on UPDATE").
RewriteRefreshed(id, value) ==
    writing' = [writing EXCEPT ![id] =
        [call |-> "rewrite", read |-> clock,
         value |-> [value EXCEPT !.expires = clock + ttlSeconds * Second]]]

Rewrite(id, value) ==
    writing' = [writing EXCEPT ![id] = [call |-> "rewrite", read |-> clock, value |-> value]]

\* A GET that fails ends the call, which reports success.
ReadMetadata(id, k) ==
    /\ id \in used /\ writing[id] = Idle
    /\ \/ /\ Readable(id, k)
          /\ Rewrite(id, [db[id].value EXCEPT !.described = TRUE])
          /\ Works
       \/ ~Readable(id, k) /\ UNCHANGED writing /\ Works
       \/ UNCHANGED writing /\ Fails
    /\ UNCHANGED <<db, used, deleting, answer, ttlSeconds, clock>>

\* Mutant of MayUpdate: terminal records may be updated again.
MayUpdateTerminal(id, k) == Readable(id, k)

MayUpdate(id, k) == Readable(id, k) /\ db[id].value.status \notin Terminal

ReadStatus(id, k, status, code) ==
    /\ id \in used /\ writing[id] = Idle
    /\ \/ /\ MayUpdate(id, k)
          /\ Rewrite(id, [db[id].value EXCEPT !.status = status, !.code = code])
          /\ Works
       \/ ~MayUpdate(id, k) /\ UNCHANGED writing /\ Works
       \/ UNCHANGED writing /\ Fails
    /\ UNCHANGED <<db, used, deleting, answer, ttlSeconds, clock>>

\* Mutant of Remaining: every update gives the key its whole ttl again.
RemainingFull(r, now) == ttlSeconds

\* Whole seconds from now until expires_at, and at least one.
Remaining(r, now) ==
    LET left == IF r.expires >= now THEN (r.expires - now) \div Second ELSE 0 IN
    IF left > 0 THEN left ELSE 1

\* The whole record goes back, whatever has happened to the key.  The handler takes
\* the remaining seconds at some instant since its GET; the server counts them from
\* the instant SETEX arrives.
WriteBack(id) ==
    /\ writing[id].call = "rewrite"
    /\ \/ /\ \E now \in writing[id].read .. clock :
                SetEx(id, writing[id].value, Remaining(writing[id].value, now))
          /\ Works \/ Fails
       \/ UNCHANGED db /\ Fails
    /\ writing' = [writing EXCEPT ![id] = Idle]
    /\ UNCHANGED <<used, deleting, answer, ttlSeconds, clock>>

-----------------------------------------------------------------------------
(* get: GET, and DEL of a record found expired. *)

Answer(c, id, found) == answer' = [answer EXCEPT ![c] = [id |-> id, found |-> found]]

Get(c, id, k) ==
    /\ deleting[c] = Absent
    /\ \/ /\ Readable(id, k)
          /\ Answer(c, id, View(db[id].value))
          /\ UNCHANGED deleting /\ Works
       \/ /\ Present(id) => db[id].value.key # k
          /\ Answer(c, id, Absent)
          /\ UNCHANGED deleting /\ Works
       \/ /\ Present(id) /\ db[id].value.key = k /\ Expired(db[id].value)
          /\ deleting' = [deleting EXCEPT ![c] = id]
          /\ UNCHANGED answer /\ Works
       \/ UNCHANGED <<answer, deleting>> /\ Fails
    /\ UNCHANGED <<db, used, writing, ttlSeconds, clock>>

GetDelete(c) ==
    /\ deleting[c] # Absent
    /\ \/ db' = [db EXCEPT ![deleting[c]] = Absent] /\ (Works \/ Fails)
       \/ UNCHANGED db /\ Fails
    /\ Answer(c, deleting[c], Absent)
    /\ deleting' = [deleting EXCEPT ![c] = Absent]
    /\ UNCHANGED <<used, writing, ttlSeconds, clock>>

-----------------------------------------------------------------------------
ReloadConfig(ttl) ==
    /\ ttlSeconds' = ttl
    /\ UNCHANGED <<db, used, writing, deleting, answer, clock, faults>>

\* maxmemory-policy, a restart of the server, somebody's DEL.
Evict(id) ==
    /\ db[id] # Absent
    /\ db' = [db EXCEPT ![id] = Absent]
    /\ UNCHANGED <<used, writing, deleting, answer, ttlSeconds, clock,
                   faults>>

Tick ==
    /\ clock < MaxTime
    /\ clock' = clock + 1
    /\ UNCHANGED <<db, used, writing, deleting, answer, ttlSeconds, faults>>

Next ==
    \/ \E id \in Ids :
          \/ \E k \in Keys :
                \/ Put(id, k)
                \/ ReadMetadata(id, k)
                \/ \E status \in Updates, code \in Codes : ReadStatus(id, k, status, code)
                \/ \E c \in Clients : Get(c, id, k)
          \/ PutSet(id)
          \/ WriteBack(id)
          \/ Evict(id)
    \/ \E c \in Clients : GetDelete(c)
    \/ \E ttl \in Ttls : ReloadConfig(ttl)
    \/ Tick

Spec == Init /\ [][Next]_vars

-----------------------------------------------------------------------------
(* Action properties. *)

\* An update does not give a record a new life (RFC 830: the remaining ttl, not a
\* full reset).  It leaves expires_at as it is; the key it rewrites goes less than a
\* second before expires_at at the earliest, and outlives it by no more than the
\* call took from its GET to its SETEX, or than the second SETEX needs at least.
UpdatesKeepLifetime ==
    [][\A id \in Ids :
          (writing[id].call = "rewrite" /\ writing'[id] = Idle /\ db'[id] # db[id]) =>
             LET cell == db'[id] IN
             /\ db[id] # Absent => cell.value.expires = db[id].value.expires
             /\ cell.dies > cell.value.expires - Second
             /\ \/ cell.dies <= cell.value.expires + (clock - writing[id].read)
                \/ cell.dies <= clock + Second]_vars

\* A lookup deletes only what has expired, although the record it has read may have
\* been rewritten before its DEL arrives (expires_at is never changed).
LookupsDeleteOnlyExpired ==
    [][\A c \in Clients :
          (deleting[c] # Absent /\ deleting'[c] = Absent) =>
             \/ db'[deleting[c]] = db[deleting[c]]
             \/ Expired(db[deleting[c]].value)]_vars

(* The contract: an entry is on the board from its SETEX to its expires_at, unless it  *)
(* is dropped; a rewrite under way keeps it there, which may yet bring it back.       *)

Latest(id) ==
    IF db[id] # Absent THEN db[id].value
    ELSE IF writing[id].call = "rewrite" THEN writing[id].value ELSE Absent

BoardEntry(id) ==
    IF Latest(id) # Absent /\ ~Expired(Latest(id)) THEN View(Latest(id)) ELSE Absent

BoardSpent == {id \in used : writing[id].call # "put" /\ BoardEntry(id) = Absent}

Board == INSTANCE StatusBoard WITH
            board <- [id \in Ids |-> BoardEntry(id)], spent <- BoardSpent

\* The store with two commands to a call, keys that Redis drops and replies that are
\* lost does nothing that the contract does not allow, lookups that miss included.
ImplementsBoard == Board!LossySpec

\* Outcomes that any lookup has returned never change, although a rewrite brings a
\* record back that Redis had dropped: the one handler that writes a record holds
\* no copy older than its outcome.
AnswersStable == Board!AnswersNeverRegress
=============================================================================
