-------------------------- MODULE StatusStoreMemory --------------------------
(***************************************************************************)
(* The in-memory status store (status_memory.rs): a map behind a           *)
(* read-write lock, a hot-swappable configuration, two counters, and the   *)
(* background sweep of main.rs.  A step of this module is one critical     *)
(* section of the lock; get, expire_old_records and record_count take two  *)
(* steps, because they read the clock or the map before the lock they act  *)
(* under, or set the gauge after the lock they read the map under.         *)
(***************************************************************************)
EXTENDS SubmissionStatus, Integers, FiniteSets

CONSTANTS
    Clients,    \* callers of get, each with one lookup at a time
    Counters,   \* callers of record_count, each with one count at a time
    Ttls,       \* ttl_seconds of the configurations handlers may hold
    Caps,       \* max_records of the configurations SIGHUP may load
    MaxLag,     \* bound: ticks between new_received and put_received's lock
    MaxTime     \* bound: the clock stops here

ASSUME StoreAssumption ==
    /\ IsFiniteSet(Ids)
    /\ Ttls \subseteq Nat
    /\ Caps \subseteq Nat /\ Caps # {}
    /\ MaxLag \in Nat
    /\ MaxTime \in Nat
    /\ Absent \notin Record

VARIABLES
    records,        \* the map, as a function from every id; Absent where it has no key
    gone,           \* auxiliary: ids whose record has left the map
    gauge,          \* status_records_current
    expiredTotal,   \* expired_total
    maxRecords,     \* config.max_records of the store
    clock,          \* Utc::now()
    sweepNow,       \* the instant expire_old_records read, or NotSweeping
    upgrading,      \* upgrading[c]: the id a get found expired under the read lock
    answer,         \* answer[c]: the last lookup of c and what it returned
    counting,       \* counting[c]: the length a record_count read and has not yet set
    counted         \* auxiliary: what the last count to finish did not see (see SetCurrent)

mapVars == <<records, gone>>
counters == <<gauge, expiredTotal>>
getVars == <<upgrading, answer>>
countVars == <<counting, counted>>
vars == <<records, gone, gauge, expiredTotal, maxRecords, clock, sweepNow,
          upgrading, answer, counting, counted>>

NotSweeping == -1

Stored == {id \in Ids : records[id] # Absent}

\* is_expired: strictly after expires_at.
Expired(id) == clock > records[id].expires

\* The record is in the map, belongs to k and has not expired.
LiveFor(id, k) == id \in Stored /\ records[id].key = k /\ ~Expired(id)

\* Mutant of Oldest: the comparison of created_at is the wrong way round.
Newest(S) == {id \in S : \A other \in S : records[id].created >= records[other].created}

\* Candidates of an eviction by created_at; HashMap order breaks ties.
Oldest(S) == {id \in S : \A other \in S : records[id].created <= records[other].created}

Removed(ids) == [id \in Ids |-> IF id \in ids THEN Absent ELSE records[id]]

Answers == [id : Ids, found : Entry \cup {Absent}]

\* A length of the map, and how many records had left it when it was taken.
Lengths == [len : Nat, gone : Nat]

TypeOK ==
    /\ records \in [Ids -> Record \cup {Absent}]
    /\ gone \subseteq Ids
    /\ gauge \in Int
    /\ expiredTotal \in Nat
    /\ maxRecords \in Caps
    /\ clock \in Nat
    /\ sweepNow \in Nat \cup {NotSweeping}
    /\ upgrading \in [Clients -> Ids \cup {Absent}]
    /\ answer \in [Clients -> Answers \cup {Absent}]
    /\ counting \in [Counters -> Lengths \cup {Absent}]
    /\ counted \in [late : Int, gone : Nat]

Init ==
    /\ records = [id \in Ids |-> Absent]
    /\ gone = {}
    /\ gauge = 0
    /\ expiredTotal = 0
    /\ maxRecords \in Caps
    /\ clock = 0
    /\ sweepNow = NotSweeping
    /\ upgrading = [c \in Clients |-> Absent]
    /\ answer = [c \in Clients |-> Absent]
    /\ counting = [c \in Counters |-> Absent]
    /\ counted = [late |-> 0, gone |-> 0]

-----------------------------------------------------------------------------
(* Writers: one critical section each. *)

\* Mutant of Victims: evicts one record too early.
VictimsBelowCap ==
    IF Cardinality(Stored) + 1 >= maxRecords /\ Stored # {}
    THEN {{id} : id \in Oldest(Stored)} ELSE {{}}

\* Mutant of Victims: evicts one record too late.
VictimsOverCap ==
    IF Cardinality(Stored) > maxRecords /\ Stored # {}
    THEN {{id} : id \in Oldest(Stored)} ELSE {{}}

\* At the cap one record makes room, whether it has expired or not.
Victims ==
    IF Cardinality(Stored) >= maxRecords /\ Stored # {}
    THEN {{id} : id \in Oldest(Stored)} ELSE {{}}

\* Mutant of PutReceived: insert-or-replace.
PutReplacing(id, k, created, ttl) ==
    /\ \E victims \in IF id \in Stored THEN {{}} ELSE Victims :
          /\ records' = [Removed(victims) EXCEPT ![id] = NewReceived(k, created, ttl)]
          /\ gone' = gone \cup victims
    /\ gauge' = IF id \in Stored THEN gauge ELSE gauge + 1
    /\ UNCHANGED <<expiredTotal, maxRecords, clock, sweepNow, getVars, countVars>>

\* An id already in the map is left alone.  The caller built the record at
\* "created", before it took the lock, with the ttl of its own configuration.
PutReceived(id, k, created, ttl) ==
    /\ \/ /\ id \in Stored
          /\ UNCHANGED <<mapVars, gauge>>
       \/ /\ id \notin Stored
          /\ \E victims \in Victims :
                /\ records' = [Removed(victims) EXCEPT
                                 ![id] = NewReceived(k, created, ttl)]
                /\ gone' = gone \cup victims
          /\ gauge' = gauge + 1
    /\ UNCHANGED <<expiredTotal, maxRecords, clock, sweepNow, getVars, countVars>>

\* Owner and lifetime are checked; the status is not.
SetRecipientMetadata(id, k) ==
    /\ records' = IF LiveFor(id, k)
                  THEN [records EXCEPT ![id].described = TRUE] ELSE records
    /\ UNCHANGED <<gone, counters, maxRecords, clock, sweepNow, getVars, countVars>>

MayUpdate(id, k) == LiveFor(id, k) /\ records[id].status \notin Terminal

UpdateStatus(id, k, status, code) ==
    /\ records' = IF MayUpdate(id, k)
                  THEN [records EXCEPT ![id].status = status, ![id].code = code]
                  ELSE records
    /\ UNCHANGED <<gone, counters, maxRecords, clock, sweepNow, getVars, countVars>>

-----------------------------------------------------------------------------
(* get: answers under the read lock unless the record has expired. *)

Answer(c, id, found) == answer' = [answer EXCEPT ![c] = [id |-> id, found |-> found]]

GetRead(c, id, k) ==
    /\ upgrading[c] = Absent
    /\ \/ /\ id \in Stored /\ records[id].key = k /\ Expired(id)
          /\ upgrading' = [upgrading EXCEPT ![c] = id]
          /\ UNCHANGED answer
       \/ /\ id \in Stored /\ records[id].key = k /\ ~Expired(id)
          /\ Answer(c, id, View(records[id]))
          /\ UNCHANGED upgrading
       \/ /\ id \in Stored => records[id].key # k
          /\ Answer(c, id, Absent)
          /\ UNCHANGED upgrading
    /\ UNCHANGED <<mapVars, counters, maxRecords, clock, sweepNow, countVars>>

\* Mutant of StillExpired: the second lookup is left out.
StillExpiredAssumed(id) == TRUE

\* The record is looked up again under the write lock: another get or the
\* sweep may have removed it, and counted it, in between.
StillExpired(id) == id \in Stored /\ Expired(id)

GetExpire(c) ==
    /\ upgrading[c] # Absent
    /\ LET id == upgrading[c] IN
       /\ \/ /\ StillExpired(id)
             /\ records' = Removed({id})
             /\ gone' = gone \cup {id}
             /\ expiredTotal' = expiredTotal + 1
             /\ gauge' = gauge - 1
          \/ /\ ~StillExpired(id)
             /\ UNCHANGED <<mapVars, counters>>
       /\ Answer(c, id, Absent)
    /\ upgrading' = [upgrading EXCEPT ![c] = Absent]
    /\ UNCHANGED <<maxRecords, clock, sweepNow, countVars>>

-----------------------------------------------------------------------------
(* expire_old_records, called by the cleanup task of main.rs. *)

SweepBegin ==
    /\ sweepNow = NotSweeping
    /\ sweepNow' = clock
    /\ UNCHANGED <<mapVars, counters, maxRecords, clock, getVars, countVars>>

\* Mutant of SweepExpired: records in progress are spared.
SweepTerminalOnly ==
    {id \in Stored : records[id].expires <= sweepNow /\ records[id].status \in Terminal}

\* What retain removes: the comparison includes the instant of expiry itself.
SweepExpired == {id \in Stored : records[id].expires <= sweepNow}

\* The excess over the cap is evicted from the rest, oldest first.
SweepEvictions(kept) ==
    {E \in SUBSET kept :
        /\ Cardinality(E) = (IF Cardinality(kept) > maxRecords
                             THEN Cardinality(kept) - maxRecords ELSE 0)
        /\ \A e \in E, k \in kept \ E : records[e].created <= records[k].created}

SweepEnd ==
    /\ sweepNow # NotSweeping
    /\ \E evicted \in SweepEvictions(Stored \ SweepExpired) :
          /\ records' = Removed(SweepExpired \cup evicted)
          /\ gone' = gone \cup SweepExpired \cup evicted
    /\ expiredTotal' = expiredTotal + Cardinality(SweepExpired)
    /\ gauge' = gauge - Cardinality(SweepExpired)
    /\ sweepNow' = NotSweeping
    /\ UNCHANGED <<maxRecords, clock, getVars, countVars>>

-----------------------------------------------------------------------------
(* record_count: the length is read under the lock, the gauge is set after it. *)

CountRead(c) ==
    /\ counting[c] = Absent
    /\ counting' = [counting EXCEPT ![c] = [len |-> Cardinality(Stored),
                                           gone |-> Cardinality(gone)]]
    /\ UNCHANGED <<mapVars, counters, maxRecords, clock, sweepNow, getVars, counted>>

\* What came and what left since the lock was released is lost from the gauge;
\* "counted" remembers how much came since, and how much had left by then.
SetCurrent(c) ==
    /\ counting[c] # Absent
    /\ gauge' = counting[c].len
    /\ counted' = [late |-> Cardinality(Stored) + Cardinality(gone)
                              - (counting[c].len + counting[c].gone),
                   gone |-> counting[c].gone]
    /\ counting' = [counting EXCEPT ![c] = Absent]
    /\ UNCHANGED <<mapVars, expiredTotal, maxRecords, clock, sweepNow, getVars>>

ReloadConfig(cap) ==
    /\ maxRecords' = cap
    /\ UNCHANGED <<mapVars, counters, clock, sweepNow, getVars, countVars>>

Tick ==
    /\ clock < MaxTime
    /\ clock' = clock + 1
    /\ UNCHANGED <<mapVars, counters, maxRecords, sweepNow, getVars, countVars>>

-----------------------------------------------------------------------------
\* Request ids are fresh: no caller puts an id again after its record left the map.
PutFresh(id, k) ==
    /\ id \notin gone
    /\ \E lag \in 0 .. MaxLag, ttl \in Ttls :
          lag <= clock /\ PutReceived(id, k, clock - lag, ttl)

Next ==
    \/ \E id \in Ids, k \in Keys :
          \/ PutFresh(id, k)
          \/ SetRecipientMetadata(id, k)
          \/ \E status \in Updates, code \in Codes : UpdateStatus(id, k, status, code)
          \/ \E c \in Clients : GetRead(c, id, k)
    \/ \E c \in Clients : GetExpire(c)
    \/ \E c \in Counters : CountRead(c) \/ SetCurrent(c)
    \/ SweepBegin
    \/ SweepEnd
    \/ \E cap \in Caps : ReloadConfig(cap)
    \/ Tick

\* The cleanup task loops for ever; nothing else is promised to happen.
Spec == Init /\ [][Next]_vars /\ WF_vars(SweepBegin) /\ WF_vars(SweepEnd)

-----------------------------------------------------------------------------
(* Invariants. *)

\* status_records_current is right but for what its readers must allow for.  It
\* misses at most the records put while the last record_count was between its
\* lock and the gauge, for every path that takes a record off the gauge takes it
\* out of the map, once.  And it has at most the records too many that have left
\* the map since that length was read: evictions do not lower the gauge, and
\* the next record_count puts that right.
GaugeTracksStore ==
    /\ gauge >= Cardinality(Stored) - counted.late
    /\ gauge <= Cardinality(Stored) + Cardinality(gone) - counted.gone

\* A record is counted in expired_total at most once, although two lookups and
\* the sweep may all have seen it expired before one of them gets the lock.
ExpiredCountedOnce == expiredTotal <= Cardinality(gone)

\* An id leaves the map once and for all.
GoneNotStored == gone \cap Stored = {}

\* A get that gave up its read lock to delete an expired record can only find
\* that record still expired or already removed: it never deletes a live one
\* and its answer, not found, is right at both ends of the gap.
UpgradesFindTheDead ==
    \A c \in Clients : upgrading[c] # Absent =>
        \/ upgrading[c] \in gone
        \/ StillExpired(upgrading[c])

(* Action properties. *)

\* Records are lost early only for want of room: one that leaves the map before
\* its expiry does so in a step that found the table at its cap or over it.
EarlyLossOnlyAtCap ==
    [][\A id \in Stored \ Stored' :
          \/ records[id].expires <= clock
          \/ Cardinality(Stored) >= maxRecords]_vars

\* Early losses respect age: nothing that survives such a step is older than
\* a live record it evicted (put_received and step 2 of expire_old_records).
YoungerNeverEvictedFirst ==
    [][\A lost \in Stored \ Stored', kept \in Stored \cap Stored' :
          \/ records[lost].expires <= clock
          \/ records[lost].created <= records[kept].created]_vars

\* The table never grows past the cap in force, except that one record is
\* accepted under a cap of zero; and a completed sweep is back under the cap,
\* however far a reload had lowered it.
CapEnforced ==
    [][/\ Cardinality(Stored') > Cardinality(Stored) =>
             Cardinality(Stored') <= (IF maxRecords = 0 THEN 1 ELSE maxRecords)
       /\ (sweepNow # NotSweeping /\ sweepNow' = NotSweeping) =>
             Cardinality(Stored') <= maxRecords]_vars

(* Liveness. *)

\* Every record that has outlived its ttl is eventually deleted, whether or not
\* anybody asks for it (the background sweep exists for the ones nobody reads).
ExpiredAreSwept == \A id \in Ids : (id \in Stored /\ Expired(id)) ~> (id \in gone)

(* The contract: an entry is on the board while it is in the map and unexpired. *)

BoardEntry(id) ==
    IF id \in Stored /\ ~Expired(id) THEN View(records[id]) ELSE Absent

BoardSpent == gone \cup {id \in Stored : Expired(id)}

Board == INSTANCE StatusBoard WITH
            board <- [id \in Ids |-> BoardEntry(id)], spent <- BoardSpent

\* The store with its locks, clock, evictions and two-step lookups does nothing
\* the atomic contract of the StatusStore trait does not allow.
ImplementsBoard == Board!Spec

\* What the contract promises clients, said of this store: outcomes that any
\* lookup has returned never change (see AnswersNeverRegress in StatusBoard).
AnswersStable == Board!AnswersNeverRegress
=============================================================================
