-------------------------- MODULE StatusStoreSqlite --------------------------
(***************************************************************************)
(* The SQLite status store (status_sqlite.rs): a table behind one mutex.   *)
(* Every SQL statement is a transaction of its own, so the process may     *)
(* crash between two statements of one call, and any statement may fail.   *)
(* The table survives a crash; metrics, configuration and calls do not.    *)
(* Instants are read before the mutex is taken and compared as RFC 3339    *)
(* text, whose order is the order of time.                                 *)
(***************************************************************************)
EXTENDS SubmissionStatus, Integers, FiniteSets

CONSTANTS
    Clients,    \* callers of get, each with one lookup at a time
    Ttls,       \* ttl_seconds of the configurations handlers may hold
    Caps,       \* max_records of the configurations SIGHUP or a restart may load
    MaxLag,     \* bound: ticks between reading the clock and taking the mutex
    MaxTime,    \* bound: the clock stops here
    MaxFaults   \* bound: statements that fail, and crashes

ASSUME SqliteAssumption ==
    /\ IsFiniteSet(Ids)
    /\ Ttls \subseteq Nat
    /\ Caps \subseteq Nat /\ Caps # {}
    /\ {MaxLag, MaxTime, MaxFaults} \subseteq Nat
    /\ Absent \notin Record

VARIABLES
    rows,           \* submission_statuses, as a function from every id
    gone,           \* auxiliary: ids whose row has left the table
    conn,           \* who holds the mutex between two statements of a call
    gauge,          \* status_records_current of this process
    uncounted,      \* auxiliary: rows the gauge was started or reset without
    maxRecords,     \* config.max_records of the store
    clock,          \* Utc::now()
    sweepNow,       \* the instant expire_old_records read, or NotSweeping
    answer,         \* answer[c]: the last lookup of c and what it returned
    errors,         \* statements that have failed
    crashes         \* crashes so far

tableVars == <<rows, gone>>
faultVars == <<errors, crashes>>
metrics == <<gauge, uncounted>>
vars == <<rows, gone, conn, gauge, uncounted, maxRecords, clock,
          sweepNow, answer, errors, crashes>>

NotSweeping == -1

\* A call under way has loaded the cap; "crowded" is auxiliary and says that it
\* found more rows than that.
Free == [call |-> "none"]
Trimming(cap) == [call |-> "trim", cap |-> cap]
Inserting(id, r, cap, crowded) ==
    [call |-> "insert", id |-> id, row |-> r, cap |-> cap, crowded |-> crowded]

Stored == {id \in Ids : rows[id] # Absent}

\* The condition of every DELETE by age: the instant of expiry is included.
ExpiredAt(id, now) == rows[id].expires <= now

Without(ids) == [id \in Ids |-> IF id \in ids THEN Absent ELSE rows[id]]

\* Instants a caller waiting for the mutex may have read.
Instants == {now \in 0 .. clock : clock <= now + MaxLag}

Answers == [id : Ids, found : Entry \cup {Absent}]

TypeOK ==
    /\ rows \in [Ids -> Record \cup {Absent}]
    /\ gone \subseteq Ids
    /\ \/ conn = Free
       \/ conn \in [call : {"trim"}, cap : Caps]
       \/ conn \in [call : {"insert"}, id : Ids, row : Record, cap : Caps,
                   crowded : BOOLEAN]
    /\ gauge \in Int
    /\ uncounted \in Nat
    /\ maxRecords \in Caps
    /\ clock \in Nat
    /\ sweepNow \in Nat \cup {NotSweeping}
    /\ answer \in [Clients -> Answers \cup {Absent}]
    /\ errors \in 0 .. MaxFaults
    /\ crashes \in 0 .. MaxFaults

Init ==
    /\ rows = [id \in Ids |-> Absent]
    /\ gone = {}
    /\ conn = Free
    /\ gauge = 0
    /\ uncounted = 0
    /\ maxRecords \in Caps
    /\ clock = 0
    /\ sweepNow = NotSweeping
    /\ answer = [c \in Clients |-> Absent]
    /\ errors = 0
    /\ crashes = 0

-----------------------------------------------------------------------------
(* Statements. *)

Succeeds == UNCHANGED errors

Fails ==
    /\ errors + crashes < MaxFaults
    /\ errors' = errors + 1

Delete(ids) ==
    /\ rows' = Without(ids)
    /\ gone' = gone \cup ids

\* Mutant of Excess: a full table is left full.
ExcessOnly(count, cap) == IF count > cap THEN count - cap ELSE 0

\* How many rows evict_if_needed deletes when it has counted "count": at least one
\* when the table is full.
Excess(count, cap) ==
    IF count < cap THEN 0 ELSE IF count > cap THEN count - cap ELSE 1

\* Mutant of OldestRows: ORDER BY created_at DESC.
NewestRows(n) ==
    {E \in SUBSET Stored :
        /\ Cardinality(E) = IF n <= Cardinality(Stored) THEN n ELSE Cardinality(Stored)
        /\ \A e \in E, kept \in Stored \ E : rows[e].created >= rows[kept].created}

\* ORDER BY created_at ASC LIMIT n; the order of equals is open.
OldestRows(n) ==
    {E \in SUBSET Stored :
        /\ Cardinality(E) = IF n <= Cardinality(Stored) THEN n ELSE Cardinality(Stored)
        /\ \A e \in E, kept \in Stored \ E : rows[e].created <= rows[kept].created}

\* A count that fails counts as zero, a DELETE that fails is ignored.
EvictIfNeeded(cap) ==
    \/ \E E \in OldestRows(Excess(Cardinality(Stored), cap)) : Delete(E) /\ Succeeds
    \/ \E E \in OldestRows(Excess(0, cap)) : Delete(E) /\ Fails
    \/ UNCHANGED tableVars /\ Fails

-----------------------------------------------------------------------------
(* put_received: makes room, and then finds out whether the id is there. *)

PutEvict(id, k, created, ttl) ==
    /\ conn = Free
    /\ EvictIfNeeded(maxRecords)
    /\ conn' = Inserting(id, NewReceived(k, created, ttl), maxRecords,
                         Cardinality(Stored) > maxRecords)
    /\ UNCHANGED <<metrics, maxRecords, clock, sweepNow, answer, crashes>>

\* INSERT OR IGNORE.
PutInsert ==
    /\ conn.call = "insert"
    /\ \/ /\ rows' = IF conn.id \in Stored THEN rows
                     ELSE [rows EXCEPT ![conn.id] = conn.row]
          /\ gauge' = IF conn.id \in Stored THEN gauge ELSE gauge + 1
          /\ Succeeds
       \/ UNCHANGED <<rows, gauge>> /\ Fails
    /\ conn' = Free
    /\ UNCHANGED <<gone, uncounted, maxRecords, clock, sweepNow, answer,
                   crashes>>

\* An UPDATE of one row, by a call that does nothing else; its failure is not reported.
UpdateRow(applies, after) ==
    /\ conn = Free
    /\ \/ rows' = (IF applies THEN after ELSE rows) /\ Succeeds
       \/ UNCHANGED rows /\ Fails
    /\ UNCHANGED <<gone, conn, metrics, maxRecords, clock, sweepNow, answer, crashes>>

\* Mutant of SetRecipientMetadata: INSERT OR REPLACE in the place of UPDATE.
MetadataUpserted(id, k) ==
    \E ttl \in Ttls :
        UpdateRow(id \in Stored => rows[id].key = k,
                  [rows EXCEPT ![id] = [NewReceived(k, clock, ttl) EXCEPT !.described = TRUE]])

\* The owner is checked; neither lifetime nor status is.
SetRecipientMetadata(id, k) ==
    UpdateRow(id \in Stored /\ rows[id].key = k,
              [rows EXCEPT ![id].described = TRUE])

\* Mutant of MayUpdate: AND status NOT IN (...) is missing.
MayUpdateTerminal(id, k, now) ==
    id \in Stored /\ rows[id].key = k /\ ~ExpiredAt(id, now)

MayUpdate(id, k, now) ==
    /\ id \in Stored
    /\ rows[id].key = k
    /\ ~ExpiredAt(id, now)
    /\ rows[id].status \notin Terminal

UpdateStatus(id, k, status, code) ==
    \E now \in Instants :
        UpdateRow(MayUpdate(id, k, now),
                  [rows EXCEPT ![id].status = status, ![id].code = code])

-----------------------------------------------------------------------------
(* get: one SELECT, and a DELETE if it finds nothing. *)

Answer(c, id, found) == answer' = [answer EXCEPT ![c] = [id |-> id, found |-> found]]

Found(id, k, now) == id \in Stored /\ rows[id].key = k /\ ~ExpiredAt(id, now)

\* Mutant of DeleteStale: the metric is not told how many rows were deleted.
DeleteUncounted(id, now) ==
    /\ \/ id \in Stored /\ ExpiredAt(id, now) /\ Delete({id})
       \/ ~(id \in Stored /\ ExpiredAt(id, now)) /\ UNCHANGED tableVars
    /\ gauge' = gauge - 1
    /\ UNCHANGED uncounted

\* The DELETE goes by id and age, whoever asked, and is counted if it hit.
DeleteStale(id, now) ==
    /\ id \in Stored /\ ExpiredAt(id, now)
    /\ Delete({id})
    /\ gauge' = gauge - 1
    /\ UNCHANGED uncounted

\* A SELECT that fails is an error for the caller, who learns nothing.
Get(c, id, k) ==
    /\ conn = Free
    /\ \E now \in Instants :
       \/ /\ Found(id, k, now)
          /\ Answer(c, id, View(rows[id]))
          /\ UNCHANGED <<tableVars, metrics>> /\ Succeeds
       \/ /\ ~Found(id, k, now)
          /\ Answer(c, id, Absent)
          /\ \/ DeleteStale(id, now) /\ Succeeds
             \/ /\ ~(id \in Stored /\ ExpiredAt(id, now))
                /\ UNCHANGED <<tableVars, metrics>> /\ Succeeds
             \/ UNCHANGED <<tableVars, metrics>> /\ Fails
       \/ UNCHANGED <<tableVars, metrics, answer>> /\ Fails
    /\ UNCHANGED <<conn, maxRecords, clock, sweepNow, crashes>>

-----------------------------------------------------------------------------
(* expire_old_records: two statements under one lock. *)

SweepBegin ==
    /\ sweepNow = NotSweeping
    /\ sweepNow' = clock
    /\ UNCHANGED <<tableVars, conn, metrics, maxRecords, clock, answer, faultVars>>

\* Mutant of SweepExpired: the instant of expiry is excluded.
SweepOverdue == {id \in Stored : rows[id].expires < sweepNow}

SweepExpired == {id \in Stored : ExpiredAt(id, sweepNow)}

SweepDelete ==
    /\ sweepNow # NotSweeping
    /\ conn = Free
    /\ \/ /\ Delete(SweepExpired)
          /\ gauge' = gauge - Cardinality(SweepExpired)
          /\ UNCHANGED uncounted /\ Succeeds
       \/ UNCHANGED <<tableVars, metrics>> /\ Fails
    /\ conn' = Trimming(maxRecords)
    /\ UNCHANGED <<maxRecords, clock, sweepNow, answer, crashes>>

SweepTrim ==
    /\ conn.call = "trim"
    /\ EvictIfNeeded(conn.cap)
    /\ conn' = Free
    /\ sweepNow' = NotSweeping
    /\ UNCHANGED <<metrics, maxRecords, clock, answer, crashes>>

-----------------------------------------------------------------------------
\* A count that fails is published as zero.
RecordCount ==
    /\ conn = Free
    /\ \/ /\ gauge' = Cardinality(Stored) /\ uncounted' = 0
          /\ Succeeds
       \/ /\ gauge' = 0 /\ uncounted' = Cardinality(Stored)
          /\ Fails
    /\ UNCHANGED <<tableVars, conn, maxRecords, clock, sweepNow, answer,
                   crashes>>

ReloadConfig(cap) ==
    /\ maxRecords' = cap
    /\ UNCHANGED <<tableVars, conn, metrics, clock, sweepNow, answer, faultVars>>

\* The process dies wherever it is and is started again: open finds the table at
\* its schema version and leaves it alone; the metrics start from nothing.
Crash ==
    /\ errors + crashes < MaxFaults
    /\ crashes' = crashes + 1
    /\ conn' = Free
    /\ sweepNow' = NotSweeping
    /\ gauge' = 0 /\ uncounted' = Cardinality(Stored)
    /\ maxRecords' \in Caps
    /\ UNCHANGED <<tableVars, clock, answer, errors>>

Tick ==
    /\ clock < MaxTime
    /\ clock' = clock + 1
    /\ UNCHANGED <<tableVars, conn, metrics, maxRecords, sweepNow, answer, faultVars>>

-----------------------------------------------------------------------------
\* Ids are fresh ULIDs; the record was made before the mutex was taken, with the
\* ttl of the caller's configuration.
Put(id, k) ==
    /\ id \notin Stored \cup gone
    /\ \E created \in Instants, ttl \in Ttls : PutEvict(id, k, created, ttl)

Next ==
    \/ \E id \in Ids, k \in Keys :
          \/ Put(id, k)
          \/ SetRecipientMetadata(id, k)
          \/ \E status \in Updates, code \in Codes : UpdateStatus(id, k, status, code)
          \/ \E c \in Clients : Get(c, id, k)
    \/ PutInsert
    \/ SweepBegin
    \/ SweepDelete
    \/ SweepTrim
    \/ RecordCount
    \/ \E cap \in Caps : ReloadConfig(cap)
    \/ Crash
    \/ Tick

\* The cleanup task loops for ever and a call that holds the mutex finishes.
Spec ==
    /\ Init /\ [][Next]_vars
    /\ WF_vars(PutInsert)
    /\ WF_vars(SweepBegin) /\ WF_vars(SweepDelete) /\ WF_vars(SweepTrim)

-----------------------------------------------------------------------------
(* Invariants. *)

\* status_records_current misses at most the rows it was started or reset without:
\* those of the process before a restart, or of a count that failed.  Every path
\* that takes a row off the gauge deletes it, under one lock, and only once.
GaugeMissesOnlyUncounted == gauge + uncounted >= Cardinality(Stored)

(* Action properties. *)

\* The cap the call under way has loaded, or the next one will.
CapInUse == IF conn = Free THEN maxRecords ELSE conn.cap

\* No row is lost before its time unless the table is full, and then no row that is
\* younger than one that stays: not by a crash between the two statements of a call,
\* not by a failed statement, not by a lookup or a sweep that waited for the mutex
\* with an instant read before.
EarlyLossOnlyOfOldestAtCap ==
    [][\A lost \in Stored \ Stored' :
          \/ rows[lost].expires <= clock
          \/ /\ Cardinality(Stored) >= CapInUse
             /\ \A kept \in Stored \cap Stored' : rows[lost].created <= rows[kept].created]_vars

\* A put that finds the table within the cap it has loaded leaves it there, but for
\* one row under a cap of zero and one for each statement that ever failed; and a
\* sweep in which nothing fails ends within the cap.  Room is made in one transaction
\* and used in the next.
CapEnforced ==
    [][/\ (Cardinality(Stored') > Cardinality(Stored) /\ ~conn.crowded) =>
             Cardinality(Stored') <= (IF conn.cap = 0 THEN 1 ELSE conn.cap) + errors
       /\ (conn.call = "trim" /\ conn' = Free /\ UNCHANGED faultVars) =>
             Cardinality(Stored') <= conn.cap]_vars

(* Liveness. *)

\* Every row that has outlived its ttl is eventually deleted, the ones found in the
\* file after a restart included.
ExpiredAreSwept ==
    \A id \in Ids : (id \in Stored /\ ExpiredAt(id, clock)) ~> (id \notin Stored)

(* The contract: an entry is on the board while its row is in the table. *)

BoardEntry(id) == IF rows[id] # Absent THEN View(rows[id]) ELSE Absent

Board == INSTANCE StatusBoard WITH
            board <- [id \in Ids |-> BoardEntry(id)], spent <- gone

\* The store with two statements to a call, crashes, failures and instants that lag
\* does nothing that the contract does not allow, lookups that miss included.
ImplementsBoard == Board!LossySpec

\* Outcomes that any lookup has returned never change, over crashes and restarts
\* too (the status guard in the WHERE of update_status, INSERT OR IGNORE).
AnswersStable == Board!AnswersNeverRegress
=============================================================================
