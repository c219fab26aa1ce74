----------------------- MODULE StatusStoreSqlite_proofs -----------------------
(***************************************************************************)
(* Proofs about the SQLite store, for any number of ids, keys, clients and *)
(* caps, any lag between clock and mutex and any number of crashes and     *)
(* failed statements: types, the gauge, what may be lost early, the cap,   *)
(* and that outcomes once read never change.                               *)
(***************************************************************************)
EXTENDS StatusStoreSqlite, FiniteSetTheorems, TLAPS

(* Facts about the table. *)

\* Every set of stored ids is finite, so its Cardinality is a number.
LEMMA StoredFinite ==
    ASSUME NEW S, S \subseteq Ids
    PROVE  IsFiniteSet(S) /\ Cardinality(S) \in Nat
BY SqliteAssumption, FS_Subset, FS_CardinalityType

\* A record made by new_received is a record.
LEMMA NewReceivedType ==
    ASSUME NEW k \in Keys, NEW created \in Nat, NEW ttl \in Ttls
    PROVE  NewReceived(k, created, ttl) \in Record
BY SqliteAssumption, VocabularyAssumption DEF NewReceived, Record, Statuses

\* The client's view of a record is an entry.
LEMMA ViewType ==
    ASSUME NEW r \in Record
    PROVE  View(r) \in Entry
BY DEF View, Record, Entry

\* A statement deletes the rows in lost: they are gone for good, the others stay.
Loses(lost) ==
    /\ lost \subseteq Stored
    /\ Stored' = Stored \ lost
    /\ gone' = gone \cup lost
    /\ rows' \in [Ids -> Record \cup {Absent}]
    /\ \A id \in Stored' : rows'[id] = rows[id]
    /\ Cardinality(lost) \in Nat
    /\ Cardinality(Stored') = Cardinality(Stored) - Cardinality(lost)

\* DELETE of stored rows.
LEMMA DeleteLoses ==
    ASSUME TypeOK, NEW lost \in SUBSET Stored, Delete(lost)
    PROVE  Loses(lost)
<1>1. /\ IsFiniteSet(Stored) /\ IsFiniteSet(lost) /\ Cardinality(lost) \in Nat
  BY StoredFinite DEF Stored
<1>2. rows' = Without(lost) /\ gone' = gone \cup lost
  BY DEF Delete
<1>3. Stored' = Stored \ lost /\ \A id \in Stored' : rows'[id] = rows[id]
  BY <1>2 DEF Stored, Without
<1>4. rows' \in [Ids -> Record \cup {Absent}]
  BY <1>2 DEF Without, TypeOK
<1>5. Cardinality(Stored \ lost) = Cardinality(Stored) - Cardinality(lost)
  <2>1. Stored \cap lost = lost
    OBVIOUS
  <2>2. Cardinality(Stored \ lost) = Cardinality(Stored) - Cardinality(Stored \cap lost)
    BY <1>1, FS_Difference
  <2> QED BY <2>1, <2>2
<1> QED BY <1>1, <1>2, <1>3, <1>4, <1>5 DEF Loses

\* No statement, or one that fails.
LEMMA NothingLost ==
    ASSUME TypeOK, UNCHANGED tableVars
    PROVE  Loses({})
BY FS_EmptySet, StoredFinite DEF Loses, tableVars, Stored, TypeOK

\* evict_if_needed: it takes rows only from a table at its cap, the oldest; where
\* nothing fails it leaves room for one row more, or the table within the cap.
LEMMA EvictEffect ==
    ASSUME TypeOK, NEW cap \in Caps, EvictIfNeeded(cap)
    PROVE  /\ \E lost \in SUBSET Stored :
                 /\ Loses(lost)
                 /\ lost # {} => Cardinality(Stored) >= cap
                 /\ \A e \in lost, kept \in Stored \ lost :
                       rows[e].created <= rows[kept].created
           /\ \/ errors' = errors
              \/ errors' = errors + 1 /\ errors' \in 0 .. MaxFaults
           /\ errors' = errors => Cardinality(Stored') <= cap
           /\ errors' = errors /\ Cardinality(Stored) <= cap =>
                 Cardinality(Stored') + 1 <= (IF cap = 0 THEN 1 ELSE cap)
<1> DEFINE count == Cardinality(Stored)
<1>1. cap \in Nat /\ count \in Nat /\ IsFiniteSet(Stored)
  BY StoredFinite, SqliteAssumption DEF Stored
<1>2. errors \in 0 .. MaxFaults /\ crashes \in 0 .. MaxFaults /\ MaxFaults \in Nat
  BY SqliteAssumption DEF TypeOK
<1>3. ASSUME NEW n \in {0, count}, NEW E \in OldestRows(Excess(n, cap)), Delete(E)
      PROVE  /\ E \in SUBSET Stored /\ Loses(E)
             /\ E # {} => count >= cap
             /\ \A e \in E, kept \in Stored \ E : rows[e].created <= rows[kept].created
             /\ Cardinality(E) = IF Excess(n, cap) <= count THEN Excess(n, cap) ELSE count
  <2>1. /\ E \in SUBSET Stored
        /\ \A e \in E, kept \in Stored \ E : rows[e].created <= rows[kept].created
        /\ Cardinality(E) = IF Excess(n, cap) <= count THEN Excess(n, cap) ELSE count
    BY <1>3, Zenon DEF OldestRows
  <2>2. Loses(E)
    BY <1>3, <2>1, DeleteLoses
  <2>3. ASSUME E # {} PROVE count >= cap
    <3>1. IsFiniteSet(E)
      BY <1>1, <2>1, FS_Subset
    <3>2. Cardinality(E) # 0
      BY <2>3, <3>1, FS_EmptySet
    <3>3. Excess(n, cap) # 0
      BY <1>1, <2>1, <3>2
    <3> HIDE DEF count
    <3> QED BY <1>1, <1>3, <3>3 DEF Excess
  <2> QED BY <2>1, <2>2, <2>3
<1>4. ASSUME NEW E \in OldestRows(Excess(count, cap)), Delete(E), Succeeds
      PROVE  /\ Cardinality(Stored') <= cap
             /\ count <= cap => Cardinality(Stored') + 1 <= (IF cap = 0 THEN 1 ELSE cap)
  <2>1. /\ Cardinality(E) = IF Excess(count, cap) <= count THEN Excess(count, cap) ELSE count
        /\ Cardinality(Stored') = count - Cardinality(E)
    BY <1>3, <1>4 DEF Loses
  <2> HIDE DEF count
  <2> QED BY <1>1, <2>1 DEF Excess
<1>5. CASE \E E \in OldestRows(Excess(count, cap)) : Delete(E) /\ Succeeds
  <2> PICK E \in OldestRows(Excess(count, cap)) : Delete(E) /\ Succeeds
    BY <1>5
  <2>1. /\ E \in SUBSET Stored /\ Loses(E)
        /\ E # {} => count >= cap
        /\ \A e \in E, kept \in Stored \ E : rows[e].created <= rows[kept].created
    BY <1>3
  <2>2. /\ Cardinality(Stored') <= cap
        /\ count <= cap => Cardinality(Stored') + 1 <= (IF cap = 0 THEN 1 ELSE cap)
    BY <1>4
  <2>3. errors' = errors
    BY DEF Succeeds
  <2> QED BY <2>1, <2>2, <2>3
<1>6. CASE \E E \in OldestRows(Excess(0, cap)) : Delete(E) /\ Fails
  <2> PICK E \in OldestRows(Excess(0, cap)) : Delete(E) /\ Fails
    BY <1>6
  <2>1. /\ E \in SUBSET Stored /\ Loses(E)
        /\ E # {} => count >= cap
        /\ \A e \in E, kept \in Stored \ E : rows[e].created <= rows[kept].created
    BY <1>3
  <2>2. errors' = errors + 1 /\ errors' \in 0 .. MaxFaults
    BY <1>2 DEF Fails
  <2> QED BY <1>2, <2>1, <2>2
<1>7. CASE UNCHANGED tableVars /\ Fails
  <2>1. Loses({})
    BY <1>7, NothingLost
  <2>2. errors' = errors + 1 /\ errors' \in 0 .. MaxFaults
    BY <1>2, <1>7 DEF Fails
  <2> QED BY <1>2, <2>1, <2>2
<1> QED BY <1>5, <1>6, <1>7 DEF EvictIfNeeded

-----------------------------------------------------------------------------
(* What each call does to the table. *)

\* A row keeps its owner and its age, and its outcome once it has one.
Frozen(r, s) ==
    /\ r.key = s.key /\ r.created = s.created /\ r.expires = s.expires
    /\ r.status \in Terminal => r.status = s.status /\ r.code = s.code

\* Rows are added by the insert only; what leaves is gone; what stays is frozen.
TableStep ==
    /\ rows' \in [Ids -> Record \cup {Absent}]
    /\ gone' = gone \cup (Stored \ Stored')
    /\ \A id \in Stored \cap Stored' : Frozen(rows[id], rows'[id])
    /\ \A id \in Stored' \ Stored : conn.call = "insert" /\ conn.id = id

\* Deletes and calls that leave the table alone are such steps.
LEMMA LossStep ==
    ASSUME NEW lost, Loses(lost)
    PROVE  TableStep
BY DEF Loses, TableStep, Frozen

\* An instant a caller may have read is a natural number not ahead of the clock.
LEMMA InstantType ==
    ASSUME TypeOK, NEW now \in Instants
    PROVE  now \in Nat /\ now <= clock
BY DEF Instants, TypeOK

\* put_received, the first half.
LEMMA PutStep ==
    ASSUME TypeOK, NEW id \in Ids, NEW k \in Keys, Put(id, k)
    PROVE  /\ conn = Free /\ EvictIfNeeded(maxRecords)
           /\ id \notin Stored \cup gone
           /\ \E r \in Record :
                 conn' = Inserting(id, r, maxRecords, Cardinality(Stored) > maxRecords)
           /\ UNCHANGED <<metrics, maxRecords, clock, sweepNow, answer, crashes>>
<1>1. PICK created \in Instants, ttl \in Ttls : PutEvict(id, k, created, ttl)
  BY DEF Put
<1>2. NewReceived(k, created, ttl) \in Record
  BY InstantType, NewReceivedType
<1> QED BY <1>1, <1>2 DEF Put, PutEvict

\* put_received, the second half.
LEMMA InsertStep ==
    ASSUME TypeOK, PutInsert
    PROVE  /\ TableStep /\ gone' = gone
           /\ \/ Stored' = Stored /\ gauge' = gauge
              \/ /\ conn.id \in Ids \ Stored /\ Stored' = Stored \cup {conn.id}
                 /\ gauge' = gauge + 1
                 /\ Cardinality(Stored') = Cardinality(Stored) + 1
                 /\ errors' = errors
           /\ errors' \in 0 .. MaxFaults /\ errors' >= errors
<1>1. conn.id \in Ids /\ conn.row \in Record
  BY DEF PutInsert, TypeOK, Free
<1>2. errors \in 0 .. MaxFaults /\ crashes \in 0 .. MaxFaults /\ MaxFaults \in Nat
  BY SqliteAssumption DEF TypeOK
<1>3. errors' \in 0 .. MaxFaults /\ errors' >= errors /\ gone' = gone
  BY <1>2 DEF PutInsert, Succeeds, Fails
<1>4. CASE rows' = rows /\ gauge' = gauge
  <2>1. Stored' = Stored
    BY <1>4 DEF Stored
  <2> QED BY <1>3, <1>4, <2>1 DEF TableStep, Frozen, TypeOK
<1>5. CASE /\ conn.id \notin Stored /\ rows' = [rows EXCEPT ![conn.id] = conn.row]
           /\ gauge' = gauge + 1 /\ errors' = errors
  <2>1. /\ rows' \in [Ids -> Record \cup {Absent}]
        /\ \A other \in Ids : other # conn.id => rows'[other] = rows[other]
        /\ rows'[conn.id] # Absent
    BY <1>1, <1>5, SqliteAssumption DEF TypeOK
  <2>2. Stored' = Stored \cup {conn.id}
    BY <1>1, <2>1 DEF Stored
  <2>3. Cardinality(Stored') = Cardinality(Stored) + 1
    BY <1>5, <2>2, StoredFinite, FS_AddElement DEF Stored
  <2>4. TableStep
    BY <1>3, <1>5, <2>1, <2>2 DEF TableStep, Frozen, PutInsert, Stored
  <2> QED BY <1>1, <1>3, <1>5, <2>2, <2>3, <2>4
<1> QED BY <1>3, <1>4, <1>5 DEF PutInsert, Succeeds

\* The two calls that are one UPDATE.
LEMMA UpdateStep ==
    ASSUME TypeOK, NEW id \in Ids, NEW k \in Keys,
           \/ SetRecipientMetadata(id, k)
           \/ \E status \in Updates, code \in Codes : UpdateStatus(id, k, status, code)
    PROVE  /\ TableStep /\ Stored' = Stored /\ gone' = gone /\ conn = Free
           /\ UNCHANGED <<conn, metrics, maxRecords, clock, sweepNow, answer, crashes>>
           /\ errors' \in 0 .. MaxFaults /\ errors' >= errors
<1>1. errors \in 0 .. MaxFaults /\ crashes \in 0 .. MaxFaults /\ MaxFaults \in Nat
  BY SqliteAssumption DEF TypeOK
<1>2. ASSUME NEW applies, NEW after, UpdateRow(applies, after),
             applies => /\ id \in Stored
                        /\ after \in [Ids -> Record \cup {Absent}]
                        /\ after[id] # Absent /\ Frozen(rows[id], after[id])
                        /\ \A other \in Ids : other # id => after[other] = rows[other]
      PROVE  /\ TableStep /\ Stored' = Stored /\ gone' = gone /\ conn = Free
             /\ UNCHANGED <<conn, metrics, maxRecords, clock, sweepNow, answer, crashes>>
             /\ errors' \in 0 .. MaxFaults /\ errors' >= errors
  <2>1. errors' \in 0 .. MaxFaults /\ errors' >= errors
    BY <1>1, <1>2 DEF UpdateRow, Succeeds, Fails
  <2>2. CASE applies /\ rows' = after
    <3>1. Stored' = Stored
      BY <1>2, <2>2 DEF Stored
    <3>2. TableStep
      BY <1>2, <2>2, <3>1 DEF TableStep, UpdateRow, Frozen, Stored
    <3> QED BY <1>2, <2>1, <3>1, <3>2 DEF UpdateRow
  <2>3. CASE rows' = rows
    <3>1. Stored' = Stored
      BY <2>3 DEF Stored
    <3>2. TableStep
      BY <1>2, <2>3, <3>1 DEF TableStep, UpdateRow, Frozen, TypeOK
    <3> QED BY <1>2, <2>1, <3>1, <3>2 DEF UpdateRow
  <2> QED BY <1>2, <2>2, <2>3 DEF UpdateRow
<1>3. CASE SetRecipientMetadata(id, k)
  <2> DEFINE applies == id \in Stored /\ rows[id].key = k
             after == [rows EXCEPT ![id].described = TRUE]
  <2>1. ASSUME applies
        PROVE  /\ id \in Stored
               /\ after \in [Ids -> Record \cup {Absent}]
               /\ after[id] # Absent /\ Frozen(rows[id], after[id])
               /\ \A other \in Ids : other # id => after[other] = rows[other]
    <3>1. rows[id] \in Record
      BY <2>1 DEF TypeOK, Stored
    <3>2. [rows[id] EXCEPT !.described = TRUE] \in Record
      BY <3>1 DEF Record
    <3>3. after[id] = [rows[id] EXCEPT !.described = TRUE]
      BY DEF TypeOK
    <3> QED BY <2>1, <3>1, <3>2, <3>3, SqliteAssumption DEF TypeOK, Frozen, Record
  <2>2. UpdateRow(applies, after)
    BY <1>3, Zenon DEF SetRecipientMetadata
  <2> HIDE DEF applies, after
  <2> QED BY <1>2, <2>1, <2>2
<1>4. ASSUME NEW status \in Updates, NEW code \in Codes, UpdateStatus(id, k, status, code)
      PROVE  /\ TableStep /\ Stored' = Stored /\ gone' = gone /\ conn = Free
             /\ UNCHANGED <<conn, metrics, maxRecords, clock, sweepNow, answer, crashes>>
             /\ errors' \in 0 .. MaxFaults /\ errors' >= errors
  <2> DEFINE after == [rows EXCEPT ![id].status = status, ![id].code = code]
  <2>1. PICK now \in Instants : UpdateRow(MayUpdate(id, k, now), after)
    BY <1>4, Zenon DEF UpdateStatus
  <2>2. ASSUME MayUpdate(id, k, now)
        PROVE  /\ id \in Stored
               /\ after \in [Ids -> Record \cup {Absent}]
               /\ after[id] # Absent /\ Frozen(rows[id], after[id])
               /\ \A other \in Ids : other # id => after[other] = rows[other]
    <3>1. rows[id] \in Record /\ id \in Stored /\ rows[id].status \notin Terminal
      BY <2>2 DEF MayUpdate, TypeOK, Stored
    <3>2. [[rows[id] EXCEPT !.status = status] EXCEPT !.code = code] \in Record
      BY <3>1, VocabularyAssumption DEF Record
    <3>3. after[id] = [[rows[id] EXCEPT !.status = status] EXCEPT !.code = code]
      BY DEF TypeOK
    <3> QED BY <3>1, <3>2, <3>3, SqliteAssumption DEF TypeOK, Frozen, Record
  <2> HIDE DEF after
  <2> QED BY <1>2, <2>1, <2>2
<1> QED BY <1>3, <1>4

\* get deletes at most the one row asked for, which has expired, and counts it.
LEMMA GetStep ==
    ASSUME TypeOK, NEW c \in Clients, NEW id \in Ids, NEW k \in Keys, Get(c, id, k)
    PROVE  /\ \/ Loses({}) /\ gauge' = gauge
              \/ Loses({id}) /\ gauge' = gauge - 1 /\ rows[id].expires <= clock
           /\ conn = Free
           /\ UNCHANGED <<uncounted, conn, maxRecords, clock, sweepNow, crashes>>
           /\ errors' \in 0 .. MaxFaults /\ errors' >= errors
           /\ \/ answer' = answer
              \/ Answer(c, id, Absent)
              \/ id \in Stored /\ Answer(c, id, View(rows[id])) /\ UNCHANGED tableVars
<1>1. PICK now \in Instants :
        \/ /\ Found(id, k, now)
           /\ Answer(c, id, View(rows[id]))
           /\ UNCHANGED <<tableVars, metrics>> /\ Succeeds
        \/ /\ ~Found(id, k, now)
           /\ Answer(c, id, Absent)
           /\ \/ DeleteStale(id, now) /\ Succeeds
              \/ /\ ~(id \in Stored /\ ExpiredAt(id, now))
                 /\ UNCHANGED <<tableVars, metrics>> /\ Succeeds
              \/ UNCHANGED <<tableVars, metrics>> /\ Fails
        \/ UNCHANGED <<tableVars, metrics, answer>> /\ Fails
  BY DEF Get
<1>2. /\ errors \in 0 .. MaxFaults /\ crashes \in 0 .. MaxFaults /\ MaxFaults \in Nat
      /\ now \in Nat /\ now <= clock /\ clock \in Nat
  BY InstantType, SqliteAssumption DEF TypeOK
<1>3. errors' \in 0 .. MaxFaults /\ errors' >= errors
  BY <1>1, <1>2 DEF Succeeds, Fails
<1>4. conn = Free /\ UNCHANGED <<conn, maxRecords, clock, sweepNow, crashes>>
  BY DEF Get
<1>5. CASE UNCHANGED <<tableVars, metrics>>
  <2>1. Loses({}) /\ gauge' = gauge /\ uncounted' = uncounted
    BY <1>5, NothingLost DEF metrics
  <2>2. Found(id, k, now) => id \in Stored
    BY DEF Found
  <2>3. UNCHANGED tableVars
    BY <1>5
  <2>4. \/ answer' = answer
        \/ Answer(c, id, Absent)
        \/ id \in Stored /\ Answer(c, id, View(rows[id])) /\ UNCHANGED tableVars
    BY <1>1, <2>2, <2>3
  <2> QED BY <1>3, <1>4, <2>1, <2>4
<1>6. CASE Answer(c, id, Absent) /\ DeleteStale(id, now)
  <2>1. Loses({id})
    BY <1>6, DeleteLoses DEF DeleteStale
  <2>2. rows[id].expires <= clock
    <3>1. rows[id] \in Record
      BY <1>6 DEF DeleteStale, Stored, TypeOK
    <3> QED BY <1>2, <1>6, <3>1 DEF DeleteStale, ExpiredAt, Record
  <2> QED BY <1>3, <1>4, <1>6, <2>1, <2>2 DEF DeleteStale
<1> QED BY <1>1, <1>5, <1>6

\* expire_old_records, the first statement: it deletes and counts what had expired
\* at the instant it read.
LEMMA SweepStep ==
    ASSUME TypeOK, SweepDelete
    PROVE  /\ \E lost \in SUBSET Stored :
                 /\ Loses(lost) /\ gauge' = gauge - Cardinality(lost)
                 /\ \A id \in lost : ExpiredAt(id, sweepNow)
           /\ sweepNow # NotSweeping /\ conn = Free
           /\ conn' = Trimming(maxRecords)
           /\ UNCHANGED <<uncounted, maxRecords, clock, sweepNow, answer, crashes>>
           /\ errors' \in 0 .. MaxFaults /\ errors' >= errors
<1>1. errors \in 0 .. MaxFaults /\ crashes \in 0 .. MaxFaults /\ MaxFaults \in Nat
  BY SqliteAssumption DEF TypeOK
<1>2. errors' \in 0 .. MaxFaults /\ errors' >= errors
  BY <1>1 DEF SweepDelete, Succeeds, Fails
<1>3. CASE Delete(SweepExpired) /\ gauge' = gauge - Cardinality(SweepExpired)
  <2>1. SweepExpired \in SUBSET Stored /\ \A id \in SweepExpired : ExpiredAt(id, sweepNow)
    BY DEF SweepExpired
  <2>2. Loses(SweepExpired)
    BY <1>3, <2>1, DeleteLoses
  <2> QED BY <1>2, <1>3, <2>1, <2>2 DEF SweepDelete, metrics
<1>4. CASE UNCHANGED <<tableVars, metrics>>
  <2>1. Loses({}) /\ gauge' = gauge - Cardinality({})
    BY <1>4, NothingLost, FS_EmptySet DEF metrics, TypeOK
  <2> QED BY <1>2, <1>4, <2>1 DEF SweepDelete, metrics
<1> QED BY <1>3, <1>4 DEF SweepDelete

-----------------------------------------------------------------------------
(* The inductive invariant. *)

\* Ids that left the table do not come back: what is being inserted is new.
GoneNotStored ==
    /\ gone \cap Stored = {}
    /\ conn.call = "insert" => conn.id \notin Stored \cup gone

\* A put that found the table within its cap has made room for its row, or
\* a statement has failed.
RoomMade ==
    (conn.call = "insert" /\ ~conn.crowded) =>
        Cardinality(Stored) + 1 <= (IF conn.cap = 0 THEN 1 ELSE conn.cap) + errors

\* A sweep works with an instant that has passed.
SweepInPast == sweepNow <= clock

IInv ==
    /\ TypeOK /\ GoneNotStored /\ RoomMade /\ SweepInPast
    /\ GaugeMissesOnlyUncounted

\* A loss of rows keeps rows and gone disjoint and does not lower the gauge too far.
LEMMA LossKeeps ==
    ASSUME IInv, NEW lost, Loses(lost)
    PROVE  /\ gone' \cap Stored' = {} /\ gone' \subseteq Ids
           /\ rows' \in [Ids -> Record \cup {Absent}]
           /\ Cardinality(lost) \in Nat /\ Cardinality(Stored') \in Nat
           /\ Cardinality(Stored') = Cardinality(Stored) - Cardinality(lost)
           /\ Cardinality(Stored) \in Nat
           /\ gauge + uncounted - Cardinality(lost) >= Cardinality(Stored')
<1>1. Cardinality(Stored) \in Nat /\ Cardinality(Stored') \in Nat
  BY StoredFinite DEF Stored
<1>2. gauge \in Int /\ uncounted \in Nat /\ gone \subseteq Ids /\ gone \cap Stored = {}
      /\ gauge + uncounted >= Cardinality(Stored)
  BY DEF IInv, TypeOK, GoneNotStored, GaugeMissesOnlyUncounted
<1>3. Stored \subseteq Ids
  BY DEF Stored
<1> QED BY <1>1, <1>2, <1>3 DEF Loses

\* put_received makes room.
LEMMA PutKeeps ==
    ASSUME IInv, NEW id \in Ids, NEW k \in Keys, Put(id, k)
    PROVE  IInv'
<1>1. /\ conn = Free /\ EvictIfNeeded(maxRecords)
      /\ id \notin Stored \cup gone
      /\ UNCHANGED <<metrics, maxRecords, clock, sweepNow, answer, crashes>>
  BY PutStep DEF IInv
<1>2. PICK r \in Record :
         conn' = Inserting(id, r, maxRecords, Cardinality(Stored) > maxRecords)
  BY PutStep DEF IInv
<1>3. maxRecords \in Caps /\ maxRecords \in Nat /\ errors \in Nat /\ MaxFaults \in Nat
      /\ errors \in 0 .. MaxFaults
  BY SqliteAssumption DEF IInv, TypeOK
<1>4. PICK lost \in SUBSET Stored : Loses(lost)
  BY <1>1, <1>3, EvictEffect DEF IInv
<1>5. /\ errors' \in 0 .. MaxFaults
      /\ errors' = errors \/ errors' = errors + 1
      /\ errors' = errors /\ Cardinality(Stored) <= maxRecords =>
            Cardinality(Stored') + 1 <= (IF maxRecords = 0 THEN 1 ELSE maxRecords)
  BY <1>1, <1>3, EvictEffect DEF IInv
<1>6. /\ gone' \cap Stored' = {} /\ gone' \subseteq Ids
      /\ rows' \in [Ids -> Record \cup {Absent}]
      /\ Cardinality(lost) \in Nat /\ Cardinality(Stored') \in Nat
      /\ Cardinality(Stored') = Cardinality(Stored) - Cardinality(lost)
      /\ Cardinality(Stored) \in Nat
      /\ gauge + uncounted - Cardinality(lost) >= Cardinality(Stored')
  BY <1>4, LossKeeps
<1>7. /\ conn'.call = "insert" /\ conn'.id = id /\ conn'.cap = maxRecords
      /\ conn'.crowded = (Cardinality(Stored) > maxRecords)
      /\ conn' \in [call : {"insert"}, id : Ids, row : Record, cap : Caps,
                    crowded : BOOLEAN]
  BY <1>2, <1>3 DEF Inserting
<1>8. TypeOK'
  BY <1>1, <1>5, <1>6, <1>7 DEF IInv, TypeOK, metrics
<1>9. GoneNotStored'
  BY <1>1, <1>4, <1>6, <1>7 DEF GoneNotStored, Loses
<1>10. RoomMade'
  <2>1. ASSUME ~(Cardinality(Stored) > maxRecords)
        PROVE  Cardinality(Stored') + 1 <= (IF maxRecords = 0 THEN 1 ELSE maxRecords) + errors'
    BY <1>3, <1>5, <1>6, <2>1
  <2> QED BY <1>7, <2>1 DEF RoomMade
<1>11. SweepInPast' /\ GaugeMissesOnlyUncounted'
  BY <1>1, <1>6 DEF IInv, TypeOK, SweepInPast, GaugeMissesOnlyUncounted, metrics
<1> QED BY <1>8, <1>9, <1>10, <1>11 DEF IInv

\* put_received inserts.
LEMMA InsertKeeps ==
    ASSUME IInv, PutInsert
    PROVE  IInv'
<1>1. /\ TableStep /\ gone' = gone
      /\ \/ Stored' = Stored /\ gauge' = gauge
         \/ /\ conn.id \in Ids \ Stored /\ Stored' = Stored \cup {conn.id}
            /\ gauge' = gauge + 1
            /\ Cardinality(Stored') = Cardinality(Stored) + 1
      /\ errors' \in 0 .. MaxFaults
  BY InsertStep DEF IInv
<1>2. /\ conn' = Free /\ conn.call = "insert"
      /\ UNCHANGED <<gone, uncounted, maxRecords, clock, sweepNow, answer, crashes>>
  BY DEF PutInsert
<1>3. TypeOK'
  BY <1>1, <1>2 DEF IInv, TypeOK, TableStep
<1>4. GoneNotStored'
  BY <1>1, <1>2 DEF IInv, GoneNotStored, Free
<1>5. RoomMade' /\ SweepInPast'
  BY <1>2 DEF IInv, RoomMade, SweepInPast, Free
<1>6. GaugeMissesOnlyUncounted'
  <2>1. gauge \in Int /\ uncounted \in Nat /\ Cardinality(Stored) \in Nat
    BY StoredFinite DEF IInv, TypeOK, Stored
  <2> QED BY <1>1, <1>2, <2>1 DEF IInv, GaugeMissesOnlyUncounted
<1> QED BY <1>3, <1>4, <1>5, <1>6 DEF IInv

\* expire_old_records deletes what has expired.
LEMMA SweepKeeps ==
    ASSUME IInv, SweepDelete
    PROVE  IInv'
<1>1. PICK lost \in SUBSET Stored : Loses(lost) /\ gauge' = gauge - Cardinality(lost)
  BY SweepStep DEF IInv
<1>2. /\ conn' = Trimming(maxRecords)
      /\ UNCHANGED <<uncounted, maxRecords, clock, sweepNow, answer, crashes>>
      /\ errors' \in 0 .. MaxFaults
  BY SweepStep DEF IInv
<1>3. /\ gone' \cap Stored' = {} /\ gone' \subseteq Ids
      /\ rows' \in [Ids -> Record \cup {Absent}]
      /\ Cardinality(lost) \in Nat
      /\ gauge + uncounted - Cardinality(lost) >= Cardinality(Stored')
      /\ Cardinality(Stored') \in Nat
  BY <1>1, LossKeeps
<1>4. /\ conn'.call = "trim" /\ conn' \in [call : {"trim"}, cap : Caps]
  BY <1>2 DEF Trimming, IInv, TypeOK
<1>5. TypeOK'
  BY <1>1, <1>2, <1>3, <1>4 DEF IInv, TypeOK
<1>6. GoneNotStored' /\ RoomMade' /\ SweepInPast'
  BY <1>2, <1>3, <1>4 DEF IInv, GoneNotStored, RoomMade, SweepInPast
<1>7. GaugeMissesOnlyUncounted'
  <2>1. gauge \in Int /\ uncounted \in Nat
    BY DEF IInv, TypeOK
  <2> QED BY <1>1, <1>2, <1>3, <2>1 DEF GaugeMissesOnlyUncounted
<1> QED BY <1>5, <1>6, <1>7 DEF IInv

\* expire_old_records trims the table.
LEMMA TrimKeeps ==
    ASSUME IInv, SweepTrim
    PROVE  IInv'
<1>1. conn.cap \in Caps /\ EvictIfNeeded(conn.cap)
  BY DEF SweepTrim, IInv, TypeOK, Free
<1>2. PICK lost \in SUBSET Stored : Loses(lost)
  BY <1>1, EvictEffect DEF IInv
<1>3. errors' \in 0 .. MaxFaults
  <2>1. errors' = errors \/ errors' \in 0 .. MaxFaults
    BY <1>1, EvictEffect DEF IInv
  <2> QED BY <2>1 DEF IInv, TypeOK
<1>4. /\ gone' \cap Stored' = {} /\ gone' \subseteq Ids
      /\ rows' \in [Ids -> Record \cup {Absent}]
      /\ Cardinality(lost) \in Nat
      /\ gauge + uncounted - Cardinality(lost) >= Cardinality(Stored')
      /\ Cardinality(Stored') \in Nat
  BY <1>2, LossKeeps
<1>5. conn' = Free /\ sweepNow' = NotSweeping
      /\ UNCHANGED <<metrics, maxRecords, clock, answer, crashes>>
  BY DEF SweepTrim
<1>6. TypeOK'
  BY <1>3, <1>4, <1>5 DEF IInv, TypeOK, metrics
<1>7. GoneNotStored' /\ RoomMade' /\ SweepInPast'
  BY <1>4, <1>5 DEF IInv, TypeOK, GoneNotStored, RoomMade, SweepInPast, Free, NotSweeping
<1>8. GaugeMissesOnlyUncounted'
  <2>1. gauge \in Int /\ uncounted \in Nat
    BY DEF IInv, TypeOK
  <2> QED BY <1>4, <1>5, <2>1 DEF GaugeMissesOnlyUncounted, metrics
<1> QED BY <1>6, <1>7, <1>8 DEF IInv

\* get deletes at most one row, and counts it.
LEMMA GetKeeps ==
    ASSUME IInv, NEW c \in Clients, NEW id \in Ids, NEW k \in Keys, Get(c, id, k)
    PROVE  IInv'
<1>1. PICK lost : Loses(lost) /\ gauge' = gauge - Cardinality(lost)
  <2>1. gauge \in Int /\ Cardinality({}) = 0 /\ Cardinality({id}) = 1
    BY FS_EmptySet, FS_Singleton DEF IInv, TypeOK
  <2>2. \/ Loses({}) /\ gauge' = gauge - Cardinality({})
        \/ Loses({id}) /\ gauge' = gauge - Cardinality({id})
    BY <2>1, GetStep DEF IInv
  <2> QED BY <2>2
<1>2. /\ conn = Free
      /\ UNCHANGED <<uncounted, conn, maxRecords, clock, sweepNow, crashes>>
      /\ errors' \in 0 .. MaxFaults
      /\ \/ answer' = answer
         \/ Answer(c, id, Absent)
         \/ id \in Stored /\ Answer(c, id, View(rows[id]))
  BY GetStep DEF IInv
<1>3. /\ gone' \cap Stored' = {} /\ gone' \subseteq Ids
      /\ rows' \in [Ids -> Record \cup {Absent}]
      /\ Cardinality(lost) \in Nat
      /\ gauge + uncounted - Cardinality(lost) >= Cardinality(Stored')
      /\ Cardinality(Stored') \in Nat
  BY <1>1, LossKeeps
<1>4. answer' \in [Clients -> Answers \cup {Absent}]
  <2>1. id \in Stored => View(rows[id]) \in Entry
    BY ViewType DEF IInv, TypeOK, Stored
  <2> QED BY <1>2, <2>1 DEF IInv, TypeOK, Answer, Answers
<1>5. TypeOK'
  BY <1>1, <1>2, <1>3, <1>4 DEF IInv, TypeOK
<1>6. GoneNotStored' /\ RoomMade' /\ SweepInPast'
  BY <1>2, <1>3 DEF IInv, GoneNotStored, RoomMade, SweepInPast, Free
<1>7. GaugeMissesOnlyUncounted'
  <2>1. gauge \in Int /\ uncounted \in Nat
    BY DEF IInv, TypeOK
  <2> QED BY <1>1, <1>2, <1>3, <2>1 DEF GaugeMissesOnlyUncounted
<1> QED BY <1>5, <1>6, <1>7 DEF IInv

\* The steps that leave the table and the mutex alone.
LEMMA QuietKeeps ==
    ASSUME IInv,
           \/ SweepBegin \/ RecordCount \/ Crash \/ Tick
           \/ \E cap \in Caps : ReloadConfig(cap)
           \/ UNCHANGED vars
    PROVE  IInv'
<1>1. rows' = rows /\ gone' = gone /\ Stored' = Stored
  BY DEF SweepBegin, RecordCount, Crash, Tick, ReloadConfig, vars, tableVars, Stored
<1>2. /\ Cardinality(Stored) \in Nat /\ gauge \in Int /\ uncounted \in Nat
      /\ errors \in 0 .. MaxFaults /\ crashes \in 0 .. MaxFaults /\ MaxFaults \in Nat
      /\ clock \in Nat /\ maxRecords \in Caps
  BY StoredFinite, SqliteAssumption DEF IInv, TypeOK, Stored
<1>3. CASE SweepBegin
  BY <1>1, <1>2, <1>3 DEF SweepBegin, IInv, TypeOK, GoneNotStored, RoomMade, SweepInPast,
                          GaugeMissesOnlyUncounted, metrics, faultVars
<1>4. CASE RecordCount
  <2>1. /\ conn' = conn /\ conn = Free
        /\ UNCHANGED <<maxRecords, clock, sweepNow, answer, crashes>>
        /\ \/ gauge' = Cardinality(Stored) /\ uncounted' = 0
           \/ gauge' = 0 /\ uncounted' = Cardinality(Stored)
        /\ errors' \in 0 .. MaxFaults
    BY <1>2, <1>4 DEF RecordCount, Succeeds, Fails
  <2>2. TypeOK'
    BY <1>1, <1>2, <2>1 DEF IInv, TypeOK
  <2> QED BY <1>1, <1>2, <2>1, <2>2
          DEF IInv, GoneNotStored, RoomMade, SweepInPast, GaugeMissesOnlyUncounted, Free
<1>5. CASE Crash
  <2>1. /\ conn' = Free /\ sweepNow' = NotSweeping
        /\ gauge' = 0 /\ uncounted' = Cardinality(Stored) /\ maxRecords' \in Caps
        /\ crashes' \in 0 .. MaxFaults
        /\ UNCHANGED <<clock, answer, errors>>
    BY <1>2, <1>5 DEF Crash
  <2>2. TypeOK'
    BY <1>1, <1>2, <2>1 DEF IInv, TypeOK
  <2> QED BY <1>1, <1>2, <2>1, <2>2
          DEF IInv, GoneNotStored, RoomMade, SweepInPast, GaugeMissesOnlyUncounted, Free,
              NotSweeping
<1>6. CASE Tick
  <2>1. clock' = clock + 1 /\ UNCHANGED <<conn, metrics, maxRecords, sweepNow, answer, faultVars>>
    BY <1>6 DEF Tick
  <2>2. SweepInPast'
    BY <1>2, <2>1 DEF IInv, TypeOK, SweepInPast, NotSweeping
  <2> QED BY <1>1, <1>2, <2>1, <2>2
          DEF IInv, TypeOK, GoneNotStored, RoomMade, GaugeMissesOnlyUncounted, metrics, faultVars
<1>7. ASSUME NEW cap \in Caps, ReloadConfig(cap) PROVE IInv'
  BY <1>1, <1>2, <1>7 DEF ReloadConfig, IInv, TypeOK, GoneNotStored, RoomMade, SweepInPast,
                          GaugeMissesOnlyUncounted, metrics, faultVars
<1>8. CASE UNCHANGED vars
  BY <1>1, <1>8 DEF vars, IInv, TypeOK, GoneNotStored, RoomMade, SweepInPast,
                    GaugeMissesOnlyUncounted
<1> QED BY <1>3, <1>4, <1>5, <1>6, <1>7, <1>8

\* UPDATE changes no count.
LEMMA UpdateKeeps ==
    ASSUME IInv, NEW id \in Ids, NEW k \in Keys,
           \/ SetRecipientMetadata(id, k)
           \/ \E status \in Updates, code \in Codes : UpdateStatus(id, k, status, code)
    PROVE  IInv'
<1>1. /\ TableStep /\ Stored' = Stored /\ gone' = gone /\ conn = Free
      /\ UNCHANGED <<conn, metrics, maxRecords, clock, sweepNow, answer, crashes>>
      /\ errors' \in 0 .. MaxFaults
  BY UpdateStep DEF IInv
<1>2. TypeOK'
  BY <1>1 DEF IInv, TypeOK, TableStep, metrics
<1> QED BY <1>1, <1>2 DEF IInv, GoneNotStored, RoomMade, SweepInPast,
                          GaugeMissesOnlyUncounted, metrics, Free

-----------------------------------------------------------------------------
(* Theorems. *)

\* The invariant holds whatever crashes and whichever statement fails.
THEOREM Invariant == Spec => []IInv
<1>1. Init => IInv
  <2> SUFFICES ASSUME Init PROVE IInv
    OBVIOUS
  <2>1. Stored = {}
    BY DEF Init, Stored
  <2>2. TypeOK
    BY SqliteAssumption DEF Init, TypeOK
  <2> QED BY <2>1, <2>2, FS_EmptySet
          DEF Init, IInv, GoneNotStored, RoomMade, SweepInPast, GaugeMissesOnlyUncounted,
              Free, NotSweeping
<1>2. IInv /\ [Next]_vars => IInv'
  BY PutKeeps, InsertKeeps, UpdateKeeps, GetKeeps, SweepKeeps, TrimKeeps, QuietKeeps DEF Next
<1> QED BY <1>1, <1>2, PTL DEF Spec

\* The table, the calls under way and the metrics are well typed in every behaviour.
THEOREM TypeCorrect == Spec => []TypeOK
BY Invariant, PTL DEF IInv

\* status_records_current misses no row but those it was started or reset without.
THEOREM GaugeHolds == Spec => []GaugeMissesOnlyUncounted
BY Invariant, PTL DEF IInv

\* Only the oldest rows of a table at its cap go before their time.
THEOREM EarlyLoss == Spec => EarlyLossOnlyOfOldestAtCap
<1> DEFINE Justified(lost) ==
              \/ rows[lost].expires <= clock
              \/ /\ Cardinality(Stored) >= CapInUse
                 /\ \A kept \in Stored \cap Stored' : rows[lost].created <= rows[kept].created
<1>1. IInv /\ [Next]_vars => \A lost \in Stored \ Stored' : Justified(lost)
  <2> SUFFICES ASSUME IInv, [Next]_vars, NEW gonner \in Stored \ Stored'
               PROVE  Justified(gonner)
    OBVIOUS
  <2>1. ASSUME EvictIfNeeded(CapInUse), CapInUse \in Caps PROVE Justified(gonner)
    <3>1. PICK lost \in SUBSET Stored :
             /\ Loses(lost)
             /\ lost # {} => Cardinality(Stored) >= CapInUse
             /\ \A e \in lost, kept \in Stored \ lost : rows[e].created <= rows[kept].created
      BY <2>1, EvictEffect DEF IInv
    <3> QED BY <3>1 DEF Loses
  <2>2. ASSUME NEW id \in Ids, NEW k \in Keys, Put(id, k) PROVE Justified(gonner)
    <3>1. CapInUse = maxRecords /\ EvictIfNeeded(maxRecords) /\ maxRecords \in Caps
      BY <2>2, PutStep DEF CapInUse, IInv, TypeOK
    <3> QED BY <2>1, <3>1
  <2>3. CASE SweepTrim
    <3>1. CapInUse = conn.cap /\ EvictIfNeeded(conn.cap) /\ conn.cap \in Caps
      BY <2>3 DEF SweepTrim, CapInUse, IInv, TypeOK, Free
    <3> QED BY <2>1, <3>1
  <2>4. CASE SweepDelete
    <3>1. PICK lost \in SUBSET Stored :
             Loses(lost) /\ \A id \in lost : ExpiredAt(id, sweepNow)
      BY <2>4, SweepStep DEF IInv
    <3>2. sweepNow # NotSweeping
      BY <2>4, SweepStep DEF IInv
    <3>3. rows[gonner] \in Record /\ rows[gonner].expires <= sweepNow
      BY <3>1 DEF Loses, ExpiredAt, IInv, TypeOK, Stored
    <3>4. sweepNow \in Nat /\ clock \in Nat /\ sweepNow <= clock
      BY <3>2 DEF IInv, TypeOK, SweepInPast
    <3> QED BY <3>3, <3>4 DEF Record
  <2>5. ASSUME NEW c \in Clients, NEW id \in Ids, NEW k \in Keys, Get(c, id, k)
        PROVE  Justified(gonner)
    BY <2>5, GetStep DEF IInv, Loses
  <2>6. Stored' = Stored => Justified(gonner)
    OBVIOUS
  <2>7. ASSUME NEW id \in Ids, NEW k \in Keys,
               \/ SetRecipientMetadata(id, k)
               \/ \E status \in Updates, code \in Codes : UpdateStatus(id, k, status, code)
        PROVE  Justified(gonner)
    BY <2>6, <2>7, UpdateStep DEF IInv
  <2>8. CASE PutInsert
    <3>1. gonner \in Stored'
      BY <2>8, InsertStep DEF IInv
    <3> QED BY <3>1
  <2>9. ASSUME \/ SweepBegin \/ RecordCount \/ Crash \/ Tick
               \/ \E cap \in Caps : ReloadConfig(cap)
               \/ UNCHANGED vars
        PROVE  Justified(gonner)
    <3>1. Stored' = Stored
      BY <2>9 DEF SweepBegin, RecordCount, Crash, Tick, ReloadConfig, vars, tableVars, Stored
    <3> QED BY <2>6, <3>1
  <2> HIDE DEF Justified
  <2> QED BY <2>2, <2>3, <2>4, <2>5, <2>7, <2>8, <2>9 DEF Next
<1>2. IInv /\ [Next]_vars =>
         [\A lost \in Stored \ Stored' :
             \/ rows[lost].expires <= clock
             \/ /\ Cardinality(Stored) >= CapInUse
                /\ \A kept \in Stored \cap Stored' :
                      rows[lost].created <= rows[kept].created]_vars
  BY <1>1
<1> QED BY <1>2, Invariant, PTL DEF Spec, EarlyLossOnlyOfOldestAtCap

\* Puts keep a table that is within its cap there, and sweeps bring it back there.
THEOREM CapHolds == Spec => CapEnforced
<1> DEFINE Grows == (Cardinality(Stored') > Cardinality(Stored) /\ ~conn.crowded) =>
                       Cardinality(Stored') <= (IF conn.cap = 0 THEN 1 ELSE conn.cap) + errors
           Swept == (conn.call = "trim" /\ conn' = Free /\ UNCHANGED faultVars) =>
                       Cardinality(Stored') <= conn.cap
<1>1. IInv /\ [Next]_vars => Grows /\ Swept
  <2> SUFFICES ASSUME IInv, [Next]_vars PROVE Grows /\ Swept
    OBVIOUS
  <2>1. Cardinality(Stored) \in Nat /\ IsFiniteSet(Stored)
    BY StoredFinite DEF Stored
  <2>2. ASSUME Stored' \subseteq Stored PROVE Grows
    <3>1. Cardinality(Stored') <= Cardinality(Stored) /\ Cardinality(Stored') \in Nat
      BY <2>1, <2>2, FS_Subset, FS_CardinalityType
    <3> QED BY <2>1, <3>1
  <2>3. ASSUME conn = Free PROVE Swept
    BY <2>3 DEF Free
  <2>4. ASSUME conn' = conn PROVE Swept
    BY <2>4 DEF Free
  <2>5. ASSUME NEW id \in Ids, NEW k \in Keys, Put(id, k) PROVE Grows /\ Swept
    <3>1. conn = Free /\ EvictIfNeeded(maxRecords) /\ maxRecords \in Caps
      BY <2>5, PutStep DEF IInv, TypeOK
    <3>2. Stored' \subseteq Stored
      BY <3>1, EvictEffect DEF IInv, Loses
    <3> QED BY <2>2, <2>3, <3>1, <3>2
  <2>6. CASE PutInsert
    <3>1. Grows
      <4>1. CASE Stored' = Stored
        BY <2>2, <4>1
      <4>2. CASE Cardinality(Stored') = Cardinality(Stored) + 1
        BY <2>6, <4>2 DEF IInv, RoomMade, PutInsert
      <4> QED BY <2>6, <4>1, <4>2, InsertStep DEF IInv
    <3> QED BY <2>6, <3>1 DEF PutInsert
  <2>7. CASE SweepTrim
    <3>1. conn.cap \in Caps /\ EvictIfNeeded(conn.cap)
      BY <2>7 DEF SweepTrim, IInv, TypeOK, Free
    <3>2. Stored' \subseteq Stored /\ (errors' = errors => Cardinality(Stored') <= conn.cap)
      BY <3>1, EvictEffect DEF IInv, Loses
    <3> QED BY <2>2, <3>2 DEF faultVars
  <2>8. CASE SweepDelete
    <3>1. conn = Free /\ Stored' \subseteq Stored
      BY <2>8, SweepStep DEF IInv, Loses
    <3> QED BY <2>2, <2>3, <3>1
  <2>9. ASSUME NEW c \in Clients, NEW id \in Ids, NEW k \in Keys, Get(c, id, k)
        PROVE  Grows /\ Swept
    <3>1. conn = Free /\ Stored' \subseteq Stored
      BY <2>9, GetStep DEF IInv, Loses
    <3> QED BY <2>2, <2>3, <3>1
  <2>10. ASSUME NEW id \in Ids, NEW k \in Keys,
                \/ SetRecipientMetadata(id, k)
                \/ \E status \in Updates, code \in Codes : UpdateStatus(id, k, status, code)
         PROVE  Grows /\ Swept
    BY <2>2, <2>3, <2>10, UpdateStep DEF IInv
  <2>11. ASSUME \/ SweepBegin \/ RecordCount \/ Tick
                \/ \E cap \in Caps : ReloadConfig(cap)
                \/ UNCHANGED vars
         PROVE  Grows /\ Swept
    <3>1. Stored' = Stored /\ conn' = conn
      BY <2>11 DEF SweepBegin, RecordCount, Tick, ReloadConfig, vars, tableVars, Stored
    <3> QED BY <2>2, <2>4, <3>1
  <2>12. CASE Crash
    <3>1. Stored' = Stored
      BY <2>12 DEF Crash, tableVars, Stored
    <3>2. crashes' # crashes
      BY <2>12 DEF Crash, IInv, TypeOK
    <3> QED BY <2>2, <3>1, <3>2 DEF faultVars
  <2> HIDE DEF Grows, Swept
  <2> QED BY <2>5, <2>6, <2>7, <2>8, <2>9, <2>10, <2>11, <2>12 DEF Next
<1>2. IInv /\ [Next]_vars =>
         [/\ (Cardinality(Stored') > Cardinality(Stored) /\ ~conn.crowded) =>
                Cardinality(Stored') <= (IF conn.cap = 0 THEN 1 ELSE conn.cap) + errors
          /\ (conn.call = "trim" /\ conn' = Free /\ UNCHANGED faultVars) =>
                Cardinality(Stored') <= conn.cap]_vars
  BY <1>1
<1> QED BY <1>2, Invariant, PTL DEF Spec, CapEnforced

-----------------------------------------------------------------------------
(* What clients have been told. *)

\* A terminal status any client has read is still the row's, or the row is gone.
ReadsAgree ==
    \A c \in Clients, id \in Ids : Board!ReadTerminal(c, id) =>
        \/ id \in gone
        \/ /\ id \in Stored
           /\ rows[id].status = answer[c].found.status
           /\ rows[id].code = answer[c].found.code

\* Every step treats the table as TableStep says.
LEMMA EveryStepIsTableStep ==
    ASSUME IInv, [Next]_vars
    PROVE  TableStep
<1>1. ASSUME NEW cap \in Caps, EvictIfNeeded(cap) PROVE TableStep
  BY <1>1, EvictEffect, LossStep DEF IInv
<1>2. ASSUME NEW id \in Ids, NEW k \in Keys, Put(id, k) PROVE TableStep
  BY <1>1, <1>2, PutStep DEF IInv, TypeOK
<1>3. CASE SweepTrim
  <2>1. conn.cap \in Caps /\ EvictIfNeeded(conn.cap)
    BY <1>3 DEF SweepTrim, IInv, TypeOK, Free
  <2> QED BY <1>1, <2>1
<1>4. CASE PutInsert
  BY <1>4, InsertStep DEF IInv
<1>5. CASE SweepDelete
  BY <1>5, SweepStep, LossStep DEF IInv
<1>6. ASSUME NEW c \in Clients, NEW id \in Ids, NEW k \in Keys, Get(c, id, k)
      PROVE  TableStep
  BY <1>6, GetStep, LossStep DEF IInv
<1>7. ASSUME NEW id \in Ids, NEW k \in Keys,
             \/ SetRecipientMetadata(id, k)
             \/ \E status \in Updates, code \in Codes : UpdateStatus(id, k, status, code)
      PROVE  TableStep
  BY <1>7, UpdateStep DEF IInv
<1>8. ASSUME \/ SweepBegin \/ RecordCount \/ Crash \/ Tick
             \/ \E cap \in Caps : ReloadConfig(cap)
             \/ UNCHANGED vars
      PROVE  TableStep
  <2>1. UNCHANGED tableVars
    BY <1>8 DEF SweepBegin, RecordCount, Crash, Tick, ReloadConfig, vars, tableVars
  <2> QED BY <2>1, NothingLost, LossStep DEF IInv
<1> QED BY <1>2, <1>3, <1>4, <1>5, <1>6, <1>7, <1>8 DEF Next

\* An answer that changes is "not found", or shows the row as it is.
LEMMA AnswerStep ==
    ASSUME IInv, [Next]_vars, NEW c \in Clients, answer'[c] # answer[c]
    PROVE  \/ answer'[c].found = Absent
           \/ \E id \in Stored :
                 /\ answer'[c] = [id |-> id, found |-> View(rows[id])]
                 /\ rows' = rows /\ gone' = gone
<1>1. PICK d \in Clients, id \in Ids, k \in Keys : Get(d, id, k)
  <2>1. \/ answer' = answer
        \/ \E d \in Clients, id \in Ids, k \in Keys : Get(d, id, k)
    BY DEF Next, Put, PutEvict, PutInsert, SetRecipientMetadata, UpdateStatus, UpdateRow,
           SweepBegin, SweepDelete, SweepTrim, RecordCount, ReloadConfig, Crash, Tick, vars
  <2> QED BY <2>1
<1>2. answer \in [Clients -> Answers \cup {Absent}]
  BY DEF IInv, TypeOK
<1>3. \/ answer' = answer
      \/ Answer(d, id, Absent)
      \/ id \in Stored /\ Answer(d, id, View(rows[id])) /\ UNCHANGED tableVars
  BY <1>1, GetStep DEF IInv
<1> QED BY <1>2, <1>3 DEF Answer, tableVars

\* ReadsAgree is inductive: outcomes are frozen while the row is in the table.
LEMMA ReadsStep ==
    ASSUME IInv, ReadsAgree, [Next]_vars
    PROVE  ReadsAgree'
<1> SUFFICES ASSUME NEW c \in Clients, NEW id \in Ids, Board!ReadTerminal(c, id)'
             PROVE  \/ id \in gone'
                    \/ /\ id \in Stored'
                       /\ rows'[id].status = answer'[c].found.status
                       /\ rows'[id].code = answer'[c].found.code
  BY DEF ReadsAgree
<1>1. CASE answer'[c] # answer[c]
  <2>1. PICK seen \in Stored :
           /\ answer'[c] = [id |-> seen, found |-> View(rows[seen])]
           /\ rows' = rows /\ gone' = gone
    BY <1>1, AnswerStep DEF Board!ReadTerminal
  <2>2. seen = id /\ Stored' = Stored
    BY <2>1 DEF Board!ReadTerminal, Stored
  <2> QED BY <2>1, <2>2 DEF View
<1>2. CASE answer'[c] = answer[c]
  <2>1. TableStep
    BY EveryStepIsTableStep
  <2>2. Board!ReadTerminal(c, id)
    BY <1>2 DEF Board!ReadTerminal
  <2>3. CASE id \in gone
    BY <2>1, <2>3 DEF TableStep
  <2>4. CASE /\ id \in Stored
             /\ rows[id].status = answer[c].found.status
             /\ rows[id].code = answer[c].found.code
    <3>1. CASE id \notin Stored'
      BY <2>1, <2>4, <3>1 DEF TableStep
    <3>2. CASE id \in Stored'
      <4>1. Frozen(rows[id], rows'[id])
        BY <2>1, <2>4, <3>2 DEF TableStep
      <4>2. rows[id].status \in Terminal
        BY <2>2, <2>4 DEF Board!ReadTerminal, Board!Terminal, Terminal
      <4> QED BY <1>2, <2>4, <3>2, <4>1, <4>2 DEF Frozen
    <3> QED BY <3>1, <3>2
  <2> QED BY <2>2, <2>3, <2>4 DEF ReadsAgree
<1> QED BY <1>1, <1>2

\* Outcomes that were read survive crashes, restarts and failed statements: every
\* later lookup returns the same outcome or "not found".
THEOREM OutcomesStable == Spec => AnswersStable
<1>1. Init => ReadsAgree
  BY DEF Init, ReadsAgree, Board!ReadTerminal
<1>2. IInv /\ ReadsAgree /\ [Next]_vars => ReadsAgree'
  BY ReadsStep
<1>3. IInv /\ ReadsAgree /\ [Next]_vars => [Board!OutcomesKept]_(Board!vars)
  <2> SUFFICES ASSUME IInv, ReadsAgree, [Next]_vars,
                      NEW c \in Clients, NEW d \in Clients, NEW id \in Ids,
                      Board!ReadTerminal(c, id), answer'[d] # answer[d],
                      answer'[d].id = id, answer'[d].found # Absent
               PROVE  /\ answer'[d].found.status = answer[c].found.status
                      /\ answer'[d].found.code = answer[c].found.code
    BY DEF Board!OutcomesKept
  <2>1. PICK seen \in Stored :
           answer'[d] = [id |-> seen, found |-> View(rows[seen])]
    BY AnswerStep
  <2>2. seen = id /\ id \notin gone
    BY <2>1 DEF IInv, GoneNotStored
  <2>3. /\ rows[id].status = answer[c].found.status
        /\ rows[id].code = answer[c].found.code
    BY <2>2 DEF ReadsAgree
  <2> QED BY <2>1, <2>2, <2>3 DEF View
<1> QED BY <1>1, <1>2, <1>3, Invariant, PTL
        DEF Spec, AnswersStable, Board!AnswersNeverRegress

-----------------------------------------------------------------------------
(* The store implements the board, but for lookups that miss. *)

\* The row that put_received inserts is one that new_received has made.
InsertsFresh ==
    conn.call = "insert" => \E k \in Keys : View(conn.row) = FreshEntry(k)

\* No other call touches the row on its way into the table.
LEMMA InsertsFreshKept == InsertsFresh /\ [Next]_vars => InsertsFresh'
<1> SUFFICES ASSUME InsertsFresh, [Next]_vars, conn'.call = "insert"
             PROVE  \E k \in Keys : View(conn'.row) = FreshEntry(k)
  BY DEF InsertsFresh
<1>1. Free.call # "insert" /\ \A cap \in Caps : Trimming(cap).call # "insert"
  BY DEF Free, Trimming
<1>2. CASE conn' = conn
  BY <1>2 DEF InsertsFresh
<1>3. ASSUME NEW id \in Ids, NEW k \in Keys, NEW created \in Instants, NEW ttl \in Ttls,
             PutEvict(id, k, created, ttl)
      PROVE  View(conn'.row) = FreshEntry(k)
  BY <1>3 DEF PutEvict, Inserting, NewReceived, View, FreshEntry
<1>4. ASSUME NEW id \in Ids, NEW k \in Keys, Put(id, k)
      PROVE  \E owner \in Keys : View(conn'.row) = FreshEntry(owner)
  BY <1>3, <1>4 DEF Put
<1>5. CASE conn' = Free \/ SweepDelete
  BY <1>1, <1>5 DEF SweepDelete, Trimming
<1>6. ASSUME NEW id \in Ids, NEW k \in Keys, SetRecipientMetadata(id, k)
      PROVE  conn' = conn
  BY <1>6 DEF SetRecipientMetadata, UpdateRow
<1>7. ASSUME NEW id \in Ids, NEW k \in Keys, NEW status \in Updates, NEW code \in Codes,
             UpdateStatus(id, k, status, code)
      PROVE  conn' = conn
  BY <1>7 DEF UpdateStatus, UpdateRow
<1>8. ASSUME NEW id \in Ids, NEW k \in Keys, NEW c \in Clients, Get(c, id, k)
      PROVE  conn' = conn
  BY <1>8 DEF Get
<1> QED BY <1>2, <1>4, <1>5, <1>6, <1>7, <1>8
        DEF Next, vars, PutInsert, SweepBegin, SweepTrim, RecordCount, ReloadConfig,
            Crash, Tick

\* The board shows the rows of the table.
LEMMA BoardShowsStored ==
    ASSUME TypeOK
    PROVE  /\ Board!Visible = Stored
           /\ \A id \in Stored : BoardEntry(id) = View(rows[id])
           /\ \A id \in Ids \ Stored : BoardEntry(id) = Absent
<1>1. /\ \A id \in Stored : BoardEntry(id) = View(rows[id])
      /\ \A id \in Ids \ Stored : BoardEntry(id) = Absent
  BY DEF BoardEntry, Stored
<1>2. \A id \in Stored : View(rows[id]) # Absent
  BY ViewType, VocabularyAssumption DEF Stored, TypeOK
<1>3. Stored \subseteq Ids
  BY DEF Stored
<1> QED BY <1>1, <1>2, <1>3 DEF Board!Visible

\* Rows that are deleted leave the board, and no other entry changes.
LEMMA BoardLoses ==
    ASSUME TypeOK, NEW lost, Loses(lost)
    PROVE  /\ [id \in Ids |-> BoardEntry(id)]'
                  = Board!Without([id \in Ids |-> BoardEntry(id)], lost)
           /\ gone' = gone \cup lost
           /\ lost \in SUBSET Board!Visible
<1>1. ASSUME NEW id \in Ids
      PROVE  BoardEntry(id)' = IF id \in lost THEN Absent ELSE BoardEntry(id)
  BY DEF Loses, BoardEntry, Stored
<1>2. lost \subseteq Stored /\ gone' = gone \cup lost
  BY DEF Loses
<1> QED BY <1>1, <1>2, BoardShowsStored DEF Board!Without

\* A step that leaves table and answers alone is not seen on the board.
LEMMA BoardStutters ==
    ASSUME UNCHANGED <<rows, gone, answer>>
    PROVE  [Board!LossyNext]_(Board!vars)
BY DEF Board!vars, BoardEntry, Stored

\* A deletion that answers nobody is the board's Forget, if it hits a row.
LEMMA LossForgets ==
    ASSUME TypeOK, NEW lost, Loses(lost), answer' = answer
    PROVE  [Board!LossyNext]_(Board!vars)
<1>1. CASE lost = {}
  <2>1. /\ [id \in Ids |-> BoardEntry(id)]' = [id \in Ids |-> BoardEntry(id)]
        /\ gone' = gone
    BY <1>1, BoardLoses DEF Board!Without
  <2> QED BY <2>1 DEF Board!vars
<1>2. CASE lost # {}
  <2>1. Board!Forget
    BY <1>2, BoardLoses DEF Board!Forget
  <2> QED BY <2>1 DEF Board!LossyNext, Board!Next
<1> QED BY <1>1, <1>2

\* The row inserted by put_received appears on the board as a fresh entry.
LEMMA InsertImplements ==
    ASSUME IInv, InsertsFresh, PutInsert
    PROVE  [Board!LossyNext]_(Board!vars)
<1>1. /\ conn.call = "insert" /\ conn.id \in Ids /\ conn.row \in Record
      /\ conn.id \notin Stored \cup gone
      /\ gone' = gone /\ answer' = answer
  BY DEF IInv, TypeOK, GoneNotStored, PutInsert, Free
<1>2. CASE rows' = rows
  BY <1>1, <1>2, BoardStutters
<1>3. CASE rows' = [rows EXCEPT ![conn.id] = conn.row]
  <2> PICK k \in Keys : View(conn.row) = FreshEntry(k)
    BY <1>1 DEF InsertsFresh
  <2> DEFINE id == conn.id
             b == [i \in Ids |-> BoardEntry(i)]
  <2>1. ASSUME NEW i \in Ids
        PROVE  BoardEntry(i)' = IF i = id THEN FreshEntry(k) ELSE BoardEntry(i)
    <3>1. rows'[i] = IF i = id THEN conn.row ELSE rows[i]
      BY <1>3 DEF IInv, TypeOK
    <3>2. conn.row # Absent
      BY <1>1, SqliteAssumption
    <3> QED BY <3>1, <3>2 DEF BoardEntry, Stored
  <2>2. b' = Board!Without([b EXCEPT ![id] = FreshEntry(k)], {})
    BY <1>1, <2>1 DEF Board!Without
  <2>3. id \notin gone \cup Board!Visible
    BY <1>1, BoardShowsStored DEF IInv
  <2>4. Board!PutReceived(id, k)
    <3>1. {} \in SUBSET (Board!Visible \cup {id}) /\ gone' = gone \cup {}
      BY <1>1
    <3> QED BY <1>1, <2>2, <2>3, <3>1
            DEF Board!PutReceived, Board!FreshEntry, FreshEntry
  <2> QED BY <1>1, <2>4 DEF Board!LossyNext, Board!Next
<1> QED BY <1>2, <1>3 DEF PutInsert

\* An UPDATE of one row changes that entry alone.
LEMMA BoardUpdates ==
    ASSUME TypeOK, NEW id \in Stored, NEW r \in Record,
           \A i \in Ids : rows'[i] = IF i = id THEN r ELSE rows[i]
    PROVE  [i \in Ids |-> BoardEntry(i)]'
               = [[i \in Ids |-> BoardEntry(i)] EXCEPT ![id] = View(r)]
<1>1. id \in Ids /\ r # Absent
  BY SqliteAssumption DEF Stored
<1>2. ASSUME NEW i \in Ids
      PROVE  BoardEntry(i)' = IF i = id THEN View(r) ELSE BoardEntry(i)
  BY <1>1 DEF BoardEntry, Stored
<1> QED BY <1>1, <1>2

\* Entries with the same fields are the same.
LEMMA EntryEqual ==
    ASSUME NEW e \in Entry, NEW f \in Entry,
           e.key = f.key, e.status = f.status, e.code = f.code, e.described = f.described
    PROVE  e = f
BY DEF Entry

\* The view of a record with its recipients filled in is the view with them filled in.
LEMMA ViewDescribed ==
    ASSUME NEW r \in Record
    PROVE  View([r EXCEPT !.described = TRUE]) = [View(r) EXCEPT !.described = TRUE]
<1> DEFINE q == [r EXCEPT !.described = TRUE]
           old == View(r)
           new == [old EXCEPT !.described = TRUE]
<1>1. /\ q \in Record
      /\ q.key = r.key /\ q.status = r.status /\ q.code = r.code /\ q.described = TRUE
  BY DEF Record
<1>2. /\ old \in Entry
      /\ old.key = r.key /\ old.status = r.status /\ old.code = r.code
  BY ViewType DEF View
<1> HIDE DEF old
<1>3. /\ new \in Entry
      /\ new.key = old.key /\ new.status = old.status
      /\ new.code = old.code /\ new.described = TRUE
  BY <1>2 DEF Entry
<1> HIDE DEF q, new
<1>4. /\ View(q) \in Entry
      /\ View(q).key = q.key /\ View(q).status = q.status
      /\ View(q).code = q.code /\ View(q).described = q.described
  BY <1>1, ViewType DEF View
<1>5. View(q) = new
  BY <1>1, <1>2, <1>3, <1>4, EntryEqual
<1> QED BY <1>5 DEF q, new, old

\* A record or an entry with a new status and code.
Moved(e, status, code) == [e EXCEPT !.status = status, !.code = code]

\* The view of a record that has moved is the view moved.
LEMMA ViewUpdated ==
    ASSUME NEW r \in Record, NEW status \in Updates, NEW code \in Codes
    PROVE  View(Moved(r, status, code))
              = Moved(View(r), status, code)
<1> DEFINE q == Moved(r, status, code)
           old == View(r)
           new == Moved(old, status, code)
<1>0. status \in Statuses
  BY VocabularyAssumption
<1>1. /\ q \in Record
      /\ q.key = r.key /\ q.status = status /\ q.code = code
      /\ q.described = r.described
  BY <1>0 DEF Record, Moved
<1>2. old \in Entry /\ old.key = r.key /\ old.described = r.described
  BY ViewType DEF View
<1> HIDE DEF old
<1>3. /\ new \in Entry
      /\ new.key = old.key /\ new.described = old.described
      /\ new.status = status /\ new.code = code
  BY <1>0, <1>2 DEF Entry, Moved
<1> HIDE DEF q, new
<1>4. /\ View(q) \in Entry
      /\ View(q).key = q.key /\ View(q).status = q.status
      /\ View(q).code = q.code /\ View(q).described = q.described
  BY <1>1, ViewType DEF View
<1>5. View(q) = new
  BY <1>1, <1>2, <1>3, <1>4, EntryEqual
<1> QED BY <1>5 DEF q, new, old

\* set_recipient_metadata, on a row of that owner or without effect.
LEMMA MetadataImplements ==
    ASSUME TypeOK, NEW id \in Ids, NEW k \in Keys, SetRecipientMetadata(id, k)
    PROVE  [Board!LossyNext]_(Board!vars)
<1>1. gone' = gone /\ answer' = answer
  BY DEF SetRecipientMetadata, UpdateRow
<1>2. CASE rows' = rows
  BY <1>1, <1>2, BoardStutters
<1>3. CASE /\ id \in Stored /\ rows[id].key = k
           /\ rows' = [rows EXCEPT ![id].described = TRUE]
  <2> DEFINE r == [rows[id] EXCEPT !.described = TRUE]
             b == [i \in Ids |-> BoardEntry(i)]
  <2>1. rows[id] \in Record /\ r \in Record
    <3>1. rows[id] \in Record
      BY <1>3 DEF TypeOK, Stored
    <3> QED BY <3>1 DEF Record
  <2>2. \A i \in Ids : rows'[i] = IF i = id THEN r ELSE rows[i]
    BY <1>3 DEF TypeOK
  <2>3. b[id] = View(rows[id]) /\ id \in Board!Visible
    BY <1>3, BoardShowsStored
  <2>4. View(r) = [View(rows[id]) EXCEPT !.described = TRUE]
    BY <2>1, ViewDescribed
  <2>5. b' = [b EXCEPT ![id] = View(r)]
    BY <1>3, <2>1, <2>2, BoardUpdates
  <2> HIDE DEF r, b
  <2>6. b' = [b EXCEPT ![id].described = TRUE]
    BY <2>3, <2>4, <2>5
  <2>7. b[id].key = k
    BY <1>3, <2>3 DEF View
  <2>8. Board!SetRecipientMetadata(id, k)
    BY <1>1, <2>3, <2>6, <2>7 DEF Board!SetRecipientMetadata, b
  <2> QED BY <2>8 DEF Board!LossyNext, Board!Next
<1> QED BY <1>2, <1>3 DEF SetRecipientMetadata, UpdateRow

\* update_status, on a row of that owner that has no outcome yet, or without effect.
LEMMA UpdateImplements ==
    ASSUME TypeOK, NEW id \in Ids, NEW k \in Keys, NEW status \in Updates, NEW code \in Codes,
           UpdateStatus(id, k, status, code)
    PROVE  [Board!LossyNext]_(Board!vars)
<1>1. gone' = gone /\ answer' = answer
  BY DEF UpdateStatus, UpdateRow
<1>2. CASE rows' = rows
  BY <1>1, <1>2, BoardStutters
<1>3. CASE /\ id \in Stored /\ rows[id].key = k /\ rows[id].status \notin Terminal
           /\ rows' = [rows EXCEPT ![id].status = status, ![id].code = code]
  <2> DEFINE r == Moved(rows[id], status, code)
             b == [i \in Ids |-> BoardEntry(i)]
  <2>1. rows[id] \in Record /\ r \in Record
    <3>1. rows[id] \in Record
      BY <1>3 DEF TypeOK, Stored
    <3> QED BY <3>1, VocabularyAssumption DEF Record, Moved
  <2>2. \A i \in Ids : rows'[i] = IF i = id THEN r ELSE rows[i]
    <3> DEFINE after == [rows EXCEPT ![id].status = status, ![id].code = code]
    <3>1. after[id] = r
      BY DEF TypeOK, Moved
    <3>2. \A i \in Ids : i # id => after[i] = rows[i]
      BY DEF TypeOK
    <3>3. rows' = after
      BY <1>3
    <3> HIDE DEF after, r
    <3> QED BY <3>1, <3>2, <3>3
  <2>3. b[id] = View(rows[id]) /\ id \in Board!Visible
    BY <1>3, BoardShowsStored
  <2>4. View(r) = Moved(View(rows[id]), status, code)
    BY <2>1, ViewUpdated
  <2>5. b' = [b EXCEPT ![id] = View(r)]
    BY <1>3, <2>1, <2>2, BoardUpdates
  <2> HIDE DEF r
  <2>6. b' = [b EXCEPT ![id].status = status, ![id].code = code]
    BY <2>3, <2>4, <2>5 DEF Moved
  <2>7. b[id].key = k /\ b[id].status \notin Terminal
    BY <1>3, <2>3 DEF View
  <2>8. Board!UpdateStatus(id, k, status, code)
    BY <1>1, <2>3, <2>6, <2>7
    DEF Board!UpdateStatus, Board!Terminal, Terminal
  <2> QED BY <2>8 DEF Board!LossyNext, Board!Next
<1>4. \/ rows' = rows
      \/ /\ id \in Stored /\ rows[id].key = k /\ rows[id].status \notin Terminal
         /\ rows' = [rows EXCEPT ![id].status = status, ![id].code = code]
  <2> DEFINE after == [rows EXCEPT ![id].status = status, ![id].code = code]
  <2>1. PICK now \in Instants : UpdateRow(MayUpdate(id, k, now), after)
    BY Zenon DEF UpdateStatus
  <2>2. MayUpdate(id, k, now) =>
           id \in Stored /\ rows[id].key = k /\ rows[id].status \notin Terminal
    BY DEF MayUpdate
  <2> HIDE DEF after
  <2>3. rows' = rows \/ (MayUpdate(id, k, now) /\ rows' = after)
    BY <2>1 DEF UpdateRow
  <2> QED BY <2>2, <2>3 DEF after
<1> QED BY <1>2, <1>3, <1>4

\* get answers with the entry, or misses it and perhaps deletes it.
LEMMA GetImplements ==
    ASSUME TypeOK, NEW c \in Clients, NEW id \in Ids, NEW k \in Keys, Get(c, id, k)
    PROVE  [Board!LossyNext]_(Board!vars)
<1>1. PICK lost \in SUBSET {id} : Loses(lost)
  BY GetStep
<1>2. CASE answer' = answer
  BY <1>1, <1>2, LossForgets
<1>3. CASE Answer(c, id, Absent)
  <2>1. lost \in SUBSET (Board!Visible \cap {id})
    BY <1>1, BoardLoses
  <2>2. Board!Miss(c, id)
    BY <1>1, <1>3, <2>1, BoardLoses DEF Board!Miss, Answer
  <2> QED BY <2>2 DEF Board!LossyNext
<1>4. CASE id \in Stored /\ Answer(c, id, View(rows[id])) /\ UNCHANGED tableVars
  <2> DEFINE owner == rows[id].key
             b == [i \in Ids |-> BoardEntry(i)]
  <2>1. owner \in Keys
    <3>1. rows[id] \in Record
      BY <1>4 DEF TypeOK, Stored
    <3> QED BY <3>1 DEF Record
  <2>2. b' = b /\ gone' = gone
    BY <1>4 DEF BoardEntry, Stored, tableVars
  <2>3. id \in Board!Visible /\ b[id] = View(rows[id]) /\ b[id].key = owner
    BY <1>4, BoardShowsStored DEF View
  <2>4. answer' = [answer EXCEPT ![c] = [id |-> id, found |-> b[id]]]
    BY <1>4, <2>3 DEF Answer
  <2>5. Board!Get(c, id, owner)
    BY <2>2, <2>3, <2>4 DEF Board!Get
  <2> QED BY <2>1, <2>5 DEF Board!LossyNext, Board!Next
<1> QED BY <1>2, <1>3, <1>4, GetStep

\* Every step of the store is one of the contract, or is not seen on the board.
LEMMA StepImplements ==
    ASSUME IInv, InsertsFresh, [Next]_vars
    PROVE  [Board!LossyNext]_(Board!vars)
<1>1. TypeOK
  BY DEF IInv
<1>2. ASSUME NEW id \in Ids, NEW k \in Keys, Put(id, k)
      PROVE  [Board!LossyNext]_(Board!vars)
  <2>1. maxRecords \in Caps /\ EvictIfNeeded(maxRecords) /\ answer' = answer
    BY <1>1, <1>2, PutStep DEF TypeOK
  <2>2. PICK lost \in SUBSET Stored : Loses(lost)
    BY <1>1, <2>1, EvictEffect
  <2> QED BY <1>1, <2>1, <2>2, LossForgets
<1>3. CASE SweepDelete
  BY <1>1, <1>3, SweepStep, LossForgets
<1>4. CASE SweepTrim
  <2>1. conn.cap \in Caps /\ EvictIfNeeded(conn.cap) /\ answer' = answer
    BY <1>1, <1>4 DEF SweepTrim, TypeOK, Free
  <2>2. PICK lost \in SUBSET Stored : Loses(lost)
    BY <1>1, <2>1, EvictEffect
  <2> QED BY <1>1, <2>1, <2>2, LossForgets
<1>5. CASE UNCHANGED <<rows, gone, answer>>
  BY <1>5, BoardStutters
<1>6. SweepBegin \/ RecordCount \/ (\E cap \in Caps : ReloadConfig(cap)) \/ Crash \/ Tick
        \/ UNCHANGED vars => UNCHANGED <<rows, gone, answer>>
  BY DEF SweepBegin, RecordCount, ReloadConfig, Crash, Tick, vars, tableVars
<1> QED BY <1>1, <1>2, <1>3, <1>4, <1>5, <1>6, InsertImplements, MetadataImplements,
           UpdateImplements, GetImplements
        DEF Next

\* The SQLite store implements the contract of the StatusStore trait, lookups that miss
\* included, whatever crashes, fails or waits for the mutex.
THEOREM Refinement == Spec => ImplementsBoard
<1>1. Init => Board!Init
  BY DEF Init, Board!Init, BoardEntry, Stored
<1>2. Init => InsertsFresh
  BY DEF Init, InsertsFresh, Free
<1>3. IInv /\ InsertsFresh /\ [Next]_vars => [Board!LossyNext]_(Board!vars)
  BY StepImplements
<1> QED BY <1>1, <1>2, <1>3, InsertsFreshKept, Invariant, PTL
        DEF Spec, ImplementsBoard, Board!LossySpec
===============================================================================
