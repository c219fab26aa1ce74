------------------------ MODULE StatusStoreRedis_proofs ------------------------
(***************************************************************************)
(* Proofs about the Redis store, for any ids, keys, codes, lifetimes and   *)
(* clients, any length of a second, any number of failed commands, and     *)
(* keys dropped by Redis at any time.                                      *)
(***************************************************************************)
EXTENDS StatusStoreRedis, TLAPS

\* The copies of a record: the value under its key, and the one on its way back.
Copies(id) ==
    (IF db[id] = Absent THEN {} ELSE {db[id].value})
    \cup (IF writing[id].call = "rewrite" THEN {writing[id].value} ELSE {})

\* What set_recipient_metadata and update_status may make of r.
UpdateOf(r, q) ==
    /\ q.expires = r.expires
    /\ r.status \in Terminal => q.status = r.status /\ q.code = r.code

\* A record or an entry with a new status and code.
Moved(e, status, code) == [e EXCEPT !.status = status, !.code = code]

\* What exactly they write back, having read r.
Rewrites(r, q) ==
    \/ q = [r EXCEPT !.described = TRUE]
    \/ /\ r.status \notin Terminal
       /\ \E status \in Updates, code \in Codes : q = Moved(r, status, code)

-----------------------------------------------------------------------------
(* The inductive invariant. *)

\* put_received is called once for an id and comes before everything else.
PutFirst ==
    \A id \in Ids :
        /\ writing[id] # Idle => id \in used
        /\ db[id] # Absent => id \in used /\ writing[id].call # "put"

\* A value on its way back is made from the one that is there, if one is there.
RewriteFollows ==
    \A id \in Ids :
        db[id] # Absent /\ writing[id].call = "rewrite" =>
            Rewrites(db[id].value, writing[id].value)

\* Of a record that a get is about to delete, every copy has expired.
DeletesTheDead ==
    \A c \in Clients, id \in Ids :
        deleting[c] = id =>
            /\ id \in used
            /\ writing[id].call # "put"
            /\ \A r \in Copies(id) : Expired(r)

\* Of a record that a lookup has found terminal, every copy tells that outcome.
ReadsAgree ==
    \A c \in Clients, id \in Ids :
        Board!ReadTerminal(c, id) =>
            /\ id \in used
            /\ writing[id].call # "put"
            /\ \A r \in Copies(id) :
                  r.status = answer[c].found.status /\ r.code = answer[c].found.code

IInv == TypeOK /\ PutFirst /\ RewriteFollows /\ DeletesTheDead /\ ReadsAgree

-----------------------------------------------------------------------------
(* Types. *)

\* Records that the store makes are records.
LEMMA MadeIsRecord ==
    /\ \A k \in Keys, created, ttl \in Nat : NewReceived(k, created, ttl) \in Record
    /\ \A r \in Record : [r EXCEPT !.described = TRUE] \in Record
    /\ \A r \in Record, status \in Updates, code \in Codes :
          [r EXCEPT !.status = status, !.code = code] \in Record
    /\ \A r \in Record : View(r) \in Entry
<1>1. NoCode \in Codes /\ "received" \in Statuses /\ Updates \subseteq Statuses
  BY VocabularyAssumption DEF Statuses
<1>2. \A k \in Keys, created, ttl \in Nat : NewReceived(k, created, ttl) \in Record
  BY <1>1 DEF NewReceived, Record
<1>3. \A r \in Record : [r EXCEPT !.described = TRUE] \in Record
  BY DEF Record
<1>4. \A r \in Record, status \in Updates, code \in Codes :
          [r EXCEPT !.status = status, !.code = code] \in Record
  BY <1>1 DEF Record
<1>5. \A r \in Record : View(r) \in Entry
  BY DEF Record, View, Entry
<1> QED  BY <1>2, <1>3, <1>4, <1>5

\* A key that is set with a whole number of seconds has a value and an end.
LEMMA SetIsCell ==
    ASSUME TypeOK, NEW id \in Ids, NEW r \in Record, NEW seconds \in Nat, SetEx(id, r, seconds)
    PROVE  db' \in [Ids -> Cell \cup {Absent}]
<1>1. clock + seconds * Second \in Nat
  BY RedisAssumption DEF TypeOK
<1>2. [value |-> r, dies |-> clock + seconds * Second] \in Cell
  BY <1>1 DEF Cell
<1> QED  BY <1>2 DEF SetEx, TypeOK

\* The remaining time is a positive number of seconds.
LEMMA RemainingPositive ==
    ASSUME NEW r \in Record, NEW now \in Nat
    PROVE  Remaining(r, now) \in Nat \ {0}
<1>1. r.expires \in Nat /\ Second \in Nat \ {0}
  BY RedisAssumption DEF Record
<1>2. r.expires >= now => (r.expires - now) \div Second \in Nat
  BY <1>1
<1> QED  BY <1>1, <1>2 DEF Remaining

\* Faults are counted up to their bound.
LEMMA FaultsCounted ==
    ASSUME TypeOK, Works \/ Fails
    PROVE  faults' \in 0 .. MaxFaults
BY RedisAssumption DEF TypeOK, Works, Fails

\* What a call is about to write, by its kind.
LEMMA WritingTypes ==
    ASSUME TypeOK, NEW id \in Ids
    PROVE  /\ writing[id].call = "put" =>
                 writing[id].value \in Record /\ writing[id].ttl \in Nat
           /\ writing[id].call = "rewrite" =>
                 writing[id].value \in Record /\ writing[id].read \in Nat
           /\ writing[id].call \in {"none", "put", "rewrite"}
BY DEF TypeOK, Idle, Pending

\* Every copy of a record is a record.
LEMMA CopiesAreRecords ==
    ASSUME TypeOK, NEW id \in Ids
    PROVE  Copies(id) \subseteq Record
BY WritingTypes DEF Copies, TypeOK, Cell

\* Values on their way.
LEMMA RewriteIsPending ==
    /\ \A r \in Record, read \in Nat :
          [call |-> "rewrite", read |-> read, value |-> r] \in Pending
    /\ \A r \in Record, ttl \in Nat : [call |-> "put", ttl |-> ttl, value |-> r] \in Pending
    /\ Idle \in Pending
BY DEF Pending

\* Every step keeps the types.
LEMMA TypesKept == TypeOK /\ [Next]_vars => TypeOK'
<1> SUFFICES ASSUME TypeOK, [Next]_vars PROVE TypeOK'
  OBVIOUS
<1>1. ttlSeconds \in Nat /\ Second \in Nat \ {0} /\ clock \in Nat
  BY RedisAssumption DEF TypeOK
<1>2. ASSUME NEW id \in Ids, NEW k \in Keys, Put(id, k) PROVE TypeOK'
  <2>1. ASSUME NEW ttl \in Ttls
        PROVE  [call |-> "put", ttl |-> ttlSeconds,
                value |-> NewReceived(k, clock, ttl * Second)] \in Pending
    <3>1. ttl * Second \in Nat /\ clock \in Nat
      BY RedisAssumption DEF TypeOK
    <3> QED  BY <1>1, <3>1, MadeIsRecord, RewriteIsPending
  <2>2. writing' \in [Ids -> Pending]
    BY <1>2, <2>1 DEF Put, TypeOK
  <2>3. faults' \in 0 .. MaxFaults
    BY <1>2, FaultsCounted DEF Put
  <2> QED  BY <1>2, <2>2, <2>3 DEF Put, TypeOK
<1>3. ASSUME NEW id \in Ids, PutSet(id) PROVE TypeOK'
  <2>1. db' \in [Ids -> Cell \cup {Absent}]
    BY <1>3, WritingTypes, SetIsCell DEF PutSet, TypeOK
  <2>2. writing' \in [Ids -> Pending]
    BY <1>3, RewriteIsPending DEF PutSet, TypeOK
  <2>3. faults' \in 0 .. MaxFaults
    BY <1>3, FaultsCounted DEF PutSet
  <2> QED  BY <1>3, <2>1, <2>2, <2>3 DEF PutSet, TypeOK
<1>4. ASSUME NEW id \in Ids, NEW k \in Keys, ReadMetadata(id, k) PROVE TypeOK'
  <2>1. Readable(id, k) => [db[id].value EXCEPT !.described = TRUE] \in Record
    BY MadeIsRecord DEF Readable, Present, TypeOK, Cell
  <2>2. writing' \in [Ids -> Pending]
    <3> DEFINE q == [db[id].value EXCEPT !.described = TRUE]
               pending == [call |-> "rewrite", read |-> clock, value |-> q]
    <3>1. Readable(id, k) => pending \in Pending
      BY <1>1, <2>1, RewriteIsPending
    <3>2. \/ Readable(id, k) /\ writing' = [writing EXCEPT ![id] = pending]
          \/ writing' = writing
      BY <1>4 DEF ReadMetadata, Rewrite
    <3> HIDE DEF q, pending
    <3> QED  BY <3>1, <3>2 DEF TypeOK
  <2>3. faults' \in 0 .. MaxFaults
    BY <1>4, FaultsCounted DEF ReadMetadata
  <2> QED  BY <1>4, <2>2, <2>3 DEF ReadMetadata, TypeOK
<1>5. ASSUME NEW id \in Ids, NEW k \in Keys, NEW status \in Updates, NEW code \in Codes,
             ReadStatus(id, k, status, code)
      PROVE  TypeOK'
  <2>1. MayUpdate(id, k) => [db[id].value EXCEPT !.status = status, !.code = code] \in Record
    BY MadeIsRecord DEF MayUpdate, Readable, Present, TypeOK, Cell
  <2>2. writing' \in [Ids -> Pending]
    BY <1>1, <1>5, <2>1, RewriteIsPending DEF ReadStatus, Rewrite, TypeOK
  <2>3. faults' \in 0 .. MaxFaults
    BY <1>5, FaultsCounted DEF ReadStatus
  <2> QED  BY <1>5, <2>2, <2>3 DEF ReadStatus, TypeOK
<1>6. ASSUME NEW id \in Ids, WriteBack(id) PROVE TypeOK'
  <2>1. db' \in [Ids -> Cell \cup {Absent}]
    <3>1. writing[id].value \in Record /\ writing[id].read .. clock \subseteq Nat
      BY <1>1, <1>6, WritingTypes DEF WriteBack
    <3> QED  BY <1>6, <3>1, RemainingPositive, SetIsCell DEF WriteBack, TypeOK
  <2>2. writing' \in [Ids -> Pending]
    BY <1>6, RewriteIsPending DEF WriteBack, TypeOK
  <2>3. faults' \in 0 .. MaxFaults
    BY <1>6, FaultsCounted DEF WriteBack
  <2> QED  BY <1>6, <2>1, <2>2, <2>3 DEF WriteBack, TypeOK
<1>7. ASSUME NEW id \in Ids, NEW k \in Keys, NEW c \in Clients, Get(c, id, k) PROVE TypeOK'
  <2>1. Readable(id, k) => View(db[id].value) \in Entry
    BY MadeIsRecord DEF Readable, Present, TypeOK, Cell
  <2>2. answer' \in [Clients -> Answers \cup {Absent}]
    BY <1>7, <2>1 DEF Get, Answer, Answers, TypeOK
  <2>3. deleting' \in [Clients -> Ids \cup {Absent}]
    BY <1>7 DEF Get, TypeOK
  <2>4. faults' \in 0 .. MaxFaults
    BY <1>7, FaultsCounted DEF Get
  <2> QED  BY <1>7, <2>2, <2>3, <2>4 DEF Get, TypeOK
<1>8. ASSUME NEW c \in Clients, GetDelete(c) PROVE TypeOK'
  <2>1. deleting[c] \in Ids
    BY <1>8 DEF GetDelete, TypeOK
  <2>2. answer' \in [Clients -> Answers \cup {Absent}]
    BY <1>8, <2>1 DEF GetDelete, Answer, Answers, TypeOK
  <2>3. faults' \in 0 .. MaxFaults
    BY <1>8, FaultsCounted DEF GetDelete
  <2> QED  BY <1>8, <2>1, <2>2, <2>3 DEF GetDelete, TypeOK
<1>9. ASSUME NEW ttl \in Ttls, ReloadConfig(ttl) PROVE TypeOK'
  BY <1>9 DEF ReloadConfig, TypeOK
<1>10. ASSUME NEW id \in Ids, Evict(id) PROVE TypeOK'
  BY <1>10 DEF Evict, TypeOK
<1>11. CASE Tick
  BY <1>11, RedisAssumption DEF Tick, TypeOK
<1>12. CASE UNCHANGED vars
  BY <1>12 DEF vars, TypeOK
<1> QED  BY <1>2, <1>3, <1>4, <1>5, <1>6, <1>7, <1>8, <1>9, <1>10, <1>11, <1>12 DEF Next

-----------------------------------------------------------------------------
(* What becomes of the copies of one record. *)

\* A put has just begun, and nothing is stored yet.
PutBegun(id) ==
    /\ id \in used
    /\ writing[id].call = "put"

\* Any step, seen from one record: copies stay, are updated while they have not
\* expired, disappear, or are made by the one put.
CopiesStep(id) ==
    /\ used \subseteq used'
    /\ clock <= clock'
    /\ writing'[id].call = "put" => writing[id].call = "put" \/ id \notin used
    /\ \A q \in Copies(id)' :
          \/ q \in Copies(id)
          \/ \E r \in Copies(id) : ~Expired(r) /\ UpdateOf(r, q)
          \/ PutBegun(id) /\ Copies(id) = {}

\* A step that leaves db and writing of this record alone.
LEMMA QuietStep ==
    ASSUME TypeOK, NEW id \in Ids, used \subseteq used', clock <= clock',
           db'[id] \in {db[id], Absent}, writing'[id] \in {writing[id], Idle}
    PROVE  CopiesStep(id)
<1>1. Idle.call = "none"
  BY DEF Idle
<1>2. writing'[id].call \in {"put", "rewrite"} => writing'[id] = writing[id]
  BY <1>1
<1>3. Copies(id)' \subseteq Copies(id)
  BY <1>2 DEF Copies
<1>4. writing'[id].call = "put" => writing[id].call = "put"
  BY <1>2
<1>5. \A q \in Copies(id)' : q \in Copies(id)
  BY <1>3
<1> QED  BY <1>4, <1>5, Zenon DEF CopiesStep

\* A step that begins to write back a record it has just read.
LEMMA ReadStep ==
    ASSUME TypeOK, NEW id \in Ids, NEW q, UNCHANGED <<used, clock, db>>,
           db[id] # Absent, ~Expired(db[id].value), UpdateOf(db[id].value, q),
           writing'[id] = [call |-> "rewrite", read |-> clock, value |-> q]
    PROVE  CopiesStep(id)
<1>1. clock <= clock' /\ used \subseteq used' /\ writing'[id].call = "rewrite"
  BY DEF TypeOK
<1>2. Copies(id)' = {db[id].value, q} /\ db[id].value \in Copies(id)
  BY DEF Copies
<1> QED  BY <1>1, <1>2 DEF CopiesStep

\* Every step, from the records' side.
LEMMA StepOnCopies ==
    ASSUME TypeOK, PutFirst, [Next]_vars, NEW id \in Ids
    PROVE  CopiesStep(id)
<1>1. ASSUME NEW other \in Ids, NEW k \in Keys, Put(other, k) PROVE CopiesStep(id)
  <2>1. used \subseteq used' /\ clock' = clock /\ clock \in Nat /\ db' = db
    BY <1>1 DEF Put, TypeOK
  <2>2. CASE writing'[id] = writing[id]
    BY <2>1, <2>2, QuietStep
  <2>3. CASE writing'[id] # writing[id]
    <3>1. id \notin used /\ writing'[id].call = "put"
      BY <1>1, <2>3 DEF Put, TypeOK
    <3>2. db[id] = Absent
      BY <3>1 DEF PutFirst
    <3>3. Copies(id)' = {}
      BY <2>1, <3>1, <3>2 DEF Copies
    <3> QED  BY <2>1, <3>1, <3>3 DEF CopiesStep
  <2> QED  BY <2>2, <2>3
<1>2. ASSUME NEW other \in Ids, PutSet(other) PROVE CopiesStep(id)
  <2>1. UNCHANGED <<used, clock>> /\ clock \in Nat
    BY <1>2 DEF PutSet, TypeOK
  <2>2. writing'[id] \in {writing[id], Idle}
    BY <1>2 DEF PutSet, TypeOK
  <2>3. CASE db'[id] = db[id]
    BY <2>1, <2>2, <2>3, QuietStep
  <2>4. CASE db'[id] # db[id]
    <3>1. id = other /\ writing[id].call = "put" /\ writing'[id] = Idle
      BY <1>2, <2>4 DEF PutSet, SetEx, TypeOK
    <3>2. id \in used /\ db[id] = Absent
      BY <3>1 DEF PutFirst, Idle
    <3>3. Copies(id) = {} /\ PutBegun(id)
      BY <3>1, <3>2 DEF Copies, PutBegun
    <3> QED  BY <2>1, <3>1, <3>3 DEF CopiesStep
  <2> QED  BY <2>3, <2>4
<1>3. ASSUME NEW other \in Ids, NEW k \in Keys, ReadMetadata(other, k) PROVE CopiesStep(id)
  <2>1. UNCHANGED <<used, clock, db>> /\ clock \in Nat
    BY <1>3 DEF ReadMetadata, TypeOK
  <2>2. CASE writing'[id] = writing[id]
    BY <2>1, <2>2, QuietStep
  <2>3. CASE writing'[id] # writing[id]
    <3> DEFINE r == db[id].value
               q == [r EXCEPT !.described = TRUE]
    <3>1. id = other /\ Readable(id, k) /\ writing'[id] = [call |-> "rewrite", read |-> clock, value |-> q]
      BY <1>3, <2>3 DEF ReadMetadata, Rewrite, TypeOK
    <3>2. db[id] # Absent /\ r \in Record /\ ~Expired(r)
      BY <3>1 DEF Readable, Present, TypeOK, Cell
    <3>3. UpdateOf(r, q)
      BY <3>2 DEF UpdateOf, Record
    <3> QED  BY <2>1, <3>1, <3>2, <3>3, ReadStep
  <2> QED  BY <2>2, <2>3
<1>4. ASSUME NEW other \in Ids, NEW k \in Keys, NEW status \in Updates, NEW code \in Codes,
             ReadStatus(other, k, status, code)
      PROVE  CopiesStep(id)
  <2>1. UNCHANGED <<used, clock, db>> /\ clock \in Nat
    BY <1>4 DEF ReadStatus, TypeOK
  <2>2. CASE writing'[id] = writing[id]
    BY <2>1, <2>2, QuietStep
  <2>3. CASE writing'[id] # writing[id]
    <3> DEFINE r == db[id].value
               q == [r EXCEPT !.status = status, !.code = code]
    <3>1. id = other /\ MayUpdate(id, k) /\ writing'[id] = [call |-> "rewrite", read |-> clock, value |-> q]
      BY <1>4, <2>3 DEF ReadStatus, Rewrite, TypeOK
    <3>2. db[id] # Absent /\ r \in Record /\ ~Expired(r) /\ r.status \notin Terminal
      BY <3>1 DEF MayUpdate, Readable, Present, TypeOK, Cell
    <3>3. UpdateOf(r, q)
      BY <3>2 DEF UpdateOf, Record
    <3> QED  BY <2>1, <3>1, <3>2, <3>3, ReadStep
  <2> QED  BY <2>2, <2>3
<1>5. ASSUME NEW other \in Ids, WriteBack(other) PROVE CopiesStep(id)
  <2>1. UNCHANGED <<used, clock>> /\ clock \in Nat
    BY <1>5 DEF WriteBack, TypeOK
  <2>2. writing'[id] \in {writing[id], Idle}
    BY <1>5 DEF WriteBack, TypeOK
  <2>3. CASE db'[id] = db[id]
    BY <2>1, <2>2, <2>3, QuietStep
  <2>4. CASE db'[id] # db[id]
    <3>1. /\ id = other /\ writing[id].call = "rewrite" /\ writing'[id] = Idle
          /\ db'[id].value = writing[id].value
      BY <1>5, <2>4 DEF WriteBack, SetEx, TypeOK
    <3>2. Copies(id)' \subseteq Copies(id)
      BY <3>1 DEF Copies, Idle
    <3> QED  BY <2>1, <2>2, <3>1, <3>2 DEF CopiesStep, Idle
  <2> QED  BY <2>3, <2>4
<1>6. ASSUME NEW other \in Ids, NEW k \in Keys, NEW c \in Clients, Get(c, other, k)
      PROVE  CopiesStep(id)
  BY <1>6, QuietStep DEF Get, TypeOK
<1>7. ASSUME NEW c \in Clients, GetDelete(c) PROVE CopiesStep(id)
  <2>1. db'[id] \in {db[id], Absent}
    BY <1>7 DEF GetDelete, TypeOK
  <2> QED  BY <1>7, <2>1, QuietStep DEF GetDelete, TypeOK
<1>8. ASSUME NEW ttl \in Ttls, ReloadConfig(ttl) PROVE CopiesStep(id)
  BY <1>8, QuietStep DEF ReloadConfig, TypeOK
<1>9. ASSUME NEW other \in Ids, Evict(other) PROVE CopiesStep(id)
  <2>1. db'[id] \in {db[id], Absent}
    BY <1>9 DEF Evict, TypeOK
  <2> QED  BY <1>9, <2>1, QuietStep DEF Evict, TypeOK
<1>10. CASE Tick
  BY <1>10, QuietStep DEF Tick, TypeOK
<1>11. CASE UNCHANGED vars
  BY <1>11, QuietStep DEF vars, TypeOK
<1> QED  BY <1>1, <1>2, <1>3, <1>4, <1>5, <1>6, <1>7, <1>8, <1>9, <1>10, <1>11 DEF Next

-----------------------------------------------------------------------------
(* The invariant. *)

\* Steps keep what put_received comes before.
LEMMA PutFirstKept == TypeOK /\ PutFirst /\ [Next]_vars => PutFirst'
<1> SUFFICES ASSUME TypeOK, PutFirst, [Next]_vars, NEW id \in Ids
             PROVE  /\ writing'[id] # Idle => id \in used'
                    /\ db'[id] # Absent => id \in used' /\ writing'[id].call # "put"
  BY DEF PutFirst
<1> USE DEF PutFirst, TypeOK
<1>0. Idle.call = "none"
  BY DEF Idle
<1>1. ASSUME NEW other \in Ids, NEW k \in Keys, Put(other, k)
      PROVE  /\ writing'[id] # Idle => id \in used'
             /\ db'[id] # Absent => id \in used' /\ writing'[id].call # "put"
  BY <1>1 DEF Put
<1>2. ASSUME NEW other \in Ids, PutSet(other)
      PROVE  /\ writing'[id] # Idle => id \in used'
             /\ db'[id] # Absent => id \in used' /\ writing'[id].call # "put"
  BY <1>0, <1>2 DEF PutSet, SetEx
<1>3. ASSUME NEW other \in Ids, NEW k \in Keys, ReadMetadata(other, k)
      PROVE  /\ writing'[id] # Idle => id \in used'
             /\ db'[id] # Absent => id \in used' /\ writing'[id].call # "put"
  BY <1>3 DEF ReadMetadata, Rewrite
<1>4. ASSUME NEW other \in Ids, NEW k \in Keys, NEW status \in Updates, NEW code \in Codes,
             ReadStatus(other, k, status, code)
      PROVE  /\ writing'[id] # Idle => id \in used'
             /\ db'[id] # Absent => id \in used' /\ writing'[id].call # "put"
  BY <1>4 DEF ReadStatus, Rewrite
<1>5. ASSUME NEW other \in Ids, WriteBack(other)
      PROVE  /\ writing'[id] # Idle => id \in used'
             /\ db'[id] # Absent => id \in used' /\ writing'[id].call # "put"
  BY <1>0, <1>5 DEF WriteBack, SetEx
<1>6. CASE UNCHANGED <<used, writing>> /\ db'[id] \in {db[id], Absent}
  BY <1>6
<1>7. ASSUME NEW c \in Clients, GetDelete(c)
      PROVE  UNCHANGED <<used, writing>> /\ db'[id] \in {db[id], Absent}
  BY <1>7 DEF GetDelete
<1>8. ASSUME NEW other \in Ids, Evict(other)
      PROVE  UNCHANGED <<used, writing>> /\ db'[id] \in {db[id], Absent}
  BY <1>8 DEF Evict
<1> QED  BY <1>1, <1>2, <1>3, <1>4, <1>5, <1>6, <1>7, <1>8
         DEF Next, vars, Get, ReloadConfig, Tick

\* What is written back keeps the end of a record, and its outcome once it has one.
LEMMA RewriteUpdates ==
    ASSUME NEW r \in Record, NEW q, Rewrites(r, q)
    PROVE  UpdateOf(r, q)
BY DEF Rewrites, Moved, UpdateOf, Record

\* So it is with a rewrite under way, if the record is there.
LEMMA FollowsIsUpdate ==
    ASSUME TypeOK, RewriteFollows, NEW id \in Ids, db[id] # Absent,
           writing[id].call = "rewrite"
    PROVE  UpdateOf(db[id].value, writing[id].value)
<1>1. db[id].value \in Record
  BY DEF TypeOK, Cell
<1> QED  BY <1>1, RewriteUpdates DEF RewriteFollows

\* A rewrite follows from the record that is there.
LEMMA RewriteFollowsKept ==
    TypeOK /\ RewriteFollows /\ [Next]_vars => RewriteFollows'
<1> SUFFICES ASSUME TypeOK, RewriteFollows, [Next]_vars, NEW id \in Ids,
                    db'[id] # Absent, writing'[id].call = "rewrite"
             PROVE  Rewrites(db'[id].value, writing'[id].value)
  BY DEF RewriteFollows, Rewrites, Moved
<1>0. Idle.call = "none"
  BY DEF Idle
<1>1. CASE writing'[id] = writing[id] /\ db'[id] = db[id]
  BY <1>1 DEF RewriteFollows
<1>2. ASSUME NEW other \in Ids, NEW k \in Keys, Put(other, k)
      PROVE  writing'[id] = writing[id] /\ db'[id] = db[id]
  BY <1>2 DEF Put, TypeOK
<1>3. ASSUME NEW other \in Ids, PutSet(other)
      PROVE  writing'[id] = writing[id] /\ db'[id] = db[id]
  BY <1>0, <1>3 DEF PutSet, SetEx, TypeOK
<1>4. ASSUME NEW other \in Ids, NEW k \in Keys, ReadMetadata(other, k),
             writing'[id] # writing[id]
      PROVE  Rewrites(db'[id].value, writing'[id].value)
  <2> DEFINE r == db[id].value
             q == [r EXCEPT !.described = TRUE]
  <2>1. /\ id = other /\ db' = db /\ Readable(id, k)
        /\ writing'[id] = [call |-> "rewrite", read |-> clock, value |-> q]
    BY <1>4 DEF ReadMetadata, Rewrite, TypeOK
  <2>2. r \in Record
    BY <2>1 DEF Readable, Present, Cell, TypeOK
  <2>3. Rewrites(r, q)
    BY <2>2 DEF Rewrites, Moved
  <2> QED  BY <2>1, <2>3
<1>5. ASSUME NEW other \in Ids, NEW k \in Keys, NEW status \in Updates, NEW code \in Codes,
             ReadStatus(other, k, status, code), writing'[id] # writing[id]
      PROVE  Rewrites(db'[id].value, writing'[id].value)
  <2> DEFINE r == db[id].value
             q == [r EXCEPT !.status = status, !.code = code]
  <2>1. /\ id = other /\ db' = db /\ MayUpdate(id, k)
        /\ writing'[id] = [call |-> "rewrite", read |-> clock, value |-> q]
    BY <1>5 DEF ReadStatus, Rewrite, TypeOK
  <2>2. r \in Record /\ r.status \notin Terminal
    BY <2>1 DEF MayUpdate, Readable, Present, Cell, TypeOK
  <2>3. Rewrites(r, q)
    BY <2>2 DEF Rewrites, Moved
  <2> QED  BY <2>1, <2>3
<1>6. ASSUME NEW other \in Ids, NEW k \in Keys,
             \/ ReadMetadata(other, k)
             \/ \E status \in Updates, code \in Codes : ReadStatus(other, k, status, code)
      PROVE  db' = db
  BY <1>6 DEF ReadMetadata, ReadStatus
<1>7. ASSUME NEW other \in Ids, WriteBack(other)
      PROVE  writing'[id] = writing[id] /\ db'[id] = db[id]
  BY <1>0, <1>7 DEF WriteBack, SetEx, TypeOK
<1>8. ASSUME NEW c \in Clients, GetDelete(c)
      PROVE  writing'[id] = writing[id] /\ db'[id] = db[id]
  BY <1>8 DEF GetDelete, TypeOK
<1>9. ASSUME NEW other \in Ids, Evict(other)
      PROVE  writing'[id] = writing[id] /\ db'[id] = db[id]
  BY <1>9 DEF Evict, TypeOK
<1> QED  BY <1>1, <1>2, <1>3, <1>4, <1>5, <1>6, <1>7, <1>8, <1>9
         DEF Next, vars, Get, ReloadConfig, Tick

\* A get deletes nothing that has not expired: neither an update of the record it has
\* read, nor a copy that comes back.
LEMMA DeletesTheDeadKept ==
    /\ TypeOK /\ PutFirst /\ RewriteFollows /\ DeletesTheDead /\ [Next]_vars
    => DeletesTheDead'
<1> SUFFICES ASSUME TypeOK, PutFirst, RewriteFollows, DeletesTheDead, [Next]_vars,
                    NEW c \in Clients, NEW id \in Ids, deleting'[c] = id
             PROVE  /\ id \in used'
                    /\ writing'[id].call # "put"
                    /\ \A q \in Copies(id)' : Expired(q)'
  BY DEF DeletesTheDead
<1>1. CASE deleting'[c] = deleting[c]
  <2>1. id \in used /\ writing[id].call # "put"
        /\ \A r \in Copies(id) : Expired(r)
    BY <1>1 DEF DeletesTheDead, TypeOK
  <2>2. CopiesStep(id)
    BY <2>1, StepOnCopies
  <2>3. \A q \in Copies(id)' : q \in Copies(id)
    BY <2>1, <2>2 DEF CopiesStep, PutBegun
  <2>4. ASSUME NEW q \in Copies(id)' PROVE Expired(q)'
    <3>1. Expired(q) /\ q \in Record
      BY <2>1, <2>3, CopiesAreRecords
    <3>2. clock <= clock' /\ clock \in Nat /\ clock' \in Nat
      BY <2>2, TypesKept DEF CopiesStep, TypeOK
    <3> QED  BY <3>1, <3>2 DEF Expired, Record
  <2> QED  BY <2>1, <2>2, <2>4 DEF CopiesStep
<1>2. CASE deleting'[c] # deleting[c]
  <2>1. PICK other \in Ids, k \in Keys :
           /\ Get(c, other, k)
           /\ Present(other) /\ Expired(db[other].value)
           /\ deleting' = [deleting EXCEPT ![c] = other]
    <3>1. ASSUME NEW d \in Clients, GetDelete(d) PROVE FALSE
      BY <1>2, <3>1, VocabularyAssumption DEF GetDelete, TypeOK
    <3>2. ASSUME NEW d \in Clients, NEW other \in Ids, NEW k \in Keys, Get(d, other, k)
          PROVE  /\ Get(c, other, k)
                 /\ Present(other) /\ Expired(db[other].value)
                 /\ deleting' = [deleting EXCEPT ![c] = other]
      BY <1>2, <3>2 DEF Get, TypeOK
    <3>3. \E d \in Clients, other \in Ids, k \in Keys : Get(d, other, k)
      BY <1>2, <3>1 DEF Next, vars, Put, PutSet, ReadMetadata, ReadStatus, WriteBack,
                        ReloadConfig, Evict, Tick
    <3> QED  BY <3>2, <3>3
  <2>2. id = other /\ UNCHANGED <<db, used, writing, clock>>
    BY <2>1 DEF Get, TypeOK
  <2>3. id \in used /\ writing[id].call # "put" /\ db[id] # Absent
    BY <2>1, <2>2 DEF Present, PutFirst
  <2>4. \A r \in Copies(id) : Expired(r)
    BY <2>1, <2>2, <2>3, FollowsIsUpdate DEF Copies, UpdateOf, Expired
  <2> QED  BY <2>2, <2>3, <2>4 DEF Copies, Expired
<1> QED  BY <1>1, <1>2

\* What a lookup that finds a record tells its caller.
LEMMA AnswerStep ==
    ASSUME TypeOK, [Next]_vars, NEW c \in Clients, answer'[c] # answer[c],
           answer'[c].found # Absent
    PROVE  \E id \in Ids :
              /\ db[id] # Absent
              /\ answer'[c] = [id |-> id, found |-> View(db[id].value)]
              /\ UNCHANGED <<db, used, writing>>
<1>1. ASSUME NEW d \in Clients, GetDelete(d) PROVE FALSE
  BY <1>1 DEF GetDelete, Answer, TypeOK
<1>2. ASSUME NEW d \in Clients, NEW id \in Ids, NEW k \in Keys, Get(d, id, k)
      PROVE  /\ db[id] # Absent
             /\ answer'[c] = [id |-> id, found |-> View(db[id].value)]
             /\ UNCHANGED <<db, used, writing>>
  BY <1>2 DEF Get, Answer, TypeOK, Readable, Present
<1>3. \E d \in Clients, id \in Ids, k \in Keys : Get(d, id, k)
  BY <1>1 DEF Next, vars, Put, PutSet, ReadMetadata, ReadStatus, WriteBack,
              ReloadConfig, Evict, Tick
<1> QED  BY <1>2, <1>3

\* A terminal outcome that has been told is that of every copy there will be.
LEMMA ReadsAgreeKept ==
    TypeOK /\ PutFirst /\ RewriteFollows /\ ReadsAgree /\ [Next]_vars => ReadsAgree'
<1> SUFFICES ASSUME TypeOK, PutFirst, RewriteFollows, ReadsAgree, [Next]_vars,
                    NEW c \in Clients, NEW id \in Ids, Board!ReadTerminal(c, id)'
             PROVE  /\ id \in used'
                    /\ writing'[id].call # "put"
                    /\ \A q \in Copies(id)' :
                          /\ q.status = answer'[c].found.status
                          /\ q.code = answer'[c].found.code
  BY DEF ReadsAgree
<1>0. /\ answer'[c] # Absent /\ answer'[c].id = id /\ answer'[c].found # Absent
      /\ answer'[c].found.status \in Terminal
  BY DEF Board!ReadTerminal, Board!Terminal, Terminal
<1>1. CASE answer'[c] = answer[c]
  <2> DEFINE seen == answer[c].found
  <2>1. Board!ReadTerminal(c, id)
    BY <1>0, <1>1 DEF Board!ReadTerminal, Board!Terminal, Terminal
  <2>2. /\ id \in used /\ writing[id].call # "put" /\ seen.status \in Terminal
        /\ \A r \in Copies(id) : r.status = seen.status /\ r.code = seen.code
    BY <1>0, <1>1, <2>1 DEF ReadsAgree
  <2>3. CopiesStep(id)
    BY StepOnCopies
  <2> HIDE DEF seen
  <2>4. \A q \in Copies(id)' : q.status = seen.status /\ q.code = seen.code
    BY <2>2, <2>3 DEF CopiesStep, UpdateOf, PutBegun
  <2> QED  BY <1>1, <2>2, <2>3, <2>4 DEF CopiesStep, seen
<1>2. CASE answer'[c] # answer[c]
  <2>1. /\ db[id] # Absent /\ UNCHANGED <<db, used, writing>>
        /\ answer'[c] = [id |-> id, found |-> View(db[id].value)]
    <3>1. PICK other \in Ids :
             /\ db[other] # Absent /\ UNCHANGED <<db, used, writing>>
             /\ answer'[c] = [id |-> other, found |-> View(db[other].value)]
      BY <1>0, <1>2, AnswerStep
    <3>2. other = id
      BY <1>0, <3>1
    <3> QED  BY <3>1, <3>2
  <2>2. /\ answer'[c].found.status = db[id].value.status
        /\ answer'[c].found.code = db[id].value.code
    BY <2>1 DEF View
  <2>3. id \in used /\ writing[id].call # "put"
    BY <2>1 DEF PutFirst
  <2>4. \A r \in Copies(id) :
           r.status = db[id].value.status /\ r.code = db[id].value.code
    BY <1>0, <2>1, <2>2, FollowsIsUpdate DEF Copies, UpdateOf
  <2> QED  BY <2>1, <2>2, <2>3, <2>4 DEF Copies
<1> QED  BY <1>1, <1>2

\* Nothing is stored, on its way or told.
LEMMA InitInvariant == Init => IInv
<1> SUFFICES ASSUME Init PROVE IInv
  OBVIOUS
<1>1. TypeOK
  BY RedisAssumption DEF Init, TypeOK, Pending
<1>2. PutFirst /\ RewriteFollows /\ ReadsAgree
  BY DEF Init, PutFirst, RewriteFollows, ReadsAgree, Idle, Board!ReadTerminal
<1>3. DeletesTheDead
  BY VocabularyAssumption DEF Init, DeletesTheDead
<1> QED  BY <1>1, <1>2, <1>3 DEF IInv

\* The inductive invariant: types, one put before anything else, updates that follow from
\* what is there, deletions of the dead, and answers that hold for every copy.
THEOREM Invariant == Spec => []IInv
<1>1. IInv /\ [Next]_vars => IInv'
  BY TypesKept, PutFirstKept, RewriteFollowsKept, DeletesTheDeadKept, ReadsAgreeKept DEF IInv
<1> QED  BY <1>1, InitInvariant, PTL DEF Spec

\* Type correctness: values under a key are records, whatever was interleaved or lost.
THEOREM TypeCorrect == Spec => []TypeOK
<1>1. IInv => TypeOK
  BY DEF IInv
<1> QED  BY <1>1, Invariant, PTL

-----------------------------------------------------------------------------
(* What the store promises. *)

\* Whole seconds that are left, times the length of a second: up to the end, and less
\* than a second short of it.
LEMMA WholeSeconds ==
    ASSUME NEW left \in Nat, NEW second \in Nat \ {0}
    PROVE  LET n == left \div second
           IN  /\ n \in Nat
               /\ n * second <= left
               /\ left < n * second + second
OBVIOUS

\* update_status and set_recipient_metadata leave expires_at alone and do not renew the
\* key (the remaining ttl of RFC 830): it outlives the record by no more than the call
\* took, or a second, and goes less than a second early.
THEOREM LifetimeKept == Spec => UpdatesKeepLifetime
<1> DEFINE Kept(id) ==
      (writing[id].call = "rewrite" /\ writing'[id] = Idle /\ db'[id] # db[id]) =>
         LET cell == db'[id] IN
         /\ db[id] # Absent => cell.value.expires = db[id].value.expires
         /\ cell.dies > cell.value.expires - Second
         /\ \/ cell.dies <= cell.value.expires + (clock - writing[id].read)
            \/ cell.dies <= clock + Second
<1>1. ASSUME IInv, [Next]_vars, NEW id \in Ids PROVE Kept(id)
  <2> SUFFICES ASSUME writing[id].call = "rewrite", writing'[id] = Idle, db'[id] # db[id]
               PROVE  LET cell == db'[id] IN
                      /\ db[id] # Absent => cell.value.expires = db[id].value.expires
                      /\ cell.dies > cell.value.expires - Second
                      /\ \/ cell.dies <= cell.value.expires + (clock - writing[id].read)
                         \/ cell.dies <= clock + Second
    OBVIOUS
  <2> DEFINE r == writing[id].value
             read == writing[id].read
  <2>0. TypeOK /\ RewriteFollows
    BY <1>1 DEF IInv
  <2>1. WriteBack(id)
    <3>1. writing'[id] # writing[id]
      BY DEF Idle
    <3>2. ASSUME NEW other \in Ids, PutSet(other) PROVE FALSE
      BY <2>0, <3>1, <3>2 DEF PutSet, TypeOK
    <3>3. ASSUME NEW other \in Ids, WriteBack(other) PROVE other = id
      BY <2>0, <3>1, <3>3 DEF WriteBack, TypeOK
    <3> QED  BY <1>1, <3>1, <3>2, <3>3
             DEF Next, vars, Put, ReadMetadata, ReadStatus, Get, GetDelete, ReloadConfig,
                 Evict, Tick
  <2>2. PICK now \in read .. clock :
           db'[id] = [value |-> r, dies |-> clock + Remaining(r, now) * Second]
    BY <2>0, <2>1 DEF WriteBack, SetEx, TypeOK
  <2> DEFINE n == Remaining(r, now)
  <2>3. /\ r.expires \in Nat /\ clock \in Nat /\ Second \in Nat \ {0}
        /\ read \in Nat /\ now \in Nat /\ read <= now /\ now <= clock
    BY <2>0, WritingTypes, RedisAssumption DEF TypeOK, Record
  <2>4. db[id] # Absent => r.expires = db[id].value.expires
    BY <2>0, FollowsIsUpdate DEF UpdateOf
  <2>5. /\ clock + n * Second > r.expires - Second
        /\ clock + n * Second <= r.expires + (clock - read) \/ clock + n * Second <= clock + Second
    <3>1. CASE r.expires < now
      <4>1. n = 1
        BY <2>3, <3>1 DEF Remaining
      <4> QED  BY <2>3, <3>1, <4>1
    <3>2. CASE r.expires >= now
      <4> DEFINE left == (r.expires - now) \div Second
      <4>1. /\ left \in Nat
            /\ left * Second <= r.expires - now
            /\ r.expires - now < left * Second + Second
        <5>1. r.expires - now \in Nat
          BY <2>3, <3>2
        <5> QED  BY <2>3, <5>1, WholeSeconds
      <4>2. n = IF left > 0 THEN left ELSE 1
        BY <3>2 DEF Remaining
      <4> HIDE DEF left, n, r, read
      <4>3. CASE left > 0
        BY <2>3, <4>1, <4>2, <4>3
      <4>4. CASE left = 0
        BY <2>3, <4>1, <4>2, <4>4
      <4> QED  BY <4>1, <4>3, <4>4
    <3> QED  BY <2>3, <3>1, <3>2
  <2> QED  BY <2>2, <2>4, <2>5
<1>2. IInv /\ [Next]_vars => \A id \in Ids : Kept(id)
  BY <1>1
<1> QED  BY <1>2, Invariant, PTL DEF Spec, UpdatesKeepLifetime

\* The DEL of a get removes nothing alive, whatever has been written since its GET.
THEOREM OnlyDeadDeleted == Spec => LookupsDeleteOnlyExpired
<1> DEFINE Harmless(c) ==
      (deleting[c] # Absent /\ deleting'[c] = Absent) =>
         \/ db'[deleting[c]] = db[deleting[c]]
         \/ Expired(db[deleting[c]].value)
<1>1. ASSUME IInv, [Next]_vars, NEW c \in Clients PROVE Harmless(c)
  <2> SUFFICES ASSUME deleting[c] # Absent, deleting'[c] = Absent
               PROVE  \/ db'[deleting[c]] = db[deleting[c]]
                      \/ Expired(db[deleting[c]].value)
    OBVIOUS
  <2> DEFINE id == deleting[c]
  <2>1. TypeOK /\ id \in Ids
    BY <1>1 DEF IInv, TypeOK
  <2>2. GetDelete(c)
    <3>1. ASSUME NEW d \in Clients, NEW other \in Ids, NEW k \in Keys, Get(d, other, k)
          PROVE  FALSE
      BY <2>1, <3>1, VocabularyAssumption DEF Get, TypeOK
    <3>2. ASSUME NEW d \in Clients, GetDelete(d) PROVE d = c
      BY <2>1, <3>2 DEF GetDelete, TypeOK
    <3> QED  BY <1>1, <3>1, <3>2
             DEF Next, vars, Put, PutSet, ReadMetadata, ReadStatus, WriteBack, ReloadConfig,
                 Evict, Tick
  <2>3. db'[id] \in {db[id], Absent}
    BY <2>1, <2>2 DEF GetDelete, TypeOK
  <2>4. CASE db[id] # Absent
    BY <1>1, <2>1, <2>4 DEF IInv, DeletesTheDead, Copies
  <2> QED  BY <2>3, <2>4
<1>2. IInv /\ [Next]_vars => \A c \in Clients : Harmless(c)
  BY <1>1
<1> QED  BY <1>2, Invariant, PTL DEF Spec, LookupsDeleteOnlyExpired

\* Outcomes clients have seen stay, although updates are two commands and bring records
\* back that Redis had dropped.
THEOREM OutcomesStable == Spec => AnswersStable
<1>1. ASSUME IInv, [Next]_vars PROVE Board!OutcomesKept
  <2> SUFFICES ASSUME NEW c \in Clients, NEW d \in Clients, NEW id \in Ids,
                      Board!ReadTerminal(c, id), answer'[d] # answer[d],
                      answer'[d].id = id, answer'[d].found # Absent
               PROVE  /\ answer'[d].found.status = answer[c].found.status
                      /\ answer'[d].found.code = answer[c].found.code
    BY DEF Board!OutcomesKept
  <2>1. db[id] # Absent /\ answer'[d] = [id |-> id, found |-> View(db[id].value)]
    <3>1. PICK other \in Ids :
             db[other] # Absent /\ answer'[d] = [id |-> other, found |-> View(db[other].value)]
      BY <1>1, AnswerStep DEF IInv
    <3>2. other = id
      BY <3>1
    <3> QED  BY <3>1, <3>2
  <2>2. /\ db[id].value.status = answer[c].found.status
        /\ db[id].value.code = answer[c].found.code
    BY <1>1, <2>1 DEF IInv, ReadsAgree, Copies
  <2> QED  BY <2>1, <2>2 DEF View
<1>2. IInv /\ [Next]_vars => [Board!OutcomesKept]_(Board!vars)
  BY <1>1
<1> QED  BY <1>2, Invariant, PTL DEF Spec, AnswersStable, Board!AnswersNeverRegress

-----------------------------------------------------------------------------
(* The store implements the board, but for lookups that miss. *)

\* The record that put_received sets is one that new_received has made.
PutsFresh ==
    \A id \in Ids :
        writing[id].call = "put" => \E k \in Keys : View(writing[id].value) = FreshEntry(k)

\* No other call sets a value with a ttl.
LEMMA PutsFreshKept == TypeOK /\ PutsFresh /\ [Next]_vars => PutsFresh'
<1> SUFFICES ASSUME TypeOK, PutsFresh, [Next]_vars, NEW id \in Ids,
                    writing'[id].call = "put"
             PROVE  \E k \in Keys : View(writing'[id].value) = FreshEntry(k)
  BY DEF PutsFresh
<1>0. Idle.call = "none"
  BY DEF Idle
<1>1. CASE writing'[id] = writing[id]
  BY <1>1 DEF PutsFresh
<1>2. ASSUME NEW other \in Ids, NEW k \in Keys, Put(other, k), writing'[id] # writing[id]
      PROVE  View(writing'[id].value) = FreshEntry(k)
  <2>1. \E ttl \in Ttls : writing'[id].value = NewReceived(k, clock, ttl * Second)
    BY <1>2 DEF Put, TypeOK
  <2>2. \A ttl : View(NewReceived(k, clock, ttl)) = FreshEntry(k)
    BY DEF NewReceived, View, FreshEntry
  <2> QED  BY <2>1, <2>2
<1>3. ASSUME NEW other \in Ids, PutSet(other) \/ WriteBack(other)
      PROVE  writing'[id] = writing[id]
  BY <1>0, <1>3 DEF PutSet, WriteBack, TypeOK
<1>4. ASSUME NEW other \in Ids, NEW k \in Keys, ReadMetadata(other, k)
      PROVE  writing'[id] = writing[id]
  BY <1>4 DEF ReadMetadata, Rewrite, TypeOK
<1>5. ASSUME NEW other \in Ids, NEW k \in Keys, NEW status \in Updates, NEW code \in Codes,
             ReadStatus(other, k, status, code)
      PROVE  writing'[id] = writing[id]
  BY <1>5 DEF ReadStatus, Rewrite, TypeOK
<1> QED  BY <1>1, <1>2, <1>3, <1>4, <1>5
         DEF Next, vars, Get, GetDelete, ReloadConfig, Evict, Tick

\* The latest value of a record, if there is one.
LEMMA LatestType ==
    ASSUME TypeOK, NEW id \in Ids
    PROVE  /\ Latest(id) \in Record \cup {Absent}
           /\ Latest(id) # Absent => Latest(id) \in Copies(id)
           /\ db[id] # Absent => Latest(id) = db[id].value /\ db[id].value \in Record
BY WritingTypes DEF Latest, Copies, TypeOK, Cell

\* What of the board is about another record than the one a step is about.
OthersStay(id) ==
    \A i \in Ids \ {id} :
        /\ BoardEntry(i)' = BoardEntry(i)
        /\ i \in BoardSpent' <=> i \in BoardSpent

\* A step that is about one record does not touch the others.
LEMMA OthersUntouched ==
    ASSUME NEW id \in Ids, clock' = clock,
           \A i \in Ids \ {id} : /\ db'[i] = db[i] /\ writing'[i] = writing[i]
                                 /\ i \in used' <=> i \in used
    PROVE  OthersStay(id)
<1>1. ASSUME NEW i \in Ids \ {id}
      PROVE  BoardEntry(i)' = BoardEntry(i)
  <2>1. db'[i] = db[i] /\ writing'[i] = writing[i]
    OBVIOUS
  <2>2. Latest(i)' = Latest(i)
    BY <2>1 DEF Latest
  <2> QED  BY <2>2 DEF BoardEntry, Expired
<1> QED  BY <1>1 DEF OthersStay, BoardSpent

\* The ids that are spent, of those that put_received has finished with.
LEMMA SpentUnlessShown ==
    ASSUME NEW id \in used, writing[id].call # "put"
    PROVE  id \in BoardSpent <=> BoardEntry(id) = Absent
BY DEF BoardSpent

\* What an entry may become, other than by put_received.
EntryMoves(id) ==
    \/ BoardEntry(id)' = BoardEntry(id)
    \/ BoardEntry(id) # Absent /\ BoardEntry(id)' = Absent
    \/ /\ BoardEntry(id) # Absent /\ BoardEntry(id)' # Absent
       /\ BoardEntry(id)' = [BoardEntry(id) EXCEPT !.described = TRUE]
    \/ /\ BoardEntry(id) # Absent /\ BoardEntry(id)' # Absent
       /\ BoardEntry(id).status \notin Terminal
       /\ \E status \in Updates, code \in Codes :
             BoardEntry(id)' = Moved(BoardEntry(id), status, code)

\* Nothing on the board changes.
LEMMA BoardSame ==
    ASSUME TypeOK, TypeOK', NEW id \in Ids, OthersStay(id), BoardEntry(id)' = BoardEntry(id),
           id \in BoardSpent' <=> id \in BoardSpent
    PROVE  /\ [i \in Ids |-> BoardEntry(i)]' = [i \in Ids |-> BoardEntry(i)]
           /\ BoardSpent' = BoardSpent
<1>1. BoardSpent \subseteq Ids /\ BoardSpent' \subseteq Ids
  BY DEF BoardSpent, TypeOK
<1>2. \A i \in Ids : BoardEntry(i)' = BoardEntry(i) /\ (i \in BoardSpent' <=> i \in BoardSpent)
  BY DEF OthersStay
<1> QED  BY <1>1, <1>2

\* One entry changes, and the ids that are spent with it.
LEMMA BoardChanges ==
    ASSUME TypeOK, TypeOK', NEW id \in Ids, OthersStay(id)
    PROVE  /\ [i \in Ids |-> BoardEntry(i)]'
                  = [[i \in Ids |-> BoardEntry(i)] EXCEPT ![id] = BoardEntry(id)']
           /\ BoardSpent' \ {id} = BoardSpent \ {id}
<1>1. BoardSpent \subseteq Ids /\ BoardSpent' \subseteq Ids
  BY DEF BoardSpent, TypeOK
<1>2. \A i \in Ids : i # id =>
         BoardEntry(i)' = BoardEntry(i) /\ (i \in BoardSpent' <=> i \in BoardSpent)
  BY DEF OthersStay
<1> QED  BY <1>1, <1>2

\* A step after put_received that answers nobody is one of the board, if the one entry it
\* is about stays, is forgotten, is described or moves.
LEMMA EntryStep ==
    ASSUME TypeOK, TypeOK', NEW id \in Ids, OthersStay(id), EntryMoves(id), answer' = answer,
           id \in used, id \in used', writing[id].call # "put", writing'[id].call # "put"
    PROVE  [Board!LossyNext]_(Board!vars)
<1> DEFINE b == [i \in Ids |-> BoardEntry(i)]
<1>1. /\ id \in BoardSpent <=> BoardEntry(id) = Absent
      /\ id \in BoardSpent' <=> BoardEntry(id)' = Absent
  BY DEF BoardSpent
<1>2. b' = [b EXCEPT ![id] = BoardEntry(id)'] /\ BoardSpent' \ {id} = BoardSpent \ {id}
  BY BoardChanges
<1>3. BoardEntry(id) # Absent => id \in Board!Visible /\ b[id] = BoardEntry(id)
  BY DEF Board!Visible
<1>4. CASE BoardEntry(id)' = BoardEntry(id)
  <2>1. b' = b /\ BoardSpent' = BoardSpent
    BY <1>1, <1>4, BoardSame
  <2> QED  BY <2>1 DEF Board!vars
<1>5. CASE BoardEntry(id) # Absent /\ BoardEntry(id)' = Absent
  <2>1. BoardSpent' = BoardSpent \cup {id}
    BY <1>1, <1>2, <1>5
  <2>2. b' = Board!Without(b, {id})
    BY <1>2, <1>5 DEF Board!Without
  <2>3. Board!Forget
    BY <1>3, <1>5, <2>1, <2>2 DEF Board!Forget
  <2> QED  BY <2>3 DEF Board!LossyNext, Board!Next
<1>6. ASSUME BoardEntry(id) # Absent, BoardEntry(id)' # Absent
      PROVE  /\ BoardSpent' = BoardSpent /\ id \in Board!Visible
             /\ b[id] = BoardEntry(id) /\ b[id].key \in Keys
  <2>1. BoardSpent' = BoardSpent
    BY <1>1, <1>2, <1>6
  <2>2. BoardEntry(id) \in Entry
    BY <1>6, LatestType, MadeIsRecord DEF BoardEntry
  <2> QED  BY <1>3, <1>6, <2>1, <2>2 DEF Entry
<1>7. CASE /\ BoardEntry(id) # Absent /\ BoardEntry(id)' # Absent
           /\ BoardEntry(id)' = [BoardEntry(id) EXCEPT !.described = TRUE]
  <2>1. b' = [b EXCEPT ![id].described = TRUE]
    BY <1>2, <1>6, <1>7
  <2>2. Board!SetRecipientMetadata(id, b[id].key)
    BY <1>6, <1>7, <2>1 DEF Board!SetRecipientMetadata
  <2> QED  BY <1>6, <1>7, <2>2 DEF Board!LossyNext, Board!Next
<1>8. ASSUME BoardEntry(id) # Absent, BoardEntry(id)' # Absent,
             BoardEntry(id).status \notin Terminal,
             NEW status \in Updates, NEW code \in Codes,
             BoardEntry(id)' = Moved(BoardEntry(id), status, code)
      PROVE  [Board!LossyNext]_(Board!vars)
  <2>1. b' = [b EXCEPT ![id].status = status, ![id].code = code]
    BY <1>2, <1>6, <1>8 DEF Moved
  <2>2. Board!UpdateStatus(id, b[id].key, status, code)
    BY <1>6, <1>8, <2>1 DEF Board!UpdateStatus, Board!Terminal, Terminal
  <2> QED  BY <1>6, <1>8, <2>2 DEF Board!LossyNext, Board!Next
<1> QED  BY <1>4, <1>5, <1>7, <1>8 DEF EntryMoves

\* The end of put_received: a fresh entry appears, or the id is spent without one.
LEMMA PutStep ==
    ASSUME TypeOK, TypeOK', NEW id \in Ids, NEW k \in Keys, OthersStay(id), answer' = answer,
           BoardEntry(id) = Absent, id \notin BoardSpent,
           BoardEntry(id)' \in {FreshEntry(k), Absent},
           id \in BoardSpent' <=> BoardEntry(id)' = Absent
    PROVE  [Board!LossyNext]_(Board!vars)
<1> DEFINE b == [i \in Ids |-> BoardEntry(i)]
           lost == IF BoardEntry(id)' = Absent THEN {id} ELSE {}
<1>1. b' = [b EXCEPT ![id] = BoardEntry(id)'] /\ BoardSpent' \ {id} = BoardSpent \ {id}
  BY BoardChanges
<1>2. BoardSpent' = BoardSpent \cup lost
  BY <1>1
<1>3. b' = Board!Without([b EXCEPT ![id] = FreshEntry(k)], lost)
  <2>1. ASSUME NEW i \in Ids
        PROVE  BoardEntry(i)' = IF i \in lost THEN Absent ELSE [b EXCEPT ![id] = FreshEntry(k)][i]
    BY DEF OthersStay
  <2> QED  BY <2>1 DEF Board!Without
<1>4. id \notin BoardSpent \cup Board!Visible /\ lost \in SUBSET (Board!Visible \cup {id})
  BY DEF Board!Visible
<1>5. Board!PutReceived(id, k)
  BY <1>2, <1>3, <1>4 DEF Board!PutReceived, Board!FreshEntry, FreshEntry
<1> QED  BY <1>5 DEF Board!LossyNext, Board!Next

\* Entries with the same fields are the same.
LEMMA EntryEqual ==
    ASSUME NEW e \in Entry, NEW f \in Entry,
           e.key = f.key, e.status = f.status, e.code = f.code, e.described = f.described
    PROVE  e = f
BY DEF Entry

\* The view of a record with its recipients filled in is the view with them filled in.
LEMMA ViewDescribed ==
    ASSUME NEW r \in Record
    PROVE  View([r EXCEPT !.described = TRUE]) = [View(r) EXCEPT !.described = TRUE]
<1> DEFINE q == [r EXCEPT !.described = TRUE]
           old == View(r)
           new == [old EXCEPT !.described = TRUE]
<1>1. /\ q \in Record
      /\ q.key = r.key /\ q.status = r.status /\ q.code = r.code /\ q.described = TRUE
  BY DEF Record
<1>2. /\ old \in Entry
      /\ old.key = r.key /\ old.status = r.status /\ old.code = r.code
  BY MadeIsRecord DEF View
<1> HIDE DEF old
<1>3. /\ new \in Entry
      /\ new.key = old.key /\ new.status = old.status
      /\ new.code = old.code /\ new.described = TRUE
  BY <1>2 DEF Entry
<1> HIDE DEF q, new
<1>4. /\ View(q) \in Entry
      /\ View(q).key = q.key /\ View(q).status = q.status
      /\ View(q).code = q.code /\ View(q).described = q.described
  BY <1>1, MadeIsRecord DEF View
<1>5. View(q) = new
  BY <1>1, <1>2, <1>3, <1>4, EntryEqual
<1> QED BY <1>5 DEF q, new, old

\* The view of a record that has moved is the view moved.
LEMMA ViewUpdated ==
    ASSUME NEW r \in Record, NEW status \in Updates, NEW code \in Codes
    PROVE  View(Moved(r, status, code))
              = Moved(View(r), status, code)
<1> DEFINE q == Moved(r, status, code)
           old == View(r)
           new == Moved(old, status, code)
<1>0. status \in Statuses
  BY VocabularyAssumption
<1>1. /\ q \in Record
      /\ q.key = r.key /\ q.status = status /\ q.code = code
      /\ q.described = r.described
  BY <1>0 DEF Record, Moved
<1>2. old \in Entry /\ old.key = r.key /\ old.described = r.described
  BY MadeIsRecord DEF View
<1> HIDE DEF old
<1>3. /\ new \in Entry
      /\ new.key = old.key /\ new.described = old.described
      /\ new.status = status /\ new.code = code
  BY <1>0, <1>2 DEF Entry, Moved
<1> HIDE DEF q, new
<1>4. /\ View(q) \in Entry
      /\ View(q).key = q.key /\ View(q).status = q.status
      /\ View(q).code = q.code /\ View(q).described = q.described
  BY <1>1, MadeIsRecord DEF View
<1>5. View(q) = new
  BY <1>1, <1>2, <1>3, <1>4, EntryEqual
<1> QED BY <1>5 DEF q, new, old

\* What a rewrite does to the entry: it may be described or moved, or is not shown.
LEMMA RewriteMoves ==
    ASSUME TypeOK, TypeOK', clock' = clock, NEW id \in Ids,
           NEW r \in Record, NEW q \in Record, Rewrites(r, q),
           Latest(id) = r, Latest(id)' = q
    PROVE  EntryMoves(id)
<1>1. r # Absent /\ q # Absent /\ q.expires = r.expires
  BY RedisAssumption, RewriteUpdates DEF UpdateOf
<1>2. View(r) # Absent /\ View(q) # Absent
  BY MadeIsRecord, VocabularyAssumption
<1>3. CASE Expired(r)
  <2>1. BoardEntry(id) = Absent /\ BoardEntry(id)' = Absent
    BY <1>1, <1>3 DEF BoardEntry, Expired
  <2> QED  BY <2>1 DEF EntryMoves
<1>4. CASE ~Expired(r)
  <2>1. BoardEntry(id) = View(r) /\ BoardEntry(id)' = View(q)
    BY <1>1, <1>4 DEF BoardEntry, Expired
  <2>2. CASE q = [r EXCEPT !.described = TRUE]
    BY <1>2, <2>1, <2>2, ViewDescribed DEF EntryMoves
  <2>3. ASSUME r.status \notin Terminal, NEW status \in Updates, NEW code \in Codes,
               q = Moved(r, status, code)
        PROVE  EntryMoves(id)
    <3>1. View(q) = Moved(View(r), status, code)
      BY <2>3, ViewUpdated
    <3>2. View(r).status = r.status
      BY DEF View
    <3> QED  BY <1>2, <2>1, <2>3, <3>1, <3>2 DEF EntryMoves
  <2> QED  BY <2>2, <2>3 DEF Rewrites
<1> QED  BY <1>3, <1>4

\* put_received begins: nothing is seen of it, unless it has failed already.
LEMMA PutImplements ==
    ASSUME IInv, IInv', NEW id \in Ids, NEW k \in Keys, Put(id, k)
    PROVE  [Board!LossyNext]_(Board!vars)
<1>1. TypeOK /\ TypeOK' /\ PutFirst
  BY DEF IInv
<1>2. /\ id \notin used /\ used' = used \cup {id}
      /\ db' = db /\ clock' = clock /\ answer' = answer
  BY DEF Put
<1>3. writing[id] = Idle /\ db[id] = Absent /\ Idle.call = "none"
  BY <1>1, <1>2 DEF PutFirst, Idle
<1>4. BoardEntry(id) = Absent /\ id \notin BoardSpent
  BY <1>2, <1>3 DEF BoardEntry, Latest, BoardSpent
<1>5. \A i \in Ids \ {id} : writing'[i] = writing[i]
  BY <1>1 DEF Put, TypeOK
<1>6. OthersStay(id)
  BY <1>2, <1>5, OthersUntouched
<1>7. CASE writing'[id].call = "put"
  <2>1. BoardEntry(id)' = Absent /\ id \notin BoardSpent'
    BY <1>2, <1>3, <1>7 DEF BoardEntry, Latest, BoardSpent
  <2> QED  BY <1>1, <1>2, <1>4, <1>6, <2>1, BoardSame DEF Board!vars
<1>8. CASE writing' = writing
  <2>1. BoardEntry(id)' = Absent /\ id \in BoardSpent'
    BY <1>2, <1>3, <1>8 DEF BoardEntry, Latest, BoardSpent
  <2> QED  BY <1>1, <1>2, <1>4, <1>6, <2>1, PutStep
<1> QED  BY <1>1, <1>7, <1>8 DEF Put, TypeOK

\* put_received ends with a record under the key, or without.
LEMMA PutSetImplements ==
    ASSUME IInv, IInv', PutsFresh, NEW id \in Ids, PutSet(id)
    PROVE  [Board!LossyNext]_(Board!vars)
<1>1. TypeOK /\ TypeOK' /\ PutFirst
  BY DEF IInv
<1>2. /\ writing[id].call = "put" /\ writing'[id] = Idle /\ Idle.call = "none"
      /\ used' = used /\ clock' = clock /\ answer' = answer
      /\ \A i \in Ids \ {id} : writing'[i] = writing[i] /\ db'[i] = db[i]
  BY <1>1 DEF PutSet, SetEx, TypeOK, Idle
<1>3. id \in used /\ db[id] = Absent
  BY <1>1, <1>2 DEF PutFirst
<1>4. BoardEntry(id) = Absent /\ id \notin BoardSpent
  BY <1>2, <1>3 DEF BoardEntry, Latest, BoardSpent
<1>5. PICK k \in Keys : View(writing[id].value) = FreshEntry(k)
  BY <1>2 DEF PutsFresh
<1>6. BoardEntry(id)' \in {FreshEntry(k), Absent}
  <2>1. db'[id] = Absent \/ db'[id].value = writing[id].value
    BY <1>1, <1>3 DEF PutSet, SetEx, TypeOK
  <2> QED  BY <1>2, <1>5, <2>1 DEF BoardEntry, Latest
<1>7. id \in BoardSpent' <=> BoardEntry(id)' = Absent
  BY <1>2, <1>3 DEF BoardSpent
<1>8. OthersStay(id)
  BY <1>2, OthersUntouched
<1> QED  BY <1>1, <1>2, <1>4, <1>6, <1>7, <1>8, PutStep

\* The GET of an update is not seen on the board.
LEMMA ReadImplements ==
    ASSUME IInv, IInv', NEW id \in Ids, NEW k \in Keys,
           \/ ReadMetadata(id, k)
           \/ \E status \in Updates, code \in Codes : ReadStatus(id, k, status, code)
    PROVE  [Board!LossyNext]_(Board!vars)
<1>1. TypeOK /\ TypeOK' /\ PutFirst
  BY DEF IInv
<1>2. /\ id \in used /\ used' = used /\ db' = db /\ clock' = clock /\ answer' = answer
      /\ writing[id] = Idle
  BY DEF ReadMetadata, ReadStatus
<1>3. /\ \A i \in Ids \ {id} : writing'[i] = writing[i]
      /\ \/ writing'[id] = writing[id]
         \/ db[id] # Absent /\ writing'[id].call = "rewrite"
  <2>1. CASE ReadMetadata(id, k)
    BY <1>1, <2>1 DEF ReadMetadata, Rewrite, Readable, Present, TypeOK
  <2>2. ASSUME NEW status \in Updates, NEW code \in Codes, ReadStatus(id, k, status, code)
        PROVE  /\ \A i \in Ids \ {id} : writing'[i] = writing[i]
               /\ \/ writing'[id] = writing[id]
                  \/ db[id] # Absent /\ writing'[id].call = "rewrite"
    <3>1. writing' # writing =>
             MayUpdate(id, k) /\ \E q : writing' = [writing EXCEPT ![id] =
                                               [call |-> "rewrite", read |-> clock, value |-> q]]
      BY <2>2 DEF ReadStatus, Rewrite
    <3>2. MayUpdate(id, k) => db[id] # Absent
      BY DEF MayUpdate, Readable, Present
    <3> QED  BY <1>1, <3>1, <3>2 DEF TypeOK
  <2> QED  BY <2>1, <2>2
<1>4. BoardEntry(id)' = BoardEntry(id)
  BY <1>2, <1>3 DEF BoardEntry, Latest, Expired
<1>5. writing[id].call # "put" /\ writing'[id].call # "put"
  BY <1>2, <1>3 DEF Idle
<1>6. OthersStay(id)
  BY <1>2, <1>3, OthersUntouched
<1> QED  BY <1>1, <1>2, <1>4, <1>5, <1>6, EntryStep DEF EntryMoves

\* The SETEX of an update changes the entry, or the record that Redis had dropped is
\* dropped for good.
LEMMA WriteBackImplements ==
    ASSUME IInv, IInv', NEW id \in Ids, WriteBack(id)
    PROVE  [Board!LossyNext]_(Board!vars)
<1>1. TypeOK /\ TypeOK' /\ PutFirst /\ RewriteFollows
  BY DEF IInv
<1>2. /\ writing[id].call = "rewrite" /\ writing'[id] = Idle /\ Idle.call = "none"
      /\ used' = used /\ clock' = clock /\ answer' = answer
      /\ \A i \in Ids \ {id} : writing'[i] = writing[i] /\ db'[i] = db[i]
  BY <1>1 DEF WriteBack, SetEx, TypeOK, Idle
<1> DEFINE q == writing[id].value
<1>3. id \in used /\ q \in Record
  BY <1>1, <1>2, WritingTypes DEF PutFirst
<1>4. EntryMoves(id)
  <2>1. CASE db'[id] # Absent /\ db'[id].value = q
    <3>1. Latest(id)' = q
      BY <2>1 DEF Latest
    <3>2. CASE db[id] = Absent
      <4>1. Latest(id) = q
        BY <1>2, <3>2 DEF Latest
      <4> QED  BY <1>2, <3>1, <4>1 DEF EntryMoves, BoardEntry, Expired
    <3>3. CASE db[id] # Absent
      <4>1. Latest(id) = db[id].value /\ db[id].value \in Record
        BY <1>1, <3>3, LatestType
      <4>2. Rewrites(db[id].value, q)
        BY <1>1, <1>2, <3>3 DEF RewriteFollows
      <4> QED  BY <1>1, <1>2, <1>3, <3>1, <4>1, <4>2, RewriteMoves
    <3> QED  BY <3>2, <3>3
  <2>2. CASE db'[id] = db[id]
    <3>1. CASE db[id] # Absent
      BY <1>2, <2>2, <3>1 DEF EntryMoves, BoardEntry, Latest, Expired
    <3>2. CASE db[id] = Absent
      BY <1>2, <2>2, <3>2 DEF EntryMoves, BoardEntry, Latest
    <3> QED  BY <3>1, <3>2
  <2>3. ASSUME NEW now \in writing[id].read .. clock, SetEx(id, q, Remaining(q, now))
        PROVE  db'[id] # Absent /\ db'[id].value = q
    <3>1. db' \in [Ids -> Cell \cup {Absent}] /\ db \in [Ids -> Cell \cup {Absent}]
      BY <1>1 DEF TypeOK
    <3>2. now \in Nat /\ clock \in Nat
      BY <1>1, <1>2, WritingTypes DEF TypeOK
    <3>3. clock + Remaining(q, now) * Second \in Nat
      BY <1>3, <3>2, RemainingPositive, RedisAssumption
    <3>4. [value |-> q, dies |-> clock + Remaining(q, now) * Second] # Absent
      BY <1>3, <3>3, RedisAssumption DEF Cell
    <3> QED  BY <2>3, <3>1, <3>4 DEF SetEx
  <2> QED  BY <2>1, <2>2, <2>3 DEF WriteBack
<1>5. OthersStay(id)
  BY <1>2, OthersUntouched
<1> QED  BY <1>1, <1>2, <1>3, <1>4, <1>5, EntryStep

\* A key that is dropped: the entry is forgotten, unless a rewrite holds a copy.
LEMMA EvictImplements ==
    ASSUME IInv, IInv', NEW id \in Ids, Evict(id)
    PROVE  [Board!LossyNext]_(Board!vars)
<1>1. TypeOK /\ TypeOK' /\ PutFirst /\ RewriteFollows
  BY DEF IInv
<1>2. /\ db[id] # Absent /\ db'[id] = Absent
      /\ UNCHANGED <<used, writing, clock, answer>>
      /\ \A i \in Ids \ {id} : db'[i] = db[i]
  BY <1>1 DEF Evict, TypeOK
<1>3. id \in used /\ writing[id].call # "put"
  BY <1>1, <1>2 DEF PutFirst
<1>4. EntryMoves(id)
  <2>1. Latest(id) = db[id].value /\ db[id].value \in Record
    BY <1>1, <1>2, LatestType
  <2>2. CASE writing[id].call = "rewrite"
    <3>1. Latest(id)' = writing[id].value /\ writing[id].value \in Record
      BY <1>1, <1>2, <2>2, WritingTypes DEF Latest
    <3>2. Rewrites(db[id].value, writing[id].value)
      BY <1>1, <1>2, <2>2 DEF RewriteFollows
    <3> QED  BY <1>1, <1>2, <2>1, <3>1, <3>2, RewriteMoves
  <2>3. CASE writing[id].call # "rewrite"
    <3>1. BoardEntry(id)' = Absent
      BY <1>2, <2>3 DEF BoardEntry, Latest
    <3> QED  BY <3>1 DEF EntryMoves
  <2> QED  BY <2>2, <2>3
<1>5. OthersStay(id)
  BY <1>2, OthersUntouched
<1> QED  BY <1>1, <1>2, <1>3, <1>4, <1>5, EntryStep

\* A step that leaves records and clock alone leaves the board alone.
LEMMA BoardUnseen ==
    ASSUME UNCHANGED <<db, used, writing, clock>>
    PROVE  /\ [i \in Ids |-> BoardEntry(i)]' = [i \in Ids |-> BoardEntry(i)]
           /\ BoardSpent' = BoardSpent
BY DEF BoardEntry, BoardSpent, Latest, Expired

\* A lookup that has not found anything.
LEMMA AnswerMisses ==
    ASSUME NEW c \in Clients, NEW id \in Ids, Answer(c, id, Absent),
           [i \in Ids |-> BoardEntry(i)]' = [i \in Ids |-> BoardEntry(i)],
           BoardSpent' = BoardSpent
    PROVE  [Board!LossyNext]_(Board!vars)
<1> DEFINE b == [i \in Ids |-> BoardEntry(i)]
<1>1. b = Board!Without(b, {}) /\ BoardSpent = BoardSpent \cup {}
  BY DEF Board!Without
<1>2. {} \in SUBSET (Board!Visible \cap {id})
  OBVIOUS
<1>3. b' = Board!Without(b, {}) /\ BoardSpent' = BoardSpent \cup {}
  BY <1>1
<1>4. Board!Miss(c, id)
  BY <1>2, <1>3 DEF Board!Miss, Answer
<1> QED  BY <1>4 DEF Board!LossyNext

\* The GET of a lookup answers with the entry or misses it, or the lookup goes on.
LEMMA GetImplements ==
    ASSUME IInv, NEW id \in Ids, NEW k \in Keys, NEW c \in Clients, Get(c, id, k)
    PROVE  [Board!LossyNext]_(Board!vars)
<1>1. UNCHANGED <<db, used, writing, clock>>
  BY DEF Get
<1>2. CASE answer' = answer
  BY <1>1, <1>2, BoardUnseen DEF Board!vars
<1>3. CASE Answer(c, id, Absent)
  BY <1>1, <1>3, BoardUnseen, AnswerMisses
<1>4. CASE Readable(id, k) /\ Answer(c, id, View(db[id].value))
  <2> DEFINE b == [i \in Ids |-> BoardEntry(i)]
  <2>1. db[id].value \in Record /\ Latest(id) = db[id].value /\ db[id].value.key = k
    BY <1>4, LatestType DEF IInv, Readable, Present
  <2>2. b[id] = View(db[id].value) /\ b[id] # Absent
    <3>1. View(db[id].value) # Absent /\ db[id].value # Absent
      BY <2>1, MadeIsRecord, VocabularyAssumption, RedisAssumption
    <3> QED  BY <1>4, <2>1, <3>1 DEF BoardEntry, Readable
  <2>3. id \in Board!Visible /\ b[id].key = k
    BY <2>1, <2>2 DEF Board!Visible, View
  <2>4. answer' = [answer EXCEPT ![c] = [id |-> id, found |-> b[id]]]
    BY <1>4, <2>2 DEF Answer
  <2>5. Board!Get(c, id, k)
    BY <1>1, <2>3, <2>4, BoardUnseen DEF Board!Get
  <2> QED  BY <2>5 DEF Board!LossyNext, Board!Next
<1> QED  BY <1>2, <1>3, <1>4 DEF Get

\* The DEL of a lookup is not seen on the board: its record has expired.
LEMMA DeleteImplements ==
    ASSUME IInv, IInv', NEW c \in Clients, NEW id \in Ids, deleting[c] = id, GetDelete(c)
    PROVE  [Board!LossyNext]_(Board!vars)
<1>1. TypeOK /\ TypeOK'
  BY DEF IInv
<1>2. /\ UNCHANGED <<used, writing, clock>> /\ Answer(c, id, Absent)
      /\ db'[id] \in {db[id], Absent}
      /\ \A i \in Ids \ {id} : db'[i] = db[i]
  BY <1>1 DEF GetDelete, TypeOK
<1>3. /\ id \in used /\ writing[id].call # "put"
      /\ \A r \in Copies(id) : Expired(r)
  BY DEF IInv, DeletesTheDead
<1>4. BoardEntry(id) = Absent /\ BoardEntry(id)' = Absent
  <2>1. BoardEntry(id) = Absent
    BY <1>1, <1>3, LatestType DEF BoardEntry
  <2>2. Latest(id)' \in Copies(id) \cup {Absent}
    BY <1>2 DEF Latest, Copies
  <2>3. Latest(id)' # Absent => Expired(Latest(id))'
    BY <1>2, <1>3, <2>2 DEF Expired
  <2> QED  BY <2>1, <2>3 DEF BoardEntry
<1>5. id \in BoardSpent /\ id \in BoardSpent'
  BY <1>2, <1>3, <1>4 DEF BoardSpent
<1>6. OthersStay(id)
  BY <1>1, <1>2, OthersUntouched
<1> QED  BY <1>1, <1>2, <1>4, <1>5, <1>6, BoardSame, AnswerMisses

\* Time passes: entries whose lifetime ends are forgotten.
LEMMA TickImplements ==
    ASSUME IInv, IInv', Tick
    PROVE  [Board!LossyNext]_(Board!vars)
<1> DEFINE b == [i \in Ids |-> BoardEntry(i)]
           lost == {i \in Ids : BoardEntry(i) # Absent /\ BoardEntry(i)' = Absent}
<1>1. TypeOK /\ TypeOK' /\ PutFirst
  BY DEF IInv
<1>2. UNCHANGED <<db, used, writing, answer>> /\ clock' = clock + 1 /\ clock \in Nat
  BY <1>1 DEF Tick, TypeOK
<1>3. ASSUME NEW i \in Ids
      PROVE  BoardEntry(i)' = BoardEntry(i) \/ BoardEntry(i)' = Absent
  <2>1. Latest(i)' = Latest(i)
    BY <1>2 DEF Latest
  <2>2. Latest(i) # Absent /\ Expired(Latest(i)) => Expired(Latest(i))'
    <3>1. Latest(i) # Absent => Latest(i).expires \in Nat
      BY <1>1, LatestType DEF Record
    <3> QED  BY <1>2, <2>1, <3>1 DEF Expired
  <2> QED  BY <2>1, <2>2 DEF BoardEntry
<1>4. ASSUME NEW i \in lost
      PROVE  i \in used /\ writing[i].call # "put"
  <2>1. db[i] # Absent \/ writing[i].call = "rewrite"
    BY <1>4 DEF BoardEntry, Latest
  <2> QED  BY <1>1, <1>4, <2>1 DEF PutFirst, Idle
<1>5. BoardSpent' = BoardSpent \cup lost
  <2>1. BoardSpent' = {i \in used : writing[i].call # "put" /\ BoardEntry(i)' = Absent}
    BY <1>2 DEF BoardSpent
  <2>2. used \subseteq Ids
    BY <1>1 DEF TypeOK
  <2> HIDE DEF lost
  <2>3. \A i \in Ids : i \in lost <=> BoardEntry(i) # Absent /\ BoardEntry(i)' = Absent
    BY DEF lost
  <2>4. lost \subseteq Ids
    BY DEF lost
  <2> QED  BY <1>3, <1>4, <2>1, <2>2, <2>3, <2>4 DEF BoardSpent
<1>6. b' = Board!Without(b, lost)
  BY <1>3 DEF Board!Without
<1>7. CASE lost = {}
  <2>1. b' = b /\ BoardSpent' = BoardSpent
    BY <1>5, <1>6, <1>7 DEF Board!Without
  <2> QED  BY <1>2, <2>1 DEF Board!vars
<1>8. CASE lost # {}
  <2>1. lost \in (SUBSET Board!Visible) \ {{}}
    BY <1>8 DEF Board!Visible
  <2>2. Board!Forget
    BY <1>2, <1>5, <1>6, <2>1 DEF Board!Forget
  <2> QED  BY <2>2 DEF Board!LossyNext, Board!Next
<1> QED  BY <1>7, <1>8

\* The Redis store implements the contract of the StatusStore trait, lookups that miss
\* included, whatever is dropped, lost or interleaved.
THEOREM Refinement == Spec => ImplementsBoard
<1>1. Init => Board!Init
  BY DEF Init, Board!Init, BoardEntry, BoardSpent, Latest, Idle
<1>2. Init => PutsFresh
  BY DEF Init, PutsFresh, Idle
<1>3. IInv => TypeOK
  BY DEF IInv
<1>4. IInv /\ IInv' /\ PutsFresh /\ [Next]_vars => [Board!LossyNext]_(Board!vars)
  <2> SUFFICES ASSUME IInv, IInv', PutsFresh, [Next]_vars
               PROVE  [Board!LossyNext]_(Board!vars)
    OBVIOUS
  <2>1. CASE UNCHANGED <<db, used, writing, clock, answer>>
    BY <2>1, BoardUnseen DEF Board!vars
  <2>2. (\E ttl \in Ttls : ReloadConfig(ttl)) \/ UNCHANGED vars
           => UNCHANGED <<db, used, writing, clock, answer>>
    BY DEF ReloadConfig, vars
  <2>3. ASSUME NEW c \in Clients, GetDelete(c)
        PROVE  [Board!LossyNext]_(Board!vars)
    <3>1. PICK id \in Ids : deleting[c] = id
      BY <1>3, <2>3 DEF GetDelete, TypeOK
    <3> QED  BY <2>3, <3>1, DeleteImplements
  <2> QED  BY <2>1, <2>2, <2>3, PutImplements, PutSetImplements, ReadImplements,
              WriteBackImplements, EvictImplements, GetImplements, TickImplements
           DEF Next
<1> QED  BY <1>1, <1>2, <1>3, <1>4, PutsFreshKept, Invariant, PTL
         DEF Spec, ImplementsBoard, Board!LossySpec
=============================================================================
