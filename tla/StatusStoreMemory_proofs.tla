----------------------- MODULE StatusStoreMemory_proofs -----------------------
(***************************************************************************)
(* Proofs about the in-memory status store, for any number of ids, keys,   *)
(* clients and configurations.                                             *)
(***************************************************************************)
EXTENDS StatusStoreMemory, FiniteSetTheorems, TLAPS

-----------------------------------------------------------------------------
(* Facts about the map. *)

\* Every set of stored ids is finite, so its Cardinality is a number.
LEMMA StoredFinite ==
    ASSUME NEW S, S \subseteq Ids
    PROVE  IsFiniteSet(S) /\ Cardinality(S) \in Nat
BY StoreAssumption, FS_Subset, FS_CardinalityType

\* A record made by new_received is a record.
LEMMA NewReceivedType ==
    ASSUME NEW k \in Keys, NEW created \in Nat, NEW ttl \in Ttls
    PROVE  NewReceived(k, created, ttl) \in Record
BY StoreAssumption, VocabularyAssumption DEF NewReceived, Record, Statuses

\* The client's view of a record is an entry, never Absent.
LEMMA ViewType ==
    ASSUME NEW r \in Record
    PROVE  View(r) \in Entry
BY DEF View, Record, Entry

\* Removing records keeps the map well typed.
LEMMA RemovedType ==
    ASSUME TypeOK, NEW ids
    PROVE  Removed(ids) \in [Ids -> Record \cup {Absent}]
BY DEF TypeOK, Removed

\* An update rewrites two fields of a record and leaves it a record.
LEMMA UpdateType ==
    ASSUME TypeOK, NEW id \in Ids, NEW k \in Keys, MayUpdate(id, k),
           NEW status \in Updates, NEW code \in Codes
    PROVE  LET after == [records EXCEPT ![id].status = status, ![id].code = code]
           IN  after \in [Ids -> Record \cup {Absent}] /\ after[id] \in Record
<1>1. records[id] \in Record
  BY DEF MayUpdate, LiveFor, Stored, TypeOK
<1>2. status \in Statuses
  BY VocabularyAssumption
<1>3. [[records[id] EXCEPT !.status = status] EXCEPT !.code = code] \in Record
  BY <1>1, <1>2 DEF Record
<1> QED BY <1>3 DEF TypeOK

\* Each victim set is empty or one stored id.
LEMMA VictimsType ==
    ASSUME NEW victims \in Victims
    PROVE  victims \subseteq Stored
BY DEF Victims, Oldest

-----------------------------------------------------------------------------
(* Type correctness. *)

\* The store's state is well typed in every behaviour.
THEOREM TypeCorrect == Spec => []TypeOK
<1>1. Init => TypeOK
  BY StoreAssumption DEF Init, TypeOK, NotSweeping
<1>2. TypeOK /\ [Next]_vars => TypeOK'
  <2> SUFFICES ASSUME TypeOK, [Next]_vars PROVE TypeOK'
    OBVIOUS
  <2>1. ASSUME NEW id \in Ids, NEW k \in Keys, PutFresh(id, k) PROVE TypeOK'
    <3>1. PICK lag \in 0 .. MaxLag, ttl \in Ttls :
             lag <= clock /\ PutReceived(id, k, clock - lag, ttl)
      BY <2>1 DEF PutFresh
    <3>2. clock - lag \in Nat
      BY <3>1, StoreAssumption DEF TypeOK
    <3>3. CASE id \in Stored
      BY <3>1, <3>3 DEF PutReceived, TypeOK, mapVars, getVars, countVars
    <3>4. CASE id \notin Stored
      <4>1. PICK victims \in Victims :
               /\ records' = [Removed(victims) EXCEPT
                                ![id] = NewReceived(k, clock - lag, ttl)]
               /\ gone' = gone \cup victims
        BY <3>1, <3>4 DEF PutReceived
      <4>2. records' \in [Ids -> Record \cup {Absent}]
        BY <4>1, <3>2, RemovedType, NewReceivedType
      <4>3. gone' \subseteq Ids
        BY <4>1, VictimsType DEF TypeOK, Stored
      <4>4. gauge' \in Int
        BY <3>1, <3>4 DEF PutReceived, TypeOK
      <4> QED
        BY <3>1, <4>2, <4>3, <4>4 DEF PutReceived, TypeOK, getVars, countVars
    <3> QED BY <3>3, <3>4
  <2>2. ASSUME NEW id \in Ids, NEW k \in Keys, SetRecipientMetadata(id, k)
        PROVE  TypeOK'
    BY <2>2 DEF SetRecipientMetadata, LiveFor, Stored, TypeOK, Record, counters, getVars, countVars
  <2>3. ASSUME NEW id \in Ids, NEW k \in Keys, NEW status \in Updates,
               NEW code \in Codes, UpdateStatus(id, k, status, code)
        PROVE  TypeOK'
    <3>1. records' \in [Ids -> Record \cup {Absent}]
      BY <2>3, UpdateType DEF UpdateStatus, TypeOK
    <3> QED BY <2>3, <3>1 DEF UpdateStatus, TypeOK, counters, getVars, countVars
  <2>4. ASSUME NEW id \in Ids, NEW k \in Keys, NEW c \in Clients, GetRead(c, id, k)
        PROVE  TypeOK'
    <3>1. upgrading' \in [Clients -> Ids \cup {Absent}]
      BY <2>4 DEF GetRead, TypeOK
    <3>2. answer' \in [Clients -> Answers \cup {Absent}]
      <4>1. CASE id \in Stored /\ records[id].key = k /\ Expired(id)
        BY <2>4, <4>1 DEF GetRead, TypeOK
      <4>2. CASE id \in Stored /\ records[id].key = k /\ ~Expired(id)
        <5>1. View(records[id]) \in Entry
          BY <4>2, ViewType DEF TypeOK, Stored
        <5>2. Answer(c, id, View(records[id]))
          BY <2>4, <4>2 DEF GetRead
        <5> QED BY <5>1, <5>2 DEF Answer, Answers, TypeOK
      <4>3. CASE id \in Stored => records[id].key # k
        <5>1. Answer(c, id, Absent)
          BY <2>4, <4>3 DEF GetRead
        <5> QED BY <5>1 DEF Answer, Answers, TypeOK
      <4> QED BY <4>1, <4>2, <4>3
    <3> QED BY <2>4, <3>1, <3>2 DEF GetRead, TypeOK, mapVars, counters, countVars
  <2>5. ASSUME NEW c \in Clients, GetExpire(c) PROVE TypeOK'
    <3>1. upgrading[c] \in Ids
      BY <2>5 DEF GetExpire, TypeOK
    <3>2. records' \in [Ids -> Record \cup {Absent}]
      BY <2>5, RemovedType DEF GetExpire, mapVars, TypeOK
    <3>3. answer' \in [Clients -> Answers \cup {Absent}]
      BY <2>5, <3>1 DEF GetExpire, Answer, Answers, TypeOK
    <3>4. gone' \subseteq Ids
      BY <2>5, <3>1 DEF GetExpire, mapVars, TypeOK
    <3>5. gauge' \in Int /\ expiredTotal' \in Nat
      BY <2>5 DEF GetExpire, counters, TypeOK
    <3>6. upgrading' \in [Clients -> Ids \cup {Absent}]
      BY <2>5 DEF GetExpire, TypeOK
    <3> QED BY <2>5, <3>2, <3>3, <3>4, <3>5, <3>6 DEF GetExpire, TypeOK, countVars
  <2>6. ASSUME SweepBegin PROVE TypeOK'
    BY <2>6 DEF SweepBegin, TypeOK, mapVars, counters, getVars, countVars
  <2>7. ASSUME SweepEnd PROVE TypeOK'
    <3>1. SweepExpired \subseteq Ids /\ Cardinality(SweepExpired) \in Nat
      BY StoredFinite DEF SweepExpired, Stored
    <3>2. PICK evicted \in SweepEvictions(Stored \ SweepExpired) :
             /\ records' = Removed(SweepExpired \cup evicted)
             /\ gone' = gone \cup SweepExpired \cup evicted
      BY <2>7 DEF SweepEnd
    <3>3. evicted \subseteq Ids
      BY <3>2 DEF SweepEvictions, Stored
    <3> QED BY <2>7, <3>1, <3>2, <3>3, RemovedType
            DEF SweepEnd, TypeOK, NotSweeping, getVars, countVars
  <2>8. ASSUME NEW c \in Counters, CountRead(c) \/ SetCurrent(c) PROVE TypeOK'
    <3>1. /\ Cardinality(Stored) \in Nat /\ Cardinality(gone) \in Nat
          /\ counting[c] # Absent => counting[c].len \in Nat /\ counting[c].gone \in Nat
      BY StoredFinite DEF TypeOK, Stored, Lengths
    <3>2. CASE CountRead(c)
      BY <3>1, <3>2
      DEF CountRead, TypeOK, Lengths, mapVars, counters, getVars
    <3>3. CASE SetCurrent(c)
      BY <3>1, <3>3 DEF SetCurrent, TypeOK, mapVars, getVars
    <3> QED BY <2>8, <3>2, <3>3
  <2>9. ASSUME NEW cap \in Caps, ReloadConfig(cap) PROVE TypeOK'
    BY <2>9 DEF ReloadConfig, TypeOK, mapVars, counters, getVars, countVars
  <2>10. ASSUME Tick PROVE TypeOK'
    BY <2>10 DEF Tick, TypeOK, mapVars, counters, getVars, countVars
  <2>11. CASE UNCHANGED vars
    BY <2>11 DEF vars, TypeOK
  <2> QED
    BY <2>1, <2>2, <2>3, <2>4, <2>5, <2>6, <2>7, <2>8, <2>9, <2>10, <2>11 DEF Next
<1> QED BY <1>1, <1>2, PTL DEF Spec

-----------------------------------------------------------------------------
(* What a step may do to the map. *)

\* Removing ids from the map removes exactly them from the stored set.
LEMMA StoredAfterRemoval ==
    ASSUME NEW ids, records' = Removed(ids)
    PROVE  /\ Stored' = Stored \ ids
           /\ \A id \in Stored' : records'[id] = records[id]
BY DEF Stored, Removed

\* Inserting an id after an eviction: only the victims leave.
LEMMA StoredAfterPut ==
    ASSUME TypeOK, NEW victims, NEW id \in Ids \ Stored, NEW r \in Record,
           records' = [Removed(victims) EXCEPT ![id] = r],
           victims \subseteq Stored
    PROVE  /\ Stored' = (Stored \ victims) \cup {id}
           /\ \A other \in Stored \cap Stored' : records'[other] = records[other]
BY StoreAssumption DEF Stored, Removed, TypeOK

\* The fields of a record that no step may change while it is in the map.
Frozen(r, s) ==
    /\ r.key = s.key /\ r.created = s.created /\ r.expires = s.expires
    /\ r.status \in Terminal => r.status = s.status /\ r.code = s.code

\* The shape every step has: what leaves the map is gone for good, what stays
\* keeps its owner, its age, its expiry and its outcome, and time moves on.
MapStep ==
    /\ gone' = gone \cup (Stored \ Stored')
    /\ \A id \in Stored \cap Stored' : Frozen(records[id], records'[id])
    /\ clock <= clock'

\* put_received.
LEMMA PutStep ==
    ASSUME TypeOK, NEW id \in Ids, NEW k \in Keys, PutFresh(id, k)
    PROVE  /\ MapStep
           /\ \/ Stored' = Stored /\ gauge' = gauge
              \/ \E victims \in SUBSET Stored :
                    /\ id \notin Stored
                    /\ Stored' = (Stored \ victims) \cup {id}
                    /\ gauge' = gauge + 1
<1>1. PICK lag \in 0 .. MaxLag, ttl \in Ttls :
         lag <= clock /\ PutReceived(id, k, clock - lag, ttl)
  BY DEF PutFresh
<1>2. clock' = clock
  BY <1>1 DEF PutReceived
<1>3. CASE id \in Stored
  <2>1. records' = records /\ gone' = gone /\ gauge' = gauge
    BY <1>1, <1>3 DEF PutReceived, mapVars
  <2> QED BY <1>2, <2>1 DEF MapStep, Stored, Frozen, TypeOK
<1>4. CASE id \notin Stored
  <2>1. PICK victims \in Victims :
           /\ records' = [Removed(victims) EXCEPT
                            ![id] = NewReceived(k, clock - lag, ttl)]
           /\ gone' = gone \cup victims
    BY <1>1, <1>4 DEF PutReceived
  <2>2. NewReceived(k, clock - lag, ttl) \in Record
    BY <1>1, NewReceivedType, StoreAssumption DEF TypeOK
  <2>3. victims \subseteq Stored
    BY VictimsType
  <2>4. /\ Stored' = (Stored \ victims) \cup {id}
        /\ \A other \in Stored \cap Stored' : records'[other] = records[other]
    BY <1>4, <2>1, <2>2, <2>3, StoredAfterPut
  <2>5. gone' = gone \cup (Stored \ Stored')
    BY <1>4, <2>1, <2>3, <2>4
  <2>6. gauge' = gauge + 1
    BY <1>1, <1>4 DEF PutReceived
  <2>7. MapStep
    BY <1>2, <2>4, <2>5 DEF MapStep, Frozen, TypeOK
  <2> QED BY <1>4, <2>3, <2>4, <2>6, <2>7
<1> QED BY <1>3, <1>4

\* set_recipient_metadata and update_status change no key of the map.
LEMMA UpdateStep ==
    ASSUME TypeOK, NEW id \in Ids, NEW k \in Keys,
           \/ SetRecipientMetadata(id, k)
           \/ \E status \in Updates, code \in Codes : UpdateStatus(id, k, status, code)
    PROVE  MapStep /\ Stored' = Stored
<1>1. CASE SetRecipientMetadata(id, k)
  <2>1. CASE LiveFor(id, k)
    <3>1. records[id] \in Record /\ records' = [records EXCEPT ![id].described = TRUE]
      BY <1>1, <2>1 DEF SetRecipientMetadata, LiveFor, Stored, TypeOK
    <3>2. [records[id] EXCEPT !.described = TRUE] \in Record
      BY <3>1 DEF Record
    <3>3. Stored' = Stored
      BY <3>1, <3>2, StoreAssumption DEF Stored, TypeOK
    <3>4. \A other \in Ids : other # id => records'[other] = records[other]
      BY <3>1 DEF TypeOK
    <3>5. Frozen(records[id], records'[id])
      BY <3>1 DEF Frozen, Record, TypeOK
    <3>6. \A other \in Stored : Frozen(records[other], records'[other])
      BY <3>4, <3>5 DEF Frozen, Stored
    <3>7. gone' = gone /\ clock' = clock
      BY <1>1 DEF SetRecipientMetadata
    <3>8. gone' = gone \cup (Stored \ Stored')
      BY <3>3, <3>7
    <3> QED BY <3>3, <3>6, <3>7, <3>8 DEF MapStep, TypeOK
  <2>2. CASE ~LiveFor(id, k)
    BY <1>1, <2>2 DEF SetRecipientMetadata, MapStep, Stored, Frozen, TypeOK
  <2> QED BY <2>1, <2>2
<1>2. ASSUME NEW status \in Updates, NEW code \in Codes,
             UpdateStatus(id, k, status, code)
      PROVE  MapStep /\ Stored' = Stored
  <2>1. CASE MayUpdate(id, k)
    <3>1. /\ records[id] \in Record
          /\ records[id].status \notin Terminal
          /\ records' = [records EXCEPT ![id].status = status, ![id].code = code]
      BY <1>2, <2>1 DEF UpdateStatus, MayUpdate, LiveFor, Stored, TypeOK
    <3>2. records'[id] = [[records[id] EXCEPT !.status = status] EXCEPT !.code = code]
      BY <3>1 DEF TypeOK
    <3>3. records'[id] \in Record
      BY <1>2, <2>1, <3>1, UpdateType
    <3>4. \A other \in Ids : other # id => records'[other] = records[other]
      BY <3>1 DEF TypeOK
    <3>5. Stored' = Stored
      BY <2>1, <3>3, <3>4, StoreAssumption DEF Stored, MayUpdate, LiveFor
    <3>6. Frozen(records[id], records'[id])
      BY <3>1, <3>2 DEF Frozen, Record
    <3>7. \A other \in Stored : Frozen(records[other], records'[other])
      BY <3>4, <3>6 DEF Frozen, Stored
    <3>8. gone' = gone /\ clock' = clock
      BY <1>2 DEF UpdateStatus
    <3>9. gone' = gone \cup (Stored \ Stored')
      BY <3>5, <3>8
    <3> QED BY <3>5, <3>7, <3>8, <3>9 DEF MapStep, TypeOK
  <2>2. CASE ~MayUpdate(id, k)
    BY <1>2, <2>2 DEF UpdateStatus, MapStep, Stored, Frozen, TypeOK
  <2> QED BY <2>1, <2>2
<1> QED BY <1>1, <1>2

\* A get that takes the write lock removes at most the id it came for.
LEMMA GetExpireStep ==
    ASSUME TypeOK, NEW c \in Clients, GetExpire(c)
    PROVE  /\ MapStep
           /\ \/ Stored' = Stored /\ gone' = gone /\ UNCHANGED counters
              \/ /\ upgrading[c] \in Stored
                 /\ Stored' = Stored \ {upgrading[c]}
                 /\ gauge' = gauge - 1
                 /\ expiredTotal' = expiredTotal + 1
<1> DEFINE id == upgrading[c]
<1>1. CASE StillExpired(id)
  <2>1. records' = Removed({id}) /\ gone' = gone \cup {id} /\ id \in Stored
    BY <1>1 DEF GetExpire, StillExpired
  <2>2. Stored' = Stored \ {id} /\ \A i \in Stored' : records'[i] = records[i]
    BY <2>1, StoredAfterRemoval
  <2>3. /\ gauge' = gauge - 1 /\ expiredTotal' = expiredTotal + 1 /\ clock' = clock
    BY <1>1 DEF GetExpire
  <2>4. clock <= clock'
    BY <2>3 DEF TypeOK
  <2>5. gone' = gone \cup (Stored \ Stored')
    BY <2>1, <2>2
  <2>6. MapStep
    BY <2>2, <2>4, <2>5 DEF MapStep, Frozen
  <2> QED BY <2>1, <2>2, <2>3, <2>6
<1>2. CASE ~StillExpired(id)
  BY <1>2 DEF GetExpire, MapStep, Stored, Frozen, TypeOK, mapVars
<1> QED BY <1>1, <1>2

\* The sweep removes what it found expired and what it evicts.
LEMMA SweepEndStep ==
    ASSUME TypeOK, SweepEnd
    PROVE  /\ MapStep
           /\ \E evicted \in SUBSET (Stored \ SweepExpired) :
                 Stored' = Stored \ (SweepExpired \cup evicted)
           /\ gauge' = gauge - Cardinality(SweepExpired)
           /\ expiredTotal' = expiredTotal + Cardinality(SweepExpired)
<1>1. PICK evicted \in SweepEvictions(Stored \ SweepExpired) :
         /\ records' = Removed(SweepExpired \cup evicted)
         /\ gone' = gone \cup SweepExpired \cup evicted
  BY DEF SweepEnd
<1>2. evicted \subseteq Stored \ SweepExpired /\ SweepExpired \subseteq Stored
  BY <1>1 DEF SweepEvictions, SweepExpired
<1>3. /\ Stored' = Stored \ (SweepExpired \cup evicted)
      /\ \A i \in Stored' : records'[i] = records[i]
  BY <1>1, StoredAfterRemoval
<1>4. gone' = gone \cup (Stored \ Stored')
  BY <1>1, <1>2, <1>3
<1>5. clock' = clock
  BY DEF SweepEnd
<1>6. MapStep
  BY <1>3, <1>4, <1>5 DEF MapStep, Frozen, TypeOK
<1> QED BY <1>2, <1>3, <1>6 DEF SweepEnd

\* The two steps of a record_count.
Counts == \E c \in Counters : CountRead(c) \/ SetCurrent(c)

\* The remaining steps leave the map alone.
Quiet ==
    \/ \E id \in Ids, k \in Keys, c \in Clients : GetRead(c, id, k)
    \/ SweepBegin
    \/ Counts
    \/ \E cap \in Caps : ReloadConfig(cap)
    \/ Tick
    \/ UNCHANGED vars

\* Steps that leave the map alone: all a step can be besides the four above.
LEMMA QuietStep ==
    ASSUME TypeOK, Quiet
    PROVE  /\ MapStep
           /\ records' = records /\ Stored' = Stored /\ gone' = gone
           /\ UNCHANGED <<counters, countVars>> \/ Counts
<1>1. records' = records /\ gone' = gone /\ clock <= clock'
  BY DEF Quiet, Counts, CountRead, SetCurrent, GetRead, SweepBegin, ReloadConfig, Tick,
         vars, mapVars, TypeOK
<1>2. UNCHANGED <<counters, countVars>> \/ Counts
  BY DEF Quiet, GetRead, SweepBegin, ReloadConfig, Tick, vars, counters, countVars
<1> QED BY <1>1, <1>2 DEF MapStep, Stored, Frozen

\* The cases of a step, for the proofs below.
LEMMA StepCases ==
    ASSUME [Next]_vars
    PROVE  \/ \E id \in Ids, k \in Keys : PutFresh(id, k)
           \/ \E id \in Ids, k \in Keys :
                 \/ SetRecipientMetadata(id, k)
                 \/ \E status \in Updates, code \in Codes :
                       UpdateStatus(id, k, status, code)
           \/ \E c \in Clients : GetExpire(c)
           \/ SweepEnd
           \/ Quiet
BY DEF Next, Quiet, Counts

\* Whatever the step, records and lifetimes change in the ways of MapStep only.
LEMMA EveryStepIsMapStep ==
    ASSUME TypeOK, [Next]_vars
    PROVE  MapStep
BY StepCases, PutStep, UpdateStep, GetExpireStep, SweepEndStep, QuietStep

-----------------------------------------------------------------------------
(* The inductive invariant. *)

\* A length that a record_count has read and not yet set as the gauge: what it
\* counted, and what had left by then, has been in the map since.
CountsInPast ==
    \A c \in Counters : counting[c] # Absent =>
        /\ counting[c].gone <= Cardinality(gone)
        /\ counting[c].len + counting[c].gone <= Cardinality(Stored) + Cardinality(gone)

\* GoneNotStored is what makes the others inductive: a record counted as
\* expired must be new to "gone", and a pending get must not see its id again.
\* CountsInPast is what the gauge is set from.
IInv ==
    /\ TypeOK
    /\ GoneNotStored
    /\ CountsInPast
    /\ GaugeTracksStore
    /\ ExpiredCountedOnce
    /\ UpgradesFindTheDead

\* Fresh ids: what has left the map does not come back.
LEMMA GoneStep ==
    ASSUME TypeOK, GoneNotStored, [Next]_vars
    PROVE  GoneNotStored'
<1>1. MapStep
  BY EveryStepIsMapStep
<1>2. Stored' \cap gone = {}
  <2>1. ASSUME NEW id \in Ids, NEW k \in Keys, PutFresh(id, k)
        PROVE  Stored' \cap gone = {}
    BY <2>1, PutStep DEF GoneNotStored, PutFresh
  <2> QED
    BY <2>1, StepCases, UpdateStep, GetExpireStep, SweepEndStep, QuietStep
    DEF GoneNotStored
<1> QED BY <1>1, <1>2 DEF MapStep, GoneNotStored

\* A lower bound for the size of what is gone after a step that removed S.
LEMMA GoneGrows ==
    ASSUME TypeOK, TypeOK', MapStep, GoneNotStored,
           NEW S \in SUBSET Stored, Stored' \cap S = {}
    PROVE  Cardinality(gone') >= Cardinality(gone) + Cardinality(S)
<1>1. /\ IsFiniteSet(gone) /\ IsFiniteSet(S) /\ IsFiniteSet(gone')
      /\ Cardinality(gone) \in Nat /\ Cardinality(S) \in Nat
  BY StoredFinite DEF TypeOK, Stored
<1>2. gone \cap S = {}
  BY DEF GoneNotStored
<1>3. Cardinality(gone \cup S) = Cardinality(gone) + Cardinality(S)
  <2>1. Cardinality(gone \cap S) = 0
    BY <1>2, FS_EmptySet
  <2>2. Cardinality(gone \cup S)
           = Cardinality(gone) + Cardinality(S) - Cardinality(gone \cap S)
    BY <1>1, FS_Union
  <2> QED BY <1>1, <2>1, <2>2
<1>4. gone \cup S \in SUBSET gone'
  BY DEF MapStep
<1> QED BY <1>1, <1>3, <1>4, FS_Subset, FS_CardinalityType

\* Together, what is in the map and what has left it: every record ever put.
Ever == Cardinality(Stored) + Cardinality(gone)

\* No step makes that total smaller; the put of a new id makes it larger by one.
LEMMA EverGrows ==
    ASSUME TypeOK, TypeOK', GoneNotStored, GoneNotStored', MapStep
    PROVE  /\ Ever \in Nat /\ Ever' \in Nat /\ Ever' >= Ever
           /\ \A id : Stored' \ Stored = {id} /\ id \notin gone => Ever' = Ever + 1
<1>1. /\ IsFiniteSet(Stored) /\ Cardinality(Stored) \in Nat
      /\ IsFiniteSet(Stored') /\ Cardinality(Stored') \in Nat
      /\ IsFiniteSet(gone) /\ Cardinality(gone) \in Nat
      /\ IsFiniteSet(gone') /\ Cardinality(gone') \in Nat
  BY StoredFinite DEF TypeOK, Stored
<1> DEFINE all == Stored \cup gone
           all2 == Stored' \cup gone'
<1>2. Cardinality(Stored \cap gone) = 0 /\ Cardinality(Stored' \cap gone') = 0
  <2>1. Stored \cap gone = {} /\ Stored' \cap gone' = {}
    BY DEF GoneNotStored
  <2> QED BY <2>1, FS_EmptySet
<1>3. /\ Cardinality(all) = Cardinality(Stored) + Cardinality(gone) - Cardinality(Stored \cap gone)
      /\ IsFiniteSet(all)
  BY <1>1, FS_Union
<1>4. /\ Cardinality(all2) = Cardinality(Stored') + Cardinality(gone') - Cardinality(Stored' \cap gone')
      /\ IsFiniteSet(all2)
  BY <1>1, FS_Union
<1>5. all \subseteq all2
  BY DEF MapStep
<1>6. Ever = Cardinality(all) /\ Ever' = Cardinality(all2)
  BY <1>1, <1>2, <1>3, <1>4 DEF Ever
<1>7. Cardinality(all) <= Cardinality(all2)
  BY <1>4, <1>5, FS_Subset
<1>8. ASSUME NEW id, Stored' \ Stored = {id}, id \notin gone
      PROVE  Ever' = Ever + 1
  <2>1. id \notin all /\ all2 = all \cup {id}
    BY <1>8 DEF MapStep
  <2>2. Cardinality(all \cup {id}) = Cardinality(all) + 1
    BY <1>3, <2>1, FS_AddElement
  <2> QED BY <1>6, <2>1, <2>2
<1> QED BY <1>1, <1>6, <1>7, <1>8 DEF Ever

\* The book-keeping of a step that is not a count: the gauge loses no more than
\* the map, gains no more than was put, and an expiry is counted only if it left.
Tallied ==
    /\ gauge' - Cardinality(Stored') >= gauge - Cardinality(Stored)
    /\ gauge' + Ever <= gauge + Ever'
    /\ expiredTotal' - expiredTotal <= Cardinality(gone') - Cardinality(gone)
    /\ counting' = counting /\ counted' = counted

\* Every step keeps these books, but for the two of a record_count.
LEMMA TalliedStep ==
    ASSUME TypeOK, TypeOK', GoneNotStored, GoneNotStored', [Next]_vars
    PROVE  Tallied \/ Counts
<1>1. MapStep
  BY EveryStepIsMapStep
<1>2. /\ IsFiniteSet(Stored) /\ Cardinality(Stored) \in Nat
      /\ IsFiniteSet(Stored') /\ Cardinality(Stored') \in Nat
      /\ Cardinality(gone) \in Nat /\ Cardinality(gone') \in Nat
      /\ gauge \in Int /\ gauge' \in Int
      /\ expiredTotal \in Nat /\ expiredTotal' \in Nat
  BY StoredFinite DEF TypeOK, Stored
<1>3. Cardinality(gone') >= Cardinality(gone)
  BY <1>1, <1>2, GoneGrows, FS_EmptySet
<1>4. Ever \in Nat /\ Ever' \in Nat /\ Ever' >= Ever
  BY <1>1, EverGrows
<1>5. ASSUME NEW id \in Ids, NEW k \in Keys, PutFresh(id, k)
      PROVE  Tallied
  <2>1. expiredTotal' = expiredTotal /\ counting' = counting /\ counted' = counted /\ id \notin gone
    BY <1>5 DEF PutFresh, PutReceived, countVars
  <2>2. CASE Stored' = Stored /\ gauge' = gauge
    BY <1>2, <1>3, <1>4, <2>1, <2>2 DEF Tallied, Ever
  <2>3. ASSUME NEW victims \in SUBSET Stored, id \notin Stored,
               Stored' = (Stored \ victims) \cup {id}, gauge' = gauge + 1
        PROVE  Tallied
    <3>1. /\ IsFiniteSet(Stored \ victims)
          /\ Cardinality(Stored \ victims) <= Cardinality(Stored)
          /\ Cardinality(Stored \ victims) \in Nat
      BY <1>2, FS_Subset, FS_CardinalityType
    <3>2. Cardinality(Stored') <= Cardinality(Stored) + 1
      BY <1>2, <2>3, <3>1, FS_AddElement
    <3>3. Ever' = Ever + 1
      <4>1. Stored' \ Stored = {id}
        BY <2>3
      <4> QED BY <1>1, <2>1, <4>1, EverGrows
    <3> QED BY <1>2, <1>3, <1>4, <2>1, <2>3, <3>2, <3>3 DEF Tallied, Ever
  <2> QED BY <1>5, <2>2, <2>3, PutStep
<1>6. ASSUME NEW id \in Ids, NEW k \in Keys,
             \/ SetRecipientMetadata(id, k)
             \/ \E status \in Updates, code \in Codes : UpdateStatus(id, k, status, code)
      PROVE  Tallied
  <2>1. gauge' = gauge /\ expiredTotal' = expiredTotal /\ counting' = counting /\ counted' = counted
    BY <1>6 DEF SetRecipientMetadata, UpdateStatus, counters, countVars
  <2> QED BY <1>2, <1>3, <1>4, <1>6, <2>1, UpdateStep DEF Tallied, Ever
<1>7. ASSUME NEW c \in Clients, GetExpire(c) PROVE Tallied
  <2> DEFINE id == upgrading[c]
  <2>1. counting' = counting /\ counted' = counted
    BY <1>7 DEF GetExpire, countVars
  <2>2. CASE Stored' = Stored /\ gone' = gone /\ UNCHANGED counters
    BY <1>2, <1>4, <2>1, <2>2 DEF counters, Tallied, Ever
  <2>3. CASE /\ id \in Stored /\ Stored' = Stored \ {id}
             /\ gauge' = gauge - 1 /\ expiredTotal' = expiredTotal + 1
    <3>1. Cardinality(Stored') = Cardinality(Stored) - 1
      BY <1>2, <2>3, FS_RemoveElement
    <3>2. Cardinality({id}) = 1
      BY FS_Singleton
    <3>3. Cardinality(gone') >= Cardinality(gone) + 1
      BY <1>1, <2>3, <3>2, GoneGrows
    <3> QED BY <1>2, <1>4, <2>1, <2>3, <3>1, <3>3 DEF Tallied, Ever
  <2> QED BY <1>7, <2>2, <2>3, GetExpireStep
<1>8. ASSUME SweepEnd PROVE Tallied
  <2>1. PICK evicted \in SUBSET (Stored \ SweepExpired) :
           Stored' = Stored \ (SweepExpired \cup evicted)
    BY <1>8, SweepEndStep
  <2>2. /\ gauge' = gauge - Cardinality(SweepExpired)
        /\ expiredTotal' = expiredTotal + Cardinality(SweepExpired)
        /\ counting' = counting /\ counted' = counted
    BY <1>8, SweepEndStep DEF SweepEnd, countVars
  <2>3. SweepExpired \subseteq Stored /\ Cardinality(SweepExpired) \in Nat
    BY StoredFinite DEF SweepExpired, Stored
  <2>4. Stored \cap SweepExpired = SweepExpired
    BY <2>3
  <2>5. /\ IsFiniteSet(Stored \ SweepExpired)
        /\ Cardinality(Stored \ SweepExpired)
              = Cardinality(Stored) - Cardinality(SweepExpired)
    BY <1>2, <2>4, FS_Difference
  <2>6. Cardinality(Stored') <= Cardinality(Stored \ SweepExpired)
    BY <2>1, <2>5, FS_Subset
  <2>7. Cardinality(gone') >= Cardinality(gone) + Cardinality(SweepExpired)
    BY <1>1, <2>1, <2>3, GoneGrows
  <2> QED BY <1>2, <1>4, <2>2, <2>3, <2>5, <2>6, <2>7 DEF Tallied, Ever
<1>9. ASSUME Quiet PROVE Tallied \/ Counts
  BY <1>2, <1>4, <1>9, QuietStep DEF Tallied, Ever, counters, countVars
<1> QED BY <1>5, <1>6, <1>7, <1>8, <1>9, StepCases

\* The gauge and the counter of expiries keep their bounds in every step.
LEMMA CountersStep ==
    ASSUME TypeOK, TypeOK', GoneNotStored, GoneNotStored', CountsInPast,
           GaugeTracksStore, ExpiredCountedOnce, [Next]_vars
    PROVE  CountsInPast' /\ GaugeTracksStore' /\ ExpiredCountedOnce'
<1>1. MapStep
  BY EveryStepIsMapStep
<1>2. /\ Cardinality(Stored) \in Nat /\ Cardinality(Stored') \in Nat
      /\ Cardinality(gone) \in Nat /\ Cardinality(gone') \in Nat
      /\ gauge \in Int /\ gauge' \in Int
      /\ expiredTotal \in Nat /\ expiredTotal' \in Nat
      /\ counted.late \in Int /\ counted.gone \in Nat
  BY StoredFinite DEF TypeOK, Stored
<1>3. Cardinality(gone') >= Cardinality(gone)
  BY <1>1, <1>2, GoneGrows, FS_EmptySet
<1>4. Ever \in Nat /\ Ever' \in Nat /\ Ever' >= Ever
  BY <1>1, EverGrows
<1>5. \A c \in Counters : counting[c] # Absent =>
         counting[c].len \in Nat /\ counting[c].gone \in Nat
  BY DEF TypeOK, Lengths
<1>6. CASE Tallied
  <2>1. counting' = counting /\ counted' = counted
    BY <1>6 DEF Tallied, Ever
  <2>2. CountsInPast'
    BY <1>2, <1>3, <1>4, <1>5, <2>1 DEF CountsInPast, Ever
  <2>3. GaugeTracksStore' /\ ExpiredCountedOnce'
    BY <1>2, <1>6, <2>1 DEF Tallied, GaugeTracksStore, ExpiredCountedOnce, Ever
  <2> QED BY <2>2, <2>3
<1>7. ASSUME NEW c \in Counters, CountRead(c) \/ SetCurrent(c)
      PROVE  CountsInPast' /\ GaugeTracksStore' /\ ExpiredCountedOnce'
  <2>1. Stored' = Stored /\ gone' = gone /\ expiredTotal' = expiredTotal
    BY <1>7 DEF CountRead, SetCurrent, mapVars, counters, Stored
  <2>2. CASE CountRead(c)
    <3>1. CountsInPast'
      BY <1>2, <2>1, <2>2 DEF CountsInPast, CountRead, TypeOK
    <3> QED BY <2>1, <2>2, <3>1
            DEF CountRead, GaugeTracksStore, ExpiredCountedOnce, counters
  <2>3. CASE SetCurrent(c)
    <3>1. CountsInPast'
      BY <2>1, <2>3 DEF CountsInPast, SetCurrent, TypeOK
    <3>2. /\ counting[c].gone <= Cardinality(gone)
          /\ counting[c].len + counting[c].gone <= Cardinality(Stored) + Cardinality(gone)
          /\ counting[c].len \in Nat /\ counting[c].gone \in Nat
      BY <1>5, <2>3 DEF CountsInPast, SetCurrent
    <3>3. /\ gauge' = counting[c].len
          /\ counted'.gone = counting[c].gone
          /\ counted'.late = Cardinality(Stored) + Cardinality(gone)
                                - (counting[c].len + counting[c].gone)
      BY <2>3 DEF SetCurrent
    <3>4. GaugeTracksStore'
      BY <1>2, <2>1, <3>2, <3>3 DEF GaugeTracksStore
    <3> QED BY <2>1, <3>1, <3>4 DEF ExpiredCountedOnce
  <2> QED BY <1>7, <2>2, <2>3
<1> QED BY <1>6, <1>7, TalliedStep DEF Counts

\* An id that is gone, or expired in the map, stays one or the other.
LEMMA DeadStaysDead ==
    ASSUME TypeOK, TypeOK', MapStep, NEW id \in Ids,
           id \in gone \/ StillExpired(id)
    PROVE  id \in gone' \/ StillExpired(id)'
<1>1. CASE id \in gone
  BY <1>1 DEF MapStep
<1>2. CASE StillExpired(id) /\ id \in Stored'
  <2>1. records'[id].expires = records[id].expires /\ clock <= clock'
    BY <1>2 DEF MapStep, Frozen, StillExpired
  <2>2. records[id] \in Record
    BY <1>2 DEF StillExpired, Stored, TypeOK
  <2>3. records[id].expires \in Nat /\ clock \in Nat /\ clock' \in Nat
    BY <2>2 DEF Record, TypeOK
  <2> QED BY <1>2, <2>1, <2>3 DEF StillExpired, Expired
<1>3. CASE StillExpired(id) /\ id \notin Stored'
  BY <1>3 DEF MapStep, StillExpired
<1> QED BY <1>1, <1>2, <1>3

\* A lookup between its locks keeps finding its record dead, whatever others do.
LEMMA UpgradesStep ==
    ASSUME TypeOK, TypeOK', UpgradesFindTheDead, [Next]_vars
    PROVE  UpgradesFindTheDead'
<1>1. MapStep
  BY EveryStepIsMapStep
<1> SUFFICES ASSUME NEW c \in Clients, NEW id \in Ids, upgrading'[c] = id
             PROVE  id \in gone' \/ StillExpired(id)'
  BY DEF UpgradesFindTheDead, TypeOK
<1>2. SUFFICES id \in gone \/ StillExpired(id)
  BY <1>1, DeadStaysDead
<1>3. CASE upgrading[c] = id
  BY <1>3, VocabularyAssumption DEF UpgradesFindTheDead
<1>4. CASE upgrading[c] # id
  <2>1. PICK d \in Clients, i \in Ids, k \in Keys : GetRead(d, i, k)
    <3>1. ASSUME NEW d \in Clients, GetExpire(d) PROVE upgrading[c] = id
      BY <3>1, VocabularyAssumption DEF GetExpire, TypeOK
    <3>2. upgrading' # upgrading
      BY <1>4
    <3> QED BY <1>4, <3>1, <3>2
            DEF Next, PutFresh, PutReceived, SetRecipientMetadata, UpdateStatus, SweepBegin,
                SweepEnd, CountRead, SetCurrent, ReloadConfig, Tick, vars, getVars, countVars
  <2> QED BY <1>4, <2>1 DEF GetRead, StillExpired, TypeOK
<1> QED BY <1>3, <1>4

\* The inductive invariant holds in every state of every behaviour.
THEOREM Invariant == Spec => []IInv
<1>1. Init => IInv
  <2> SUFFICES ASSUME Init PROVE IInv
    OBVIOUS
  <2>1. TypeOK
    BY StoreAssumption DEF Init, TypeOK, NotSweeping
  <2>2. /\ Stored = {} /\ gone = {} /\ gauge = 0 /\ expiredTotal = 0
        /\ counted = [late |-> 0, gone |-> 0]
    BY DEF Init, Stored
  <2>3. UpgradesFindTheDead /\ CountsInPast
    BY DEF Init, UpgradesFindTheDead, CountsInPast
  <2> QED BY <2>1, <2>2, <2>3, FS_EmptySet
          DEF IInv, GoneNotStored, GaugeTracksStore, ExpiredCountedOnce
<1>2. IInv /\ TypeOK' /\ [Next]_vars => IInv'
  BY GoneStep, CountersStep, UpgradesStep DEF IInv
<1> QED BY <1>1, <1>2, TypeCorrect, PTL DEF Spec

\* status_records_current misses no more than was put while the last record_count
\* was under way, and has no more too many than has left the map since it.
THEOREM GaugeBounded == Spec => []GaugeTracksStore
BY Invariant, PTL DEF IInv

\* expired_total counts each record that left the map at most once.
THEOREM NoDoubleExpiry == Spec => []ExpiredCountedOnce
BY Invariant, PTL DEF IInv

\* The gap between get's read lock and write lock is harmless.
THEOREM LockUpgradeSafe == Spec => []UpgradesFindTheDead
BY Invariant, PTL DEF IInv

-----------------------------------------------------------------------------
(* The store implements the board. *)

Live == {id \in Stored : ~Expired(id)}

\* The board shows exactly the live records, before and after a step.
LEMMA BoardShowsLive ==
    ASSUME TypeOK, TypeOK'
    PROVE  /\ Board!Visible = Live /\ Board!Visible' = Live'
           /\ \A id \in Ids : id \notin Live => BoardEntry(id) = Absent
           /\ \A id \in Ids : id \notin Live' => BoardEntry(id)' = Absent
           /\ \A id \in Live : BoardEntry(id) = View(records[id])
           /\ \A id \in Live' : BoardEntry(id)' = View(records'[id])
<1>1. \A id \in Stored : View(records[id]) # Absent
  BY ViewType, VocabularyAssumption DEF Stored, TypeOK
<1>2. \A id \in Stored' : View(records'[id]) # Absent
  BY ViewType, VocabularyAssumption DEF Stored, TypeOK
<1>3. /\ \A id \in Ids : id \notin Live => BoardEntry(id) = Absent
      /\ \A id \in Live : BoardEntry(id) = View(records[id])
  BY DEF BoardEntry, Live
<1>4. /\ \A id \in Ids : id \notin Live' => BoardEntry(id)' = Absent
      /\ \A id \in Live' : BoardEntry(id)' = View(records'[id])
  BY DEF BoardEntry, Live
<1>5. Live \subseteq Stored /\ Live' \subseteq Stored' /\ Stored \subseteq Ids /\ Stored' \subseteq Ids
  BY DEF Live, Stored
<1>6. Board!Visible = Live
  BY <1>1, <1>3, <1>5 DEF Board!Visible
<1>7. Board!Visible' = Live'
  BY <1>2, <1>4, <1>5 DEF Board!Visible
<1> QED BY <1>3, <1>4, <1>6, <1>7

\* Nothing expired comes back to life while it stays in the map.
LEMMA LiveShrinks ==
    ASSUME TypeOK, TypeOK', MapStep, GoneNotStored'
    PROVE  Live' \cap Stored \subseteq Live
<1> SUFFICES ASSUME NEW id \in Live' \cap Stored, Expired(id) PROVE FALSE
  BY DEF Live
<1>1. id \in gone' \/ StillExpired(id)'
  BY DeadStaysDead DEF StillExpired, Stored
<1> QED BY <1>1 DEF GoneNotStored, StillExpired, Live

\* What the ids spent on the board become: those that stop being live join.
LEMMA SpentGrows ==
    ASSUME TypeOK, TypeOK', MapStep, GoneNotStored'
    PROVE  BoardSpent' = BoardSpent \cup (Live \ Live') \cup (Stored' \ (Stored \cup Live'))
<1>1. /\ BoardSpent = gone \cup (Stored \ Live)
      /\ BoardSpent' = gone' \cup (Stored' \ Live')
  BY DEF BoardSpent, Live, Expired, Stored
<1>2. gone' = gone \cup (Stored \ Stored')
  BY DEF MapStep
<1>3. Live \subseteq Stored /\ Live' \subseteq Stored'
  BY DEF Live
<1> QED BY <1>1, <1>2, <1>3, LiveShrinks

\* A step that adds nothing and answers nobody forgets, or stutters.
LEMMA ShrinkForgets ==
    ASSUME TypeOK, TypeOK', MapStep, GoneNotStored', answer' = answer,
           Stored' \subseteq Stored,
           \A id \in Stored' : View(records'[id]) = View(records[id])
    PROVE  [Board!Next]_(Board!vars)
<1> DEFINE lost == Live \ Live'
<1>1. Live' \subseteq Live
  BY LiveShrinks DEF Live
<1>2. BoardSpent' = BoardSpent \cup lost
  BY SpentGrows DEF Live
<1>3. [id \in Ids |-> BoardEntry(id)]'
         = Board!Without([id \in Ids |-> BoardEntry(id)], lost)
  <2>1. ASSUME NEW id \in Ids
        PROVE  BoardEntry(id)' = IF id \in lost THEN Absent ELSE BoardEntry(id)
    <3>1. CASE id \in Live'
      BY <1>1, <3>1, BoardShowsLive DEF Live
    <3>2. CASE id \notin Live'
      BY <3>2, BoardShowsLive
    <3> QED BY <3>1, <3>2
  <2> QED BY <2>1 DEF Board!Without
<1>4. CASE lost = {}
  <2>1. BoardSpent' = BoardSpent
    BY <1>2, <1>4
  <2>2. [id \in Ids |-> BoardEntry(id)]' = [id \in Ids |-> BoardEntry(id)]
    BY <1>3, <1>4 DEF Board!Without
  <2> QED BY <2>1, <2>2 DEF Board!vars
<1>5. CASE lost # {}
  <2>1. lost \in (SUBSET Board!Visible) \ {{}}
    BY <1>5, BoardShowsLive
  <2>2. Board!Forget
    BY <1>2, <1>3, <2>1 DEF Board!Forget
  <2> QED BY <2>2 DEF Board!Next
<1> QED BY <1>4, <1>5

\* Inserting a record is the board's PutReceived, evictions included.
LEMMA PutImplements ==
    ASSUME TypeOK, TypeOK', GoneNotStored, GoneNotStored',
           NEW id \in Ids, NEW k \in Keys, PutFresh(id, k)
    PROVE  [Board!Next]_(Board!vars)
<1>1. PICK lag \in 0 .. MaxLag, ttl \in Ttls :
         lag <= clock /\ PutReceived(id, k, clock - lag, ttl)
  BY DEF PutFresh
<1>2. MapStep /\ answer' = answer
  BY <1>1, PutStep DEF PutReceived, getVars, countVars
<1>3. CASE id \in Stored
  <2>1. records' = records
    BY <1>1, <1>3 DEF PutReceived, mapVars
  <2>2. Stored' \subseteq Stored /\ \A i \in Stored' : View(records'[i]) = View(records[i])
    BY <2>1 DEF Stored
  <2> QED BY <1>2, <2>2, ShrinkForgets
<1>4. CASE id \notin Stored
  <2> DEFINE new == NewReceived(k, clock - lag, ttl)
             lost == (Live \ Live') \cup ({id} \ Live')
  <2>1. PICK victims \in Victims :
           records' = [Removed(victims) EXCEPT ![id] = new]
    BY <1>1, <1>4 DEF PutReceived
  <2>2. new \in Record
    BY <1>1, NewReceivedType, StoreAssumption DEF TypeOK
  <2>3. /\ Stored' = (Stored \ victims) \cup {id}
        /\ \A other \in Stored \cap Stored' : records'[other] = records[other]
    BY <1>4, <2>1, <2>2, VictimsType, StoredAfterPut
  <2>4. records'[id] = new
    BY <2>1, RemovedType
  <2>5. View(new) = FreshEntry(k)
    BY DEF NewReceived, View, FreshEntry
  <2>6. BoardSpent' = BoardSpent \cup lost
    BY <1>2, <1>4, <2>3, SpentGrows
  <2>7. [i \in Ids |-> BoardEntry(i)]'
           = Board!Without([[i \in Ids |-> BoardEntry(i)] EXCEPT ![id] = FreshEntry(k)],
                           lost)
    <3>1. ASSUME NEW i \in Ids
          PROVE  BoardEntry(i)' = IF i \in lost THEN Absent
                                  ELSE [[j \in Ids |-> BoardEntry(j)]
                                           EXCEPT ![id] = FreshEntry(k)][i]
      <4>1. CASE i = id
        BY <2>4, <2>5, <4>1, BoardShowsLive
      <4>2. CASE i # id /\ i \in Live'
        <5>1. i \in Live /\ i \in Stored \cap Stored'
          BY <1>2, <2>3, <4>2, LiveShrinks DEF Live
        <5>2. BoardEntry(i)' = BoardEntry(i)
          BY <2>3, <4>2, <5>1, BoardShowsLive
        <5> QED BY <4>2, <5>2
      <4>3. CASE i # id /\ i \notin Live'
        <5>1. BoardEntry(i)' = Absent
          BY <4>3, BoardShowsLive
        <5>2. i \in Live => i \in lost
          BY <4>3
        <5>3. i \notin Live => BoardEntry(i) = Absent
          BY BoardShowsLive
        <5> QED BY <4>3, <5>1, <5>2, <5>3
      <4> QED BY <4>1, <4>2, <4>3
    <3> QED BY <3>1 DEF Board!Without
  <2>8. id \notin BoardSpent \cup Board!Visible
    BY <1>4, BoardShowsLive DEF PutFresh, BoardSpent, Live
  <2>9. lost \in SUBSET (Board!Visible \cup {id})
    BY BoardShowsLive
  <2>10. Board!PutReceived(id, k)
    BY <1>2, <2>6, <2>7, <2>8, <2>9
    DEF Board!PutReceived, Board!FreshEntry, FreshEntry
  <2> QED BY <2>10 DEF Board!Next
<1> QED BY <1>3, <1>4

\* A step that rewrites one live record and nothing else rewrites one entry.
LEMMA RewriteOne ==
    ASSUME TypeOK, TypeOK', NEW id \in Live, NEW e,
           Stored' = Stored, clock' = clock, gone' = gone, MapStep,
           \A other \in Ids : other # id => records'[other] = records[other],
           View(records'[id]) = e
    PROVE  /\ [i \in Ids |-> BoardEntry(i)]'
                 = [[i \in Ids |-> BoardEntry(i)] EXCEPT ![id] = e]
           /\ BoardSpent' = BoardSpent
           /\ id \in Board!Visible
<1>1. Live' = Live
  BY DEF Live, Expired, MapStep, Frozen
<1>2. ASSUME NEW i \in Ids
      PROVE  BoardEntry(i)'
               = [[j \in Ids |-> BoardEntry(j)] EXCEPT ![id] = e][i]
  <2>1. CASE i = id
    BY <1>1, <2>1, BoardShowsLive
  <2>2. CASE i # id /\ i \in Live
    BY <1>1, <2>2, BoardShowsLive
  <2>3. CASE i # id /\ i \notin Live
    BY <1>1, <2>3, BoardShowsLive
  <2> QED BY <2>1, <2>2, <2>3
<1>3. BoardSpent = gone \cup (Stored \ Live) /\ BoardSpent' = gone' \cup (Stored' \ Live')
  BY DEF BoardSpent, Live, Expired, Stored
<1> QED BY <1>1, <1>2, <1>3, BoardShowsLive

\* Entries with equal fields are equal.
LEMMA EntryEqual ==
    ASSUME NEW e \in Entry, NEW f \in Entry,
           e.key = f.key, e.status = f.status, e.code = f.code, e.described = f.described
    PROVE  e = f
BY DEF Entry

\* Rewriting a field of an entry gives an entry with that field rewritten.
LEMMA EntryStatus ==
    ASSUME NEW e \in Entry, NEW s \in Statuses
    PROVE  LET f == [e EXCEPT !.status = s]
           IN  /\ f \in Entry
               /\ f.key = e.key /\ f.status = s
               /\ f.code = e.code /\ f.described = e.described
BY DEF Entry

\* The same for the code.
LEMMA EntryCode ==
    ASSUME NEW e \in Entry, NEW c \in Codes
    PROVE  LET f == [e EXCEPT !.code = c]
           IN  /\ f \in Entry
               /\ f.key = e.key /\ f.status = e.status
               /\ f.code = c /\ f.described = e.described
BY DEF Entry

\* The same for the mark that recipients are known.
LEMMA EntryDescribed ==
    ASSUME NEW e \in Entry
    PROVE  LET f == [e EXCEPT !.described = TRUE]
           IN  /\ f \in Entry
               /\ f.key = e.key /\ f.status = e.status
               /\ f.code = e.code /\ f.described = TRUE
BY DEF Entry

\* update_status is the board's UpdateStatus, or nothing for a dead record.
LEMMA UpdateImplements ==
    ASSUME TypeOK, TypeOK', GoneNotStored', NEW id \in Ids, NEW k \in Keys,
           NEW status \in Updates, NEW code \in Codes, UpdateStatus(id, k, status, code)
    PROVE  [Board!Next]_(Board!vars)
<1>1. MapStep /\ Stored' = Stored
  BY UpdateStep
<1>2. answer' = answer /\ gone' = gone /\ clock' = clock
  BY DEF UpdateStatus, getVars, countVars
<1>3. CASE MayUpdate(id, k)
  <2>1. records' = [records EXCEPT ![id].status = status, ![id].code = code]
    BY <1>3 DEF UpdateStatus
  <2>2. id \in Live /\ records[id] \in Record
    BY <1>3 DEF MayUpdate, LiveFor, Live, Stored, TypeOK
  <2>3. records'[id] = [[records[id] EXCEPT !.status = status] EXCEPT !.code = code]
    BY <2>1 DEF TypeOK
  <2>4. View(records'[id])
          = [[View(records[id]) EXCEPT !.status = status] EXCEPT !.code = code]
    <3> DEFINE old == View(records[id])
               new == View(records'[id])
    <3>1. old \in Entry /\ new \in Entry
      BY <1>1, <2>2, ViewType DEF Live, Stored, TypeOK
    <3>2. /\ new.key = old.key /\ new.described = old.described
          /\ new.status = status /\ new.code = code
      BY <2>2, <2>3 DEF View, Record
    <3>3. status \in Statuses
      BY VocabularyAssumption
    <3> HIDE DEF old, new
    <3> DEFINE mid == [old EXCEPT !.status = status]
    <3>4. /\ mid \in Entry
          /\ mid.key = old.key /\ mid.status = status
          /\ mid.described = old.described
      BY <3>1, <3>3, EntryStatus
    <3> HIDE DEF mid
    <3> DEFINE rhs == [mid EXCEPT !.code = code]
    <3>5. /\ rhs \in Entry
          /\ rhs.key = mid.key /\ rhs.status = mid.status
          /\ rhs.code = code /\ rhs.described = mid.described
      BY <3>4, EntryCode
    <3> HIDE DEF rhs
    <3>6. new = rhs
      BY <3>1, <3>2, <3>4, <3>5, EntryEqual
    <3> QED BY <3>6 DEF old, new, mid, rhs
  <2>5. BoardEntry(id) = View(records[id])
    BY <2>2, BoardShowsLive
  <2>6. /\ [i \in Ids |-> BoardEntry(i)]'
             = [[i \in Ids |-> BoardEntry(i)] EXCEPT ![id].status = status,
                                                     ![id].code = code]
        /\ BoardSpent' = BoardSpent /\ id \in Board!Visible
    BY <1>1, <1>2, <2>1, <2>2, <2>4, <2>5, RewriteOne DEF TypeOK
  <2>7. BoardEntry(id).key = k /\ BoardEntry(id).status \notin Terminal
    BY <1>3, <2>5 DEF MayUpdate, LiveFor, View
  <2>8. Board!UpdateStatus(id, k, status, code)
    BY <1>2, <2>6, <2>7
    DEF Board!UpdateStatus, Board!Terminal, Terminal
  <2> QED BY <2>8 DEF Board!Next
<1>4. CASE ~MayUpdate(id, k)
  <2>1. records' = records
    BY <1>4 DEF UpdateStatus
  <2> QED BY <1>1, <1>2, <2>1, ShrinkForgets
<1> QED BY <1>3, <1>4

\* set_recipient_metadata is the board's SetRecipientMetadata, or nothing.
LEMMA MetadataImplements ==
    ASSUME TypeOK, TypeOK', GoneNotStored', NEW id \in Ids, NEW k \in Keys,
           SetRecipientMetadata(id, k)
    PROVE  [Board!Next]_(Board!vars)
<1>1. MapStep /\ Stored' = Stored
  BY UpdateStep
<1>2. answer' = answer /\ gone' = gone /\ clock' = clock
  BY DEF SetRecipientMetadata, getVars, countVars
<1>3. CASE LiveFor(id, k)
  <2>1. records' = [records EXCEPT ![id].described = TRUE]
    BY <1>3 DEF SetRecipientMetadata
  <2>2. id \in Live /\ records[id] \in Record
    BY <1>3 DEF LiveFor, Live, Stored, TypeOK
  <2>3. View(records'[id]) = [View(records[id]) EXCEPT !.described = TRUE]
    <3> DEFINE old == View(records[id])
               new == View(records'[id])
    <3>1. old \in Entry /\ new \in Entry
      BY <1>1, <2>2, ViewType DEF Live, Stored, TypeOK
    <3>2. /\ new.key = old.key /\ new.described = TRUE
          /\ new.status = old.status /\ new.code = old.code
      BY <2>1, <2>2 DEF View, Record, TypeOK
    <3> HIDE DEF old, new
    <3> DEFINE rhs == [old EXCEPT !.described = TRUE]
    <3>3. /\ rhs \in Entry
          /\ rhs.key = old.key /\ rhs.status = old.status
          /\ rhs.code = old.code /\ rhs.described = TRUE
      BY <3>1, EntryDescribed
    <3> HIDE DEF rhs
    <3>4. new = rhs
      BY <3>1, <3>2, <3>3, EntryEqual
    <3> QED BY <3>4 DEF old, new, rhs
  <2>4. BoardEntry(id) = View(records[id])
    BY <2>2, BoardShowsLive
  <2>5. /\ [i \in Ids |-> BoardEntry(i)]'
             = [[i \in Ids |-> BoardEntry(i)] EXCEPT ![id].described = TRUE]
        /\ BoardSpent' = BoardSpent /\ id \in Board!Visible
    BY <1>1, <1>2, <2>1, <2>2, <2>3, <2>4, RewriteOne DEF TypeOK
  <2>6. BoardEntry(id).key = k
    BY <1>3, <2>4 DEF LiveFor, View
  <2>7. Board!SetRecipientMetadata(id, k)
    BY <1>2, <2>5, <2>6 DEF Board!SetRecipientMetadata
  <2> QED BY <2>7 DEF Board!Next
<1>4. CASE ~LiveFor(id, k)
  <2>1. records' = records
    BY <1>4 DEF SetRecipientMetadata
  <2> QED BY <1>1, <1>2, <2>1, ShrinkForgets
<1> QED BY <1>3, <1>4

\* A lookup is the board's Get when it answers, and nothing when it only upgrades.
LEMMA GetReadImplements ==
    ASSUME TypeOK, TypeOK', GoneNotStored', NEW c \in Clients, NEW id \in Ids, NEW k \in Keys,
           GetRead(c, id, k)
    PROVE  [Board!Next]_(Board!vars)
<1>1. records' = records /\ gone' = gone /\ clock' = clock
  BY DEF GetRead, mapVars
<1>2. /\ [i \in Ids |-> BoardEntry(i)]' = [i \in Ids |-> BoardEntry(i)]
      /\ BoardSpent' = BoardSpent
  BY <1>1 DEF BoardEntry, BoardSpent, Stored, Expired
<1>3. CASE answer' = answer
  BY <1>2, <1>3 DEF Board!vars
<1>4. CASE answer' # answer
  <2> DEFINE found == IF LiveFor(id, k) THEN View(records[id]) ELSE Absent
  <2>1. answer' = [answer EXCEPT ![c] = [id |-> id, found |-> found]]
    BY <1>4 DEF GetRead, Answer, LiveFor
  <2>2. found = IF id \in Board!Visible /\ BoardEntry(id).key = k
                THEN BoardEntry(id) ELSE Absent
    <3>1. CASE id \in Live
      BY <3>1, BoardShowsLive DEF Live, LiveFor, View
    <3>2. CASE id \notin Live
      BY <3>2, BoardShowsLive DEF Live, LiveFor
    <3> QED BY <3>1, <3>2
  <2>3. Board!Get(c, id, k)
    BY <1>2, <2>1, <2>2 DEF Board!Get
  <2> QED BY <2>3 DEF Board!Next
<1> QED BY <1>3, <1>4

\* The second half of a get answers not found for an id the board does not show.
LEMMA GetExpireImplements ==
    ASSUME TypeOK, TypeOK', GoneNotStored, GoneNotStored', UpgradesFindTheDead,
           NEW c \in Clients, GetExpire(c)
    PROVE  [Board!Next]_(Board!vars)
<1> DEFINE id == upgrading[c]
<1>1. id \in Ids /\ id \notin Live
  BY DEF GetExpire, UpgradesFindTheDead, StillExpired, Live, GoneNotStored, TypeOK
<1>2. PICK k \in Keys : TRUE
  BY VocabularyAssumption
<1>3. MapStep
  BY GetExpireStep
<1>4. /\ Live' = Live
      /\ \A i \in Live : records'[i] = records[i]
      /\ Stored' \subseteq Stored
  <2>1. CASE StillExpired(id)
    <3>1. records' = Removed({id})
      BY <2>1 DEF GetExpire
    <3>2. Stored' = Stored \ {id} /\ \A i \in Stored' : records'[i] = records[i]
      BY <3>1, StoredAfterRemoval
    <3>3. clock' = clock
      BY DEF GetExpire
    <3> QED BY <1>1, <3>2, <3>3 DEF Live, Expired
  <2>2. CASE ~StillExpired(id)
    BY <2>2 DEF GetExpire, mapVars, Live, Stored, Expired
  <2> QED BY <2>1, <2>2
<1>5. BoardSpent' = BoardSpent
  BY <1>3, <1>4, SpentGrows
<1>6. [i \in Ids |-> BoardEntry(i)]' = [i \in Ids |-> BoardEntry(i)]
  <2>1. ASSUME NEW i \in Ids PROVE BoardEntry(i)' = BoardEntry(i)
    BY <1>4, BoardShowsLive
  <2> QED BY <2>1
<1>7. answer' = [answer EXCEPT ![c] = [id |-> id, found |-> Absent]]
  BY DEF GetExpire, Answer
<1>8. Board!Get(c, id, k)
  BY <1>1, <1>5, <1>6, <1>7, BoardShowsLive DEF Board!Get
<1> QED BY <1>1, <1>2, <1>8 DEF Board!Next

\* Every step of the store is a step of the board or invisible on it.
LEMMA StepImplements ==
    ASSUME IInv, IInv', [Next]_vars
    PROVE  [Board!Next]_(Board!vars)
<1> USE DEF IInv
<1>1. CASE SweepEnd
  <2>1. answer' = answer
    BY <1>1 DEF SweepEnd, getVars, countVars
  <2>2. PICK ids : records' = Removed(ids)
    BY <1>1 DEF SweepEnd
  <2>3. Stored' \subseteq Stored /\ \A i \in Stored' : records'[i] = records[i]
    BY <2>2, StoredAfterRemoval
  <2> QED BY <1>1, <2>1, <2>3, SweepEndStep, ShrinkForgets
<1>2. CASE Quiet
  <2>1. CASE answer' = answer
    BY <1>2, <2>1, QuietStep, ShrinkForgets
  <2>2. CASE answer' # answer
    BY <1>2, <2>2, GetReadImplements
    DEF Quiet, Counts, SweepBegin, CountRead, SetCurrent, ReloadConfig, Tick, vars, getVars, countVars
  <2> QED BY <2>1, <2>2
<1> QED BY <1>1, <1>2, StepCases, PutImplements, UpdateImplements, MetadataImplements,
           GetExpireImplements

\* The in-memory store implements the contract of the StatusStore trait: locks,
\* clock, evictions, lazy expiry and sweep included.
THEOREM Refinement == Spec => ImplementsBoard
<1>1. Init => Board!Init
  <2> SUFFICES ASSUME Init PROVE Board!Init
    OBVIOUS
  <2>1. Stored = {} /\ gone = {}
    BY DEF Init, Stored
  <2> QED BY <2>1 DEF Init, Board!Init, BoardEntry, BoardSpent
<1>2. IInv /\ IInv' /\ [Next]_vars => [Board!Next]_(Board!vars)
  BY StepImplements
<1> QED BY <1>1, <1>2, Invariant, PTL DEF Spec, ImplementsBoard, Board!Spec

-----------------------------------------------------------------------------
(* What the store does over time: which records it loses before their      *)
(* time, how large it grows, and that outcomes clients have seen stay as   *)
(* they were.                                                              *)

\* A sweep works with an instant that has passed.
SweepInPast == sweepNow <= clock

\* The clock a sweep has read is never ahead.
LEMMA SweepBehind == Spec => []SweepInPast
<1>1. Init => SweepInPast
  BY DEF Init, SweepInPast, NotSweeping
<1>2. TypeOK /\ SweepInPast /\ [Next]_vars => SweepInPast'
  <2> SUFFICES ASSUME TypeOK, SweepInPast, [Next]_vars PROVE SweepInPast'
    OBVIOUS
  <2>1. CASE SweepBegin
    BY <2>1 DEF SweepBegin, SweepInPast, TypeOK
  <2>2. CASE SweepEnd
    BY <2>2 DEF SweepEnd, SweepInPast, TypeOK, NotSweeping
  <2>3. CASE Tick
    BY <2>3 DEF Tick, SweepInPast, TypeOK, NotSweeping
  <2>4. CASE sweepNow' = sweepNow /\ clock' = clock
    BY <2>4 DEF SweepInPast
  <2> QED BY <2>1, <2>2, <2>3, <2>4
          DEF Next, PutFresh, PutReceived, SetRecipientMetadata, UpdateStatus, GetRead,
              GetExpire, CountRead, SetCurrent, ReloadConfig, vars
<1> QED BY <1>1, <1>2, TypeCorrect, PTL DEF Spec

\* An insert: what goes is a victim, and there is one only at the cap.
LEMMA PutLoss ==
    ASSUME TypeOK, NEW id \in Ids, NEW k \in Keys, PutFresh(id, k)
    PROVE  \/ Stored' = Stored
           \/ \E victims \in Victims :
                 id \notin Stored /\ Stored' = (Stored \ victims) \cup {id}
<1>1. PICK lag \in 0 .. MaxLag, ttl \in Ttls :
         lag <= clock /\ PutReceived(id, k, clock - lag, ttl)
  BY DEF PutFresh
<1>2. CASE id \in Stored
  BY <1>1, <1>2 DEF PutReceived, mapVars, Stored
<1>3. CASE id \notin Stored
  <2>1. PICK victims \in Victims :
           records' = [Removed(victims) EXCEPT ![id] = NewReceived(k, clock - lag, ttl)]
    BY <1>1, <1>3 DEF PutReceived
  <2>2. NewReceived(k, clock - lag, ttl) \in Record
    BY <1>1, NewReceivedType, StoreAssumption DEF TypeOK
  <2>3. Stored' = (Stored \ victims) \cup {id}
    BY <1>3, <2>1, <2>2, VictimsType, StoredAfterPut
  <2> QED BY <1>3, <2>3
<1> QED BY <1>2, <1>3

\* A completed sweep: what is left of the unexpired records is within the cap.
LEMMA SweepLoss ==
    ASSUME TypeOK, SweepEnd
    PROVE  \E evicted \in SweepEvictions(Stored \ SweepExpired) :
              Stored' = Stored \ (SweepExpired \cup evicted)
<1>1. PICK evicted \in SweepEvictions(Stored \ SweepExpired) :
         records' = Removed(SweepExpired \cup evicted)
  BY DEF SweepEnd
<1> QED BY <1>1, StoredAfterRemoval

\* No record leaves the map before its time unless the table is at its cap.
THEOREM EarlyLoss == Spec => EarlyLossOnlyAtCap
<1> DEFINE Lost == \A id \in Stored \ Stored' :
                      \/ records[id].expires <= clock
                      \/ Cardinality(Stored) >= maxRecords
<1>1. TypeOK /\ SweepInPast /\ [Next]_vars => Lost
  <2> SUFFICES ASSUME TypeOK, SweepInPast, [Next]_vars, NEW id \in Stored \ Stored'
               PROVE  records[id].expires <= clock \/ Cardinality(Stored) >= maxRecords
    OBVIOUS
  <2>1. ASSUME NEW new \in Ids, NEW k \in Keys, PutFresh(new, k)
        PROVE  Cardinality(Stored) >= maxRecords
    BY <2>1, PutLoss DEF Victims
  <2>2. ASSUME NEW c \in Clients, GetExpire(c)
        PROVE  records[id].expires <= clock
    <3>1. StillExpired(upgrading[c]) /\ records' = Removed({upgrading[c]})
      BY <2>2 DEF GetExpire, mapVars, Stored
    <3>2. id = upgrading[c]
      BY <3>1 DEF Removed, Stored
    <3>3. records[id] \in Record
      BY DEF Stored, TypeOK
    <3> QED BY <3>1, <3>2, <3>3 DEF StillExpired, Expired, Record, TypeOK
  <2>3. ASSUME SweepEnd
        PROVE  records[id].expires <= clock \/ Cardinality(Stored) >= maxRecords
    <3>1. PICK evicted \in SweepEvictions(Stored \ SweepExpired) :
             Stored' = Stored \ (SweepExpired \cup evicted)
      BY <2>3, SweepLoss
    <3>2. CASE id \in SweepExpired
      <4>1. records[id].expires \in Nat /\ sweepNow \in Int /\ clock \in Nat
        BY DEF TypeOK, Stored, Record, NotSweeping
      <4> QED BY <3>2, <4>1 DEF SweepExpired, SweepInPast
    <3>3. CASE id \in evicted
      <4> DEFINE kept == Stored \ SweepExpired
      <4>1. /\ IsFiniteSet(kept) /\ Cardinality(kept) \in Nat
            /\ IsFiniteSet(Stored) /\ Cardinality(Stored) \in Nat
            /\ Cardinality(kept) <= Cardinality(Stored)
        BY StoredFinite, FS_Subset DEF Stored
      <4>2. IsFiniteSet(evicted) /\ Cardinality(evicted) # 0
        BY <3>1, <3>3, <4>1, FS_Subset, FS_EmptySet DEF SweepEvictions
      <4>3. maxRecords \in Nat
        BY StoreAssumption DEF TypeOK
      <4>4. Cardinality(kept) > maxRecords
        BY <3>1, <4>1, <4>2, <4>3 DEF SweepEvictions
      <4> QED BY <4>1, <4>3, <4>4
    <3> QED BY <3>1, <3>2, <3>3
  <2>4. ASSUME Stored' = Stored PROVE FALSE
    BY <2>4
  <2> QED BY <2>1, <2>2, <2>3, <2>4, StepCases, UpdateStep, QuietStep
<1> QED BY <1>1, TypeCorrect, SweepBehind, PTL DEF Spec, EarlyLossOnlyAtCap

\* Making room costs no record that is younger than one that stays.
THEOREM OldestFirst == Spec => YoungerNeverEvictedFirst
<1> DEFINE InOrder == \A lost \in Stored \ Stored', kept \in Stored \cap Stored' :
                         \/ records[lost].expires <= clock
                         \/ records[lost].created <= records[kept].created
<1>1. TypeOK /\ SweepInPast /\ [Next]_vars => InOrder
  <2> SUFFICES ASSUME TypeOK, SweepInPast, [Next]_vars,
                      NEW lost \in Stored \ Stored', NEW kept \in Stored \cap Stored'
               PROVE  \/ records[lost].expires <= clock
                      \/ records[lost].created <= records[kept].created
    OBVIOUS
  <2>1. ASSUME NEW new \in Ids, NEW k \in Keys, PutFresh(new, k)
        PROVE  records[lost].created <= records[kept].created
    <3>1. PICK victims \in Victims : Stored' = (Stored \ victims) \cup {new}
      BY <2>1, PutLoss
    <3> QED BY <3>1 DEF Victims, Oldest
  <2>2. ASSUME NEW c \in Clients, GetExpire(c)
        PROVE  records[lost].expires <= clock
    <3>1. StillExpired(upgrading[c]) /\ records' = Removed({upgrading[c]})
      BY <2>2 DEF GetExpire, mapVars, Stored
    <3>2. lost = upgrading[c]
      BY <3>1 DEF Removed, Stored
    <3>3. records[lost] \in Record
      BY DEF Stored, TypeOK
    <3> QED BY <3>1, <3>2, <3>3 DEF StillExpired, Expired, Record, TypeOK
  <2>3. ASSUME SweepEnd
        PROVE  \/ records[lost].expires <= clock
               \/ records[lost].created <= records[kept].created
    <3>1. PICK evicted \in SweepEvictions(Stored \ SweepExpired) :
             Stored' = Stored \ (SweepExpired \cup evicted)
      BY <2>3, SweepLoss
    <3>2. CASE lost \in SweepExpired
      <4>1. records[lost].expires \in Nat /\ sweepNow \in Int /\ clock \in Nat
        BY DEF TypeOK, Stored, Record, NotSweeping
      <4> QED BY <3>2, <4>1 DEF SweepExpired, SweepInPast
    <3>3. CASE lost \in evicted
      BY <3>1, <3>3 DEF SweepEvictions
    <3> QED BY <3>1, <3>2, <3>3
  <2>4. ASSUME Stored' = Stored PROVE FALSE
    BY <2>4
  <2> QED BY <2>1, <2>2, <2>3, <2>4, StepCases, UpdateStep, QuietStep
<1> QED BY <1>1, TypeCorrect, SweepBehind, PTL DEF Spec, YoungerNeverEvictedFirst

\* The cap bounds growth, and every completed sweep is back under it.
THEOREM CapHolds == Spec => CapEnforced
<1> DEFINE Grows == Cardinality(Stored') > Cardinality(Stored) =>
                       Cardinality(Stored') <= (IF maxRecords = 0 THEN 1 ELSE maxRecords)
           Swept == (sweepNow # NotSweeping /\ sweepNow' = NotSweeping) =>
                       Cardinality(Stored') <= maxRecords
<1>1. TypeOK /\ [Next]_vars => Grows /\ Swept
  <2> SUFFICES ASSUME TypeOK, [Next]_vars PROVE Grows /\ Swept
    OBVIOUS
  <2>1. /\ IsFiniteSet(Stored) /\ Cardinality(Stored) \in Nat
        /\ maxRecords \in Nat
    BY StoredFinite, StoreAssumption DEF Stored, TypeOK
  <2>2. ASSUME Stored' \subseteq Stored PROVE Grows
    <3>1. Cardinality(Stored') <= Cardinality(Stored) /\ Cardinality(Stored') \in Nat
      BY <2>1, <2>2, FS_Subset, FS_CardinalityType
    <3> QED BY <2>1, <3>1
  <2>3. ASSUME NEW id \in Ids, NEW k \in Keys, PutFresh(id, k) PROVE Grows
    <3>1. CASE Stored' = Stored
      BY <2>2, <3>1
    <3>2. ASSUME NEW victims \in Victims, id \notin Stored,
                 Stored' = (Stored \ victims) \cup {id}
          PROVE  Grows
      <4>1. CASE victims = {}
        <5>1. Cardinality(Stored') = Cardinality(Stored) + 1
          BY <2>1, <3>2, <4>1, FS_AddElement
        <5>2. Cardinality(Stored) < maxRecords \/ Stored = {}
          BY <2>1, <3>2, <4>1 DEF Victims, Oldest
        <5>3. Stored = {} => Cardinality(Stored) = 0
          BY FS_EmptySet
        <5> QED BY <2>1, <5>1, <5>2, <5>3
      <4>2. ASSUME NEW old \in Stored, victims = {old}
            PROVE  Grows
        <5>1. /\ Cardinality(Stored \ {old}) = Cardinality(Stored) - 1
              /\ IsFiniteSet(Stored \ {old})
          BY <2>1, <4>2, FS_RemoveElement
        <5>2. Cardinality((Stored \ {old}) \cup {id}) = Cardinality(Stored \ {old}) + 1
          BY <3>2, <5>1, FS_AddElement
        <5> QED BY <2>1, <3>2, <4>2, <5>1, <5>2
      <4> QED BY <3>2, <4>1, <4>2 DEF Victims, Oldest
    <3> QED BY <2>3, <3>1, <3>2, PutLoss
  <2>4. ASSUME NEW c \in Clients, GetExpire(c) PROVE Grows
    BY <2>2, <2>4, GetExpireStep
  <2>5. ASSUME SweepEnd PROVE Grows /\ Cardinality(Stored') <= maxRecords
    <3>1. PICK evicted \in SweepEvictions(Stored \ SweepExpired) :
             Stored' = Stored \ (SweepExpired \cup evicted)
      BY <2>5, SweepLoss
    <3> DEFINE kept == Stored \ SweepExpired
    <3>2. IsFiniteSet(kept) /\ Cardinality(kept) \in Nat
      BY StoredFinite DEF Stored
    <3>3. /\ evicted \subseteq kept /\ kept \cap evicted = evicted
          /\ Cardinality(evicted) = (IF Cardinality(kept) > maxRecords
                                     THEN Cardinality(kept) - maxRecords ELSE 0)
      BY <3>1 DEF SweepEvictions
    <3>4. Cardinality(kept \ evicted) = Cardinality(kept) - Cardinality(evicted)
      <4>1. IsFiniteSet(evicted)
        BY <3>2, <3>3, FS_Subset
      <4>2. Cardinality(kept \ evicted) = Cardinality(kept) - Cardinality(kept \cap evicted)
        BY <3>2, <4>1, FS_Difference
      <4> QED BY <3>3, <4>2
    <3>5. Stored' = kept \ evicted
      BY <3>1
    <3>6. Cardinality(Stored') <= maxRecords
      BY <2>1, <3>2, <3>3, <3>4, <3>5
    <3>7. Grows
      BY <2>2, <3>1
    <3> QED BY <3>6, <3>7
  <2>6. ASSUME ~SweepEnd PROVE Swept
    <3>1. sweepNow' = sweepNow \/ SweepBegin
      BY <2>6 DEF Next, PutFresh, PutReceived, SetRecipientMetadata, UpdateStatus, GetRead,
                  GetExpire, CountRead, SetCurrent, ReloadConfig, Tick, vars
    <3> QED BY <3>1 DEF SweepBegin
  <2>7. Grows
    BY <2>2, <2>3, <2>4, <2>5, StepCases, UpdateStep, QuietStep
  <2>8. Swept
    BY <2>5, <2>6
  <2> QED BY <2>7, <2>8
<1> QED BY <1>1, TypeCorrect, PTL DEF Spec, CapEnforced

-----------------------------------------------------------------------------
(* What clients have been told. *)

\* A terminal status any client has read is still the record's, or the record
\* is gone for good.
ReadsAgree ==
    \A c \in Clients, id \in Ids : Board!ReadTerminal(c, id) =>
        \/ id \in gone
        \/ /\ id \in Stored
           /\ records[id].status = answer[c].found.status
           /\ records[id].code = answer[c].found.code

\* An answer that changes is "not found", or shows the record as it is.
LEMMA AnswerStep ==
    ASSUME TypeOK, [Next]_vars, NEW c \in Clients, answer'[c] # answer[c]
    PROVE  \/ answer'[c].found = Absent
           \/ \E id \in Stored :
                 /\ answer'[c] = [id |-> id, found |-> View(records[id])]
                 /\ records' = records /\ gone' = gone
<1>1. PICK d \in Clients :
         GetExpire(d) \/ \E id \in Ids, k \in Keys : GetRead(d, id, k)
  BY DEF Next, PutFresh, PutReceived, SetRecipientMetadata, UpdateStatus, SweepBegin,
         SweepEnd, CountRead, SetCurrent, ReloadConfig, Tick, vars, getVars, countVars
<1>2. answer \in [Clients -> Answers \cup {Absent}]
  BY DEF TypeOK
<1>3. CASE GetExpire(d)
  BY <1>2, <1>3 DEF GetExpire, Answer
<1>4. ASSUME NEW id \in Ids, NEW k \in Keys, GetRead(d, id, k)
      PROVE  \/ answer'[c].found = Absent
             \/ \E seen \in Stored :
                   /\ answer'[c] = [id |-> seen, found |-> View(records[seen])]
                   /\ records' = records /\ gone' = gone
  <2>1. records' = records /\ gone' = gone
    BY <1>4 DEF GetRead, mapVars
  <2>2. CASE Answer(d, id, Absent)
    BY <1>2, <2>2 DEF Answer
  <2>3. CASE id \in Stored /\ Answer(d, id, View(records[id]))
    BY <1>2, <2>1, <2>3 DEF Answer
  <2> QED BY <1>4, <2>2, <2>3 DEF GetRead
<1> QED BY <1>1, <1>3, <1>4

\* ReadsAgree is inductive: outcomes are frozen while the record is in the map.
LEMMA ReadsStep ==
    ASSUME TypeOK, TypeOK', ReadsAgree, [Next]_vars
    PROVE  ReadsAgree'
<1> SUFFICES ASSUME NEW c \in Clients, NEW id \in Ids, Board!ReadTerminal(c, id)'
             PROVE  \/ id \in gone'
                    \/ /\ id \in Stored'
                       /\ records'[id].status = answer'[c].found.status
                       /\ records'[id].code = answer'[c].found.code
  BY DEF ReadsAgree
<1>1. CASE answer'[c] # answer[c]
  <2>1. PICK seen \in Stored :
           /\ answer'[c] = [id |-> seen, found |-> View(records[seen])]
           /\ records' = records /\ gone' = gone
    BY <1>1, AnswerStep DEF Board!ReadTerminal
  <2>2. seen = id /\ Stored' = Stored
    BY <2>1 DEF Board!ReadTerminal, Stored
  <2> QED BY <2>1, <2>2 DEF View
<1>2. CASE answer'[c] = answer[c]
  <2>1. MapStep
    BY EveryStepIsMapStep
  <2>2. Board!ReadTerminal(c, id)
    BY <1>2 DEF Board!ReadTerminal
  <2>3. CASE id \in gone
    BY <2>1, <2>3 DEF MapStep
  <2>4. CASE /\ id \in Stored
             /\ records[id].status = answer[c].found.status
             /\ records[id].code = answer[c].found.code
    <3>1. CASE id \notin Stored'
      BY <2>1, <2>4, <3>1 DEF MapStep
    <3>2. CASE id \in Stored'
      <4>1. Frozen(records[id], records'[id])
        BY <2>1, <2>4, <3>2 DEF MapStep
      <4>2. records[id].status \in Terminal
        BY <2>2, <2>4 DEF Board!ReadTerminal, Board!Terminal, Terminal
      <4> QED BY <1>2, <2>4, <3>2, <4>1, <4>2 DEF Frozen
    <3> QED BY <3>1, <3>2
  <2> QED BY <2>2, <2>3, <2>4 DEF ReadsAgree
<1> QED BY <1>1, <1>2

\* Once any lookup has returned an outcome, every later lookup of that
\* submission returns the same outcome or "not found".
THEOREM OutcomesStable == Spec => AnswersStable
<1>1. Init => ReadsAgree
  BY DEF Init, ReadsAgree, Board!ReadTerminal
<1>2. TypeOK /\ TypeOK' /\ ReadsAgree /\ [Next]_vars => ReadsAgree'
  BY ReadsStep
<1>3. Spec => []ReadsAgree
  BY <1>1, <1>2, TypeCorrect, PTL DEF Spec
<1>4. IInv /\ ReadsAgree /\ [Next]_vars => [Board!OutcomesKept]_(Board!vars)
  <2> SUFFICES ASSUME TypeOK, GoneNotStored, ReadsAgree, [Next]_vars,
                      NEW c \in Clients, NEW d \in Clients, NEW id \in Ids,
                      Board!ReadTerminal(c, id), answer'[d] # answer[d],
                      answer'[d].id = id, answer'[d].found # Absent
               PROVE  /\ answer'[d].found.status = answer[c].found.status
                      /\ answer'[d].found.code = answer[c].found.code
    BY DEF IInv, Board!OutcomesKept
  <2>1. PICK seen \in Stored :
           answer'[d] = [id |-> seen, found |-> View(records[seen])]
    BY AnswerStep
  <2>2. seen = id /\ id \notin gone
    BY <2>1 DEF GoneNotStored
  <2>3. /\ records[id].status = answer[c].found.status
        /\ records[id].code = answer[c].found.code
    BY <2>2 DEF ReadsAgree
  <2> QED BY <2>1, <2>2, <2>3 DEF View
<1> QED BY <1>3, <1>4, Invariant, PTL
        DEF Spec, AnswersStable, Board!AnswersNeverRegress
===============================================================================
