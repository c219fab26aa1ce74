--------------------------- MODULE SendMail_proofs ---------------------------
(***************************************************************************)
(* Proofs about POST /v1/send: record, answer and the fate of the message  *)
(* agree, for any number of requests, keys, lifetimes, caps and timers.    *)
(***************************************************************************)
EXTENDS SendMail, FiniteSetTheorems, TLAPS

\* The store's vocabulary is that of this module.
LEMMA SameVocabulary ==
    /\ Store!Record = Record /\ Store!Terminal = Terminal
    /\ \A k, created, ttl : Store!NewReceived(k, created, ttl) = NewReceived(k, created, ttl)
BY DEF Store!Record, Record, Store!Statuses, Statuses, Store!Terminal, Terminal,
       Store!NewReceived, NewReceived

\* The store's Cardinality is the one of this module.
LEMMA SameCardinality == ASSUME NEW S PROVE Store!Cardinality(S) = Cardinality(S)
BY DEF Store!Cardinality, Cardinality

-----------------------------------------------------------------------------
(* What a call on the store may do to the records of others. *)

\* Time does not run backwards, and of these requests no record appears or changes.
Untouched(others) ==
    /\ clock <= clock'
    /\ \A q \in others : q \in Store!Stored' =>
          q \in Store!Stored /\ records'[q] = records[q]

\* A record untouched and live after a step was live before.
LEMMA LiveBefore ==
    ASSUME TypeOK, Store!TypeOK', NEW q \in Ids, Untouched({q}), owner'[q] = owner[q], Live(q)'
    PROVE  Live(q) /\ records'[q] = records[q] /\ q \in Store!Stored
<1>1. q \in Store!Stored /\ records'[q] = records[q] /\ clock <= clock'
  BY DEF Untouched, Live, Store!LiveFor
<1>2. records[q] \in Record /\ clock \in Nat /\ clock' \in Nat
  BY <1>1, SameVocabulary DEF TypeOK, Store!TypeOK, Store!Stored
<1>3. records[q].expires \in Nat
  BY <1>2 DEF Record
<1> QED  BY <1>1, <1>2, <1>3 DEF Live, Store!LiveFor, Store!Expired

\* put_received of a fresh id: the new record is as new_received makes it.
LEMMA PutEffect ==
    ASSUME TypeOK, NEW r \in Ids, NEW k \in Keys, Store!PutFresh(r, k)
    PROVE  /\ Store!TypeOK'
           /\ Untouched(Ids \ {r})
           /\ r \notin Store!Stored /\ r \in Store!Stored' =>
                 records'[r].key = k /\ records'[r].status = "received"
<1>1. PICK lag \in 0 .. MaxLag, ttl \in Ttls :
         lag <= clock /\ Store!PutReceived(r, k, clock - lag, ttl)
  BY DEF Store!PutFresh
<1> DEFINE new == NewReceived(k, clock - lag, ttl)
<1>2. /\ clock \in Nat /\ gauge \in Int
      /\ records \in [Ids -> Record \cup {Absent}] /\ gone \subseteq Ids
  BY SameVocabulary DEF TypeOK, Store!TypeOK
<1>3. new \in Record
  <2>1. lag \in Nat /\ ttl \in Nat /\ clock - lag \in Nat
    BY <1>1, <1>2, SendMailAssumption
  <2> QED  BY <2>1, VocabularyAssumption DEF NewReceived, Record, Statuses
<1>4. new.key = k /\ new.status = "received"
  BY DEF NewReceived
<1>5. UNCHANGED <<expiredTotal, maxRecords, clock, sweepNow, upgrading, answer>>
  BY <1>1 DEF Store!PutReceived, Store!getVars
<1> HIDE DEF new
<1>6. CASE r \in Store!Stored
  <2>1. UNCHANGED <<records, gone, gauge>>
    BY <1>1, <1>6 DEF Store!PutReceived, Store!mapVars
  <2> QED  BY <1>2, <1>5, <1>6, <2>1 DEF TypeOK, Store!TypeOK, Untouched, Store!Stored
<1>7. CASE r \notin Store!Stored
  <2>1. PICK victims \in Store!Victims :
           /\ records' = [Store!Removed(victims) EXCEPT ![r] = new]
           /\ gone' = gone \cup victims
           /\ gauge' = gauge + 1
    BY <1>1, <1>7, SameVocabulary DEF Store!PutReceived, new
  <2>2. victims \subseteq Ids
    BY DEF Store!Victims, Store!Oldest, Store!Stored
  <2>3. Store!Removed(victims) \in [Ids -> Record \cup {Absent}]
    BY <1>2 DEF Store!Removed
  <2>4. records' \in [Ids -> Record \cup {Absent}] /\ records'[r] = new
    BY <1>3, <2>1, <2>3
  <2>5. Store!TypeOK'
    BY <1>2, <1>5, <2>1, <2>2, <2>4, SameVocabulary DEF TypeOK, Store!TypeOK
  <2>6. \A q \in Ids \ {r} : records'[q] \in {records[q], Absent}
    BY <2>1, <2>3 DEF Store!Removed
  <2> QED  BY <1>2, <1>4, <1>5, <2>4, <2>5, <2>6 DEF Untouched, Store!Stored
<1> QED  BY <1>6, <1>7

\* A call that changes at most some fields of one live record, or nothing.
LEMMA RewriteEffect ==
    ASSUME TypeOK, NEW r \in Ids,
           \/ records' = records
           \/ \E new \in Record : r \in Store!Stored /\ records' = [records EXCEPT ![r] = new],
           UNCHANGED <<gone, gauge, expiredTotal, maxRecords, clock, sweepNow, upgrading, answer>>
    PROVE  Store!TypeOK' /\ Untouched(Ids \ {r})
<1>1. /\ records \in [Ids -> Record \cup {Absent}] /\ clock \in Nat
  BY SameVocabulary DEF TypeOK, Store!TypeOK
<1>2. /\ records' \in [Ids -> Record \cup {Absent}]
      /\ \A q \in Ids \ {r} : records'[q] = records[q]
  BY <1>1
<1>3. Store!TypeOK'
  BY <1>2, SameVocabulary DEF TypeOK, Store!TypeOK
<1> QED  BY <1>1, <1>2, <1>3 DEF Untouched, Store!Stored

\* update_status: a live record that is not terminal gets the status and the code.
LEMMA UpdateEffect ==
    ASSUME TypeOK, NEW r \in Ids, NEW k \in Keys \cup {Absent}, NEW status \in Updates,
           NEW code \in Codes, Store!UpdateStatus(r, k, status, code)
    PROVE  /\ Store!TypeOK'
           /\ Untouched(Ids \ {r})
           /\ Store!LiveFor(r, k)' => Store!LiveFor(r, k)
           /\ r \in Store!Stored' => r \in Store!Stored /\ records'[r].key = records[r].key
           /\ Store!LiveFor(r, k) /\ records[r].status \notin Terminal =>
                 /\ records'[r].status = status /\ records'[r].code = code
                 /\ records'[r].described = records[r].described
<1>1. UNCHANGED <<gone, gauge, expiredTotal, maxRecords, clock, sweepNow, upgrading, answer>>
  BY DEF Store!UpdateStatus, Store!counters, Store!getVars
<1>2. CASE Store!MayUpdate(r, k)
  <2> DEFINE new == [records[r] EXCEPT !.status = status, !.code = code]
  <2>1. r \in Store!Stored /\ records[r] \in Record /\ records \in [Ids -> Record \cup {Absent}]
    BY <1>2, SameVocabulary
       DEF Store!MayUpdate, Store!LiveFor, Store!Stored, TypeOK, Store!TypeOK
  <2>2. status \in Statuses
    BY VocabularyAssumption
  <2>3. /\ new \in Record
        /\ new.status = status /\ new.code = code /\ new.key = records[r].key
        /\ new.described = records[r].described /\ new.expires = records[r].expires
    BY <2>1, <2>2 DEF Record
  <2>4. records' = [records EXCEPT ![r] = new]
    BY <1>2, <2>1 DEF Store!UpdateStatus
  <2> HIDE DEF new
  <2>5. records'[r] = new
    BY <2>1, <2>4
  <2>6. Store!TypeOK' /\ Untouched(Ids \ {r})
    BY <1>1, <2>1, <2>3, <2>4, RewriteEffect
  <2> QED  BY <1>1, <2>1, <2>3, <2>5, <2>6 DEF Store!LiveFor, Store!Stored, Store!Expired
<1>3. CASE ~Store!MayUpdate(r, k)
  <2>1. records' = records
    BY <1>3 DEF Store!UpdateStatus
  <2>2. Store!TypeOK' /\ Untouched(Ids \ {r})
    BY <1>1, <2>1, RewriteEffect
  <2> QED  BY <1>1, <1>3, <2>1, <2>2, SameVocabulary
           DEF Store!LiveFor, Store!Stored, Store!Expired, Store!MayUpdate
<1> QED  BY <1>2, <1>3

\* set_recipient_metadata: a live record is described.
LEMMA MetadataEffect ==
    ASSUME TypeOK, NEW r \in Ids, NEW k \in Keys \cup {Absent},
           Store!SetRecipientMetadata(r, k)
    PROVE  /\ Store!TypeOK'
           /\ Untouched(Ids \ {r})
           /\ Store!LiveFor(r, k)' => Store!LiveFor(r, k)
           /\ r \in Store!Stored' => r \in Store!Stored /\ records'[r].key = records[r].key
           /\ Store!LiveFor(r, k) =>
                 records'[r].described /\ records'[r].status = records[r].status
<1>1. UNCHANGED <<gone, gauge, expiredTotal, maxRecords, clock, sweepNow, upgrading, answer>>
  BY DEF Store!SetRecipientMetadata, Store!counters, Store!getVars
<1>2. CASE Store!LiveFor(r, k)
  <2> DEFINE new == [records[r] EXCEPT !.described = TRUE]
  <2>1. r \in Store!Stored /\ records[r] \in Record /\ records \in [Ids -> Record \cup {Absent}]
    BY <1>2, SameVocabulary DEF Store!LiveFor, Store!Stored, TypeOK, Store!TypeOK
  <2>2. /\ new \in Record
        /\ new.status = records[r].status /\ new.key = records[r].key
        /\ new.described /\ new.expires = records[r].expires
    BY <2>1 DEF Record
  <2>3. records' = [records EXCEPT ![r] = new]
    BY <1>2, <2>1 DEF Store!SetRecipientMetadata
  <2> HIDE DEF new
  <2>4. records'[r] = new
    BY <2>1, <2>3
  <2>5. Store!TypeOK' /\ Untouched(Ids \ {r})
    BY <1>1, <2>1, <2>2, <2>3, RewriteEffect
  <2> QED  BY <1>1, <2>1, <2>2, <2>4, <2>5 DEF Store!LiveFor, Store!Stored, Store!Expired
<1>3. CASE ~Store!LiveFor(r, k)
  <2>1. records' = records
    BY <1>3 DEF Store!SetRecipientMetadata
  <2>2. Store!TypeOK' /\ Untouched(Ids \ {r})
    BY <1>1, <2>1, RewriteEffect
  <2> QED  BY <1>1, <1>3, <2>1, <2>2 DEF Store!LiveFor, Store!Stored, Store!Expired
<1> QED  BY <1>2, <1>3

\* The sweep, SIGHUP and time make no record and change none.
LEMMA StoreStepEffect ==
    ASSUME TypeOK, StoreStep
    PROVE  Store!TypeOK' /\ Untouched(Ids) /\ UNCHANGED handlerVars
<1>1. /\ records \in [Ids -> Record \cup {Absent}] /\ clock \in Nat /\ gone \subseteq Ids
      /\ gauge \in Int /\ expiredTotal \in Nat
  BY SameVocabulary DEF TypeOK, Store!TypeOK
<1>2. CASE Store!SweepEnd
  <2>1. PICK evicted \in Store!SweepEvictions(Store!Stored \ Store!SweepExpired) :
           /\ records' = Store!Removed(Store!SweepExpired \cup evicted)
           /\ gone' = gone \cup Store!SweepExpired \cup evicted
    BY <1>2 DEF Store!SweepEnd
  <2>2. Store!SweepExpired \subseteq Ids /\ evicted \subseteq Ids
    BY DEF Store!SweepExpired, Store!SweepEvictions, Store!Stored
  <2>3. Cardinality(Store!SweepExpired) \in Nat
    BY <2>2, SendMailAssumption, FS_Subset, FS_CardinalityType
  <2>4. /\ records' \in [Ids -> Record \cup {Absent}]
        /\ \A q \in Ids : records'[q] \in {records[q], Absent}
    BY <1>1, <2>1 DEF Store!Removed
  <2>5. /\ expiredTotal' = expiredTotal + Cardinality(Store!SweepExpired)
        /\ gauge' = gauge - Cardinality(Store!SweepExpired)
        /\ sweepNow' = Store!NotSweeping
        /\ UNCHANGED <<maxRecords, clock, upgrading, answer>>
    BY <1>2, SameCardinality DEF Store!SweepEnd, Store!getVars
  <2>6. Store!TypeOK'
    <3>1. /\ gone' \subseteq Ids
          /\ expiredTotal' \in Nat /\ gauge' \in Int
      BY <1>1, <2>1, <2>2, <2>3, <2>5
    <3>2. records' \in [Ids -> Store!Record \cup {Absent}]
      BY <2>4, SameVocabulary
    <3> QED  BY <2>5, <3>1, <3>2 DEF TypeOK, Store!TypeOK
  <2> QED  BY <1>1, <2>4, <2>5, <2>6 DEF Untouched, Store!Stored, StoreStep
<1>3. CASE \/ Store!SweepBegin
           \/ \E cap \in Caps : Store!ReloadConfig(cap)
           \/ Store!Tick
  <2>1. UNCHANGED <<records, gone, gauge, expiredTotal, upgrading, answer>>
    BY <1>3 DEF Store!SweepBegin, Store!ReloadConfig, Store!Tick, Store!mapVars,
                Store!counters, Store!getVars
  <2>2. /\ clock' \in Nat /\ clock <= clock' /\ maxRecords' \in Caps
        /\ sweepNow' \in Nat \cup {Store!NotSweeping}
    BY <1>1, <1>3
       DEF Store!SweepBegin, Store!ReloadConfig, Store!Tick, TypeOK, Store!TypeOK
  <2>3. Store!TypeOK'
    BY <2>1, <2>2 DEF TypeOK, Store!TypeOK
  <2> QED  BY <1>1, <2>1, <2>2, <2>3 DEF Untouched, Store!Stored, StoreStep
<1> QED  BY <1>2, <1>3 DEF StoreStep

-----------------------------------------------------------------------------
(* The inductive invariant. *)

\* What the handler has told the client once it is done, and what its record says.
Concluded(r) ==
    \/ /\ records[r].status = "rejected"
       /\ mail[r] = "unsent"
       /\ response[r] \notin {"accepted"} \cup SmtpErrors
    \/ /\ records[r].status = "smtp_accepted"
       /\ mail[r] = "accepted"
       /\ response[r] = "accepted"
       /\ records[r].described
    \/ /\ records[r].status = "smtp_failed"
       /\ response[r] \in SmtpErrors
       /\ records[r].code = response[r]
       /\ records[r].described

\* A record that is live is as far as its handler has come.
RecordFollows(r) ==
    Live(r) =>
        /\ pc[r] = "checks" => records[r].status = "received"
        /\ pc[r] = "build" => records[r].status = "received" /\ records[r].described
        /\ pc[r] \in {"submitting", "dropped", "left"} =>
              records[r].status = "smtp_submission_started" /\ records[r].described
        /\ pc[r] = "done" => Concluded(r)

\* There is no record before Receive, no message before Submit, and a record belongs
\* to the key that made it.
Early(r) ==
    /\ pc[r] \in {"queued", "idle"} => r \notin Store!Stored
    /\ pc[r] \in {"queued", "idle", "checks", "build"} => mail[r] = "unsent"
    /\ r \in Store!Stored => records[r].key = owner[r]

Told(r) == RecordFollows(r) /\ Early(r)

IInv == TypeOK /\ \A r \in Ids : Told(r)

\* At first there is no record, and no handler has begun.
LEMMA InitInvariant == Init => IInv
<1> SUFFICES ASSUME Init PROVE IInv
  OBVIOUS
<1>1. Store!TypeOK
  BY SendMailAssumption DEF Init, Store!Init, Store!TypeOK, Store!NotSweeping
<1>2. TypeOK
  BY <1>1 DEF Init, TypeOK, Stages, InFlightStages
<1>3. \A r \in Ids : r \notin Store!Stored
  BY DEF Init, Store!Init, Store!Stored
<1>4. ASSUME NEW r \in Ids PROVE Told(r)
  BY <1>3 DEF Init, Told, RecordFollows, Early, Live, Store!LiveFor
<1> QED  BY <1>2, <1>4 DEF IInv

\* Requests that a step leaves alone keep their story.
LEMMA OthersStay ==
    ASSUME IInv, TypeOK', NEW q \in Ids, Untouched({q}),
           pc'[q] = pc[q], owner'[q] = owner[q], mail'[q] = mail[q], response'[q] = response[q]
    PROVE  Told(q)'
<1>1. Store!TypeOK' /\ Told(q)
  BY DEF TypeOK, IInv
<1>2. q \in Store!Stored' => q \in Store!Stored /\ records'[q] = records[q]
  BY DEF Untouched
<1>3. Live(q)' => Live(q) /\ records'[q] = records[q]
  BY <1>1, LiveBefore DEF IInv
<1>4. RecordFollows(q)'
  BY <1>1, <1>3 DEF Told, RecordFollows, Concluded
<1>5. Early(q)'
  BY <1>1, <1>2 DEF Told, Early
<1> QED  BY <1>4, <1>5 DEF Told

\* A step of request r: the story of r is to be shown, the others keep theirs.
LEMMA OwnStep ==
    ASSUME IInv, NEW r \in Ids, Store!TypeOK', Untouched(Ids \ {r}),
           NEW to \in Stages, pc' = [pc EXCEPT ![r] = to],
           NEW k \in Keys \cup {Absent}, owner' = [owner EXCEPT ![r] = k],
           NEW m \in {"unsent", "offered", "accepted", "refused"}, mail' = [mail EXCEPT ![r] = m],
           NEW code \in ResponseCodes \cup {Absent}, response' = [response EXCEPT ![r] = code],
           UNCHANGED timers,
           Told(r)'
    PROVE  IInv'
<1>1. TypeOK'
  BY DEF IInv, TypeOK
<1>2. ASSUME NEW q \in Ids \ {r} PROVE Told(q)'
  <2>1. Untouched({q})
    BY DEF Untouched
  <2>2. pc'[q] = pc[q] /\ owner'[q] = owner[q] /\ mail'[q] = mail[q] /\ response'[q] = response[q]
    BY DEF IInv, TypeOK
  <2> QED  BY <1>1, <2>1, <2>2, OthersStay
<1> QED  BY <1>1, <1>2 DEF IInv

\* The same when owner, message and answer of r may each stay as they are.
LEMMA OwnMove ==
    ASSUME IInv, NEW r \in Ids, Store!TypeOK', Untouched(Ids \ {r}),
           NEW from \in Stages, NEW to \in Stages, Goto(r, from, to),
           UNCHANGED owner \/ \E k \in Keys : owner' = [owner EXCEPT ![r] = k],
           \/ UNCHANGED mail
           \/ \E m \in {"offered", "accepted", "refused"} : mail' = [mail EXCEPT ![r] = m],
           UNCHANGED response \/ \E code \in ResponseCodes : Respond(r, code),
           Told(r)'
    PROVE  IInv'
<1> DEFINE k == owner'[r]
           m == mail'[r]
           code == response'[r]
<1>1. /\ owner \in [Ids -> Keys \cup {Absent}] /\ response \in [Ids -> ResponseCodes \cup {Absent}]
      /\ mail \in [Ids -> {"unsent", "offered", "accepted", "refused"}] /\ pc \in [Ids -> Stages]
  BY DEF IInv, TypeOK
<1>2. k \in Keys \cup {Absent} /\ owner' = [owner EXCEPT ![r] = k]
  BY <1>1
<1>3. m \in {"unsent", "offered", "accepted", "refused"} /\ mail' = [mail EXCEPT ![r] = m]
  BY <1>1
<1>4. code \in ResponseCodes \cup {Absent} /\ response' = [response EXCEPT ![r] = code]
  BY <1>1 DEF Respond
<1>5. pc' = [pc EXCEPT ![r] = to] /\ UNCHANGED timers
  BY DEF Goto
<1> HIDE DEF k, m, code
<1> QED  BY <1>2, <1>3, <1>4, <1>5, OwnStep

\* Steps of a handler that do not call the store.
LEMMA StoreSame ==
    ASSUME IInv, UNCHANGED storeVars
    PROVE  /\ Store!TypeOK' /\ Untouched(Ids)
           /\ Store!Stored' = Store!Stored
           /\ \A r \in Ids : \A k : Store!LiveFor(r, k)' = Store!LiveFor(r, k)
BY DEF storeVars, IInv, TypeOK, Store!TypeOK, Untouched, Store!Stored, Store!LiveFor, Store!Expired

\* A permit of the concurrency limit is taken: nothing is recorded yet.
LEMMA EnterStep == ASSUME IInv, NEW r \in Ids, Enter(r) PROVE IInv'
<1>1. Goto(r, "queued", "idle") /\ UNCHANGED <<storeVars, owner, mail, response>>
  BY DEF Enter
<1>2. Told(r)'
  BY <1>1, StoreSame
     DEF IInv, TypeOK, Told, RecordFollows, Early, Goto, Live, Store!LiveFor
<1>3. Store!TypeOK' /\ Untouched(Ids \ {r})
  BY <1>1, StoreSame DEF Untouched
<1> QED  BY <1>1, <1>2, <1>3, OwnMove DEF Stages, InFlightStages

\* A request refused before its record is made leaves none.
LEMMA RefuseStep == ASSUME IInv, NEW r \in Ids, Refuse(r) PROVE IInv'
<1>1. /\ Goto(r, "idle", "done") /\ UNCHANGED <<storeVars, owner, mail>>
      /\ \E code \in ResponseCodes : Respond(r, code)
  BY DEF Refuse, ResponseCodes
<1>2. Told(r)'
  BY <1>1, StoreSame
     DEF IInv, TypeOK, Told, RecordFollows, Early, Goto, Live, Store!LiveFor
<1>3. Store!TypeOK' /\ Untouched(Ids \ {r})
  BY <1>1, StoreSame DEF Untouched
<1> QED  BY <1>1, <1>2, <1>3, OwnMove DEF Stages, InFlightStages

\* A dropped handler leaves the record where it was: not made, or in submission.
LEMMA DropStep ==
    ASSUME IInv, NEW r \in Ids, HttpTimeout(r) \/ ClientLeaves(r)
    PROVE  IInv'
<1>1. PICK from \in {"queued", "idle", "submitting"}, to \in {"dropped", "left"} :
         Goto(r, from, to)
  BY DEF HttpTimeout, ClientLeaves
<1>2. /\ UNCHANGED <<storeVars, owner, mail>>
      /\ UNCHANGED response \/ \E code \in ResponseCodes : Respond(r, code)
  BY DEF HttpTimeout, ClientLeaves, ResponseCodes
<1>3. pc[r] = from /\ pc'[r] = to
  BY <1>1 DEF Goto, IInv, TypeOK
<1>4. Told(r)'
  BY <1>2, <1>3, StoreSame DEF IInv, Told, RecordFollows, Early, Live, Store!LiveFor, storeVars
<1>5. Store!TypeOK' /\ Untouched(Ids \ {r})
  BY <1>2, StoreSame DEF Untouched
<1> QED  BY <1>1, <1>2, <1>4, <1>5, OwnMove DEF Stages, InFlightStages

\* The record is made as the handler begins its checks.
LEMMA ReceiveStep == ASSUME IInv, NEW r \in Ids, NEW k \in Keys, Receive(r, k) PROVE IInv'
<1>1. /\ Goto(r, "idle", "checks") /\ owner' = [owner EXCEPT ![r] = k]
      /\ UNCHANGED <<mail, response>> /\ Store!PutFresh(r, k)
  BY DEF Receive
<1>2. pc[r] = "idle" /\ pc'[r] = "checks" /\ owner'[r] = k
  BY <1>1 DEF Goto, IInv, TypeOK
<1>3. /\ Store!TypeOK' /\ Untouched(Ids \ {r})
      /\ r \notin Store!Stored /\ r \in Store!Stored' =>
            records'[r].key = k /\ records'[r].status = "received"
  BY <1>1, PutEffect DEF IInv
<1>4. r \notin Store!Stored /\ mail[r] = "unsent"
  BY <1>2 DEF IInv, Told, Early
<1>5. Told(r)'
  BY <1>1, <1>2, <1>3, <1>4 DEF Told, RecordFollows, Early, Live, Store!LiveFor
<1> QED  BY <1>1, <1>3, <1>5, OwnMove DEF Stages, InFlightStages

\* A step of r that updates its record: where the record is live and in progress, it
\* now has this status and code.
LEMMA UpdateStep ==
    ASSUME IInv, NEW r \in Ids, NEW status \in Updates, NEW code \in Codes,
           Store!UpdateStatus(r, owner[r], status, code), UNCHANGED owner,
           pc[r] \in {"checks", "build", "submitting"}
    PROVE  /\ Store!TypeOK' /\ Untouched(Ids \ {r})
           /\ r \in Store!Stored' => records'[r].key = owner'[r]
           /\ Live(r)' => /\ Live(r)
                          /\ records'[r].status = status /\ records'[r].code = code
                          /\ records'[r].described = records[r].described
<1>1. owner[r] \in Keys \cup {Absent} /\ Told(r) /\ TypeOK
  BY DEF IInv, TypeOK
<1>2. /\ Store!TypeOK' /\ Untouched(Ids \ {r})
      /\ Store!LiveFor(r, owner[r])' => Store!LiveFor(r, owner[r])
      /\ r \in Store!Stored' => r \in Store!Stored /\ records'[r].key = records[r].key
      /\ Store!LiveFor(r, owner[r]) /\ records[r].status \notin Terminal =>
            /\ records'[r].status = status /\ records'[r].code = code
            /\ records'[r].described = records[r].described
  BY <1>1, UpdateEffect
<1>3. Live(r) => records[r].status \notin Terminal
  BY <1>1 DEF Told, RecordFollows, Terminal
<1>4. Live(r)' => Store!LiveFor(r, owner[r])'
  BY DEF Live
<1> QED  BY <1>1, <1>2, <1>3, <1>4 DEF Live, Told, Early

\* A failed check, or a message that cannot be built, ends the record with its code.
LEMMA RejectStep == ASSUME IInv, NEW r \in Ids, Reject(r) \/ BuildFails(r) PROVE IInv'
<1>1. PICK stored \in Codes, code \in ResponseCodes \ ({"accepted"} \cup SmtpErrors),
           from \in {"checks", "build"} :
         /\ Goto(r, from, "done")
         /\ Store!UpdateStatus(r, owner[r], "rejected", stored)
         /\ Respond(r, code)
         /\ UNCHANGED <<owner, mail>>
  <2>1. CASE Reject(r)
    <3>1. PICK f \in Failures :
             Store!UpdateStatus(r, owner[r], "rejected", f.stored) /\ Respond(r, f.code)
      BY <2>1 DEF Reject
    <3>2. f.stored \in Codes /\ f.code \in ResponseCodes \ ({"accepted"} \cup SmtpErrors)
      BY SendMailAssumption DEF Failures, ResponseCodes, SmtpErrors
    <3> QED  BY <2>1, <3>1, <3>2 DEF Reject
  <2>2. CASE BuildFails(r)
    BY <2>2, SendMailAssumption DEF BuildFails, ResponseCodes, SmtpErrors
  <2> QED  BY <2>1, <2>2
<1>2. pc[r] = from /\ pc'[r] = "done" /\ response'[r] = code
  BY <1>1 DEF Goto, Respond, IInv, TypeOK
<1>3. mail'[r] = "unsent"
  BY <1>1, <1>2 DEF IInv, Told, Early
<1>4. "rejected" \in Updates
  BY SendMailAssumption
<1>5. /\ Store!TypeOK' /\ Untouched(Ids \ {r})
      /\ r \in Store!Stored' => records'[r].key = owner'[r]
      /\ Live(r)' => records'[r].status = "rejected"
  BY <1>1, <1>2, <1>4, UpdateStep
<1>6. Told(r)'
  BY <1>2, <1>3, <1>5 DEF Told, RecordFollows, Early, Concluded
<1> QED  BY <1>1, <1>5, <1>6, OwnMove DEF Stages, InFlightStages

\* A message that passed its checks is described in its record.
LEMMA ValidatedStep == ASSUME IInv, NEW r \in Ids, Validated(r) PROVE IInv'
<1>1. /\ Goto(r, "checks", "build") /\ Store!SetRecipientMetadata(r, owner[r])
      /\ UNCHANGED <<owner, mail, response>>
  BY DEF Validated
<1>2. pc[r] = "checks" /\ pc'[r] = "build"
  BY <1>1 DEF Goto, IInv, TypeOK
<1>3. owner[r] \in Keys \cup {Absent} /\ Told(r) /\ TypeOK
  BY DEF IInv, TypeOK
<1>4. /\ Store!TypeOK' /\ Untouched(Ids \ {r})
      /\ Store!LiveFor(r, owner[r])' => Store!LiveFor(r, owner[r])
      /\ r \in Store!Stored' => r \in Store!Stored /\ records'[r].key = records[r].key
      /\ Store!LiveFor(r, owner[r]) =>
            records'[r].described /\ records'[r].status = records[r].status
  BY <1>1, <1>3, MetadataEffect
<1>5. Live(r)' => Store!LiveFor(r, owner[r])'
  BY <1>1 DEF Live
<1>6. Told(r)'
  BY <1>1, <1>2, <1>3, <1>4, <1>5 DEF Told, RecordFollows, Early, Live
<1> QED  BY <1>1, <1>4, <1>6, OwnMove DEF Stages, InFlightStages

\* The record says that the submission has begun as the message is offered.
LEMMA SubmitStep == ASSUME IInv, NEW r \in Ids, Submit(r) PROVE IInv'
<1>1. /\ Goto(r, "build", "submitting")
      /\ Store!UpdateStatus(r, owner[r], "smtp_submission_started", NoCode)
      /\ mail' = [mail EXCEPT ![r] = "offered"]
      /\ UNCHANGED <<owner, response>>
  BY DEF Submit
<1>2. pc[r] = "build" /\ pc'[r] = "submitting"
  BY <1>1 DEF Goto, IInv, TypeOK
<1>3. "smtp_submission_started" \in Updates /\ NoCode \in Codes
  BY SendMailAssumption, VocabularyAssumption
<1>4. /\ Store!TypeOK' /\ Untouched(Ids \ {r})
      /\ r \in Store!Stored' => records'[r].key = owner'[r]
      /\ Live(r)' => /\ Live(r) /\ records'[r].status = "smtp_submission_started"
                     /\ records'[r].described = records[r].described
  BY <1>1, <1>2, <1>3, UpdateStep
<1>5. Live(r) => records[r].described
  BY <1>2 DEF IInv, Told, RecordFollows
<1>6. Told(r)'
  BY <1>2, <1>4, <1>5 DEF Told, RecordFollows, Early
<1> QED  BY <1>1, <1>4, <1>6, OwnMove DEF Stages, InFlightStages

\* What the handler hears of the message is what it records and answers.
LEMMA SubmitEndStep == ASSUME IInv, NEW r \in Ids, SubmitOk(r) \/ SubmitFails(r) PROVE IInv'
<1>1. PICK status \in {"smtp_accepted", "smtp_failed"}, stored \in Codes,
           code \in {"accepted"} \cup SmtpErrors :
         /\ Goto(r, "submitting", "done")
         /\ Store!UpdateStatus(r, owner[r], status, stored)
         /\ Respond(r, code)
         /\ UNCHANGED <<owner, mail>>
         /\ \/ status = "smtp_accepted" /\ code = "accepted" /\ mail[r] = "accepted"
            \/ status = "smtp_failed" /\ code \in SmtpErrors /\ stored = code
  <2>1. CASE SubmitOk(r)
    BY <2>1, VocabularyAssumption DEF SubmitOk
  <2>2. CASE SubmitFails(r)
    <3>1. PICK code \in SubmitErrors(r) :
             Store!UpdateStatus(r, owner[r], "smtp_failed", code) /\ Respond(r, code)
      BY <2>2 DEF SubmitFails
    <3>2. code \in SmtpErrors /\ code \in Codes
      BY SendMailAssumption DEF SubmitErrors, SmtpErrors
    <3> QED  BY <2>2, <3>1, <3>2 DEF SubmitFails
  <2> QED  BY <2>1, <2>2
<1>2. pc[r] = "submitting" /\ pc'[r] = "done" /\ response'[r] = code
  BY <1>1 DEF Goto, Respond, IInv, TypeOK
<1>3. status \in Updates
  BY SendMailAssumption
<1>4. /\ Store!TypeOK' /\ Untouched(Ids \ {r})
      /\ r \in Store!Stored' => records'[r].key = owner'[r]
      /\ Live(r)' => /\ Live(r) /\ records'[r].status = status /\ records'[r].code = stored
                     /\ records'[r].described = records[r].described
  BY <1>1, <1>2, <1>3, UpdateStep
<1>5. Live(r) => records[r].described
  BY <1>2 DEF IInv, Told, RecordFollows
<1>6. Told(r)'
  BY <1>1, <1>2, <1>4, <1>5 DEF Told, RecordFollows, Early, Concluded
<1>7. code \in ResponseCodes
  BY DEF ResponseCodes
<1> QED  BY <1>1, <1>4, <1>6, <1>7, OwnMove DEF Stages, InFlightStages

\* Nothing the handler has recorded says that the server has not decided yet.
LEMMA ServerStep == ASSUME IInv, NEW r \in Ids, ServerDecides(r) PROVE IInv'
<1>1. PICK verdict \in {"accepted", "refused"} : mail' = [mail EXCEPT ![r] = verdict]
  BY DEF ServerDecides
<1>2. mail[r] = "offered" /\ UNCHANGED <<storeVars, pc, owner, response, timers>>
  BY DEF ServerDecides
<1>3. TypeOK /\ Told(r)
  BY DEF IInv
<1>4. Store!TypeOK' /\ Untouched(Ids) /\ (Live(r)' => Live(r)) /\ records' = records
  BY <1>2, StoreSame DEF Live, storeVars
<1>5. Told(r)'
  BY <1>2, <1>3, <1>4, StoreSame DEF Told, RecordFollows, Early, Concluded
<1>6. /\ pc' = [pc EXCEPT ![r] = pc[r]] /\ pc[r] \in Stages
      /\ owner' = [owner EXCEPT ![r] = owner[r]] /\ owner[r] \in Keys \cup {Absent}
      /\ response' = [response EXCEPT ![r] = response[r]]
      /\ response[r] \in ResponseCodes \cup {Absent}
  BY <1>2, <1>3 DEF TypeOK
<1>7. Untouched(Ids \ {r}) /\ verdict \in {"unsent", "offered", "accepted", "refused"}
  BY <1>4 DEF Untouched
<1> QED  BY <1>1, <1>2, <1>4, <1>5, <1>6, <1>7, OwnStep

\* Steps of the store, which no handler takes, change no status.
LEMMA QuietStep == ASSUME IInv, StoreStep \/ UNCHANGED vars PROVE IInv'
<1>1. Store!TypeOK' /\ Untouched(Ids) /\ UNCHANGED <<pc, owner, mail, response, timers>>
  <2>1. CASE StoreStep
    BY <2>1, StoreStepEffect DEF IInv, handlerVars
  <2>2. CASE UNCHANGED vars
    BY <2>2, StoreSame DEF vars, storeVars
  <2> QED  BY <2>1, <2>2
<1>2. TypeOK'
  BY <1>1 DEF IInv, TypeOK
<1>3. ASSUME NEW q \in Ids PROVE Told(q)'
  <2>1. Untouched({q})
    BY <1>1 DEF Untouched
  <2> QED  BY <1>1, <1>2, <2>1, OthersStay
<1> QED  BY <1>2, <1>3 DEF IInv

\* Every step keeps the invariant.
LEMMA NextInvariant == IInv /\ [Next]_vars => IInv'
<1> SUFFICES ASSUME IInv, [Next]_vars PROVE IInv'
  OBVIOUS
<1>1. ASSUME NEW r \in Ids,
             Enter(r) \/ Refuse(r) \/ (\E k \in Keys : Receive(r, k)) \/ Handler(r)
                 \/ ClientLeaves(r) \/ ServerDecides(r)
      PROVE  IInv'
  BY <1>1, EnterStep, RefuseStep, ReceiveStep, RejectStep, ValidatedStep, SubmitStep,
     SubmitEndStep, DropStep, ServerStep DEF Handler
<1>2. CASE StoreStep \/ UNCHANGED vars
  BY <1>2, QuietStep
<1> QED  BY <1>1, <1>2 DEF Next

-----------------------------------------------------------------------------
(* The theorems. *)

\* The inductive invariant: types, and that a live record is as far as its handler.
THEOREM Invariant == Spec => []IInv
<1> QED  BY InitInvariant, NextInvariant, PTL DEF Spec

\* Type correctness, for any requests, keys, codes, timers and store parameters.
THEOREM TypeCorrect == Spec => []TypeOK
<1>1. IInv => TypeOK
  BY DEF IInv
<1> QED  BY <1>1, Invariant, PTL

\* What the owner can look up never contradicts what the SMTP server did.
THEOREM LookupsTellTruth == Spec => []StatusTellsTruth
<1>1. IInv => StatusTellsTruth
  <2> SUFFICES ASSUME IInv, NEW r \in Ids, Live(r)
               PROVE  /\ records[r].status = "smtp_accepted" => mail[r] = "accepted"
                      /\ records[r].status \in {"received", "rejected"} => mail[r] = "unsent"
                      /\ mail[r] # "unsent" => records[r].described
    BY DEF StatusTellsTruth
  <2>1. /\ RecordFollows(r) /\ Early(r) /\ pc[r] \in Stages
        /\ r \in Store!Stored
    BY DEF IInv, TypeOK, Told, Live, Store!LiveFor
  <2>2. CASE pc[r] \in {"queued", "idle", "checks", "build"}
    BY <2>1, <2>2 DEF RecordFollows, Early
  <2>3. CASE pc[r] \in {"submitting", "dropped", "left"}
    BY <2>1, <2>3 DEF RecordFollows
  <2>4. CASE pc[r] = "done"
    BY <2>1, <2>4 DEF RecordFollows, Concluded
  <2> QED  BY <2>1, <2>2, <2>3, <2>4 DEF Stages, InFlightStages
<1> QED  BY <1>1, Invariant, PTL

\* The answer to POST and the answer to a later lookup tell the same outcome.
THEOREM AnswersAgree == Spec => []AnswerMatchesRecord
<1>1. IInv => AnswerMatchesRecord
  BY DEF IInv, Told, RecordFollows, Concluded, AnswerMatchesRecord, Replied, Terminal,
         SmtpErrors
<1> QED  BY <1>1, Invariant, PTL
=============================================================================
