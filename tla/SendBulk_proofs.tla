--------------------------- MODULE SendBulk_proofs ---------------------------
(***************************************************************************)
(* Proofs about POST /v1/send-bulk: permits, phases and results, for any   *)
(* size of a request, any limit and any order in which tasks finish.       *)
(***************************************************************************)
EXTENDS SendBulk, FiniteSetTheorems, WellFoundedInduction, TLAPS

\* The board's vocabulary is that of this module.
LEMMA SameVocabulary ==
    /\ Board!Entry = Entry /\ Board!Terminal = Terminal
    /\ \A k : Board!FreshEntry(k) = FreshEntry(k)
BY DEF Board!Entry, Entry, Board!Statuses, Statuses, Board!Terminal, Terminal,
       Board!FreshEntry, FreshEntry

\* Every set of messages is finite.
LEMMA IdsFinite ==
    ASSUME NEW S \in SUBSET Ids
    PROVE  IsFiniteSet(S) /\ Cardinality(S) \in Nat
<1>1. IsFiniteSet(Ids)
  BY SendBulkAssumption, FS_Interval
<1> QED  BY <1>1, FS_Subset, FS_CardinalityType

-----------------------------------------------------------------------------
(* Sorting. *)

\* A non-empty set of naturals has a least element.
LEMMA LeastExists ==
    ASSUME NEW I \in SUBSET Nat, I # {}
    PROVE  \E i \in I : \A j \in I : i <= j
<1>1. PICK i \in I : \A j \in I : ~(<<j, i>> \in OpToRel(<, Nat))
  BY WFMin, NatLessThanWellFounded
<1>2. \A j \in I : ~(j < i)
  BY <1>1 DEF OpToRel
<1> QED  BY <1>2

\* An ascending arrangement of 1 .. n leaves every number in its place.
LEMMA AscendingIsIdentity ==
    ASSUME NEW n \in Nat, NEW g \in [1 .. n -> 1 .. n],
           \A i, j \in 1 .. n : i < j => g[i] < g[j],
           \A i \in 1 .. n : \E j \in 1 .. n : g[j] = i
    PROVE  \A i \in 1 .. n : g[i] = i
<1> DEFINE Moved == {i \in 1 .. n : g[i] # i}
<1>1. SUFFICES ASSUME Moved # {} PROVE FALSE
  OBVIOUS
<1>2. PICK i \in Moved : \A j \in Moved : i <= j
  <2>1. Moved \in SUBSET Nat
    OBVIOUS
  <2> HIDE DEF Moved
  <2> QED  BY <1>1, <2>1, LeastExists
<1>3. \A j \in 1 .. n : j < i => g[j] = j
  BY <1>2
<1>4. i \in 1 .. n /\ g[i] # i /\ g[i] \in 1 .. n
  BY <1>2
<1>5. CASE g[i] < i
  BY <1>3, <1>4, <1>5
<1>6. CASE g[i] > i
  <2>1. PICK j \in 1 .. n : g[j] = i
    BY <1>4
  <2>2. j # i /\ ~(j < i)
    BY <1>3, <1>4, <2>1
  <2>3. g[i] < g[j]
    BY <1>4, <2>2
  <2> QED  BY <1>4, <1>6, <2>1, <2>3
<1> QED  BY <1>4, <1>5, <1>6

\* Results of messages 1 .. n, one each, sorted: result i is that of message i.
LEMMA Sorted ==
    ASSUME NEW n \in Nat, NEW s \in Seq(Results),
           \A k, m \in DOMAIN s : s[k].index = s[m].index => k = m,
           \A k \in DOMAIN s : s[k].index \in 1 .. n,
           \A i \in 1 .. n : \E k \in DOMAIN s : s[k].index = i
    PROVE  /\ DOMAIN s = 1 .. n /\ DOMAIN InOrder(s) = 1 .. n
           /\ \A i \in 1 .. n : InOrder(s)[i].index = i /\ \E k \in DOMAIN s : InOrder(s)[i] = s[k]
           /\ \A k \in DOMAIN s : InOrder(s)[s[k].index] = s[k]
<1> DEFINE places == 1 .. Len(s)
           h == [k \in places |-> s[k].index]
           q == [i \in 1 .. n |-> CHOOSE k \in places : s[k].index = i]
           Ascending(f) == \A k, m \in places : k < m => s[f[k]].index <= s[f[m]].index
           from == CHOOSE f \in Bijection(places, places) : Ascending(f)
           g == [i \in places |-> s[from[i]].index]
<1>1. DOMAIN s = places /\ Len(s) \in Nat
  OBVIOUS
<1>2. h \in Bijection(places, 1 .. n)
  <2>1. h \in [places -> 1 .. n]
    BY <1>1
  <2>2. \A k, m \in places : h[k] = h[m] => k = m
    BY <1>1
  <2>3. \A i \in 1 .. n : \E k \in places : h[k] = i
    BY <1>1
  <2> QED  BY <2>1, <2>2, <2>3 DEF Bijection, Injection, Surjection, IsInjective
<1>3. Len(s) = n
  <2>1. IsFiniteSet(places) /\ Cardinality(places) = Len(s)
    BY <1>1, FS_Interval
  <2>2. Cardinality(1 .. n) = n
    BY FS_Interval
  <2>3. ExistsBijection(places, 1 .. n)
    BY <1>2 DEF ExistsBijection
  <2> HIDE DEF places
  <2>4. Cardinality(places) = Cardinality(1 .. n)
    BY <2>1, <2>3, FS_Bijection
  <2> QED  BY <2>1, <2>2, <2>4
<1>4. /\ q \in [1 .. n -> 1 .. n]
      /\ \A i \in 1 .. n : s[q[i]].index = i
  <2>1. ASSUME NEW i \in 1 .. n PROVE q[i] \in 1 .. n /\ s[q[i]].index = i
    <3>1. \E k \in places : s[k].index = i
      BY <1>1
    <3> QED  BY <1>3, <3>1
  <2> QED  BY <2>1
<1>5. q \in Bijection(places, places) /\ Ascending(q)
  <2>1. \A i, j \in 1 .. n : q[i] = q[j] => i = j
    BY <1>4
  <2>2. \A k \in 1 .. n : \E i \in 1 .. n : q[i] = k
    <3> TAKE k \in 1 .. n
    <3>1. s[k].index \in 1 .. n /\ k \in DOMAIN s
      BY <1>1, <1>3
    <3>2. q[s[k].index] = k
      BY <1>1, <1>3, <1>4, <3>1
    <3> QED  BY <3>1, <3>2
  <2>3. q \in Bijection(places, places)
    BY <1>3, <1>4, <2>1, <2>2 DEF Bijection, Injection, Surjection, IsInjective
  <2>4. Ascending(q)
    <3> SUFFICES ASSUME NEW k \in places, NEW m \in places, k < m
                 PROVE  s[q[k]].index <= s[q[m]].index
      OBVIOUS
    <3>1. s[q[k]].index = k /\ s[q[m]].index = m
      BY <1>3, <1>4
    <3> QED  BY <3>1
  <2> QED  BY <2>3, <2>4
<1> HIDE DEF q
<1>6. from \in Bijection(places, places) /\ Ascending(from)
  BY <1>5
<1>7. InOrder(s) = [i \in 1 .. n |-> s[from[i]]]
  BY <1>1, <1>3 DEF InOrder
<1> HIDE DEF from
<1>8. /\ from \in [1 .. n -> 1 .. n]
      /\ \A i, j \in 1 .. n : from[i] = from[j] => i = j
      /\ \A k \in 1 .. n : \E i \in 1 .. n : from[i] = k
  BY <1>3, <1>6 DEF Bijection, Injection, Surjection, IsInjective
<1>9. \A i \in 1 .. n : g[i] = i
  <2>0. g \in [1 .. n -> 1 .. n]
    BY <1>1, <1>3, <1>8
  <2>1. \A i \in 1 .. n : g[i] = s[from[i]].index /\ g[i] \in 1 .. n
    BY <1>1, <1>3, <1>8
  <2> HIDE DEF g
  <2>2. \A i, j \in 1 .. n : i < j => g[i] < g[j]
    <3> TAKE i, j \in 1 .. n
    <3> HAVE i < j
    <3>1. g[i] <= g[j]
      <4>1. i \in places /\ j \in places
        BY <1>3
      <4>2. s[from[i]].index <= s[from[j]].index
        BY <1>6, <4>1
      <4> QED  BY <2>1, <4>2
    <3>2. from[i] # from[j] /\ from[i] \in DOMAIN s /\ from[j] \in DOMAIN s
      <4>1. from[i] # from[j] /\ from[i] \in 1 .. n /\ from[j] \in 1 .. n
        BY <1>8
      <4> QED  BY <1>1, <1>3, <4>1
    <3>3. s[from[i]].index # s[from[j]].index
      BY <3>2
    <3>4. g[i] # g[j] /\ g[i] \in 1 .. n /\ g[j] \in 1 .. n
      BY <2>1, <3>3
    <3> QED  BY <3>1, <3>4
  <2>3. \A i \in 1 .. n : \E j \in 1 .. n : g[j] = i
    <3> TAKE i \in 1 .. n
    <3>1. PICK k \in 1 .. n : s[k].index = i
      BY <1>1, <1>3
    <3>2. PICK j \in 1 .. n : from[j] = k
      BY <1>8
    <3> QED  BY <2>1, <3>1, <3>2
  <2> QED  BY <2>0, <2>2, <2>3, AscendingIsIdentity
<1>10. \A i \in 1 .. n : s[from[i]].index = i /\ from[i] \in DOMAIN s
  BY <1>1, <1>3, <1>8, <1>9
<1>11. \A k \in DOMAIN s : InOrder(s)[s[k].index] = s[k]
  <2> TAKE k \in DOMAIN s
  <2>1. s[k].index \in 1 .. n /\ s[from[s[k].index]].index = s[k].index
    BY <1>10
  <2>2. from[s[k].index] = k
    BY <1>10, <2>1
  <2> QED  BY <1>7, <2>1, <2>2
<1> QED  BY <1>1, <1>3, <1>7, <1>10, <1>11

-----------------------------------------------------------------------------
(* Calls on the store. *)

\* Of these messages no entry appears or changes.
Kept(others) ==
    \A q \in others : q \in Board!Visible' => q \in Board!Visible /\ board'[q] = board[q]

\* put_received touches no entry of another message.
LEMMA PutEffect ==
    ASSUME Board!TypeOK, NEW i \in Ids, Board!PutReceived(i, ApiKey)
    PROVE  /\ Board!TypeOK' /\ Kept(Ids \ {i})
           /\ i \in Board!Visible' => board'[i] = FreshEntry(ApiKey)
<1>1. PICK lost \in SUBSET (Board!Visible \cup {i}) :
         /\ board' = Board!Without([board EXCEPT ![i] = FreshEntry(ApiKey)], lost)
         /\ spent' = spent \cup lost
         /\ answer' = answer
  BY SameVocabulary DEF Board!PutReceived
<1>2. FreshEntry(ApiKey) \in Entry
  BY SendBulkAssumption, VocabularyAssumption DEF FreshEntry, Entry, Statuses
<1>3. board \in [Ids -> Entry \cup {Absent}]
  BY SameVocabulary DEF Board!TypeOK
<1>4. /\ board' \in [Ids -> Entry \cup {Absent}]
      /\ \A q \in Ids \ {i} : board'[q] \in {board[q], Absent}
      /\ board'[i] \in {FreshEntry(ApiKey), Absent}
  BY <1>1, <1>2, <1>3 DEF Board!Without
<1>5. spent' \subseteq Ids
  BY <1>1 DEF Board!TypeOK, Board!Visible
<1> QED  BY <1>1, <1>4, <1>5, SameVocabulary DEF Board!TypeOK, Kept, Board!Visible

\* An update reaches an entry that is there, the caller's own and not terminal.
LEMMA UpdateEffect ==
    ASSUME Board!TypeOK, NEW i \in Ids, NEW status \in Updates, NEW code \in Codes,
           Update(i, status, code)
    PROVE  /\ Board!TypeOK' /\ Kept(Ids \ {i})
           /\ i \in Board!Visible' => i \in Board!Visible
           /\ i \in Board!Visible /\ board[i].key = ApiKey /\ board[i].status \notin Terminal =>
                 /\ board'[i].key = ApiKey
                 /\ board'[i].status = status /\ board'[i].code = code
<1>1. board \in [Ids -> Entry \cup {Absent}]
  BY SameVocabulary DEF Board!TypeOK
<1>2. CASE i \in Board!Visible /\ board[i].key = ApiKey /\ board[i].status \notin Terminal
  <2> DEFINE new == [board[i] EXCEPT !.status = status, !.code = code]
  <2>1. board[i] \in Entry
    BY <1>1, <1>2 DEF Board!Visible
  <2>2. status \in Statuses
    BY VocabularyAssumption
  <2>3. /\ new \in Entry /\ new.key = board[i].key
        /\ new.status = status /\ new.code = code
    BY <2>1, <2>2 DEF Entry
  <2>4. board' = [board EXCEPT ![i] = new] /\ spent' = spent /\ answer' = answer
    BY <1>1, <1>2, <2>1 DEF Update, Board!UpdateStatus
  <2> HIDE DEF new
  <2>5. board' \in [Ids -> Entry \cup {Absent}] /\ board'[i] = new
    BY <1>1, <2>3, <2>4
  <2> QED  BY <1>1, <1>2, <2>3, <2>4, <2>5, SameVocabulary DEF Board!TypeOK, Kept, Board!Visible
<1>3. CASE ~(i \in Board!Visible /\ board[i].key = ApiKey /\ board[i].status \notin Terminal)
  <2>1. UNCHANGED boardVars
    BY <1>3 DEF Update
  <2> QED  BY <1>3, <2>1 DEF boardVars, Board!TypeOK, Kept, Board!Visible
<1> QED  BY <1>2, <1>3

\* set_recipient_metadata changes neither owner nor status of an entry.
LEMMA DescribeEffect ==
    ASSUME Board!TypeOK, NEW i \in Ids, Describe(i)
    PROVE  /\ Board!TypeOK' /\ Kept(Ids \ {i})
           /\ i \in Board!Visible' => /\ i \in Board!Visible
                                      /\ board'[i].key = board[i].key
                                      /\ board'[i].status = board[i].status
<1>1. board \in [Ids -> Entry \cup {Absent}]
  BY SameVocabulary DEF Board!TypeOK
<1>2. CASE i \in Board!Visible /\ board[i].key = ApiKey
  <2> DEFINE new == [board[i] EXCEPT !.described = TRUE]
  <2>1. board[i] \in Entry
    BY <1>1, <1>2 DEF Board!Visible
  <2>2. new \in Entry /\ new.key = board[i].key /\ new.status = board[i].status
    BY <2>1 DEF Entry
  <2>3. board' = [board EXCEPT ![i] = new] /\ spent' = spent /\ answer' = answer
    BY <1>1, <1>2, <2>1 DEF Describe, Board!SetRecipientMetadata
  <2> HIDE DEF new
  <2>4. board' \in [Ids -> Entry \cup {Absent}] /\ board'[i] = new
    BY <1>1, <2>2, <2>3
  <2> QED  BY <1>1, <1>2, <2>2, <2>3, <2>4, SameVocabulary DEF Board!TypeOK, Kept, Board!Visible
<1>3. CASE ~(i \in Board!Visible /\ board[i].key = ApiKey)
  BY <1>3 DEF Describe, boardVars, Board!TypeOK, Kept, Board!Visible
<1> QED  BY <1>2, <1>3

\* The store may drop entries; it changes none.
LEMMA ForgetEffect ==
    ASSUME Board!TypeOK, Board!Forget
    PROVE  Board!TypeOK' /\ Kept(Ids)
<1>1. PICK lost \in SUBSET Board!Visible :
         /\ board' = Board!Without(board, lost) /\ spent' = spent \cup lost /\ answer' = answer
  BY DEF Board!Forget
<1>2. /\ board' \in [Ids -> Board!Entry \cup {Absent}]
      /\ \A q \in Ids : board'[q] \in {board[q], Absent}
  BY <1>1 DEF Board!Without, Board!TypeOK
<1>3. spent' \subseteq Ids
  BY <1>1 DEF Board!TypeOK, Board!Visible
<1> QED  BY <1>1, <1>2, <1>3 DEF Board!TypeOK, Kept, Board!Visible

\* A step that leaves the store alone keeps every entry.
LEMMA SameEffect ==
    ASSUME Board!TypeOK, UNCHANGED boardVars
    PROVE  Board!TypeOK' /\ Kept(Ids)
BY DEF boardVars, Board!TypeOK, Kept, Board!Visible

-----------------------------------------------------------------------------
(* The inductive invariant. *)

Rejected(i) == \E n \in DOMAIN rejected : rejected[n].index = i

\* How far the request is.
Phased ==
    /\ phase \in {"preparing", "submitting"} \/ Answered =>
          total \in 1 .. MaxBulk /\ index \in 1 .. total + 1
    /\ phase = "submitting" \/ Answered => index = total + 1
    /\ phase = "idle" => index = 1 /\ step = "limits"
    /\ polling # {} => phase = "dropped"

\* A message that has been looked at was rejected or has a task, no other has either;
\* and no message is sent before the tasks run.
Staged(i) ==
    /\ i >= index => task[i] = "none" /\ ~Rejected(i)
    /\ i < index => (task[i] = "none" <=> Rejected(i))
    /\ phase \in {"idle", "preparing"} => task[i] \in {"none", "prepared"} /\ mail[i] = "unsent"
    /\ phase \notin {"idle", "preparing"} => task[i] # "prepared"
    /\ phase = "submitting" => task[i] # "aborted"
    /\ phase = "done" => task[i] \in {"none", "joined"}
    /\ i \in polling => task[i] \in {"waiting", "submitting"}
    /\ phase = "dropped" /\ task[i] \in {"waiting", "submitting"} => i \in polling

Submitting == {i \in Ids : task[i] = "submitting"}

Spawned == {i \in Ids : task[i] # "none"}

\* The permits the semaphore was made with.
Limit ==
    IF bulkConcurrency # 0 THEN bulkConcurrency
    ELSE IF Spawned = {} THEN 1 ELSE Cardinality(Spawned)

\* Every permit is free or held by a task that is submitting.
Counted ==
    phase = "submitting" \/ (phase = "dropped" /\ Spawned # {}) =>
        permits + Cardinality(Submitting) = Limit

IInv == TypeOK /\ Phased /\ Counted /\ \A i \in Ids : Staged(i)

\* Request ids are numbers, of which a bulk request uses the first.
LEMMA IdsAreNumbers == MaxBulk \in Nat \ {0} /\ Ids = 1 .. MaxBulk
BY SendBulkAssumption

\* A step that neither adds a task nor takes one away keeps the number of permits.
LEMMA LimitKept ==
    ASSUME IInv, bulkConcurrency' = bulkConcurrency,
           \A i \in Ids : task'[i] = "none" <=> task[i] = "none"
    PROVE  Spawned' = Spawned /\ Limit' = Limit
<1>1. Spawned' = Spawned
  BY DEF Spawned
<1> QED  BY <1>1 DEF Limit

\* The codes and statuses the handler writes are among those declared.
LEMMA CodesUsed ==
    /\ {"rate_limited", "validation_failed", "internal_error", "smtp_unavailable", NoCode}
          \subseteq Codes
    /\ {"rejected", "smtp_submission_started", "smtp_accepted", "smtp_failed"} \subseteq Updates
BY SendBulkAssumption, VocabularyAssumption

\* The handler starts with nothing checked, nothing spawned and all permits.
LEMMA InitInvariant == Init => IInv
<1> SUFFICES ASSUME Init PROVE IInv
  OBVIOUS
<1>1. Board!TypeOK
  BY DEF Init, Board!Init, Board!TypeOK
<1>2. <<total, bulkConcurrency>> \in Loads /\ bulkConcurrency \in Nat
  BY SendBulkAssumption DEF Init
<1>3. TypeOK
  BY <1>1, <1>2, IdsAreNumbers DEF Init, TypeOK, Results
<1>4. Phased /\ Counted
  BY DEF Init, Phased, Counted, Answered
<1>5. \A i \in Ids : Staged(i)
  BY IdsAreNumbers DEF Init, Staged, Rejected, Answered
<1> QED  BY <1>3, <1>4, <1>5 DEF IInv

-----------------------------------------------------------------------------
(* Phase 1. *)

\* The request is read, and refused if it is malformed or too large.
LEMMA BeginStep == ASSUME IInv, Begin PROVE IInv'
<1>1. Board!TypeOK' /\ UNCHANGED <<given, phase1Vars, phase2Vars, mail, heard>>
  BY SameEffect DEF IInv, TypeOK, Begin
<1>2. phase = "idle" /\ phase' \in {"preparing", "done"}
  BY DEF Begin
<1>3. TypeOK'
  BY <1>1, <1>2 DEF IInv, TypeOK, given, phase1Vars, phase2Vars
<1>4. /\ phase' = "preparing" => total \in 1 .. MaxBulk
      /\ phase' = "done" => total \notin 1 .. MaxBulk
  BY IdsAreNumbers DEF Begin
<1>5. Phased' /\ Counted'
  BY <1>1, <1>2, <1>4 DEF IInv, TypeOK, Phased, Counted, Answered, given, phase1Vars, phase2Vars
<1>6. ASSUME NEW i \in Ids PROVE Staged(i)'
  <2>1. Staged(i) /\ ~Answered'
    BY <1>1, <1>2, <1>4 DEF IInv, Answered, given
  <2>2. index = 1 /\ i >= index
    BY <1>2, IdsAreNumbers DEF IInv, Phased
  <2> QED  BY <1>1, <1>2, <2>1, <2>2 DEF Staged, Rejected, given, phase1Vars, phase2Vars
<1> QED  BY <1>3, <1>5, <1>6 DEF IInv

\* A step that leaves message "index" where it is, or rejects it.
LEMMA PrepareStep ==
    ASSUME IInv, phase = "preparing", index \in Messages, Board!TypeOK',
           UNCHANGED unchangedInPhase1,
           \/ \E to \in {"limited", "received", "validated"} : Advance(to)
           \/ \E code \in Codes : Drop(code)
    PROVE  IInv'
<1>1. /\ UNCHANGED <<total, bulkConcurrency, phase, polling, permits, submitted, mail, heard,
                     response, task>>
      /\ total \in 1 .. MaxBulk /\ total \in Nat /\ MaxBulk \in Nat /\ index \in 1 .. total
  BY IdsAreNumbers DEF unchangedInPhase1, given, Advance, Drop, IInv, Phased, Messages
<1>2. Counted'
  BY <1>1 DEF IInv, Counted, Submitting
<1>3. CASE \E to \in {"limited", "received", "validated"} : Advance(to)
  <2>1. UNCHANGED <<index, rejected>> /\ step' \in {"limited", "received", "validated"}
    BY <1>3 DEF Advance
  <2>2. TypeOK'
    BY <1>1, <2>1 DEF IInv, TypeOK
  <2>3. Phased' /\ \A i \in Ids : Staged(i)'
    BY <1>1, <2>1 DEF IInv, Phased, Staged, Rejected, Answered
  <2> QED  BY <1>2, <2>2, <2>3 DEF IInv
<1>4. CASE \E code \in Codes : Drop(code)
  <2>1. PICK code \in Codes :
           /\ rejected' = Append(rejected, RejectedResult(index, code))
           /\ index' = index + 1 /\ step' = "limits"
    BY <1>4 DEF Drop
  <2>2. RejectedResult(index, code) \in Results /\ RejectedResult(index, code).index = index
    BY <1>1, IdsAreNumbers DEF RejectedResult, Results
  <2>3. rejected \in Seq(Results)
    BY DEF IInv, TypeOK
  <2>4. rejected' \in Seq(Results) /\ \A i \in Ids : Rejected(i)' <=> Rejected(i) \/ i = index
    <3> DEFINE last == RejectedResult(index, code)
    <3>1. last \in Results /\ last.index = index /\ rejected' = Append(rejected, last)
      BY <2>1, <2>2
    <3> HIDE DEF last
    <3>2. /\ Len(rejected) \in Nat
          /\ DOMAIN rejected = 1 .. Len(rejected) /\ DOMAIN rejected' = 1 .. Len(rejected) + 1
          /\ rejected'[Len(rejected) + 1] = last
          /\ \A n \in DOMAIN rejected : rejected'[n] = rejected[n]
      BY <2>3, <3>1
    <3>3. \A n \in DOMAIN rejected' : n \in DOMAIN rejected \/ n = Len(rejected) + 1
      BY <3>2
    <3> QED  BY <2>3, <3>1, <3>2, <3>3 DEF Rejected
  <2>5. TypeOK'
    <3>1. index' \in 1 .. MaxBulk + 1
      BY <1>1, <2>1
    <3> QED  BY <1>1, <2>1, <2>4, <3>1 DEF IInv, TypeOK
  <2>6. Phased'
    BY <1>1, <2>1 DEF IInv, Phased, Answered
  <2>7. ASSUME NEW i \in Ids PROVE Staged(i)'
    <3>1. i \in Int /\ Staged(i) /\ index \in Int /\ index' = index + 1
      BY <1>1, <2>1, IdsAreNumbers DEF IInv
    <3>2. Rejected(i)' <=> Rejected(i) \/ i = index
      BY <2>4
    <3> QED  BY <1>1, <3>1, <3>2 DEF Staged, Answered
  <2> QED  BY <1>2, <2>5, <2>6, <2>7 DEF IInv
<1> QED  BY <1>3, <1>4

\* One step of the checks of one message.
LEMMA CheckStep ==
    ASSUME IInv,
           RateLimited \/ StoreRejected \/ Received \/ Invalid \/ Validated \/ BuildFails
    PROVE  IInv'
<1>1. /\ phase = "preparing" /\ index \in Messages /\ UNCHANGED unchangedInPhase1
      /\ index \in Ids /\ Board!TypeOK
  BY IdsAreNumbers
     DEF RateLimited, StoreRejected, Received, Invalid, Validated, BuildFails, Preparing,
         IInv, TypeOK, Phased, Messages
<1>2. CASE RateLimited \/ Received
  BY <1>1, <1>2, PutEffect, PrepareStep DEF RateLimited, Received
<1>3. CASE Validated
  BY <1>1, <1>3, DescribeEffect, PrepareStep DEF Validated
<1>4. CASE StoreRejected \/ Invalid \/ BuildFails
  <2>1. PICK code \in Codes : Update(index, "rejected", code) /\ Drop(code)
    BY <1>4, CodesUsed DEF StoreRejected, Invalid, BuildFails
  <2> QED  BY <1>1, <2>1, CodesUsed, UpdateEffect, PrepareStep
<1> QED  BY <1>2, <1>3, <1>4

\* A message has passed its checks and waits for phase 2.
LEMMA BuiltStep == ASSUME IInv, Built PROVE IInv'
<1>1. /\ phase = "preparing" /\ index \in 1 .. total /\ index \in Ids
      /\ total \in 1 .. MaxBulk /\ total \in Nat /\ MaxBulk \in Nat
  BY IdsAreNumbers DEF Built, Preparing, IInv, Phased, Messages
<1>2. /\ UNCHANGED <<total, bulkConcurrency, phase, polling, permits, submitted, mail, heard,
                     response, rejected>>
      /\ index' = index + 1 /\ step' = "limits"
      /\ task' = [task EXCEPT ![index] = "prepared"]
  BY DEF Built, unchangedInPhase1, given
<1>3. Board!TypeOK'
  BY SameEffect DEF Built, IInv, TypeOK
<1>4. /\ task' \in [Ids -> {"none", "prepared", "waiting", "submitting",
                           "finished", "joined", "aborted"}]
      /\ \A i \in Ids : task'[i] = IF i = index THEN "prepared" ELSE task[i]
  BY <1>1, <1>2 DEF IInv, TypeOK
<1>5. TypeOK'
  BY <1>1, <1>2, <1>3, <1>4 DEF IInv, TypeOK
<1>6. Phased' /\ Counted'
  BY <1>1, <1>2 DEF IInv, Phased, Counted, Answered
<1>7. ASSUME NEW i \in Ids PROVE Staged(i)'
  <2>1. i \in Int /\ Staged(i) /\ index \in Int
    BY <1>1, IdsAreNumbers DEF IInv
  <2>2. Rejected(i)' <=> Rejected(i)
    BY <1>2 DEF Rejected
  <2> QED  BY <1>1, <1>2, <1>4, <2>1, <2>2 DEF Staged, Answered
<1> QED  BY <1>5, <1>6, <1>7 DEF IInv

-----------------------------------------------------------------------------
(* Phase 2. *)

\* The semaphore has a permit at least: a limit of 0 is taken for the number of
\* messages.
LEMMA ConcurrencyPositive ==
    ASSUME IInv
    PROVE  Concurrency \in Nat /\ Concurrency > 0 /\ bulkConcurrency \in Nat
<1>1. bulkConcurrency \in Nat
  BY SendBulkAssumption DEF IInv, TypeOK
<1>2. IsFiniteSet(Prepared) /\ Cardinality(Prepared) \in Nat
  BY IdsFinite DEF Prepared
<1>3. Prepared # {} => Cardinality(Prepared) # 0
  BY <1>2, FS_EmptySet
<1> QED  BY <1>1, <1>2, <1>3 DEF Concurrency

\* Phase 2 begins with a task per message and all permits.
LEMMA SpawnStep == ASSUME IInv, Spawn PROVE IInv'
<1>1. /\ phase = "preparing" /\ index = total + 1 /\ phase' = "submitting"
      /\ task' = [i \in Ids |-> IF task[i] = "prepared" THEN "waiting" ELSE task[i]]
      /\ permits' = Concurrency
      /\ UNCHANGED <<total, bulkConcurrency, index, step, rejected, polling, submitted, mail,
                     heard, response>>
  BY DEF Spawn, given, phase1Vars
<1>2. Board!TypeOK'
  BY SameEffect DEF Spawn, IInv, TypeOK
<1>3. \A i \in Ids : task[i] \in {"none", "prepared"} /\ task'[i] \in {"none", "waiting"}
  BY <1>1 DEF IInv, Staged
<1>4. TypeOK'
  BY <1>1, <1>2, <1>3, ConcurrencyPositive DEF IInv, TypeOK
<1>5. Phased'
  BY <1>1 DEF IInv, Phased, Answered
<1>6. Counted'
  <2>1. Submitting' = {} /\ Spawned' = Prepared
    BY <1>1, <1>3 DEF Submitting, Spawned, Prepared
  <2>2. Limit' = Concurrency
    BY <1>1, <2>1 DEF Limit, Concurrency
  <2>3. Cardinality(Submitting') = 0
    BY <2>1, FS_EmptySet
  <2> QED  BY <1>1, <2>2, <2>3, ConcurrencyPositive DEF Counted
<1>7. ASSUME NEW i \in Ids PROVE Staged(i)'
  <2>1. /\ Staged(i) /\ task[i] \in {"none", "prepared"}
        /\ task'[i] = IF task[i] = "prepared" THEN "waiting" ELSE task[i]
    BY <1>1, <1>3 DEF IInv
  <2> QED  BY <1>1, <2>1 DEF Staged, Rejected, Answered
<1> QED  BY <1>4, <1>5, <1>6, <1>7 DEF IInv

\* A poll of one task: permits and holders change together.
LEMMA TaskStep ==
    ASSUME IInv, NEW i \in Ids, task[i] \in {"waiting", "submitting"},
           phase \in {"submitting", "dropped"}, Board!TypeOK', UNCHANGED unchangedInTask,
           NEW at \in {"waiting", "submitting", "finished"}, Leave(i, at),
           permits' \in Nat,
           permits' + Cardinality(Submitting') = permits + Cardinality(Submitting),
           mail' \in [Ids -> {"unsent", "offered", "accepted", "refused"}],
           heard' \in [Ids -> {"nothing", "accepted", "refused", "failure"}]
    PROVE  IInv'
<1>1. UNCHANGED <<total, bulkConcurrency, phase, index, step, rejected, submitted, response>>
  BY DEF unchangedInTask, given, phase1Vars
<1>2. /\ \A q \in Ids \ {i} : task'[q] = task[q]
      /\ task'[i] \in {"waiting", "submitting", "finished", "aborted"}
      /\ i \in polling => task'[i] \in {"finished", "aborted"}
      /\ i \notin polling => task'[i] # "aborted"
      /\ task' \in [Ids -> {"none", "prepared", "waiting", "submitting",
                           "finished", "joined", "aborted"}]
      /\ polling' = polling \ {i}
  BY DEF Leave, IInv, TypeOK
<1>3. TypeOK'
  BY <1>1, <1>2 DEF IInv, TypeOK
<1>4. Phased' /\ Counted'
  <2>1. Spawned' = Spawned /\ Limit' = Limit
    BY <1>1, <1>2, LimitKept
  <2> QED  BY <1>1, <1>2, <2>1 DEF IInv, Phased, Counted, Answered
<1>5. ASSUME NEW q \in Ids PROVE Staged(q)'
  <2>1. Staged(q) /\ Staged(i) /\ (Rejected(q)' <=> Rejected(q)) /\ phase' # "done"
    BY <1>1 DEF IInv, Rejected
  <2>2. i \notin polling => phase # "dropped"
    BY <2>1 DEF Staged
  <2>3. phase = "submitting" => i \notin polling
    BY DEF IInv, Phased
  <2>4. CASE q = i
    BY <1>1, <1>2, <2>1, <2>2, <2>3, <2>4 DEF Staged
  <2>5. CASE q # i
    BY <1>1, <1>2, <2>1, <2>5 DEF Staged
  <2> QED  BY <2>4, <2>5
<1> QED  BY <1>3, <1>4, <1>5 DEF IInv

\* Tasks run in phase 2, and some for a moment after the handler was dropped.
LEMMA RunsWhere ==
    ASSUME IInv, NEW i \in Ids, task[i] \in {"waiting", "submitting"}
    PROVE  phase \in {"submitting", "dropped"}
BY DEF IInv, TypeOK, Staged

\* A task takes a permit and submits.
LEMMA StartStep == ASSUME IInv, NEW i \in Ids, Start(i) PROVE IInv'
<1>1. /\ task[i] = "waiting" /\ phase \in {"submitting", "dropped"} /\ permits > 0
      /\ Update(i, "smtp_submission_started", NoCode)
      /\ mail' = [mail EXCEPT ![i] = "offered"] /\ Leave(i, "submitting")
      /\ permits' = (IF i \in polling THEN permits ELSE permits - 1)
      /\ UNCHANGED heard /\ UNCHANGED unchangedInTask
  BY RunsWhere DEF Start
<1>2. Board!TypeOK'
  BY <1>1, CodesUsed, UpdateEffect DEF IInv, TypeOK
<1>3. permits \in Nat /\ permits' \in Nat
  BY <1>1 DEF IInv, TypeOK
<1>4. permits' + Cardinality(Submitting') = permits + Cardinality(Submitting)
  <2>1. IsFiniteSet(Submitting) /\ Cardinality(Submitting) \in Nat
    BY IdsFinite DEF Submitting
  <2>2. CASE i \in polling
    <3>1. Submitting' = Submitting
      BY <1>1, <2>2 DEF Submitting, Leave, IInv, TypeOK
    <3> QED  BY <1>1, <2>2, <3>1
  <2>3. CASE i \notin polling
    <3>1. Submitting' = Submitting \cup {i} /\ i \notin Submitting
      BY <1>1, <2>3 DEF Submitting, Leave, IInv, TypeOK
    <3>2. Cardinality(Submitting') = Cardinality(Submitting) + 1
      BY <2>1, <3>1, FS_AddElement
    <3> QED  BY <1>1, <1>3, <2>1, <2>3, <3>2
  <2> QED  BY <2>2, <2>3
<1>5. /\ mail' \in [Ids -> {"unsent", "offered", "accepted", "refused"}]
      /\ heard' \in [Ids -> {"nothing", "accepted", "refused", "failure"}]
  BY <1>1 DEF IInv, TypeOK
<1> QED  BY <1>1, <1>2, <1>3, <1>4, <1>5, TaskStep

\* A task hears of its message and gives its permit back.
LEMMA FinishStep ==
    ASSUME IInv, NEW i \in Ids, SubmitOk(i) \/ SubmitFails(i)
    PROVE  IInv'
<1>1. PICK status \in Updates, code \in Codes : Finish(i, status, code)
  BY CodesUsed DEF SubmitOk, SubmitFails
<1>2. heard' \in [Ids -> {"nothing", "accepted", "refused", "failure"}]
  BY DEF SubmitOk, SubmitFails, IInv, TypeOK
<1>3. /\ task[i] = "submitting" /\ phase \in {"submitting", "dropped"}
      /\ Update(i, status, code) /\ permits' = permits + 1 /\ Leave(i, "finished")
      /\ UNCHANGED mail /\ UNCHANGED unchangedInTask
  BY <1>1, RunsWhere DEF Finish
<1>4. Board!TypeOK'
  BY <1>3, UpdateEffect DEF IInv, TypeOK
<1>5. permits \in Nat /\ permits' \in Nat
      /\ mail' \in [Ids -> {"unsent", "offered", "accepted", "refused"}]
  BY <1>3 DEF IInv, TypeOK
<1>6. permits' + Cardinality(Submitting') = permits + Cardinality(Submitting)
  <2>1. Submitting' = Submitting \ {i} /\ i \in Submitting
    BY <1>3 DEF Submitting, Leave, IInv, TypeOK
  <2>2. IsFiniteSet(Submitting) /\ Cardinality(Submitting) \in Nat
    BY IdsFinite DEF Submitting
  <2>3. Cardinality(Submitting') = Cardinality(Submitting) - 1
    BY <2>1, <2>2, FS_RemoveElement
  <2> QED  BY <1>3, <1>5, <2>2, <2>3
<1> QED  BY <1>2, <1>3, <1>4, <1>5, <1>6, TaskStep

\* A poll that went on after the drop of the handler comes to its end.
LEMMA YieldStep == ASSUME IInv, NEW i \in Ids, Yield(i) PROVE IInv'
<1>1. /\ phase = "dropped" /\ i \in polling /\ Leave(i, task[i])
      /\ permits' = (IF task[i] = "submitting" THEN permits + 1 ELSE permits)
      /\ UNCHANGED <<boardVars, mail, heard>> /\ UNCHANGED unchangedInTask
  BY DEF Yield, IInv, Phased
<1>2. task[i] \in {"waiting", "submitting"}
  BY <1>1 DEF IInv, Staged
<1>3. Board!TypeOK'
  BY <1>1, SameEffect DEF IInv, TypeOK
<1>4. /\ permits' \in Nat
      /\ mail' \in [Ids -> {"unsent", "offered", "accepted", "refused"}]
      /\ heard' \in [Ids -> {"nothing", "accepted", "refused", "failure"}]
  BY <1>1 DEF IInv, TypeOK
<1>5. permits' + Cardinality(Submitting') = permits + Cardinality(Submitting)
  <2>1. IsFiniteSet(Submitting) /\ Cardinality(Submitting) \in Nat /\ permits \in Nat
    BY IdsFinite DEF Submitting, IInv, TypeOK
  <2>2. CASE task[i] = "waiting"
    <3>1. Submitting' = Submitting
      BY <1>1, <2>2 DEF Submitting, Leave, IInv, TypeOK
    <3> QED  BY <1>1, <2>2, <3>1
  <2>3. CASE task[i] = "submitting"
    <3>1. Submitting' = Submitting \ {i} /\ i \in Submitting
      BY <1>1, <2>3 DEF Submitting, Leave, IInv, TypeOK
    <3>2. Cardinality(Submitting') = Cardinality(Submitting) - 1
      BY <2>1, <3>1, FS_RemoveElement
    <3> QED  BY <1>1, <2>1, <2>3, <3>2
  <2> QED  BY <1>2, <2>2, <2>3
<1> QED  BY <1>1, <1>2, <1>3, <1>4, <1>5, TaskStep

\* The result of a finished task is collected.
LEMMA JoinStep == ASSUME IInv, NEW i \in Ids, Join(i) PROVE IInv'
<1>1. /\ phase = "submitting" /\ task[i] = "finished"
      /\ task' = [task EXCEPT ![i] = "joined"]
      /\ submitted' = Append(submitted, ResultOf(i))
      /\ UNCHANGED <<total, bulkConcurrency, phase, index, step, rejected, polling, permits,
                     mail, heard, response>>
  BY DEF Join, given, phase1Vars
<1>2. Board!TypeOK'
  BY SameEffect DEF Join, IInv, TypeOK
<1>3. ResultOf(i) \in Results
  BY CodesUsed DEF ResultOf, AcceptedResult, RejectedResult, Results
<1>4. /\ task' \in [Ids -> {"none", "prepared", "waiting", "submitting",
                           "finished", "joined", "aborted"}]
      /\ \A q \in Ids : task'[q] = IF q = i THEN "joined" ELSE task[q]
  BY <1>1 DEF IInv, TypeOK
<1>5. TypeOK'
  BY <1>1, <1>2, <1>3, <1>4 DEF IInv, TypeOK
<1>6. Phased' /\ ~Answered'
  BY <1>1 DEF IInv, Phased, Answered
<1>7. Counted'
  <2>1. Submitting' = Submitting
    BY <1>1, <1>4 DEF Submitting
  <2>2. Spawned' = Spawned /\ Limit' = Limit
    BY <1>1, <1>4, LimitKept
  <2> QED  BY <1>1, <2>1, <2>2 DEF IInv, Counted
<1>8. ASSUME NEW q \in Ids PROVE Staged(q)'
  <2>1. Staged(q) /\ (Rejected(q)' <=> Rejected(q)) /\ q \notin polling'
    BY <1>1 DEF IInv, Rejected, Phased
  <2> QED  BY <1>1, <1>4, <1>6, <2>1 DEF Staged
<1> QED  BY <1>5, <1>6, <1>7, <1>8 DEF IInv

\* All tasks have been joined and the results are put in order.
LEMMA ReplyStep == ASSUME IInv, Reply PROVE IInv'
<1>1. /\ phase = "submitting" /\ phase' = "done"
      /\ \A i \in Ids : task[i] \in {"none", "joined"}
      /\ UNCHANGED <<total, bulkConcurrency, index, step, rejected, task, polling, permits,
                     submitted, mail, heard>>
  BY DEF Reply, given, phase1Vars, phase2Vars
<1>2. Board!TypeOK'
  BY SameEffect DEF Reply, IInv, TypeOK
<1>3. TypeOK'
  BY <1>1, <1>2 DEF IInv, TypeOK
<1>4. Phased' /\ Counted'
  BY <1>1 DEF IInv, Phased, Counted, Answered
<1>5. \A i \in Ids : Staged(i)'
  BY <1>1 DEF IInv, Staged, Rejected, Answered
<1> QED  BY <1>3, <1>4, <1>5 DEF IInv

\* The handler is dropped: its tasks are aborted, but for those being polled.
LEMMA DroppedStep == ASSUME IInv, HandlerDropped PROVE IInv'
<1>1. PICK running \in SUBSET Active :
         /\ polling' = running
         /\ task' = [i \in Ids |-> IF i \in Active \ running THEN "aborted" ELSE task[i]]
         /\ permits' = permits + Cardinality({i \in Active \ running : task[i] = "submitting"})
  BY DEF HandlerDropped
<1>2. /\ phase \in {"idle", "submitting"} /\ phase' = "dropped"
      /\ UNCHANGED <<total, bulkConcurrency, index, step, rejected, submitted, mail, heard>>
  BY DEF HandlerDropped, given, phase1Vars
<1>3. Board!TypeOK'
  BY SameEffect DEF HandlerDropped, IInv, TypeOK
<1>4. Active \subseteq Ids /\ \A i \in Active : task[i] \in {"waiting", "submitting"}
  BY DEF Active
<1>5. permits' \in Nat
  <2> DEFINE freed == {i \in Active \ running : task[i] = "submitting"}
  <2>1. Cardinality(freed) \in Nat
    BY <1>4, IdsFinite
  <2> QED  BY <1>1, <2>1 DEF IInv, TypeOK
<1>6. TypeOK'
  BY <1>1, <1>2, <1>3, <1>4, <1>5 DEF IInv, TypeOK
<1>7. Phased' /\ phase' # "done"
  BY <1>2 DEF Phased, Answered
<1>9. Counted'
  <2>1. CASE phase = "idle"
    <3>1. \A i \in Ids : task[i] = "none"
      BY <2>1, IdsAreNumbers DEF IInv, Phased, Staged
    <3>2. Spawned' = {}
      BY <1>1, <3>1 DEF Spawned, Active
    <3> QED  BY <1>2, <3>2 DEF Counted
  <2>2. CASE phase = "submitting"
    <3> DEFINE freed == {i \in Active \ running : task[i] = "submitting"}
    <3>1. Submitting = Submitting' \cup freed /\ Submitting' \cap freed = {}
      BY <1>1, <1>4 DEF Submitting, Active
    <3>2. /\ IsFiniteSet(freed) /\ Cardinality(freed) \in Nat
          /\ IsFiniteSet(Submitting') /\ Cardinality(Submitting') \in Nat
      BY <1>4, IdsFinite DEF Submitting
    <3>3. permits' = permits + Cardinality(freed) /\ permits \in Nat
      BY <1>1 DEF IInv, TypeOK
    <3> HIDE DEF freed
    <3>4. Cardinality(Submitting) = Cardinality(Submitting') + Cardinality(freed)
      <4>1. Cardinality(Submitting' \cap freed) = 0
        BY <3>1, FS_EmptySet
      <4>2. Cardinality(Submitting' \cup freed)
               = Cardinality(Submitting') + Cardinality(freed)
                 - Cardinality(Submitting' \cap freed)
        BY <3>2, FS_Union
      <4> QED  BY <3>1, <3>2, <4>1, <4>2
    <3>5. Spawned' = Spawned /\ Limit' = Limit
      BY <1>1, <1>2, <1>4, LimitKept
    <3>6. permits + Cardinality(Submitting) = Limit
      BY <2>2 DEF IInv, Counted
    <3> QED  BY <3>2, <3>3, <3>4, <3>5, <3>6 DEF Counted
  <2> QED  BY <1>2, <2>1, <2>2
<1>8. ASSUME NEW i \in Ids PROVE Staged(i)'
  <2>1. Staged(i) /\ (Rejected(i)' <=> Rejected(i))
    BY <1>2 DEF IInv, Rejected
  <2>2. task[i] # "prepared"
    <3>1. CASE phase = "submitting"
      BY <2>1, <3>1 DEF Staged
    <3>2. CASE phase = "idle"
      BY <2>1, <3>2, IdsAreNumbers DEF IInv, Phased, Staged
    <3> QED  BY <1>2, <3>1, <3>2
  <2>3. CASE i \in Active \ running
    BY <1>1, <1>2, <1>4, <1>7, <2>1, <2>3 DEF Staged
  <2>4. CASE i \notin Active \ running
    BY <1>1, <1>2, <1>4, <1>7, <2>1, <2>2, <2>4 DEF Staged, Active
  <2> QED  BY <2>3, <2>4
<1> QED  BY <1>6, <1>7, <1>8, <1>9 DEF IInv

\* The SMTP server decides on an offered message.
LEMMA ServerStep == ASSUME IInv, NEW i \in Ids, ServerDecides(i) PROVE IInv'
<1>1. /\ mail[i] = "offered"
      /\ \E verdict \in {"accepted", "refused"} : mail' = [mail EXCEPT ![i] = verdict]
      /\ UNCHANGED <<total, bulkConcurrency, phase, index, step, rejected, task, polling,
                     permits, submitted, heard, response>>
  BY DEF ServerDecides, given, phase1Vars, phase2Vars
<1>2. Board!TypeOK'
  BY SameEffect DEF ServerDecides, IInv, TypeOK
<1>3. /\ mail' \in [Ids -> {"unsent", "offered", "accepted", "refused"}]
      /\ \A q \in Ids : mail[q] = "unsent" => mail'[q] = "unsent"
  BY <1>1 DEF IInv, TypeOK
<1>4. TypeOK' /\ Phased' /\ Counted'
  BY <1>1, <1>2, <1>3 DEF IInv, TypeOK, Phased, Counted, Answered, Submitting, Spawned,
         Limit
<1>5. \A q \in Ids : Staged(q)'
  BY <1>1, <1>3 DEF IInv, Staged, Rejected, Answered
<1> QED  BY <1>4, <1>5 DEF IInv

\* The store forgets entries, or nothing happens.
LEMMA QuietStep == ASSUME IInv, StoreForgets \/ UNCHANGED vars PROVE IInv'
<1>1. UNCHANGED <<total, bulkConcurrency, phase, index, step, rejected, task, polling,
                  permits, submitted, mail, heard>>
  BY DEF StoreForgets, given, phase1Vars, phase2Vars, vars
<1>2. Board!TypeOK'
  BY ForgetEffect, SameEffect DEF StoreForgets, vars, boardVars, IInv, TypeOK
<1>3. TypeOK' /\ Phased' /\ Counted'
  BY <1>1, <1>2 DEF IInv, TypeOK, Phased, Counted, Answered, Submitting, Spawned,
         Limit
<1>4. \A i \in Ids : Staged(i)'
  BY <1>1 DEF IInv, Staged, Rejected, Answered
<1> QED  BY <1>3, <1>4 DEF IInv

\* Every step keeps the invariant.
LEMMA StepInvariant == IInv /\ [Next]_vars => IInv'
<1> SUFFICES ASSUME IInv, [Next]_vars PROVE IInv'
  OBVIOUS
<1>1. CASE Phase1
  BY <1>1, BeginStep, CheckStep, BuiltStep, SpawnStep DEF Phase1
<1>2. ASSUME NEW i \in Ids, Task(i) PROVE IInv'
  BY <1>2, StartStep, FinishStep, YieldStep DEF Task
<1>3. ASSUME NEW i \in Ids, Join(i) \/ ServerDecides(i) PROVE IInv'
  BY <1>3, JoinStep, ServerStep
<1>4. CASE Reply \/ HandlerDropped \/ StoreForgets \/ UNCHANGED vars
  BY <1>4, ReplyStep, DroppedStep, QuietStep
<1> QED  BY <1>1, <1>2, <1>3, <1>4 DEF Next

\* The handler's state, its tasks, permits and results fit together at every moment.
THEOREM Invariant == Spec => []IInv
<1> QED  BY InitInvariant, StepInvariant, PTL DEF Spec

\* Type correctness.
THEOREM TypeCorrect == Spec => []TypeOK
<1>1. IInv => TypeOK
  BY DEF IInv
<1> QED  BY <1>1, Invariant, PTL

\* AC-711-01, for any number of messages: never more submissions at a time than
\* the semaphore had permits, and no permit is lost or made, whatever tasks end in.
THEOREM Bounded == Spec => []ParallelismBounded
<1>1. IInv => ParallelismBounded
  <2> SUFFICES ASSUME IInv, phase = "submitting" \/ (phase = "dropped" /\ Spawned # {})
               PROVE  /\ Cardinality(Submitting) <= Limit
                      /\ permits + Cardinality(Submitting) = Limit
    BY DEF ParallelismBounded, Submitting, Spawned, Limit
  <2>1. permits \in Nat /\ Cardinality(Submitting) \in Nat
    BY IdsFinite DEF IInv, TypeOK, Submitting
  <2>2. permits + Cardinality(Submitting) = Limit
    BY DEF IInv, Counted
  <2> QED  BY <2>1, <2>2
<1> QED  BY <1>1, Invariant, PTL

\* Once the handler is dropped, no message is offered to the server any more but by
\* a task that is in the middle of a poll, and that task ends there.
THEOREM DropIsFinal == Spec => DropEndsSubmissions
<1>1. IInv /\ [Next]_vars =>
         \A i \in Ids : phase = "dropped" /\ mail[i] = "unsent" /\ mail'[i] # "unsent" =>
            i \in polling /\ task'[i] = "aborted"
  <2> SUFFICES ASSUME IInv, [Next]_vars, NEW i \in Ids, phase = "dropped",
                      mail[i] = "unsent", mail'[i] # "unsent"
               PROVE  i \in polling /\ task'[i] = "aborted"
    OBVIOUS
  <2>1. PICK j \in Ids : Start(j)
    <3>1. ~Phase1
      BY DEF Phase1, Begin, RateLimited, StoreRejected, Received, Invalid, Validated,
             BuildFails, Built, Spawn, Preparing
    <3>2. ASSUME NEW j \in Ids PROVE ~ServerDecides(j)
      BY DEF ServerDecides, IInv, TypeOK
    <3>3. mail' # mail
      OBVIOUS
    <3> QED  BY <3>1, <3>2, <3>3
             DEF Next, Task, SubmitOk, SubmitFails, Finish, Yield, Join, Reply,
                 HandlerDropped, StoreForgets, vars
  <2>2. j = i /\ task[i] = "waiting" /\ Leave(i, "submitting")
    BY <2>1 DEF Start, IInv, TypeOK
  <2>3. i \in polling
    BY <2>2 DEF IInv, Staged
  <2> QED  BY <2>2, <2>3 DEF Leave, IInv, TypeOK
<1> QED  BY <1>1, Invariant, PTL DEF Spec, DropEndsSubmissions

\* No message is sent before all have been checked, and every message that was not
\* rejected is submitted (send_bulk.rs, phases 1 and 2).
THEOREM PhasesApart == Spec => []TwoPhases
<1>1. IInv => TwoPhases
  <2> SUFFICES ASSUME IInv PROVE TwoPhases
    OBVIOUS
  <2>1. phase \in {"idle", "preparing"} => \A i \in Ids : mail[i] = "unsent"
    BY DEF IInv, Staged
  <2>2. ASSUME Answered, NEW i \in Messages PROVE task[i] = "joined" <=> ~Rejected(i)
    <3>1. i \in Ids /\ i < index
      BY <2>2, IdsAreNumbers DEF IInv, Phased, Messages
    <3> QED  BY <2>2, <3>1 DEF IInv, Staged, Answered
  <2> QED  BY <2>1, <2>2 DEF TwoPhases, Rejected
<1> QED  BY <1>1, Invariant, PTL

-----------------------------------------------------------------------------
(* What became of each message: task, record, SMTP server and result. *)

Summary ==
    LET results == InOrder(rejected \o submitted) IN
    [code     |-> "ok",
     results  |-> results,
     accepted |-> CountOf(results, "accepted"),
     rejected |-> CountOf(results, "rejected")]

\* Each message has one result at most, and the answer is made of these.
Collected ==
    /\ \A m, n \in DOMAIN rejected : rejected[m].index = rejected[n].index => m = n
    /\ \A m, n \in DOMAIN submitted : submitted[m].index = submitted[n].index => m = n
    /\ \A n \in DOMAIN rejected : rejected[n].status = "rejected"
    /\ \A n \in DOMAIN submitted :
          task[submitted[n].index] = "joined" /\ submitted[n] = ResultOf(submitted[n].index)
    /\ \A i \in Ids : task[i] = "joined" => \E n \in DOMAIN submitted : submitted[n].index = i
    /\ Answered => response = Summary

Code(i) == IF heard[i] = "accepted" THEN NoCode ELSE "smtp_unavailable"

\* The record of message i, where it is still there, is as far as the message.
Recorded(i) ==
    i \in Board!Visible =>
        /\ \/ phase = "preparing" /\ i = index /\ step # "limits"
           \/ task[i] \in {"prepared", "waiting"}
           => board[i].key = ApiKey /\ board[i].status = "received"
        /\ task[i] = "submitting" =>
              board[i].key = ApiKey /\ board[i].status = "smtp_submission_started"
        /\ task[i] \in {"finished", "joined"} =>
              /\ board[i].status = IF heard[i] = "accepted" THEN "smtp_accepted"
                                   ELSE "smtp_failed"
              /\ board[i].code = Code(i)
        /\ \A n \in DOMAIN rejected : rejected[n].index = i =>
              board[i].status = "rejected" /\ board[i].code = rejected[n].code

\* A message is sent once its task submits it, and reported accepted once it is.
Sent(i) ==
    /\ task[i] \in {"none", "prepared", "waiting"} => mail[i] = "unsent"
    /\ task[i] \in {"submitting", "finished", "joined"} => mail[i] # "unsent"
    /\ heard[i] = "accepted" => mail[i] = "accepted"

Told(i) == Recorded(i) /\ Sent(i)

IStory == IInv /\ Collected /\ \A i \in Ids : Told(i)

\* A message that was rejected in phase 1 has no task.
LEMMA RejectedHasNoTask == ASSUME IInv, NEW i \in Ids, task[i] # "none" PROVE ~Rejected(i)
<1>1. Staged(i) /\ i \in Int /\ index \in Int
  BY IdsAreNumbers DEF IInv, TypeOK
<1> QED  BY <1>1 DEF Staged

\* Before the request nothing has been told.
LEMMA InitStory == Init => IStory
<1> SUFFICES ASSUME Init PROVE IStory
  OBVIOUS
<1>1. Collected
  BY DEF Init, Collected, Answered
<1>2. Board!Visible = {}
  BY DEF Init, Board!Init, Board!Visible
<1>3. \A i \in Ids : Told(i)
  BY <1>2 DEF Init, Told, Recorded, Sent
<1> QED  BY <1>1, <1>3, InitInvariant DEF IStory

\* A message whose record, task and results a step leaves alone keeps its story.
LEMMA OthersStay ==
    ASSUME IStory, NEW S \in SUBSET Ids, Kept(S), NEW i \in S,
           task'[i] = task[i], mail'[i] = mail[i], heard'[i] = heard[i],
           phase' = "preparing" /\ i = index' => step' = "limits" \/ UNCHANGED <<phase, index, step>>,
           \A n \in DOMAIN rejected' : rejected'[n].index = i =>
              n \in DOMAIN rejected /\ rejected'[n] = rejected[n]
    PROVE  Told(i)'
<1>1. Told(i)
  BY DEF IStory
<1>2. i \in Board!Visible' => i \in Board!Visible /\ board'[i] = board[i]
  BY DEF Kept
<1>3. Sent(i)'
  BY <1>1 DEF Told, Sent
<1>4. Recorded(i)'
  BY <1>1, <1>2 DEF Told, Recorded, Code
<1> QED  BY <1>3, <1>4 DEF Told

\* Results stay as they are while no result is added and no joined task changes.
LEMMA ResultsStay ==
    ASSUME IStory, UNCHANGED <<rejected, submitted>>, ~Answered',
           \A i \in Ids : task'[i] = "joined" <=> task[i] = "joined",
           \A i \in Ids : task[i] = "joined" => heard'[i] = heard[i]
    PROVE  Collected'
<1>1. submitted \in Seq(Results)
  BY DEF IStory, IInv, TypeOK
<1>2. \A n \in DOMAIN submitted : submitted[n].index \in Ids
  <2> TAKE n \in DOMAIN submitted
  <2>1. submitted[n] \in Results
    BY <1>1
  <2> QED  BY <2>1 DEF Results
<1> QED  BY <1>2 DEF IStory, Collected, ResultOf, AcceptedResult, RejectedResult

\* Phase 1 before the end of a message's checks.
LEMMA AdvanceStory ==
    ASSUME IStory, NEW at \in {"limits", "limited", "received", "validated"}, Preparing(at),
           NEW to \in {"limited", "received", "validated"}, Advance(to),
           UNCHANGED unchangedInPhase1, Kept(Ids \ {index}),
           index \in Board!Visible' => board'[index].key = ApiKey /\ board'[index].status = "received"
    PROVE  Collected' /\ \A i \in Ids : Told(i)'
<1>1. /\ UNCHANGED <<total, bulkConcurrency, phase, polling, permits, submitted, mail, heard,
                     response, task, index, rejected>>
      /\ phase = "preparing"
  BY DEF unchangedInPhase1, given, Advance, Preparing
<1>2. Collected'
  BY <1>1, ResultsStay DEF Answered
<1>3. ASSUME NEW i \in Ids PROVE Told(i)'
  <2>1. CASE i = index
    <3>1. task[i] = "none" /\ ~Rejected(i) /\ Told(i)
      BY <2>1, IdsAreNumbers DEF IStory, IInv, Staged
    <3>2. Sent(i)'
      BY <1>1, <3>1 DEF Told, Sent
    <3>3. Recorded(i)'
      BY <1>1, <2>1, <3>1 DEF Recorded, Rejected
    <3> QED  BY <3>2, <3>3 DEF Told
  <2>2. CASE i # index
    BY <1>1, <2>2, OthersStay
  <2> QED  BY <2>1, <2>2
<1> QED  BY <1>2, <1>3

\* A message dropped in phase 1 is recorded as rejected, with the code of its result.
LEMMA DropStory ==
    ASSUME IStory, NEW at \in {"limited", "received", "validated"}, Preparing(at),
           NEW code \in Codes, Update(index, "rejected", code), Drop(code),
           UNCHANGED unchangedInPhase1
    PROVE  Collected' /\ \A i \in Ids : Told(i)'
<1>1. /\ UNCHANGED <<total, bulkConcurrency, phase, polling, permits, submitted, mail, heard,
                     response, task>>
      /\ phase = "preparing" /\ step # "limits" /\ index \in Ids
      /\ index' = index + 1 /\ step' = "limits"
      /\ rejected' = Append(rejected, RejectedResult(index, code))
  BY IdsAreNumbers DEF unchangedInPhase1, given, Drop, Preparing, Messages, IStory, IInv, Phased
<1> DEFINE last == RejectedResult(index, code)
<1>2. /\ last \in Results /\ last.index = index /\ last.code = code /\ last.status = "rejected"
      /\ rejected' = Append(rejected, last) /\ rejected \in Seq(Results)
  BY <1>1 DEF RejectedResult, Results, IStory, IInv, TypeOK
<1> HIDE DEF last
<1>3. /\ Len(rejected) \in Nat
      /\ DOMAIN rejected = 1 .. Len(rejected) /\ DOMAIN rejected' = 1 .. Len(rejected) + 1
      /\ rejected'[Len(rejected) + 1] = last
      /\ \A n \in DOMAIN rejected : rejected'[n] = rejected[n]
  BY <1>2
<1>4. \A n \in DOMAIN rejected' : n \in DOMAIN rejected \/ (n = Len(rejected) + 1 /\ rejected'[n] = last)
  BY <1>3
<1>5. task[index] = "none" /\ ~Rejected(index) /\ Told(index)
  BY <1>1, IdsAreNumbers DEF IStory, IInv, Staged
<1>6. Collected'
  <2>1. \A m, n \in DOMAIN rejected' : rejected'[m].index = rejected'[n].index => m = n
    BY <1>2, <1>3, <1>4, <1>5 DEF IStory, Collected, Rejected
  <2>2. \A n \in DOMAIN rejected' : rejected'[n].status = "rejected"
    BY <1>2, <1>3, <1>4 DEF IStory, Collected
  <2> QED  BY <1>1, <2>1, <2>2
           DEF IStory, Collected, Answered, ResultOf, AcceptedResult, RejectedResult
<1>7. /\ Kept(Ids \ {index})
      /\ index \in Board!Visible' => board'[index].status = "rejected" /\ board'[index].code = code
  <2>1. index \in Board!Visible => board[index].key = ApiKey /\ board[index].status = "received"
    BY <1>1, <1>5 DEF Told, Recorded
  <2>2. Board!TypeOK /\ "rejected" \in Updates /\ "received" \notin Terminal
    BY CodesUsed DEF IStory, IInv, TypeOK, Terminal
  <2> QED  BY <1>1, <2>1, <2>2, UpdateEffect
<1>8. ASSUME NEW i \in Ids, i = index PROVE Told(i)'
  <2>1. Sent(i)'
    BY <1>1, <1>5, <1>8 DEF Told, Sent
  <2>2. Recorded(i)'
    <3>1. ~(i = index')
      BY <1>1, <1>8, IdsAreNumbers
    <3>2. \A n \in DOMAIN rejected' : rejected'[n].index = i => rejected'[n] = last
      BY <1>3, <1>4, <1>5, <1>8 DEF Rejected
    <3> QED  BY <1>1, <1>2, <1>5, <1>7, <1>8, <3>1, <3>2 DEF Recorded
  <2> QED  BY <2>1, <2>2 DEF Told
<1>9. ASSUME NEW i \in Ids \ {index} PROVE Told(i)'
  <2>1. \A n \in DOMAIN rejected' : rejected'[n].index = i =>
           n \in DOMAIN rejected /\ rejected'[n] = rejected[n]
    BY <1>2, <1>3, <1>4
  <2> QED  BY <1>1, <1>7, <2>1, OthersStay
<1> QED  BY <1>1, <1>6, <1>8, <1>9

\* A step of the checks keeps record and results of every message in agreement.
LEMMA CheckStory ==
    ASSUME IStory,
           RateLimited \/ StoreRejected \/ Received \/ Invalid \/ Validated \/ BuildFails
    PROVE  Collected' /\ \A i \in Ids : Told(i)'
<1>1. index \in Ids /\ Board!TypeOK /\ phase = "preparing"
  BY IdsAreNumbers
     DEF RateLimited, StoreRejected, Received, Invalid, Validated, BuildFails, Preparing,
         IStory, IInv, TypeOK, Phased, Messages
<1>2. CASE RateLimited \/ Received
  <2>1. PICK to \in {"limited", "received"} : Advance(to)
    BY <1>2 DEF RateLimited, Received
  <2>2. /\ Kept(Ids \ {index})
        /\ index \in Board!Visible' => board'[index] = FreshEntry(ApiKey)
        /\ Preparing("limits") /\ UNCHANGED unchangedInPhase1
    BY <1>1, <1>2, PutEffect DEF RateLimited, Received
  <2>3. index \in Board!Visible' =>
           board'[index].key = ApiKey /\ board'[index].status = "received"
    BY <2>2 DEF FreshEntry
  <2> QED  BY <2>1, <2>2, <2>3, AdvanceStory
<1>3. CASE Validated
  <2>1. /\ Kept(Ids \ {index})
        /\ index \in Board!Visible' => /\ index \in Board!Visible
                                       /\ board'[index].key = board[index].key
                                       /\ board'[index].status = board[index].status
        /\ Preparing("received") /\ UNCHANGED unchangedInPhase1 /\ Advance("validated")
    BY <1>1, <1>3, DescribeEffect DEF Validated
  <2>2. index \in Board!Visible => board[index].key = ApiKey /\ board[index].status = "received"
    BY <1>1, <2>1 DEF IStory, Told, Recorded, Preparing
  <2> QED  BY <2>1, <2>2, AdvanceStory
<1>4. CASE StoreRejected \/ Invalid \/ BuildFails
  <2>1. PICK at \in {"limited", "received", "validated"}, code \in Codes :
           Preparing(at) /\ Update(index, "rejected", code) /\ Drop(code)
    BY <1>4, CodesUsed DEF StoreRejected, Invalid, BuildFails
  <2>2. UNCHANGED unchangedInPhase1
    BY <1>4 DEF StoreRejected, Invalid, BuildFails
  <2> QED  BY <2>1, <2>2, DropStory
<1> QED  BY <1>2, <1>3, <1>4

\* So does the end of the checks of a message,
LEMMA BuiltStory == ASSUME IStory, Built PROVE Collected' /\ \A i \in Ids : Told(i)'
<1>1. /\ phase = "preparing" /\ step = "validated" /\ index \in Ids
      /\ UNCHANGED <<total, bulkConcurrency, phase, polling, permits, submitted, mail, heard,
                     response, rejected>>
      /\ index' = index + 1 /\ step' = "limits"
      /\ task' = [task EXCEPT ![index] = "prepared"]
  BY IdsAreNumbers
     DEF Built, unchangedInPhase1, given, Preparing, Messages, IStory, IInv, Phased
<1>2. Kept(Ids)
  BY SameEffect DEF Built, IStory, IInv, TypeOK
<1>3. \A i \in Ids : task'[i] = IF i = index THEN "prepared" ELSE task[i]
  BY <1>1 DEF IStory, IInv, TypeOK
<1>4. task[index] = "none" /\ ~Rejected(index)
  BY <1>1, IdsAreNumbers DEF IStory, IInv, Staged
<1>5. Collected'
  BY <1>1, <1>3, <1>4, ResultsStay DEF Answered
<1>6. ASSUME NEW i \in Ids, i = index PROVE Told(i)'
  <2>1. Told(i)
    BY DEF IStory
  <2>2. Sent(i)'
    BY <1>1, <1>3, <1>4, <1>6, <2>1 DEF Told, Sent
  <2>3. Recorded(i)'
    BY <1>1, <1>2, <1>3, <1>4, <1>6, <2>1 DEF Told, Recorded, Rejected, Kept
  <2> QED  BY <2>2, <2>3 DEF Told
<1>7. ASSUME NEW i \in Ids \ {index} PROVE Told(i)'
  BY <1>1, <1>2, <1>3, OthersStay
<1> QED  BY <1>1, <1>5, <1>6, <1>7

\* the beginning of the request,
LEMMA BeginStory == ASSUME IStory, Begin PROVE Collected' /\ \A i \in Ids : Told(i)'
<1>1. /\ UNCHANGED <<total, bulkConcurrency, index, step, rejected, task, polling, permits,
                     submitted, mail, heard>>
      /\ phase = "idle" /\ step = "limits"
  BY DEF Begin, given, phase1Vars, phase2Vars, IStory, IInv, Phased
<1>2. Kept(Ids)
  BY SameEffect DEF Begin, IStory, IInv, TypeOK
<1>3. ~Answered'
  BY <1>1, IdsAreNumbers DEF Begin, Answered
<1>4. Collected'
  BY <1>1, <1>3, ResultsStay
<1>5. \A i \in Ids : Told(i)'
  BY <1>1, <1>2, OthersStay
<1> QED  BY <1>4, <1>5

\* and the beginning of phase 2: a message without a result has a task.
LEMMA SpawnStory == ASSUME IStory, Spawn PROVE Collected' /\ \A i \in Ids : Told(i)'
<1>1. /\ phase = "preparing" /\ phase' = "submitting"
      /\ task' = [i \in Ids |-> IF task[i] = "prepared" THEN "waiting" ELSE task[i]]
      /\ UNCHANGED <<total, bulkConcurrency, index, step, rejected, polling, submitted, mail,
                     heard, response>>
  BY DEF Spawn, given, phase1Vars
<1>2. Kept(Ids)
  BY SameEffect DEF Spawn, IStory, IInv, TypeOK
<1>3. Collected'
  BY <1>1, ResultsStay DEF Answered
<1>4. ASSUME NEW i \in Ids PROVE Told(i)'
  <2>1. Told(i) /\ task'[i] = IF task[i] = "prepared" THEN "waiting" ELSE task[i]
    BY <1>1 DEF IStory
  <2>2. Sent(i)'
    BY <1>1, <2>1 DEF Told, Sent
  <2>3. Recorded(i)'
    BY <1>1, <1>2, <2>1 DEF Told, Recorded, Code, Kept
  <2> QED  BY <2>2, <2>3 DEF Told
<1> QED  BY <1>3, <1>4

\* A poll of task i that tells its story tells that of all.
LEMMA TaskStory ==
    ASSUME IStory, NEW i \in Ids, task[i] \in {"waiting", "submitting"},
           phase \in {"submitting", "dropped"}, Kept(Ids \ {i}), UNCHANGED unchangedInTask,
           NEW at \in {"waiting", "submitting", "finished"}, Leave(i, at),
           \A q \in Ids \ {i} : mail'[q] = mail[q] /\ heard'[q] = heard[q],
           Told(i)'
    PROVE  Collected' /\ \A q \in Ids : Told(q)'
<1>1. UNCHANGED <<total, bulkConcurrency, phase, index, step, rejected, submitted, response>>
  BY DEF unchangedInTask, given, phase1Vars
<1>2. /\ \A q \in Ids \ {i} : task'[q] = task[q]
      /\ task'[i] \in {"waiting", "submitting", "finished", "aborted"}
  BY DEF Leave, IStory, IInv, TypeOK
<1>3. Collected'
  BY <1>1, <1>2, ResultsStay DEF Answered
<1>4. ASSUME NEW q \in Ids \ {i} PROVE Told(q)'
  BY <1>1, <1>2, OthersStay
<1> QED  BY <1>3, <1>4

\* A message that is offered to the SMTP server is recorded as being submitted.
LEMMA StartStory ==
    ASSUME IStory, NEW i \in Ids, Start(i)
    PROVE  Collected' /\ \A q \in Ids : Told(q)'
<1>1. /\ task[i] = "waiting" /\ phase \in {"submitting", "dropped"} /\ permits > 0
      /\ Update(i, "smtp_submission_started", NoCode)
      /\ mail' = [mail EXCEPT ![i] = "offered"] /\ Leave(i, "submitting")
      /\ UNCHANGED heard /\ UNCHANGED unchangedInTask
  BY RunsWhere DEF Start, IStory
<1>2. /\ task'[i] \in {"submitting", "aborted"} /\ mail'[i] = "offered"
      /\ UNCHANGED <<rejected, phase>>
      /\ \A q \in Ids \ {i} : mail'[q] = mail[q]
  BY <1>1 DEF Leave, IStory, IInv, TypeOK, unchangedInTask, given, phase1Vars
<1>3. Told(i) /\ ~Rejected(i)
  BY <1>1, RejectedHasNoTask DEF IStory
<1>4. i \in Board!Visible => board[i].key = ApiKey /\ board[i].status = "received"
  BY <1>1, <1>3 DEF Told, Recorded
<1>5. /\ Kept(Ids \ {i})
      /\ i \in Board!Visible' =>
            board'[i].key = ApiKey /\ board'[i].status = "smtp_submission_started"
  <2>1. Board!TypeOK /\ "received" \notin Terminal
    BY DEF IStory, IInv, TypeOK, Terminal
  <2> QED  BY <1>1, <1>4, <2>1, CodesUsed, UpdateEffect
<1>6. Told(i)'
  BY <1>1, <1>2, <1>3, <1>5 DEF Told, Recorded, Sent, Rejected
<1> QED  BY <1>1, <1>2, <1>5, <1>6, TaskStory

\* What a task heard is what it records and what its result will say.
LEMMA FinishStory ==
    ASSUME IStory, NEW i \in Ids, SubmitOk(i) \/ SubmitFails(i)
    PROVE  Collected' /\ \A q \in Ids : Told(q)'
<1>1. PICK status \in {"smtp_accepted", "smtp_failed"}, code \in Codes,
           end \in {"accepted", "refused", "failure"} :
         /\ Finish(i, status, code) /\ heard' = [heard EXCEPT ![i] = end]
         /\ end = "accepted" => mail[i] = "accepted"
         /\ status = IF end = "accepted" THEN "smtp_accepted" ELSE "smtp_failed"
         /\ code = IF end = "accepted" THEN NoCode ELSE "smtp_unavailable"
  BY CodesUsed DEF SubmitOk, SubmitFails
<1>2. /\ task[i] = "submitting" /\ phase \in {"submitting", "dropped"}
      /\ Update(i, status, code) /\ Leave(i, "finished")
      /\ UNCHANGED mail /\ UNCHANGED unchangedInTask
  BY <1>1, RunsWhere DEF Finish, IStory
<1>3. /\ task'[i] = "finished" /\ heard'[i] = end
      /\ UNCHANGED <<rejected, phase>>
      /\ \A q \in Ids \ {i} : heard'[q] = heard[q]
  BY <1>1, <1>2 DEF Leave, IStory, IInv, TypeOK, unchangedInTask, given, phase1Vars
<1>4. Told(i) /\ ~Rejected(i)
  BY <1>2, RejectedHasNoTask DEF IStory
<1>5. i \in Board!Visible =>
         board[i].key = ApiKey /\ board[i].status = "smtp_submission_started"
  BY <1>2, <1>4 DEF Told, Recorded
<1>6. /\ Kept(Ids \ {i})
      /\ i \in Board!Visible' => board'[i].status = status /\ board'[i].code = code
  <2>1. Board!TypeOK /\ "smtp_submission_started" \notin Terminal
    BY DEF IStory, IInv, TypeOK, Terminal
  <2> QED  BY <1>1, <1>2, <1>5, <2>1, CodesUsed, UpdateEffect
<1>7. Sent(i)'
  BY <1>1, <1>2, <1>3, <1>4 DEF Told, Sent
<1>8. Recorded(i)'
  BY <1>1, <1>2, <1>3, <1>4, <1>6 DEF Recorded, Code, Rejected
<1> QED  BY <1>2, <1>3, <1>6, <1>7, <1>8, TaskStory DEF Told

\* A task that ends after the drop leaves the record where it was.
LEMMA YieldStory ==
    ASSUME IStory, NEW i \in Ids, Yield(i)
    PROVE  Collected' /\ \A q \in Ids : Told(q)'
<1>1. /\ phase = "dropped" /\ i \in polling
      /\ Leave(i, task[i]) /\ UNCHANGED unchangedInTask
      /\ UNCHANGED <<mail, heard>> /\ Kept(Ids)
      /\ task[i] \in {"waiting", "submitting"}
  BY SameEffect DEF Yield, IStory, IInv, TypeOK, Phased, Staged
<1>2. task'[i] = "aborted" /\ UNCHANGED <<rejected, phase>>
  BY <1>1 DEF Leave, IStory, IInv, TypeOK, unchangedInTask, given, phase1Vars
<1>3. Told(i) /\ ~Rejected(i)
  BY <1>1, RejectedHasNoTask DEF IStory
<1>4. Told(i)'
  BY <1>1, <1>2, <1>3 DEF Told, Recorded, Sent, Rejected
<1>5. Kept(Ids \ {i})
  BY <1>1 DEF Kept
<1> QED  BY <1>1, <1>4, <1>5, TaskStory

\* A result that is collected is that of its task, under the index of its message.
LEMMA JoinStory ==
    ASSUME IStory, NEW i \in Ids, Join(i)
    PROVE  Collected' /\ \A q \in Ids : Told(q)'
<1>1. /\ phase = "submitting" /\ task[i] = "finished"
      /\ task' = [task EXCEPT ![i] = "joined"]
      /\ UNCHANGED <<total, bulkConcurrency, phase, index, step, rejected, polling, permits,
                     mail, heard, response>>
  BY DEF Join, given, phase1Vars
<1> DEFINE last == ResultOf(i)
<1>2. /\ last \in Results /\ last.index = i
      /\ submitted' = Append(submitted, last) /\ submitted \in Seq(Results)
  BY CodesUsed
     DEF Join, ResultOf, AcceptedResult, RejectedResult, Results, IStory, IInv, TypeOK
<1>3. Kept(Ids)
  BY SameEffect DEF Join, IStory, IInv, TypeOK
<1>4. \A q \in Ids : task'[q] = IF q = i THEN "joined" ELSE task[q]
  BY <1>1 DEF IStory, IInv, TypeOK
<1>5. Collected'
  <2>1. UNCHANGED <<rejected, heard, total, phase>> /\ ~Answered' /\ last = ResultOf(i)
    BY <1>1 DEF Answered
  <2> HIDE DEF last
  <2>2. /\ Len(submitted) \in Nat
        /\ DOMAIN submitted = 1 .. Len(submitted)
        /\ DOMAIN submitted' = 1 .. Len(submitted) + 1
        /\ submitted'[Len(submitted) + 1] = last
        /\ \A n \in DOMAIN submitted : submitted'[n] = submitted[n]
    BY <1>2
  <2>3. \A n \in DOMAIN submitted' :
           n \in DOMAIN submitted \/ (n = Len(submitted) + 1 /\ submitted'[n] = last)
    BY <2>2
  <2>4. \A n \in DOMAIN submitted :
           /\ task[submitted[n].index] = "joined" /\ submitted[n].index # i
           /\ submitted[n] = ResultOf(submitted[n].index)
           /\ submitted[n].index \in Ids
    <3> TAKE n \in DOMAIN submitted
    <3>1. submitted[n] \in Results
      BY <1>2
    <3> QED  BY <1>1, <3>1 DEF IStory, Collected, Results
  <2>5. \A m, n \in DOMAIN submitted' : submitted'[m].index = submitted'[n].index => m = n
    <3>1. \A m, n \in DOMAIN submitted : submitted[m].index = submitted[n].index => m = n
      BY DEF IStory, Collected
    <3> QED  BY <1>2, <2>2, <2>3, <2>4, <3>1
  <2>6. ASSUME NEW n \in DOMAIN submitted'
        PROVE  task'[submitted'[n].index] = "joined"
    BY <1>2, <1>4, <2>2, <2>3, <2>4
  <2>7. ASSUME NEW n \in DOMAIN submitted'
        PROVE  submitted'[n] = IF heard[submitted'[n].index] = "accepted"
                               THEN AcceptedResult(submitted'[n].index)
                               ELSE RejectedResult(submitted'[n].index, "smtp_unavailable")
    <3>1. CASE n \in DOMAIN submitted
      BY <2>2, <2>4, <3>1 DEF ResultOf
    <3>2. CASE submitted'[n] = last
      BY <1>2, <2>1, <3>2 DEF ResultOf
    <3> QED  BY <2>3, <3>1, <3>2
  <2>8. \A q \in Ids : task'[q] = "joined" =>
           \E n \in DOMAIN submitted' : submitted'[n].index = q
    <3> TAKE q \in Ids
    <3> HAVE task'[q] = "joined"
    <3>1. CASE q = i
      BY <1>2, <2>2, <3>1
    <3>2. CASE task[q] = "joined"
      <4>1. PICK n \in DOMAIN submitted : submitted[n].index = q
        BY <3>2 DEF IStory, Collected
      <4>2. n \in DOMAIN submitted' /\ submitted'[n].index = q
        BY <2>2, <4>1
      <4> QED  BY <4>2
    <3> QED  BY <1>4, <3>1, <3>2
  <2>9. /\ \A m, n \in DOMAIN rejected' : rejected'[m].index = rejected'[n].index => m = n
        /\ \A n \in DOMAIN rejected' : rejected'[n].status = "rejected"
    BY <2>1 DEF IStory, Collected
  <2> QED  BY <2>1, <2>5, <2>6, <2>7, <2>8, <2>9
           DEF Collected, ResultOf, AcceptedResult, RejectedResult
<1>6. ASSUME NEW q \in Ids PROVE Told(q)'
  <2>1. Told(q) /\ task'[q] = IF q = i THEN "joined" ELSE task[q]
    BY <1>4 DEF IStory
  <2>2. Sent(q)'
    BY <1>1, <2>1 DEF Told, Sent
  <2>3. Recorded(q)'
    BY <1>1, <1>3, <2>1 DEF Told, Recorded, Code, Kept
  <2> QED  BY <2>2, <2>3 DEF Told
<1> QED  BY <1>5, <1>6

\* The answer holds what has been collected.
LEMMA ReplyStory == ASSUME IStory, Reply PROVE Collected' /\ \A i \in Ids : Told(i)'
<1>1. /\ phase = "submitting" /\ phase' = "done" /\ response' = Summary
      /\ UNCHANGED <<total, bulkConcurrency, index, step, rejected, task, polling, permits,
                     submitted, mail, heard>>
  BY DEF Reply, Summary, given, phase1Vars, phase2Vars
<1>2. Kept(Ids)
  BY SameEffect DEF Reply, IStory, IInv, TypeOK
<1>3. Summary' = Summary
  BY <1>1 DEF Summary
<1>4. Collected'
  BY <1>1, <1>3 DEF IStory, Collected, ResultOf, AcceptedResult, RejectedResult
<1>5. \A i \in Ids : Told(i)'
  BY <1>1, <1>2, OthersStay
<1> QED  BY <1>4, <1>5

\* Dropping the handler changes no record.
LEMMA DroppedStory == ASSUME IStory, HandlerDropped PROVE Collected' /\ \A i \in Ids : Told(i)'
<1>1. /\ phase \in {"idle", "submitting"} /\ phase' = "dropped"
      /\ UNCHANGED <<total, bulkConcurrency, index, step, rejected, submitted, mail, heard>>
      /\ \A i \in Ids : task'[i] = task[i] \/ (task'[i] = "aborted" /\ i \in Active)
  BY DEF HandlerDropped, given, phase1Vars, IStory, IInv, TypeOK
<1>2. Kept(Ids)
  BY SameEffect DEF HandlerDropped, IStory, IInv, TypeOK
<1>3. \A i \in Active : i \in Ids /\ task[i] \in {"waiting", "submitting"}
  BY DEF Active
<1>4. Collected'
  BY <1>1, <1>3, ResultsStay DEF Answered
<1>5. ASSUME NEW i \in Ids PROVE Told(i)'
  <2>1. Told(i) /\ (i \in Active => ~Rejected(i))
    BY <1>3, RejectedHasNoTask DEF IStory
  <2>2. Sent(i)'
    BY <1>1, <2>1 DEF Told, Sent
  <2>3. Recorded(i)'
    BY <1>1, <1>2, <2>1 DEF Told, Recorded, Code, Kept, Rejected
  <2> QED  BY <2>2, <2>3 DEF Told
<1> QED  BY <1>4, <1>5

\* Steps of the server and of the store change no result.
LEMMA QuietStory ==
    ASSUME IStory, \/ \E i \in Ids : ServerDecides(i)
                   \/ StoreForgets
                   \/ UNCHANGED vars
    PROVE  Collected' /\ \A i \in Ids : Told(i)'
<1>1. UNCHANGED <<total, bulkConcurrency, phase, index, step, rejected, task, polling,
                  permits, submitted, heard, response>>
  BY DEF ServerDecides, StoreForgets, given, phase1Vars, phase2Vars, vars
<1>2. Kept(Ids)
  BY ForgetEffect, SameEffect
     DEF ServerDecides, StoreForgets, vars, boardVars, IStory, IInv, TypeOK
<1>3. \A i \in Ids : mail'[i] = mail[i] \/ (mail[i] = "offered" /\ mail'[i] \in {"accepted", "refused"})
  BY DEF ServerDecides, StoreForgets, vars, IStory, IInv, TypeOK
<1>4. Collected'
  BY <1>1
     DEF IStory, Collected, Answered, ResultOf, AcceptedResult, RejectedResult, Summary
<1>5. ASSUME NEW i \in Ids PROVE Told(i)'
  <2>1. Told(i)
    BY DEF IStory
  <2>2. Sent(i)'
    BY <1>1, <1>3, <2>1 DEF Told, Sent
  <2>3. Recorded(i)'
    BY <1>1, <1>2, <2>1 DEF Told, Recorded, Code, Kept
  <2> QED  BY <2>2, <2>3 DEF Told
<1> QED  BY <1>4, <1>5

\* Every step keeps record, message and result of every message in agreement.
LEMMA StepStory == IStory /\ [Next]_vars => IStory'
<1> SUFFICES ASSUME IStory, [Next]_vars PROVE IStory'
  OBVIOUS
<1>1. IInv'
  BY StepInvariant DEF IStory
<1>2. CASE Phase1
  BY <1>1, <1>2, BeginStory, CheckStory, BuiltStory, SpawnStory DEF Phase1, IStory
<1>3. ASSUME NEW i \in Ids, Task(i) PROVE IStory'
  BY <1>1, <1>3, StartStory, FinishStory, YieldStory DEF Task, IStory
<1>4. ASSUME NEW i \in Ids, Join(i) \/ ServerDecides(i) PROVE IStory'
  BY <1>1, <1>4, JoinStory, QuietStory DEF IStory
<1>5. CASE Reply \/ HandlerDropped \/ StoreForgets \/ UNCHANGED vars
  BY <1>1, <1>5, ReplyStory, DroppedStory, QuietStory DEF IStory
<1> QED  BY <1>2, <1>3, <1>4, <1>5 DEF Next

\* Once the request is answered there is one result for each of its messages.
LEMMA OneResultEach ==
    ASSUME IStory, Answered, NEW s, s = rejected \o submitted
    PROVE  /\ s \in Seq(Results) /\ total \in Nat
           /\ \A k, m \in DOMAIN s : s[k].index = s[m].index => k = m
           /\ \A k \in DOMAIN s : s[k].index \in 1 .. total
           /\ \A i \in 1 .. total : \E k \in DOMAIN s : s[k].index = i
           /\ \A k \in DOMAIN s : \/ \E n \in DOMAIN rejected : s[k] = rejected[n]
                                  \/ \E n \in DOMAIN submitted : s[k] = submitted[n]
<1> DEFINE a == Len(rejected)
           b == Len(submitted)
<1>1. /\ rejected \in Seq(Results) /\ submitted \in Seq(Results)
      /\ total \in 1 .. MaxBulk /\ MaxBulk \in Nat /\ index = total + 1 /\ Collected
  BY IdsAreNumbers DEF IStory, IInv, TypeOK, Phased
<1>2. /\ s \in Seq(Results) /\ a \in Nat /\ b \in Nat
      /\ DOMAIN rejected = 1 .. a /\ DOMAIN submitted = 1 .. b /\ DOMAIN s = 1 .. a + b
      /\ \A k \in 1 .. a : s[k] = rejected[k]
      /\ \A k \in 1 .. b : s[a + k] = submitted[k]
  BY <1>1
<1>3. \A k \in DOMAIN s : \/ k \in DOMAIN rejected /\ s[k] = rejected[k]
                          \/ k > a /\ k - a \in DOMAIN submitted /\ s[k] = submitted[k - a]
  <2> TAKE k \in DOMAIN s
  <2>1. CASE k <= a
    BY <1>2, <2>1
  <2>2. CASE k > a
    <3>1. k - a \in 1 .. b /\ k = a + (k - a)
      BY <1>2, <2>2
    <3>2. s[a + (k - a)] = submitted[k - a]
      BY <1>2, <3>1
    <3> QED  BY <1>2, <2>2, <3>1, <3>2
  <2> QED  BY <1>2, <2>1, <2>2
<1>4. ASSUME NEW n \in DOMAIN rejected
      PROVE  rejected[n].index \in 1 .. total /\ task[rejected[n].index] = "none"
  <2> DEFINE i == rejected[n].index
  <2>1. rejected[n] \in Results
    BY <1>1
  <2>2. i \in Ids /\ Rejected(i)
    BY <2>1 DEF Results, Rejected
  <2>3. Staged(i) /\ i \in 1 .. MaxBulk
    BY <2>2, IdsAreNumbers DEF IStory, IInv
  <2> QED  BY <1>1, <2>2, <2>3 DEF Staged
<1>5. ASSUME NEW n \in DOMAIN submitted
      PROVE  submitted[n].index \in 1 .. total /\ task[submitted[n].index] = "joined"
  <2> DEFINE i == submitted[n].index
  <2>1. submitted[n] \in Results
    BY <1>1
  <2>2. i \in Ids /\ task[i] = "joined"
    BY <1>1, <2>1 DEF Results, Collected
  <2>3. Staged(i) /\ i \in 1 .. MaxBulk
    BY <2>2, IdsAreNumbers DEF IStory, IInv
  <2> QED  BY <1>1, <2>2, <2>3 DEF Staged
<1> HIDE DEF a, b
<1>6. \A k \in DOMAIN s : s[k].index \in 1 .. total
  BY <1>3, <1>4, <1>5
<1>7. \A k, m \in DOMAIN s : s[k].index = s[m].index => k = m
  <2> TAKE k, m \in DOMAIN s
  <2> HAVE s[k].index = s[m].index
  <2>1. CASE k \in DOMAIN rejected /\ s[k] = rejected[k] /\ m \in DOMAIN rejected /\ s[m] = rejected[m]
    BY <1>1, <2>1 DEF Collected
  <2>2. CASE /\ k > a /\ k - a \in DOMAIN submitted /\ s[k] = submitted[k - a]
             /\ m > a /\ m - a \in DOMAIN submitted /\ s[m] = submitted[m - a]
    <3>1. k - a = m - a
      BY <1>1, <2>2 DEF Collected
    <3> QED  BY <1>2, <3>1
  <2>3. CASE \/ /\ k \in DOMAIN rejected /\ s[k] = rejected[k]
                /\ m - a \in DOMAIN submitted /\ s[m] = submitted[m - a]
             \/ /\ m \in DOMAIN rejected /\ s[m] = rejected[m]
                /\ k - a \in DOMAIN submitted /\ s[k] = submitted[k - a]
    BY <1>4, <1>5, <2>3
  <2> QED  BY <1>3, <2>1, <2>2, <2>3
<1>8. \A i \in 1 .. total : \E k \in DOMAIN s : s[k].index = i
  <2> TAKE i \in 1 .. total
  <2>1. i \in Ids /\ i < index /\ Staged(i)
    BY <1>1, IdsAreNumbers DEF IStory, IInv
  <2>2. CASE task[i] = "none"
    <3>1. PICK n \in DOMAIN rejected : rejected[n].index = i
      BY <2>1, <2>2 DEF Staged, Rejected
    <3>2. n \in DOMAIN s /\ s[n] = rejected[n]
      BY <1>2
    <3> QED  BY <3>1, <3>2
  <2>3. CASE task[i] = "joined"
    <3>1. PICK n \in DOMAIN submitted : submitted[n].index = i
      BY <1>1, <2>1, <2>3 DEF Collected
    <3>2. a + n \in DOMAIN s /\ s[a + n] = submitted[n]
      BY <1>2
    <3> QED  BY <3>1, <3>2
  <2>4. phase = "done"
    BY DEF Answered
  <2> QED  BY <2>1, <2>2, <2>3, <2>4 DEF Staged
<1>9. \A k \in DOMAIN s : \/ \E n \in DOMAIN rejected : s[k] = rejected[n]
                          \/ \E n \in DOMAIN submitted : s[k] = submitted[n]
  BY <1>3
<1>10. s \in Seq(Results) /\ total \in Nat
  BY <1>1, <1>2
<1> QED  BY <1>6, <1>7, <1>8, <1>9, <1>10, Zenon

\* Every result is either accepted or rejected.
LEMMA CountsAddUp ==
    ASSUME NEW n \in Nat, NEW results, DOMAIN results = 1 .. n,
           \A i \in 1 .. n : results[i].status \in {"accepted", "rejected"}
    PROVE  CountOf(results, "accepted") + CountOf(results, "rejected") = n
<1> DEFINE A == {i \in DOMAIN results : results[i].status = "accepted"}
           R == {i \in DOMAIN results : results[i].status = "rejected"}
<1>1. A \cup R = 1 .. n /\ A \cap R = {}
  OBVIOUS
<1>2. IsFiniteSet(1 .. n) /\ Cardinality(1 .. n) = n
  BY FS_Interval
<1>3. A \in SUBSET (1 .. n) /\ R \in SUBSET (1 .. n)
  OBVIOUS
<1>4. CountOf(results, "accepted") = Cardinality(A) /\ CountOf(results, "rejected") = Cardinality(R)
  BY DEF CountOf
<1> HIDE DEF A, R
<1>5. IsFiniteSet(A) /\ IsFiniteSet(R)
  BY <1>2, <1>3, FS_Subset
<1>6. Cardinality(A \cup R) = Cardinality(A) + Cardinality(R) - Cardinality(A \cap R)
  BY <1>5, FS_Union
<1>7. Cardinality(A \cap R) = 0 /\ Cardinality(A) \in Nat /\ Cardinality(R) \in Nat
  BY <1>1, <1>5, FS_EmptySet, FS_CardinalityType
<1>8. Cardinality(A) + Cardinality(R) = n
  <2>1. Cardinality(A \cup R) = n
    BY <1>1, <1>2
  <2>2. \A x, y, z, m \in Int : m = x + y - z /\ z = 0 => x + y = m
    OBVIOUS
  <2> QED  BY <1>6, <1>7, <2>1, <2>2
<1> QED  BY <1>4, <1>8

\* The answer's results, by message.
LEMMA ResultsInOrder ==
    ASSUME IStory, Answered
    PROVE  /\ DOMAIN response.results = 1 .. total
           /\ response.accepted + response.rejected = total
           /\ \A i \in 1 .. total :
                 /\ response.results[i].index = i
                 /\ \/ \E n \in DOMAIN rejected : response.results[i] = rejected[n]
                    \/ \E n \in DOMAIN submitted : response.results[i] = submitted[n]
<1> DEFINE s == rejected \o submitted
<1>1. /\ s \in Seq(Results) /\ total \in Nat
      /\ \A k, m \in DOMAIN s : s[k].index = s[m].index => k = m
      /\ \A k \in DOMAIN s : s[k].index \in 1 .. total
      /\ \A i \in 1 .. total : \E k \in DOMAIN s : s[k].index = i
      /\ \A k \in DOMAIN s : \/ \E n \in DOMAIN rejected : s[k] = rejected[n]
                             \/ \E n \in DOMAIN submitted : s[k] = submitted[n]
  BY OneResultEach
<1>2. response = [code |-> "ok", results |-> InOrder(s),
                  accepted |-> CountOf(InOrder(s), "accepted"),
                  rejected |-> CountOf(InOrder(s), "rejected")]
  BY DEF IStory, Collected, Summary
<1> HIDE DEF s
<1>3. /\ DOMAIN InOrder(s) = 1 .. total
      /\ \A i \in 1 .. total : InOrder(s)[i].index = i /\ \E k \in DOMAIN s : InOrder(s)[i] = s[k]
  BY <1>1, Sorted
<1>4. \A i \in 1 .. total : InOrder(s)[i].status \in {"accepted", "rejected"}
  <2>1. \A k \in DOMAIN s : s[k] \in Results
    BY <1>1
  <2> QED  BY <1>3, <2>1 DEF Results
<1>5. CountOf(InOrder(s), "accepted") + CountOf(InOrder(s), "rejected") = total
  BY <1>1, <1>3, <1>4, CountsAddUp
<1>6. \A i \in 1 .. total : \/ \E n \in DOMAIN rejected : InOrder(s)[i] = rejected[n]
                            \/ \E n \in DOMAIN submitted : InOrder(s)[i] = submitted[n]
  <2> TAKE i \in 1 .. total
  <2>1. PICK k \in DOMAIN s : InOrder(s)[i] = s[k]
    BY <1>3
  <2> QED  BY <1>1, <2>1
<1>7. /\ response.results = InOrder(s)
      /\ response.accepted = CountOf(InOrder(s), "accepted")
      /\ response.rejected = CountOf(InOrder(s), "rejected")
  BY <1>2
<1> QED  BY <1>3, <1>5, <1>6, <1>7

\* Tasks, records, messages and results keep to one story.
THEOREM Story == Spec => []IStory
<1> QED  BY InitStory, StepStory, PTL DEF Spec

\* AC-711-02, for any number of messages and any order in which their tasks finish:
\* result i is that of message i, and the counts add up.
THEOREM ResultsOrdered == Spec => []ResultsMatchRequest
<1>1. IStory => ResultsMatchRequest
  <2> SUFFICES ASSUME IStory, Answered
               PROVE  /\ Len(response.results) = total
                      /\ \A i \in Messages : response.results[i].index = i
                      /\ response.accepted + response.rejected = total
    BY DEF ResultsMatchRequest
  <2>1. total \in Nat
    BY IdsAreNumbers DEF IStory, IInv, Phased
  <2>2. Len(response.results) = total
    BY <2>1, ResultsInOrder
  <2> QED  BY <2>2, ResultsInOrder DEF Messages
<1> QED  BY <1>1, Story, PTL

\* A message's result, its record and its fate at the SMTP server agree.
THEOREM ResultsTellTruth == Spec => []ResultTellsOutcome
<1>1. IStory => ResultTellsOutcome
  <2> SUFFICES ASSUME IStory, Answered, NEW i \in Messages,
                      NEW result, result = response.results[i]
               PROVE  /\ result.status = "accepted" => mail[i] = "accepted"
                      /\ result.code \notin {NoCode, "smtp_unavailable"} => mail[i] = "unsent"
                      /\ i \in Board!Visible =>
                            /\ board[i].status =
                                  (IF result.status = "accepted" THEN "smtp_accepted"
                                   ELSE IF mail[i] = "unsent" THEN "rejected"
                                   ELSE "smtp_failed")
                            /\ board[i].code = result.code
    BY DEF ResultTellsOutcome
  <2>1. /\ i \in 1 .. total /\ i \in Ids /\ Told(i) /\ Staged(i) /\ Collected
        /\ i < index
    BY IdsAreNumbers DEF IStory, IInv, Phased, Messages
  <2>2. result.index = i
    BY <2>1, ResultsInOrder
  <2>3. CASE \E n \in DOMAIN rejected : result = rejected[n]
    <3>1. PICK n \in DOMAIN rejected : result = rejected[n]
      BY <2>3
    <3>2. Rejected(i) /\ result.status = "rejected"
      BY <2>1, <2>2, <3>1 DEF Rejected, Collected
    <3>3. mail[i] = "unsent"
      BY <2>1, <3>2 DEF Staged, Told, Sent
    <3>4. i \in Board!Visible => board[i].status = "rejected" /\ board[i].code = result.code
      BY <2>1, <2>2, <3>1 DEF Told, Recorded
    <3> QED  BY <3>2, <3>3, <3>4
  <2>4. CASE \E n \in DOMAIN submitted : result = submitted[n]
    <3>1. task[i] = "joined" /\ result = ResultOf(i)
      BY <2>1, <2>2, <2>4 DEF Collected
    <3>2. /\ result.status = IF heard[i] = "accepted" THEN "accepted" ELSE "rejected"
          /\ result.code = Code(i)
      BY <3>1 DEF ResultOf, AcceptedResult, RejectedResult, Code
    <3>3. mail[i] # "unsent" /\ (heard[i] = "accepted" => mail[i] = "accepted")
      BY <2>1, <3>1 DEF Told, Sent
    <3>4. i \in Board!Visible =>
             /\ board[i].status = IF heard[i] = "accepted" THEN "smtp_accepted"
                                  ELSE "smtp_failed"
             /\ board[i].code = Code(i)
      BY <2>1, <3>1 DEF Told, Recorded
    <3> QED  BY <3>2, <3>3, <3>4 DEF Code
  <2> QED  BY <2>1, <2>3, <2>4, ResultsInOrder
<1> QED  BY <1>1, Story, PTL
=============================================================================
