----------------------------- MODULE StatusBoard -----------------------------
(***************************************************************************)
(* What a status store promises its callers, with no lock, clock, capacity *)
(* or metric in sight: every operation is atomic, a submission is visible  *)
(* to its owner from put_received until it is forgotten, its outcome is    *)
(* fixed once it is terminal, and it is forgotten for good.  The trait     *)
(* StatusStore in status.rs states this contract.  The in-memory store     *)
(* implements it; the SQLite and Redis stores implement the lossy one,     *)
(* where a lookup may miss what is there.                                  *)
(***************************************************************************)
EXTENDS SubmissionStatus

CONSTANT Clients      \* callers of get, each with one lookup at a time

VARIABLES
    board,      \* board[id]: the entry a lookup by its owner finds, or Absent
    spent,      \* ids that were visible once, or never will be
    answer      \* answer[c]: the last lookup of client c and what it found

vars == <<board, spent, answer>>

Visible == {id \in Ids : board[id] # Absent}

Answers == [id : Ids, found : Entry \cup {Absent}]

TypeOK ==
    /\ board \in [Ids -> Entry \cup {Absent}]
    /\ spent \subseteq Ids
    /\ answer \in [Clients -> Answers \cup {Absent}]

Init ==
    /\ board = [id \in Ids |-> Absent]
    /\ spent = {}
    /\ answer = [c \in Clients |-> Absent]

Without(b, lost) == [id \in Ids |-> IF id \in lost THEN Absent ELSE b[id]]

\* Insert-only.  Making room may cost other entries, and a record whose
\* lifetime has already run out is forgotten at once.
PutReceived(id, k) ==
    /\ UNCHANGED answer
    /\ id \notin spent \cup Visible
    /\ \E lost \in SUBSET (Visible \cup {id}) :
          /\ spent' = spent \cup lost
          /\ board' = Without([board EXCEPT ![id] = FreshEntry(k)], lost)

\* Recipient metadata is written for the owner of a visible entry only.
SetRecipientMetadata(id, k) ==
    /\ UNCHANGED <<spent, answer>>
    /\ id \in Visible
    /\ board[id].key = k
    /\ board' = [board EXCEPT ![id].described = TRUE]

\* Only the owner moves an entry, and never out of a terminal status.
UpdateStatus(id, k, status, code) ==
    /\ UNCHANGED <<spent, answer>>
    /\ id \in Visible
    /\ board[id].key = k
    /\ board[id].status \notin Terminal
    /\ board' = [board EXCEPT ![id].status = status, ![id].code = code]

\* A lookup with somebody else's key finds the same nothing as an unknown id.
Get(c, id, k) ==
    /\ answer' = [answer EXCEPT ![c] =
          [id    |-> id,
           found |-> IF id \in Visible /\ board[id].key = k
                     THEN board[id] ELSE Absent]]
    /\ UNCHANGED <<board, spent>>

\* Entries disappear: their lifetime runs out, or the store needs the room.
Forget ==
    /\ UNCHANGED answer
    /\ \E lost \in (SUBSET Visible) \ {{}} :
          /\ spent' = spent \cup lost
          /\ board' = Without(board, lost)

Next ==
    \/ \E id \in Ids, k \in Keys :
          \/ PutReceived(id, k)
          \/ SetRecipientMetadata(id, k)
          \/ \E status \in Updates, code \in Codes : UpdateStatus(id, k, status, code)
          \/ \E c \in Clients : Get(c, id, k)
    \/ Forget

Spec == Init /\ [][Next]_vars

\* A lookup that misses an entry: it went by an instant later than its end, or the
\* value was out of reach for a while.  It may delete what it did not return.
Miss(c, id) ==
    /\ answer' = [answer EXCEPT ![c] = [id |-> id, found |-> Absent]]
    /\ \E lost \in SUBSET (Visible \cap {id}) :
          /\ board' = Without(board, lost)
          /\ spent' = spent \cup lost

LossyNext == Next \/ \E c \in Clients, id \in Ids : Miss(c, id)

LossySpec == Init /\ [][LossyNext]_vars

-----------------------------------------------------------------------------
\* A client's read of id returned a terminal status.
ReadTerminal(c, id) ==
    /\ answer[c] # Absent
    /\ answer[c].id = id
    /\ answer[c].found # Absent
    /\ answer[c].found.status \in Terminal

\* A lookup that follows a read of an outcome returns the same one, or not found.
OutcomesKept ==
    \A c, d \in Clients, id \in Ids :
        /\ ReadTerminal(c, id)
        /\ answer'[d] # answer[d]
        /\ answer'[d].id = id
        => LET now == answer'[d].found IN
           \/ now = Absent
           \/ /\ now.status = answer[c].found.status
              /\ now.code = answer[c].found.code

\* Outcomes are stable across clients: once any lookup has returned a terminal
\* status for a submission, every later lookup of it returns the same status and
\* code, or not found (is_terminal guard of update_status, insert-only put_received).
AnswersNeverRegress == [][OutcomesKept]_vars
=============================================================================
