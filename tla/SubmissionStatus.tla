--------------------------- MODULE SubmissionStatus ---------------------------
(***************************************************************************)
(* The vocabulary of status.rs: the five states of a submission, which of  *)
(* them are terminal, and the part of a status record a client may read.   *)
(* Every module about a status store or a handler extends this one.        *)
(***************************************************************************)
EXTENDS Naturals

CONSTANTS
    Ids,        \* request ids (ULIDs): one per submission, never generated twice
    Keys,       \* API key ids, the owners of records
    Codes,      \* error codes a record may carry, NoCode among them
    NoCode,     \* Option::None in the code field
    Updates,    \* the statuses callers pass to update_status
    Absent      \* "no such record": Ok(None), or an empty slot of the map

\* The five variants of SubmissionStatus, by their serde names.
Statuses == {"received", "rejected", "smtp_submission_started",
             "smtp_accepted", "smtp_failed"}

\* SubmissionStatus::is_terminal.
Terminal == {"rejected", "smtp_accepted", "smtp_failed"}

\* What a lookup returns. "described" says whether set_recipient_metadata has
\* filled in the recipient domains and count; timestamps and message are left out.
Entry == [key : Keys, status : Statuses, code : Codes, described : BOOLEAN]

\* A record as new_received makes it, seen by a client.
FreshEntry(k) ==
    [key |-> k, status |-> "received", code |-> NoCode, described |-> FALSE]

\* The fields of SubmissionStatusRecord the stores decide on.
Record == [key : Keys, status : Statuses, code : Codes, described : BOOLEAN,
           created : Nat, expires : Nat]

\* SubmissionStatusRecord::new_received.
NewReceived(k, created, ttl) ==
    [key |-> k, status |-> "received", code |-> NoCode, described |-> FALSE,
     created |-> created, expires |-> created + ttl]

\* The fields of a record a client reads.
View(r) == [key |-> r.key, status |-> r.status, code |-> r.code,
            described |-> r.described]

ASSUME VocabularyAssumption ==
    /\ Keys # {}
    /\ NoCode \in Codes
    /\ Updates \subseteq Statuses \ {"received"}
    /\ Absent \notin Entry
    /\ Absent \notin Ids
=============================================================================
