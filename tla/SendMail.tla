------------------------------- MODULE SendMail -------------------------------
(***************************************************************************)
(* POST /v1/send (api/send.rs) running on the in-memory status store: one  *)
(* handler per request, interleaved at every call it makes on the store    *)
(* and at its only await, the SMTP submission; the SMTP server, which      *)
(* takes a message or refuses it on its own time; the router, whose        *)
(* concurrency limit makes requests wait and whose timer drops a handler   *)
(* that is waiting.                                                        *)
(***************************************************************************)
EXTENDS SubmissionStatus, Integers, FiniteSets

CONSTANTS
    Clients, Ttls, Caps, MaxLag, MaxTime,   \* parameters of the store
    Timers      \* settings of the server: server.request_timeout_seconds,
                \* smtp.submission_timeout_seconds, the longest upload of a body,
                \* and server.concurrency_limit, 0 for none

VARIABLES
    records, gone, gauge, expiredTotal, maxRecords, clock, sweepNow, upgrading,
    answer,             \* the store
    pc,                 \* pc[r]: where the handler of request r is
    owner,              \* owner[r]: auth.key_id, Absent before authentication
    mail,               \* mail[r]: what became of r's message at the SMTP server
    response,           \* response[r]: what the HTTP client was told, Absent before
    timers              \* the settings in force, fixed at startup

\* Nothing that serves a request calls record_count.
Store == INSTANCE StatusStoreMemory WITH
            Counters <- {}, counting <- [c \in {} |-> Absent],
            counted <- [late |-> 0, gone |-> 0]

storeVars == <<records, gone, gauge, expiredTotal, maxRecords, clock, sweepNow,
               upgrading, answer>>
handlerVars == <<pc, owner, mail, response, timers>>
vars == <<records, gone, gauge, expiredTotal, maxRecords, clock, sweepNow,
          upgrading, answer, pc, owner, mail, response, timers>>

\* Codes of the responses given before a record exists: AuthContext, body limit.
Refusals == {"unauthorized", "forbidden", "payload_too_large"}

\* Failed checks of the handler: the code stored with "rejected" and the one the
\* client receives.  Whatever validation returns, validation_failed is stored.
Failures ==
    {[stored |-> c, code |-> c] :
        c \in {"unsupported_media_type", "bad_request", "rate_limited"}}
    \cup {[stored |-> "validation_failed", code |-> c] :
        c \in {"validation_failed", "feature_disabled"}}

SmtpErrors == {"smtp_rejected", "smtp_unavailable"}

ResponseCodes ==
    {"accepted", "request_timeout", "internal_error"} \cup SmtpErrors \cup Refusals
    \cup {f.code : f \in Failures}

\* The first three conjuncts are those of the store.
ASSUME SendMailAssumption ==
    /\ IsFiniteSet(Ids) /\ Ttls \cup Caps \subseteq Nat /\ Caps # {}
    /\ MaxLag \in Nat /\ MaxTime \in Nat
    /\ Absent \notin Record
    /\ {f.stored : f \in Failures} \cup SmtpErrors \cup {"internal_error"} \subseteq Codes
    /\ {"rejected", "smtp_submission_started", "smtp_accepted", "smtp_failed"}
          \subseteq Updates
    /\ Absent \notin Keys \cup ResponseCodes
    /\ Timers \subseteq [request : Nat, submission : Nat, upload : Nat, limit : Nat]

\* A request the router has let in holds a permit until its future is gone.
InFlightStages == {"idle", "checks", "build", "submitting"}

Stages == {"queued"} \cup InFlightStages \cup {"done", "dropped", "left"}

TypeOK ==
    /\ Store!TypeOK
    /\ pc \in [Ids -> Stages]
    /\ owner \in [Ids -> Keys \cup {Absent}]
    /\ mail \in [Ids -> {"unsent", "offered", "accepted", "refused"}]
    /\ response \in [Ids -> ResponseCodes \cup {Absent}]
    /\ timers \in Timers

\* All requests have come; without a limit there is nothing to wait for.
Init ==
    /\ Store!Init
    /\ timers \in Timers
    /\ pc = [r \in Ids |-> IF timers.limit > 0 THEN "queued" ELSE "idle"]
    /\ owner = [r \in Ids |-> Absent]
    /\ mail = [r \in Ids |-> "unsent"]
    /\ response = [r \in Ids |-> Absent]

\* The handler moves from one stage to the next.
Goto(r, from, to) ==
    /\ pc[r] = from
    /\ pc' = [pc EXCEPT ![r] = to]
    /\ UNCHANGED timers

\* The answer the client gets: "accepted", or the code in the error's body.
Respond(r, code) == response' = [response EXCEPT ![r] = code]

-----------------------------------------------------------------------------
(* The router. *)

InFlight == {r \in Ids : pc[r] \in InFlightStages}

\* Mutant of Enter: a limit of n admits fewer than n.
EnterBelow(r) ==
    /\ Cardinality(InFlight) + 1 < timers.limit
    /\ Goto(r, "queued", "idle")
    /\ UNCHANGED <<storeVars, owner, mail, response>>

\* ConcurrencyLimitLayer, around the request timer: a permit is free.
Enter(r) ==
    /\ Cardinality(InFlight) < timers.limit
    /\ Goto(r, "queued", "idle")
    /\ UNCHANGED <<storeVars, owner, mail, response>>

-----------------------------------------------------------------------------
(* The handler. *)

\* Turned away by an extractor: no record is created.
Refuse(r) ==
    /\ Goto(r, "idle", "done")
    /\ \E code \in Refusals : Respond(r, code)
    /\ UNCHANGED <<storeVars, owner, mail>>

\* Steps 1-3: authenticated; the record is made and put under a fresh id.
Receive(r, k) ==
    /\ Goto(r, "idle", "checks")
    /\ owner' = [owner EXCEPT ![r] = k]
    /\ Store!PutFresh(r, k)
    /\ UNCHANGED <<mail, response>>

\* Steps 4-8, the first check that fails: the record is rejected.
Reject(r) ==
    /\ Goto(r, "checks", "done")
    /\ \E failure \in Failures :
          /\ Store!UpdateStatus(r, owner[r], "rejected", failure.stored)
          /\ Respond(r, failure.code)
    /\ UNCHANGED <<owner, mail>>

\* Every check passed: the recipients are recorded.
Validated(r) ==
    /\ Goto(r, "checks", "build")
    /\ Store!SetRecipientMetadata(r, owner[r])
    /\ UNCHANGED <<owner, mail, response>>

\* Mutant of BuildFails: the record is left as it is (the state before RFC 809).
BuildFailsSilently(r) ==
    /\ Goto(r, "build", "done")
    /\ Respond(r, "internal_error")
    /\ UNCHANGED <<storeVars, owner, mail>>

\* Step 9 fails.
BuildFails(r) ==
    /\ Goto(r, "build", "done")
    /\ Store!UpdateStatus(r, owner[r], "rejected", "internal_error")
    /\ Respond(r, "internal_error")
    /\ UNCHANGED <<owner, mail>>

\* Steps 9-11: the message is built, the record says so, the submission begins.
Submit(r) ==
    /\ Goto(r, "build", "submitting")
    /\ Store!UpdateStatus(r, owner[r], "smtp_submission_started", NoCode)
    /\ mail' = [mail EXCEPT ![r] = "offered"]
    /\ UNCHANGED <<owner, response>>

\* Mutant of SubmitOk: the reply of the server is not waited for.
SubmitOkUnread(r) ==
    /\ Goto(r, "submitting", "done")
    /\ Store!UpdateStatus(r, owner[r], "smtp_accepted", NoCode)
    /\ Respond(r, "accepted")
    /\ UNCHANGED <<owner, mail>>

\* The server's acceptance is read before the submission timer fires.
SubmitOk(r) ==
    /\ mail[r] = "accepted"
    /\ Goto(r, "submitting", "done")
    /\ Store!UpdateStatus(r, owner[r], "smtp_accepted", NoCode)
    /\ Respond(r, "accepted")
    /\ UNCHANGED <<owner, mail>>

\* Mutant of SubmitErrors: there is no timer.
SubmitErrorsUntimed(r) ==
    IF mail[r] = "refused" THEN SmtpErrors ELSE {}

\* What submit reports otherwise: a refusal is recognised by words in the error's
\* text, so it may pass for unavailability; the timer and a broken connection may
\* hit at any point, an acceptance already on its way included.
SubmitErrors(r) ==
    IF mail[r] = "refused" THEN SmtpErrors ELSE {"smtp_unavailable"}

SubmitFails(r) ==
    /\ Goto(r, "submitting", "done")
    /\ \E code \in SubmitErrors(r) :
          /\ Store!UpdateStatus(r, owner[r], "smtp_failed", code)
          /\ Respond(r, code)
    /\ UNCHANGED <<owner, mail>>

\* The router's timer drops a handler at an await: while it still waits for the
\* body, or during a submission that outlasts what the upload left of the timer.
\* (The code between the two takes no time here.)  The router answers for it,
\* outside request_id_layer.
CanOutlast == timers.request <= timers.upload + timers.submission

HttpTimeout(r) ==
    /\ \/ Goto(r, "idle", "dropped")
       \/ /\ CanOutlast
          /\ Goto(r, "submitting", "dropped")
    /\ Respond(r, "request_timeout")
    /\ UNCHANGED <<storeVars, owner, mail>>

\* The client closes the connection: the handler is dropped at its await, or a
\* request that still waits for a permit gives up its place.
ClientLeaves(r) ==
    /\ \E stage \in {"queued", "idle", "submitting"} : Goto(r, stage, "left")
    /\ UNCHANGED <<storeVars, owner, mail, response>>

-----------------------------------------------------------------------------
\* The SMTP server decides on an offered message, whether or not anybody still
\* waits for its reply.
ServerDecides(r) ==
    /\ mail[r] = "offered"
    /\ mail' \in {[mail EXCEPT ![r] = verdict] : verdict \in {"accepted", "refused"}}
    /\ UNCHANGED <<storeVars, pc, owner, response, timers>>

\* Everything else that touches the store: the sweep, SIGHUP, time.  Lookups are
\* left out (StatusStoreMemory has them): all they do to the map is to delete an
\* expired record, as the sweep does.
StoreStep ==
    /\ \/ Store!SweepBegin
       \/ Store!SweepEnd
       \/ \E cap \in Caps : Store!ReloadConfig(cap)
       \/ Store!Tick
    /\ UNCHANGED handlerVars

Handler(r) ==
    \/ Reject(r) \/ Validated(r) \/ BuildFails(r) \/ Submit(r)
    \/ SubmitOk(r) \/ SubmitFails(r) \/ HttpTimeout(r)

Next ==
    \/ \E r \in Ids :
          \/ Enter(r)
          \/ Refuse(r)
          \/ \E k \in Keys : Receive(r, k)
          \/ Handler(r)
          \/ ClientLeaves(r)
          \/ ServerDecides(r)
    \/ StoreStep

\* Permits are given in the order in which requests have asked, handlers keep being
\* polled and the timers fire, that of a request whose body does not come included;
\* clients, the SMTP server, lookups and the clock promise nothing.
Spec ==
    /\ Init /\ [][Next]_vars
    /\ \A r \in Ids : WF_vars(Enter(r)) /\ WF_vars(Handler(r))

-----------------------------------------------------------------------------
(* Invariants. *)

Live(r) == Store!LiveFor(r, owner[r])

Replied(r, codes) == response[r] \in codes

\* What the owner can look up never contradicts what the server did: a message
\* shown as accepted was accepted, one shown as rejected never left the relay,
\* and one that left was announced by smtp_submission_started first.
StatusTellsTruth ==
    \A r \in Ids : Live(r) =>
        /\ records[r].status = "smtp_accepted" => mail[r] = "accepted"
        /\ records[r].status \in {"received", "rejected"} => mail[r] = "unsent"
        /\ mail[r] # "unsent" => records[r].described

\* The answer to POST and the answer to a later lookup agree: once the handler
\* has answered, its record is terminal and tells the same outcome.
AnswerMatchesRecord ==
    \A r \in Ids : Live(r) /\ pc[r] = "done" =>
        /\ records[r].status = "smtp_accepted" <=> Replied(r, {"accepted"})
        /\ records[r].status = "smtp_failed" <=> Replied(r, SmtpErrors)
        /\ records[r].status \in Terminal
        /\ records[r].status = "smtp_failed" => records[r].code = response[r]

(* Liveness. *)

\* Every request is answered, those that wait behind a full server included, unless
\* its client has gone: whatever ends a handler gives back its permit.
EveryRequestAnswered ==
    \A r \in Ids : <>(response[r] # Absent \/ pc[r] = "left")

\* Every record becomes terminal or is forgotten, for good: no submission is left
\* in progress for ever.  It takes a request timer longer than the upload and the
\* submission together, and a client that stays.
EveryRecordSettles ==
    \A r \in Ids : (owner[r] # Absent /\ ~CanOutlast) ~>
        [](Live(r) => records[r].status \in Terminal \/ pc[r] = "left")
=============================================================================
