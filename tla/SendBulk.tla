------------------------------- MODULE SendBulk -------------------------------
(***************************************************************************)
(* POST /v1/send-bulk (api/send_bulk.rs): one request, whose messages are  *)
(* checked one after the other and then submitted by one task each, at     *)
(* most "concurrency" at a time; the SMTP server; the request timeout,     *)
(* which drops the handler and aborts its tasks.  Status records live on   *)
(* the board of StatusBoard, the contract every store is called under; the *)
(* board may forget any of them at any time.                               *)
(***************************************************************************)
EXTENDS SubmissionStatus, Integers, Sequences, FiniteSets, Functions

CONSTANTS
    Clients,            \* parameter of the board
    MaxBulk,            \* mail.max_bulk_messages
    Loads,              \* bound: pairs of a request's size and smtp.bulk_concurrency,
                        \* which is 0 for no limit
    ApiKey              \* auth.key_id of the request

VARIABLES
    board, spent, answer,   \* the store
    bulkConcurrency,        \* smtp.bulk_concurrency, the handler's configuration
    total,          \* messages in the request
    phase,          \* where the handler is
    index, step,    \* phase 1: the message being prepared, and how far it is
    rejected,       \* phase 1: results of rejected messages, in order
    task,           \* task[i]: message i in phase 2
    polling,        \* tasks being polled at the moment the handler is dropped
    permits,        \* free permits of the semaphore
    submitted,      \* results joined so far, in order of completion
    mail,           \* mail[i]: what became of message i at the SMTP server
    heard,          \* auxiliary: heard[i]: how submission i ended for the relay
    response        \* the answer, Absent before

Board == INSTANCE StatusBoard

given == <<total, bulkConcurrency>>
boardVars == <<board, spent, answer>>
phase1Vars == <<index, step, rejected>>
phase2Vars == <<task, polling, permits, submitted>>
vars == <<board, spent, answer, bulkConcurrency, total, phase, index, step, rejected,
          task, polling, permits, submitted, mail, heard, response>>

\* Message i has request id i: one fresh id per message.
Messages == 1 .. total

ASSUME SendBulkAssumption ==
    /\ MaxBulk \in Nat \ {0}
    /\ Loads \subseteq (0 .. MaxBulk + 1) \X Nat
    /\ Ids = 1 .. MaxBulk
    /\ ApiKey \in Keys
    /\ {"rejected", "smtp_submission_started", "smtp_accepted", "smtp_failed"}
          \subseteq Updates
    /\ {"rate_limited", "validation_failed", "internal_error", "smtp_unavailable"}
          \subseteq Codes

Results == [index : Ids, status : {"accepted", "rejected"}, code : Codes]

Active == {i \in Ids : task[i] \in {"waiting", "submitting"}}

TypeOK ==
    /\ Board!TypeOK
    /\ <<total, bulkConcurrency>> \in Loads
    /\ phase \in {"idle", "preparing", "submitting", "done", "dropped"}
    /\ index \in 1 .. MaxBulk + 1
    /\ step \in {"limits", "limited", "received", "validated"}
    /\ rejected \in Seq(Results)
    /\ task \in [Ids -> {"none", "prepared", "waiting", "submitting",
                         "finished", "joined", "aborted"}]
    /\ polling \subseteq Ids
    /\ permits \in Nat
    /\ submitted \in Seq(Results)
    /\ mail \in [Ids -> {"unsent", "offered", "accepted", "refused"}]
    /\ heard \in [Ids -> {"nothing", "accepted", "refused", "failure"}]

Init ==
    /\ Board!Init
    /\ \E load \in Loads : total = load[1] /\ bulkConcurrency = load[2]
    /\ phase = "idle"
    /\ index = 1
    /\ step = "limits"
    /\ rejected = <<>>
    /\ task = [i \in Ids |-> "none"]
    /\ polling = {}
    /\ permits = 0
    /\ submitted = <<>>
    /\ mail = [i \in Ids |-> "unsent"]
    /\ heard = [i \in Ids |-> "nothing"]
    /\ response = Absent

-----------------------------------------------------------------------------
(* Calls on the store: those the store ignores change nothing. *)

Update(i, status, code) ==
    IF /\ i \in Board!Visible
       /\ board[i].key = ApiKey
       /\ board[i].status \notin Terminal
    THEN Board!UpdateStatus(i, ApiKey, status, code) ELSE UNCHANGED boardVars

Describe(i) ==
    IF i \in Board!Visible /\ board[i].key = ApiKey
    THEN Board!SetRecipientMetadata(i, ApiKey) ELSE UNCHANGED boardVars

RejectedResult(i, code) == [index |-> i, status |-> "rejected", code |-> code]

AcceptedResult(i) == [index |-> i, status |-> "accepted", code |-> NoCode]

-----------------------------------------------------------------------------
(* Payload guards. *)

\* An answer without results.
Plain(code) == [code |-> code, results |-> <<>>, accepted |-> 0, rejected |-> 0]

Begin ==
    /\ phase = "idle"
    /\ \/ /\ total = 0
          /\ phase' = "done" /\ response' = Plain("bad_request")
       \/ /\ total > MaxBulk
          /\ phase' = "done" /\ response' = Plain("payload_too_large")
       \/ /\ total \in 1 .. MaxBulk
          /\ phase' = "preparing" /\ UNCHANGED response
    /\ UNCHANGED <<boardVars, given, phase1Vars, phase2Vars, mail, heard>>

-----------------------------------------------------------------------------
(* Phase 1: message "index" passes through phase1_prepare. *)

Preparing(at) == phase = "preparing" /\ index \in Messages /\ step = at

Advance(to) == step' = to /\ UNCHANGED <<index, rejected, task>>

\* The message is out, with this code in its result.
Drop(code) ==
    /\ rejected' = Append(rejected, RejectedResult(index, code))
    /\ index' = index + 1
    /\ step' = "limits"
    /\ UNCHANGED task

unchangedInPhase1 == <<given, phase, polling, permits, submitted, mail, heard, response>>

\* Some tier refuses: store_rejected puts a record only to reject it.
RateLimited ==
    /\ Preparing("limits")
    /\ Board!PutReceived(index, ApiKey)
    /\ Advance("limited")
    /\ UNCHANGED unchangedInPhase1

StoreRejected ==
    /\ Preparing("limited")
    /\ Update(index, "rejected", "rate_limited")
    /\ Drop("rate_limited")
    /\ UNCHANGED unchangedInPhase1

Received ==
    /\ Preparing("limits")
    /\ Board!PutReceived(index, ApiKey)
    /\ Advance("received")
    /\ UNCHANGED unchangedInPhase1

\* apperr_to_code: a disabled feature falls through to internal_error.
Invalid ==
    /\ Preparing("received")
    /\ \E code \in {"validation_failed", "internal_error"} :
          Update(index, "rejected", code) /\ Drop(code)
    /\ UNCHANGED unchangedInPhase1

Validated ==
    /\ Preparing("received")
    /\ Describe(index)
    /\ Advance("validated")
    /\ UNCHANGED unchangedInPhase1

\* Mutant of BuildFails: the record is left as it is.
BuildFailsSilently ==
    /\ Preparing("validated")
    /\ Drop("internal_error")
    /\ UNCHANGED <<boardVars, unchangedInPhase1>>

BuildFails ==
    /\ Preparing("validated")
    /\ Update(index, "rejected", "internal_error")
    /\ Drop("internal_error")
    /\ UNCHANGED unchangedInPhase1

\* Mutant of Built: a message is sent as soon as it is built.
BuiltAndSent ==
    /\ Preparing("validated")
    /\ task' = [task EXCEPT ![index] = "prepared"]
    /\ mail' = [mail EXCEPT ![index] = "offered"]
    /\ index' = index + 1
    /\ step' = "limits"
    /\ UNCHANGED <<rejected, boardVars, given, phase, polling, permits, submitted, heard,
                   response>>

Built ==
    /\ Preparing("validated")
    /\ task' = [task EXCEPT ![index] = "prepared"]
    /\ index' = index + 1
    /\ step' = "limits"
    /\ UNCHANGED <<rejected, boardVars, unchangedInPhase1>>

-----------------------------------------------------------------------------
(* Phase 2: a semaphore and one task per prepared message. *)

Prepared == {i \in Ids : task[i] = "prepared"}

\* Mutant of Concurrency: 0 is taken at its word.
ConcurrencyPlain == bulkConcurrency

Concurrency ==
    IF bulkConcurrency # 0 THEN bulkConcurrency
    ELSE IF Prepared = {} THEN 1 ELSE Cardinality(Prepared)

Spawn ==
    /\ phase = "preparing"
    /\ index = total + 1
    /\ phase' = "submitting"
    /\ task' = [i \in Ids |-> IF task[i] = "prepared" THEN "waiting" ELSE task[i]]
    /\ permits' = Concurrency
    /\ UNCHANGED <<boardVars, given, phase1Vars, polling, submitted, mail, heard, response>>

\* A task that was being polled when its handler was dropped is aborted where it
\* yields; the others are on their own.
Leave(i, at) ==
    /\ task' = [task EXCEPT ![i] =
                  IF i \in polling /\ at # "finished" THEN "aborted" ELSE at]
    /\ polling' = polling \ {i}

unchangedInTask == <<given, phase, phase1Vars, submitted, response>>

\* Mutant of Start: the permit is dropped at once.
StartUnheld(i) ==
    /\ task[i] = "waiting" /\ permits > 0
    /\ Update(i, "smtp_submission_started", NoCode)
    /\ mail' = [mail EXCEPT ![i] = "offered"]
    /\ Leave(i, "submitting")
    /\ UNCHANGED <<permits, heard, unchangedInTask>>

\* A permit is taken and the submission begins; the permit of an aborted task is
\* released with it.
Start(i) ==
    /\ task[i] = "waiting" /\ permits > 0
    /\ permits' = IF i \in polling THEN permits ELSE permits - 1
    /\ Update(i, "smtp_submission_started", NoCode)
    /\ mail' = [mail EXCEPT ![i] = "offered"]
    /\ Leave(i, "submitting")
    /\ UNCHANGED <<heard, unchangedInTask>>

\* The task of message i is over: its result is left for join_next.
Finish(i, status, code) ==
    /\ task[i] = "submitting"
    /\ Update(i, status, code)
    /\ permits' = permits + 1
    /\ Leave(i, "finished")
    /\ UNCHANGED <<mail, unchangedInTask>>

SubmitOk(i) ==
    /\ mail[i] = "accepted"
    /\ heard' = [heard EXCEPT ![i] = "accepted"]
    /\ Finish(i, "smtp_accepted", NoCode)

\* Every error of submit gets the same code, whether the server has refused the
\* message, the connection failed, or the timer ran out at whatever point.
SubmitFails(i) ==
    /\ \/ mail[i] = "refused" /\ heard' = [heard EXCEPT ![i] = "refused"]
       \/ heard' = [heard EXCEPT ![i] = "failure"]
    /\ Finish(i, "smtp_failed", "smtp_unavailable")

\* join_next yields finished tasks in the order they finish, or nearly so.
ResultOf(i) ==
    IF heard[i] = "accepted" THEN AcceptedResult(i) ELSE RejectedResult(i, "smtp_unavailable")

Join(i) ==
    /\ phase = "submitting"
    /\ task[i] = "finished"
    /\ task' = [task EXCEPT ![i] = "joined"]
    /\ submitted' = Append(submitted, ResultOf(i))
    /\ UNCHANGED <<boardVars, given, phase, phase1Vars, polling, permits, mail, heard,
                   response>>

\* Mutant of InOrder: the order of completion is kept.
AsCompleted(results) == results

InOrder(results) ==
    LET places == DOMAIN results
        from == CHOOSE f \in Bijection(places, places) :
                   \A m, n \in places : m < n => results[f[m]].index <= results[f[n]].index
    IN [n \in places |-> results[from[n]]]

CountOf(results, status) ==
    Cardinality({i \in DOMAIN results : results[i].status = status})

\* The set of tasks is empty: results are merged, sorted, counted and returned.
Reply ==
    /\ phase = "submitting"
    /\ \A i \in Ids : task[i] \in {"none", "joined"}
    /\ LET results == InOrder(rejected \o submitted) IN
       response' = [code     |-> "ok",
                    results  |-> results,
                    accepted |-> CountOf(results, "accepted"),
                    rejected |-> CountOf(results, "rejected")]
    /\ phase' = "done"
    /\ UNCHANGED <<boardVars, given, phase1Vars, phase2Vars, mail, heard>>

\* A polled task that is still waiting, or whose submission is not over yet, is
\* aborted; the permit it holds is released with it.
Yield(i) ==
    /\ i \in polling
    /\ Leave(i, task[i])
    /\ permits' = IF task[i] = "submitting" THEN permits + 1 ELSE permits
    /\ UNCHANGED <<boardVars, mail, heard, unchangedInTask>>

\* Mutant of HandlerDropped: the tasks are detached, not aborted.
HandlerDroppedAlone ==
    /\ phase \in {"idle", "submitting"}
    /\ phase' = "dropped"
    /\ response' \in {Plain("request_timeout"), Absent}
    /\ UNCHANGED <<boardVars, given, phase1Vars, phase2Vars, mail, heard>>

\* The request timer fires or the client hangs up, while the body is awaited or
\* while the handler waits in join_next.  Dropping the handler drops its JoinSet,
\* which aborts the tasks, but not a poll that is under way.
HandlerDropped ==
    /\ phase \in {"idle", "submitting"}
    /\ phase' = "dropped"
    /\ \E running \in SUBSET Active :
          /\ polling' = running
          /\ task' = [i \in Ids |-> IF i \in Active \ running THEN "aborted" ELSE task[i]]
          /\ permits' = permits + Cardinality({i \in Active \ running : task[i] = "submitting"})
    /\ response' \in {Plain("request_timeout"), Absent}
    /\ UNCHANGED <<boardVars, given, phase1Vars, submitted, mail, heard>>

-----------------------------------------------------------------------------
ServerDecides(i) ==
    /\ mail[i] = "offered"
    /\ mail' \in {[mail EXCEPT ![i] = verdict] : verdict \in {"accepted", "refused"}}
    /\ UNCHANGED <<boardVars, given, phase, phase1Vars, phase2Vars, heard, response>>

\* Lifetimes run out, or the store needs the room.
StoreForgets ==
    /\ Board!Forget
    /\ UNCHANGED <<given, phase, phase1Vars, phase2Vars, mail, heard, response>>

Phase1 ==
    Begin \/ RateLimited \/ StoreRejected \/ Received \/ Invalid \/ Validated
          \/ BuildFails \/ Built \/ Spawn

Task(i) == Start(i) \/ SubmitOk(i) \/ SubmitFails(i) \/ Yield(i)

Next ==
    \/ Phase1 \/ Reply \/ HandlerDropped \/ StoreForgets
    \/ \E i \in Ids : Task(i) \/ Join(i) \/ ServerDecides(i)

\* Phase 1 runs without a pause, tasks keep being polled and their timers fire,
\* and the handler collects what is finished.
Spec ==
    /\ Init /\ [][Next]_vars
    /\ WF_vars(Phase1) /\ WF_vars(Reply)
    /\ \A i \in Ids : WF_vars(Task(i)) /\ WF_vars(Join(i))

-----------------------------------------------------------------------------
(* Invariants. *)

Answered == phase = "done" /\ total \in 1 .. MaxBulk

\* AC-711-02: results[i] is the result of message i, for every message of the
\* request and whatever order the tasks finish in, and the counts add up.
ResultsMatchRequest ==
    Answered =>
        /\ Len(response.results) = total
        /\ \A i \in Messages : response.results[i].index = i
        /\ response.accepted + response.rejected = total

\* AC-711-01: no more submissions at a time than bulk_concurrency, or than there
\* are tasks if that is 0; and no permit is lost or made, from the first task to
\* the last, dropped handler or not: each is free or with a task that submits.
ParallelismBounded ==
    LET spawned == {i \in Ids : task[i] # "none"}
        submitting == {i \in Ids : task[i] = "submitting"}
        limit == IF bulkConcurrency # 0 THEN bulkConcurrency
                 ELSE IF spawned = {} THEN 1 ELSE Cardinality(spawned)
    IN  phase = "submitting" \/ (phase = "dropped" /\ spawned # {}) =>
            /\ Cardinality(submitting) <= limit
            /\ permits + Cardinality(submitting) = limit

\* A message's result, its record and its fate at the SMTP server tell one story,
\* as far as the record is still there: what phase 1 rejected was never sent,
\* what is reported as accepted was accepted, and codes agree.
ResultTellsOutcome ==
    Answered => \A i \in Messages :
        LET result == response.results[i] IN
        /\ result.status = "accepted" => mail[i] = "accepted"
        /\ result.code \notin {NoCode, "smtp_unavailable"} => mail[i] = "unsent"
        /\ i \in Board!Visible =>
              /\ board[i].status = (IF result.status = "accepted" THEN "smtp_accepted"
                                    ELSE IF mail[i] = "unsent" THEN "rejected"
                                    ELSE "smtp_failed")
              /\ board[i].code = result.code

\* AC-711-03 and the two phases: submissions begin when every message has been
\* checked, and a rejected message costs no other message its submission.
TwoPhases ==
    /\ phase \in {"idle", "preparing"} => \A i \in Ids : mail[i] = "unsent"
    /\ Answered => \A i \in Messages :
          task[i] = "joined" <=> ~\E n \in DOMAIN rejected : rejected[n].index = i

(* Action properties. *)

\* Once the handler is gone no further message is offered to the server, although
\* the permits of aborted tasks come free while others still wait for one; but for
\* a task caught in a poll, which goes no further than that.
DropEndsSubmissions ==
    [][\A i \in Ids : phase = "dropped" /\ mail[i] = "unsent" /\ mail'[i] # "unsent" =>
          i \in polling /\ task'[i] = "aborted"]_vars

(* Liveness. *)

\* A request whose messages are being checked gets an answer; with tasks waiting
\* for permits this needs every task to release its own.
EveryBulkAnswered == (phase = "preparing") ~> (phase \in {"done", "dropped"})

(* A claim made elsewhere about this handler. *)

\* status-tracking.md and RFC 810: a rejection by the server is smtp_rejected.
RejectionReported ==
    \A i \in Ids : i \in Board!Visible /\ heard[i] = "refused" =>
        board[i].code # "smtp_unavailable"
=============================================================================
