------------------------------ MODULE MCSendMail ------------------------------
(* Instances of the send handler and its store for TLC. *)
EXTENDS SendMail, TLC

AllCodes == {"none", "unsupported_media_type", "bad_request", "rate_limited",
             "validation_failed", "smtp_rejected", "smtp_unavailable", "internal_error"}

AllUpdates == Statuses \ {"received"}

\* The defaults of config.rs, with room for one request at a time too, and a request
\* timer that waits for the submission.
Default == [request |-> 30, submission |-> 30, upload |-> 0, limit |-> 0]
Narrow == [Default EXCEPT !.limit = 1]
Patient == [request |-> 60, submission |-> 30, upload |-> 5, limit |-> 0]

AllTimers == {Default, Narrow, Patient}
=============================================================================
