------------------------------- MODULE Admission -------------------------------
(***************************************************************************)
(* One request on its way to the SMTP server: authenticated under one      *)
(* configuration (auth.rs), validated and built by its handler under       *)
(* another (validation.rs, mail.rs), with reloads in between.              *)
(***************************************************************************)
EXTENDS Validation

CONSTANTS
    Configs,    \* the configurations an operator may put in force
    Arrivals    \* the requests that may come

AppConfig == [security : Network, api_keys : Seq(ApiKeyConfig), mail : MailConfig]

Request == [peer : IpAddrs, headers : Headers, payload : MailRequest]

\* AuthContext, and the entry its key_id was taken from (auxiliary).
Context == [key_id : KeyIds, client_ip : IpAddrs, entry : ApiKeyConfig]

\* validate_config: what it asks of the keys.  That ids, or secrets, are different
\* it does not ask.
Loads(c) == \E key \in ToSet(c.api_keys) : key.enabled

ASSUME AdmissionAssumption ==
    /\ Configs \subseteq AppConfig
    /\ Arrivals \subseteq Request
    /\ Absent \notin Tokens \cup Nat \cup Context /\ Malformed \notin IpAddrs \cup Tokens \cup {Absent}

VARIABLES
    config,     \* the configuration in force
    request,    \* the request
    stage,      \* "arriving", "authenticated" or "done"
    auth,       \* what the extractor left for the handler
    outcome     \* the code of the error, or "built"

vars == <<config, request, stage, auth, outcome>>

Outcomes == {"unauthorized", "forbidden", "feature_disabled", "validation_failed",
             "internal_error", "built"}

TypeOK ==
    /\ config \in Configs
    /\ request \in Arrivals
    /\ stage \in {"arriving", "authenticated", "done"}
    /\ auth \in Context \cup {Absent}
    /\ outcome \in Outcomes \cup {Absent}

Init ==
    /\ config \in {c \in Configs : Loads(c)}
    /\ request \in Arrivals
    /\ stage = "arriving"
    /\ auth = Absent
    /\ outcome = Absent

\* SIGHUP: keys, network and mail settings are all taken from the new file.
Reload(c) ==
    /\ Loads(c)
    /\ config' = c
    /\ UNCHANGED <<request, stage, auth, outcome>>

\* The extractor, under the configuration in force as it runs.
Authenticate ==
    /\ stage = "arriving"
    /\ LET network == config.security
           result == from_request_parts(request.headers, request.peer, network,
                                        config.api_keys)
       IN  \/ /\ result.code = "ok"
              /\ stage' = "authenticated"
              /\ auth' = [key_id |-> result.key.id, entry |-> result.key,
                          client_ip |-> ClientIp(request.headers, request.peer, network)]
              /\ UNCHANGED outcome
           \/ /\ result.code # "ok"
              /\ stage' = "done"
              /\ outcome' = result.code
              /\ UNCHANGED auth
    /\ UNCHANGED <<config, request>>

\* The handler takes the configuration in force as it begins and keeps it: steps 8
\* and 9.  Key limits and what else comes before them are in SendMail and SendBulk.
Handle ==
    /\ stage = "authenticated"
    /\ stage' = "done"
    /\ LET verdict == validate_mail_request(request.payload, config.mail,
                                            config.api_keys, auth.key_id)
       IN  IF verdict = "valid" THEN outcome' \in build_message(request.payload)
           ELSE outcome' = verdict
    /\ UNCHANGED <<config, request, auth>>

Next ==
    \/ \E c \in Configs : Reload(c)
    \/ Authenticate
    \/ Handle

Spec == Init /\ [][Next]_vars

-----------------------------------------------------------------------------
(* Action properties, each about the step that decides. *)

Authenticated == stage = "arriving" /\ stage' = "authenticated"
Refused == stage = "arriving" /\ stage' = "done"
Handled == stage = "authenticated" /\ stage' = "done"

\* The address a request is limited by and held against allowed_source_cidrs is its
\* peer's, unless the peer is a proxy the operator trusts and names the client in a
\* header: then it is the first one named, and never one named further on.
ClientAddressVouched ==
    [][Authenticated =>
        LET ip == auth'.client_ip
            headers == request.headers
        IN  /\ ip # request.peer =>
                  /\ config.security.trust_proxy_headers
                  /\ request.peer \in UNION config.security.trusted_source_cidrs
                  /\ IF parse_forwarded_for(headers) = <<>>
                     THEN headers.xForwardedFor # <<>> /\ ip = Head(headers.xForwardedFor)
                     ELSE \E i \in DOMAIN Head(headers.forwarded) :
                             ip = Head(headers.forwarded)[i]
            /\ config.security.allowed_source_cidrs # {} =>
                  ip \in UNION config.security.allowed_source_cidrs]_vars

Presented(token) ==
    \/ request.headers.authorization = token
    \/ request.headers.authorization = Absent /\ request.headers.xApiKey = token

\* A caller is taken for a key only if they presented the secret of an enabled entry
\* with that id, in the header that counts; and where no two entries share a secret,
\* nobody at an allowed address who did so is refused.
KeyPresented ==
    [][/\ Authenticated =>
            \E key \in ToSet(config.api_keys) :
                /\ key.id = auth'.key_id
                /\ key.enabled
                /\ Presented(key.secret)
       /\ Refused =>
            \A i \in DOMAIN config.api_keys :
                LET key == config.api_keys[i]
                IN  key.enabled /\ Presented(key.secret) =>
                      \/ /\ config.security.allowed_source_cidrs # {}
                         /\ ClientIp(request.headers, request.peer, config.security)
                               \notin UNION config.security.allowed_source_cidrs
                      \/ \E j \in DOMAIN config.api_keys \ {i} :
                            config.api_keys[j].secret = key.secret]_vars

\* What the lists of an entry allow, all of them: RFC 204.  A listed address allows
\* itself, with any capitals, and not itself in quotes.
Permits(key, address) ==
    /\ key.allowed_recipients # {} =>
          \E listed \in key.allowed_recipients :
              /\ listed.name = address.name /\ listed.domain = address.domain
              /\ \/ listed.form = address.form
                 \/ {listed.form, address.form} = {"plain", "capitals"}
    /\ key.allowed_recipient_domains # {} =>
          address.domain \in key.allowed_recipient_domains

DifferentIds(keys) ==
    \A i, j \in DOMAIN keys : keys[i].id = keys[j].id => i = j

\* A message is built only for recipients, copies included, that the global list and
\* every list of the caller's entry allow, under the configuration its handler works
\* with.  Where ids differ that is the entry the caller was authenticated with, if no
\* reload has changed it; only a reload that removes it leaves the global list alone.
RecipientsPermitted ==
    [][Handled /\ outcome' = "built" =>
        \A address \in Recipients(request.payload) :
            /\ config.mail.allowed_recipient_domains # {} =>
                  address.domain \in config.mail.allowed_recipient_domains
            /\ \/ \E key \in ToSet(config.api_keys) :
                     key.id = auth.key_id /\ Permits(key, address)
               \/ \A key \in ToSet(config.api_keys) : key.id # auth.key_id
            /\ auth.entry \in ToSet(config.api_keys) /\ DifferentIds(config.api_keys) =>
                  Permits(auth.entry, address)]_vars

WithinLimits(payload, mail) ==
    /\ Len(payload.to) \in 1..(mail.max_recipients - Len(payload.cc))
    /\ payload.subject.length <= mail.max_subject_chars
    /\ payload.body.length <= mail.max_body_bytes
    /\ payload.body_html # Absent => payload.body_html.length <= mail.max_body_bytes
    /\ Len(payload.attachments) <= mail.max_attachments
    /\ \A i \in DOMAIN payload.attachments :
          payload.attachments[i].length <= mail.max_attachment_bytes
    /\ mail.max_total_attachment_bytes # Absent =>
          FoldRight(LAMBDA file, sum : file.length + sum, payload.attachments, 0)
              <= mail.max_total_attachment_bytes
    /\ payload.body_html # Absent => mail.allow_html_body
    /\ payload.attachments # <<>> => mail.allow_attachments

\* A message that is built is within every limit on recipients, texts and attachments,
\* the aggregate one included, and uses no feature that is off.
LimitsKept ==
    [][Handled /\ outcome' = "built" => WithinLimits(request.payload, config.mail)]_vars

Legible(payload) ==
    /\ payload.subject.chars \in {"plain", "path"}
    /\ payload.body.chars # "nul"
    /\ payload.body_html # Absent => payload.body_html.chars # "nul"
    /\ payload.from_name.chars # "break"
    /\ \A address \in Recipients(payload) \cup ToSet(payload.reply_to) : WellFormed(address)
    /\ \A i \in DOMAIN payload.attachments :
          LET file == payload.attachments[i]
          IN  /\ file.base64
              /\ file.content_type # "bad"
              /\ file.filename.chars \in {"plain", "blank", "control"} /\ file.filename.length \in 1..255

\* A request is refused for a reason: one that is legible, within every limit and for
\* permitted recipients passes, up to the last byte of a limit.
RefusedForCause ==
    [][Handled /\ outcome' \in {"feature_disabled", "validation_failed"} =>
        \/ ~WithinLimits(request.payload, config.mail)
        \/ ~Legible(request.payload)
        \/ \E address \in Recipients(request.payload) :
              \/ /\ config.mail.allowed_recipient_domains # {}
                 /\ address.domain \notin config.mail.allowed_recipient_domains
              \/ \E key \in ToSet(config.api_keys) :
                    key.id = auth.key_id /\ ~Permits(key, address)]_vars
=============================================================================
