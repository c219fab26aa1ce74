------------------------------ MODULE MCAdmission ------------------------------
(* Instances of requests and configurations for TLC: each family varies one part. *)
EXTENDS Admission

SeqsUpTo(S, n) == UNION {[1..k -> S] : k \in 0..n}

(* Addresses "proxy", "client", "other"; tokens and keys 1 and 2. *)

At(name, domain) == [name |-> name, domain |-> domain, form |-> "plain"]
Fine(n) == [chars |-> "plain", length |-> n]
File(n) == [filename |-> Fine(1), content_type |-> "plain", base64 |-> TRUE, length |-> n]

Open == [trust_proxy_headers |-> FALSE, trusted_source_cidrs |-> {}, allowed_source_cidrs |-> {}]
Proxied == [Open EXCEPT !.trust_proxy_headers = TRUE, !.trusted_source_cidrs = {{"proxy"}}]

Networks ==
    {Open, Proxied, [Proxied EXCEPT !.trust_proxy_headers = FALSE],
     [Open EXCEPT !.allowed_source_cidrs = {{"client"}, {"proxy"}}],
     [Proxied EXCEPT !.allowed_source_cidrs = {{"client"}}]}

Key(id, secret) == [id |-> id, secret |-> secret, enabled |-> TRUE,
                    allowed_recipient_domains |-> {}, allowed_recipients |-> {}]
ByDomain == [Key("k1", "t1") EXCEPT !.allowed_recipient_domains = {"x"}]
ByAddress == [Key("k1", "t1") EXCEPT !.allowed_recipients = {At("a", "x"), At("a", "y"), At("b", "x")}]
ByBoth == [ByAddress EXCEPT !.allowed_recipient_domains = {"x"}]
Off == [Key("k1", "t1") EXCEPT !.enabled = FALSE]
Second == Key("k2", "t2")

\* The last two have an id, or a secret, twice.
KeyLists ==
    {<<ByDomain, Second>>, <<Second, ByAddress>>, <<ByBoth>>, <<Off, Second>>, <<Off>>, <<Second>>,
     <<ByDomain, Key("k1", "t2")>>, <<Key("k1", "t1"), [Key("k2", "t1") EXCEPT !.enabled = FALSE]>>}

Strict == [allowed_recipient_domains |-> {}, max_recipients |-> 2, max_subject_chars |-> 1,
           max_body_bytes |-> 1, max_attachments |-> 2, max_attachment_bytes |-> 10,
           max_total_attachment_bytes |-> 12, allow_html_body |-> FALSE, allow_attachments |-> TRUE]

MailConfigs ==
    {Strict, [Strict EXCEPT !.allowed_recipient_domains = {"x"}],
     [Strict EXCEPT !.allow_html_body = TRUE, !.allow_attachments = FALSE],
     [Strict EXCEPT !.max_total_attachment_bytes = Absent, !.max_attachment_bytes = 11]}

Plain == [security |-> Open, api_keys |-> <<Key("k1", "t1"), Second>>, mail |-> Strict]

AllConfigs ==
    {[Plain EXCEPT !.security = n] : n \in Networks}
    \cup {[Plain EXCEPT !.api_keys = k] : k \in KeyLists}
    \cup {[Plain EXCEPT !.mail = m] : m \in MailConfigs}

NoHeaders == [forwarded |-> <<>>, xForwardedFor |-> <<>>, authorization |-> "t1", xApiKey |-> Absent]

Simple == [to |-> <<At("a", "x")>>, cc |-> <<>>, reply_to |-> <<>>, subject |-> Fine(1),
           body |-> Fine(1), body_html |-> Absent, from_name |-> Fine(1), attachments |-> <<>>]

\* Where requests come from, and what they say of it.
ByRoute ==
    {[peer |-> p, payload |-> Simple,
      headers |-> [NoHeaders EXCEPT !.forwarded = f, !.xForwardedFor = x]] :
        p \in {"proxy", "other"},
        f \in {<<>>, <<<<"client">>>>, <<<<Malformed, "other">>, <<"client">>>>, <<<<>>, <<"client">>>>},
        x \in SeqsUpTo({"client", "other", Malformed}, 2)}

\* What they present.
ByToken ==
    {[peer |-> "client", payload |-> Simple,
      headers |-> [NoHeaders EXCEPT !.authorization = a, !.xApiKey = x]] :
        a \in {"t1", "t2", "t3", Malformed, Absent}, x \in {"t1", "t2", Absent}}

MailAddresses ==
    {At("a", "x"), At("b", "x"), At("a", "y"), [At("a", "x") EXCEPT !.form = "capitals"],
     [At("b", "x") EXCEPT !.form = "quoted"], [At("a", "x") EXCEPT !.form = "malformed"],
     [At("a", "y") EXCEPT !.form = "break"]}

Files == {File(n) : n \in {0, 2, 10, 11, 12, 13}}
         \cup {[File(2) EXCEPT !.base64 = FALSE], [File(2) EXCEPT !.content_type = "odd"],
               [File(2) EXCEPT !.content_type = "bad"], [File(2) EXCEPT !.filename.length = 256]}

Texts == {[chars |-> c, length |-> n] :
             c \in {"plain", "blank", "break", "control", "nul", "path"}, n \in {1, 2}}

Payloads ==
    {[Simple EXCEPT !.to = t, !.cc = c] :
        t \in SeqsUpTo(MailAddresses, 2), c \in SeqsUpTo(MailAddresses, 1)}
    \cup {[Simple EXCEPT !.attachments = a] : a \in SeqsUpTo(Files, 2)}
    \cup {[Simple EXCEPT !.attachments = <<File(n), File(2), File(2)>>] : n \in {0, 10}}
    \cup {[Simple EXCEPT !.subject = t] : t \in Texts}
    \cup {[Simple EXCEPT !.body = t] : t \in Texts}
    \cup {[Simple EXCEPT !.body_html = t] : t \in Texts}
    \cup {[Simple EXCEPT !.from_name = t] : t \in Texts}
    \cup {[Simple EXCEPT !.reply_to = <<a>>] : a \in MailAddresses}

\* What they contain.
ByPayload ==
    {[peer |-> "client", payload |-> p, headers |-> [NoHeaders EXCEPT !.authorization = t]] :
        p \in Payloads, t \in {"t1", "t2"}}

AllArrivals == ByRoute \cup ByToken \cup ByPayload
=============================================================================
