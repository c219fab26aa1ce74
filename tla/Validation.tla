------------------------------ MODULE Validation ------------------------------
(***************************************************************************)
(* What a request may contain: validate_mail_request (validation.rs), the  *)
(* recipient policy (policy.rs) and build_message (mail.rs), as one pure   *)
(* function of the payload, the configuration and the caller's key.        *)
(* Every check but the feature gates fails with the same code, so their    *)
(* order among themselves shows nowhere.                                   *)
(***************************************************************************)
EXTENDS Authentication, Integers

CONSTANTS
    Names, Domains      \* the parts of mail addresses, apart from their case

\* A mail address: as configured, with other capitals, with the local part in quotes,
\* not an address, or with a line break.
MailAddress == [name : Names, domain : Domains,
                form : {"plain", "capitals", "quoted", "malformed", "break"}]

\* A text: ordinary, only white space, or with a line break, another control
\* character, NUL or a path separator in it.
Text == [chars : {"plain", "blank", "break", "control", "nul", "path"}, length : Nat]

\* A file: `base64' says whether its data is, `length' is that of the file.
Attachment == [filename : Text, content_type : {"plain", "odd", "bad"},
               base64 : BOOLEAN, length : Nat]

\* Absent: no HTML body here, no aggregate limit in MailConfig.
MailRequest == [to : Seq(MailAddress), cc : Seq(MailAddress), reply_to : Seq(MailAddress),
                subject : Text, body : Text, body_html : Text \cup {Absent},
                from_name : Text, attachments : Seq(Attachment)]

ApiKeyConfig == [id : KeyIds, secret : Tokens, enabled : BOOLEAN,
                 allowed_recipient_domains : SUBSET Domains,
                 allowed_recipients : SUBSET MailAddress]

MailConfig == [allowed_recipient_domains : SUBSET Domains,
               max_recipients : Nat, max_subject_chars : Nat, max_body_bytes : Nat,
               max_attachments : Nat, max_attachment_bytes : Nat,
               max_total_attachment_bytes : Nat \cup {Absent},
               allow_html_body : BOOLEAN, allow_attachments : BOOLEAN]

-----------------------------------------------------------------------------
(* Recipients. *)

Uncased(form) == IF form = "capitals" THEN "plain" ELSE form

\* eq_ignore_ascii_case, on the whole text: quotes around a local part count.
SameAddress(a, b) ==
    /\ a.name = b.name /\ a.domain = b.domain
    /\ Uncased(a.form) = Uncased(b.form)

WellFormed(address) == address.form \notin {"malformed", "break"}

\* An empty list allows every domain.
DomainPermitted(domains, domain) == domains = {} \/ domain \in domains

\* The list of addresses decides alone, if there is one.
address_permitted_for_key(key, address) ==
    IF key.allowed_recipients # {}
    THEN \E listed \in key.allowed_recipients : SameAddress(listed, address)
    ELSE DomainPermitted(key.allowed_recipient_domains, address.domain)

\* The first entry with this id, if any.
find_key(keys, id) ==
    LET i == SelectInSeq(keys, LAMBDA key : key.id = id)
    IN  IF i = 0 THEN <<>> ELSE <<keys[i]>>

\* The domain lists, the global one and that of the key.
check_recipient_domain(address, mail, keys, id) ==
    LET found == find_key(keys, id)
    IN  /\ DomainPermitted(mail.allowed_recipient_domains, address.domain)
        /\ found # <<>> =>
              DomainPermitted(Head(found).allowed_recipient_domains, address.domain)

check_recipient_domain_or_address(address, mail, keys, id) ==
    LET found == find_key(keys, id)
    IN  /\ found # <<>> => address_permitted_for_key(Head(found), address)
        /\ check_recipient_domain(address, mail, keys, id)

Recipients(payload) == ToSet(payload.to) \cup ToSet(payload.cc)

\* Mutant of RecipientsValid: copies are not held against the policy.
RecipientsValidTo(payload, mail, keys, id) ==
    /\ payload.to # <<>>
    /\ Len(payload.to) + Len(payload.cc) <= mail.max_recipients
    /\ \A address \in Recipients(payload) : WellFormed(address)
    /\ \A address \in ToSet(payload.to) :
          check_recipient_domain_or_address(address, mail, keys, id)

RecipientsValid(payload, mail, keys, id) ==
    /\ payload.to # <<>>
    /\ Len(payload.to) + Len(payload.cc) <= mail.max_recipients
    /\ \A address \in Recipients(payload) :
          /\ WellFormed(address)
          /\ check_recipient_domain_or_address(address, mail, keys, id)

-----------------------------------------------------------------------------
(* Texts and files. *)

contains_header_injection(text) == text.chars = "break"
contains_control_chars(text) == text.chars \in {"break", "control", "nul"}

validate_subject(text, max) ==
    /\ text.chars # "blank"
    /\ ~contains_control_chars(text)
    /\ text.length <= max

\* Both bodies: line breaks and other control characters are allowed.
validate_body(text, max) == text.chars # "nul" /\ text.length <= max

\* Of any length.
validate_display_name(text) == ~contains_header_injection(text)

TextsValid(payload, mail) ==
    /\ validate_subject(payload.subject, mail.max_subject_chars)
    /\ validate_body(payload.body, mail.max_body_bytes)
    /\ payload.body_html # Absent => validate_body(payload.body_html, mail.max_body_bytes)
    /\ validate_display_name(payload.from_name)
    /\ \A address \in ToSet(payload.reply_to) : WellFormed(address)

\* Characters of base64 that n bytes take: four for every three begun.
Encoded(n) == 4 * ((n + 2) \div 3)

\* Mutant of MaxEncoded: no allowance for rounding and padding.
MaxEncodedExact(limit) == (limit * 4) \div 3

\* Data longer than this is refused without being decoded.
MaxEncoded(limit) == (limit * 4) \div 3 + 8

\* Bytes decoded after the first n attachments.
Total(attachments, n) ==
    FoldLeft(LAMBDA sum, file : sum + file.length, 0, SubSeq(attachments, 1, n))

FileValid(file, mail) ==
    /\ ~contains_header_injection(file.filename) /\ file.filename.chars \notin {"nul", "path"}
    /\ file.filename.length \in 1..255
    /\ file.content_type # "bad"
    /\ Encoded(file.length) <= MaxEncoded(mail.max_attachment_bytes)
    /\ file.base64
    /\ file.length <= mail.max_attachment_bytes

\* Mutant of FilesValid: a file is counted after it has been checked.
FilesValidLate(payload, mail) ==
    /\ Len(payload.attachments) <= mail.max_attachments
    /\ \A i \in DOMAIN payload.attachments :
          /\ FileValid(payload.attachments[i], mail)
          /\ mail.max_total_attachment_bytes # Absent =>
                Total(payload.attachments, i - 1) <= mail.max_total_attachment_bytes

\* One attachment after the other, each with the running total.
FilesValid(payload, mail) ==
    /\ Len(payload.attachments) <= mail.max_attachments
    /\ \A i \in DOMAIN payload.attachments :
          /\ FileValid(payload.attachments[i], mail)
          /\ mail.max_total_attachment_bytes # Absent =>
                Total(payload.attachments, i) <= mail.max_total_attachment_bytes

-----------------------------------------------------------------------------
(* The result. *)

FeatureOff(payload, mail) ==
    \/ payload.body_html # Absent /\ ~mail.allow_html_body
    \/ payload.attachments # <<>> /\ ~mail.allow_attachments

\* validate_mail_request: "valid", or the code of the error.
validate_mail_request(payload, mail, keys, id) ==
    IF FeatureOff(payload, mail) THEN "feature_disabled"
    ELSE IF /\ RecipientsValid(payload, mail, keys, id)
            /\ TextsValid(payload, mail)
            /\ FilesValid(payload, mail)
    THEN "valid"
    ELSE "validation_failed"

\* build_message: what follows for a valid request.  Content types are parsed only
\* here; addresses are parsed again, as mailboxes, where quotes are read differently.
build_message(payload) ==
    IF \E file \in ToSet(payload.attachments) : file.content_type = "odd"
    THEN {"internal_error"}
    ELSE IF \E address \in Recipients(payload) \cup ToSet(payload.reply_to) :
               address.form = "quoted"
    THEN {"built", "internal_error"}
    ELSE {"built"}
=============================================================================
