--------------------------- MODULE Admission_proofs ---------------------------
(***************************************************************************)
(* Proofs about the admission of a request: whom it is taken for and whom  *)
(* it may write to, for any keys, networks, headers and payloads.          *)
(***************************************************************************)
EXTENDS Admission, FiniteSetTheorems, WellFoundedInduction, TLAPS

(* Positions in sequences. *)

\* The naturals are well-founded.
LEMMA LeastExists ==
    ASSUME NEW I \in SUBSET Nat, I # {}
    PROVE  \E i \in I : \A j \in I : i <= j
<1>1. \E i \in I : \A j \in I : ~(<<j, i>> \in OpToRel(<, Nat))
  BY WFMin, NatLessThanWellFounded
<1>2. PICK i \in I : \A j \in I : ~(<<j, i>> \in OpToRel(<, Nat))
  BY <1>1
<1>3. \A j \in I : ~(j < i)
  BY <1>2 DEF OpToRel
<1> QED  BY <1>3

\* Min and Max of the places where a sequence passes a test are such places.
LEMMA MinIn ==
    ASSUME NEW I \in SUBSET Nat, I # {}
    PROVE  Min(I) \in I /\ \A j \in I : Min(I) <= j
BY LeastExists DEF Min

\* A non-empty set of positions has a greatest one.
LEMMA MaxIn ==
    ASSUME NEW n \in Nat, NEW I \in SUBSET (1 .. n), I # {}
    PROVE  Max(I) \in I /\ \A j \in I : Max(I) >= j
<1> DEFINE J == {n - i : i \in I}
<1>1. J \in SUBSET Nat /\ J # {}
  <2>1. \A i \in I : n - i \in Nat
    OBVIOUS
  <2> QED  BY <2>1, Zenon
<1>2. PICK j \in J : \A k \in J : j <= k
  BY <1>1, LeastExists
<1>3. PICK i \in I : j = n - i
  OBVIOUS
<1>4. \A k \in I : i >= k
  <2> TAKE k \in I
  <2>1. j <= n - k
    BY <1>2
  <2> QED  BY <2>1, <1>3
<1> QED  BY <1>4 DEF Max

\* find_matching_key yields an entry with the secret, or there is none.
LEMMA MatchHasSecret ==
    ASSUME NEW keys \in Seq(ApiKeyConfig), NEW token
    PROVE  \/ /\ find_matching_key(keys, token) = <<>>
              /\ \A i \in DOMAIN keys : keys[i].secret # token
           \/ \E i \in DOMAIN keys :
                 keys[i].secret = token /\ find_matching_key(keys, token) = <<keys[i]>>
<1> DEFINE I == {i \in 1 .. Len(keys) : keys[i].secret = token}
<1>1. find_matching_key(keys, token) = IF (IF I # {} THEN Max(I) ELSE 0) = 0 THEN <<>>
                                       ELSE <<keys[IF I # {} THEN Max(I) ELSE 0]>>
  BY DEF find_matching_key, SelectLastInSeq
<1>2. Len(keys) \in Nat /\ I \in SUBSET (1 .. Len(keys)) /\ DOMAIN keys = 1 .. Len(keys)
  OBVIOUS
<1>3. \A i \in DOMAIN keys : i \in I <=> keys[i].secret = token
  BY <1>2
<1> HIDE DEF I
<1>4. CASE I = {}
  BY <1>1, <1>2, <1>3, <1>4
<1>5. CASE I # {}
  <2>1. Max(I) \in I
    BY <1>2, <1>5, MaxIn
  <2>2. Max(I) # 0 /\ find_matching_key(keys, token) = <<keys[Max(I)]>>
    BY <1>1, <1>2, <1>5, <2>1
  <2> QED  BY <1>2, <1>3, <2>1, <2>2
<1> QED  BY <1>4, <1>5

\* find_key yields the entry with the least index that has the id, or there is none.
LEMMA FoundHasId ==
    ASSUME NEW keys \in Seq(ApiKeyConfig), NEW id
    PROVE  \/ /\ find_key(keys, id) = <<>>
              /\ \A i \in DOMAIN keys : keys[i].id # id
           \/ \E i \in DOMAIN keys :
                 keys[i].id = id /\ find_key(keys, id) = <<keys[i]>>
<1> DEFINE I == {i \in 1 .. Len(keys) : keys[i].id = id}
<1>1. find_key(keys, id) = IF (IF I # {} THEN Min(I) ELSE 0) = 0 THEN <<>>
                           ELSE <<keys[IF I # {} THEN Min(I) ELSE 0]>>
  BY DEF find_key, SelectInSeq
<1>2. Len(keys) \in Nat /\ I \in SUBSET (1 .. Len(keys)) /\ DOMAIN keys = 1 .. Len(keys)
  OBVIOUS
<1>3. \A i \in DOMAIN keys : i \in I <=> keys[i].id = id
  BY <1>2
<1> HIDE DEF I
<1>4. CASE I = {}
  BY <1>1, <1>2, <1>3, <1>4
<1>5. CASE I # {}
  <2>1. Min(I) \in I
    BY <1>2, <1>5, MinIn
  <2>2. Min(I) # 0 /\ find_key(keys, id) = <<keys[Min(I)]>>
    BY <1>1, <1>2, <1>5, <2>1
  <2> QED  BY <1>2, <1>3, <2>1, <2>2
<1> QED  BY <1>4, <1>5

\* FirstAddress yields an address among the values, or there is none.
LEMMA AddressAmong ==
    ASSUME NEW values \in Seq(IpAddrs \cup {Malformed})
    PROVE  \/ FirstAddress(values) = <<>>
           \/ \E i \in DOMAIN values :
                 values[i] \in IpAddrs /\ FirstAddress(values) = <<values[i]>>
<1> DEFINE I == {i \in 1 .. Len(values) : values[i] \in IpAddrs}
<1>1. FirstAddress(values) = IF (IF I # {} THEN Min(I) ELSE 0) = 0 THEN <<>>
                             ELSE <<values[IF I # {} THEN Min(I) ELSE 0]>>
  BY DEF FirstAddress, SelectInSeq
<1>2. Len(values) \in Nat /\ I \in SUBSET (1 .. Len(values)) /\ DOMAIN values = 1 .. Len(values)
  OBVIOUS
<1>3. \A i \in DOMAIN values : i \in I <=> values[i] \in IpAddrs
  BY <1>2
<1> HIDE DEF I
<1>4. CASE I = {}
  BY <1>1, <1>2, <1>3, <1>4
<1>5. CASE I # {}
  <2>1. Min(I) \in I
    BY <1>2, <1>5, MinIn
  <2>2. Min(I) # 0 /\ FirstAddress(values) = <<values[Min(I)]>>
    BY <1>1, <1>2, <1>5, <2>1
  <2> QED  BY <1>2, <1>3, <2>1, <2>2
<1> QED  BY <1>4, <1>5

-----------------------------------------------------------------------------
(* The extractor. *)

\* Something before something else comes first.
LEMMA HeadOfConcat ==
    ASSUME NEW S, NEW s \in Seq(S), NEW t \in Seq(S), t # <<>>
    PROVE  /\ s \o t \in Seq(S)
           /\ s \o t # <<>>
           /\ Head(s \o t) = IF s # <<>> THEN s[1] ELSE Head(t)
<1>1. s \o t \in Seq(S) /\ Len(s \o t) = Len(s) + Len(t)
  OBVIOUS
<1>2. Len(t) \in Nat \ {0} /\ Len(s) \in Nat
  OBVIOUS
<1>3. s \o t # <<>> /\ Head(s \o t) = (s \o t)[1]
  BY <1>1, <1>2
<1>4. CASE s = <<>>
  <2>1. s \o t = t
    BY <1>4
  <2> QED  BY <1>1, <1>3, <1>4, <2>1
<1>5. CASE s # <<>>
  <2>1. Len(s) >= 1
    BY <1>5
  <2>2. (s \o t)[1] = s[1]
    BY <2>1, <1>2
  <2> QED  BY <1>1, <1>3, <1>5, <2>2
<1> QED  BY <1>4, <1>5

\* What resolve_client_ip may answer: the peer, or what a trusted proxy says first.
LEMMA AddressVouched ==
    ASSUME NEW headers \in Headers, NEW peer \in IpAddrs, NEW network \in Network
    PROVE  LET ip == ClientIp(headers, peer, network)
           IN  /\ ip \in IpAddrs
               /\ ip # peer =>
                    /\ network.trust_proxy_headers
                    /\ peer \in UNION network.trusted_source_cidrs
                    /\ IF parse_forwarded_for(headers) = <<>>
                       THEN headers.xForwardedFor # <<>> /\ ip = Head(headers.xForwardedFor)
                       ELSE \E i \in DOMAIN Head(headers.forwarded) :
                               ip = Head(headers.forwarded)[i]
<1> DEFINE F == parse_forwarded_for(headers)
           X == leftmost_forwarded_for(headers)
           trusted == network.trusted_source_cidrs
<1>1. \/ F = <<>>
      \/ \E i \in DOMAIN Head(headers.forwarded) :
            LET ip == Head(headers.forwarded)[i] IN ip \in IpAddrs /\ F = <<ip>>
  <2>1. CASE headers.forwarded = <<>>
    BY <2>1 DEF parse_forwarded_for
  <2>2. CASE headers.forwarded # <<>>
    <3>1. Head(headers.forwarded) \in Seq(IpAddrs \cup {Malformed})
      BY <2>2 DEF Headers
    <3> QED  BY <2>2, <3>1, AddressAmong DEF parse_forwarded_for
  <2> QED  BY <2>1, <2>2
<1>2. \/ X = <<>>
      \/ LET ip == Head(headers.xForwardedFor)
         IN  headers.xForwardedFor # <<>> /\ ip \in IpAddrs /\ X = <<ip>>
  <2>1. CASE headers.xForwardedFor = <<>>
    BY <2>1 DEF leftmost_forwarded_for
  <2>2. CASE headers.xForwardedFor # <<>>
    <3> DEFINE one == <<Head(headers.xForwardedFor)>>
    <3>1. one \in Seq(IpAddrs \cup {Malformed}) /\ DOMAIN one = {1}
      BY <2>2 DEF Headers
    <3>2. \/ FirstAddress(one) = <<>>
          \/ \E i \in DOMAIN one : one[i] \in IpAddrs /\ FirstAddress(one) = <<one[i]>>
      BY <3>1, AddressAmong
    <3> QED  BY <2>2, <3>1, <3>2 DEF leftmost_forwarded_for
  <2> QED  BY <2>1, <2>2
<1>3. Head(F \o X \o <<peer>>) =
        IF F # <<>> THEN F[1] ELSE IF X # <<>> THEN X[1] ELSE peer
  <2>1. F \in Seq(IpAddrs) /\ X \in Seq(IpAddrs) /\ <<peer>> \in Seq(IpAddrs)
    <3>1. \A ip \in IpAddrs : <<ip>> \in Seq(IpAddrs)
      OBVIOUS
    <3>2. <<>> \in Seq(IpAddrs)
      OBVIOUS
    <3> QED  BY <1>1, <1>2, <3>1, <3>2, Zenon
  <2> HIDE DEF F, X
  <2>2. <<peer>> # <<>> /\ Head(<<peer>>) = peer
    OBVIOUS
  <2>3. X \o <<peer>> \in Seq(IpAddrs) /\ X \o <<peer>> # <<>>
    BY <2>1, <2>2, HeadOfConcat
  <2>4. Head(X \o <<peer>>) = IF X # <<>> THEN X[1] ELSE peer
    BY <2>1, <2>2, HeadOfConcat
  <2>5. F \o X \o <<peer>> = F \o (X \o <<peer>>)
    BY <2>1
  <2>6. Head(F \o (X \o <<peer>>)) = IF F # <<>> THEN F[1] ELSE Head(X \o <<peer>>)
    BY <2>1, <2>3, HeadOfConcat
  <2> QED  BY <2>4, <2>5, <2>6
<1>4. CASE network.trust_proxy_headers /\ ip_in_cidrs(peer, trusted)
  <2>1. ClientIp(headers, peer, network) = Head(F \o X \o <<peer>>)
    BY <1>4 DEF ClientIp, resolve_client_ip
  <2>2. peer \in UNION trusted
    BY <1>4 DEF ip_in_cidrs
  <2> HIDE DEF F, X
  <2> QED  BY <1>1, <1>2, <1>3, <1>4, <2>1, <2>2 DEF F, X
<1>5. CASE ~(network.trust_proxy_headers /\ ip_in_cidrs(peer, trusted))
  BY <1>5 DEF ClientIp, resolve_client_ip
<1> QED  BY <1>4, <1>5

\* The token that counts, of the two headers.
LEMMA TokenPresented ==
    ASSUME NEW headers \in Headers, NEW token \in Tokens
    PROVE  extract_token(headers) = token <=>
              \/ headers.authorization = token
              \/ headers.authorization = Absent /\ headers.xApiKey = token
BY AdmissionAssumption DEF extract_token, Headers

\* Whoever is let in has the secret of an enabled entry and comes from an allowed
\* address; whoever is not lacks one of these, or their secret matched another entry.
LEMMA AuthOutcome ==
    ASSUME NEW headers \in Headers, NEW peer \in IpAddrs, NEW network \in Network,
           NEW keys \in Seq(ApiKeyConfig)
    PROVE  LET result == from_request_parts(headers, peer, network, keys)
               token == extract_token(headers)
           IN  \/ /\ result.code = "ok"
                  /\ SourceAllowed(ClientIp(headers, peer, network), network)
                  /\ \E i \in DOMAIN keys :
                        /\ result.key = keys[i]
                        /\ keys[i].enabled
                        /\ keys[i].secret = token
               \/ /\ result.code \in {"unauthorized", "forbidden"}
                  /\ \A i \in DOMAIN keys :
                        keys[i].enabled /\ keys[i].secret = token =>
                          \/ ~SourceAllowed(ClientIp(headers, peer, network), network)
                          \/ \E j \in DOMAIN keys \ {i} : keys[j].secret = keys[i].secret
<1> DEFINE token == extract_token(headers)
           match == find_matching_key(keys, token)
           allowed == SourceAllowed(ClientIp(headers, peer, network), network)
           result == from_request_parts(headers, peer, network, keys)
<1>1. \A i \in DOMAIN keys : keys[i].secret # Absent
  <2>1. \A i \in DOMAIN keys : keys[i] \in ApiKeyConfig
    OBVIOUS
  <2>2. \A i \in DOMAIN keys : keys[i].secret \in Tokens
    BY <2>1 DEF ApiKeyConfig
  <2> QED  BY <2>2, AdmissionAssumption
<1>2. result = IF ~allowed THEN Refuses("forbidden")
               ELSE IF token = Absent THEN Refuses("unauthorized")
               ELSE IF match = <<>> THEN Refuses("forbidden")
               ELSE IF ~Head(match).enabled THEN Refuses("forbidden")
               ELSE Accepts(Head(match))
  BY DEF from_request_parts
<1>3. \/ match = <<>> /\ \A i \in DOMAIN keys : keys[i].secret # token
      \/ \E i \in DOMAIN keys : keys[i].secret = token /\ match = <<keys[i]>>
  BY MatchHasSecret
<1> HIDE DEF token, match, allowed, result
<1>4. CASE match = <<>> /\ \A i \in DOMAIN keys : keys[i].secret # token
  BY <1>2, <1>4 DEF Refuses, Accepts, token, match, allowed, result
<1>5. CASE \E i \in DOMAIN keys : keys[i].secret = token /\ match = <<keys[i]>>
  <2>1. PICK i \in DOMAIN keys : keys[i].secret = token /\ match = <<keys[i]>>
    BY <1>5
  <2>2. match # <<>> /\ Head(match) = keys[i] /\ token # Absent
    BY <1>1, <2>1
  <2>3. CASE allowed /\ keys[i].enabled
    <3>1. result = [code |-> "ok", key |-> keys[i]]
      BY <1>2, <2>2, <2>3 DEF Accepts
    <3>2. result.code = "ok" /\ result.key = keys[i]
      BY <3>1
    <3> QED  BY <2>1, <2>3, <3>2 DEF token, allowed, result
  <2>4. CASE ~allowed
    <3>1. result.code = "forbidden"
      BY <1>2, <2>4 DEF Refuses
    <3> QED  BY <2>4, <3>1 DEF token, allowed, result
  <2>5. CASE allowed /\ ~keys[i].enabled
    <3>1. result.code = "forbidden"
      BY <1>2, <2>2, <2>5 DEF Refuses
    <3> QED  BY <2>1, <2>5, <3>1 DEF token, allowed, result
  <2> QED  BY <2>3, <2>4, <2>5
<1> QED  BY <1>3, <1>4, <1>5

-----------------------------------------------------------------------------
(* The invariant. *)

\* Only an authenticated request has a context, and its key_id is that of its entry.
ContextOfEntry ==
    /\ stage = "authenticated" => auth # Absent
    /\ auth # Absent => auth.key_id = auth.entry.id

IInv == TypeOK /\ ContextOfEntry

\* The sections of a configuration have their types.
LEMMA ConfigTypes ==
    ASSUME NEW c \in Configs
    PROVE  /\ c.security \in Network
           /\ c.api_keys \in Seq(ApiKeyConfig)
           /\ c.mail \in MailConfig
BY AdmissionAssumption DEF AppConfig

\* The parts of a request have their types.
LEMMA RequestTypes ==
    ASSUME NEW r \in Arrivals
    PROVE  r.peer \in IpAddrs /\ r.headers \in Headers /\ r.payload \in MailRequest
BY AdmissionAssumption DEF Request

\* No context is Absent: it has fields.
LEMMA InitInvariant == Init => IInv
BY DEF Init, IInv, TypeOK, ContextOfEntry

\* The context that Authenticate makes.
LEMMA AuthenticateStep ==
    ASSUME IInv, Authenticate
    PROVE  IInv'
<1> DEFINE network == config.security
           result == from_request_parts(request.headers, request.peer, network, config.api_keys)
           ip == ClientIp(request.headers, request.peer, network)
<1>1. /\ request.peer \in IpAddrs /\ request.headers \in Headers
      /\ network \in Network /\ config.api_keys \in Seq(ApiKeyConfig)
  BY ConfigTypes, RequestTypes DEF IInv, TypeOK
<1>2. ip \in IpAddrs
  BY <1>1, AddressVouched
<1>3. \/ result.code = "ok" /\ \E i \in DOMAIN config.api_keys : result.key = config.api_keys[i]
      \/ result.code \in {"unauthorized", "forbidden"}
  <2> HIDE DEF result, network
  <2> QED  BY <1>1, AuthOutcome DEF result
<1>4. CASE result.code = "ok"
  <2>1. result.key \in ApiKeyConfig
    BY <1>1, <1>3, <1>4
  <2> DEFINE context == [key_id |-> result.key.id, entry |-> result.key, client_ip |-> ip]
  <2>2. /\ stage' = "authenticated"
        /\ auth' = context
        /\ UNCHANGED <<config, request, outcome>>
    BY <1>4 DEF Authenticate
  <2> HIDE DEF result, ip
  <2>3. context \in Context
    BY <1>2, <2>1 DEF Context, ApiKeyConfig
  <2>4. auth' # Absent
    BY <2>2, <2>3, AdmissionAssumption
  <2> QED  BY <2>2, <2>3, <2>4 DEF IInv, TypeOK, ContextOfEntry
<1>5. CASE result.code # "ok"
  <2>1. /\ stage' = "done"
        /\ outcome' \in {"unauthorized", "forbidden"}
        /\ UNCHANGED <<config, request, auth>>
    BY <1>3, <1>5 DEF Authenticate
  <2> QED  BY <2>1 DEF IInv, TypeOK, ContextOfEntry, Outcomes
<1> QED  BY <1>4, <1>5

\* What Handle decides: a built message was found valid.
LEMMA HandleOutcome ==
    ASSUME IInv, Handle
    PROVE  LET verdict == validate_mail_request(request.payload, config.mail,
                                                config.api_keys, auth.key_id)
           IN  /\ stage' = "done"
               /\ UNCHANGED <<config, request, auth>>
               /\ outcome' \in Outcomes
               /\ outcome' = "built" => verdict = "valid"
BY DEF Handle, validate_mail_request, build_message, Outcomes

\* Every step keeps the invariant.
LEMMA NextInvariant == IInv /\ [Next]_vars => IInv'
<1> SUFFICES ASSUME IInv, [Next]_vars PROVE IInv'
  OBVIOUS
<1>1. ASSUME NEW c \in Configs, Reload(c) PROVE IInv'
  BY <1>1 DEF Reload, IInv, TypeOK, ContextOfEntry
<1>2. CASE Authenticate
  BY <1>2, AuthenticateStep
<1>3. CASE Handle
  <2>1. /\ stage' = "done" /\ outcome' \in Outcomes
        /\ UNCHANGED <<config, request, auth>>
    BY <1>3, HandleOutcome
  <2> QED  BY <2>1 DEF IInv, TypeOK, ContextOfEntry
<1>4. CASE UNCHANGED vars
  BY <1>4 DEF vars, IInv, TypeOK, ContextOfEntry
<1> QED  BY <1>1, <1>2, <1>3, <1>4 DEF Next

\* The inductive invariant: types, and that a context is of the entry it names.
THEOREM Invariant == Spec => []IInv
<1> QED  BY InitInvariant, NextInvariant, PTL DEF Spec

\* Type correctness, for any configurations, requests and reloads.
THEOREM TypeCorrect == Spec => []TypeOK
<1>1. IInv => TypeOK
  BY DEF IInv
<1> QED  BY <1>1, Invariant, PTL

-----------------------------------------------------------------------------
(* Whom a request is taken for. *)

\* Only Authenticate leaves "arriving".
LEMMA DecidedByAuthenticate ==
    ASSUME IInv, [Next]_vars, stage = "arriving", stage' # "arriving"
    PROVE  Authenticate
BY DEF Next, vars, Reload, Handle

\* The address a request is limited by (resolve_client_ip): nobody but a trusted proxy
\* has a say in it.
THEOREM AddressTrusted == Spec => ClientAddressVouched
<1> DEFINE Vouched ==
      Authenticated =>
        LET ip == auth'.client_ip
            headers == request.headers
        IN  /\ ip # request.peer =>
                  /\ config.security.trust_proxy_headers
                  /\ request.peer \in UNION config.security.trusted_source_cidrs
                  /\ IF parse_forwarded_for(headers) = <<>>
                     THEN headers.xForwardedFor # <<>> /\ ip = Head(headers.xForwardedFor)
                     ELSE \E i \in DOMAIN Head(headers.forwarded) :
                             ip = Head(headers.forwarded)[i]
            /\ config.security.allowed_source_cidrs # {} =>
                  ip \in UNION config.security.allowed_source_cidrs
<1>1. ASSUME IInv, [Next]_vars PROVE Vouched
  <2> SUFFICES ASSUME Authenticated PROVE Vouched
    OBVIOUS
  <2> DEFINE network == config.security
             ip == ClientIp(request.headers, request.peer, network)
             result == from_request_parts(request.headers, request.peer, network, config.api_keys)
  <2>1. Authenticate
    BY <1>1, DecidedByAuthenticate DEF Authenticated
  <2>2. /\ request.peer \in IpAddrs /\ request.headers \in Headers
        /\ network \in Network /\ config.api_keys \in Seq(ApiKeyConfig)
    BY <1>1, ConfigTypes, RequestTypes DEF IInv, TypeOK
  <2>3. result.code = "ok" /\ auth'.client_ip = ip
    BY <2>1 DEF Authenticate, Authenticated
  <2>4. SourceAllowed(ip, network)
    <3> HIDE DEF result, network
    <3> QED  BY <2>2, <2>3, AuthOutcome DEF result
  <2>5. network.allowed_source_cidrs # {} => ip \in UNION network.allowed_source_cidrs
    BY <2>4 DEF SourceAllowed, ip_in_cidrs
  <2> HIDE DEF ip
  <2> QED  BY <2>2, <2>3, <2>5, AddressVouched DEF ip
<1> QED  BY <1>1, Invariant, PTL DEF Spec, ClientAddressVouched

\* Nobody is taken for a key without its secret, and nobody with the secret of an
\* enabled key is turned away, unless by address or by another entry that shares it.
THEOREM KeyHeld == Spec => KeyPresented
<1> DEFINE Held ==
      /\ Authenticated =>
            \E key \in ToSet(config.api_keys) :
                /\ key.id = auth'.key_id
                /\ key.enabled
                /\ Presented(key.secret)
      /\ Refused =>
            \A i \in DOMAIN config.api_keys :
                LET key == config.api_keys[i]
                IN  key.enabled /\ Presented(key.secret) =>
                      \/ /\ config.security.allowed_source_cidrs # {}
                         /\ ClientIp(request.headers, request.peer, config.security)
                               \notin UNION config.security.allowed_source_cidrs
                      \/ \E j \in DOMAIN config.api_keys \ {i} :
                            config.api_keys[j].secret = key.secret
<1>1. ASSUME IInv, [Next]_vars PROVE Held
  <2> DEFINE network == config.security
             ip == ClientIp(request.headers, request.peer, network)
             token == extract_token(request.headers)
             result == from_request_parts(request.headers, request.peer, network, config.api_keys)
  <2>1. /\ request.peer \in IpAddrs /\ request.headers \in Headers
        /\ network \in Network /\ config.api_keys \in Seq(ApiKeyConfig)
    BY <1>1, ConfigTypes, RequestTypes DEF IInv, TypeOK
  <2>2. \A i \in DOMAIN config.api_keys :
          token = config.api_keys[i].secret <=> Presented(config.api_keys[i].secret)
    <3>1. \A i \in DOMAIN config.api_keys : config.api_keys[i] \in ApiKeyConfig
      BY <2>1
    <3>2. \A i \in DOMAIN config.api_keys : config.api_keys[i].secret \in Tokens
      BY <3>1 DEF ApiKeyConfig
    <3> QED  BY <2>1, <3>2, TokenPresented DEF Presented
  <2>3. CASE Authenticated
    <3>1. Authenticate
      BY <1>1, <2>3, DecidedByAuthenticate DEF Authenticated
    <3>2. result.code = "ok" /\ auth'.key_id = result.key.id
      BY <2>3, <3>1 DEF Authenticate, Authenticated
    <3> HIDE DEF result, token, network
    <3>3. PICK i \in DOMAIN config.api_keys :
             result.key = config.api_keys[i] /\ config.api_keys[i].enabled
             /\ config.api_keys[i].secret = token
      BY <2>1, <3>2, AuthOutcome DEF result, token
    <3>4. Presented(config.api_keys[i].secret)
      BY <2>2, <3>3
    <3> QED  BY <2>3, <3>2, <3>3, <3>4 DEF ToSet, Authenticated, Refused
  <2>4. CASE Refused
    <3>1. Authenticate
      BY <1>1, <2>4, DecidedByAuthenticate DEF Refused
    <3>2. result.code # "ok"
      BY <2>4, <3>1 DEF Authenticate, Refused
    <3> HIDE DEF result, token, ip
    <3>3. \A i \in DOMAIN config.api_keys :
             config.api_keys[i].enabled /\ config.api_keys[i].secret = token =>
               \/ ~SourceAllowed(ip, network)
               \/ \E j \in DOMAIN config.api_keys \ {i} :
                     config.api_keys[j].secret = config.api_keys[i].secret
      BY <2>1, <3>2, AuthOutcome DEF result, token, ip
    <3>4. ~SourceAllowed(ip, network) =>
             /\ network.allowed_source_cidrs # {}
             /\ ip \notin UNION network.allowed_source_cidrs
      BY DEF SourceAllowed, ip_in_cidrs
    <3> QED  BY <2>2, <2>4, <3>3, <3>4 DEF Authenticated, Refused, ip
  <2> QED  BY <2>3, <2>4
<1> QED  BY <1>1, Invariant, PTL DEF Spec, KeyPresented

-----------------------------------------------------------------------------
(* Whom a message may go to. *)

\* Two addresses are the same when they differ in nothing but capitals.
LEMMA SameText ==
    ASSUME NEW a, NEW b
    PROVE  SameAddress(a, b) <=>
              /\ a.name = b.name /\ a.domain = b.domain
              /\ a.form = b.form \/ {a.form, b.form} = {"plain", "capitals"}
<1>1. Uncased(a.form) = Uncased(b.form) <=>
        a.form = b.form \/ {a.form, b.form} = {"plain", "capitals"}
  BY DEF Uncased
<1> QED  BY <1>1 DEF SameAddress

\* A valid recipient satisfies the global list, and the caller's entry where it is
\* found: its list of addresses in one place and its domains in another.
LEMMA PolicyHolds ==
    ASSUME NEW keys \in Seq(ApiKeyConfig), NEW mail \in MailConfig, NEW id,
           NEW address \in MailAddress,
           check_recipient_domain_or_address(address, mail, keys, id)
    PROVE  /\ mail.allowed_recipient_domains # {} =>
                 address.domain \in mail.allowed_recipient_domains
           /\ \/ \A i \in DOMAIN keys : keys[i].id # id
              \/ \E i \in DOMAIN keys : keys[i].id = id /\ Permits(keys[i], address)
<1> DEFINE found == find_key(keys, id)
<1>1. /\ found # <<>> => address_permitted_for_key(Head(found), address)
      /\ DomainPermitted(mail.allowed_recipient_domains, address.domain)
      /\ found # <<>> =>
            DomainPermitted(Head(found).allowed_recipient_domains, address.domain)
  BY DEF check_recipient_domain_or_address, check_recipient_domain
<1>2. \/ found = <<>> /\ \A i \in DOMAIN keys : keys[i].id # id
      \/ \E i \in DOMAIN keys : keys[i].id = id /\ found = <<keys[i]>>
  BY FoundHasId
<1> HIDE DEF found
<1>3. mail.allowed_recipient_domains # {} => address.domain \in mail.allowed_recipient_domains
  BY <1>1 DEF DomainPermitted
<1>4. ASSUME NEW i \in DOMAIN keys, keys[i].id = id, found = <<keys[i]>>
      PROVE  Permits(keys[i], address)
  <2>1. found # <<>> /\ Head(found) = keys[i]
    BY <1>4
  <2>2. /\ address_permitted_for_key(keys[i], address)
        /\ DomainPermitted(keys[i].allowed_recipient_domains, address.domain)
    BY <1>1, <2>1
  <2> QED  BY <2>2, SameText DEF address_permitted_for_key, DomainPermitted, Permits
<1> QED  BY <1>2, <1>3, <1>4

\* No message is built for a recipient, a copy included, that the lists in force or
\* those of the caller's entry do not allow (check_recipient_domain_or_address).
THEOREM RecipientsAllowed == Spec => RecipientsPermitted
<1> DEFINE Permitted ==
      Handled /\ outcome' = "built" =>
        \A address \in Recipients(request.payload) :
            /\ config.mail.allowed_recipient_domains # {} =>
                  address.domain \in config.mail.allowed_recipient_domains
            /\ \/ \E key \in ToSet(config.api_keys) :
                     key.id = auth.key_id /\ Permits(key, address)
               \/ \A key \in ToSet(config.api_keys) : key.id # auth.key_id
            /\ auth.entry \in ToSet(config.api_keys) /\ DifferentIds(config.api_keys) =>
                  Permits(auth.entry, address)
<1>1. ASSUME IInv, [Next]_vars PROVE Permitted
  <2> SUFFICES ASSUME Handled, outcome' = "built", NEW address \in Recipients(request.payload)
               PROVE  /\ config.mail.allowed_recipient_domains # {} =>
                            address.domain \in config.mail.allowed_recipient_domains
                      /\ \/ \E key \in ToSet(config.api_keys) :
                               key.id = auth.key_id /\ Permits(key, address)
                         \/ \A key \in ToSet(config.api_keys) : key.id # auth.key_id
                      /\ auth.entry \in ToSet(config.api_keys) /\ DifferentIds(config.api_keys) =>
                            Permits(auth.entry, address)
    OBVIOUS
  <2> DEFINE keys == config.api_keys
             mail == config.mail
             id == auth.key_id
  <2>1. /\ request.payload \in MailRequest /\ keys \in Seq(ApiKeyConfig) /\ mail \in MailConfig
        /\ id = auth.entry.id
    BY <1>1, ConfigTypes, RequestTypes DEF IInv, TypeOK, ContextOfEntry, Handled
  <2>2. address \in MailAddress
    <3>1. request.payload.to \in Seq(MailAddress) /\ request.payload.cc \in Seq(MailAddress)
      BY <2>1 DEF MailRequest
    <3> QED  BY <3>1 DEF Recipients, ToSet
  <2>3. Handle
    BY <1>1 DEF Handled, Next, vars, Reload, Authenticate
  <2>4. validate_mail_request(request.payload, mail, keys, id) = "valid"
    BY <1>1, <2>3, HandleOutcome
  <2>5. check_recipient_domain_or_address(address, mail, keys, id)
    BY <2>4 DEF validate_mail_request, RecipientsValid
  <2> HIDE DEF keys, mail, id
  <2>6. /\ mail.allowed_recipient_domains # {} => address.domain \in mail.allowed_recipient_domains
        /\ \/ \A i \in DOMAIN keys : keys[i].id # id
           \/ \E i \in DOMAIN keys : keys[i].id = id /\ Permits(keys[i], address)
    BY <2>1, <2>2, <2>5, PolicyHolds
  <2>7. \/ \E key \in ToSet(keys) : key.id = id /\ Permits(key, address)
        \/ \A key \in ToSet(keys) : key.id # id
    BY <2>6 DEF ToSet
  <2>8. ASSUME auth.entry \in ToSet(keys), DifferentIds(keys)
        PROVE  Permits(auth.entry, address)
    <3>1. PICK j \in DOMAIN keys : auth.entry = keys[j]
      BY <2>8 DEF ToSet
    <3>2. PICK i \in DOMAIN keys : keys[i].id = id /\ Permits(keys[i], address)
      BY <2>1, <2>6, <3>1
    <3>3. i = j
      BY <2>1, <2>8, <3>1, <3>2 DEF DifferentIds
    <3> QED  BY <3>1, <3>2, <3>3
  <2> QED  BY <2>6, <2>7, <2>8 DEF keys, mail, id
<1> QED  BY <1>1, Invariant, PTL DEF Spec, RecipientsPermitted

-----------------------------------------------------------------------------
(* The size of an attachment. *)

\* The check before decoding refuses no file that the limit allows, whatever the
\* rounding, and lets at most six bytes too many through to the decoder.
THEOREM EncodedFits ==
    \A n, limit \in Nat :
        /\ n <= limit => Encoded(n) <= MaxEncoded(limit)
        /\ Encoded(n) <= MaxEncoded(limit) => n <= limit + 6
BY DEF Encoded, MaxEncoded

-----------------------------------------------------------------------------
(* Sums over the places of a sequence. *)

\* A family of subsets of a finite set has a member none of whose elements can be taken
\* away: what holds of a set whenever it holds of its smaller parts holds of all.
LEMMA SmallestMember ==
    ASSUME NEW D, IsFiniteSet(D), NEW B \in SUBSET SUBSET D, B # {}
    PROVE  \E s \in B : \A x \in s : s \ {x} \notin B
<1> DEFINE sizes == {Cardinality(s) : s \in B}
<1>1. \A s \in SUBSET D : IsFiniteSet(s) /\ Cardinality(s) \in Nat
  BY FS_Subset, FS_CardinalityType
<1>2. sizes \in SUBSET Nat /\ sizes # {}
  BY <1>1
<1>3. PICK n \in sizes : \A m \in sizes : n <= m
  BY <1>2, LeastExists
<1>4. PICK s \in B : n = Cardinality(s)
  OBVIOUS
<1>5. ASSUME NEW x \in s, s \ {x} \in B PROVE FALSE
  <2>1. Cardinality(s \ {x}) = Cardinality(s) - 1
    BY <1>1, FS_RemoveElement
  <2>2. n <= Cardinality(s \ {x})
    BY <1>3, <1>5
  <2> QED  BY <1>1, <1>4, <2>1, <2>2
<1> QED  BY <1>5

\* it[s] is the sum of the weights of the elements of s, whichever is added last.
Additive(it, weight, D) ==
    /\ it \in [SUBSET D -> Nat]
    /\ it[{}] = 0
    /\ \A s \in SUBSET D : \A z \in s : it[s] = it[s \ {z}] + weight[z]

\* With a sum over a set there is one over the set and another element.
LEMMA SumExtends ==
    ASSUME NEW D, NEW weight \in [D -> Nat], NEW s \in SUBSET D, NEW x \in s,
           NEW it, Additive(it, weight, s \ {x})
    PROVE  \E more : Additive(more, weight, s)
<1> DEFINE more == [t \in SUBSET s |-> IF x \in t THEN it[t \ {x}] + weight[x] ELSE it[t]]
<1>1. \A t \in SUBSET s : t \ {x} \in SUBSET (s \ {x}) /\ (x \notin t => t \in SUBSET (s \ {x}))
  OBVIOUS
<1>2. \A t \in SUBSET (s \ {x}) : it[t] \in Nat
  BY DEF Additive
<1>3. weight[x] \in Nat
  OBVIOUS
<1>4. more \in [SUBSET s -> Nat]
  <2>1. ASSUME NEW t \in SUBSET s
        PROVE  (IF x \in t THEN it[t \ {x}] + weight[x] ELSE it[t]) \in Nat
    BY <1>1, <1>2, <1>3
  <2> QED  BY <2>1
<1>5. more[{}] = 0
  BY DEF Additive
<1>6. ASSUME NEW t \in SUBSET s, NEW z \in t PROVE more[t] = more[t \ {z}] + weight[z]
  <2> DEFINE u == t \ {z}
  <2>1. u \in SUBSET s /\ weight[z] \in Nat
    OBVIOUS
  <2>2. CASE z = x
    <3>1. x \notin u /\ more[u] = it[t \ {x}] /\ more[t] = it[t \ {x}] + weight[x]
      BY <2>1, <2>2
    <3> QED  BY <2>2, <3>1
  <2>3. CASE z # x /\ x \notin t
    <3>1. more[t] = it[t] /\ more[u] = it[u]
      BY <2>1, <2>3
    <3>2. it[t] = it[u] + weight[z]
      BY <1>1, <2>3 DEF Additive
    <3> QED  BY <3>1, <3>2
  <2>4. CASE z # x /\ x \in t
    <3> DEFINE v == t \ {x}
    <3>1. more[t] = it[v] + weight[x] /\ more[u] = it[u \ {x}] + weight[x]
      BY <2>1, <2>4
    <3>2. u \ {x} = v \ {z} /\ z \in v /\ v \in SUBSET (s \ {x})
      BY <2>4
    <3>3. it[v] = it[v \ {z}] + weight[z]
      BY <3>2 DEF Additive
    <3>4. it[v \ {z}] \in Nat
      BY <1>2, <3>2
    <3> HIDE DEF more, u, v
    <3> DEFINE rest == it[v \ {z}]
    <3>5. more[t] = rest + weight[z] + weight[x] /\ more[u] = rest + weight[x]
      BY <3>1, <3>2, <3>3
    <3> HIDE DEF rest
    <3>6. more[t] = more[u] + weight[z]
      BY <1>3, <2>1, <3>4, <3>5 DEF rest
    <3> QED  BY <3>6 DEF u
  <2> QED  BY <2>2, <2>3, <2>4
<1> HIDE DEF more
<1>7. Additive(more, weight, s)
  BY <1>4, <1>5, <1>6 DEF Additive
<1> QED  BY <1>7

\* There is a sum.
LEMMA SumExists ==
    ASSUME NEW D, IsFiniteSet(D), NEW weight \in [D -> Nat]
    PROVE  \E it : Additive(it, weight, D)
<1> DEFINE B == {s \in SUBSET D : ~ \E it : Additive(it, weight, s)}
<1>1. SUFFICES ASSUME ~ \E it : Additive(it, weight, D) PROVE FALSE
  OBVIOUS
<1>2. D \in B
  BY <1>1
<1>3. PICK s \in B : \A x \in s : s \ {x} \notin B
  <2> HIDE DEF B
  <2>1. B \in SUBSET SUBSET D
    BY Zenon DEF B
  <2> QED  BY <1>2, <2>1, SmallestMember
<1>4. CASE s = {}
  <2> DEFINE it == [t \in SUBSET {} |-> 0]
  <2>1. it \in [SUBSET {} -> Nat] /\ it[{}] = 0 /\ \A t \in SUBSET {} : t = {}
    OBVIOUS
  <2> HIDE DEF it
  <2>2. Additive(it, weight, {})
    BY <2>1 DEF Additive
  <2> QED  BY <1>4, <2>2
<1>5. CASE s # {}
  <2>1. PICK x : x \in s
    BY <1>5
  <2>2. PICK it : Additive(it, weight, s \ {x})
    BY <1>3, <2>1
  <2> QED  BY <2>2, SumExtends
<1> QED  BY <1>4, <1>5

\* f[s] takes some element of s for the last one.
AddsUp(f, weight, D) ==
    /\ f[{}] = 0
    /\ \A s \in SUBSET D : s # {} =>
          \E x \in s : \/ f[s] = f[s \ {x}] + weight[x]
                      \/ f[s] = weight[x] + f[s \ {x}]

\* Sums that agree on the weights agree: whatever is folded from whichever end.
LEMMA SumUnique ==
    ASSUME NEW D, IsFiniteSet(D), NEW weight \in [D -> Nat], NEW it, Additive(it, weight, D),
           NEW f, AddsUp(f, weight, D)
    PROVE  \A s \in SUBSET D : f[s] = it[s]
<1> DEFINE B == {s \in SUBSET D : f[s] # it[s]}
<1>1. SUFFICES ASSUME B # {} PROVE FALSE
  OBVIOUS
<1>2. PICK s \in B : \A x \in s : s \ {x} \notin B
  <2> HIDE DEF B
  <2>1. B \in SUBSET SUBSET D
    BY Zenon DEF B
  <2> QED  BY <1>1, <2>1, SmallestMember
<1>3. s # {}
  BY DEF Additive, AddsUp
<1>4. PICK x \in s : \/ f[s] = f[s \ {x}] + weight[x]
                     \/ f[s] = weight[x] + f[s \ {x}]
  BY <1>3 DEF AddsUp
<1>5. f[s \ {x}] = it[s \ {x}]
  BY <1>2
<1>6. it[s] = it[s \ {x}] + weight[x] /\ it[s \ {x}] \in Nat /\ weight[x] \in Nat
  BY DEF Additive
<1> QED  BY <1>4, <1>5, <1>6

\* A part weighs no more than the whole.
LEMMA SumMonotone ==
    ASSUME NEW D, IsFiniteSet(D), NEW weight \in [D -> Nat], NEW it, Additive(it, weight, D),
           NEW part \in SUBSET D
    PROVE  it[part] <= it[D]
<1> DEFINE B == {s \in SUBSET D : part \subseteq s /\ ~(it[part] <= it[s])}
<1>1. SUFFICES ASSUME ~(it[part] <= it[D]) PROVE FALSE
  OBVIOUS
<1>2. PICK s \in B : \A x \in s : s \ {x} \notin B
  <2>1. D \in B
    BY <1>1
  <2> HIDE DEF B
  <2>2. B \in SUBSET SUBSET D
    BY Zenon DEF B
  <2> QED  BY <2>1, <2>2, SmallestMember
<1>3. it[part] \in Nat
  BY DEF Additive
<1>4. PICK x \in s : x \notin part
  BY <1>3
<1>5. it[part] <= it[s \ {x}]
  BY <1>2, <1>4
<1>6. it[s] = it[s \ {x}] + weight[x] /\ it[s \ {x}] \in Nat /\ weight[x] \in Nat
  BY DEF Additive
<1> QED  BY <1>3, <1>5, <1>6

-----------------------------------------------------------------------------
(* Limits. *)

Lengths(files) == [i \in DOMAIN files |-> files[i].length]

\* Lengths of files are numbers, and places in a sequence a finite set.
LEMMA LengthsTyped ==
    ASSUME NEW files \in Seq(Attachment)
    PROVE  /\ Len(files) \in Nat /\ DOMAIN files = 1 .. Len(files)
           /\ IsFiniteSet(DOMAIN files)
           /\ \A i \in DOMAIN files : files[i] \in Attachment /\ files[i].length \in Nat
           /\ Lengths(files) \in [DOMAIN files -> Nat]
<1>1. Len(files) \in Nat /\ DOMAIN files = 1 .. Len(files)
  OBVIOUS
<1>2. IsFiniteSet(DOMAIN files)
  BY <1>1, FS_Interval
<1>3. \A i \in DOMAIN files : files[i] \in Attachment
  OBVIOUS
<1>4. \A i \in DOMAIN files : files[i].length \in Nat
  BY <1>3 DEF Attachment
<1> QED  BY <1>1, <1>2, <1>3, <1>4 DEF Lengths

\* The lengths added up from the right, as the limit on the message is stated.
LEMMA FoldedRight ==
    ASSUME NEW files \in Seq(Attachment), NEW it, Additive(it, Lengths(files), DOMAIN files)
    PROVE  FoldRight(LAMBDA file, sum : file.length + sum, files, 0) = it[DOMAIN files]
<1> DEFINE D == DOMAIN files
           Step(f) == [s \in SUBSET D |-> IF s = {} THEN 0
                                          ELSE files[Min(s)].length + f[s \ {Min(s)}]]
           chosen == CHOOSE f : f = Step(f)
<1>1. FoldRight(LAMBDA file, sum : file.length + sum, files, 0) = chosen[D]
  BY DEF FoldRight, MapThenFoldSet
<1>2. \A s \in SUBSET D : s # {} => Min(s) \in s
  <2>1. \A s \in SUBSET D : s \in SUBSET Nat
    BY LengthsTyped
  <2> QED  BY <2>1, MinIn
<1>3. it = Step(it)
  <2>1. ASSUME NEW s \in SUBSET D, s # {} PROVE it[s] = files[Min(s)].length + it[s \ {Min(s)}]
    <3>1. Min(s) \in s /\ s \ {Min(s)} \in SUBSET D /\ Min(s) \in D
      BY <1>2, <2>1
    <3>2. it[s] = it[s \ {Min(s)}] + Lengths(files)[Min(s)]
      BY <3>1 DEF Additive
    <3>3. it[s \ {Min(s)}] \in Nat /\ files[Min(s)].length \in Nat
      BY <3>1, LengthsTyped DEF Additive
    <3>4. Lengths(files)[Min(s)] = files[Min(s)].length
      BY <3>1 DEF Lengths
    <3> QED  BY <3>2, <3>3, <3>4
  <2>2. \A s \in SUBSET D : it[s] = Step(it)[s]
    BY <2>1 DEF Additive
  <2> QED  BY <2>2 DEF Additive
<1>4. chosen = Step(chosen)
  <2>1. \E f : f = Step(f)
    BY <1>3
  <2> QED  BY <2>1
<1> HIDE DEF chosen
<1>5. chosen[{}] = 0
  BY <1>4
<1>6. ASSUME NEW s \in SUBSET D, s # {}
      PROVE  \E x \in s : chosen[s] = Lengths(files)[x] + chosen[s \ {x}]
  <2>1. Min(s) \in s /\ Min(s) \in D
    BY <1>2, <1>6
  <2>2. chosen[s] = files[Min(s)].length + chosen[s \ {Min(s)}]
    BY <1>4, <1>6
  <2>3. Lengths(files)[Min(s)] = files[Min(s)].length
    BY <2>1 DEF Lengths
  <2> QED  BY <2>1, <2>2, <2>3
<1> DEFINE weight == Lengths(files)
<1>7. \A s \in SUBSET D : chosen[s] = it[s]
  <2>1. IsFiniteSet(D) /\ weight \in [D -> Nat] /\ Additive(it, weight, D)
    BY LengthsTyped
  <2>2. AddsUp(chosen, weight, D)
    BY <1>5, <1>6 DEF AddsUp
  <2> HIDE DEF weight, D
  <2> QED  BY <2>1, <2>2, SumUnique
<1> QED  BY <1>1, <1>7

\* The running total after the first n files, as validate_attachments counts it.
LEMMA FoldedLeft ==
    ASSUME NEW files \in Seq(Attachment), NEW it, Additive(it, Lengths(files), DOMAIN files),
           NEW n \in 0 .. Len(files)
    PROVE  Total(files, n) = it[1 .. n]
<1> DEFINE first == SubSeq(files, 1, n)
           D == DOMAIN first
           Step(f) == [s \in SUBSET D |-> IF s = {} THEN 0
                                          ELSE f[s \ {Max(s)}] + first[Max(s)].length]
           chosen == CHOOSE f : f = Step(f)
           mine == [s \in SUBSET D |-> it[s]]
           weight == [i \in D |-> files[i].length]
<1>1. Total(files, n) = chosen[D]
  BY DEF Total, FoldLeft, MapThenFoldSet
<1>2. D = 1 .. n /\ n \in Nat /\ D \subseteq DOMAIN files /\ \A i \in D : first[i] = files[i]
  BY LengthsTyped
<1>3. /\ \A s \in SUBSET D : it[s] \in Nat /\ s \in SUBSET DOMAIN files
      /\ \A i \in D : files[i].length \in Nat /\ Lengths(files)[i] = files[i].length
  BY <1>2, LengthsTyped DEF Additive, Lengths
<1>4. weight \in [D -> Nat] /\ Additive(mine, weight, D)
  <2>1. ASSUME NEW s \in SUBSET D, NEW z \in s PROVE mine[s] = mine[s \ {z}] + weight[z]
    <3>1. it[s] = it[s \ {z}] + Lengths(files)[z]
      BY <1>3 DEF Additive
    <3> QED  BY <1>3, <3>1
  <2>2. mine \in [SUBSET D -> Nat] /\ mine[{}] = 0 /\ weight \in [D -> Nat]
    BY <1>3 DEF Additive
  <2> HIDE DEF mine, weight, D
  <2> QED  BY <2>1, <2>2 DEF Additive
<1>5. \A s \in SUBSET D : s # {} => Max(s) \in s
  BY <1>2, MaxIn
<1> HIDE DEF first, D
<1>6. mine = Step(mine)
  <2>1. ASSUME NEW s \in SUBSET D, s # {} PROVE mine[s] = mine[s \ {Max(s)}] + first[Max(s)].length
    <3>1. Max(s) \in s /\ Max(s) \in D
      BY <1>5, <2>1
    <3>2. weight[Max(s)] = first[Max(s)].length
      BY <1>2, <3>1
    <3> HIDE DEF mine, weight
    <3>3. mine[s] = mine[s \ {Max(s)}] + weight[Max(s)]
      BY <1>4, <3>1 DEF Additive
    <3> QED  BY <3>2, <3>3
  <2>2. mine[{}] = 0
    BY DEF Additive
  <2>3. \A s \in SUBSET D : mine[s] = Step(mine)[s]
    BY <2>1, <2>2
  <2> QED  BY <2>3
<1>7. chosen = Step(chosen)
  <2>1. \E f : f = Step(f)
    BY <1>6
  <2> QED  BY <2>1
<1> HIDE DEF chosen
<1>8. chosen[{}] = 0
  BY <1>7
<1>9. ASSUME NEW s \in SUBSET D, s # {}
      PROVE  \E x \in s : chosen[s] = chosen[s \ {x}] + weight[x]
  <2>1. Max(s) \in s /\ Max(s) \in D
    BY <1>5, <1>9
  <2>2. chosen[s] = chosen[s \ {Max(s)}] + first[Max(s)].length
    BY <1>7, <1>9
  <2>3. weight[Max(s)] = first[Max(s)].length
    BY <1>2, <2>1
  <2> QED  BY <2>1, <2>2, <2>3
<1>10. chosen[D] = mine[D]
  <2>1. IsFiniteSet(D)
    BY <1>2, FS_Interval
  <2>2. AddsUp(chosen, weight, D)
    BY <1>8, <1>9 DEF AddsUp
  <2> HIDE DEF mine, weight
  <2>3. \A s \in SUBSET D : chosen[s] = mine[s]
    BY <1>4, <2>1, <2>2, SumUnique
  <2> QED  BY <2>3
<1> QED  BY <1>1, <1>2, <1>10

\* Between one recipient and what the copies leave.
LEMMA CountedTogether ==
    \A to, cc, most \in Nat :
        to \in 1 .. (most - cc) <=> to > 0 /\ to + cc <= most
OBVIOUS

\* Only Handle takes a request from "authenticated" to "done".
LEMMA DecidedByHandle ==
    ASSUME IInv, [Next]_vars, Handled
    PROVE  Handle
BY DEF Handled, Next, vars, Reload, Authenticate

\* A total is within the limit when the sums of all first files are, and only then.
LEMMA TotalsWithin ==
    ASSUME NEW files \in Seq(Attachment), NEW limit \in Nat
    PROVE  (\A i \in DOMAIN files : Total(files, i) <= limit)
           <=> FoldRight(LAMBDA file, sum : file.length + sum, files, 0) <= limit
<1> DEFINE D == DOMAIN files
           whole == FoldRight(LAMBDA file, sum : file.length + sum, files, 0)
<1>1. PICK it : Additive(it, Lengths(files), D)
  BY LengthsTyped, SumExists
<1>2. Len(files) \in Nat /\ D = 1 .. Len(files)
  BY LengthsTyped
<1>3. \A n \in 0 .. Len(files) : Total(files, n) = it[1 .. n]
  BY <1>1, FoldedLeft
<1>4. whole = it[D]
  BY <1>1, FoldedRight
<1> HIDE DEF whole
<1>5. ASSUME NEW i \in D PROVE it[1 .. i] <= it[D] /\ it[1 .. i] \in Nat /\ it[D] \in Nat
  <2>1. 1 .. i \in SUBSET D /\ D \in SUBSET D
    BY <1>2
  <2> HIDE DEF D
  <2> QED  BY <1>1, <2>1, LengthsTyped, SumMonotone DEF Additive, D
<1>6. ASSUME whole <= limit, NEW i \in D PROVE Total(files, i) <= limit
  <2>1. Total(files, i) = it[1 .. i]
    BY <1>2, <1>3
  <2> QED  BY <1>4, <1>5, <1>6, <2>1
<1>7. ASSUME \A i \in D : Total(files, i) <= limit PROVE whole <= limit
  <2>1. CASE D = {}
    BY <1>1, <1>4, <2>1 DEF Additive
  <2>2. CASE D # {}
    <3>1. Len(files) \in D /\ Len(files) \in 0 .. Len(files)
      BY <1>2, <2>2
    <3>2. Total(files, Len(files)) = whole
      BY <1>2, <1>3, <1>4, <3>1
    <3> QED  BY <1>7, <3>1, <3>2
  <2> QED  BY <2>1, <2>2
<1> QED  BY <1>6, <1>7 DEF whole

\* What validate_attachments lets pass, but for what it asks of each file.
LEMMA FilesWithin ==
    ASSUME NEW payload \in MailRequest, NEW mail \in MailConfig
    PROVE  FilesValid(payload, mail) <=>
              /\ Len(payload.attachments) <= mail.max_attachments
              /\ \A i \in DOMAIN payload.attachments : FileValid(payload.attachments[i], mail)
              /\ mail.max_total_attachment_bytes # Absent =>
                    FoldRight(LAMBDA file, sum : file.length + sum, payload.attachments, 0)
                        <= mail.max_total_attachment_bytes
<1> DEFINE files == payload.attachments
           limit == mail.max_total_attachment_bytes
<1>1. files \in Seq(Attachment) /\ limit \in Nat \cup {Absent}
  BY DEF MailRequest, MailConfig
<1>2. CASE limit = Absent
  BY <1>2 DEF FilesValid
<1>3. CASE limit # Absent
  <2>1. limit \in Nat
    BY <1>1, <1>3
  <2>2. (\A i \in DOMAIN files : Total(files, i) <= limit)
        <=> FoldRight(LAMBDA file, sum : file.length + sum, files, 0) <= limit
    BY <1>1, <2>1, TotalsWithin
  <2> QED  BY <1>3, <2>2 DEF FilesValid
<1> QED  BY <1>2, <1>3

\* What validate_subject, validate_body and validate_display_name let pass: texts that
\* are within their limits and of the right characters.
LEMMA TextsWithin ==
    ASSUME NEW payload \in MailRequest, NEW mail
    PROVE  TextsValid(payload, mail) <=>
              /\ payload.subject.length <= mail.max_subject_chars
              /\ payload.body.length <= mail.max_body_bytes
              /\ payload.body_html # Absent => payload.body_html.length <= mail.max_body_bytes
              /\ payload.subject.chars \in {"plain", "path"}
              /\ payload.body.chars # "nul"
              /\ payload.body_html # Absent => payload.body_html.chars # "nul"
              /\ payload.from_name.chars # "break"
              /\ \A address \in ToSet(payload.reply_to) : WellFormed(address)
<1>1. payload.subject.chars \in {"plain", "blank", "break", "control", "nul", "path"}
  BY DEF MailRequest, Text
<1> QED  BY <1>1 DEF TextsValid, validate_subject, validate_body, validate_display_name,
                     contains_header_injection, contains_control_chars

\* No message is built beyond a limit of its configuration, those on its texts and the
\* running total of the attachments included, or with a feature that is off (validate_mail_request).
THEOREM LimitsHold == Spec => LimitsKept
<1>1. ASSUME IInv, [Next]_vars, Handled, outcome' = "built"
      PROVE  WithinLimits(request.payload, config.mail)
  <2> DEFINE payload == request.payload
             mail == config.mail
  <2>1. payload \in MailRequest /\ mail \in MailConfig
    BY <1>1, ConfigTypes, RequestTypes DEF IInv, TypeOK
  <2>2. validate_mail_request(payload, mail, config.api_keys, auth.key_id) = "valid"
    BY <1>1, DecidedByHandle, HandleOutcome
  <2> HIDE DEF payload, mail
  <2>3. /\ ~FeatureOff(payload, mail) /\ FilesValid(payload, mail) /\ TextsValid(payload, mail)
        /\ RecipientsValid(payload, mail, config.api_keys, auth.key_id)
    BY <2>2 DEF validate_mail_request
  <2>4. Len(payload.to) \in 1 .. (mail.max_recipients - Len(payload.cc))
    <3>1. /\ Len(payload.to) \in Nat /\ Len(payload.cc) \in Nat /\ mail.max_recipients \in Nat
          /\ payload.to # <<>> => Len(payload.to) > 0
      BY <2>1 DEF MailRequest, MailConfig
    <3>2. Len(payload.to) > 0 /\ Len(payload.to) + Len(payload.cc) <= mail.max_recipients
      BY <2>3, <3>1 DEF RecipientsValid
    <3> QED  BY <3>1, <3>2, CountedTogether
  <2>5. /\ Len(payload.attachments) <= mail.max_attachments
        /\ \A i \in DOMAIN payload.attachments :
              payload.attachments[i].length <= mail.max_attachment_bytes
        /\ mail.max_total_attachment_bytes # Absent =>
              FoldRight(LAMBDA file, sum : file.length + sum, payload.attachments, 0)
                  <= mail.max_total_attachment_bytes
    BY <2>1, <2>3, FilesWithin DEF FileValid
  <2>6. /\ payload.body_html # Absent => mail.allow_html_body
        /\ payload.attachments # <<>> => mail.allow_attachments
    BY <2>3 DEF FeatureOff
  <2>7. /\ payload.subject.length <= mail.max_subject_chars
        /\ payload.body.length <= mail.max_body_bytes
        /\ payload.body_html # Absent => payload.body_html.length <= mail.max_body_bytes
    BY <2>1, <2>3, TextsWithin
  <2>8. WithinLimits(payload, mail)
    BY <2>4, <2>5, <2>6, <2>7 DEF WithinLimits
  <2> QED  BY <2>8 DEF payload, mail
<1>2. IInv /\ [Next]_vars =>
         (Handled /\ outcome' = "built" => WithinLimits(request.payload, config.mail))
  BY <1>1
<1> QED  BY <1>2, Invariant, PTL DEF Spec, LimitsKept

\* What the policy lets pass: what the global list and every list of the caller's entry
\* allow, if ids are not shared or whichever entry is found.
LEMMA PolicyLetsPass ==
    ASSUME NEW keys \in Seq(ApiKeyConfig), NEW mail \in MailConfig, NEW id, NEW address,
           mail.allowed_recipient_domains # {} =>
              address.domain \in mail.allowed_recipient_domains,
           \A key \in ToSet(keys) : key.id = id => Permits(key, address)
    PROVE  check_recipient_domain_or_address(address, mail, keys, id)
<1> DEFINE found == find_key(keys, id)
<1>1. \/ found = <<>>
      \/ \E i \in DOMAIN keys : keys[i].id = id /\ found = <<keys[i]>>
  BY FoundHasId
<1>2. DomainPermitted(mail.allowed_recipient_domains, address.domain)
  BY DEF DomainPermitted
<1> HIDE DEF found
<1>3. ASSUME found # <<>>
      PROVE  /\ address_permitted_for_key(Head(found), address)
             /\ DomainPermitted(Head(found).allowed_recipient_domains, address.domain)
  <2>1. PICK i \in DOMAIN keys : keys[i].id = id /\ found = <<keys[i]>>
    BY <1>1, <1>3
  <2>2. Head(found) = keys[i] /\ keys[i] \in ToSet(keys)
    BY <2>1 DEF ToSet
  <2>3. Permits(keys[i], address)
    BY <2>1, <2>2
  <2> QED  BY <2>2, <2>3, SameText DEF Permits, address_permitted_for_key, DomainPermitted
<1> QED  BY <1>2, <1>3
         DEF found, check_recipient_domain_or_address, check_recipient_domain

\* Of a legible message, each file that is within the limit is accepted: also by the
\* check made before the file is decoded.
LEMMA LegibleFilesPass ==
    ASSUME NEW payload \in MailRequest, NEW mail \in MailConfig, Legible(payload),
           NEW i \in DOMAIN payload.attachments,
           payload.attachments[i].length <= mail.max_attachment_bytes
    PROVE  FileValid(payload.attachments[i], mail)
<1> DEFINE file == payload.attachments[i]
<1>1. file \in Attachment /\ mail.max_attachment_bytes \in Nat
  BY DEF MailRequest, MailConfig
<1>2. Encoded(file.length) <= MaxEncoded(mail.max_attachment_bytes)
  BY <1>1, EncodedFits DEF Attachment
<1>3. /\ file.base64 /\ file.content_type # "bad"
      /\ file.filename.chars \in {"plain", "blank", "control"}
      /\ file.filename.length \in 1..255
  BY DEF Legible
<1> QED  BY <1>2, <1>3 DEF FileValid, contains_header_injection

\* Whoever stays within what is configured gets through: the checks refuse no more than
\* the limits, the policy and legibility ask for (validate_mail_request).
THEOREM RefusalsJust == Spec => RefusedForCause
<1>1. ASSUME IInv, [Next]_vars, Handled, outcome' \in {"feature_disabled", "validation_failed"},
             WithinLimits(request.payload, config.mail),
             Legible(request.payload),
             \A address \in Recipients(request.payload) :
                /\ config.mail.allowed_recipient_domains # {} =>
                      address.domain \in config.mail.allowed_recipient_domains
                /\ \A key \in ToSet(config.api_keys) :
                      key.id = auth.key_id => Permits(key, address)
      PROVE  FALSE
  <2> DEFINE payload == request.payload
             mail == config.mail
             keys == config.api_keys
             id == auth.key_id
  <2>1. payload \in MailRequest /\ mail \in MailConfig /\ keys \in Seq(ApiKeyConfig)
    BY <1>1, ConfigTypes, RequestTypes DEF IInv, TypeOK
  <2>2. Handle
    BY <1>1, DecidedByHandle
  <2>3. validate_mail_request(payload, mail, keys, id) # "valid"
    BY <1>1, <2>2 DEF Handle, build_message
  <2>4. \A address \in Recipients(payload) :
           check_recipient_domain_or_address(address, mail, keys, id)
    BY <1>1, <2>1, PolicyLetsPass
  <2>5. WithinLimits(payload, mail) /\ Legible(payload)
    BY <1>1
  <2> HIDE DEF payload, mail, keys, id
  <2>6. ~FeatureOff(payload, mail)
    BY <2>5 DEF WithinLimits, FeatureOff
  <2>7. RecipientsValid(payload, mail, keys, id)
    <3>1. /\ Len(payload.to) \in Nat /\ Len(payload.cc) \in Nat /\ mail.max_recipients \in Nat
          /\ Len(payload.to) > 0 => payload.to # <<>>
      BY <2>1 DEF MailRequest, MailConfig
    <3>2. \A address \in Recipients(payload) : WellFormed(address)
      BY <2>5 DEF Legible
    <3>3. Len(payload.to) \in 1 .. (mail.max_recipients - Len(payload.cc))
      BY <2>5 DEF WithinLimits
    <3>4. payload.to # <<>> /\ Len(payload.to) + Len(payload.cc) <= mail.max_recipients
      BY <3>1, <3>3, CountedTogether
    <3> QED  BY <2>4, <3>2, <3>4 DEF RecipientsValid
  <2>8. FilesValid(payload, mail)
    <3>1. \A i \in DOMAIN payload.attachments : FileValid(payload.attachments[i], mail)
      BY <2>1, <2>5, LegibleFilesPass DEF WithinLimits
    <3> QED  BY <2>1, <2>5, <3>1, FilesWithin DEF WithinLimits
  <2>9. TextsValid(payload, mail)
    BY <2>1, <2>5, TextsWithin DEF WithinLimits, Legible
  <2> QED  BY <2>3, <2>6, <2>7, <2>8, <2>9 DEF validate_mail_request
<1>2. IInv /\ [Next]_vars =>
        (Handled /\ outcome' \in {"feature_disabled", "validation_failed"} =>
            \/ ~WithinLimits(request.payload, config.mail)
            \/ ~Legible(request.payload)
            \/ \E address \in Recipients(request.payload) :
                  \/ /\ config.mail.allowed_recipient_domains # {}
                     /\ address.domain \notin config.mail.allowed_recipient_domains
                  \/ \E key \in ToSet(config.api_keys) :
                        key.id = auth.key_id /\ ~Permits(key, address))
  BY <1>1
<1> QED  BY <1>2, Invariant, PTL DEF Spec, RefusedForCause
=============================================================================
