---------------------------- MODULE Authentication ----------------------------
(***************************************************************************)
(* The AuthContext extractor (auth.rs): which address a request comes      *)
(* from, which token it presents, and which API key that token is.         *)
(* A network is the set of its addresses; a token is its secret.           *)
(***************************************************************************)
EXTENDS Naturals, Sequences, SequencesExt

CONSTANTS
    IpAddrs,    \* addresses
    Tokens,     \* secrets of keys and what clients send in their place
    KeyIds,     \* ids of API keys
    Malformed,  \* an address, or an Authorization header, that does not parse
    Absent      \* no such header

\* The headers the extractor reads; one with bytes outside ASCII counts as absent.
\* Forwarded is a list of items, each the list of its `for' parameters in order.
Headers == [forwarded : Seq(Seq(IpAddrs \cup {Malformed})),
            xForwardedFor : Seq(IpAddrs \cup {Malformed}),
            authorization : Tokens \cup {Malformed, Absent},
            xApiKey : Tokens \cup {Absent}]

\* Addresses and proxies of [security].
Network == [trust_proxy_headers : BOOLEAN,
            trusted_source_cidrs : SUBSET SUBSET IpAddrs,
            allowed_source_cidrs : SUBSET SUBSET IpAddrs]

-----------------------------------------------------------------------------
(* The address. *)

ip_in_cidrs(ip, cidrs) == \E net \in cidrs : ip \in net

\* The first address among the values of a header, if any.
FirstAddress(values) ==
    LET i == SelectInSeq(values, LAMBDA v : v \in IpAddrs)
    IN  IF i = 0 THEN <<>> ELSE <<values[i]>>

\* The first item of Forwarded and the first address it gives.
parse_forwarded_for(headers) ==
    IF headers.forwarded = <<>> THEN <<>> ELSE FirstAddress(Head(headers.forwarded))

\* The first entry of X-Forwarded-For, if it is an address; later ones do not count.
leftmost_forwarded_for(headers) ==
    IF headers.xForwardedFor = <<>> THEN <<>> ELSE FirstAddress(<<Head(headers.xForwardedFor)>>)

\* Forwarded before X-Forwarded-For before the peer.
resolve_client_ip(headers, peer, trusted) ==
    IF ip_in_cidrs(peer, trusted)
    THEN Head(parse_forwarded_for(headers) \o leftmost_forwarded_for(headers) \o <<peer>>)
    ELSE peer

\* Mutant of ClientIp: the peer need not be a trusted proxy.
ClientIpUnchecked(headers, peer, network) ==
    IF network.trust_proxy_headers
    THEN Head(parse_forwarded_for(headers) \o leftmost_forwarded_for(headers) \o <<peer>>)
    ELSE peer

ClientIp(headers, peer, network) ==
    IF network.trust_proxy_headers
    THEN resolve_client_ip(headers, peer, network.trusted_source_cidrs)
    ELSE peer

\* No list, no restriction.
SourceAllowed(ip, network) ==
    \/ network.allowed_source_cidrs = {}
    \/ ip_in_cidrs(ip, network.allowed_source_cidrs)

-----------------------------------------------------------------------------
(* The token and its key. *)

\* Authorization, if there, is the only header that counts, even if it is malformed.
extract_token(headers) ==
    IF headers.authorization = Absent THEN headers.xApiKey
    ELSE IF headers.authorization = Malformed THEN Absent
    ELSE headers.authorization

\* Mutant of find_matching_key: enabled is not looked at.
MatchDisabled(keys, token) ==
    LET i == SelectLastInSeq(keys, LAMBDA key : key.secret = token)
    IN  IF i = 0 THEN <<>> ELSE <<[keys[i] EXCEPT !.enabled = TRUE]>>

\* All keys are compared and the last that matches is it.
find_matching_key(keys, token) ==
    LET i == SelectLastInSeq(keys, LAMBDA key : key.secret = token)
    IN  IF i = 0 THEN <<>> ELSE <<keys[i]>>

Accepts(key) == [code |-> "ok", key |-> key]
Refuses(code) == [code |-> code]

\* from_request_parts: what becomes of a request, and the key it is taken for.
from_request_parts(headers, peer, network, keys) ==
    LET token == extract_token(headers)
        match == find_matching_key(keys, token)
    IN  IF ~SourceAllowed(ClientIp(headers, peer, network), network) THEN Refuses("forbidden")
        ELSE IF token = Absent THEN Refuses("unauthorized")
        ELSE IF match = <<>> THEN Refuses("forbidden")
        ELSE IF ~Head(match).enabled THEN Refuses("forbidden")
        ELSE Accepts(Head(match))
=============================================================================
