----------------------------- MODULE RateLimiter -----------------------------
(***************************************************************************)
(* The three-tier token bucket limiter (rate_limit.rs): one bucket for the *)
(* process, one per source IP in a table of bounded size, one per API key. *)
(* A request asks the tiers in turn (api/send.rs), each behind a mutex of  *)
(* its own, so other requests come in between; a tier that refuses ends    *)
(* the request, and what earlier tiers took is not given back.             *)
(*                                                                         *)
(* A tick is one second and a token is Minute units, so that a rate of n   *)
(* per minute adds n units a tick: exact where the code computes in f64.   *)
(***************************************************************************)
EXTENDS Integers, Sequences, FiniteSets

CONSTANTS
    Requests,       \* requests that are asking at the same time
    IPs,            \* resolved client addresses
    ApiKeys,        \* key ids
    Global,         \* the name of the one bucket of the global tier
    Minute,         \* ticks in a minute, and units in a token
    GlobalRate, IpRate, KeyRate,    \* [rate_limit] *_per_min
    TierBurst,      \* *_burst in the file, the same for the three tiers; Unset if absent
    LegacyBurst,    \* burst_size, 0 where the file has none
    DefaultBurst,   \* default_*_burst()
    TableSize,      \* ip_table_size; 0 is no limit
    Overrides,      \* settings [rate, burst] an API key may be given
    Unset,          \* a field the file does not have
    Absent,         \* no bucket, no request, no promise
    MaxTime         \* bound: the clock stops here

Names == {Global} \cup IPs \cup ApiKeys

\* effective_*_burst: the tier's own value, else the legacy one, else the default.
\* An absent tier field has been given its default by then (serde).
EffectiveBurst ==
    IF TierBurst = Unset THEN DefaultBurst
    ELSE IF TierBurst > 0 THEN TierBurst
    ELSE IF LegacyBurst > 0 THEN LegacyBurst ELSE DefaultBurst

Setting == [rate : Nat \cup {Unset}, burst : Nat]

Bucket == [capacity : Nat, rate : Nat, tokens : Nat, refilled : Nat]

ASSUME LimiterAssumption ==
    /\ Minute \in Nat \ {0}
    /\ GlobalRate \in Nat \ {0} /\ IpRate \in Nat \ {0} /\ KeyRate \in Nat
    /\ TierBurst \in Nat \cup {Unset} /\ LegacyBurst \in Nat /\ DefaultBurst \in Nat \ {0}
    /\ TableSize \in Nat
    /\ IsFiniteSet(IPs)
    /\ Global \notin IPs \cup ApiKeys /\ IPs \cap ApiKeys = {}
    /\ Overrides # {} /\ Overrides \subseteq Setting
    /\ Unset \notin Nat
    /\ Absent \notin Bucket \cup Nat
    /\ MaxTime \in Nat

VARIABLES
    buckets,    \* buckets[n]: global, by_ip.map and by_key; Absent where a map has no entry
    order,      \* by_ip.order
    setting,    \* setting[k]: k's entry in security.api_keys, replaced on SIGHUP
    asking,     \* asking[q]: where request q is with its three checks
    clock,      \* Instant::now()
    since,      \* auxiliary: when an observer began to count
    granted,    \* auxiliary: granted[n]: tokens n's bucket gave since then
    retryAt     \* auxiliary: retryAt[n]: what the last caller n turned away was told

vars == <<buckets, order, setting, asking, clock, since, granted, retryAt>>

Present == {ip \in IPs : buckets[ip] # Absent}

\* A request at a tier: who asks, and the key's setting its AuthContext carries.
Asking == [tier : {"global", "ip", "key"}, ip : IPs, key : ApiKeys, setting : Setting]

Promise == [at : Nat, wait : Nat]

TypeOK ==
    /\ buckets \in [Names -> Bucket \cup {Absent}]
    /\ order \in Seq(IPs)
    /\ setting \in [ApiKeys -> Setting]
    /\ asking \in [Requests -> Asking \cup {Absent}]
    /\ clock \in Nat
    /\ since \in 0 .. clock
    /\ granted \in [Names -> Nat]
    /\ retryAt \in [Names -> Promise \cup {Absent}]

-----------------------------------------------------------------------------
(* TokenBucket. *)

NewBucket(rate, burst) ==
    [capacity |-> burst * Minute, rate |-> rate, tokens |-> burst * Minute,
     refilled |-> clock]

\* Mutant of Level: the capacity is forgotten.
LevelUncapped(b) == b.tokens + (clock - b.refilled) * b.rate

\* The tokens refill leaves in b: what has accrued, up to the capacity.
Level(b) ==
    LET accrued == b.tokens + (clock - b.refilled) * b.rate IN
    IF accrued <= b.capacity THEN accrued ELSE b.capacity

\* Mutant of Wait: rounded down.
WaitFloor(b) ==
    LET seconds == (Minute - Level(b)) \div b.rate IN
    IF seconds >= 1 THEN seconds ELSE 1

\* Seconds until b holds a token again, rounded up, one at least.
Wait(b) ==
    LET missing == Minute - Level(b)
        seconds == (missing + b.rate - 1) \div b.rate
    IN  IF seconds >= 1 THEN seconds ELSE 1

\* Retry-After.  At rate zero the division gives infinity, u64::MAX seconds: no promise.
Told(b) == IF b.rate = 0 THEN Absent ELSE [at |-> clock + Wait(b), wait |-> Wait(b)]

\* try_consume's condition, after the refill.
HasToken(b) == Level(b) >= Minute

Init ==
    /\ clock = 0
    /\ buckets = [n \in Names |->
                    IF n = Global THEN NewBucket(GlobalRate, EffectiveBurst) ELSE Absent]
    /\ order = <<>>
    /\ setting \in [ApiKeys -> Overrides]
    /\ asking = [q \in Requests |-> Absent]
    /\ since = 0
    /\ granted = [n \in Names |-> 0]
    /\ retryAt = [n \in Names |-> Absent]

-----------------------------------------------------------------------------
(* The three checks of a request. *)

\* Authenticated: AuthContext carries the key's setting of this moment.
Arrive(q, ip, k) ==
    /\ asking[q] = Absent
    /\ asking' = [asking EXCEPT ![q] =
                    [tier |-> "global", ip |-> ip, key |-> k, setting |-> setting[k]]]
    /\ UNCHANGED <<buckets, order, setting, clock, since, granted, retryAt>>

At(q, tier) == asking[q] # Absent /\ asking[q].tier = tier

\* try_consume on n's bucket b, with the buckets in lost dropped: it gives a token
\* and q goes on to the next tier, or it refuses and q is answered.  The refill
\* is kept in both cases.
TryConsume(q, n, b, lost, next) ==
    /\ \/ /\ HasToken(b)
          /\ buckets' = [m \in Names |->
                IF m = n THEN [b EXCEPT !.tokens = Level(b) - Minute, !.refilled = clock]
                ELSE IF m \in lost THEN Absent ELSE buckets[m]]
          /\ granted' = [m \in Names |->
                IF m = n THEN granted[n] + 1 ELSE IF m \in lost THEN 0 ELSE granted[m]]
          /\ retryAt' = [m \in Names |->
                IF m \in lost \cup {n} THEN Absent ELSE retryAt[m]]
          /\ asking' = [asking EXCEPT ![q] = next]
       \/ /\ ~HasToken(b)
          /\ buckets' = [m \in Names |->
                IF m = n THEN [b EXCEPT !.tokens = Level(b), !.refilled = clock]
                ELSE IF m \in lost THEN Absent ELSE buckets[m]]
          /\ granted' = [m \in Names |-> IF m \in lost THEN 0 ELSE granted[m]]
          /\ retryAt' = [m \in Names |->
                IF m = n THEN Told(b) ELSE IF m \in lost THEN Absent ELSE retryAt[m]]
          /\ asking' = [asking EXCEPT ![q] = Absent]
    /\ UNCHANGED <<setting, clock, since>>

CheckGlobal(q) ==
    /\ At(q, "global")
    /\ TryConsume(q, Global, buckets[Global], {}, [asking[q] EXCEPT !.tier = "ip"])
    /\ UNCHANGED order

\* Mutant of Crowded: one address too many.
CrowdedLate(ip) ==
    /\ TableSize > 0
    /\ ip \notin Present
    /\ Cardinality(Present) > TableSize
    /\ order # <<>>

\* get_or_insert makes room for a new address: the one inserted longest ago goes.
Crowded(ip) ==
    /\ TableSize > 0
    /\ ip \notin Present
    /\ Cardinality(Present) >= TableSize
    /\ order # <<>>

CheckIp(q) ==
    /\ At(q, "ip")
    /\ LET ip == asking[q].ip
           lost == IF Crowded(ip) THEN {Head(order)} ELSE {}
           b == IF ip \in Present THEN buckets[ip] ELSE NewBucket(IpRate, EffectiveBurst)
       IN  /\ TryConsume(q, ip, b, lost, [asking[q] EXCEPT !.tier = "key"])
           /\ order' = IF ip \in Present THEN order
                       ELSE Append(IF Crowded(ip) THEN Tail(order) ELSE order, ip)

\* What the key's setting comes to: only None inherits the default rate, while a
\* burst of 0 inherits the default burst.
KeyBucket(s) ==
    NewBucket(IF s.rate = Unset THEN KeyRate ELSE s.rate,
              IF s.burst > 0 THEN s.burst ELSE EffectiveBurst)

\* The setting counts when the bucket is created; an existing bucket keeps its own.
CheckKey(q) ==
    /\ At(q, "key")
    /\ LET k == asking[q].key
           b == IF buckets[k] # Absent THEN buckets[k] ELSE KeyBucket(asking[q].setting)
       IN  TryConsume(q, k, b, {}, Absent)
    /\ UNCHANGED order

-----------------------------------------------------------------------------
\* SIGHUP: security.api_keys is replaced as a whole; the limiter is not told.
ReloadKeys ==
    /\ setting' \in [ApiKeys -> Overrides]
    /\ UNCHANGED <<buckets, order, asking, clock, since, granted, retryAt>>

Tick ==
    /\ clock < MaxTime
    /\ clock' = clock + 1
    /\ UNCHANGED <<buckets, order, setting, asking, since, granted, retryAt>>

\* Not in the code: somebody starts to count tokens, at any time.
StartCounting ==
    /\ since' = clock
    /\ granted' = [n \in Names |-> 0]
    /\ UNCHANGED <<buckets, order, setting, asking, clock, retryAt>>

Next ==
    \/ \E q \in Requests :
          \/ \E ip \in IPs, k \in ApiKeys : Arrive(q, ip, k)
          \/ CheckGlobal(q)
          \/ CheckIp(q)
          \/ CheckKey(q)
    \/ ReloadKeys
    \/ Tick
    \/ StartCounting

Spec == Init /\ [][Next]_vars

-----------------------------------------------------------------------------
(* Invariants. *)

\* The rate holds over every window, not just since start-up: whenever counting
\* began, a bucket has given at most its burst plus what accrued since then,
\* whatever requests of other tiers, addresses and keys did in between.
EveryWindowBounded ==
    \A n \in Names : buckets[n] # Absent =>
        granted[n] * Minute <= buckets[n].capacity + buckets[n].rate * (clock - since)

\* Retry-After is exact: a caller that was turned away and told to wait finds a
\* token then, unless somebody else took one in the meantime, and would not have
\* found it a second earlier (the wait of one second is a minimum).
RetryAfterExact ==
    \A n \in Names : retryAt[n] # Absent =>
        /\ buckets[n] # Absent
        /\ clock >= retryAt[n].at => Level(buckets[n]) >= Minute
        /\ clock + 1 <= retryAt[n].at /\ retryAt[n].wait > 1 => Level(buckets[n]) < Minute

\* by_ip stays within ip_table_size, which takes its two halves, the map and the
\* queue of insertions, to agree: each address in the map is queued exactly once.
IpTableBounded ==
    /\ TableSize > 0 => Cardinality(Present) <= TableSize
    /\ Len(order) = Cardinality(Present)
    /\ {order[i] : i \in 1 .. Len(order)} = Present

(* A claim made elsewhere about the limiter. *)

\* configuration.md: rate_limit_per_min = 0 means the default rate.
ZeroMeansDefault ==
    \A k \in ApiKeys : buckets[k] # Absent => buckets[k].rate # 0
=============================================================================
