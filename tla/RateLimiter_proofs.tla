-------------------------- MODULE RateLimiter_proofs --------------------------
(***************************************************************************)
(* Proofs about the rate limiter: types, the bound on what a bucket gives  *)
(* in any window of time, the size of the address table and the truth of   *)
(* Retry-After, for all rates, bursts and numbers of requests, addresses   *)
(* and keys.                                                               *)
(***************************************************************************)
EXTENDS RateLimiter, FiniteSetTheorems, TLAPS

(* Buckets, without the state around them. *)

\* Level, at time t.
LevelAt(b, t) ==
    LET accrued == b.tokens + (t - b.refilled) * b.rate IN
    IF accrued <= b.capacity THEN accrued ELSE b.capacity

\* A bucket at time t that has given g tokens since time s: what it has given and
\* what it holds are covered by one capacity and what accrued since s.
Good(b, g, t, s) ==
    /\ b \in Bucket /\ g \in Nat
    /\ t \in Nat /\ s \in 0 .. t
    /\ b.refilled <= t
    /\ b.tokens <= b.capacity
    /\ g * Minute + LevelAt(b, t) <= b.capacity + b.rate * (t - s)

\* A product of naturals is a natural.
LEMMA Product ==
    ASSUME NEW a \in Nat, NEW c \in Nat
    PROVE  a * c \in Nat
OBVIOUS

\* One more of a factor.
LEMMA OneMore ==
    ASSUME NEW a \in Nat, NEW c \in Nat
    PROVE  (a + 1) * c = a * c + c /\ c * (a + 1) = c * a + c
OBVIOUS

\* The level by what the bucket held and how long ago it was refilled.
LEMMA LevelFromAge ==
    ASSUME NEW b, NEW t
    PROVE  LevelAt(b, t) = IF b.tokens + (t - b.refilled) * b.rate <= b.capacity
                           THEN b.tokens + (t - b.refilled) * b.rate ELSE b.capacity
BY DEF LevelAt

\* A bucket holds a natural number of units, at most its capacity.
LEMMA LevelType ==
    ASSUME NEW b \in Bucket, NEW t \in Nat, b.refilled <= t
    PROVE  LevelAt(b, t) \in Nat /\ LevelAt(b, t) <= b.capacity
<1>1. (t - b.refilled) * b.rate \in Nat
  BY Product DEF Bucket
<1> QED BY <1>1 DEF LevelAt, Bucket

\* b with n units at time t.
Filled(b, n, t) == [b EXCEPT !.tokens = n, !.refilled = t]

\* A bucket just filled or emptied to n units at time t holds n units.
LEMMA FilledLevel ==
    ASSUME NEW b \in Bucket, NEW t \in Nat, NEW n \in Nat, n <= b.capacity
    PROVE  /\ Filled(b, n, t) \in Bucket /\ LevelAt(Filled(b, n, t), t) = n
           /\ Filled(b, n, t).capacity = b.capacity /\ Filled(b, n, t).rate = b.rate
           /\ Filled(b, n, t).tokens = n /\ Filled(b, n, t).refilled = t
<1> DEFINE c == Filled(b, n, t)
<1>1. /\ c \in Bucket /\ c.capacity = b.capacity /\ c.rate = b.rate
      /\ c.tokens = n /\ c.refilled = t
  BY DEF Bucket, Filled
<1> HIDE DEF c
<1>2. (t - c.refilled) * c.rate = 0
  BY <1>1 DEF Bucket
<1>3. LevelAt(c, t) = n
  BY <1>1, <1>2 DEF LevelAt
<1> QED BY <1>1, <1>3 DEF c

\* A token given: one more is counted and one less is held.
LEMMA GoodGrant ==
    ASSUME NEW b, NEW g, NEW t, NEW s, Good(b, g, t, s), LevelAt(b, t) >= Minute
    PROVE  Good(Filled(b, LevelAt(b, t) - Minute, t), g + 1, t, s)
<1> DEFINE n == LevelAt(b, t) - Minute
<1>1. LevelAt(b, t) \in Nat /\ LevelAt(b, t) <= b.capacity
  BY LevelType DEF Good
<1>2. n \in Nat /\ n <= b.capacity /\ n + Minute = LevelAt(b, t)
  BY <1>1, LimiterAssumption DEF Good, Bucket
<1>3. (g + 1) * Minute + n = g * Minute + LevelAt(b, t)
  <2>1. g * Minute \in Nat /\ (g + 1) * Minute = g * Minute + Minute
    BY Product, OneMore, LimiterAssumption DEF Good
  <2> QED BY <1>1, <2>1, LimiterAssumption DEF Good
<1> HIDE DEF n
<1>4. /\ Filled(b, n, t) \in Bucket /\ LevelAt(Filled(b, n, t), t) = n
      /\ Filled(b, n, t).capacity = b.capacity /\ Filled(b, n, t).rate = b.rate
      /\ Filled(b, n, t).tokens = n /\ Filled(b, n, t).refilled = t
  BY <1>2, FilledLevel DEF Good
<1>5. Good(Filled(b, n, t), g + 1, t, s)
  BY <1>2, <1>3, <1>4 DEF Good
<1> QED BY <1>5 DEF n

\* A refill without a token taken changes nothing that counts.
LEMMA GoodRefill ==
    ASSUME NEW b, NEW g, NEW t, NEW s, Good(b, g, t, s)
    PROVE  Good(Filled(b, LevelAt(b, t), t), g, t, s)
<1> DEFINE n == LevelAt(b, t)
<1>1. n \in Nat /\ n <= b.capacity
  BY LevelType DEF Good
<1>2. Good(b, g, t, s) /\ n = LevelAt(b, t)
  OBVIOUS
<1> HIDE DEF n
<1>3. /\ Filled(b, n, t) \in Bucket /\ LevelAt(Filled(b, n, t), t) = n
      /\ Filled(b, n, t).capacity = b.capacity /\ Filled(b, n, t).rate = b.rate
      /\ Filled(b, n, t).tokens = n /\ Filled(b, n, t).refilled = t
  BY <1>1, FilledLevel DEF Good
<1>4. Good(Filled(b, n, t), g, t, s)
  BY <1>1, <1>2, <1>3 DEF Good
<1> QED BY <1>4 DEF n

\* Each tick adds at most the rate to the level and exactly the rate to the bound.
LEMMA GoodLater ==
    ASSUME NEW b, NEW g, NEW t, NEW s, Good(b, g, t, s)
    PROVE  Good(b, g, t + 1, s)
<1> DEFINE x == t - b.refilled
           y == t - s
<1>1. /\ x \in Nat /\ y \in Nat /\ b.rate \in Nat /\ b.capacity \in Nat /\ b.tokens \in Nat
      /\ t + 1 - b.refilled = x + 1 /\ t + 1 - s = y + 1
  BY DEF Good, Bucket
<1> HIDE DEF x, y
<1>2. /\ (x + 1) * b.rate = x * b.rate + b.rate
      /\ b.rate * (y + 1) = b.rate * y + b.rate
      /\ x * b.rate \in Nat /\ b.rate * y \in Nat
  <2>1. x * b.rate \in Nat /\ b.rate * y \in Nat
    BY <1>1, Product
  <2>2. (x + 1) * b.rate = x * b.rate + b.rate
    BY <1>1, OneMore
  <2>3. b.rate * (y + 1) = b.rate * y + b.rate
    BY <1>1, OneMore
  <2> QED BY <2>1, <2>2, <2>3
<1>3. LevelAt(b, t + 1) <= LevelAt(b, t) + b.rate
  <2> DEFINE accrued == b.tokens + x * b.rate
             later == b.tokens + (x + 1) * b.rate
  <2>1. accrued \in Nat /\ later = accrued + b.rate
    BY <1>1, <1>2
  <2>2. LevelAt(b, t) = IF accrued <= b.capacity THEN accrued ELSE b.capacity
    BY Zenon DEF LevelAt, x
  <2>3. LevelAt(b, t + 1) = IF later <= b.capacity THEN later ELSE b.capacity
    <3> DEFINE u == t + 1
    <3>1. u - b.refilled = x + 1
      BY <1>1 DEF Good, Bucket
    <3> HIDE DEF u
    <3>2. LevelAt(b, u) = IF b.tokens + (u - b.refilled) * b.rate <= b.capacity
                          THEN b.tokens + (u - b.refilled) * b.rate ELSE b.capacity
      BY LevelFromAge
    <3>3. LevelAt(b, u) = IF later <= b.capacity THEN later ELSE b.capacity
      BY <3>1, <3>2
    <3> QED BY <3>3 DEF u
  <2> HIDE DEF accrued, later
  <2> QED BY <1>1, <2>1, <2>2, <2>3
<1>4. LevelAt(b, t + 1) \in Nat /\ LevelAt(b, t) \in Nat /\ g * Minute \in Nat
  <2>1. t + 1 \in Nat /\ b.refilled <= t + 1 /\ b \in Bucket /\ t \in Nat /\ b.refilled <= t
    BY DEF Good, Bucket
  <2>2. LevelAt(b, t + 1) \in Nat /\ LevelAt(b, t) \in Nat
    BY <2>1, LevelType
  <2>3. g * Minute \in Nat
    BY Product, LimiterAssumption DEF Good
  <2> QED BY <2>2, <2>3
<1>5. g * Minute + LevelAt(b, t + 1) <= b.capacity + b.rate * (t + 1 - s)
  <2>1. g * Minute + LevelAt(b, t) <= b.capacity + b.rate * y
    BY DEF Good, y
  <2>2. b.rate * (t + 1 - s) = b.rate * y + b.rate
    BY <1>1, <1>2
  <2> HIDE DEF Good
  <2> QED BY <1>1, <1>2, <1>3, <1>4, <2>1, <2>2
<1> QED BY <1>5 DEF Good, Bucket

\* A bucket as TokenBucket::new makes it has given nothing and is full.
LEMMA GoodNew ==
    ASSUME NEW rate \in Nat, NEW burst \in Nat, NEW t \in Nat, NEW s \in 0 .. t
    PROVE  Good([capacity |-> burst * Minute, rate |-> rate,
                 tokens |-> burst * Minute, refilled |-> t], 0, t, s)
<1> DEFINE c == [capacity |-> burst * Minute, rate |-> rate,
                 tokens |-> burst * Minute, refilled |-> t]
<1>1. burst * Minute \in Nat /\ rate * (t - s) \in Nat /\ 0 * Minute = 0
  BY Product, LimiterAssumption
<1>2. /\ c \in Bucket /\ c.capacity = burst * Minute /\ c.rate = rate
      /\ c.tokens = burst * Minute /\ c.refilled = t
  BY <1>1 DEF Bucket
<1> HIDE DEF c
<1>3. LevelAt(c, t) \in Nat /\ LevelAt(c, t) <= c.capacity
  BY <1>2, LevelType
<1>4. Good(c, 0, t, s)
  BY <1>1, <1>2, <1>3 DEF Good
<1> QED BY <1>4 DEF c

\* Counting may begin at any time.
LEMMA GoodFromNow ==
    ASSUME NEW b, NEW g, NEW t, NEW s, Good(b, g, t, s)
    PROVE  Good(b, 0, t, t)
<1>1. LevelAt(b, t) \in Nat /\ LevelAt(b, t) <= b.capacity
  BY LevelType DEF Good
<1>2. b.rate * (t - t) = 0 /\ 0 * Minute = 0
  BY LimiterAssumption DEF Good, Bucket
<1> QED BY <1>1, <1>2 DEF Good, Bucket

-----------------------------------------------------------------------------
(* The inductive invariant. *)

\* Every bucket is covered in the sense of Good, with the counts of the observer;
\* where there is no bucket nothing has been counted.
Covered ==
    \A n \in Names :
        IF buckets[n] = Absent THEN granted[n] = 0
        ELSE Good(buckets[n], granted[n], clock, since)

IInv == TypeOK /\ Covered /\ buckets[Global] # Absent

\* The bursts in force are naturals.
LEMMA BurstType == EffectiveBurst \in Nat
BY LimiterAssumption DEF EffectiveBurst

\* What a caller turned away is told is a promise, or nothing at rate zero.
LEMMA ToldType ==
    ASSUME NEW b \in Bucket, clock \in Nat, b.refilled <= clock
    PROVE  Told(b) \in Promise \cup {Absent}
<1>1. CASE b.rate = 0
  BY <1>1 DEF Told
<1>2. CASE b.rate # 0
  <2>1. Level(b) \in Nat
    BY LevelType DEF Level, LevelAt
  <2>2. (Minute - Level(b) + b.rate - 1) \div b.rate \in Int
    <3>1. Minute - Level(b) + b.rate - 1 \in Int /\ b.rate \in Nat /\ b.rate > 0
      BY <1>2, <2>1, LimiterAssumption DEF Bucket
    <3> QED BY <3>1
  <2>3. Wait(b) \in Nat
    BY <2>2 DEF Wait
  <2> QED BY <1>2, <2>3 DEF Told, Promise
<1> QED BY <1>1, <1>2

\* try_consume on a covered bucket, with some addresses evicted, keeps the invariant.
LEMMA ConsumeStep ==
    ASSUME IInv, NEW q \in Requests, NEW n \in Names, NEW b, NEW lost \in SUBSET IPs,
           NEW next \in Asking \cup {Absent}, order' \in Seq(IPs),
           n \in lost => granted[n] = 0,
           Good(b, granted[n], clock, since), TryConsume(q, n, b, lost, next)
    PROVE  IInv' /\ Present' = (Present \ lost) \cup ({n} \cap IPs)
<1> DEFINE held == IF HasToken(b) THEN LevelAt(b, clock) - Minute ELSE LevelAt(b, clock)
           given == IF HasToken(b) THEN granted[n] + 1 ELSE granted[n]
           after == Filled(b, held, clock)
<1>1. Level(b) = LevelAt(b, clock)
  BY DEF Level, LevelAt
<1>2. Good(after, given, clock, since)
  <2>1. CASE HasToken(b)
    BY <1>1, <2>1, GoodGrant DEF HasToken
  <2>2. CASE ~HasToken(b)
    BY <2>2, GoodRefill
  <2> QED BY <2>1, <2>2
<1>3. /\ buckets' = [m \in Names |-> IF m = n THEN after
                                     ELSE IF m \in lost THEN Absent ELSE buckets[m]]
      /\ granted' = [m \in Names |-> IF m = n THEN given
                                     ELSE IF m \in lost THEN 0 ELSE granted[m]]
      /\ clock' = clock /\ since' = since /\ setting' = setting
  <2>1. CASE HasToken(b)
    <3>1. after = [b EXCEPT !.tokens = Level(b) - Minute, !.refilled = clock]
          /\ given = granted[n] + 1
      BY <1>1, <2>1, Zenon DEF Filled
    <3> HIDE DEF after, given
    <3> QED BY <2>1, <3>1, Zenon DEF TryConsume
  <2>2. CASE ~HasToken(b)
    <3>1. after = [b EXCEPT !.tokens = Level(b), !.refilled = clock]
          /\ given = granted[n]
      BY <1>1, <2>2, Zenon DEF Filled
    <3>2. granted' = [m \in Names |-> IF m \in lost THEN 0 ELSE granted[m]]
      BY <2>2, Zenon DEF TryConsume
    <3>3. granted' = [m \in Names |-> IF m = n THEN granted[n]
                                      ELSE IF m \in lost THEN 0 ELSE granted[m]]
      BY <3>2
    <3> HIDE DEF after, given
    <3> QED BY <2>2, <3>1, <3>2, Zenon DEF TryConsume
  <2> QED BY <2>1, <2>2
<1>4. retryAt' \in [Names -> Promise \cup {Absent}]
  <2>1. Told(b) \in Promise \cup {Absent}
    BY ToldType DEF Good
  <2>2. retryAt \in [Names -> Promise \cup {Absent}]
    BY DEF IInv, TypeOK
  <2> QED BY <2>1, <2>2 DEF TryConsume
<1>5. asking' \in [Requests -> Asking \cup {Absent}]
  BY DEF TryConsume, IInv, TypeOK
<1> HIDE DEF held, given, after
<1>6. after \in Bucket /\ given \in Nat /\ after # Absent
  BY <1>2, LimiterAssumption DEF Good
<1>7. TypeOK'
  BY <1>3, <1>4, <1>5, <1>6 DEF IInv, TypeOK
<1>8. Covered'
  <2> SUFFICES ASSUME NEW m \in Names
               PROVE  IF buckets'[m] = Absent THEN granted'[m] = 0
                      ELSE Good(buckets'[m], granted'[m], clock', since')
    BY DEF Covered
  <2>1. CASE m = n
    BY <1>2, <1>3, <1>6, <2>1
  <2>2. CASE m # n /\ m \in lost
    BY <1>3, <2>2
  <2>3. CASE m # n /\ m \notin lost
    BY <1>3, <2>3 DEF IInv, Covered
  <2> QED BY <2>1, <2>2, <2>3
<1>9. buckets'[Global] # Absent
  <2>1. Global \in Names /\ Global \notin lost
    BY LimiterAssumption DEF Names
  <2> QED BY <1>3, <1>6, <2>1 DEF IInv
<1>10. Present' = (Present \ lost) \cup ({n} \cap IPs)
  BY <1>3, <1>6 DEF Present, Names
<1> QED BY <1>7, <1>8, <1>9, <1>10 DEF IInv

\* The three checks of a request, under the invariant.
LEMMA CheckStep ==
    ASSUME IInv, NEW q \in Requests, CheckGlobal(q) \/ CheckIp(q) \/ CheckKey(q)
    PROVE  /\ IInv'
           /\ \/ Present' = Present /\ order' = order
              \/ \E ip \in IPs \ Present :
                    \/ /\ ~Crowded(ip)
                       /\ Present' = Present \cup {ip} /\ order' = Append(order, ip)
                    \/ /\ Crowded(ip)
                       /\ Present' = (Present \ {Head(order)}) \cup {ip}
                       /\ order' = Append(Tail(order), ip)
<1>1. asking[q] \in Asking
  BY DEF CheckGlobal, CheckIp, CheckKey, At, IInv, TypeOK
<1>2. clock \in Nat /\ since \in 0 .. clock
  BY DEF IInv, TypeOK
<1>3. \A n \in Names : buckets[n] # Absent => Good(buckets[n], granted[n], clock, since)
  BY DEF IInv, Covered
<1>4. ASSUME NEW n \in Names, NEW rate \in Nat, NEW burst \in Nat, buckets[n] = Absent
      PROVE  Good(NewBucket(rate, burst), granted[n], clock, since)
  <2>1. granted[n] = 0
    BY <1>4 DEF IInv, Covered
  <2> QED BY <1>2, <2>1, GoodNew DEF NewBucket
<1>5. CASE CheckGlobal(q)
  <2> DEFINE b == buckets[Global]
             next == [asking[q] EXCEPT !.tier = "ip"]
  <2>1. Global \in Names
    BY DEF Names
  <2>2. order' \in Seq(IPs)
    BY <1>5 DEF CheckGlobal, IInv, TypeOK
  <2>3. next \in Asking \cup {Absent}
    BY <1>1 DEF Asking
  <2>4. TryConsume(q, Global, b, {}, next)
    BY <1>5 DEF CheckGlobal
  <2>5. Good(b, granted[Global], clock, since)
    BY <1>3, <2>1 DEF IInv
  <2>6. {Global} \cap IPs = {} /\ order' = order
    BY <1>5, LimiterAssumption DEF CheckGlobal
  <2> HIDE DEF b, next, IInv
  <2>7. IInv' /\ Present' = (Present \ {}) \cup ({Global} \cap IPs)
    BY <2>1, <2>2, <2>3, <2>4, <2>5, ConsumeStep
  <2> QED BY <2>6, <2>7
<1>6. CASE CheckIp(q)
  <2> DEFINE ip == asking[q].ip
             lost == IF Crowded(ip) THEN {Head(order)} ELSE {}
             b == IF ip \in Present THEN buckets[ip] ELSE NewBucket(IpRate, EffectiveBurst)
             next == [asking[q] EXCEPT !.tier = "key"]
  <2>1. ip \in IPs /\ ip \in Names
    BY <1>1 DEF Asking, Names
  <2>2. next \in Asking \cup {Absent}
    BY <1>1 DEF Asking
  <2>3. TryConsume(q, ip, b, lost, next)
    BY <1>6, Zenon DEF CheckIp
  <2>4. lost \in SUBSET IPs
    BY DEF Crowded, IInv, TypeOK
  <2>5. order' \in Seq(IPs)
    <3>1. order \in Seq(IPs)
      BY DEF IInv, TypeOK
    <3>2. CASE ip \in Present
      BY <1>6, <3>1, <3>2 DEF CheckIp
    <3>3. CASE ip \notin Present /\ Crowded(ip)
      BY <1>6, <2>1, <3>1, <3>3 DEF CheckIp, Crowded
    <3>4. CASE ip \notin Present /\ ~Crowded(ip)
      BY <1>6, <2>1, <3>1, <3>4 DEF CheckIp
    <3> QED BY <3>2, <3>3, <3>4
  <2>6. Good(b, granted[ip], clock, since)
    <3>1. CASE ip \in Present
      BY <1>3, <2>1, <3>1 DEF Present
    <3>2. CASE ip \notin Present
      BY <1>4, <2>1, <3>2, BurstType, LimiterAssumption DEF Present
    <3> QED BY <3>1, <3>2
  <2>7. ip \in lost => granted[ip] = 0
    BY <2>1 DEF Crowded, Present, IInv, Covered
  <2>8. IInv' /\ Present' = (Present \ lost) \cup ({ip} \cap IPs)
    <3> HIDE DEF ip, lost, b, next, IInv
    <3> QED BY <2>1, <2>2, <2>3, <2>4, <2>5, <2>6, <2>7, ConsumeStep
  <2>9. CASE ip \in Present
    BY <1>6, <2>1, <2>8, <2>9 DEF CheckIp, Crowded
  <2>10. CASE ip \notin Present /\ Crowded(ip)
    <3>1. order' = Append(Tail(order), ip)
      BY <1>6, <2>10 DEF CheckIp
    <3>2. Present' = (Present \ {Head(order)}) \cup {ip}
      BY <2>1, <2>8, <2>10
    <3> HIDE DEF ip, lost, b, next, IInv
    <3> QED BY <2>1, <2>8, <2>10, <3>1, <3>2
  <2>11. CASE ip \notin Present /\ ~Crowded(ip)
    <3>1. order' = Append(order, ip)
      BY <1>6, <2>11 DEF CheckIp
    <3>2. Present' = Present \cup {ip}
      BY <2>1, <2>8, <2>11
    <3> HIDE DEF ip, lost, b, next, IInv
    <3> QED BY <2>1, <2>8, <2>11, <3>1, <3>2
  <2> QED BY <2>9, <2>10, <2>11
<1>7. CASE CheckKey(q)
  <2> DEFINE k == asking[q].key
             b == IF buckets[k] # Absent THEN buckets[k] ELSE KeyBucket(asking[q].setting)
  <2>1. k \in ApiKeys /\ k \in Names /\ asking[q].setting \in Setting
    BY <1>1 DEF Asking, Names
  <2>2. order' \in Seq(IPs)
    BY <1>7 DEF CheckKey, IInv, TypeOK
  <2>3. TryConsume(q, k, b, {}, Absent)
    BY <1>7, Zenon DEF CheckKey
  <2>4. Good(b, granted[k], clock, since)
    <3>1. CASE buckets[k] # Absent
      BY <1>3, <2>1, <3>1
    <3>2. CASE buckets[k] = Absent
      BY <1>4, <2>1, <3>2, BurstType, LimiterAssumption DEF KeyBucket, Setting
    <3> QED BY <3>1, <3>2
  <2>5. {k} \cap IPs = {} /\ order' = order
    BY <1>7, <2>1, LimiterAssumption DEF CheckKey
  <2> HIDE DEF k, b, IInv
  <2>6. IInv' /\ Present' = (Present \ {}) \cup ({k} \cap IPs)
    BY <2>1, <2>2, <2>3, <2>4, ConsumeStep
  <2> QED BY <2>5, <2>6
<1> QED BY <1>5, <1>6, <1>7

-----------------------------------------------------------------------------
(* Theorems. *)

\* Whatever the rates, bursts, settings and interleavings, the state has its types,
\* buckets hold no more than their capacity, and what they gave is covered.
THEOREM Invariant == Spec => []IInv
<1>1. Init => IInv
  <2> SUFFICES ASSUME Init PROVE IInv
    OBVIOUS
  <2>1. Good(NewBucket(GlobalRate, EffectiveBurst), 0, 0, 0)
    BY GoodNew, BurstType, LimiterAssumption DEF NewBucket, Init
  <2>2. Global \in Names
    BY DEF Names
  <2>3. NewBucket(GlobalRate, EffectiveBurst) \in Bucket
    BY <2>1 DEF Good
  <2>4. TypeOK
    BY <2>3, LimiterAssumption DEF Init, TypeOK
  <2>5. Covered
    BY <2>1, <2>2 DEF Init, Covered
  <2>6. buckets[Global] # Absent
    BY <2>2, <2>3, LimiterAssumption DEF Init
  <2> QED BY <2>4, <2>5, <2>6 DEF IInv
<1>2. IInv /\ [Next]_vars => IInv'
  <2> SUFFICES ASSUME IInv, [Next]_vars PROVE IInv'
    OBVIOUS
  <2>1. ASSUME NEW q \in Requests, NEW ip \in IPs, NEW k \in ApiKeys, Arrive(q, ip, k)
        PROVE  IInv'
    BY <2>1 DEF Arrive, IInv, TypeOK, Covered, Asking
  <2>2. ASSUME NEW q \in Requests, CheckGlobal(q) \/ CheckIp(q) \/ CheckKey(q)
        PROVE  IInv'
    BY <2>2, CheckStep
  <2>3. CASE ReloadKeys
    BY <2>3, LimiterAssumption DEF ReloadKeys, IInv, TypeOK, Covered
  <2>4. CASE Tick
    <3>1. \A n \in Names : buckets'[n] # Absent =>
             Good(buckets'[n], granted'[n], clock', since')
      BY <2>4, GoodLater DEF Tick, IInv, Covered
    <3>2. Covered'
      BY <2>4, <3>1 DEF Tick, IInv, Covered
    <3>3. TypeOK'
      BY <2>4 DEF Tick, IInv, TypeOK
    <3> QED BY <2>4, <3>2, <3>3 DEF Tick, IInv
  <2>5. CASE StartCounting
    <3>1. \A n \in Names : buckets'[n] # Absent =>
             Good(buckets'[n], granted'[n], clock', since')
      BY <2>5, GoodFromNow DEF StartCounting, IInv, Covered
    <3>2. Covered'
      BY <2>5, <3>1 DEF StartCounting, IInv, Covered
    <3>3. TypeOK'
      BY <2>5 DEF StartCounting, IInv, TypeOK
    <3> QED BY <2>5, <3>2, <3>3 DEF StartCounting, IInv
  <2>6. CASE UNCHANGED vars
    BY <2>6 DEF vars, IInv, TypeOK, Covered
  <2> QED BY <2>1, <2>2, <2>3, <2>4, <2>5, <2>6 DEF Next
<1> QED BY <1>1, <1>2, PTL DEF Spec

\* The limiter's state is well typed in every behaviour.
THEOREM TypeCorrect == Spec => []TypeOK
BY Invariant, PTL DEF IInv

\* In every window of time a bucket gives at most its burst and what accrues.
THEOREM WindowBound == Spec => []EveryWindowBounded
<1>1. IInv => EveryWindowBounded
  <2> SUFFICES ASSUME IInv, NEW n \in Names, buckets[n] # Absent
               PROVE  granted[n] * Minute
                         <= buckets[n].capacity + buckets[n].rate * (clock - since)
    BY DEF EveryWindowBounded
  <2> DEFINE b == buckets[n]
             spent == granted[n] * Minute
             bound == b.capacity + b.rate * (clock - since)
  <2>1. Good(b, granted[n], clock, since)
    BY DEF IInv, Covered
  <2>2. LevelAt(b, clock) \in Nat
    BY <2>1, LevelType DEF Good
  <2>3. spent \in Nat
    BY <2>1, Product, LimiterAssumption DEF Good
  <2>4. bound \in Nat
    BY <2>1, Product DEF Good, Bucket
  <2>5. spent + LevelAt(b, clock) <= bound
    BY <2>1 DEF Good
  <2> HIDE DEF spent, bound
  <2>6. spent <= bound
    BY <2>2, <2>3, <2>4, <2>5
  <2> QED BY <2>6 DEF spent, bound
<1> QED BY <1>1, Invariant, PTL

-----------------------------------------------------------------------------
(* The address table. *)

\* The queue names each address of the map once.
Queued == \A i, j \in 1 .. Len(order) : order[i] = order[j] => i = j

TableInv == IpTableBounded /\ Queued

\* A new address, with or without an eviction, keeps map and queue in step.
LEMMA TableStep ==
    ASSUME IInv, TableInv, NEW q \in Requests, CheckGlobal(q) \/ CheckIp(q) \/ CheckKey(q)
    PROVE  TableInv'
<1>1. /\ IsFiniteSet(Present) /\ Cardinality(Present) \in Nat
      /\ order \in Seq(IPs) /\ Len(order) \in Nat
  BY FS_Subset, FS_CardinalityType, LimiterAssumption DEF Present, IInv, TypeOK
<1>2. CASE Present' = Present /\ order' = order
  BY <1>2 DEF TableInv, IpTableBounded, Queued
<1>3. ASSUME NEW ip \in IPs \ Present, ~Crowded(ip),
             Present' = Present \cup {ip}, order' = Append(order, ip)
      PROVE  TableInv'
  <2>1. /\ Len(order') = Len(order) + 1
        /\ \A i \in 1 .. Len(order) : order'[i] = order[i] /\ order[i] \in Present
        /\ order'[Len(order) + 1] = ip
    BY <1>1, <1>3 DEF TableInv, IpTableBounded
  <2>2. Cardinality(Present') = Cardinality(Present) + 1
    BY <1>1, <1>3, FS_AddElement
  <2>3. TableSize > 0 => Cardinality(Present) < TableSize
    <3>1. order = <<>> => Cardinality(Present) = 0
      BY DEF TableInv, IpTableBounded
    <3> QED BY <1>1, <1>3, <3>1, LimiterAssumption DEF Crowded
  <2>4. {order'[i] : i \in 1 .. Len(order')} = Present'
    BY <1>1, <1>3, <2>1 DEF TableInv, IpTableBounded
  <2>5. Queued'
    BY <1>1, <1>3, <2>1 DEF TableInv, Queued
  <2> QED BY <1>1, <2>1, <2>2, <2>3, <2>4, <2>5, LimiterAssumption
          DEF TableInv, IpTableBounded
<1>4. ASSUME NEW ip \in IPs \ Present, Crowded(ip),
             Present' = (Present \ {Head(order)}) \cup {ip},
             order' = Append(Tail(order), ip)
      PROVE  TableInv'
  <2> DEFINE first == Head(order)
  <2>1. /\ Len(order) >= 1 /\ first = order[1] /\ first \in Present
        /\ \A i \in 1 .. Len(order) : order[i] \in Present
    BY <1>1, <1>4 DEF TableInv, IpTableBounded, Crowded
  <2>2. /\ Len(order') = Len(order)
        /\ \A i \in 1 .. Len(order) - 1 : order'[i] = order[i + 1]
        /\ order'[Len(order)] = ip
    BY <1>1, <1>4, <2>1
  <2>3. Cardinality(Present') = Cardinality(Present)
    <3>1. /\ Cardinality(Present \ {first}) = Cardinality(Present) - 1
          /\ IsFiniteSet(Present \ {first})
      BY <1>1, <2>1, FS_RemoveElement
    <3>2. Cardinality((Present \ {first}) \cup {ip}) = Cardinality(Present \ {first}) + 1
      BY <3>1, <1>4, FS_AddElement
    <3> QED BY <1>1, <1>4, <3>1, <3>2
  <2>4. \A i \in 1 .. Len(order) - 1 : order'[i] \in Present \ {first}
    BY <1>1, <2>1, <2>2 DEF TableInv, Queued
  <2>5. \A other \in Present \ {first} : \E i \in 1 .. Len(order) - 1 : order'[i] = other
    <3> SUFFICES ASSUME NEW other \in Present \ {first}
                 PROVE  \E i \in 1 .. Len(order) - 1 : order'[i] = other
      OBVIOUS
    <3>1. PICK j \in 1 .. Len(order) : order[j] = other
      BY DEF TableInv, IpTableBounded
    <3>2. j - 1 \in 1 .. Len(order) - 1 /\ (j - 1) + 1 = j
      BY <1>1, <2>1, <3>1
    <3> QED BY <2>2, <3>1, <3>2
  <2>6. {order'[i] : i \in 1 .. Len(order')} = Present'
    <3> DEFINE n == Len(order)
    <3>1. n \in Nat /\ n >= 1 /\ Len(order') = n /\ order'[n] = ip
      BY <1>1, <2>1, <2>2
    <3>2. Present' = (Present \ {first}) \cup {ip}
      BY <1>4
    <3>3. \A i \in 1 .. n - 1 : order'[i] \in Present \ {first}
      BY <2>4
    <3>4. \A other \in Present \ {first} : \E i \in 1 .. n - 1 : order'[i] = other
      BY <2>5
    <3> HIDE DEF n, first
    <3>5. \A i \in 1 .. n : order'[i] \in Present'
      BY <3>1, <3>2, <3>3
    <3>6. \A other \in Present' : \E i \in 1 .. n : order'[i] = other
      BY <3>1, <3>2, <3>4
    <3> QED BY <3>1, <3>5, <3>6
  <2>7. Queued'
    BY <1>1, <1>4, <2>1, <2>2, <2>4 DEF TableInv, Queued
  <2> QED BY <1>1, <2>2, <2>3, <2>6, <2>7 DEF TableInv, IpTableBounded
<1> QED BY <1>2, <1>3, <1>4, CheckStep

\* by_ip never holds more than ip_table_size addresses.
THEOREM TableBound == Spec => []IpTableBounded
<1>1. Init => TableInv
  <2> SUFFICES ASSUME Init PROVE TableInv
    OBVIOUS
  <2>1. Present = {} /\ order = <<>>
    BY LimiterAssumption DEF Init, Present, Names
  <2> QED BY <2>1, FS_EmptySet, LimiterAssumption DEF TableInv, IpTableBounded, Queued
<1>2. IInv /\ TableInv /\ [Next]_vars => TableInv'
  <2> SUFFICES ASSUME IInv, TableInv, [Next]_vars PROVE TableInv'
    OBVIOUS
  <2>1. CASE \E q \in Requests : CheckGlobal(q) \/ CheckIp(q) \/ CheckKey(q)
    BY <2>1, TableStep
  <2>2. CASE UNCHANGED <<buckets, order>>
    <3>1. Present' = Present /\ order' = order
      BY <2>2 DEF Present
    <3> QED BY <3>1 DEF TableInv, IpTableBounded, Queued
  <2> QED BY <2>1, <2>2 DEF Next, Arrive, ReloadKeys, Tick, StartCounting, vars
<1>3. TableInv => IpTableBounded
  BY DEF TableInv
<1> QED BY <1>1, <1>2, <1>3, Invariant, PTL DEF Spec

-----------------------------------------------------------------------------
(* Retry-After. *)

\* A bucket has room for a token at least.
Roomy == \A n \in Names : buckets[n] # Absent => buckets[n].capacity >= Minute

\* Promise p was made when b was last refilled, and counts the seconds b needs.
Kept(b, p) ==
    /\ p.wait \in Nat /\ p.at = b.refilled + p.wait
    /\ b.tokens + p.wait * b.rate >= Minute
    /\ p.wait > 1 => b.tokens + (p.wait - 1) * b.rate < Minute

\* The bucket a promise is about has not been touched since the promise.
PromisesKept ==
    \A n \in Names : retryAt[n] # Absent =>
        buckets[n] # Absent /\ Kept(buckets[n], retryAt[n])

PromiseInv == Roomy /\ PromisesKept

\* A quotient is the largest that fits.
LEMMA Quotient ==
    ASSUME NEW a \in Nat, NEW c \in Nat \ {0}
    PROVE  a \div c \in Nat /\ (a \div c) * c <= a /\ a < (a \div c) * c + c
BY SMTT(30)

\* A product grows with its factor.
LEMMA Monotone ==
    ASSUME NEW a \in Nat, NEW d \in Nat, NEW c \in Nat, a <= d
    PROVE  a * c <= d * c
BY SMTT(30)

\* One less of a factor.
LEMMA OneLess ==
    ASSUME NEW a \in Nat, NEW c \in Nat
    PROVE  (a - 1) * c = a * c - c
BY SMTT(30)

\* The wait is the least number of seconds after which a token is there.
LEMMA WaitExact ==
    ASSUME NEW b \in Bucket, clock \in Nat, b.refilled <= clock, b.rate # 0, ~HasToken(b)
    PROVE  /\ Wait(b) \in Nat
           /\ Level(b) + Wait(b) * b.rate >= Minute
           /\ Level(b) + (Wait(b) - 1) * b.rate < Minute
<1> DEFINE missing == Minute - Level(b)
           total == missing + b.rate - 1
           seconds == total \div b.rate
<1>1. Level(b) \in Nat
  BY LevelType DEF Level, LevelAt
<1>2. b.rate \in Nat \ {0} /\ missing \in Nat \ {0} /\ total \in Nat
  BY <1>1, LimiterAssumption DEF HasToken, Bucket
<1>3. seconds \in Nat /\ seconds * b.rate <= total /\ total < seconds * b.rate + b.rate
  <2> HIDE DEF total
  <2> QED BY <1>2, Quotient
<1>4. Wait(b) = IF seconds >= 1 THEN seconds ELSE 1
  BY Zenon DEF Wait
<1>5. seconds * b.rate \in Nat
  BY <1>2, <1>3, Product
<1>6. total = missing + b.rate - 1 /\ missing = Minute - Level(b)
  OBVIOUS
<1> HIDE DEF seconds, total, missing
<1>7. seconds >= 1
  <2>1. seconds = 0 => seconds * b.rate = 0
    BY <1>2
  <2> QED BY <1>2, <1>3, <1>5, <1>6, <2>1
<1>8. (seconds - 1) * b.rate = seconds * b.rate - b.rate
  BY <1>2, <1>3, OneLess
<1>9. Wait(b) = seconds
  BY <1>4, <1>7
<1> QED BY <1>1, <1>2, <1>3, <1>5, <1>6, <1>8, <1>9, LimiterAssumption

\* Bursts in force hold a token at least, and so do the buckets made with them.
LEMMA BurstPositive == EffectiveBurst \in Nat \ {0}
BY LimiterAssumption DEF EffectiveBurst

\* A new bucket has room for a token.
LEMMA NewRoomy ==
    ASSUME NEW rate, NEW burst \in Nat \ {0}
    PROVE  NewBucket(rate, burst).capacity >= Minute
<1>1. burst * Minute >= Minute
  <2>1. 1 * Minute <= burst * Minute
    BY Monotone, LimiterAssumption
  <2> QED BY <2>1, LimiterAssumption
<1> QED BY <1>1 DEF NewBucket

\* A refusal makes a promise that holds; a grant and an eviction take it back.
LEMMA PromiseStep ==
    ASSUME IInv, PromiseInv, NEW q, NEW n \in Names, NEW b, NEW lost, NEW next,
           b \in Bucket, b.refilled <= clock, b.capacity >= Minute,
           TryConsume(q, n, b, lost, next)
    PROVE  PromiseInv'
<1>1. clock \in Nat /\ Level(b) \in Nat
  BY LevelType DEF IInv, TypeOK, Level, LevelAt
<1>2. CASE HasToken(b)
  <2> DEFINE after == [b EXCEPT !.tokens = Level(b) - Minute, !.refilled = clock]
  <2>1. /\ buckets' = [m \in Names |-> IF m = n THEN after
                          ELSE IF m \in lost THEN Absent ELSE buckets[m]]
        /\ retryAt' = [m \in Names |-> IF m \in lost \cup {n} THEN Absent ELSE retryAt[m]]
    BY <1>2, Zenon DEF TryConsume
  <2>2. after.capacity = b.capacity
    BY DEF Bucket
  <2> HIDE DEF after
  <2>3. Roomy'
    BY <2>1, <2>2 DEF Roomy, PromiseInv
  <2>4. PromisesKept'
    BY <2>1 DEF PromisesKept, PromiseInv, Kept
  <2> QED BY <2>3, <2>4 DEF PromiseInv
<1>3. CASE ~HasToken(b)
  <2> DEFINE after == [b EXCEPT !.tokens = Level(b), !.refilled = clock]
  <2>1. /\ buckets' = [m \in Names |-> IF m = n THEN after
                          ELSE IF m \in lost THEN Absent ELSE buckets[m]]
        /\ retryAt' = [m \in Names |-> IF m = n THEN Told(b)
                          ELSE IF m \in lost THEN Absent ELSE retryAt[m]]
    BY <1>3, Zenon DEF TryConsume
  <2>2. /\ after.capacity = b.capacity /\ after.rate = b.rate
        /\ after.tokens = Level(b) /\ after.refilled = clock /\ after \in Bucket
    BY <1>1 DEF Bucket
  <2>3. Told(b) # Absent => Kept(after, Told(b))
    <3> SUFFICES ASSUME b.rate # 0 PROVE Kept(after, Told(b))
      BY DEF Told
    <3>1. Told(b) = [at |-> clock + Wait(b), wait |-> Wait(b)]
      BY DEF Told
    <3>2. /\ Wait(b) \in Nat
          /\ Level(b) + Wait(b) * b.rate >= Minute
          /\ Level(b) + (Wait(b) - 1) * b.rate < Minute
      BY <1>1, <1>3, WaitExact
    <3> HIDE DEF after
    <3> QED BY <2>2, <3>1, <3>2 DEF Kept
  <2>4. after # Absent
    BY <2>2, LimiterAssumption
  <2> HIDE DEF after
  <2>5. Roomy'
    BY <2>1, <2>2 DEF Roomy, PromiseInv
  <2>6. PromisesKept'
    <3> SUFFICES ASSUME NEW m \in Names, retryAt'[m] # Absent
                 PROVE  buckets'[m] # Absent /\ Kept(buckets'[m], retryAt'[m])
      BY DEF PromisesKept, Kept
    <3>1. CASE m = n
      BY <2>1, <2>3, <2>4, <3>1
    <3>2. CASE m # n
      BY <2>1, <3>2 DEF PromisesKept, PromiseInv
    <3> QED BY <3>1, <3>2
  <2> QED BY <2>5, <2>6 DEF PromiseInv
<1> QED BY <1>2, <1>3

\* While a caller waits as it was told, the bucket comes to hold a token at the
\* promised second and, where the wait is not the minimum, not before.
THEOREM RetryAfterTrue == Spec => []RetryAfterExact
<1>1. Init => PromiseInv
  <2> SUFFICES ASSUME Init PROVE PromiseInv
    OBVIOUS
  <2>1. NewBucket(GlobalRate, EffectiveBurst).capacity >= Minute
    BY NewRoomy, BurstPositive
  <2> QED BY <2>1 DEF Init, PromiseInv, Roomy, PromisesKept
<1>2. IInv /\ PromiseInv /\ [Next]_vars => PromiseInv'
  <2> SUFFICES ASSUME IInv, PromiseInv, [Next]_vars PROVE PromiseInv'
    OBVIOUS
  <2>1. \A n \in Names : buckets[n] # Absent =>
           /\ buckets[n] \in Bucket /\ buckets[n].refilled <= clock
           /\ buckets[n].capacity >= Minute
    BY DEF IInv, Covered, Good, PromiseInv, Roomy
  <2>2. ASSUME NEW rate \in Nat, NEW burst \in Nat \ {0}
        PROVE  /\ NewBucket(rate, burst) \in Bucket
               /\ NewBucket(rate, burst).refilled <= clock
               /\ NewBucket(rate, burst).capacity >= Minute
    <3>1. burst * Minute \in Nat /\ clock \in Nat
      BY Product, LimiterAssumption DEF IInv, TypeOK
    <3> QED BY <3>1, NewRoomy DEF NewBucket, Bucket
  <2>3. ASSUME NEW q \in Requests, CheckGlobal(q)
        PROVE  PromiseInv'
    <3>1. Global \in Names /\ buckets[Global] # Absent
      BY DEF Names, IInv
    <3> HIDE DEF IInv, PromiseInv
    <3> QED BY <2>1, <2>3, <3>1, PromiseStep DEF CheckGlobal
  <2>4. ASSUME NEW q \in Requests, CheckIp(q)
        PROVE  PromiseInv'
    <3> DEFINE ip == asking[q].ip
               lost == IF Crowded(ip) THEN {Head(order)} ELSE {}
               b == IF ip \in Present THEN buckets[ip] ELSE NewBucket(IpRate, EffectiveBurst)
               next == [asking[q] EXCEPT !.tier = "key"]
    <3>1. ip \in IPs /\ ip \in Names
      BY <2>4 DEF CheckIp, At, IInv, TypeOK, Asking, Names
    <3>2. b \in Bucket /\ b.refilled <= clock /\ b.capacity >= Minute
      BY <2>1, <2>2, <3>1, BurstPositive, LimiterAssumption DEF Present
    <3>3. TryConsume(q, ip, b, lost, next)
      BY <2>4, Zenon DEF CheckIp
    <3> HIDE DEF ip, lost, b, next, IInv, PromiseInv
    <3> QED BY <3>1, <3>2, <3>3, PromiseStep
  <2>5. ASSUME NEW q \in Requests, CheckKey(q)
        PROVE  PromiseInv'
    <3> DEFINE k == asking[q].key
               b == IF buckets[k] # Absent THEN buckets[k] ELSE KeyBucket(asking[q].setting)
    <3>1. k \in Names /\ asking[q].setting \in Setting
      BY <2>5 DEF CheckKey, At, IInv, TypeOK, Asking, Names
    <3>2. b \in Bucket /\ b.refilled <= clock /\ b.capacity >= Minute
      BY <2>1, <2>2, <3>1, BurstPositive, LimiterAssumption DEF KeyBucket, Setting
    <3>3. TryConsume(q, k, b, {}, Absent)
      BY <2>5, Zenon DEF CheckKey
    <3> HIDE DEF k, b, IInv, PromiseInv
    <3> QED BY <3>1, <3>2, <3>3, PromiseStep
  <2>6. CASE UNCHANGED <<buckets, retryAt>>
    BY <2>6 DEF PromiseInv, Roomy, PromisesKept, Kept
  <2> QED BY <2>3, <2>4, <2>5, <2>6
          DEF Next, Arrive, ReloadKeys, Tick, StartCounting, vars
<1>3. IInv /\ PromiseInv => RetryAfterExact
  <2> SUFFICES ASSUME IInv, PromiseInv, NEW n \in Names, retryAt[n] # Absent
               PROVE  /\ buckets[n] # Absent
                      /\ clock >= retryAt[n].at => Level(buckets[n]) >= Minute
                      /\ clock + 1 <= retryAt[n].at /\ retryAt[n].wait > 1 =>
                            Level(buckets[n]) < Minute
    BY DEF RetryAfterExact
  <2> DEFINE b == buckets[n]
             wait == retryAt[n].wait
             age == clock - b.refilled
  <2>1. b # Absent /\ Kept(b, retryAt[n]) /\ b.capacity >= Minute
    BY DEF PromiseInv, PromisesKept, Roomy
  <2>2. b \in Bucket /\ b.refilled <= clock /\ clock \in Nat
    BY <2>1 DEF IInv, Covered, Good
  <2>3. age \in Nat /\ wait \in Nat /\ b.rate \in Nat /\ b.tokens \in Nat /\ b.capacity \in Nat
    BY <2>1, <2>2 DEF Kept, Bucket
  <2>4. Level(b) = IF b.tokens + age * b.rate <= b.capacity
                   THEN b.tokens + age * b.rate ELSE b.capacity
    BY DEF Level
  <2>5. retryAt[n].at = b.refilled + wait /\ clock = b.refilled + age
    BY <2>1, <2>2 DEF Kept, Bucket
  <2>6. b.refilled \in Nat /\ age * b.rate \in Nat /\ wait * b.rate \in Nat
    BY <2>2, <2>3, Product DEF Bucket
  <2>7. ASSUME clock >= retryAt[n].at PROVE Level(b) >= Minute
    <3>1. wait <= age
      BY <2>3, <2>5, <2>6, <2>7
    <3>2. wait * b.rate <= age * b.rate
      BY <2>3, <3>1, Monotone
    <3>3. b.tokens + wait * b.rate >= Minute
      BY <2>1 DEF Kept
    <3> HIDE DEF b, wait, age
    <3> QED BY <2>1, <2>3, <2>4, <2>6, <3>2, <3>3, LimiterAssumption
  <2>8. ASSUME clock + 1 <= retryAt[n].at, wait > 1 PROVE Level(b) < Minute
    <3>1. age <= wait - 1 /\ wait - 1 \in Nat
      BY <2>3, <2>5, <2>6, <2>8
    <3>2. age * b.rate <= (wait - 1) * b.rate /\ (wait - 1) * b.rate \in Nat
      BY <2>3, <3>1, Monotone, Product
    <3>3. b.tokens + (wait - 1) * b.rate < Minute
      BY <2>1, <2>8 DEF Kept
    <3> HIDE DEF b, wait, age
    <3> QED BY <2>1, <2>3, <2>4, <2>6, <3>2, <3>3, LimiterAssumption
  <2> QED BY <2>1, <2>7, <2>8
<1> QED BY <1>1, <1>2, <1>3, Invariant, PTL DEF Spec
===============================================================================
