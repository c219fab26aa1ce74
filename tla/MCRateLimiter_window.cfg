\* Two requests from three addresses, two slots in the address table, a key's setting
\* reloaded.
SPECIFICATION Spec
CONSTANTS
    Requests = {q1, q2}
    IPs = {i1, i2, i3}
    ApiKeys = {k1}
    Global = global
    Minute = 3
    GlobalRate = 2
    IpRate = 1
    KeyRate = 2
    TierBurst = 2
    LegacyBurst = 0
    DefaultBurst = 1
    TableSize = 2
    Overrides <- Mixed
    Unset = Unset
    Absent = Absent
    MaxTime = 2
SYMMETRY Symmetric
INVARIANTS
    EveryWindowBounded
    RetryAfterExact
    IpTableBounded
