\* configuration.md:50: a rate of 0 means the default rate.
SPECIFICATION Spec
CONSTANTS
    Requests = {q1}
    IPs = {i1}
    ApiKeys = {k1}
    Global = global
    Minute = 2
    GlobalRate = 2
    IpRate = 2
    KeyRate = 2
    TierBurst = 1
    LegacyBurst = 0
    DefaultBurst = 1
    TableSize = 1
    Overrides <- ZeroRate
    Unset = Unset
    Absent = Absent
    MaxTime = 1
INVARIANT
    ZeroMeansDefault
