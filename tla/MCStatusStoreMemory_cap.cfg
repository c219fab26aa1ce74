\* Evictions by put and sweep under a cap that reloads move, and a count of the
\* records between its lock and the gauge while a lookup, a sweep and puts go on.
SPECIFICATION Spec
CONSTANTS
    Ids = {s1, s2, s3}
    Keys = {k1}
    Codes = {NoCode}
    Updates = {}
    NoCode = NoCode
    Absent = Absent
    Clients = {c1}
    Counters = {n1}
    Ttls = {1, 2}
    Caps = {0, 1, 2}
    MaxLag = 1
    MaxTime = 2
SYMMETRY Symmetric
INVARIANTS
    GaugeTracksStore
PROPERTIES
    EarlyLossOnlyAtCap
    YoungerNeverEvictedFirst
    CapEnforced
