\* Two lookups and the sweep race for expired records while puts evict; seen by its
\* clients the store keeps the contract of the StatusStore trait.
SPECIFICATION Spec
CONSTANTS
    Ids = {s1, s2}
    Keys = {k1, k2}
    Codes = {NoCode}
    Updates = {"smtp_accepted"}
    NoCode = NoCode
    Absent = Absent
    Clients = {c1, c2}
    Counters = {}
    Ttls = {1}
    Caps = {1}
    MaxLag = 0
    MaxTime = 2
INVARIANTS
    ExpiredCountedOnce
    UpgradesFindTheDead
PROPERTIES
    ImplementsBoard
    ExpiredAreSwept
