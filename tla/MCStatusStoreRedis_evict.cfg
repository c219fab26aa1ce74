\* A handler and two lookups between whose commands Redis drops the key.
SPECIFICATION Spec
CONSTANTS
    Ids = {s1}
    Keys = {k1, k2}
    Codes = {NoCode}
    Updates = {"smtp_submission_started", "smtp_accepted", "smtp_failed"}
    NoCode = NoCode
    Absent = Absent
    Clients = {c1, c2}
    Ttls = {1, 2}
    Second = 2
    MaxTime = 5
    MaxFaults = 2
SYMMETRY Symmetric
PROPERTIES
    ImplementsBoard
    UpdatesKeepLifetime
    LookupsDeleteOnlyExpired
    AnswersStable
