\* A crash or a failing statement, anywhere, with reloads of the cap.
SPECIFICATION Spec
CONSTANTS
    Ids = {s1, s2}
    Keys = {k1}
    Codes = {NoCode}
    Updates = {"smtp_submission_started", "smtp_accepted"}
    NoCode = NoCode
    Absent = Absent
    Clients = {c1}
    Ttls = {1}
    Caps = {1, 2}
    MaxLag = 1
    MaxTime = 2
    MaxFaults = 1
INVARIANTS
    GaugeMissesOnlyUncounted
PROPERTIES
    ImplementsBoard
    EarlyLossOnlyOfOldestAtCap
    CapEnforced
    AnswersStable
    ExpiredAreSwept
