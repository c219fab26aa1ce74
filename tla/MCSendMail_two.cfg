\* Two requests of one key share a table of one or two slots, under three settings of the server.
SPECIFICATION Spec
CONSTANTS
    Ids = {r1, r2}
    Keys = {k1}
    Codes <- AllCodes
    Updates <- AllUpdates
    NoCode = "none"
    Absent = Absent
    Clients = {}
    Ttls = {1}
    Caps = {1, 2}
    MaxLag = 0
    MaxTime = 2
    Timers <- AllTimers
INVARIANTS
    StatusTellsTruth
    AnswerMatchesRecord
PROPERTIES
    EveryRequestAnswered
    EveryRecordSettles
