\* status-tracking.md:96 and RFC 810: a rejection by the server is smtp_rejected.
SPECIFICATION Spec
CONSTANTS
    Ids <- IdsOfTwo
    MaxBulk = 2
    Loads <- PairLoad
    Keys = {k1}
    ApiKey = k1
    Codes <- AllCodes
    Updates <- AllUpdates
    NoCode = "none"
    Absent = Absent
    Clients = {}
INVARIANT
    RejectionReported
CHECK_DEADLOCK FALSE
