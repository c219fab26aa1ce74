\* Up to three messages, two submissions at a time, or up to two with no limit; a fourth
\* message is refused.
SPECIFICATION Spec
CONSTANTS
    Ids <- IdsOfThree
    MaxBulk = 3
    Loads <- MixedLoads
    Keys = {k1}
    ApiKey = k1
    Codes <- AllCodes
    Updates <- AllUpdates
    NoCode = "none"
    Absent = Absent
    Clients = {}
INVARIANTS
    ResultsMatchRequest
    ParallelismBounded
    ResultTellsOutcome
    TwoPhases
PROPERTIES
    EveryBulkAnswered
    DropEndsSubmissions
CHECK_DEADLOCK FALSE
