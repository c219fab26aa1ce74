\* Edits and SIGHUPs at any time, around a reload and two requests.
SPECIFICATION Spec
CONSTANTS
    ApiKeys = {k1, k2}
    Requests = {r1, r2}
    Values = {"a", "b"}
    Malformed = Malformed
    Features = {"sqlite"}
    Files <- AllFiles
INVARIANTS
    MergedIsValid
    OneFileInForce
    MissingOnlyIfRemoved
PROPERTIES
    SignalsNotLost
