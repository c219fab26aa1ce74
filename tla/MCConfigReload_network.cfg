\* A reload of a file with other CIDRs.
SPECIFICATION Spec
CONSTANTS
    ApiKeys = {k1}
    Requests = {r1}
    Values = {"a", "b"}
    Malformed = Malformed
    Features = {"sqlite"}
    Files <- AllFiles
PROPERTIES
    RestartFieldsIgnored
