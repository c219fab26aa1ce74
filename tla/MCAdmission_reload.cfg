\* A request under one configuration at its authentication and another in its handler.
SPECIFICATION Spec
CONSTANTS
    IpAddrs = {"proxy", "client", "other"}
    Tokens = {"t1", "t2", "t3"}
    KeyIds = {"k1", "k2"}
    Names = {"a", "b"}
    Domains = {"x", "y"}
    Malformed = Malformed
    Absent = Absent
    Configs <- AllConfigs
    Arrivals <- AllArrivals
PROPERTIES
    ClientAddressVouched
    KeyPresented
    RecipientsPermitted
    LimitsKept
    
CHECK_DEADLOCK FALSE
