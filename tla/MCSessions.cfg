CONSTANTS
    Processes = {p1, p2, p3}
    p1 = p1
    p2 = p2
    p3 = p3
    Customers <- TwoCustomers
    FtokModulus = 2
    SemaphoresExist = FALSE
    MaxSessions = 2
    MaxDeaths = 2
SPECIFICATION FairSpec
INVARIANTS
    TypeOK
    OneSessionPerKey
PROPERTIES
    RefusedForAReason
    ServicesStart
    ImplementsAdmission
CHECK_DEADLOCK FALSE
