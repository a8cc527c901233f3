CONSTANTS
    Processes = {p1, p2, p3}
    p1 = p1
    p2 = p2
    p3 = p3
    Customers <- ThreeCustomers
    FtokModulus = 256
    SemaphoresExist = TRUE
    MaxSessions = 1
    MaxDeaths = 1
SPECIFICATION Spec
PROPERTIES
    AlreadyLoggedInIsTrue
CHECK_DEADLOCK FALSE
