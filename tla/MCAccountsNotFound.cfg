CONSTANTS
    c1 = c1
    c2 = c2
    k1 = k1
    Customers = {c1, c2}
    Clerks = {k1}
    AccountOf <- SharedAccountOf
    Opening <- SharedOpening
    Receivers <- SharedReceivers
    DeleteTargets <- SharedTargets
    Garbage <- SharedGarbage
    Amounts = {1}
    MaxInt = 9
    FilesMayFail = FALSE
    MaxCalls <- CustomerCalls
    MaxDeaths = 0
SPECIFICATION Spec
INVARIANTS
    NotFoundMeansAbsent
CHECK_DEADLOCK FALSE
