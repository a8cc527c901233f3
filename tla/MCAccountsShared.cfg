CONSTANTS
    c1 = c1
    c2 = c2
    k1 = k1
    Customers = {c1, c2}
    Clerks = {k1}
    AccountOf <- SharedAccountOf
    Opening <- SharedOpening
    Receivers <- SharedReceivers
    DeleteTargets <- SharedTargets
    Garbage <- SharedGarbage
    Amounts = {1}
    MaxInt = 9
    FilesMayFail = TRUE
    MaxCalls <- SharedCalls
    MaxDeaths = 1
SPECIFICATION FairSpec
INVARIANTS
    TypeOK
    InactiveAccountsEmpty
    NoOverdraft
PROPERTIES
    RecordsStayPut
    CommittedCallsEnd
CHECK_DEADLOCK FALSE
