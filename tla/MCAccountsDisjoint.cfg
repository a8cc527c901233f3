CONSTANTS
    c1 = c1
    c2 = c2
    k1 = k1
    Customers = {c1, c2}
    Clerks = {k1}
    AccountOf <- DisjointAccountOf
    Opening <- DisjointOpening
    Receivers <- DisjointReceivers
    DeleteTargets <- DisjointTargets
    Garbage <- SharedGarbage
    Amounts = {0, 1, 2}
    MaxInt = 9
    FilesMayFail = FALSE
    MaxCalls <- DisjointCalls
    MaxDeaths = 3
SPECIFICATION Spec
INVARIANTS
    BooksBalance
    NotFoundMeansAbsent
PROPERTIES
    NoLostUpdate
    DeletionClosesTheAccountNamed
CHECK_DEADLOCK FALSE
