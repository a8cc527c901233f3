CONSTANTS
    c1 = c1
    c2 = c2
    k1 = k1
    Customers = {c1, c2}
    Clerks = {k1}
    AccountOf <- ShippedAccountOf
    Opening <- ShippedOpening
    Receivers <- ShippedReceivers
    DeleteTargets <- ShippedTargets
    Garbage <- SharedGarbage
    Amounts = {1}
    MaxInt = 9
    FilesMayFail = FALSE
    MaxCalls <- ShippedCalls
    MaxDeaths = 0
SPECIFICATION Spec
PROPERTIES
    DeletionClosesTheAccountNamed
CHECK_DEADLOCK FALSE
